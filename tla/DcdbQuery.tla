------------------------------- MODULE DcdbQuery -------------------------------
(***************************************************************************)
(* Telemetry sensor queries of the DCDB device.  A client thread creates a *)
(* query on an initialized session, sets its parameters, submits it, waits *)
(* for it, cancels it and frees it; submit starts a std::async task that   *)
(* runs submit_query on the same query object with no lock between the two.*)
(* Each access of a task or of a blocking call to the query object is a    *)
(* step of its own.  Calls on one query handle are made one at a time,     *)
(* except cancel, which another thread may call while wait blocks.         *)
(***************************************************************************)
EXTENDS DcdbSession

CONSTANTS
  Query,           \* query handles; create returns each of them at most once
  MaxSubmits,      \* bound: how often one query is submitted
  LaunchPolicies,  \* what std::async's default policy may choose
  Time,            \* timestamps
  Sensor,          \* telemetry sensors
  NoSensor,        \* the placeholder sensor a new query is created with
  NoSession        \* the session of a query that was not created yet

ASSUME QueryAssumption ==
  /\ MaxSubmits \in Nat \ {0}
  /\ LaunchPolicies \subseteq {"async", "deferred"}
  /\ Time \subseteq Nat
  /\ 0 \in Time
  /\ NoSession \notin Session

Task == Query \X (1 .. MaxSubmits)   \* <<q, n>>: the n-th submission of q
Window == [start: Time, end: Time, sensor: Sensor \cup {NoSensor}]
NoWindow == [start |-> 0, end |-> 0, sensor |-> NoSensor]

VARIABLES
  owner,      \* the session a query was created on
  live,       \* "none", "live" or "freed"
  status,     \* the query's status field
  param,      \* its start_time, end_time and telemetrysensor fields
  results,    \* 0 when empty, n when it holds what submission n read
  submits,    \* how often the query was submitted
  future,     \* the submission async_query refers to; 0 is the invalid future
  call,       \* where the client thread is inside a blocking call on the query
  canceling,  \* a cancel has tested the status and not written it yet
  pc,         \* where a task is in submit_query
  seen        \* the parameters a task passed to sensor->query

queryVars == <<owner, live, status, param, results, submits, future, call,
               canceling, pc, seen>>
vars == <<sessionVars, queryVars>>

Status == {"created", "submitted", "running", "done", "canceled"}
Call == {"idle", "launch", "adopt", "wait", "free"}

\* The steps of submit_query between its launch and its return.
Running == {"start", "arguments", "fetch", "store", "check", "mark"}
PC == {"none", "deferred", "finished", "dropped"} \cup Running

TypeOK ==
  /\ SessionTypeOK
  /\ owner \in [Query -> Session \cup {NoSession}]
  /\ live \in [Query -> {"none", "live", "freed"}]
  /\ status \in [Query -> Status]
  /\ param \in [Query -> Window]
  /\ results \in [Query -> 0 .. MaxSubmits]
  /\ submits \in [Query -> 0 .. MaxSubmits]
  /\ future \in [Query -> 0 .. MaxSubmits]
  /\ call \in [Query -> Call]
  /\ canceling \in [Query -> BOOLEAN]
  /\ pc \in [Task -> PC]
  /\ seen \in [Task -> Window]

Init ==
  /\ SessionInit
  /\ owner = [q \in Query |-> NoSession]
  /\ live = [q \in Query |-> "none"]
  /\ status = [q \in Query |-> "created"]
  /\ param = [q \in Query |-> NoWindow]
  /\ results = [q \in Query |-> 0]
  /\ submits = [q \in Query |-> 0]
  /\ future = [q \in Query |-> 0]
  /\ call = [q \in Query |-> "idle"]
  /\ canceling = [q \in Query |-> FALSE]
  /\ pc = [t \in Task |-> "none"]
  /\ seen = [t \in Task |-> NoWindow]

\* The process runs, and the step leaves the sessions alone.
QueryOnly == Up /\ UNCHANGED sessionVars

--------------------------------------------------------------------------------
(* Client calls that return at once.                                       *)

\* A call on q needs a live query and, but for cancel, no other call on it.
Callable(q) == live[q] = "live" /\ call[q] = "idle" /\ ~canceling[q]

CreateQuery(s, q) ==
  /\ QueryOnly
  /\ live[q] = "none"
  /\ sessionStatus[s] = "initialized"
  /\ live' = [live EXCEPT ![q] = "live"]
  /\ owner' = [owner EXCEPT ![q] = s]
  /\ UNCHANGED <<status, param, results, submits, future, call, canceling, pc,
                 seen>>

\* No test of the status: a submitted query's parameters can be changed.
SetQueryParameter(q) ==
  /\ QueryOnly
  /\ Callable(q)
  /\ \/ \E x \in Time : param' = [param EXCEPT ![q].start = x]
     \/ \E x \in Time : param' = [param EXCEPT ![q].end = x]
     \/ \E x \in Sensor : param' = [param EXCEPT ![q].sensor = x]
  /\ UNCHANGED <<owner, live, status, results, submits, future, call,
                 canceling, pc, seen>>

\* The value NULL is to be ignored by the documentation, and is read.
SetQueryNullValue(q) ==
  /\ Up
  /\ Callable(q)
  /\ "null_value" \in UncheckedCalls
  /\ crash' = crash \cup {"null_value"}
  /\ UNCHANGED <<device, sessionStatus, config, link, dialed, queryVars>>

\* check_status returns status[q]; get_results returns results[q] if this holds.
Readable(q) == live[q] = "live" /\ status[q] = "done"

\* cancel tests the status and writes it in two steps.
CancelTest(q) ==
  /\ QueryOnly
  /\ live[q] = "live"
  /\ call[q] \in {"idle", "wait"}
  /\ ~canceling[q]
  /\ status[q] # "done"
  /\ canceling' = [canceling EXCEPT ![q] = TRUE]
  /\ UNCHANGED <<owner, live, status, param, results, submits, future, call,
                 pc, seen>>

CancelSet(q) ==
  /\ QueryOnly
  /\ canceling[q]
  /\ canceling' = [canceling EXCEPT ![q] = FALSE]
  /\ status' = [status EXCEPT ![q] = "canceled"]
  /\ UNCHANGED <<owner, live, param, results, submits, future, call, pc, seen>>

--------------------------------------------------------------------------------
(* submit: status = SUBMITTED, std::async starts the task, and the move     *)
(* assignment to async_query releases the future of the submission before, *)
(* which blocks until that task has returned.                              *)

\* Releasing a future blocks for a started task and drops a deferred one.
ReleasableAlways(q) == TRUE      \* mutant: a future that does not block
Releasable(q) ==
  future[q] # 0 => pc[<<q, future[q]>>] \in {"deferred", "finished"}

Release(q) ==
  [pc EXCEPT ![<<q, future[q]>>] = IF @ = "deferred" THEN "dropped" ELSE @]

Submit(q) ==
  /\ QueryOnly
  /\ Callable(q)
  /\ param[q].start <= param[q].end
  /\ submits[q] < MaxSubmits
  /\ status' = [status EXCEPT ![q] = "submitted"]
  /\ call' = [call EXCEPT ![q] = "launch"]
  /\ UNCHANGED <<owner, live, param, results, submits, future, canceling, pc,
                 seen>>

Launch(q) ==
  /\ QueryOnly
  /\ call[q] = "launch"
  /\ submits' = [submits EXCEPT ![q] = @ + 1]
  /\ \E policy \in LaunchPolicies :
       pc' = [pc EXCEPT ![<<q, submits[q] + 1>>] =
                IF policy = "async" THEN "start" ELSE "deferred"]
  /\ call' = [call EXCEPT ![q] = "adopt"]
  /\ UNCHANGED <<owner, live, status, param, results, future, canceling, seen>>

AdoptUnlaunched(q) ==   \* mutant: off by one
  /\ QueryOnly
  /\ call[q] = "adopt"
  /\ Releasable(q)
  /\ pc' = IF future[q] = 0 THEN pc ELSE Release(q)
  /\ future' = [future EXCEPT ![q] = submits[q] + 1]
  /\ call' = [call EXCEPT ![q] = "idle"]
  /\ UNCHANGED <<owner, live, status, param, results, submits, canceling,
                 seen>>

AdoptNothing(q) ==       \* mutant: the future is dropped, it joins the task
  /\ QueryOnly
  /\ call[q] = "adopt"
  /\ pc[<<q, submits[q]>>] \in {"deferred", "finished"}
  /\ call' = [call EXCEPT ![q] = "idle"]
  /\ UNCHANGED <<owner, live, status, param, results, submits, future, canceling,
                 pc, seen>>

Adopt(q) ==
  /\ QueryOnly
  /\ call[q] = "adopt"
  /\ Releasable(q)
  /\ pc' = IF future[q] = 0 THEN pc ELSE Release(q)
  /\ future' = [future EXCEPT ![q] = submits[q]]
  /\ call' = [call EXCEPT ![q] = "idle"]
  /\ UNCHANGED <<owner, live, status, param, results, submits, canceling,
                 seen>>

--------------------------------------------------------------------------------
(* wait: blocks on the future, running a deferred task in the caller, and  *)
(* then writes DONE whatever the status is.  The timeout is ignored.       *)

AwaitedIdle(q) == pc         \* mutant: a deferred task stays so
Awaited(q) ==
  [pc EXCEPT ![<<q, future[q]>>] = IF @ = "deferred" THEN "start" ELSE @]

Wait(q) ==
  /\ QueryOnly
  /\ Callable(q)
  /\ future[q] # 0
  /\ call' = [call EXCEPT ![q] = "wait"]
  /\ pc' = Awaited(q)
  /\ UNCHANGED <<owner, live, status, param, results, submits, future,
                 canceling, seen>>

TimedOut(q) == TRUE              \* mutant: the timeout ends the wait
Ready(q) == pc[<<q, future[q]>>] = "finished"

WaitReturn(q) ==
  /\ QueryOnly
  /\ call[q] = "wait"
  /\ Ready(q)
  /\ status' = [status EXCEPT ![q] = "done"]
  /\ call' = [call EXCEPT ![q] = "idle"]
  /\ UNCHANGED <<owner, live, param, results, submits, future, canceling, pc,
                 seen>>

\* wait on a query that was never submitted: std::future::wait has no state.
WaitUnsubmitted(q) ==
  /\ Up
  /\ Callable(q)
  /\ future[q] = 0
  /\ "wait_unsubmitted" \in UncheckedCalls
  /\ crash' = crash \cup {"wait_unsubmitted"}
  /\ UNCHANGED <<device, sessionStatus, config, link, dialed, queryVars>>

--------------------------------------------------------------------------------
(* free: delete destroys async_query first, the member declared last, and   *)
(* with it joins the task; the fields the task uses are destroyed after it.*)

Free(q) ==
  /\ QueryOnly
  /\ Callable(q)
  /\ call' = [call EXCEPT ![q] = "free"]
  /\ UNCHANGED <<owner, live, status, param, results, submits, future,
                 canceling, pc, seen>>

FreeReturn(q) ==
  /\ QueryOnly
  /\ call[q] = "free"
  /\ Releasable(q)
  /\ pc' = IF future[q] = 0 THEN pc ELSE Release(q)
  /\ live' = [live EXCEPT ![q] = "freed"]
  /\ call' = [call EXCEPT ![q] = "idle"]
  /\ UNCHANGED <<owner, status, param, results, submits, future, canceling,
                 seen>>

\* A client frees a session after the queries it created on it.
FreeUnusedSession(s) ==
  /\ \A q \in Query : owner[q] = s => live[q] # "live"
  /\ SessionFree(s)
  /\ UNCHANGED queryVars

--------------------------------------------------------------------------------
(* submit_query, run by the task of the n-th submission t = <<q, n>>.      *)

Goto(t, next) == pc' = [pc EXCEPT ![t] = next]

TaskStart(t) ==            \* status = RUNNING
  /\ QueryOnly
  /\ pc[t] = "start"
  /\ status' = [status EXCEPT ![t[1]] = "running"]
  /\ Goto(t, "arguments")
  /\ UNCHANGED <<owner, live, param, results, submits, future, call,
                 canceling, seen>>

TaskArguments(t) ==        \* getConnection(), telemetrysensor, start and end
  /\ QueryOnly
  /\ pc[t] = "arguments"
  /\ seen' = [seen EXCEPT ![t] = param[t[1]]]
  /\ Goto(t, "fetch")
  /\ UNCHANGED <<owner, live, status, param, results, submits, future, call,
                 canceling>>

TaskFetch(t) ==            \* the DCDB host answers; the list is moved next
  /\ QueryOnly
  /\ pc[t] = "fetch"
  /\ Goto(t, "store")
  /\ UNCHANGED <<owner, live, status, param, results, submits, future, call,
                 canceling, seen>>

TaskStore(t) ==            \* results = the readings
  /\ QueryOnly
  /\ pc[t] = "store"
  /\ results' = [results EXCEPT ![t[1]] = t[2]]
  /\ Goto(t, "check")
  /\ UNCHANGED <<owner, live, status, param, submits, future, call, canceling,
                 seen>>

LeavesDoneToWait(q) == TRUE      \* mutant: the task never marks it done
Canceled(q) == status[q] = "canceled"

TaskCheck(t) ==            \* if (status != CANCELED)
  /\ QueryOnly
  /\ pc[t] = "check"
  /\ Goto(t, IF Canceled(t[1]) THEN "finished" ELSE "mark")
  /\ UNCHANGED <<owner, live, status, param, results, submits, future, call,
                 canceling, seen>>

TaskMark(t) ==             \* status = DONE
  /\ QueryOnly
  /\ pc[t] = "mark"
  /\ status' = [status EXCEPT ![t[1]] = "done"]
  /\ Goto(t, "finished")
  /\ UNCHANGED <<owner, live, param, results, submits, future, call,
                 canceling, seen>>

TaskStep(t) == \/ TaskStart(t) \/ TaskArguments(t) \/ TaskFetch(t)
               \/ TaskStore(t) \/ TaskCheck(t) \/ TaskMark(t)

--------------------------------------------------------------------------------

SessionCall(s) ==
  /\ SessionAlloc(s) \/ SetParameter(s) \/ SessionInitialize(s)
  /\ UNCHANGED queryVars

DeviceCall ==
  /\ DeviceInitialize \/ DeviceFinalize
  /\ UNCHANGED queryVars

\* Calls a client may make, or not.
ClientCall(q) ==
  \/ \E s \in Session : CreateQuery(s, q)
  \/ SetQueryParameter(q) \/ SetQueryNullValue(q) \/ Submit(q) \/ Wait(q)
  \/ WaitUnsubmitted(q) \/ CancelTest(q) \/ Free(q)

\* What the device does in the calls it was given.
CallStep(q) == Launch(q) \/ Adopt(q) \/ WaitReturn(q) \/ FreeReturn(q)

Next ==
  \/ DeviceCall
  \/ \E s \in Session : SessionCall(s) \/ FreeUnusedSession(s)
  \/ \E q \in Query : ClientCall(q) \/ CallStep(q) \/ CancelSet(q)
  \/ \E t \in Task : TaskStep(t)

\* While the process runs its threads are scheduled and the DCDB host answers;
\* a client need not call anything.
Fairness ==
  /\ \A q \in Query : WF_vars(CallStep(q)) /\ WF_vars(CancelSet(q))
  /\ \A t \in Task : WF_vars(TaskStep(t))

Spec == Init /\ [][Next]_vars
FairSpec == Spec /\ Fairness

--------------------------------------------------------------------------------

\* q has no task, or a deferred one nobody waited for, or ones that returned.
Quiet(q) == \A n \in 1 .. MaxSubmits : pc[<<q, n>>] \notin Running

(* A task never touches a query or a session that was destroyed, and it    *)
(* only uses an open connection.  free and submit destroy nothing before   *)
(* the task that uses it has returned, because async_query is the last     *)
(* member of the query and its future blocks.                              *)
TaskObjectsAlive ==
  \A q \in Query : Quiet(q) \/
    /\ live[q] = "live"
    /\ owner[q] \in Session
    /\ sessionStatus[owner[q]] = "initialized"
    /\ link[owner[q]] = "open"

(* Two tasks of one query overlap only while submit itself blocks on the   *)
(* older one: when a call returns, the query has at most one task that can *)
(* still write its fields, and async_query is its future.                  *)
OneTask ==
  \A q \in Query, n \in 1 .. MaxSubmits :
    pc[<<q, n>>] \in Running \cup {"deferred"} =>
      n = future[q] \/ (call[q] = "adopt" /\ n = submits[q])

(* get_results succeeds only when every submission of the query has        *)
(* returned, and then the results are those of the last one: what its      *)
(* documentation promises with "query has not finished".                   *)
ReadableIsComplete ==
  \A q \in Query : Readable(q) =>
    /\ \A n \in 1 .. submits[q] : pc[<<q, n>>] = "finished"
    /\ results[q] = submits[q]

(* However often a query is submitted, and whatever cancels come between,  *)
(* get_results never succeeds on a list no task has stored: a query that   *)
(* is DONE holds the readings of one of its submissions (submit_query and  *)
(* wait, which both write DONE).                                           *)
Stored(q) ==
  \E n \in 1 .. submits[q] :
    results[q] = n /\ pc[<<q, n>>] \in {"check", "mark", "finished"}
ReadableIsStored == \A q \in Query : Readable(q) => Stored(q)

(* A task asks the host for a window that submit accepted: it reads the    *)
(* parameters after submit tested them.                                    *)
AcceptedWindow == \A t \in Task : seen[t].start <= seen[t].end

(* wait and free use a future and a connection without a test, and end the *)
(* process where there is none.  They do so on fresh handles only, a query *)
(* that was never submitted and a session that was never initialized: a    *)
(* query that was submitted has a future, whatever waits, cancels and      *)
(* submits came in between, and an initialized session has a connection.   *)
(* It says nothing of the third call that ends the process, set_parameter  *)
(* with the value NULL, which does so on every handle.                     *)
EndsOnFreshHandles ==
  /\ "wait_unsubmitted" \in crash =>
       \E q \in Query : live[q] = "live" /\ submits[q] = 0
  /\ "free_uninitialized" \in crash =>
       \E s \in Session : sessionStatus[s] = "allocated"

(* Once a cancel took effect the query stays canceled until the client     *)
(* submits it again (cancel "changes the status ... to CANCELED").         *)
CanceledIsFinal ==
  [][\A q \in Query : status[q] = "canceled" =>
       status'[q] \in {"canceled", "submitted"}]_vars

(* Every call returns while the process runs: submit, wait and free block  *)
(* only on tasks that end, and wait runs a deferred one itself.            *)
CallsReturn ==
  \A q \in Query : call[q] # "idle" ~> call[q] = "idle" \/ crash # {}

(* A client that polls check_status sees every submitted query settle.     *)
Settles ==
  \A q \in Query : status[q] = "submitted" ~> status[q] \in {"done", "canceled"}

(* What a query promises, without the fields and steps that provide it.    *)
stage == [q \in Query |->
            CASE live[q] # "live" -> live[q]
              [] live[q] = "live" /\ ~Quiet(q) -> "working"
              [] live[q] = "live" /\ Quiet(q) ->
                   IF \E n \in 1 .. MaxSubmits : pc[<<q, n>>] = "finished"
                     THEN "answered" ELSE "idle"]
readable == [q \in Query |-> Readable(q)]

Promise == INSTANCE AsyncAnswer
             WITH Query <- Query, stage <- stage, readable <- readable
AnswersAsPromised == Promise!Spec
================================================================================
