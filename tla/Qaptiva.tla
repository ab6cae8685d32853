-------------------------------- MODULE Qaptiva --------------------------------
(***************************************************************************)
(* The Qaptiva device (src/src/simulators/eviden): a C library that runs   *)
(* quantum programs on a QLM appliance through an embedded Python          *)
(* interpreter.  The device status, the auxiliary Python module and the    *)
(* remote qpu are static: all sessions share them.  A submit call holds    *)
(* Python's lock but while it waits for the appliance, so several threads  *)
(* can be inside submit at once.  Handles are used while they exist, a job *)
(* is used by one thread at a time, and initialize and finalize are called *)
(* while no submit runs; a Python driver finalizes what it initialized.    *)
(***************************************************************************)

CONSTANTS
  Session,     \* session handles; alloc returns each of them at most once
  Job,         \* job handles; create returns each of them at most once
  Thread,      \* the threads that call submit
  NoThread,    \* nobody: Python's lock is free, a job is in no call
  Url,         \* base urls a client may configure
  NoUrl,       \* NULL: no url, no remote qpu, no host
  NoSession,   \* the session of a job that was not created yet
  Driver,      \* the language of the driver that loads the library
  Imports      \* what importing the auxiliary module may give

ASSUME QaptivaAssumption ==
  /\ NoUrl \notin Url
  /\ NoSession \notin Session
  /\ NoThread \notin Thread
  /\ Driver \in {"c", "python"}
  /\ Imports \subseteq {"loaded", "null"}

VARIABLES
  device,         \* the static device status
  interpreter,    \* the Python interpreter
  module,         \* the static auxiliary module
  qpu,            \* the host the static remote qpu is connected to
  lock,           \* the thread that holds Python's lock
  kept,           \* the threads that left submit without releasing it
  sessionStatus,  \* status of each session; "none", "freed" are no object
  url,            \* the base url of each session
  noisy,          \* the sessions whose is_noisy_session is not NULL
  owner,          \* the session a job was created on
  status,         \* the status of each job; "none", "freed" are no object
  given,          \* the job parameters that were set
  pc,             \* where a thread is inside submit
  caller,         \* the thread that is inside submit
  sentTo,         \* the host the program of a job was sent to
  process         \* "up", or what made it end in undefined behaviour

deviceVars == <<device, interpreter, module, qpu, lock, kept>>
sessionVars == <<sessionStatus, url, noisy>>
jobVars == <<owner, status, given, pc, caller, sentTo>>
vars == <<deviceVars, sessionVars, jobVars, process>>

\* "circuit" is the program and the shot number, "noise" is T1 and T2.
Parameter == {"circuit", "noise"}
Unsettled == {"submitted", "running"}

\* A thread is in submit_job or in submit_noisy_job: before it calls Python's
\* submit, and in that call.
Preparing == {"shared", "noisy"}
Calling == {"remote", "simulated"}

\* Python's lock ends the process by its absence, an argument by its size or
\* by being NULL, the module or the url by being NULL.
Cause == {"unlocked", "parameter", "unready"}

TypeOK ==
  /\ device \in {"offline", "idle", "busy"}
  /\ interpreter \in {"up", "down"}
  /\ module \in {"loaded", "null"}
  /\ qpu \in Url \cup {NoUrl}
  /\ lock \in Thread \cup {NoThread}
  /\ kept \subseteq Thread
  /\ sessionStatus \in [Session -> {"none", "allocated", "initialized", "freed"}]
  /\ url \in [Session -> Url \cup {NoUrl}]
  /\ noisy \subseteq Session
  /\ owner \in [Job -> Session \cup {NoSession}]
  /\ status \in [Job -> {"none", "created", "done", "failed", "freed"}
                          \cup Unsettled]
  /\ given \in [Job -> SUBSET Parameter]
  /\ pc \in [Job -> {"idle", "failing"} \cup Preparing \cup Calling]
  /\ caller \in [Job -> Thread \cup {NoThread}]
  /\ sentTo \in [Job -> Url \cup {NoUrl}]
  /\ process \in {"up"} \cup Cause

\* A Python driver starts the interpreter itself and keeps it.
Unloaded == IF Driver = "python" THEN "up" ELSE "down"

Init ==
  /\ device = "offline"
  /\ interpreter = Unloaded
  /\ module = "null"
  /\ qpu = NoUrl
  /\ lock = NoThread
  /\ kept = {}
  /\ sessionStatus = [s \in Session |-> "none"]
  /\ url = [s \in Session |-> NoUrl]
  /\ noisy = {}
  /\ owner = [j \in Job |-> NoSession]
  /\ status = [j \in Job |-> "none"]
  /\ given = [j \in Job |-> {}]
  /\ pc = [j \in Job |-> "idle"]
  /\ caller = [j \in Job |-> NoThread]
  /\ sentTo = [j \in Job |-> NoUrl]
  /\ process = "up"

Up == process = "up"
NoCalls == \A j \in Job : pc[j] = "idle"
Live(s) == sessionStatus[s] \in {"allocated", "initialized"}

Crash(cause) ==
  process' = cause /\ UNCHANGED <<deviceVars, sessionVars, jobVars>>

\* PyGILState_Ensure returns at once to a thread that has Python's lock, and
\* PyGILState_Release leaves it to one that took it before and kept it.
Outside(t) == \A j \in Job : caller[j] # t
Lockable == lock = NoThread \/ (lock \in kept /\ Outside(lock))
Holds(j) == lock = caller[j]
Released(t) == IF t \in kept THEN t ELSE NoThread

--------------------------------------------------------------------------------
(* Device control.                                                         *)

\* A failed import returns FATAL, but the macro that reports it has set the
\* device status to IDLE.
Initialize ==
  /\ Up /\ NoCalls
  /\ Driver = "c" => interpreter = "down"
  /\ interpreter' = "up"
  /\ module' \in Imports
  /\ device' = "idle"
  /\ UNCHANGED <<qpu, lock, kept, sessionVars, jobVars, process>>

\* A second initialize of a C driver takes the interpreter it started itself
\* for the driver's own and calls Python without its lock.
InitializeAgain ==
  /\ Up /\ NoCalls
  /\ Driver = "c" /\ interpreter = "up"
  /\ Crash("unlocked")

Finalize ==
  /\ Up /\ NoCalls
  /\ Driver = "python" => device # "offline"
  /\ device' = "offline"
  /\ module' = "null"
  /\ qpu' = NoUrl
  /\ interpreter' = Unloaded
  /\ lock' = NoThread
  /\ kept' = {}
  /\ UNCHANGED <<sessionVars, jobVars, process>>

\* The call of a thread while another one has kept Python's lock: it does not
\* return, and the interpreter stays.
FinalizeBlocked ==
  /\ Up /\ NoCalls
  /\ lock # NoThread
  /\ device' = "offline"
  /\ module' = "null"
  /\ qpu' = NoUrl
  /\ UNCHANGED <<interpreter, lock, kept, sessionVars, jobVars, process>>

\* finalize drops its references before it takes Python's lock: the last
\* reference to the remote qpu may be one of them.
FinalizeUnlocked ==
  /\ Up /\ NoCalls
  /\ Driver = "c" /\ qpu # NoUrl
  /\ Crash("unlocked")

--------------------------------------------------------------------------------
(* Sessions.                                                               *)

SessionAlloc(s) ==
  /\ Up
  /\ sessionStatus[s] = "none"
  /\ sessionStatus' = [sessionStatus EXCEPT ![s] = "allocated"]
  /\ UNCHANGED <<deviceVars, url, noisy, jobVars, process>>

SetBaseUrlAlways(s, u) ==            \* mutant: no BADSTATE test
  /\ Up
  /\ Live(s)
  /\ url' = [url EXCEPT ![s] = u]
  /\ UNCHANGED <<deviceVars, sessionStatus, noisy, jobVars, process>>
SetBaseUrl(s, u) ==
  /\ Up
  /\ sessionStatus[s] = "allocated"
  /\ url' = [url EXCEPT ![s] = u]
  /\ UNCHANGED <<deviceVars, sessionStatus, noisy, jobVars, process>>

\* Any value, zero too, makes the session noisy: the pointer is what is tested.
SetNoisy(s) ==
  /\ Up
  /\ sessionStatus[s] = "allocated"
  /\ noisy' = noisy \cup {s}
  /\ UNCHANGED <<deviceVars, sessionStatus, url, jobVars, process>>

\* The value of either parameter is read without a test: it may be NULL, and a
\* CUSTOM1 longer than an int is copied into one.
SetUnchecked(s) ==
  /\ Up
  /\ sessionStatus[s] = "allocated"
  /\ Crash("parameter")

\* session_init is refused while the device is offline or without a url, and
\* in no other state: an initialized session may be initialized again.
InitializableOffline(s) == Up /\ Live(s) /\ url[s] # NoUrl       \* mutant
Initializable(s) == Up /\ Live(s) /\ device # "offline" /\ url[s] # NoUrl

InitializeNoisy(s) ==
  /\ Initializable(s)
  /\ s \in noisy
  /\ sessionStatus' = [sessionStatus EXCEPT ![s] = "initialized"]
  /\ UNCHANGED <<deviceVars, url, noisy, jobVars, process>>

\* The new remote qpu replaces the static one, whatever session connected it.
ConnectShared(s) ==
  /\ Initializable(s)
  /\ s \notin noisy /\ module = "loaded" /\ Lockable
  /\ qpu' = url[s]
  /\ sessionStatus' = [sessionStatus EXCEPT ![s] = "initialized"]
  /\ UNCHANGED <<device, interpreter, module, lock, kept, url, noisy, jobVars,
                 process>>

ConnectRefused(s) ==
  /\ Initializable(s)
  /\ s \notin noisy /\ module = "loaded" /\ Lockable
  /\ device' = "idle"
  /\ UNCHANGED <<interpreter, module, qpu, lock, kept, sessionVars, jobVars,
                 process>>

ConnectUnloaded(s) ==      \* an attribute of the NULL module
  /\ Initializable(s)
  /\ s \notin noisy /\ module = "null" /\ Lockable
  /\ Crash("unready")

\* A client frees a session after the jobs it created on it.
SessionFree(s) ==
  /\ Up
  /\ Live(s)
  /\ \A j \in Job : owner[j] = s => status[j] = "freed"
  /\ sessionStatus' = [sessionStatus EXCEPT ![s] = "freed"]
  /\ UNCHANGED <<deviceVars, url, noisy, jobVars, process>>

SessionCall(s) ==
  \/ SessionAlloc(s) \/ SetNoisy(s) \/ (\E u \in Url : SetBaseUrl(s, u))
  \/ SetUnchecked(s) \/ InitializeNoisy(s) \/ ConnectShared(s) \/ ConnectRefused(s)
  \/ ConnectUnloaded(s) \/ SessionFree(s)

--------------------------------------------------------------------------------
(* Jobs.                                                                   *)

\* The session need not be initialized.
CreateJob(s, j) ==
  /\ Up
  /\ Live(s)
  /\ status[j] = "none"
  /\ status' = [status EXCEPT ![j] = "created"]
  /\ owner' = [owner EXCEPT ![j] = s]
  /\ UNCHANGED <<deviceVars, sessionVars, given, pc, caller, sentTo, process>>

SetJobParameter(j, p) ==
  /\ Up
  /\ status[j] = "created"
  /\ given' = [given EXCEPT ![j] = @ \cup {p}]
  /\ UNCHANGED <<deviceVars, sessionVars, owner, status, pc, caller, sentTo,
                 process>>

FreeJob(j) ==
  /\ Up
  /\ status[j] \notin {"none", "freed"} /\ pc[j] = "idle"
  /\ status' = [status EXCEPT ![j] = "freed"]
  /\ UNCHANGED <<deviceVars, sessionVars, owner, given, pc, caller, sentTo,
                 process>>

Enough(j) == owner[j] \in noisy => "noise" \in given[j]

\* The device status is not tested, and the job's is SUBMITTED before a noisy
\* job without T1 and T2 is refused.  A thread of a Python driver has the lock
\* when it calls.
SubmittableAlways(j) == status[j] \notin {"none", "freed"}   \* mutant
Submittable(j) == status[j] = "created"
Submit(j, t) ==
  /\ Up
  /\ Outside(t)
  /\ Driver = "python" => lock = NoThread
  /\ Submittable(j) /\ pc[j] = "idle"
  /\ "circuit" \in given[j]
  /\ status' = [status EXCEPT ![j] = "submitted"]
  /\ \/ /\ Enough(j)
        /\ pc' = [pc EXCEPT ![j] = IF owner[j] \in noisy THEN "noisy" ELSE "shared"]
        /\ caller' = [caller EXCEPT ![j] = t]
        /\ lock' = IF Driver = "python" THEN t ELSE lock
     \/ /\ ~Enough(j)
        /\ UNCHANGED <<pc, caller, lock>>
  /\ UNCHANGED <<device, interpreter, module, qpu, kept, sessionVars, owner,
                 given, sentTo, process>>

\* A thread gets the lock before it prepares the call, and again when the
\* appliance has answered.
Acquire(j) ==
  /\ Up
  /\ pc[j] \in Preparing \cup Calling
  /\ interpreter = "up" /\ lock = NoThread
  /\ lock' = caller[j]
  /\ UNCHANGED <<device, interpreter, module, qpu, kept, sessionVars, jobVars,
                 process>>

\* The job of a noisy session goes to its session's url, any other to the
\* static remote qpu.
TargetHandle(j) ==                   \* mutant: the handle, not its url
  IF pc[j] = "noisy" THEN owner[j] ELSE qpu
Target(j) == IF pc[j] = "noisy" THEN url[owner[j]] ELSE qpu

\* The module is NULL, as it is without an interpreter, or the url of a noisy
\* session is.
Unusable(j) == module = "null" \/ (pc[j] = "noisy" /\ url[owner[j]] = NoUrl)

PrepareUnusable(j) ==
  /\ Up
  /\ pc[j] \in Preparing /\ Unusable(j)
  /\ interpreter = "up" => Holds(j)
  /\ Crash("unready")

\* Python waits for the appliance without its lock.
Run(j) ==
  /\ Up
  /\ pc[j] \in Preparing /\ Holds(j) /\ ~Unusable(j)
  /\ Target(j) # NoUrl
  /\ sentTo' = [sentTo EXCEPT ![j] = Target(j)]
  /\ status' = [status EXCEPT ![j] = "running"]
  /\ device' = "busy"
  /\ pc' = [pc EXCEPT ![j] = IF @ = "noisy" THEN "simulated" ELSE "remote"]
  /\ lock' = NoThread
  /\ UNCHANGED <<interpreter, module, qpu, kept, sessionVars, owner, given,
                 caller, process>>

\* CHECK_PYTHON_ERROR: no remote qpu, a program that is no text, no answer.
FailQuietly(j) ==                    \* mutant: the device stays as it is
  /\ Up
  /\ pc[j] \in Preparing \cup Calling /\ Holds(j)
  /\ pc[j] \in Preparing => ~Unusable(j)
  /\ pc' = [pc EXCEPT ![j] = "failing"]
  /\ lock' = Released(caller[j])
  /\ UNCHANGED <<device, interpreter, module, qpu, kept, sessionVars, owner,
                 status, given, caller, sentTo, process>>
Fail(j) ==
  /\ Up
  /\ pc[j] \in Preparing \cup Calling /\ Holds(j)
  /\ pc[j] \in Preparing => ~Unusable(j)
  /\ device' = "idle"
  /\ pc' = [pc EXCEPT ![j] = "failing"]
  /\ lock' = Released(caller[j])
  /\ UNCHANGED <<interpreter, module, qpu, kept, sessionVars, owner, status,
                 given, caller, sentTo, process>>

Return(j) ==
  /\ pc' = [pc EXCEPT ![j] = "idle"]
  /\ caller' = [caller EXCEPT ![j] = NoThread]

MarkNothing(j) ==                    \* mutant: the error is dropped
  /\ Up
  /\ pc[j] = "failing"
  /\ Return(j)
  /\ UNCHANGED <<deviceVars, sessionVars, owner, status, given, sentTo, process>>
MarkFailed(j) ==
  /\ Up
  /\ pc[j] = "failing"
  /\ status' = [status EXCEPT ![j] = "failed"]
  /\ Return(j)
  /\ UNCHANGED <<deviceVars, sessionVars, owner, given, sentTo, process>>

\* A noisy job's list that is empty: this exit does not release the lock a
\* thread of a C driver has taken.
FailEmpty(j) ==
  /\ Up
  /\ pc[j] = "simulated" /\ Holds(j)
  /\ status' = [status EXCEPT ![j] = "failed"]
  /\ device' = "idle"
  /\ kept' = IF Driver = "c" THEN kept \cup {caller[j]} ELSE kept
  /\ lock' = IF Driver = "c" THEN lock ELSE NoThread
  /\ Return(j)
  /\ UNCHANGED <<interpreter, module, qpu, sessionVars, owner, given, sentTo,
                 process>>

FinishLocked(j) ==                   \* mutant: the lock is not released
  /\ Up
  /\ pc[j] \in Calling /\ Holds(j)
  /\ status' = [status EXCEPT ![j] = "done"]
  /\ device' = "idle"
  /\ Return(j)
  /\ UNCHANGED <<interpreter, module, qpu, lock, kept, sessionVars, owner,
                 given, sentTo, process>>
Finish(j) ==
  /\ Up
  /\ pc[j] \in Calling /\ Holds(j)
  /\ status' = [status EXCEPT ![j] = "done"]
  /\ device' = "idle"
  /\ lock' = Released(caller[j])
  /\ Return(j)
  /\ UNCHANGED <<interpreter, module, qpu, kept, sessionVars, owner, given,
                 sentTo, process>>

JobCall(j) ==
  \/ \E s \in Session : CreateJob(s, j)
  \/ \E p \in Parameter : SetJobParameter(j, p)
  \/ (\E t \in Thread : Submit(j, t)) \/ FreeJob(j)

SubmitStep(j) ==
  \/ Acquire(j) \/ PrepareUnusable(j) \/ Run(j)
  \/ Fail(j) \/ MarkFailed(j) \/ FailEmpty(j) \/ Finish(j)

--------------------------------------------------------------------------------

DeviceCall ==
  \/ Initialize \/ InitializeAgain
  \/ Finalize \/ FinalizeBlocked \/ FinalizeUnlocked

Next ==
  \/ DeviceCall
  \/ \E s \in Session : SessionCall(s)
  \/ \E j \in Job : JobCall(j) \/ SubmitStep(j)

Spec == Init /\ [][Next]_vars

\* A thread inside submit is scheduled, the appliance answers it, and it gets a
\* lock that stays free.  That is enough: a job is submitted once, so only
\* finitely many others take the lock before it.
FairSpec == Spec /\ \A j \in Job : WF_vars(SubmitStep(j))

--------------------------------------------------------------------------------
(* The device is not left BUSY: when it says so, a thread waits for the    *)
(* appliance.  Every way out of submit passes a reset of the status, the   *)
(* error exits hidden in CHECK_PYTHON_ERROR included.                      *)
BusyIsRunning == device = "busy" => \E j \in Job : pc[j] \in Calling

(* When submit has returned, its job is done or failed.  The one exception *)
(* is a job of a noisy session without T1 and T2: it was refused, but it   *)
(* stays SUBMITTED and takes neither a parameter nor another submit.       *)
OnlyIncompleteStick ==
  \A j \in Job : pc[j] = "idle" /\ status[j] \in Unsettled =>
    status[j] = "submitted" /\ ~Enough(j)

(* Python is never given a NULL module or url, but on a device whose       *)
(* initialize failed to import the module, and for a job submitted before  *)
(* its device, or its session, was initialized: in every order of calls on *)
(* an initialized device, refused connections and other sessions included, *)
(* the module and the url a call needs are there.                          *)
UnreadyOnlyEarly ==
  process = "unready" =>
    \/ "null" \in Imports /\ module = "null" /\ device # "offline"
    \/ \E j \in Job : /\ pc[j] \in Preparing
                      /\ device = "offline" \/ sessionStatus[owner[j]] # "initialized"

(* A job is executed once: a settled job is only freed, and no program is  *)
(* sent that was sent before, to whatever host and with whatever end.      *)
SettledStays(j) ==
  status[j] \in {"done", "failed"} =>
    status'[j] \in {status[j], "freed"} /\ sentTo'[j] = sentTo[j]
SentFirst(j) == pc[j] \notin Calling /\ pc'[j] \in Calling => sentTo[j] = NoUrl
RunsOnce == [][\A j \in Job : SettledStays(j) /\ SentFirst(j)]_vars

(* A program is sent to the host of the session its job was created on.    *)
(* It holds for a client with one session, and for noisy sessions.         *)
OwnHost ==
  [][\A j \in Job : sentTo'[j] # sentTo[j] => sentTo'[j] = url[owner[j]]]_vars

(* Python's lock is held by a thread inside submit, or by one that left it *)
(* with an empty list: no other exit, the ones hidden in                   *)
(* CHECK_PYTHON_ERROR included, leaves the lock with a thread that         *)
(* returned.                                                               *)
LockGivenBack ==
  lock # NoThread =>
    lock \in kept \/ \E j \in Job : pc[j] \in Preparing \cup Calling /\ Holds(j)

(* Submit returns, whatever the appliance answers and however many other   *)
(* threads want Python's lock, unless one of these has kept it: after an   *)
(* empty list no other thread's submit is sure to return.                  *)
SubmitReturns ==
  \A j \in Job :
    pc[j] # "idle" ~> pc[j] = "idle" \/ ~Up \/ \E t \in kept : t # caller[j]

(* A Qaptiva job is a QDMI job that ends inside submit: it is lost where   *)
(* CHECK_PYTHON_ERROR fails, and its status tells so when submit returns.  *)
(* That it ends is not promised, incomplete noisy jobs stay SUBMITTED.     *)
StageOf(word, at) ==
  CASE word \in {"none", "created", "failed", "freed"} -> word
    [] word = "done" -> "succeeded"
    [] word \in Unsettled -> IF at = "failing" THEN "failed" ELSE "submitted"
ToldOf(word) ==
  CASE word = "done" -> "succeeded" [] word = "failed" -> "failed" [] OTHER -> "open"
stage == [j \in Job |-> StageOf(status[j], pc[j])]
told == [j \in Job |-> ToldOf(status[j])]

Promise == INSTANCE QdmiJob WITH Job <- Job, stage <- stage, told <- told
JobsAsPromised == Promise!Spec
================================================================================
