---------------------------- MODULE DcdbQueryProofs ----------------------------
(***************************************************************************)
(* Theorems about DcdbQuery, for every set of sessions and queries, every  *)
(* bound on submissions and every launch policy.                           *)
(***************************************************************************)
EXTENDS DcdbQuery, DcdbSessionProofs

--------------------------------------------------------------------------------
(* Types.                                                                  *)

(* QueryOnly steps leave the type invariant of the sessions alone.         *)
LEMMA QueryOnlyTypes == ASSUME SessionTypeOK, QueryOnly PROVE SessionTypeOK'
  BY DEF SessionTypeOK, QueryOnly, sessionVars

(* Releasing a future and waiting on it keep program counters typed.       *)
LEMMA FutureTypes ==
  ASSUME TypeOK, NEW q \in Query, future[q] # 0
  PROVE  /\ <<q, future[q]>> \in Task
         /\ Release(q) \in [Task -> PC]
         /\ Awaited(q) \in [Task -> PC]
  <1>1. <<q, future[q]>> \in Task
    <2>1. future[q] \in 1 .. MaxSubmits
      BY QueryAssumption DEF TypeOK
    <2>2. QED
      BY <2>1 DEF Task
  <1>2. Release(q) \in [Task -> PC]
    BY <1>1 DEF Release, TypeOK, PC
  <1>3. Awaited(q) \in [Task -> PC]
    BY <1>1 DEF Awaited, TypeOK, PC, Running
  <1>4. QED
    BY <1>1, <1>2, <1>3

(* A parameter of a query stays in its window.                             *)
LEMMA ParameterTypes ==
  ASSUME TypeOK, NEW q \in Query, SetQueryParameter(q)
  PROVE  param' \in [Query -> Window]
  <1>1. param \in [Query -> Window] /\ param[q] \in Window
    BY DEF TypeOK
  <1>2. CASE \E x \in Time : param' = [param EXCEPT ![q].start = x]
    <2>1. PICK x \in Time : param' = [param EXCEPT ![q].start = x]
      BY <1>2
    <2>2. [param[q] EXCEPT !.start = x] \in Window
      BY <1>1 DEF Window
    <2>3. QED
      BY <1>1, <2>1, <2>2
  <1>3. CASE \E x \in Time : param' = [param EXCEPT ![q].end = x]
    <2>1. PICK x \in Time : param' = [param EXCEPT ![q].end = x]
      BY <1>3
    <2>2. [param[q] EXCEPT !.end = x] \in Window
      BY <1>1 DEF Window
    <2>3. QED
      BY <1>1, <2>1, <2>2
  <1>4. CASE \E x \in Sensor : param' = [param EXCEPT ![q].sensor = x]
    <2>1. PICK x \in Sensor : param' = [param EXCEPT ![q].sensor = x]
      BY <1>4
    <2>2. [param[q] EXCEPT !.sensor = x] \in Window
      BY <1>1 DEF Window
    <2>3. QED
      BY <1>1, <2>1, <2>2
  <1>5. QED
    BY <1>2, <1>3, <1>4 DEF SetQueryParameter

(* A call that is about to launch a task counted it against the bound.     *)
LaunchBound == \A q \in Query : call[q] = "launch" => submits[q] < MaxSubmits

LEMMA CallTypes ==
  ASSUME TypeOK, LaunchBound, NEW q \in Query, ClientCall(q) \/ CallStep(q) \/ CancelSet(q)
  PROVE  TypeOK'
  <1> USE DEF TypeOK
  <1>1. CASE \E s \in Session : CreateQuery(s, q)
    BY <1>1, QueryOnlyTypes DEF CreateQuery
  <1>2. CASE SetQueryParameter(q)
    BY <1>2, ParameterTypes, QueryOnlyTypes DEF SetQueryParameter
  <1>3. CASE Submit(q)
    BY <1>3, QueryOnlyTypes DEF Submit, Status, Call
  <1>4. CASE Wait(q)
    BY <1>4, QueryOnlyTypes, FutureTypes DEF Wait, Call
  <1>5. CASE WaitUnsubmitted(q)
    BY <1>5 DEF WaitUnsubmitted, queryVars, SessionTypeOK, Unchecked
  <1>6. CASE CancelTest(q)
    BY <1>6, QueryOnlyTypes DEF CancelTest
  <1>7. CASE Free(q)
    BY <1>7, QueryOnlyTypes DEF Free, Call
  <1>8. CASE Launch(q)
    <2>1. submits[q] + 1 \in 1 .. MaxSubmits
      BY <1>8, QueryAssumption DEF Launch, LaunchBound
    <2>2. <<q, submits[q] + 1>> \in Task
      BY <2>1 DEF Task
    <2>3. pc' \in [Task -> PC]
      BY <1>8, <2>2 DEF Launch, PC, Running
    <2>4. QED
      BY <1>8, <2>1, <2>3, QueryOnlyTypes DEF Launch, Call
  <1>9. CASE Adopt(q)
    BY <1>9, QueryOnlyTypes, FutureTypes DEF Adopt, Call
  <1>10. CASE WaitReturn(q)
    BY <1>10, QueryOnlyTypes DEF WaitReturn, Status, Call
  <1>11. CASE FreeReturn(q)
    BY <1>11, QueryOnlyTypes, FutureTypes DEF FreeReturn, Call
  <1>12. CASE CancelSet(q)
    BY <1>12, QueryOnlyTypes DEF CancelSet, Status
  <1>13. CASE SetQueryNullValue(q)
    BY <1>13 DEF SetQueryNullValue, queryVars, SessionTypeOK, Unchecked
  <1>14. QED
    BY <1>1, <1>2, <1>3, <1>4, <1>5, <1>6, <1>7, <1>8, <1>9, <1>10, <1>11, <1>12,
       <1>13
    DEF ClientCall, CallStep

LEMMA TaskTypes ==
  ASSUME TypeOK, NEW t \in Task, TaskStep(t)
  PROVE  TypeOK'
  <1> USE DEF TypeOK
  <1>1. t[1] \in Query /\ t[2] \in 0 .. MaxSubmits
    BY QueryAssumption DEF Task
  <1>2. CASE TaskStart(t)
    BY <1>1, <1>2, QueryOnlyTypes DEF TaskStart, Goto, Status, PC, Running
  <1>3. CASE TaskArguments(t)
    BY <1>1, <1>3, QueryOnlyTypes DEF TaskArguments, Goto, PC, Running
  <1>4. CASE TaskFetch(t)
    BY <1>4, QueryOnlyTypes DEF TaskFetch, Goto, PC, Running
  <1>5. CASE TaskStore(t)
    BY <1>1, <1>5, QueryOnlyTypes DEF TaskStore, Goto, PC, Running
  <1>6. CASE TaskCheck(t)
    BY <1>6, QueryOnlyTypes DEF TaskCheck, Goto, PC, Running
  <1>7. CASE TaskMark(t)
    BY <1>1, <1>7, QueryOnlyTypes DEF TaskMark, Goto, Status, PC
  <1>8. QED
    BY <1>2, <1>3, <1>4, <1>5, <1>6, <1>7 DEF TaskStep

LEMMA LaunchBoundStep ==
  ASSUME TypeOK, LaunchBound, [Next]_vars
  PROVE  LaunchBound'
  <1> USE DEF LaunchBound, TypeOK
  <1>1. CASE DeviceCall
    BY <1>1 DEF DeviceCall, queryVars
  <1>2. ASSUME NEW s \in Session, SessionCall(s) \/ FreeUnusedSession(s)
        PROVE  LaunchBound'
    BY <1>2 DEF SessionCall, FreeUnusedSession, queryVars
  <1>3. ASSUME NEW q \in Query, ClientCall(q)
        PROVE  LaunchBound'
    BY <1>3 DEF ClientCall, CreateQuery, SetQueryParameter, SetQueryNullValue,
       Submit, Wait, WaitUnsubmitted, SetQueryNullValue, CancelTest, Free, queryVars
  <1>4. ASSUME NEW q \in Query, CallStep(q) \/ CancelSet(q)
        PROVE  LaunchBound'
    BY <1>4 DEF CallStep, CancelSet, Launch, Adopt, WaitReturn, FreeReturn
  <1>5. ASSUME NEW t \in Task, TaskStep(t)
        PROVE  LaunchBound'
    BY <1>5 DEF TaskStep, TaskStart, TaskArguments, TaskFetch, TaskStore,
       TaskCheck, TaskMark
  <1>6. CASE UNCHANGED vars
    BY <1>6 DEF vars, queryVars
  <1>7. QED
    BY <1>1, <1>2, <1>3, <1>4, <1>5, <1>6 DEF Next

LEMMA TypeInvariant == Spec => [](TypeOK /\ LaunchBound)
  <1>1. Init => TypeOK /\ LaunchBound
    <2> SUFFICES ASSUME Init PROVE TypeOK /\ LaunchBound
      OBVIOUS
    <2>1. NoWindow \in Window
      BY QueryAssumption DEF NoWindow, Window
    <2>2. TypeOK
      BY <2>1, SessionTypeInit, QueryAssumption
      DEF Init, TypeOK, Status, Call, PC
    <2>3. QED
      BY <2>2 DEF Init, LaunchBound
  <1>2. TypeOK /\ LaunchBound /\ [Next]_vars => (TypeOK /\ LaunchBound)'
    <2> SUFFICES ASSUME TypeOK, LaunchBound, [Next]_vars PROVE TypeOK'
      BY LaunchBoundStep
    <2> SessionTypeOK
      BY DEF TypeOK
    <2>1. CASE DeviceCall
      BY <2>1, DeviceTypeStep DEF DeviceCall, TypeOK, queryVars
    <2>2. ASSUME NEW s \in Session, SessionCall(s) \/ FreeUnusedSession(s)
          PROVE  TypeOK'
      <3>1. SessionTypeOK'
        BY <2>2, SessionTypeStep DEF SessionCall, FreeUnusedSession, SessionStep
      <3>2. UNCHANGED queryVars
        BY <2>2 DEF SessionCall, FreeUnusedSession
      <3>3. QED
        BY <3>1, <3>2 DEF TypeOK, queryVars
    <2>3. ASSUME NEW q \in Query, ClientCall(q) \/ CallStep(q) \/ CancelSet(q)
          PROVE  TypeOK'
      BY <2>3, CallTypes
    <2>4. ASSUME NEW t \in Task, TaskStep(t) PROVE TypeOK'
      BY <2>4, TaskTypes
    <2>5. CASE UNCHANGED vars
      BY <2>5 DEF vars, sessionVars, queryVars, TypeOK, SessionTypeOK
    <2>6. QED
      BY <2>1, <2>2, <2>3, <2>4, <2>5 DEF Next
  <1>3. QED
    BY <1>1, <1>2, PTL DEF Spec

(* Every variable keeps its type: in particular a task exists for every    *)
(* future, and no submission is counted beyond the bound.                  *)
THEOREM TypeCorrect == Spec => []TypeOK
  BY TypeInvariant, PTL

LEMMA LaunchBoundCorrect == Spec => []LaunchBound
  BY TypeInvariant, PTL

--------------------------------------------------------------------------------
(* Object lifetimes: the inductive invariant behind TaskObjectsAlive.      *)

\* async_query refers to the last submission, but while submit blocks on the
\* one before it.
FutureOfLast ==
  \A q \in Query :
    submits[q] = IF call[q] = "adopt" THEN future[q] + 1 ELSE future[q]

\* A blocking call is inside a live query, and only live queries have tasks.
CalledAlive == \A q \in Query : call[q] # "idle" => live[q] = "live"
TaskAlive == \A q \in Query : Quiet(q) \/ live[q] = "live"

\* A live query's session is initialized, so by ConnectedAsConfigured open.
OwnerInitialized ==
  \A q \in Query : live[q] = "live" =>
    owner[q] \in Session /\ sessionStatus[owner[q]] = "initialized"

LifetimeInv == /\ FutureOfLast /\ CalledAlive /\ TaskAlive /\ OwnerInitialized
               /\ OneTask /\ ConnectedAsConfigured

LEMMA LifetimeInit == Init => LifetimeInv
  <1> SUFFICES ASSUME Init PROVE LifetimeInv
    OBVIOUS
  <1> USE DEF Init, SessionInit
  <1>1. \A q \in Query, n \in 1 .. MaxSubmits : pc[<<q, n>>] = "none"
    BY DEF Task
  <1>2. FutureOfLast /\ CalledAlive /\ OwnerInitialized /\ ConnectedAsConfigured
    BY DEF FutureOfLast, CalledAlive, OwnerInitialized, ConnectedAsConfigured
  <1>3. TaskAlive /\ OneTask
    BY <1>1 DEF TaskAlive, OneTask, Quiet, Running
  <1>4. QED
    BY <1>2, <1>3 DEF LifetimeInv

(* What a step of a task can change: its own program counter, which stays  *)
(* in submit_query or returns, and fields no lifetime depends on.          *)
LEMMA TaskStepEffect ==
  ASSUME TypeOK, NEW t \in Task, TaskStep(t)
  PROVE  /\ UNCHANGED <<sessionVars, owner, live, submits, future, call>>
         /\ pc[t] \in Running
         /\ \E x \in Running \cup {"finished"} : pc' = [pc EXCEPT ![t] = x]
  BY DEF TypeOK, TaskStep, TaskStart, TaskArguments, TaskFetch, TaskStore,
     TaskCheck, TaskMark, Goto, Running, QueryOnly, sessionVars

LEMMA LifetimeTask ==
  ASSUME TypeOK, LifetimeInv, NEW t \in Task, TaskStep(t)
  PROVE  LifetimeInv'
  <1> USE DEF TypeOK, LifetimeInv
  <1>1. /\ UNCHANGED <<sessionVars, owner, live, submits, future, call>>
        /\ pc[t] \in Running
    BY TaskStepEffect
  <1>2. PICK x \in Running \cup {"finished"} : pc' = [pc EXCEPT ![t] = x]
    BY TaskStepEffect
  <1>3. FutureOfLast' /\ CalledAlive' /\ OwnerInitialized' /\ ConnectedAsConfigured'
    BY <1>1 DEF FutureOfLast, CalledAlive, OwnerInitialized,
       ConnectedAsConfigured, sessionVars
  <1>4. \A q \in Query, n \in 1 .. MaxSubmits :
          pc'[<<q, n>>] \in Running \cup {"deferred"} =>
            pc[<<q, n>>] \in Running \cup {"deferred"}
    BY <1>1, <1>2 DEF Running, Task
  <1>5. \A q \in Query, n \in 1 .. MaxSubmits :
          pc'[<<q, n>>] \in Running => pc[<<q, n>>] \in Running
    BY <1>1, <1>2 DEF Running, Task
  <1>6. OneTask'
    BY <1>1, <1>4 DEF OneTask
  <1>7. TaskAlive'
    BY <1>1, <1>5 DEF TaskAlive, Quiet
  <1>8. QED
    BY <1>3, <1>6, <1>7

LEMMA LifetimeSession ==
  ASSUME TypeOK, LifetimeInv, NEW s \in Session,
         SessionCall(s) \/ FreeUnusedSession(s)
  PROVE  LifetimeInv'
  <1> USE DEF TypeOK, SessionTypeOK, LifetimeInv
  <1>1. UNCHANGED queryVars
    BY DEF SessionCall, FreeUnusedSession
  <1>2. FutureOfLast' /\ CalledAlive' /\ TaskAlive' /\ OneTask'
    BY <1>1 DEF FutureOfLast, CalledAlive, TaskAlive, OneTask, Quiet, queryVars
  <1>3. CASE SessionAlloc(s)
    <2>1. OwnerInitialized' /\ ConnectedAsConfigured'
      BY <1>1, <1>3 DEF SessionAlloc, OwnerInitialized, ConnectedAsConfigured,
         queryVars
    <2>2. QED
      BY <1>2, <2>1
  <1>4. CASE SetParameter(s)
    <2>1. CASE SetNullValue(s)
      <3>1. OwnerInitialized' /\ ConnectedAsConfigured'
        BY <1>1, <2>1 DEF SetNullValue, OwnerInitialized, ConnectedAsConfigured,
           queryVars
      <3>2. QED
        BY <1>2, <3>1
    <2>2. CASE ~SetNullValue(s)
      <3>1. PICK c \in Config : Configure(s, c)
        BY <1>4, <2>2, SetParameterConfigures
      <3>2. OwnerInitialized' /\ ConnectedAsConfigured'
        BY <1>1, <3>1 DEF Configure, OwnerInitialized, ConnectedAsConfigured,
           queryVars
      <3>3. QED
        BY <1>2, <3>2
    <2>3. QED
      BY <2>1, <2>2
  <1>5. CASE SessionInitialize(s)
    <2>1. OwnerInitialized' /\ ConnectedAsConfigured'
      BY <1>1, <1>5 DEF SessionInitialize, Dial, OwnerInitialized,
         ConnectedAsConfigured, queryVars
    <2>2. QED
      BY <1>2, <2>1
  <1>6. CASE FreeUnusedSession(s)
    <2>1. OwnerInitialized' /\ ConnectedAsConfigured'
      BY <1>1, <1>6 DEF FreeUnusedSession, SessionFree, OwnerInitialized,
         ConnectedAsConfigured, queryVars
    <2>2. QED
      BY <1>2, <2>1
  <1>7. QED
    BY <1>3, <1>4, <1>5, <1>6 DEF SessionCall

(* Calls that touch neither the tasks nor the life of a query.             *)
LEMMA LifetimeFields ==
  ASSUME TypeOK, LifetimeInv, NEW q \in Query,
         \/ SetQueryParameter(q) \/ CancelTest(q) \/ CancelSet(q)
         \/ WaitUnsubmitted(q) \/ SetQueryNullValue(q) \/ WaitReturn(q)
         \/ Submit(q) \/ Free(q)
  PROVE  LifetimeInv'
  <1> USE DEF TypeOK, LifetimeInv
  <1>1. UNCHANGED <<sessionStatus, link, dialed, config, owner, live, submits,
                    future, pc>>
    BY DEF SetQueryParameter, SetQueryNullValue, CancelTest, CancelSet, WaitUnsubmitted,
       WaitReturn, Submit, Free, QueryOnly, sessionVars, queryVars
  <1>2. /\ call' \in [Query -> Call]
        /\ \A r \in Query : call'[r] # "idle" => live[r] = "live"
        /\ \A r \in Query : call[r] = "adopt" <=> call'[r] = "adopt"
    BY DEF SetQueryParameter, SetQueryNullValue, CancelTest, CancelSet, WaitUnsubmitted,
       WaitReturn, Submit, Free, queryVars, CalledAlive, Callable, Call
  <1>3. FutureOfLast' /\ CalledAlive'
    BY <1>1, <1>2 DEF FutureOfLast, CalledAlive
  <1>4. TaskAlive' /\ OneTask'
    BY <1>1, <1>2 DEF TaskAlive, OneTask, Quiet
  <1>5. OwnerInitialized' /\ ConnectedAsConfigured'
    BY <1>1 DEF OwnerInitialized, ConnectedAsConfigured
  <1>6. QED
    BY <1>3, <1>4, <1>5

LEMMA LifetimeCreate ==
  ASSUME TypeOK, LifetimeInv, NEW q \in Query, NEW s \in Session,
         CreateQuery(s, q)
  PROVE  LifetimeInv'
  <1> USE DEF TypeOK, LifetimeInv, CreateQuery
  <1>1. FutureOfLast' /\ CalledAlive' /\ OwnerInitialized'
    BY DEF FutureOfLast, CalledAlive, OwnerInitialized, QueryOnly, sessionVars
  <1>2. TaskAlive' /\ OneTask' /\ ConnectedAsConfigured'
    BY DEF TaskAlive, OneTask, Quiet, ConnectedAsConfigured, QueryOnly,
       sessionVars
  <1>3. QED
    BY <1>1, <1>2

(* wait starts a deferred task, which belongs to the live query it is on.  *)
LEMMA LifetimeWait ==
  ASSUME TypeOK, LifetimeInv, NEW q \in Query, Wait(q)
  PROVE  LifetimeInv'
  <1> USE DEF TypeOK, LifetimeInv
  <1>1. /\ UNCHANGED <<sessionVars, owner, live, submits, future>>
        /\ call' = [call EXCEPT ![q] = "wait"]
        /\ live[q] = "live" /\ call[q] = "idle"
    BY DEF Wait, QueryOnly, Callable
  <1>2. <<q, future[q]>> \in Task
    BY FutureTypes DEF Wait
  <1>3. \A r \in Query, n \in 1 .. MaxSubmits :
          /\ r # q => pc'[<<r, n>>] = pc[<<r, n>>]
          /\ pc'[<<r, n>>] \in Running \cup {"deferred"} =>
               pc[<<r, n>>] \in Running \cup {"deferred"}
    BY <1>2 DEF Wait, Awaited, Running, Task
  <1>4. FutureOfLast' /\ CalledAlive' /\ OwnerInitialized' /\ ConnectedAsConfigured'
    BY <1>1 DEF FutureOfLast, CalledAlive, OwnerInitialized,
       ConnectedAsConfigured, sessionVars
  <1>5. OneTask'
    BY <1>1, <1>3 DEF OneTask
  <1>6. TaskAlive'
    BY <1>1, <1>3 DEF TaskAlive, Quiet
  <1>7. QED
    BY <1>4, <1>5, <1>6

LEMMA LifetimeLaunch ==
  ASSUME TypeOK, LifetimeInv, NEW q \in Query, Launch(q)
  PROVE  LifetimeInv'
  <1> USE DEF TypeOK, LifetimeInv
  <1>1. /\ UNCHANGED <<sessionVars, owner, live, future>>
        /\ call[q] = "launch" /\ call' = [call EXCEPT ![q] = "adopt"]
        /\ submits' = [submits EXCEPT ![q] = @ + 1]
    BY DEF Launch, QueryOnly
  <1>2. live[q] = "live"
    BY <1>1 DEF CalledAlive
  <1>3. \A r \in Query, n \in 1 .. MaxSubmits :
          r # q \/ n # submits[q] + 1 => pc'[<<r, n>>] = pc[<<r, n>>]
    BY DEF Launch, Task
  <1>4. FutureOfLast' /\ CalledAlive' /\ OwnerInitialized' /\ ConnectedAsConfigured'
    BY <1>1, <1>2 DEF FutureOfLast, CalledAlive, OwnerInitialized,
       ConnectedAsConfigured, sessionVars
  <1>5. OneTask'
    BY <1>1, <1>3 DEF OneTask, FutureOfLast
  <1>6. TaskAlive'
    BY <1>1, <1>2, <1>3 DEF TaskAlive, Quiet
  <1>7. QED
    BY <1>4, <1>5, <1>6

(* A future that could be released has no task left that runs or could run.*)
LEMMA Released ==
  ASSUME TypeOK, NEW q \in Query, Releasable(q),
         pc' = IF future[q] = 0 THEN pc ELSE Release(q)
  PROVE  /\ \A r \in Query, n \in 1 .. MaxSubmits :
              pc'[<<r, n>>] \in Running \cup {"deferred"} =>
                pc'[<<r, n>>] = pc[<<r, n>>]
         /\ future[q] # 0 => pc'[<<q, future[q]>>] \notin Running \cup {"deferred"}
         /\ \A r \in Query : Quiet(r) => Quiet(r)'
  <1> USE DEF TypeOK
  <1>1. CASE future[q] = 0
    BY <1>1 DEF Quiet
  <1>2. CASE future[q] # 0
    <2>1. <<q, future[q]>> \in Task
      BY <1>2, FutureTypes
    <2>2. pc' = [pc EXCEPT ![<<q, future[q]>>] =
                   IF @ = "deferred" THEN "dropped" ELSE @]
      BY <1>2 DEF Release
    <2>3. pc[<<q, future[q]>>] \in {"deferred", "finished"}
      BY <1>2 DEF Releasable
    <2>4. \A r \in Query, n \in 1 .. MaxSubmits :
            pc'[<<r, n>>] \in Running \cup {"deferred"} =>
              pc'[<<r, n>>] = pc[<<r, n>>]
      BY <2>1, <2>2 DEF Task, Running
    <2>5. pc'[<<q, future[q]>>] \notin Running \cup {"deferred"}
      BY <2>1, <2>2, <2>3 DEF Running
    <2>6. QED
      BY <2>4, <2>5 DEF Quiet
  <1>3. QED
    BY <1>1, <1>2

LEMMA LifetimeAdopt ==
  ASSUME TypeOK, LifetimeInv, NEW q \in Query, Adopt(q)
  PROVE  LifetimeInv'
  <1> USE DEF TypeOK, LifetimeInv
  <1>1. /\ UNCHANGED <<sessionVars, owner, live, submits>>
        /\ call[q] = "adopt" /\ call' = [call EXCEPT ![q] = "idle"]
        /\ future' = [future EXCEPT ![q] = submits[q]]
    BY DEF Adopt, QueryOnly
  <1>2. /\ \A r \in Query, n \in 1 .. MaxSubmits :
             pc'[<<r, n>>] \in Running \cup {"deferred"} =>
               pc'[<<r, n>>] = pc[<<r, n>>]
        /\ future[q] # 0 => pc'[<<q, future[q]>>] \notin Running \cup {"deferred"}
        /\ \A r \in Query : Quiet(r) => Quiet(r)'
    BY Released DEF Adopt
  <1>3. FutureOfLast' /\ CalledAlive' /\ OwnerInitialized' /\ ConnectedAsConfigured'
    BY <1>1 DEF FutureOfLast, CalledAlive, OwnerInitialized,
       ConnectedAsConfigured, sessionVars
  <1>4. OneTask'
    <2> SUFFICES ASSUME NEW r \in Query, NEW n \in 1 .. MaxSubmits,
                        pc'[<<r, n>>] \in Running \cup {"deferred"}
                 PROVE  n = future'[r] \/ (call'[r] = "adopt" /\ n = submits'[r])
      BY DEF OneTask
    <2>1. pc[<<r, n>>] \in Running \cup {"deferred"}
      BY <1>2
    <2>2. n = future[r] \/ (call[r] = "adopt" /\ n = submits[r])
      BY <2>1 DEF OneTask
    <2>3. CASE r # q
      BY <1>1, <2>2, <2>3
    <2>4. CASE r = q
      BY <1>1, <1>2, <2>2, <2>4
    <2>5. QED
      BY <2>3, <2>4
  <1>5. TaskAlive'
    BY <1>1, <1>2 DEF TaskAlive
  <1>6. QED
    BY <1>3, <1>4, <1>5

(* free ends the life of a query whose last task, by OneTask the only one  *)
(* that could still run, has returned.                                     *)
LEMMA LifetimeFree ==
  ASSUME TypeOK, LifetimeInv, NEW q \in Query, FreeReturn(q)
  PROVE  LifetimeInv'
  <1> USE DEF TypeOK, LifetimeInv
  <1>1. /\ UNCHANGED <<sessionVars, owner, submits, future>>
        /\ call[q] = "free" /\ call' = [call EXCEPT ![q] = "idle"]
        /\ live' = [live EXCEPT ![q] = "freed"]
    BY DEF FreeReturn, QueryOnly
  <1>2. /\ \A r \in Query, n \in 1 .. MaxSubmits :
             pc'[<<r, n>>] \in Running \cup {"deferred"} =>
               pc'[<<r, n>>] = pc[<<r, n>>]
        /\ future[q] # 0 => pc'[<<q, future[q]>>] \notin Running \cup {"deferred"}
        /\ \A r \in Query : Quiet(r) => Quiet(r)'
    BY Released DEF FreeReturn
  <1>3. FutureOfLast' /\ CalledAlive' /\ OwnerInitialized' /\ ConnectedAsConfigured'
    BY <1>1 DEF FutureOfLast, CalledAlive, OwnerInitialized,
       ConnectedAsConfigured, sessionVars
  <1>4. OneTask'
    BY <1>1, <1>2 DEF OneTask
  <1>5. Quiet(q)'
    <2> SUFFICES ASSUME NEW n \in 1 .. MaxSubmits, pc'[<<q, n>>] \in Running
                 PROVE  FALSE
      BY DEF Quiet
    <2>1. pc[<<q, n>>] \in Running
      BY <1>2
    <2>2. n = future[q]
      BY <1>1, <2>1 DEF OneTask
    <2>3. QED
      BY <1>2, <2>2
  <1>6. TaskAlive'
    BY <1>1, <1>2, <1>5 DEF TaskAlive
  <1>7. QED
    BY <1>3, <1>4, <1>6

LEMMA LifetimeStep ==
  ASSUME TypeOK, LifetimeInv, [Next]_vars
  PROVE  LifetimeInv'
  <1>1. CASE DeviceCall
    BY <1>1 DEF DeviceCall, DeviceInitialize, DeviceFinalize, queryVars,
       LifetimeInv, FutureOfLast, CalledAlive, TaskAlive, OwnerInitialized,
       OneTask, ConnectedAsConfigured, Quiet
  <1>2. ASSUME NEW s \in Session, SessionCall(s) \/ FreeUnusedSession(s)
        PROVE  LifetimeInv'
    BY <1>2, LifetimeSession
  <1>3. ASSUME NEW q \in Query, ClientCall(q) \/ CallStep(q) \/ CancelSet(q)
        PROVE  LifetimeInv'
    BY <1>3, LifetimeFields, LifetimeCreate, LifetimeWait, LifetimeLaunch,
       LifetimeAdopt, LifetimeFree
    DEF ClientCall, CallStep
  <1>4. ASSUME NEW t \in Task, TaskStep(t) PROVE LifetimeInv'
    BY <1>4, LifetimeTask
  <1>5. CASE UNCHANGED vars
    BY <1>5 DEF vars, sessionVars, queryVars,
       LifetimeInv, FutureOfLast, CalledAlive, TaskAlive, OwnerInitialized,
       OneTask, ConnectedAsConfigured, Quiet
  <1>6. QED
    BY <1>1, <1>2, <1>3, <1>4, <1>5 DEF Next

LEMMA LifetimeCorrect == Spec => []LifetimeInv
  BY TypeCorrect, LifetimeInit, LifetimeStep, PTL DEF Spec

(* No task ever touches a destroyed query or session or a connection that  *)
(* is not open, however often a query is submitted.                        *)
THEOREM TasksTouchLiveObjects == Spec => []TaskObjectsAlive
  <1>1. LifetimeInv => TaskObjectsAlive
    BY DEF LifetimeInv, TaskAlive, OwnerInitialized, ConnectedAsConfigured,
       TaskObjectsAlive
  <1>2. QED
    BY <1>1, LifetimeCorrect, PTL

(* Outside submit a query has at most one task that can still run.         *)
THEOREM AtMostOneTask == Spec => []OneTask
  <1>1. LifetimeInv => OneTask
    BY DEF LifetimeInv
  <1>2. QED
    BY <1>1, LifetimeCorrect, PTL

(* An initialized session is connected as it was configured.               *)
THEOREM SessionsConnected == Spec => []ConnectedAsConfigured
  <1>1. LifetimeInv => ConnectedAsConfigured
    BY DEF LifetimeInv
  <1>2. QED
    BY <1>1, LifetimeCorrect, PTL

(* What ends the process: every step but four leaves crash empty.          *)
LEMMA EndsStep ==
  ASSUME TypeOK, LifetimeInv, EndsOnFreshHandles, [Next]_vars
  PROVE  EndsOnFreshHandles'
  <1> USE DEF TypeOK, SessionTypeOK, LifetimeInv
  <1>1. CASE crash' = {}
    BY <1>1 DEF EndsOnFreshHandles
  <1>2. ASSUME NEW q \in Query, WaitUnsubmitted(q) PROVE EndsOnFreshHandles'
    <2>1. live[q] = "live" /\ submits[q] = 0
      BY <1>2 DEF WaitUnsubmitted, Callable, FutureOfLast
    <2>2. /\ UNCHANGED <<live, submits, sessionStatus>>
          /\ crash' = {"wait_unsubmitted"}
      BY <1>2 DEF WaitUnsubmitted, Up, queryVars
    <2>3. QED
      BY <2>1, <2>2 DEF EndsOnFreshHandles
  <1>3. ASSUME NEW s \in Session, SessionFree(s) PROVE EndsOnFreshHandles'
    <2>1. CASE link[s] = "null"
      <3>1. sessionStatus[s] = "allocated"
        BY <1>3, <2>1 DEF SessionFree, ConnectedAsConfigured
      <3>2. UNCHANGED sessionStatus /\ crash' = {"free_uninitialized"}
        BY <1>3, <2>1 DEF SessionFree, Up
      <3>3. QED
        BY <3>1, <3>2 DEF EndsOnFreshHandles
    <2>2. CASE link[s] # "null"
      BY <1>1, <1>3, <2>2 DEF SessionFree, Up
    <2>3. QED
      BY <2>1, <2>2
  <1>0. CASE crash' = {"null_value"}
    BY <1>0 DEF EndsOnFreshHandles
  <1>4. CASE UNCHANGED vars
    BY <1>4 DEF EndsOnFreshHandles, vars, sessionVars, queryVars
  <1>5. CASE DeviceCall
    BY <1>1, <1>5 DEF DeviceCall, DeviceInitialize, DeviceFinalize, Up
  <1>6. ASSUME NEW s \in Session, SessionCall(s) \/ FreeUnusedSession(s)
        PROVE  EndsOnFreshHandles'
    <2>1. CASE SetParameter(s) /\ ~SetNullValue(s)
      BY <1>1, <2>1, SetParameterConfigures DEF Configure, Up
    <2>4. CASE SetNullValue(s)
      BY <1>0, <2>4 DEF SetNullValue, Up
    <2>2. CASE SessionAlloc(s) \/ SessionInitialize(s)
      BY <1>1, <2>2 DEF SessionAlloc, SessionInitialize, Dial, Up
    <2>3. QED
      BY <1>3, <1>6, <2>1, <2>2, <2>4 DEF SessionCall, FreeUnusedSession
  <1>7. ASSUME NEW q \in Query,
               \/ ClientCall(q) /\ ~WaitUnsubmitted(q) /\ ~SetQueryNullValue(q)
               \/ CallStep(q) \/ CancelSet(q)
        PROVE  EndsOnFreshHandles'
    <2>1. QueryOnly
      BY <1>7 DEF ClientCall, CreateQuery, SetQueryParameter, Submit, Wait,
         CancelTest, Free, CallStep, Launch, Adopt, WaitReturn, FreeReturn,
         CancelSet
    <2>2. QED
      BY <1>1, <2>1 DEF QueryOnly, sessionVars, Up
  <1>8. ASSUME NEW t \in Task, TaskStep(t) PROVE EndsOnFreshHandles'
    <2>1. QueryOnly
      BY <1>8 DEF TaskStep, TaskStart, TaskArguments, TaskFetch, TaskStore,
         TaskCheck, TaskMark
    <2>2. QED
      BY <1>1, <2>1 DEF QueryOnly, sessionVars, Up
  <1>9. ASSUME NEW q \in Query, SetQueryNullValue(q) PROVE EndsOnFreshHandles'
    BY <1>0, <1>9 DEF SetQueryNullValue, Up
  <1>10. QED
    BY <1>2, <1>4, <1>5, <1>6, <1>7, <1>8, <1>9 DEF Next

(* wait meets an invalid future only on a query that was never submitted,  *)
(* free a null connection only on a session that was never initialized.    *)
THEOREM OnlyFreshHandlesEnd == Spec => []EndsOnFreshHandles
  <1>1. Init => EndsOnFreshHandles
    BY DEF Init, SessionInit, EndsOnFreshHandles
  <1>2. QED
    BY <1>1, EndsStep, TypeCorrect, LifetimeCorrect, PTL DEF Spec

--------------------------------------------------------------------------------
(* Readable results, however often a query is submitted.                   *)

Past == {"check", "mark", "finished"}   \* a task that stored its readings

StoredInv ==
  \A q \in Query :
    /\ \A n \in 1 .. MaxSubmits :
         /\ pc[<<q, n>>] # "none" => n <= submits[q]
         /\ pc[<<q, n>>] \in Past => results[q] # 0
    /\ results[q] # 0 => pc[<<q, results[q]>>] \in Past
    /\ status[q] = "done" => results[q] # 0
    /\ call[q] = "wait" => future[q] # 0

LEMMA StoredTask ==
  ASSUME TypeOK, StoredInv, NEW t \in Task, TaskStep(t)
  PROVE  StoredInv'
  <1> USE DEF TypeOK, StoredInv, Past
  <1>1. PICK r \in Query, k \in 1 .. MaxSubmits : t = <<r, k>>
    BY DEF Task
  <1>2. /\ t[1] = r /\ t[2] = k
        /\ \A q \in Query, n \in 1 .. MaxSubmits :
             <<q, n>> \in Task /\ (<<q, n>> = t <=> q = r /\ n = k)
    BY <1>1 DEF Task
  <1>3. k \in Nat \ {0}
    BY QueryAssumption
  <1>4. \A q \in Query : results[q] # 0 => results[q] \in 1 .. MaxSubmits
    BY QueryAssumption
  <1>5. CASE TaskStart(t)
    BY <1>1, <1>2, <1>3, <1>4, <1>5 DEF TaskStart, Goto
  <1>6. CASE TaskArguments(t)
    BY <1>1, <1>2, <1>3, <1>4, <1>6 DEF TaskArguments, Goto
  <1>7. CASE TaskFetch(t)
    BY <1>1, <1>2, <1>3, <1>4, <1>7 DEF TaskFetch, Goto
  <1>8. CASE TaskStore(t)
    BY <1>1, <1>2, <1>3, <1>4, <1>8 DEF TaskStore, Goto
  <1>9. CASE TaskCheck(t)
    BY <1>1, <1>2, <1>3, <1>4, <1>9 DEF TaskCheck, Goto
  <1>10. CASE TaskMark(t)
    BY <1>1, <1>2, <1>3, <1>4, <1>10 DEF TaskMark, Goto
  <1>11. QED
    BY <1>5, <1>6, <1>7, <1>8, <1>9, <1>10 DEF TaskStep

(* Releasing a future leaves a task that stored its readings alone.        *)
LEMMA StoredRelease ==
  ASSUME TypeOK, StoredInv, NEW r \in Query,
         pc' = IF future[r] = 0 THEN pc ELSE Release(r),
         call' = [call EXCEPT ![r] = "idle"],
         UNCHANGED <<status, submits, results>>,
         \A q \in Query : call'[q] = "wait" => future'[q] = future[q]
  PROVE  StoredInv'
  <1> USE DEF TypeOK, StoredInv, Past
  <1>1. \A q \in Query, n \in 1 .. MaxSubmits :
          /\ pc'[<<q, n>>] \in Past <=> pc[<<q, n>>] \in Past
          /\ pc'[<<q, n>>] # "none" => pc[<<q, n>>] # "none"
    <2>1. CASE future[r] = 0
      BY <2>1
    <2>2. CASE future[r] # 0
      <3>1. <<r, future[r]>> \in Task
        BY <2>2, FutureTypes
      <3>2. QED
        BY <2>2, <3>1 DEF Release, Task
    <2>3. QED
      BY <2>1, <2>2
  <1>2. \A q \in Query : results[q] # 0 => results[q] \in 1 .. MaxSubmits
    BY QueryAssumption
  <1>3. \A q \in Query : call'[q] = "wait" => call[q] = "wait"
    OBVIOUS
  <1>4. QED
    BY <1>1, <1>2, <1>3

(* Calls move only tasks that have not stored anything.                    *)
LEMMA StoredCall ==
  ASSUME TypeOK, LaunchBound, StoredInv, NEW r \in Query,
         ClientCall(r) \/ CallStep(r) \/ CancelSet(r)
  PROVE  StoredInv'
  <1> USE DEF TypeOK, StoredInv, Past
  <1>1. \A q \in Query, n \in 1 .. MaxSubmits : <<q, n>> \in Task
    BY DEF Task
  <1>2. \A q \in Query : results[q] # 0 => results[q] \in 1 .. MaxSubmits
    BY QueryAssumption
  <1>3. CASE UNCHANGED <<status, pc, submits, results, future, call>>
    BY <1>3
  <1>4. CASE Submit(r)
    BY <1>4 DEF Submit
  <1>5. CASE Free(r)
    BY <1>5 DEF Free
  <1>6. CASE Wait(r)
    <2>1. <<r, future[r]>> \in Task
      BY <1>6, FutureTypes DEF Wait
    <2>2. QED
      BY <1>1, <1>2, <1>6, <2>1 DEF Wait, Awaited
  <1>7. CASE Launch(r)
    <2>1. submits[r] + 1 \in 1 .. MaxSubmits /\ submits[r] \in Nat
      BY <1>7, QueryAssumption DEF Launch, LaunchBound
    <2>2. PICK word \in {"start", "deferred"} :
            pc' = [pc EXCEPT ![<<r, submits[r] + 1>>] = word]
      BY <1>7 DEF Launch
    <2>3. pc[<<r, submits[r] + 1>>] = "none"
      <3>1. ~(submits[r] + 1 <= submits[r])
        BY <2>1
      <3>2. QED
        BY <2>1, <3>1
    <2>4. /\ submits' = [submits EXCEPT ![r] = submits[r] + 1]
          /\ call' = [call EXCEPT ![r] = "adopt"]
          /\ UNCHANGED <<status, results, future>>
      BY <1>7 DEF Launch
    <2>5. \A q \in Query, n \in 1 .. MaxSubmits :
            /\ pc'[<<q, n>>] \in Past <=> pc[<<q, n>>] \in Past
            /\ pc'[<<q, n>>] # "none" => n <= submits'[q]
      <3>1. ASSUME NEW q \in Query, NEW n \in 1 .. MaxSubmits,
                   q # r \/ n # submits[r] + 1
            PROVE  pc'[<<q, n>>] = pc[<<q, n>>] /\ submits[q] <= submits'[q]
        BY <1>1, <2>1, <2>2, <2>4, <3>1
      <3>2. pc'[<<r, submits[r] + 1>>] = word
        BY <1>1, <2>1, <2>2
      <3>3. \A q \in Query, n \in 1 .. MaxSubmits :
              pc'[<<q, n>>] \in Past <=> pc[<<q, n>>] \in Past
        BY <2>3, <3>1, <3>2
      <3>4. ASSUME NEW q \in Query, NEW n \in 1 .. MaxSubmits,
                   pc'[<<q, n>>] # "none"
            PROVE  n <= submits'[q]
        <4>1. CASE q = r /\ n = submits[r] + 1
          BY <2>1, <2>4, <4>1
        <4>2. CASE q # r \/ n # submits[r] + 1
          <5>1. n <= submits[q] /\ submits[q] <= submits'[q]
            BY <3>1, <3>4, <4>2
          <5>2. n \in Nat /\ submits[q] \in Nat /\ submits'[q] \in Nat
            BY <2>1, <2>4, QueryAssumption
          <5>3. QED
            BY <5>1, <5>2
        <4>3. QED
          BY <4>1, <4>2
      <3>5. QED
        BY <3>3, <3>4
    <2>6. \A q \in Query : results[q] # 0 => pc'[<<q, results[q]>>] \in Past
      BY <1>2, <2>5
    <2>7. QED
      BY <2>4, <2>5, <2>6
  <1>8. CASE Adopt(r)
    BY <1>8, StoredRelease DEF Adopt
  <1>9. CASE WaitReturn(r)
    BY <1>9, QueryAssumption DEF WaitReturn, Ready
  <1>10. CASE FreeReturn(r)
    BY <1>10, StoredRelease DEF FreeReturn
  <1>11. CASE CancelSet(r)
    BY <1>11 DEF CancelSet
  <1>12. ClientCall(r) => \/ Submit(r) \/ Wait(r) \/ Free(r)
                          \/ UNCHANGED <<status, pc, submits, results, future,
                                         call>>
    BY DEF ClientCall, CreateQuery, SetQueryParameter, SetQueryNullValue,
       WaitUnsubmitted, CancelTest, queryVars
  <1>13. QED
    BY <1>3, <1>4, <1>5, <1>6, <1>7, <1>8, <1>9, <1>10, <1>11, <1>12 DEF CallStep

(* Every query that is DONE holds the readings of one of its submissions,  *)
(* for every number of overlapping and canceled submissions.               *)
THEOREM DoneHoldsReadings == Spec => []ReadableIsStored
  <1>1. Init => StoredInv
    <2> SUFFICES ASSUME Init PROVE StoredInv
      OBVIOUS
    <2>1. \A q \in Query, n \in 1 .. MaxSubmits : pc[<<q, n>>] = "none"
      BY DEF Init, Task
    <2>2. QED
      BY <2>1 DEF Init, StoredInv, Past
  <1>2. TypeOK /\ LaunchBound /\ StoredInv /\ [Next]_vars => StoredInv'
    <2> SUFFICES ASSUME TypeOK, LaunchBound, StoredInv, [Next]_vars
                 PROVE  StoredInv'
      OBVIOUS
    <2>1. ASSUME UNCHANGED queryVars PROVE StoredInv'
      BY <2>1 DEF StoredInv, queryVars
    <2>2. ASSUME NEW q \in Query, ClientCall(q) \/ CallStep(q) \/ CancelSet(q)
          PROVE  StoredInv'
      BY <2>2, StoredCall
    <2>3. ASSUME NEW t \in Task, TaskStep(t) PROVE StoredInv'
      BY <2>3, StoredTask
    <2>4. QED
      BY <2>1, <2>2, <2>3
      DEF Next, DeviceCall, SessionCall, FreeUnusedSession, vars
  <1>3. TypeOK /\ StoredInv => ReadableIsStored
    <2> SUFFICES ASSUME TypeOK, StoredInv, NEW q \in Query, Readable(q)
                 PROVE  Stored(q)
      BY DEF ReadableIsStored
    <2>1. results[q] \in 1 .. MaxSubmits /\ pc[<<q, results[q]>>] \in Past
      BY QueryAssumption DEF TypeOK, StoredInv, Readable
    <2>2. results[q] <= submits[q]
      BY <2>1 DEF StoredInv, Past
    <2>3. results[q] \in 1 .. submits[q]
      BY <2>1, <2>2 DEF TypeOK
    <2>4. QED
      BY <2>1, <2>3 DEF Stored, Past
  <1>4. QED
    BY <1>1, <1>2, <1>3, TypeCorrect, LaunchBoundCorrect, PTL DEF Spec

--------------------------------------------------------------------------------
(* A query that is submitted once: done is written only after its task has *)
(* stored the results, by the task itself or by a wait that joined it.     *)

CompleteInv ==
  \A q \in Query :
    /\ pc[<<q, 1>>] # "none" => submits[q] = 1
    /\ pc[<<q, 1>>] \in {"check", "mark", "finished"} => results[q] = 1
    /\ status[q] = "done" => pc[<<q, 1>>] = "finished"
    /\ call[q] = "wait" => future[q] # 0

LEMMA OnlyTask == ASSUME MaxSubmits = 1 PROVE Task = Query \X {1}
  BY DEF Task

LEMMA CompleteInit == ASSUME MaxSubmits = 1, Init PROVE CompleteInv
  BY OnlyTask DEF Init, CompleteInv

LEMMA CompleteTask ==
  ASSUME MaxSubmits = 1, TypeOK, CompleteInv, NEW t \in Task, TaskStep(t)
  PROVE  CompleteInv'
  <1> USE DEF TypeOK, CompleteInv
  <1>1. PICK q \in Query : t = <<q, 1>>
    BY OnlyTask
  <1>2. /\ t[1] = q /\ t[2] = 1
        /\ \A r \in Query : <<r, 1>> \in Task /\ (<<r, 1>> = t <=> r = q)
    BY <1>1, OnlyTask
  <1>3. CASE TaskStart(t)
    BY <1>1, <1>2, <1>3 DEF TaskStart, Goto
  <1>4. CASE TaskArguments(t)
    BY <1>1, <1>2, <1>4 DEF TaskArguments, Goto
  <1>5. CASE TaskFetch(t)
    BY <1>1, <1>2, <1>5 DEF TaskFetch, Goto
  <1>6. CASE TaskStore(t)
    BY <1>1, <1>2, <1>6 DEF TaskStore, Goto
  <1>7. CASE TaskCheck(t)
    BY <1>1, <1>2, <1>7 DEF TaskCheck, Goto
  <1>8. CASE TaskMark(t)
    BY <1>1, <1>2, <1>8 DEF TaskMark, Goto
  <1>9. QED
    BY <1>3, <1>4, <1>5, <1>6, <1>7, <1>8 DEF TaskStep

LEMMA CompleteCall ==
  ASSUME MaxSubmits = 1, TypeOK, LaunchBound, CompleteInv, NEW q \in Query,
         ClientCall(q) \/ CallStep(q) \/ CancelSet(q)
  PROVE  CompleteInv'
  <1> USE DEF TypeOK, CompleteInv
  <1>1. \A r \in Query : <<r, 1>> \in Task
    BY OnlyTask
  <1>2. future[q] # 0 => future[q] = 1
    OBVIOUS
  <1>3. CASE UNCHANGED <<status, pc, submits, results, future, call>>
    BY <1>3
  <1>4. CASE Submit(q)
    BY <1>4 DEF Submit
  <1>5. CASE Free(q)
    BY <1>5 DEF Free
  <1>6. CASE Wait(q)
    BY <1>1, <1>2, <1>6 DEF Wait, Awaited
  <1>7. CASE Launch(q)
    <2>1. submits[q] = 0 /\ pc[<<q, 1>>] = "none"
      BY <1>1, <1>7 DEF Launch, LaunchBound
    <2>2. PICK policy \in LaunchPolicies :
            pc' = [pc EXCEPT ![<<q, submits[q] + 1>>] =
                     IF policy = "async" THEN "start" ELSE "deferred"]
      BY <1>7 DEF Launch
    <2>3. /\ pc'[<<q, 1>>] \in {"start", "deferred"}
          /\ \A r \in Query \ {q} : pc'[<<r, 1>>] = pc[<<r, 1>>]
      BY <1>1, <2>1, <2>2
    <2>4. /\ submits' = [submits EXCEPT ![q] = 1]
          /\ call' = [call EXCEPT ![q] = "adopt"]
          /\ UNCHANGED <<status, results, future>>
      BY <1>7, <2>1 DEF Launch
    <2>5. status[q] # "done"
      BY <2>1
    <2>6. QED
      BY <2>3, <2>4, <2>5
  <1>8. CASE Adopt(q)
    BY <1>1, <1>2, <1>8 DEF Adopt, Release
  <1>9. CASE WaitReturn(q)
    BY <1>1, <1>2, <1>9 DEF WaitReturn, Ready
  <1>10. CASE FreeReturn(q)
    BY <1>1, <1>2, <1>10 DEF FreeReturn, Release
  <1>11. CASE CancelSet(q)
    BY <1>11 DEF CancelSet
  <1>12. ClientCall(q) => \/ Submit(q) \/ Wait(q) \/ Free(q)
                          \/ UNCHANGED <<status, pc, submits, results, future,
                                         call>>
    BY DEF ClientCall, CreateQuery, SetQueryParameter, SetQueryNullValue,
       WaitUnsubmitted, CancelTest, queryVars
  <1>13. QED
    BY <1>3, <1>6, <1>7, <1>8, <1>9, <1>10, <1>11, <1>4, <1>5, <1>12 DEF CallStep

LEMMA CompleteCorrect == ASSUME MaxSubmits = 1 PROVE Spec => []CompleteInv
  <1>1. Init => CompleteInv
    BY CompleteInit
  <1>2. TypeOK /\ LaunchBound /\ CompleteInv /\ [Next]_vars => CompleteInv'
    <2> SUFFICES ASSUME TypeOK, LaunchBound, CompleteInv, [Next]_vars
                 PROVE  CompleteInv'
      OBVIOUS
    <2>1. ASSUME UNCHANGED queryVars PROVE CompleteInv'
      BY <2>1 DEF CompleteInv, queryVars
    <2>2. ASSUME NEW q \in Query, ClientCall(q) \/ CallStep(q) \/ CancelSet(q)
          PROVE  CompleteInv'
      BY <2>2, CompleteCall
    <2>3. ASSUME NEW t \in Task, TaskStep(t) PROVE CompleteInv'
      BY <2>3, CompleteTask
    <2>4. QED
      BY <2>1, <2>2, <2>3
      DEF Next, DeviceCall, SessionCall, FreeUnusedSession, vars
  <1>3. QED
    BY <1>1, <1>2, TypeCorrect, LaunchBoundCorrect, PTL DEF Spec

(* When a query is submitted once, get_results returns all the results of  *)
(* that submission or refuses, whatever cancel and wait did in between.    *)
THEOREM SingleSubmissionComplete ==
  ASSUME MaxSubmits = 1 PROVE Spec => []ReadableIsComplete
  <1>1. TypeOK /\ CompleteInv => ReadableIsComplete
    <2> SUFFICES ASSUME TypeOK, CompleteInv, NEW q \in Query, Readable(q)
                 PROVE  /\ \A n \in 1 .. submits[q] : pc[<<q, n>>] = "finished"
                        /\ results[q] = submits[q]
      BY DEF ReadableIsComplete
    <2>1. pc[<<q, 1>>] = "finished"
      BY DEF Readable, CompleteInv
    <2>2. submits[q] = 1 /\ results[q] = 1
      BY <2>1 DEF CompleteInv
    <2>3. \A n \in 1 .. submits[q] : n = 1
      BY <2>2
    <2>4. QED
      BY <2>1, <2>2, <2>3
  <1>2. QED
    BY <1>1, TypeCorrect, CompleteCorrect, PTL

================================================================================
