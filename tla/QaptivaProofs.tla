----------------------------- MODULE QaptivaProofs -----------------------------
(***************************************************************************)
(* Proofs about Qaptiva, for any number of sessions, jobs and threads.     *)
(***************************************************************************)
EXTENDS Qaptiva, TLAPS

(* Inside submit a job is unsettled and has a thread; a job has a session. *)
CallInv ==
  \A j \in Job :
    /\ status[j] # "none" => owner[j] \in Session
    /\ pc[j] # "idle" => status[j] \in Unsettled /\ caller[j] \in Thread
    /\ status[j] = "running" => pc[j] \in Calling \cup {"failing"}

TypeInv == TypeOK /\ CallInv

LEMMA TypeInit == Init => TypeInv
  BY QaptivaAssumption DEF Init, TypeInv, TypeOK, CallInv, Unsettled, Unloaded

LEMMA TypeDevice == TypeInv /\ DeviceCall => TypeInv'
  BY QaptivaAssumption
  DEF Preparing, Calling, TypeInv, TypeOK, CallInv, Cause, DeviceCall,
      Initialize, InitializeAgain, Finalize, FinalizeBlocked, FinalizeUnlocked,
      Crash, Unloaded, Unsettled, deviceVars, sessionVars, jobVars

LEMMA TypeSession ==
  ASSUME TypeInv, NEW s \in Session, SessionCall(s) PROVE TypeInv'
  BY DEF Preparing, Calling, TypeInv, TypeOK, CallInv, Cause, SessionCall,
     SessionAlloc, SetNoisy, SetBaseUrl, SetUnchecked, InitializeNoisy,
     ConnectShared, ConnectRefused, ConnectUnloaded, SessionFree, Initializable,
     Crash, Unsettled, deviceVars, sessionVars, jobVars

LEMMA TypeJob == ASSUME TypeInv, NEW j \in Job, JobCall(j) PROVE TypeInv'
  <1> USE DEF Preparing, Calling, TypeInv, TypeOK, CallInv, Unsettled
  <1>1. ASSUME NEW t \in Thread, Submit(j, t) PROVE TypeInv'
    BY <1>1 DEF Submit, Submittable, sessionVars
  <1>2. CASE FreeJob(j) \/ (\E s \in Session : CreateJob(s, j))
             \/ \E p \in Parameter : SetJobParameter(j, p)
    BY <1>2 DEF CreateJob, SetJobParameter, FreeJob, Parameter, deviceVars,
       sessionVars
  <1>3. QED
    BY <1>1, <1>2 DEF JobCall

LEMMA TypeSubmit == ASSUME TypeInv, NEW j \in Job, SubmitStep(j) PROVE TypeInv'
  <1> USE DEF Preparing, Calling, TypeInv, TypeOK, CallInv, Unsettled
  <1>1. CASE Run(j)
    <2>1. Target(j) \in Url
      BY <1>1 DEF Run, Target
    <2>2. QED
      BY <1>1, <2>1 DEF Run, sessionVars
  <1>2. CASE Fail(j) \/ FailEmpty(j) \/ Finish(j)
    BY <1>2 DEF Fail, FailEmpty, Finish, Return, Released, sessionVars
  <1>3. CASE PrepareUnusable(j) \/ Acquire(j) \/ MarkFailed(j)
    BY <1>3
    DEF PrepareUnusable, Acquire, MarkFailed, Return, Crash, Cause, deviceVars,
        sessionVars, jobVars
  <1>4. QED
    BY <1>1, <1>2, <1>3 DEF SubmitStep

LEMMA TypeInvariant == Spec => []TypeInv
  <1>1. TypeInv /\ UNCHANGED vars => TypeInv'
    BY DEF Preparing, Calling, TypeInv, TypeOK, CallInv, vars, deviceVars,
       sessionVars, jobVars
  <1>2. TypeInv /\ [Next]_vars => TypeInv'
    BY <1>1, TypeDevice, TypeSession, TypeJob, TypeSubmit DEF Next
  <1>3. QED
    BY TypeInit, <1>2, PTL DEF Spec

(* Every variable always has its type.                                     *)
THEOREM TypeCorrect == Spec => []TypeOK
  <1>1. TypeInv => TypeOK
    BY DEF TypeInv
  <1>2. QED
    BY <1>1, TypeInvariant, PTL

--------------------------------------------------------------------------------
(* The device is BUSY only while a thread waits for the appliance.         *)
THEOREM NeverLeftBusy == Spec => []BusyIsRunning
  <1>1. Init => BusyIsRunning
    BY DEF Init, BusyIsRunning
  <1>2. TypeInv /\ BusyIsRunning /\ [Next]_vars => BusyIsRunning'
    <2> SUFFICES ASSUME TypeInv, BusyIsRunning, [Next]_vars
                 PROVE  BusyIsRunning'
      OBVIOUS
    <2> USE DEF TypeInv, TypeOK, BusyIsRunning, Preparing, Calling
    <2>1. CASE UNCHANGED <<device, pc>>
      BY <2>1
    <2>2. CASE DeviceCall
      BY <2>2
      DEF DeviceCall, Initialize, InitializeAgain, Finalize, FinalizeBlocked,
          FinalizeUnlocked, Crash, deviceVars, jobVars
    <2>3. ASSUME NEW s \in Session, SessionCall(s) PROVE BusyIsRunning'
      BY <2>3
      DEF SessionCall, SessionAlloc, SetNoisy, SetBaseUrl, SetUnchecked,
          InitializeNoisy, ConnectShared, ConnectRefused, ConnectUnloaded,
          SessionFree, Crash, deviceVars, jobVars
    <2>4. ASSUME NEW j \in Job, JobCall(j) PROVE BusyIsRunning'
      BY <2>4
      DEF JobCall, CreateJob, SetJobParameter, Submit, FreeJob, deviceVars
    <2>5. ASSUME NEW j \in Job, SubmitStep(j) PROVE BusyIsRunning'
      BY <2>5
      DEF SubmitStep, PrepareUnusable, Run, Fail, MarkFailed, Return, FailEmpty,
          Acquire, Finish, Crash, deviceVars, jobVars
    <2>6. QED
      BY <2>1, <2>2, <2>3, <2>4, <2>5 DEF Next, vars, deviceVars, jobVars
  <1>3. QED
    BY <1>1, <1>2, TypeInvariant, PTL DEF Spec

(* A job that submit returned unsettled is a noisy one without T1 and T2.  *)
THEOREM OnlyIncompleteJobsStick == Spec => []OnlyIncompleteStick
  <1>1. Init => OnlyIncompleteStick
    BY DEF Init, OnlyIncompleteStick, Unsettled
  <1>2. TypeInv /\ OnlyIncompleteStick /\ [Next]_vars => OnlyIncompleteStick'
    <2> SUFFICES ASSUME TypeInv, OnlyIncompleteStick, [Next]_vars
                 PROVE  OnlyIncompleteStick'
      OBVIOUS
    <2> USE DEF Preparing, Calling, TypeInv, TypeOK, CallInv,
            OnlyIncompleteStick, Unsettled, Enough
    <2>1. CASE UNCHANGED jobVars /\ noisy \subseteq noisy'
      BY <2>1 DEF jobVars
    <2>2. ASSUME DeviceCall \/ UNCHANGED vars
          PROVE  UNCHANGED jobVars /\ noisy \subseteq noisy'
      BY <2>2
      DEF DeviceCall, Initialize, InitializeAgain, Finalize, FinalizeBlocked,
          FinalizeUnlocked, Crash, sessionVars, vars
    <2>3. ASSUME NEW s \in Session, SessionCall(s)
          PROVE  UNCHANGED jobVars /\ noisy \subseteq noisy'
      BY <2>3
      DEF SessionCall, SessionAlloc, SetNoisy, SetBaseUrl, SetUnchecked,
          InitializeNoisy, ConnectShared, ConnectRefused, ConnectUnloaded,
          SessionFree, Crash, sessionVars
    <2>4. ASSUME NEW j \in Job, JobCall(j) PROVE OnlyIncompleteStick'
      BY <2>4
      DEF JobCall, CreateJob, SetJobParameter, Submit, FreeJob, Submittable,
          sessionVars
    <2>5. ASSUME NEW j \in Job, SubmitStep(j) PROVE OnlyIncompleteStick'
      BY <2>5
      DEF SubmitStep, PrepareUnusable, Run, Fail, MarkFailed, Return, FailEmpty,
          Acquire, Finish, Crash, sessionVars, jobVars
    <2>6. QED
      BY <2>1, <2>2, <2>3, <2>4, <2>5 DEF Next
  <1>3. QED
    BY <1>1, <1>2, TypeInvariant, PTL DEF Spec

(* A job on its way to Python has not been there before.                   *)
UnsentInv ==
  \A j \in Job : status[j] \in {"none", "created"} \/ pc[j] \in Preparing =>
    sentTo[j] = NoUrl

LEMMA UnsentStep == ASSUME TypeInv, UnsentInv, [Next]_vars PROVE UnsentInv'
  <1> USE DEF Preparing, Calling, TypeInv, TypeOK, CallInv, UnsentInv, Unsettled
  <1>1. CASE UNCHANGED jobVars
    BY <1>1 DEF jobVars
  <1>2. ASSUME DeviceCall \/ UNCHANGED vars PROVE UNCHANGED jobVars
    BY <1>2 DEF DeviceCall, Initialize, InitializeAgain, Finalize,
       FinalizeBlocked, FinalizeUnlocked, Crash, vars
  <1>3. ASSUME NEW s \in Session, SessionCall(s) PROVE UNCHANGED jobVars
    BY <1>3
    DEF SessionCall, SessionAlloc, SetNoisy, SetBaseUrl, SetUnchecked,
        InitializeNoisy, ConnectShared, ConnectRefused, ConnectUnloaded,
        SessionFree, Crash
  <1>4. ASSUME NEW j \in Job, JobCall(j) PROVE UnsentInv'
    BY <1>4
    DEF JobCall, CreateJob, SetJobParameter, Submit, Submittable, FreeJob
  <1>5. ASSUME NEW j \in Job, SubmitStep(j) PROVE UnsentInv'
    BY <1>5
    DEF SubmitStep, PrepareUnusable, Run, Fail, MarkFailed, Return, FailEmpty,
        Acquire, Finish, Crash, jobVars
  <1>6. QED
    BY <1>1, <1>2, <1>3, <1>4, <1>5 DEF Next

LEMMA Unsent == Spec => []UnsentInv
  <1>1. Init => UnsentInv
    BY DEF Init, UnsentInv
  <1>2. QED
    BY <1>1, UnsentStep, TypeInvariant, PTL DEF Spec

LEMMA OnlyRunSends ==
  ASSUME TypeInv, Next, NEW j \in Job, pc[j] \notin Calling, pc'[j] \in Calling
  PROVE  pc[j] \in Preparing
  <1> USE DEF TypeInv, TypeOK, Preparing, Calling
  <1>1. ASSUME DeviceCall \/ \E s \in Session : SessionCall(s) PROVE FALSE
    BY <1>1 DEF DeviceCall, Initialize, InitializeAgain, Finalize,
       FinalizeBlocked, FinalizeUnlocked, Crash, jobVars, SessionCall,
       SessionAlloc, SetNoisy, SetBaseUrl, SetUnchecked, InitializeNoisy,
       ConnectShared, ConnectRefused, ConnectUnloaded, SessionFree
  <1>2. ASSUME NEW i \in Job, JobCall(i) PROVE FALSE
    BY <1>2 DEF JobCall, CreateJob, SetJobParameter, Submit, FreeJob
  <1>3. ASSUME NEW i \in Job, SubmitStep(i) PROVE pc[j] \in Preparing
    BY <1>3 DEF SubmitStep, PrepareUnusable, Run, Fail, MarkFailed, Return,
       FailEmpty, Acquire, Finish, Crash, jobVars
  <1>4. QED
    BY <1>1, <1>2, <1>3 DEF Next

(* A settled job is never executed or settled again, and no program is     *)
(* sent twice.                                                             *)
THEOREM JobsRunOnce == Spec => RunsOnce
  <1>1. TypeInv /\ UnsentInv /\ [Next]_vars =>
          [\A j \in Job : SettledStays(j) /\ SentFirst(j)]_vars
    <2> SUFFICES ASSUME TypeInv, UnsentInv, Next, NEW j \in Job
                 PROVE  SettledStays(j) /\ SentFirst(j)
      OBVIOUS
    <2>0. SentFirst(j)
      BY OnlyRunSends DEF SentFirst, UnsentInv
    <2> SUFFICES ASSUME status[j] \in {"done", "failed"}
                 PROVE  status'[j] \in {status[j], "freed"}
                        /\ sentTo'[j] = sentTo[j]
      BY <2>0 DEF SettledStays
    <2> USE DEF Preparing, Calling, TypeInv, TypeOK, CallInv, Unsettled
    <2>1. CASE DeviceCall
      BY <2>1
      DEF DeviceCall, Initialize, InitializeAgain, Finalize, FinalizeBlocked,
          FinalizeUnlocked, Crash, jobVars
    <2>2. ASSUME NEW s \in Session, SessionCall(s)
          PROVE  UNCHANGED <<status, sentTo>>
      BY <2>2
      DEF SessionCall, SessionAlloc, SetNoisy, SetBaseUrl, SetUnchecked,
          InitializeNoisy, ConnectShared, ConnectRefused, ConnectUnloaded,
          SessionFree, Crash, jobVars
    <2>3. ASSUME NEW i \in Job, JobCall(i)
          PROVE  status'[j] \in {status[j], "freed"} /\ sentTo'[j] = sentTo[j]
      BY <2>3
      DEF JobCall, CreateJob, SetJobParameter, Submit, Submittable, FreeJob
    <2>4. ASSUME NEW i \in Job, SubmitStep(i)
          PROVE  status'[j] = status[j] /\ sentTo'[j] = sentTo[j]
      BY <2>4
      DEF SubmitStep, PrepareUnusable, Run, Fail, MarkFailed, Return, FailEmpty,
          Acquire, Finish, Crash, jobVars
    <2>5. QED
      BY <2>1, <2>2, <2>3, <2>4 DEF Next
  <1>2. QED
    BY <1>1, TypeInvariant, Unsent, PTL DEF Spec, RunsOnce

--------------------------------------------------------------------------------
(* The static remote qpu is connected to the host of a session that was    *)
(* initialized: its url cannot change any more.                            *)
KnownQpu ==
  qpu # NoUrl =>
    \E s \in Session :
      sessionStatus[s] \in {"initialized", "freed"} /\ url[s] = qpu

LEMMA QpuKnown == Spec => []KnownQpu
  <1>1. Init => KnownQpu
    BY DEF Init, KnownQpu
  <1>2. TypeInv /\ KnownQpu /\ [Next]_vars => KnownQpu'
    <2> SUFFICES ASSUME TypeInv, KnownQpu, [Next]_vars PROVE KnownQpu'
      OBVIOUS
    <2> USE DEF TypeInv, TypeOK, KnownQpu
    <2>1. CASE UNCHANGED <<qpu, sessionStatus, url>>
      BY <2>1
    <2>2. CASE DeviceCall
      BY <2>2
      DEF DeviceCall, Initialize, InitializeAgain, Finalize, FinalizeBlocked,
          FinalizeUnlocked, Crash, deviceVars, sessionVars
    <2>3. ASSUME NEW s \in Session, SessionCall(s) PROVE KnownQpu'
      <3>1. CASE ConnectShared(s)
        BY <3>1 DEF ConnectShared
      <3>2. CASE InitializeNoisy(s) \/ SessionFree(s)
        BY <3>2 DEF InitializeNoisy, SessionFree, deviceVars
      <3>3. CASE SessionAlloc(s) \/ \E u \in Url : SetBaseUrl(s, u)
        BY <3>3 DEF SessionAlloc, SetBaseUrl, deviceVars
      <3>4. CASE SetNoisy(s) \/ SetUnchecked(s) \/ ConnectRefused(s)
                 \/ ConnectUnloaded(s)
        BY <3>4 DEF SetNoisy, SetUnchecked, ConnectRefused, ConnectUnloaded,
           Crash, deviceVars, sessionVars
      <3>5. QED
        BY <2>3, <3>1, <3>2, <3>3, <3>4 DEF SessionCall
    <2>4. ASSUME NEW j \in Job, JobCall(j) \/ SubmitStep(j)
          PROVE  UNCHANGED <<qpu, sessionStatus, url>>
      BY <2>4
      DEF JobCall, CreateJob, SetJobParameter, Submit, FreeJob, SubmitStep,
          PrepareUnusable, Run, Fail, MarkFailed, Return, FailEmpty, Acquire,
          Finish, Crash, deviceVars, sessionVars
    <2>5. QED
      BY <2>1, <2>2, <2>3, <2>4 DEF Next, vars, deviceVars, sessionVars
  <1>3. QED
    BY <1>1, <1>2, TypeInvariant, PTL DEF Spec

(* A client with a single session: every program goes to the host of the   *)
(* session its job was created on.                                         *)
THEOREM SingleSessionOwnHost ==
  ASSUME \A s, r \in Session : s = r PROVE Spec => OwnHost
  <1>1. TypeInv /\ KnownQpu /\ [Next]_vars =>
          [\A j \in Job : sentTo'[j] # sentTo[j] =>
                            sentTo'[j] = url[owner[j]]]_vars
    <2> SUFFICES ASSUME TypeInv, KnownQpu, Next, NEW j \in Job,
                        sentTo'[j] # sentTo[j]
                 PROVE  sentTo'[j] = url[owner[j]]
      OBVIOUS
    <2> USE DEF Preparing, Calling, TypeInv, TypeOK, CallInv
    <2>1. PICK i \in Job : Run(i)
      BY DEF Next, DeviceCall, Initialize, InitializeAgain, Finalize,
         FinalizeBlocked, FinalizeUnlocked, SessionCall, SessionAlloc, SetNoisy,
         SetBaseUrl, SetUnchecked, InitializeNoisy, ConnectShared,
         ConnectRefused, ConnectUnloaded, SessionFree, JobCall, CreateJob,
         SetJobParameter, Submit, FreeJob, SubmitStep, PrepareUnusable, Fail,
         MarkFailed, Return, FailEmpty, Acquire, Finish, Crash, jobVars
    <2>2. i = j /\ sentTo'[j] = Target(j) /\ Target(j) # NoUrl
      BY <2>1 DEF Run
    <2>3. owner[j] \in Session
      BY <2>1, <2>2 DEF Run, Unsettled
    <2>4. Target(j) = url[owner[j]]
      BY <2>2, <2>3 DEF Target, KnownQpu
    <2>5. QED
      BY <2>2, <2>4
  <1>2. QED
    BY <1>1, TypeInvariant, QpuKnown, PTL DEF Spec, OwnHost

--------------------------------------------------------------------------------
(* Who has the module: it is loaded on a device that is not offline, the   *)
(* import that failed is the only reason why such a device lacks it, and   *)
(* the appliance is not called without it.                                 *)
LoadedInv ==
  /\ module = "loaded" => device # "offline"
  /\ device # "offline" /\ module = "null" => "null" \in Imports
  /\ \A j \in Job : pc[j] \in Calling => module = "loaded"
  /\ \A s \in Session : sessionStatus[s] = "initialized" => url[s] # NoUrl

LEMMA LoadedDevice ==
  ASSUME TypeInv, LoadedInv, UnreadyOnlyEarly, DeviceCall
  PROVE  LoadedInv' /\ UnreadyOnlyEarly'
  <1> USE QaptivaAssumption
      DEF TypeInv, TypeOK, LoadedInv, Calling, NoCalls, UnreadyOnlyEarly, Up,
          sessionVars, jobVars
  <1>1. CASE Initialize
    BY <1>1 DEF Initialize
  <1>2. CASE Finalize \/ FinalizeBlocked
    BY <1>2 DEF Finalize, FinalizeBlocked
  <1>3. CASE InitializeAgain \/ FinalizeUnlocked
    BY <1>3 DEF InitializeAgain, FinalizeUnlocked, Crash, deviceVars
  <1>4. QED
    BY <1>1, <1>2, <1>3 DEF DeviceCall

LEMMA LoadedSession ==
  ASSUME TypeInv, LoadedInv, UnreadyOnlyEarly, NEW s \in Session, SessionCall(s)
  PROVE  LoadedInv' /\ UnreadyOnlyEarly'
  <1> USE QaptivaAssumption
      DEF TypeInv, TypeOK, LoadedInv, UnreadyOnlyEarly, Up, Live, sessionVars,
          jobVars, deviceVars
  <1>1. CASE SessionAlloc(s) \/ SetNoisy(s) \/ SessionFree(s)
             \/ \E u \in Url : SetBaseUrl(s, u)
    BY <1>1 DEF SessionAlloc, SetNoisy, SetBaseUrl, SessionFree
  <1>2. CASE InitializeNoisy(s) \/ ConnectShared(s) \/ ConnectRefused(s)
    BY <1>2 DEF InitializeNoisy, ConnectShared, ConnectRefused, Initializable
  <1>3. CASE ConnectUnloaded(s) \/ SetUnchecked(s)
    BY <1>3 DEF ConnectUnloaded, Initializable, SetUnchecked, Crash
  <1>4. QED
    BY <1>1, <1>2, <1>3 DEF SessionCall

LEMMA LoadedJob ==
  ASSUME TypeInv, LoadedInv, NEW j \in Job, JobCall(j)
  PROVE  LoadedInv' /\ UnreadyOnlyEarly'
  BY DEF TypeInv, TypeOK, LoadedInv, Preparing, Calling, JobCall, CreateJob,
     UnreadyOnlyEarly, SetJobParameter, Submit, FreeJob, Up, sessionVars,
     deviceVars

LEMMA LoadedSubmit ==
  ASSUME TypeInv, LoadedInv, UnreadyOnlyEarly, NEW j \in Job, SubmitStep(j)
  PROVE  LoadedInv' /\ UnreadyOnlyEarly'
  <1> USE DEF TypeInv, TypeOK, CallInv, LoadedInv, Preparing, Calling, Unusable,
          UnreadyOnlyEarly, Up, sessionVars
  <1>1. CASE Run(j) \/ Acquire(j)
    BY <1>1 DEF Run, Acquire, jobVars
  <1>2. CASE Fail(j)
    BY <1>2 DEF Fail
  <1>3. CASE MarkFailed(j) \/ FailEmpty(j) \/ Finish(j)
    BY <1>3 DEF MarkFailed, FailEmpty, Finish, Return, deviceVars
  <1>4. CASE PrepareUnusable(j)
    <2>1. UNCHANGED <<deviceVars, sessionVars, jobVars>> /\ LoadedInv'
      BY <1>4 DEF PrepareUnusable, Crash, deviceVars, jobVars
    <2>2. owner[j] \in Session
      BY <1>4 DEF PrepareUnusable, Unsettled
    <2>3. \/ "null" \in Imports /\ module = "null" /\ device # "offline"
          \/ device = "offline" \/ sessionStatus[owner[j]] # "initialized"
      BY <1>4, <2>2 DEF PrepareUnusable
    <2>4. pc[j] \in Preparing
      BY <1>4 DEF PrepareUnusable
    <2>5. QED
      BY <2>1, <2>3, <2>4 DEF deviceVars, jobVars
  <1>5. QED
    BY <1>1, <1>2, <1>3, <1>4 DEF SubmitStep

(* A NULL module or url reaches Python after a failed import and for a job *)
(* submitted too early only: for every driver, whatever imports may give,  *)
(* any number of sessions and threads.                                     *)
THEOREM UnreadyOnlyBeforeReady == Spec => []UnreadyOnlyEarly
  <1>1. Init => LoadedInv /\ UnreadyOnlyEarly
    BY DEF Init, LoadedInv, UnreadyOnlyEarly, Calling
  <1>2. TypeInv /\ LoadedInv /\ UnreadyOnlyEarly /\ [Next]_vars
        => LoadedInv' /\ UnreadyOnlyEarly'
    <2> SUFFICES ASSUME TypeInv, LoadedInv, UnreadyOnlyEarly, [Next]_vars
                 PROVE  LoadedInv' /\ UnreadyOnlyEarly'
      OBVIOUS
    <2>1. CASE UNCHANGED vars
      BY <2>1 DEF LoadedInv, UnreadyOnlyEarly, vars, deviceVars, sessionVars,
         jobVars
    <2>2. QED
      BY <2>1, LoadedDevice, LoadedSession, LoadedJob, LoadedSubmit DEF Next
  <1>3. QED
    BY <1>1, <1>2, TypeInvariant, PTL DEF Spec

--------------------------------------------------------------------------------
(* The lock of Python is with a thread in submit, or was kept: for any     *)
(* number of threads, and failures at every step.                          *)
THEOREM LockReturned == Spec => []LockGivenBack
  <1>1. Init => LockGivenBack
    BY DEF Init, LockGivenBack
  <1>2. TypeInv /\ LockGivenBack /\ [Next]_vars => LockGivenBack'
    <2> SUFFICES ASSUME TypeInv, LockGivenBack, [Next]_vars, lock' # NoThread,
                        lock' \notin kept'
                 PROVE  \E j \in Job : pc'[j] \in Preparing \cup Calling
                                       /\ lock' = caller'[j]
      BY DEF LockGivenBack, Holds
    <2> USE DEF TypeInv, TypeOK, Preparing, Calling
    <2>1. CASE UNCHANGED <<lock, kept, pc, caller>>
      BY <2>1 DEF LockGivenBack, Holds
    <2>2. ASSUME DeviceCall \/ UNCHANGED vars
          PROVE  UNCHANGED <<lock, kept, pc, caller>>
      BY <2>2 DEF DeviceCall, Initialize, InitializeAgain, Finalize,
         FinalizeBlocked, FinalizeUnlocked, Crash, vars, deviceVars, jobVars
    <2>3. ASSUME NEW s \in Session, SessionCall(s)
          PROVE  UNCHANGED <<lock, kept, pc, caller>>
      BY <2>3
      DEF SessionCall, SessionAlloc, SetNoisy, SetBaseUrl, SetUnchecked,
          InitializeNoisy, ConnectShared, ConnectRefused, ConnectUnloaded,
          SessionFree, Crash, deviceVars, jobVars
    <2>4. ASSUME NEW j \in Job, NEW t \in Thread, Submit(j, t)
          PROVE  \E i \in Job : pc'[i] \in Preparing \cup Calling
                                /\ lock' = caller'[i]
      <3>1. CASE lock' = lock
        <4>1. PICK i \in Job : pc[i] \in Preparing \cup Calling /\ lock = caller[i]
          BY <2>4, <3>1 DEF Submit, LockGivenBack, Holds
        <4>2. i # j
          BY <2>4, <4>1 DEF Submit
        <4>3. QED
          BY <2>4, <3>1, <4>1, <4>2 DEF Submit
      <3>2. CASE lock' # lock
        BY <2>4, <3>2 DEF Submit
      <3>3. QED
        BY <3>1, <3>2
    <2>5. ASSUME NEW j \in Job,
                 FreeJob(j) \/ (\E s \in Session : CreateJob(s, j))
                 \/ \E p \in Parameter : SetJobParameter(j, p)
          PROVE  UNCHANGED <<lock, kept, pc, caller>>
      BY <2>5 DEF FreeJob, CreateJob, SetJobParameter, deviceVars
    <2>6. ASSUME NEW j \in Job, SubmitStep(j)
          PROVE  \E i \in Job : pc'[i] \in Preparing \cup Calling
                                /\ lock' = caller'[i]
      <3>1. CASE PrepareUnusable(j)
        BY <2>1, <3>1 DEF PrepareUnusable, Crash, deviceVars, jobVars
      <3>2. CASE Acquire(j)
        BY <3>2 DEF Acquire, jobVars
      <3>3. CASE Run(j) \/ Fail(j) \/ FailEmpty(j) \/ Finish(j)
        BY <3>3 DEF Run, Fail, FailEmpty, Finish, Released, Holds
      <3>4. CASE MarkFailed(j)
        <4>1. PICK i \in Job : pc[i] \in Preparing \cup Calling /\ lock = caller[i]
          BY <3>4 DEF MarkFailed, deviceVars, LockGivenBack, Holds
        <4>2. i # j
          BY <3>4, <4>1 DEF MarkFailed
        <4>3. QED
          BY <3>4, <4>1, <4>2 DEF MarkFailed, Return, deviceVars
      <3>5. QED
        BY <2>6, <3>1, <3>2, <3>3, <3>4 DEF SubmitStep
    <2>7. QED
      BY <2>1, <2>2, <2>3, <2>4, <2>5, <2>6 DEF Next, JobCall
  <1>3. QED
    BY <1>1, <1>2, TypeInvariant, PTL DEF Spec

--------------------------------------------------------------------------------
(* A Qaptiva job is a QDMI job.                                            *)

(* Where a job stands and what its client was told, by its status.         *)
LEMMA StageOfWord ==
  /\ \A at : \A word \in {"none", "created", "failed", "freed"} :
       StageOf(word, at) = word
  /\ \A at : StageOf("done", at) = "succeeded"
  /\ \A word \in Unsettled :
       /\ StageOf(word, "failing") = "failed"
       /\ \A at : at # "failing" => StageOf(word, at) = "submitted"
  BY DEF StageOf, Unsettled

LEMMA ToldOfWord ==
  /\ ToldOf("done") = "succeeded" /\ ToldOf("failed") = "failed"
  /\ \A word : word \notin {"done", "failed"} => ToldOf(word) = "open"
  BY DEF ToldOf

(* A step that changes one job changes the mapping at that job only.       *)
LEMMA MappingElsewhere ==
  ASSUME NEW j \in Job,
         \A i \in Job \ {j} : status'[i] = status[i] /\ pc'[i] = pc[i]
  PROVE  /\ stage' = [stage EXCEPT ![j] = stage'[j]]
         /\ told' = [told EXCEPT ![j] = told'[j]]
  BY DEF stage, told

LEMMA CallImplements ==
  ASSUME TypeInv, NEW j \in Job, JobCall(j)
  PROVE  Promise!Next \/ UNCHANGED Promise!jobPromiseVars
  <1> USE DEF TypeInv, TypeOK, CallInv
  <1>1. ASSUME \A i \in Job \ {j} : status'[i] = status[i] /\ pc'[i] = pc[i]
        PROVE  /\ stage' = [stage EXCEPT ![j] = stage'[j]]
               /\ told' = [told EXCEPT ![j] = told'[j]]
    BY <1>1, MappingElsewhere
  <1>2. told = [told EXCEPT ![j] = told[j]]
    BY DEF told
  <1>3. ASSUME NEW s \in Session, CreateJob(s, j) PROVE Promise!Create(j)
    <2>1. stage[j] = "none" /\ stage'[j] = "created" /\ told'[j] = told[j]
      BY <1>3, StageOfWord, ToldOfWord DEF CreateJob, stage, told
    <2>2. QED
      BY <1>1, <1>2, <1>3, <2>1 DEF CreateJob, Promise!Create
  <1>4. ASSUME NEW p \in Parameter, SetJobParameter(j, p)
        PROVE  UNCHANGED <<stage, told>>
    BY <1>4 DEF SetJobParameter, stage, told
  <1>5. ASSUME NEW t \in Thread, Submit(j, t) PROVE Promise!Next
    <2>1. stage[j] = "created" /\ stage'[j] = "submitted" /\ told'[j] = told[j]
      BY <1>5, StageOfWord, ToldOfWord DEF Submit, Submittable, stage, told, Unsettled
    <2>2. Promise!Submit(j)
      BY <1>1, <1>2, <1>5, <2>1 DEF Submit, Promise!Submit
    <2>3. QED
      BY <2>2 DEF Promise!Next
  <1>6. CASE FreeJob(j)
    <2>1. stage[j] \notin {"none", "freed"} /\ stage'[j] = "freed" /\ told'[j] = "open"
      BY <1>6, StageOfWord, ToldOfWord DEF FreeJob, stage, told, Unsettled
    <2>2. Promise!Free(j)
      BY <1>1, <1>6, <2>1 DEF FreeJob, Promise!Free
    <2>3. QED
      BY <2>2 DEF Promise!Next
  <1>7. QED
    BY <1>3, <1>4, <1>5, <1>6 DEF JobCall, Promise!Next, Promise!jobPromiseVars

LEMMA SubmitImplements ==
  ASSUME TypeInv, NEW j \in Job, SubmitStep(j)
  PROVE  Promise!Next \/ UNCHANGED Promise!jobPromiseVars
  <1> USE DEF TypeInv, TypeOK, CallInv, Preparing, Calling
  <1>1. ASSUME \A i \in Job \ {j} : status'[i] = status[i] /\ pc'[i] = pc[i]
        PROVE  /\ stage' = [stage EXCEPT ![j] = stage'[j]]
               /\ told' = [told EXCEPT ![j] = told'[j]]
    BY <1>1, MappingElsewhere
  <1>2. stage = [stage EXCEPT ![j] = stage[j]] /\ told = [told EXCEPT ![j] = told[j]]
    BY DEF stage, told
  <1>3. CASE PrepareUnusable(j)
    BY <1>3 DEF PrepareUnusable, Crash, jobVars, stage, told, Promise!jobPromiseVars
  <1>4. CASE Run(j)
    <2>1. stage'[j] = stage[j] /\ told'[j] = told[j]
      BY <1>4, StageOfWord, ToldOfWord DEF Run, stage, told, Unsettled
    <2>2. QED
      BY <1>1, <1>2, <1>4, <2>1 DEF Run, Promise!jobPromiseVars
  <1>5. CASE Fail(j)
    <2>1. stage[j] = "submitted" /\ stage'[j] = "failed" /\ told'[j] = told[j]
      BY <1>5, StageOfWord, ToldOfWord DEF Fail, stage, told, Unsettled
    <2>2. Promise!Finish(j)
      BY <1>1, <1>2, <1>5, <2>1 DEF Fail, Promise!Finish, Promise!End
    <2>3. QED
      BY <2>2 DEF Promise!Next
  <1>6. CASE MarkFailed(j)
    <2>1. /\ stage[j] = "failed" /\ stage'[j] = "failed"
          /\ told[j] = "open" /\ told'[j] = "failed"
      BY <1>6, StageOfWord, ToldOfWord DEF MarkFailed, Return, stage, told, Unsettled
    <2>2. Promise!Tell(j)
      BY <1>1, <1>2, <1>6, <2>1 DEF MarkFailed, Return, Promise!Tell, Promise!End
    <2>3. QED
      BY <2>2 DEF Promise!Next
  <1>7. CASE Finish(j)
    <2>1. stage[j] = "submitted" /\ stage'[j] = "succeeded" /\ told'[j] = "succeeded"
      BY <1>7, StageOfWord, ToldOfWord DEF Finish, Return, stage, told, Unsettled
    <2>2. Promise!Finish(j)
      BY <1>1, <1>7, <2>1 DEF Finish, Return, Promise!Finish, Promise!End
    <2>3. QED
      BY <2>2 DEF Promise!Next
  <1>8. CASE FailEmpty(j)
    <2>1. stage[j] = "submitted" /\ stage'[j] = "failed" /\ told'[j] = "failed"
      BY <1>8, StageOfWord, ToldOfWord
      DEF FailEmpty, Return, stage, told, Unsettled
    <2>2. Promise!Finish(j)
      BY <1>1, <1>8, <2>1 DEF FailEmpty, Return, Promise!Finish, Promise!End
    <2>3. QED
      BY <2>2 DEF Promise!Next
  <1>9. CASE Acquire(j)
    BY <1>9 DEF Acquire, jobVars, stage, told, Promise!jobPromiseVars
  <1>10. QED
    BY <1>3, <1>4, <1>5, <1>6, <1>7, <1>8, <1>9 DEF SubmitStep

(* The device does for its jobs what QdmiJob promises, for any number of   *)
(* threads inside submit, failures at every step, and a Python module that *)
(* is loaded or not.                                                       *)
THEOREM JobsImplementQdmiJob == Spec => JobsAsPromised
  <1>1. Init => Promise!Init
    BY StageOfWord, ToldOfWord DEF Init, Promise!Init, stage, told
  <1>2. TypeInv /\ [Next]_vars
        => [Promise!Next]_Promise!jobPromiseVars
    <2> SUFFICES ASSUME TypeInv, [Next]_vars
                 PROVE  Promise!Next \/ UNCHANGED Promise!jobPromiseVars
      OBVIOUS
    <2>1. CASE UNCHANGED <<status, pc>>
      BY <2>1 DEF stage, told, Promise!jobPromiseVars
    <2>2. ASSUME DeviceCall \/ UNCHANGED vars PROVE UNCHANGED <<status, pc>>
      BY <2>2 DEF DeviceCall, Initialize, InitializeAgain, Finalize,
         FinalizeBlocked, FinalizeUnlocked, Crash, vars, jobVars
    <2>3. ASSUME NEW s \in Session, SessionCall(s) PROVE UNCHANGED <<status, pc>>
      BY <2>3
      DEF SessionCall, SessionAlloc, SetNoisy, SetBaseUrl, SetUnchecked,
          InitializeNoisy, ConnectShared, ConnectRefused, ConnectUnloaded,
          SessionFree, Crash, jobVars
    <2>4. QED
      BY <2>1, <2>2, <2>3, CallImplements, SubmitImplements DEF Next
  <1>3. QED
    BY <1>1, <1>2, TypeInvariant, PTL DEF Spec, JobsAsPromised, Promise!Spec
================================================================================
