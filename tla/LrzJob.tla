--------------------------------- MODULE LrzJob ---------------------------------
(***************************************************************************)
(* Jobs of the LRZ device.  A job is submitted to the quantum portal, which *)
(* executes it while the client polls it with check, waits for it, cancels *)
(* it, or reads its histogram.  The device status is one flag that all the *)
(* jobs write.                                                             *)
(* A session is freed after its jobs.  Calls on one job are made one at a  *)
(* time.                                                                   *)
(***************************************************************************)
EXTENDS LrzSession

CONSTANTS
  Job,        \* job handles; create returns each of them at most once
  NoSession,  \* the session of a job that was not created yet
  WaitAgain,  \* the client waits for a job whose histogram it has already
  MaxFetches  \* bound: how often the histogram of a job is fetched

ASSUME JobAssumption ==
  /\ NoSession \notin Session
  /\ WaitAgain \in BOOLEAN
  /\ MaxFetches \in Nat \ {0}

VARIABLES
  owner,      \* the session a job was created on
  held,       \* "none", "live" or "freed"
  status,     \* the job's status field
  ready,      \* the jobs whose program, format and shot number are set
  portal,     \* what the portal says of the job
  result,     \* the job_result pointer: "null" or "got"
  histogram   \* how many copies of the counts the histogram fields hold

jobVars == <<owner, held, status, ready, portal, result, histogram>>
vars == <<device, lrzSessionVars, jobVars>>

Ended == {"done", "failed", "canceled"}
InPortal == {"PENDING", "WAITING", "COMPLETED", "FAILED", "CANCELLED"}

TypeOK ==
  /\ SessionTypeOK
  /\ owner \in [Job -> Session \cup {NoSession}]
  /\ held \in [Job -> {"none", "live", "freed"}]
  /\ status \in [Job -> {"created", "submitted", "queued"} \cup Ended]
  /\ ready \subseteq Job
  /\ portal \in [Job -> InPortal \cup {"none"}]
  /\ result \in [Job -> {"null", "got"}]
  /\ histogram \in [Job -> 0 .. MaxFetches]

Init ==
  /\ SessionInit
  /\ owner = [j \in Job |-> NoSession]
  /\ held = [j \in Job |-> "none"]
  /\ status = [j \in Job |-> "created"]
  /\ ready = {}
  /\ portal = [j \in Job |-> "none"]
  /\ result = [j \in Job |-> "null"]
  /\ histogram = [j \in Job |-> 0]

JobOnly(j) == held[j] = "live" /\ UNCHANGED lrzSessionVars

--------------------------------------------------------------------------------

CreateJob(s, j) ==
  /\ live[s] = "live"
  /\ held[j] = "none"
  /\ held' = [held EXCEPT ![j] = "live"]
  /\ owner' = [owner EXCEPT ![j] = s]
  /\ UNCHANGED <<device, lrzSessionVars, status, ready, portal, result, histogram>>

\* Parameters are refused (BADSTATE) once the job is submitted.
SetJobParameters(j) ==
  /\ JobOnly(j)
  /\ status[j] = "created"
  /\ ready' = ready \cup {j}
  /\ UNCHANGED <<device, owner, held, status, portal, result, histogram>>

\* A submission the portal refuses changes nothing and can be repeated.
SubmitAgain(j) ==           \* mutant: no BADSTATE test
  /\ JobOnly(j)
  /\ j \in ready
  /\ client[owner[j]] # NoUrl
  /\ portal' = [portal EXCEPT ![j] = "PENDING"]
  /\ status' = [status EXCEPT ![j] = "submitted"]
  /\ device' = "busy"
  /\ UNCHANGED <<owner, held, ready, result, histogram>>
Submit(j) ==
  /\ JobOnly(j)
  /\ j \in ready
  /\ status[j] = "created"
  /\ client[owner[j]] # NoUrl
  /\ portal' = [portal EXCEPT ![j] = "PENDING"]
  /\ status' = [status EXCEPT ![j] = "submitted"]
  /\ device' = "busy"
  /\ UNCHANGED <<owner, held, ready, result, histogram>>

\* cancel writes no status: the portal decides, and check tells.
Cancel(j) ==
  /\ JobOnly(j)
  /\ portal[j] \in {"PENDING", "WAITING"}
  /\ portal' = [portal EXCEPT ![j] = "CANCELLED"]
  /\ UNCHANGED <<device, owner, held, status, ready, result, histogram>>

\* The portal knows these words.  With another one check would return FATAL and
\* change neither status.
ToldWord(word) == word      \* mutant: the portal's word, not converted
Told(word) ==
  CASE word = "PENDING" -> "submitted" [] word = "WAITING" -> "queued"
    [] word = "FAILED" -> "failed"     [] word = "COMPLETED" -> "done"
    [] word = "CANCELLED" -> "canceled"

CheckQuietly(j) ==          \* mutant: the device status is left alone
  /\ JobOnly(j)
  /\ status[j] # "created"
  /\ status' = [status EXCEPT ![j] = Told(portal[j])]
  /\ UNCHANGED <<device, owner, held, ready, portal, result, histogram>>
Check(j) ==
  /\ JobOnly(j)
  /\ status[j] # "created"
  /\ status' = [status EXCEPT ![j] = Told(portal[j])]
  /\ device' = IF status'[j] \in Ended THEN "idle" ELSE "busy"
  /\ UNCHANGED <<owner, held, ready, portal, result, histogram>>

\* Reading a result appends the counts to the histogram fields.
Fetch(j) ==
  /\ portal[j] = "COMPLETED"
  /\ histogram[j] < MaxFetches
  /\ result' = [result EXCEPT ![j] = "got"]
  /\ histogram' = [histogram EXCEPT ![j] = @ + 1]

\* wait replaces the result it has, and does not write the job's status.
Wait(j) ==
  /\ JobOnly(j)
  /\ status[j] # "created"
  /\ WaitAgain \/ histogram[j] = 0
  /\ Fetch(j)
  /\ device' = "idle"
  /\ UNCHANGED <<owner, held, status, ready, portal>>

\* The timeout passed, or the job has no result: the old one is lost too.
WaitInVain(j) ==
  /\ JobOnly(j)
  /\ status[j] # "created"
  /\ WaitAgain \/ histogram[j] = 0
  /\ portal[j] # "COMPLETED"
  /\ result' = [result EXCEPT ![j] = "null"]
  /\ UNCHANGED <<device, owner, held, status, ready, portal, histogram>>

\* get_results fetches the result unless it has it; it does not test the status.
GetResultsAlways(j) ==      \* mutant: no test of the result it has
  /\ JobOnly(j)
  /\ Fetch(j)
  /\ UNCHANGED <<device, owner, held, status, ready, portal>>
GetResults(j) ==
  /\ JobOnly(j)
  /\ result[j] = "null"
  /\ Fetch(j)
  /\ UNCHANGED <<device, owner, held, status, ready, portal>>

FreeJob(j) ==
  /\ JobOnly(j)
  /\ held' = [held EXCEPT ![j] = "freed"]
  /\ UNCHANGED <<device, owner, status, ready, portal, result, histogram>>

--------------------------------------------------------------------------------
(* The portal executes jobs, freed ones too.                               *)

PortalStep(j) ==
  /\ \/ portal[j] = "PENDING" /\ portal' = [portal EXCEPT ![j] = "WAITING"]
     \/ /\ portal[j] \in {"PENDING", "WAITING"}
        /\ \E end \in {"COMPLETED", "FAILED"} :
             portal' = [portal EXCEPT ![j] = end]
  /\ UNCHANGED <<device, lrzSessionVars, owner, held, status, ready, result,
                 histogram>>

--------------------------------------------------------------------------------

FreeUnusedSession(s) ==
  /\ \A j \in Job : owner[j] = s => held[j] # "live"
  /\ SessionFree(s)

SessionCall(s) ==
  /\ \/ SessionAlloc(s) \/ SessionInitialize(s) \/ FreeUnusedSession(s)
     \/ \E u \in Url : SetUrl(s, u)
     \/ \E r \in Resource : SetResource(s, r)
  /\ UNCHANGED jobVars

DeviceCall == (DeviceInitialize \/ DeviceFinalize) /\ UNCHANGED jobVars

JobCall(j) ==
  \/ \E s \in Session : CreateJob(s, j)
  \/ SetJobParameters(j) \/ Submit(j) \/ Cancel(j) \/ Check(j) \/ Wait(j)
  \/ WaitInVain(j) \/ GetResults(j) \/ FreeJob(j)

Next ==
  \/ DeviceCall
  \/ \E s \in Session : SessionCall(s)
  \/ \E j \in Job : JobCall(j) \/ PortalStep(j)

Spec == Init /\ [][Next]_vars

\* The portal executes what it accepted, and the client polls its jobs: it
\* calls check for a job until it is told the end or frees the job.
FairSpec ==
  /\ Spec
  /\ \A j \in Job : WF_vars(PortalStep(j)) /\ WF_vars(Check(j))

--------------------------------------------------------------------------------

(* What check told the client is what became of the job: an end that was   *)
(* reported is the portal's and is never taken back, and every job that    *)
(* has a histogram was completed.                                          *)
EndsAreReal ==
  \A j \in Job :
    /\ status[j] \in Ended => status[j] = Told(portal[j])
    /\ histogram[j] > 0 => portal[j] = "COMPLETED"

(* The device is BUSY only as long as there is a job whose end check has   *)
(* not reported.                                                           *)
BusyIsOwed ==
  device = "busy" => \E j \in Job : portal[j] # "none" /\ status[j] \notin Ended

(* The histogram holds the counts once, if the client does not wait for a  *)
(* job again after it has read the histogram.                              *)
HistogramOnce == \A j \in Job : histogram[j] <= 1

(* A device that became BUSY is reported IDLE again to a client that polls *)
(* its jobs, unless it freed a job before its end was reported: nothing    *)
(* else takes the flag back for that job.                                  *)
Abandoned(j) ==
  held[j] = "freed" /\ portal[j] # "none" /\ status[j] \notin Ended
BusyEnds ==
  device = "busy" ~> device # "busy" \/ \E j \in Job : Abandoned(j)

(* An LRZ job is a QDMI job: the portal decides its end, check tells it.   *)
StageOf(word) ==
  CASE word = "none" -> "created"
    [] word \in {"PENDING", "WAITING"} -> "submitted"
    [] word = "COMPLETED" -> "succeeded"
    [] word \in {"FAILED", "CANCELLED"} -> "failed"
stage == [j \in Job |-> IF held[j] = "live" THEN StageOf(portal[j]) ELSE held[j]]
told == [j \in Job |-> CASE held[j] = "live" /\ status[j] = "done" -> "succeeded"
                         [] held[j] = "live" /\ status[j] \in {"failed", "canceled"}
                              -> "failed"
                         [] OTHER -> "open"]

Promise == INSTANCE QdmiJob WITH Job <- Job, stage <- stage, told <- told
JobsAsPromised == Promise!FairSpec
================================================================================
