-------------------------------- MODULE QdmiJob --------------------------------
(***************************************************************************)
(* What a job of a QDMI device promises its client, whatever the device: it *)
(* is submitted at most once, it ends in one way, the client is told that  *)
(* end and no other, and what it was told is never taken back.  Qaptiva    *)
(* jobs and LRZ jobs implement it.                                         *)
(***************************************************************************)
CONSTANT Job

VARIABLES
  stage,   \* where each job is in its life
  told     \* the end its status tells the client, "open" before

jobPromiseVars == <<stage, told>>

End == {"succeeded", "failed"}

Init ==
  /\ stage = [j \in Job |-> "none"]
  /\ told = [j \in Job |-> "open"]

Create(j) ==
  /\ stage[j] = "none"
  /\ stage' = [stage EXCEPT ![j] = "created"]
  /\ UNCHANGED told

Submit(j) ==
  /\ stage[j] = "created"
  /\ stage' = [stage EXCEPT ![j] = "submitted"]
  /\ UNCHANGED told

\* A job that ends inside a call of its client is told ended at once.
Finish(j) ==
  /\ stage[j] = "submitted"
  /\ \E end \in End :
       /\ stage' = [stage EXCEPT ![j] = end]
       /\ told' \in {told, [told EXCEPT ![j] = end]}

Tell(j) ==
  /\ stage[j] \in End
  /\ told[j] = "open"
  /\ told' = [told EXCEPT ![j] = stage[j]]
  /\ UNCHANGED stage

Free(j) ==
  /\ stage[j] \notin {"none", "freed"}
  /\ stage' = [stage EXCEPT ![j] = "freed"]
  /\ told' = [told EXCEPT ![j] = "open"]

Next == \E j \in Job : \/ Create(j) \/ Submit(j) \/ Finish(j) \/ Tell(j)
                       \/ Free(j)

Spec == Init /\ [][Next]_jobPromiseVars

\* A submitted job ends and its client is told so, unless it frees the job.
FairSpec ==
  /\ Spec
  /\ \A j \in Job : WF_jobPromiseVars(Finish(j)) /\ WF_jobPromiseVars(Tell(j))
================================================================================
