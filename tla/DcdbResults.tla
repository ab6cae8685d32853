------------------------------ MODULE DcdbResults ------------------------------
(***************************************************************************)
(* Reading the results of a DCDB query, as a component on top of DcdbQuery: *)
(* get_results tests the status, takes the length of the list, and copies  *)
(* the list, with no lock against the task that stores it or the thread    *)
(* that cancels the query.  A list is named by the submission that read it.*)
(***************************************************************************)
EXTENDS DcdbQuery

VARIABLES
  reading,  \* where the client thread is inside get_results
  sized     \* the list whose length it took, 0 before

resultVars == <<reading, sized>>
allVars == <<vars, resultVars>>

ResultsTypeOK ==
  /\ TypeOK
  /\ reading \in [Query -> {"idle", "size", "copy"}]
  /\ sized \in [Query -> 0 .. MaxSubmits]

ResultsInit ==
  /\ Init
  /\ reading = [q \in Query |-> "idle"]
  /\ sized = [q \in Query |-> 0]

\* get_results reads the query and changes nothing of it.
Reads == Up /\ UNCHANGED vars

ReadTestNothing(q) ==          \* mutant: the status is not tested
  /\ Reads
  /\ Callable(q) /\ reading[q] = "idle"
  /\ reading' = [reading EXCEPT ![q] = "size"]
  /\ UNCHANGED sized
ReadTest(q) ==
  /\ Reads
  /\ Callable(q) /\ reading[q] = "idle"
  /\ Readable(q)
  /\ reading' = [reading EXCEPT ![q] = "size"]
  /\ UNCHANGED sized

ReadSize(q) ==
  /\ Reads
  /\ reading[q] = "size"
  /\ reading' = [reading EXCEPT ![q] = "copy"]
  /\ sized' = [sized EXCEPT ![q] = results[q]]

ReadCopy(q) ==
  /\ Reads
  /\ reading[q] = "copy"
  /\ reading' = [reading EXCEPT ![q] = "idle"]
  /\ sized' = [sized EXCEPT ![q] = 0]

ReadStep(q) == ReadSize(q) \/ ReadCopy(q)

--------------------------------------------------------------------------------

\* A query that is read takes no other call of its client but cancel.
ResultsClientCall(q) == CancelTest(q) \/ (reading[q] = "idle" /\ ClientCall(q))

QueryStep ==
  /\ \/ DeviceCall
     \/ \E s \in Session : SessionCall(s) \/ FreeUnusedSession(s)
     \/ \E q \in Query : ResultsClientCall(q) \/ CallStep(q) \/ CancelSet(q)
     \/ \E t \in Task : TaskStep(t)
  /\ UNCHANGED resultVars

ResultsNext == QueryStep \/ \E q \in Query : ReadTest(q) \/ ReadStep(q)

ResultsSpec ==
  /\ ResultsInit /\ [][ResultsNext]_allVars
  /\ Fairness
  /\ \A q \in Query : WF_allVars(ReadStep(q))

--------------------------------------------------------------------------------

(* While get_results reads the list no task can store another one: the     *)
(* list it copies into the client's buffer is the one whose length was     *)
(* tested against the buffer's size.  The status alone protects it, for a  *)
(* query that is submitted once (a task of the first of two submissions    *)
(* marks DONE what the second still has to store, see ReadableIsComplete). *)
ReadsUndisturbed ==
  \A q \in Query : reading[q] # "idle" =>
    /\ \A n \in 1 .. MaxSubmits :
         pc[<<q, n>>] \notin {"deferred", "start", "arguments", "fetch", "store"}
    /\ reading[q] = "copy" => sized[q] = results[q]
================================================================================
