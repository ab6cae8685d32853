--------------------------- MODULE DcdbResultsProofs ---------------------------
(***************************************************************************)
(* Theorems about DcdbResults: a client that reads results takes only      *)
(* steps of DcdbQuery or none of its steps, so that what is proved of a    *)
(* query holds while it is read.                                           *)
(***************************************************************************)
EXTENDS DcdbResults, DcdbQueryProofs

--------------------------------------------------------------------------------
(* Reading is a refinement of the query under the identity.                *)

LEMMA ResultsStep == ASSUME [ResultsNext]_allVars PROVE [Next]_vars
  <1>1. CASE QueryStep
    <2>1. ASSUME NEW q \in Query, ResultsClientCall(q)
          PROVE  ClientCall(q)
      BY <2>1 DEF ResultsClientCall, ClientCall
    <2>2. QED
      BY <1>1, <2>1 DEF QueryStep, Next
  <1>2. CASE \E q \in Query : ReadTest(q) \/ ReadStep(q)
    BY <1>2 DEF ReadTest, ReadStep, ReadSize, ReadCopy, Reads
  <1>3. CASE UNCHANGED allVars
    BY <1>3 DEF allVars
  <1>4. QED
    BY <1>1, <1>2, <1>3 DEF ResultsNext

(* Everything proved of Spec holds of a query whose results are read.      *)
THEOREM ReadersImplementQuery == ResultsSpec => Spec
  <1>1. ResultsInit => Init
    BY DEF ResultsInit
  <1>2. [ResultsNext]_allVars => [Next]_vars
    BY ResultsStep
  <1>3. QED
    BY <1>1, <1>2, PTL DEF ResultsSpec, Spec

--------------------------------------------------------------------------------
(* Types.                                                                  *)

(* Every variable keeps its type while results are read.                   *)
THEOREM ResultsTypeCorrect == ResultsSpec => []ResultsTypeOK
  <1> DEFINE ReadTypes == /\ reading \in [Query -> {"idle", "size", "copy"}]
                          /\ sized \in [Query -> 0 .. MaxSubmits]
  <1>1. ResultsInit => ReadTypes
    BY QueryAssumption DEF ResultsInit
  <1>2. TypeOK /\ ReadTypes /\ [ResultsNext]_allVars => ReadTypes'
    <2> SUFFICES ASSUME TypeOK, ReadTypes, [ResultsNext]_allVars
                 PROVE  ReadTypes'
      OBVIOUS
    <2>1. CASE UNCHANGED resultVars
      BY <2>1 DEF resultVars
    <2>2. ASSUME NEW q \in Query, ReadTest(q) \/ ReadStep(q)
          PROVE  ReadTypes'
      <3>1. results[q] \in 0 .. MaxSubmits /\ 0 \in 0 .. MaxSubmits
        BY QueryAssumption DEF TypeOK
      <3>2. QED
        BY <2>2, <3>1 DEF ReadTest, ReadStep, ReadSize, ReadCopy
    <2>3. QED
      BY <2>1, <2>2 DEF ResultsNext, QueryStep, allVars
  <1>3. TypeOK /\ ReadTypes => ResultsTypeOK
    BY DEF ResultsTypeOK
  <1>4. QED
    BY <1>1, <1>2, <1>3, ReadersImplementQuery, TypeCorrect, PTL
    DEF ResultsSpec

--------------------------------------------------------------------------------
(* Reading a query that is submitted once.                                 *)

\* The test of get_results found the only submission returned, and from then
\* on nothing writes the list that is read.
ReadAfterTask ==
  \A q \in Query :
    /\ reading[q] # "idle" => pc[<<q, 1>>] = "finished"
    /\ reading[q] = "copy" => sized[q] = results[q]

ReadInv == TypeOK /\ LaunchBound /\ CompleteInv

(* A task that returned stays so, and no other task stores its results.    *)
LEMMA FinishedStays ==
  ASSUME MaxSubmits = 1, ReadInv, [Next]_vars, NEW q \in Query,
         pc[<<q, 1>>] = "finished"
  PROVE  pc'[<<q, 1>>] = "finished" /\ results'[q] = results[q]
  <1> USE DEF ReadInv, TypeOK
  <1>1. \A r \in Query : <<r, 1>> \in Task
    BY OnlyTask
  <1>2. ASSUME UNCHANGED <<pc, results>> PROVE pc' = pc /\ results' = results
    BY <1>2
  <1>3. ASSUME NEW r \in Query, ClientCall(r) \/ CallStep(r) \/ CancelSet(r)
        PROVE  pc'[<<q, 1>>] = "finished" /\ results' = results
    <2>1. CASE Wait(r)
      BY <1>1, <2>1 DEF Wait, Awaited
    <2>2. CASE Launch(r)
      <3>1. submits[q] = 1 /\ submits[r] = 0
        BY <2>2 DEF Launch, LaunchBound, CompleteInv
      <3>2. pc'[<<q, 1>>] = pc[<<q, 1>>] /\ results' = results
        BY <1>1, <2>2, <3>1 DEF Launch
      <3>3. QED
        BY <3>2
    <2>3. CASE Adopt(r)
      BY <1>1, <2>3 DEF Adopt, Release
    <2>4. CASE FreeReturn(r)
      BY <1>1, <2>4 DEF FreeReturn, Release
    <2>5. QED
      BY <1>2, <1>3, <2>1, <2>2, <2>3, <2>4
      DEF ClientCall, CallStep, CreateQuery, SetQueryParameter, Submit,
          WaitUnsubmitted, SetQueryNullValue, CancelTest, CancelSet, Free,
          WaitReturn, queryVars
  <1>4. ASSUME NEW t \in Task, TaskStep(t)
        PROVE  pc'[<<q, 1>>] = "finished" /\ results'[q] = results[q]
    <2>1. PICK r \in Query : t = <<r, 1>>
      BY OnlyTask
    <2>2. pc[t] \in Running /\ \A u \in Task : u # t => pc'[u] = pc[u]
      BY <1>4, TaskStepEffect
    <2>3. r # q
      BY <2>1, <2>2 DEF Running
    <2>4. t[1] = r /\ <<q, 1>> # t
      BY <2>1, <2>3
    <2>5. results'[q] = results[q]
      BY <1>4, <2>3, <2>4 DEF TaskStep, TaskStart, TaskArguments, TaskFetch,
         TaskStore, TaskCheck, TaskMark
    <2>6. QED
      BY <1>1, <2>2, <2>4, <2>5
  <1>5. QED
    BY <1>2, <1>3, <1>4
    DEF Next, DeviceCall, SessionCall, FreeUnusedSession, vars, queryVars

LEMMA ReadStepAfterTask ==
  ASSUME MaxSubmits = 1, ReadInv, ResultsTypeOK, ReadAfterTask,
         [ResultsNext]_allVars
  PROVE  ReadAfterTask'
  <1> USE DEF ReadAfterTask, ResultsTypeOK
  <1>1. CASE UNCHANGED resultVars
    <2>1. [Next]_vars
      BY ResultsStep
    <2>2. QED
      BY <1>1, <2>1, FinishedStays DEF resultVars
  <1>2. ASSUME NEW q \in Query, ReadTest(q)
        PROVE  ReadAfterTask'
    <2>1. pc[<<q, 1>>] = "finished"
      BY <1>2 DEF ReadTest, Readable, ReadInv, CompleteInv
    <2>2. UNCHANGED <<pc, results, sized>>
      BY <1>2 DEF ReadTest, Reads, vars, queryVars
    <2>3. reading' = [reading EXCEPT ![q] = "size"]
      BY <1>2 DEF ReadTest
    <2>4. QED
      BY <2>1, <2>2, <2>3
  <1>3. ASSUME NEW q \in Query, ReadStep(q)
        PROVE  ReadAfterTask'
    <2>1. UNCHANGED <<pc, results>>
      BY <1>3 DEF ReadStep, ReadSize, ReadCopy, Reads, vars, queryVars
    <2>2. QED
      BY <1>3, <2>1 DEF ReadStep, ReadSize, ReadCopy
  <1>4. QED
    BY <1>1, <1>2, <1>3 DEF ResultsNext, QueryStep, allVars

(* While get_results reads the list of a query that was submitted once, no *)
(* task stores another one: the list it copies is the one whose length it  *)
(* tested, whatever cancels come in between.                               *)
THEOREM ReadersUndisturbed ==
  ASSUME MaxSubmits = 1 PROVE ResultsSpec => []ReadsUndisturbed
  <1>1. ResultsInit => ReadAfterTask
    BY DEF ResultsInit, ReadAfterTask
  <1>2. ReadInv /\ ResultsTypeOK /\ ReadAfterTask /\ [ResultsNext]_allVars
          => ReadAfterTask'
    BY ReadStepAfterTask
  <1>3. ReadInv <=> TypeOK /\ LaunchBound /\ CompleteInv
    BY DEF ReadInv
  <1>4. ReadAfterTask => ReadsUndisturbed
    BY DEF ReadAfterTask, ReadsUndisturbed
  <1>5. QED
    BY <1>1, <1>2, <1>3, <1>4, ReadersImplementQuery, ResultsTypeCorrect,
       TypeCorrect, LaunchBoundCorrect, CompleteCorrect, PTL
    DEF ResultsSpec

================================================================================
