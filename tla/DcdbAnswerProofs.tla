---------------------------- MODULE DcdbAnswerProofs ----------------------------
(***************************************************************************)
(* A query that is submitted once implements AsyncAnswer: the safety part  *)
(* of AnswersAsPromised, for every set of sessions and queries and every   *)
(* launch policy.  What must happen (its fairness) stays with TLC.         *)
(***************************************************************************)
EXTENDS DcdbQueryProofs

\* The life of a query with the one task it can have.
StageOf(life, at) ==
  IF life # "live" THEN life
  ELSE IF at \in Running THEN "working"
  ELSE IF at = "finished" THEN "answered"
  ELSE "idle"

\* The mapping of DcdbQuery, read off that task.
Mapped ==
  /\ stage = [q \in Query |-> StageOf(live[q], pc[<<q, 1>>])]
  /\ readable = [q \in Query |-> live[q] = "live" /\ status[q] = "done"]

\* A query that was not created yet has no task.
Unborn == \A q \in Query : live[q] = "none" => pc[<<q, 1>>] = "none"

AnswerInv == TypeOK /\ LaunchBound /\ LifetimeInv /\ CompleteInv /\ Unborn

--------------------------------------------------------------------------------

LEMMA MappedOnce == ASSUME MaxSubmits = 1 PROVE Mapped
  <1>1. \A q \in Query : Quiet(q) <=> pc[<<q, 1>>] \notin Running
    BY DEF Quiet
  <1>2. \A q \in Query : (\E n \in 1 .. MaxSubmits : pc[<<q, n>>] = "finished")
                           <=> pc[<<q, 1>>] = "finished"
    OBVIOUS
  <1>3. \A q \in Query : stage[q] = StageOf(live[q], pc[<<q, 1>>])
    BY <1>1, <1>2 DEF stage, StageOf
  <1>4. stage = [q \in Query |-> StageOf(live[q], pc[<<q, 1>>])]
    BY <1>3 DEF stage
  <1>5. QED
    BY <1>4 DEF Mapped, readable, Readable

LEMMA UnbornStep ==
  ASSUME MaxSubmits = 1, AnswerInv, [Next]_vars
  PROVE  Unborn'
  <1> USE DEF AnswerInv, TypeOK, Unborn
  <1>1. \A r \in Query : <<r, 1>> \in Task
    BY OnlyTask
  <1>2. ASSUME UNCHANGED <<live, pc>> PROVE Unborn'
    BY <1>2
  <1>3. ASSUME NEW q \in Query, ClientCall(q) \/ CallStep(q) \/ CancelSet(q)
        PROVE  Unborn'
    <2>1. CASE \E s \in Session : CreateQuery(s, q)
      BY <2>1 DEF CreateQuery
    <2>2. CASE Wait(q)
      BY <1>1, <2>2 DEF Wait, Awaited, Callable
    <2>3. CASE Launch(q)
      BY <1>1, <2>3 DEF Launch, LifetimeInv, CalledAlive, LaunchBound
    <2>4. CASE Adopt(q)
      BY <1>1, <2>4 DEF Adopt, Release, LifetimeInv, CalledAlive
    <2>5. CASE FreeReturn(q)
      BY <1>1, <2>5 DEF FreeReturn, Release
    <2>6. QED
      BY <1>2, <1>3, <2>1, <2>2, <2>3, <2>4, <2>5
      DEF ClientCall, CallStep, SetQueryParameter, SetQueryNullValue, Submit,
          WaitUnsubmitted, CancelTest, CancelSet, Free, WaitReturn, queryVars
  <1>4. ASSUME NEW t \in Task, TaskStep(t) PROVE Unborn'
    <2>1. /\ live' = live
          /\ pc[t] \in Running
          /\ \A u \in Task : u # t => pc'[u] = pc[u]
      BY <1>4, TaskStepEffect
    <2>2. \A r \in Query : live[r] = "none" => <<r, 1>> # t
      BY <2>1 DEF Running
    <2>3. QED
      BY <1>1, <2>1, <2>2
  <1>5. QED
    BY <1>2, <1>3, <1>4
    DEF Next, DeviceCall, SessionCall, FreeUnusedSession, vars, queryVars

LEMMA AnswerInvariant == ASSUME MaxSubmits = 1 PROVE Spec => []AnswerInv
  <1>1. Init => Unborn
    BY OnlyTask DEF Init, Unborn
  <1>2. AnswerInv /\ [Next]_vars => Unborn'
    BY UnbornStep
  <1>3. AnswerInv <=> TypeOK /\ LaunchBound /\ LifetimeInv /\ CompleteInv /\ Unborn
    BY DEF AnswerInv
  <1>4. QED
    BY <1>1, <1>2, <1>3, TypeCorrect, LaunchBoundCorrect, LifetimeCorrect,
       CompleteCorrect, PTL DEF Spec

--------------------------------------------------------------------------------

\* A step that shows nothing of a query to its client.
Hidden == UNCHANGED <<stage, readable>>

LEMMA HiddenFields ==
  ASSUME Mapped, Mapped', UNCHANGED <<live, status, pc>>
  PROVE  Hidden
  BY DEF Mapped, Hidden

(* A step on one query moves nothing else of the mapping.                  *)
LEMMA MovesOne ==
  ASSUME Mapped, Mapped', NEW q \in Query,
         \A r \in Query \ {q} : /\ live'[r] = live[r] /\ status'[r] = status[r]
                                /\ pc'[<<r, 1>>] = pc[<<r, 1>>]
  PROVE  /\ stage' = [stage EXCEPT ![q] = StageOf(live'[q], pc'[<<q, 1>>])]
         /\ readable' = [readable EXCEPT ![q] =
                           live'[q] = "live" /\ status'[q] = "done"]
         /\ stage[q] = StageOf(live[q], pc[<<q, 1>>])
         /\ readable[q] = (live[q] = "live" /\ status[q] = "done")
         /\ readable \in [Query -> BOOLEAN]
         /\ stage = [stage EXCEPT ![q] = stage[q]]
  BY DEF Mapped

(* launch and wait are where work starts: the thread of std::async, or the *)
(* caller of wait, which runs a deferred task itself.                      *)
LEMMA StartAnswers ==
  ASSUME MaxSubmits = 1, AnswerInv, Mapped, Mapped', NEW q \in Query,
         Launch(q) \/ Wait(q)
  PROVE  Hidden \/ Promise!Work(q)
  <1> USE DEF AnswerInv, TypeOK
  <1>1. \A r \in Query : <<r, 1>> \in Task
    BY OnlyTask
  <1>2. UNCHANGED <<live, status>> /\ live[q] = "live"
    BY DEF Launch, Wait, Callable, LifetimeInv, CalledAlive
  <1>3. /\ pc[<<q, 1>>] \in {"none", "deferred"} \/ pc'[<<q, 1>>] = pc[<<q, 1>>]
        /\ pc'[<<q, 1>>] \in {"start", "deferred"} \/ pc'[<<q, 1>>] = pc[<<q, 1>>]
        /\ \A r \in Query \ {q} : pc'[<<r, 1>>] = pc[<<r, 1>>]
    <2>1. CASE Launch(q)
      <3>1. submits[q] = 0 /\ pc[<<q, 1>>] = "none"
        BY <1>1, <2>1 DEF Launch, LaunchBound, CompleteInv
      <3>2. PICK policy \in LaunchPolicies :
              pc' = [pc EXCEPT ![<<q, submits[q] + 1>>] =
                       IF policy = "async" THEN "start" ELSE "deferred"]
        BY <2>1 DEF Launch
      <3>3. QED
        BY <1>1, <3>1, <3>2
    <2>2. CASE Wait(q)
      <3>1. future[q] = 1
        BY <2>2 DEF Wait
      <3>2. QED
        BY <1>1, <2>2, <3>1 DEF Wait, Awaited
    <2>3. QED
      BY <2>1, <2>2
  <1>4. /\ stage' = [stage EXCEPT ![q] = StageOf(live[q], pc'[<<q, 1>>])]
        /\ stage[q] = StageOf(live[q], pc[<<q, 1>>])
        /\ stage = [stage EXCEPT ![q] = stage[q]]
    BY <1>2, <1>3, MovesOne
  <1>5. readable' = readable
    BY <1>2 DEF Mapped
  <1>6. CASE pc'[<<q, 1>>] = "start" /\ pc[<<q, 1>>] # "start"
    <2>1. stage[q] = "idle" /\ stage' = [stage EXCEPT ![q] = "working"]
      BY <1>2, <1>3, <1>4, <1>6 DEF StageOf, Running
    <2>2. QED
      BY <1>5, <2>1 DEF Promise!Work
  <1>7. CASE ~(pc'[<<q, 1>>] = "start" /\ pc[<<q, 1>>] # "start")
    <2>1. StageOf(live[q], pc'[<<q, 1>>]) = StageOf(live[q], pc[<<q, 1>>])
      BY <1>3, <1>7 DEF StageOf, Running
    <2>2. QED
      BY <1>4, <1>5, <2>1 DEF Hidden
  <1>8. QED
    BY <1>6, <1>7

(* A cancel that comes late withdraws an answer; wait publishes one, also  *)
(* one that was canceled.                                                  *)
LEMMA TurnAnswers ==
  ASSUME MaxSubmits = 1, AnswerInv, Mapped, Mapped', NEW q \in Query,
         CancelSet(q) \/ WaitReturn(q)
  PROVE  Hidden \/ Promise!Turn(q)
  <1> USE DEF AnswerInv, TypeOK
  <1>1. /\ UNCHANGED <<live, pc>>
        /\ \A r \in Query \ {q} : status'[r] = status[r]
    BY DEF CancelSet, WaitReturn
  <1>2. status[q] = "done" \/ status'[q] = "done" => pc[<<q, 1>>] = "finished"
    <2>1. CASE CancelSet(q)
      BY <2>1 DEF CancelSet, CompleteInv
    <2>2. CASE WaitReturn(q)
      <3>1. call[q] = "wait" /\ pc[<<q, future[q]>>] = "finished"
        BY <2>2 DEF WaitReturn, Ready
      <3>2. future[q] # 0
        BY <3>1 DEF CompleteInv
      <3>3. future[q] = 1
        BY <3>2
      <3>4. QED
        BY <3>1, <3>3
    <2>3. QED
      BY <2>1, <2>2
  <1>3. /\ readable' = [readable EXCEPT ![q] =
                          live[q] = "live" /\ status'[q] = "done"]
        /\ stage[q] = StageOf(live[q], pc[<<q, 1>>])
        /\ readable[q] = (live[q] = "live" /\ status[q] = "done")
        /\ readable \in [Query -> BOOLEAN]
    BY <1>1, MovesOne
  <1>4. stage' = stage
    BY <1>1 DEF Mapped
  <1>5. CASE readable'[q] = readable[q]
    BY <1>3, <1>4, <1>5 DEF Hidden
  <1>6. CASE readable'[q] # readable[q]
    <2>1. live[q] = "live" /\ (status[q] = "done" \/ status'[q] = "done")
      BY <1>3, <1>6
    <2>2. stage[q] = "answered"
      BY <1>2, <1>3, <2>1 DEF StageOf, Running
    <2>3. readable' = [readable EXCEPT ![q] = ~readable[q]]
      BY <1>3, <1>6
    <2>4. QED
      BY <1>4, <2>2, <2>3 DEF Promise!Turn
  <1>7. QED
    BY <1>5, <1>6

(* free waits for the task: what it releases does not work.                *)
LEMMA FreeAnswers ==
  ASSUME MaxSubmits = 1, AnswerInv, Mapped, Mapped', NEW q \in Query,
         FreeReturn(q)
  PROVE  Promise!Free(q)
  <1> USE DEF AnswerInv, TypeOK
  <1>1. \A r \in Query : <<r, 1>> \in Task
    BY OnlyTask
  <1>2. /\ live[q] = "live" /\ live' = [live EXCEPT ![q] = "freed"]
        /\ status' = status
    BY DEF FreeReturn, LifetimeInv, CalledAlive
  <1>3. pc[<<q, 1>>] \notin Running
    <2>1. CASE future[q] = 0
      <3>1. submits[q] = 0
        BY <2>1 DEF FreeReturn, LifetimeInv, FutureOfLast
      <3>2. pc[<<q, 1>>] = "none"
        BY <3>1 DEF CompleteInv
      <3>3. QED
        BY <3>2 DEF Running
    <2>2. CASE future[q] # 0
      <3>1. future[q] = 1
        BY <2>2
      <3>2. QED
        BY <3>1 DEF FreeReturn, Releasable, Running
    <2>3. QED
      BY <2>1, <2>2
  <1>4. \A r \in Query \ {q} : pc'[<<r, 1>>] = pc[<<r, 1>>]
    BY <1>1 DEF FreeReturn, Release
  <1>5. /\ stage' = [stage EXCEPT ![q] = StageOf("freed", pc'[<<q, 1>>])]
        /\ readable' = [readable EXCEPT ![q] =
                          "freed" = "live" /\ status'[q] = "done"]
        /\ stage[q] = StageOf("live", pc[<<q, 1>>])
    BY <1>2, <1>4, MovesOne
  <1>6. stage[q] \in {"idle", "answered"}
    BY <1>3, <1>5 DEF StageOf
  <1>7. stage' = [stage EXCEPT ![q] = "freed"]
    BY <1>5 DEF StageOf
  <1>8. QED
    BY <1>5, <1>6, <1>7 DEF Promise!Free

LEMMA CreateAnswers ==
  ASSUME MaxSubmits = 1, AnswerInv, Mapped, Mapped', NEW q \in Query,
         NEW s \in Session, CreateQuery(s, q)
  PROVE  Promise!Create(q)
  <1> USE DEF AnswerInv, TypeOK
  <1>1. /\ live[q] = "none" /\ live' = [live EXCEPT ![q] = "live"]
        /\ UNCHANGED <<status, pc>>
    BY DEF CreateQuery
  <1>2. pc[<<q, 1>>] = "none" /\ status[q] # "done"
    BY <1>1 DEF Unborn, CompleteInv
  <1>3. /\ stage' = [stage EXCEPT ![q] = StageOf("live", "none")]
        /\ stage[q] = StageOf("none", "none")
    BY <1>1, <1>2, MovesOne
  <1>4. readable' = readable
    BY <1>1, <1>2 DEF Mapped
  <1>5. StageOf("live", "none") = "idle" /\ StageOf("none", "none") = "none"
    BY DEF StageOf, Running
  <1>6. QED
    BY <1>3, <1>4, <1>5 DEF Promise!Create

(* Calls that only write fields of the query: nothing was readable before  *)
(* submit, because this is the only submission.                            *)
LEMMA FieldsAnswer ==
  ASSUME MaxSubmits = 1, AnswerInv, Mapped, Mapped', NEW q \in Query,
         \/ SetQueryParameter(q) \/ CancelTest(q) \/ WaitUnsubmitted(q)
         \/ SetQueryNullValue(q) \/ Submit(q) \/ Free(q) \/ Adopt(q)
  PROVE  Hidden
  <1> USE DEF AnswerInv, TypeOK
  <1>1. CASE Submit(q)
    <2>1. submits[q] = 0
      BY <1>1 DEF Submit
    <2>2. status[q] # "done"
      <3>1. pc[<<q, 1>>] = "none"
        BY <2>1 DEF CompleteInv
      <3>2. QED
        BY <3>1 DEF CompleteInv
    <2>3. QED
      BY <1>1, <2>2 DEF Mapped, Hidden, Submit
  <1>2. CASE Adopt(q)
    <2>1. future[q] = 0
      BY <1>2 DEF Adopt, LifetimeInv, FutureOfLast
    <2>2. QED
      BY <1>2, <2>1, HiddenFields DEF Adopt
  <1>3. QED
    BY <1>1, <1>2, HiddenFields DEF SetQueryParameter, CancelTest,
       WaitUnsubmitted, SetQueryNullValue, Free, queryVars

(* The task works until it returns, and returning is its answer.           *)
LEMMA TaskAnswers ==
  ASSUME MaxSubmits = 1, AnswerInv, Mapped, Mapped', NEW t \in Task, TaskStep(t)
  PROVE  Hidden \/ \E q \in Query : Promise!Answer(q)
  <1> USE DEF AnswerInv, TypeOK
  <1>1. PICK q \in Query : t = <<q, 1>>
    BY OnlyTask
  <1>2. /\ live' = live
        /\ pc[t] \in Running
    BY TaskStepEffect
  <1>3. PICK x \in Running \cup {"finished"} : pc' = [pc EXCEPT ![t] = x]
    BY TaskStepEffect
  <1>4. /\ \A r \in Query : <<r, 1>> \in Task
        /\ \A r \in Query \ {q} : <<r, 1>> # t
    BY <1>1, OnlyTask
  <1>5. /\ \A r \in Query \ {q} : status'[r] = status[r]
        /\ status'[q] = "done" => status[q] = "done" \/ x = "finished"
    BY <1>1, <1>3, <1>4 DEF TaskStep, TaskStart, TaskArguments, TaskFetch,
       TaskStore, TaskCheck, TaskMark, Goto
  <1>6. live[q] = "live"
    <2>1. ~Quiet(q)
      BY <1>1, <1>2 DEF Quiet
    <2>2. QED
      BY <2>1 DEF LifetimeInv, TaskAlive
  <1>7. status[q] # "done"
    BY <1>1, <1>2 DEF CompleteInv, Running
  <1>8. \A r \in Query \ {q} : pc'[<<r, 1>>] = pc[<<r, 1>>]
    BY <1>3, <1>4
  <1>9. /\ stage' = [stage EXCEPT ![q] = StageOf("live", x)]
        /\ readable' = [readable EXCEPT ![q] = status'[q] = "done"]
        /\ stage[q] = "working"
        /\ readable[q] = FALSE
        /\ readable \in [Query -> BOOLEAN]
        /\ stage = [stage EXCEPT ![q] = stage[q]]
    <2>1. pc'[<<q, 1>>] = x
      BY <1>1, <1>3
    <2>2. stage[q] = StageOf("live", pc[t])
      BY <1>1, <1>2, <1>5, <1>6, <1>8, MovesOne
    <2>3. stage[q] = "working"
      BY <1>2, <2>2 DEF StageOf
    <2>4. QED
      BY <1>2, <1>5, <1>6, <1>7, <1>8, <2>1, <2>3, MovesOne
  <1>10. CASE x = "finished"
    <2>1. stage' = [stage EXCEPT ![q] = "answered"]
      BY <1>9, <1>10 DEF StageOf, Running
    <2>2. \E b \in BOOLEAN : readable' = [readable EXCEPT ![q] = b]
      BY <1>9
    <2>3. QED
      BY <1>9, <2>1, <2>2 DEF Promise!Answer
  <1>11. CASE x # "finished"
    <2>1. StageOf("live", x) = stage[q]
      BY <1>3, <1>9, <1>11 DEF StageOf
    <2>2. status'[q] # "done"
      BY <1>5, <1>7, <1>11
    <2>3. QED
      BY <1>9, <2>1, <2>2 DEF Hidden
  <1>12. QED
    BY <1>10, <1>11

LEMMA NextAnswers ==
  ASSUME MaxSubmits = 1, AnswerInv, Mapped, Mapped', [Next]_vars
  PROVE  [Promise!Next]_<<stage, readable>>
  <1>1. CASE UNCHANGED queryVars
    BY <1>1, HiddenFields DEF queryVars, Hidden
  <1>2. ASSUME NEW q \in Query, ClientCall(q) \/ CallStep(q) \/ CancelSet(q)
        PROVE  [Promise!Next]_<<stage, readable>>
    <2>1. CASE \E s \in Session : CreateQuery(s, q)
      BY <2>1, CreateAnswers DEF Promise!Next
    <2>2. CASE Launch(q) \/ Wait(q)
      BY <2>2, StartAnswers DEF Promise!Next, Hidden
    <2>3. CASE CancelSet(q) \/ WaitReturn(q)
      BY <2>3, TurnAnswers DEF Promise!Next, Hidden
    <2>4. CASE FreeReturn(q)
      BY <2>4, FreeAnswers DEF Promise!Next
    <2>5. QED
      BY <1>2, <2>1, <2>2, <2>3, <2>4, FieldsAnswer
      DEF ClientCall, CallStep, Hidden
  <1>3. ASSUME NEW t \in Task, TaskStep(t)
        PROVE  [Promise!Next]_<<stage, readable>>
    BY <1>3, TaskAnswers DEF Promise!Next, Hidden
  <1>4. QED
    BY <1>1, <1>2, <1>3
    DEF Next, DeviceCall, SessionCall, FreeUnusedSession, vars

(* A query that is submitted once shows its client exactly the life of     *)
(* AsyncAnswer: it is idle until a thread works on it, it cannot be        *)
(* released or read while that thread works, and only cancel and wait      *)
(* withdraw and publish an answer.                                         *)
THEOREM QueriesImplementAsyncAnswer ==
  ASSUME MaxSubmits = 1 PROVE Spec => Promise!Safety
  <1>1. Mapped
    BY MappedOnce
  <1>2. Init /\ Mapped => Promise!Init
    <2> SUFFICES ASSUME Init, Mapped PROVE Promise!Init
      OBVIOUS
    <2>1. \A q \in Query : StageOf(live[q], pc[<<q, 1>>]) = "none"
      BY DEF Init, StageOf
    <2>2. \A q \in Query : ~(live[q] = "live" /\ status[q] = "done")
      BY DEF Init
    <2>3. QED
      BY <2>1, <2>2 DEF Mapped, Promise!Init
  <1>3. AnswerInv /\ Mapped /\ Mapped' /\ [Next]_vars
          => [Promise!Next]_<<stage, readable>>
    BY NextAnswers
  <1>4. QED
    BY <1>1, <1>2, <1>3, AnswerInvariant, PTL
    DEF Spec, Promise!Safety, Promise!answerVars

================================================================================
