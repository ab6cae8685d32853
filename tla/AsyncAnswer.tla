------------------------------ MODULE AsyncAnswer ------------------------------
(***************************************************************************)
(* What an asynchronous query of the DCDB device promises its client: work *)
(* that was started ends with an answer, nothing can be read before, and   *)
(* a query is not released while it works.                                 *)
(***************************************************************************)
CONSTANT Query

VARIABLES
  stage,      \* where each query is in its life
  readable    \* the client can read an answer

answerVars == <<stage, readable>>

Init ==
  /\ stage = [q \in Query |-> "none"]
  /\ readable = [q \in Query |-> FALSE]

Create(q) ==
  /\ stage[q] = "none"
  /\ stage' = [stage EXCEPT ![q] = "idle"]
  /\ UNCHANGED readable

Work(q) ==
  /\ stage[q] = "idle"
  /\ stage' = [stage EXCEPT ![q] = "working"]
  /\ UNCHANGED readable

\* The answer of a canceled query may not become readable.
Answer(q) ==
  /\ stage[q] = "working"
  /\ stage' = [stage EXCEPT ![q] = "answered"]
  /\ \E b \in BOOLEAN : readable' = [readable EXCEPT ![q] = b]

\* An answer is withdrawn by a cancel that comes late, and published by wait.
Turn(q) ==
  /\ stage[q] = "answered"
  /\ readable' = [readable EXCEPT ![q] = ~@]
  /\ UNCHANGED stage

Free(q) ==
  /\ stage[q] \in {"idle", "answered"}
  /\ stage' = [stage EXCEPT ![q] = "freed"]
  /\ readable' = [readable EXCEPT ![q] = FALSE]

Next == \E q \in Query : Create(q) \/ Work(q) \/ Answer(q) \/ Turn(q) \/ Free(q)

\* What may happen, and with it what must.
Safety == Init /\ [][Next]_answerVars
Spec == Safety /\ \A q \in Query : WF_answerVars(Answer(q))

================================================================================
