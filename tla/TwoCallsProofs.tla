----------------------------- MODULE TwoCallsProofs -----------------------------
(***************************************************************************)
(* Theorems about TwoCalls, for every set of kinds and of buffer sizes and *)
(* values of every length.                                                 *)
(***************************************************************************)
EXTENDS TwoCalls, QaptivaResultsProofs

--------------------------------------------------------------------------------
(* What the two calls rely on, for each answer: with n elements of w bytes *)
(* and a buffer of any size, it tells the size it requires or nothing, it  *)
(* writes no more than the buffer, and it accepts a buffer of that size.   *)

\* What every answer of the device keeps to.
Keeps(new, required, size) ==
  /\ new.told \in {Untold, required}
  /\ size = NoBuffer => new.told = required /\ new.written = 0
  /\ size # NoBuffer => new.written <= size

LEMMA StringKeeps ==
  ASSUME NEW n \in Nat, NEW size \in Nat \cup {NoBuffer}
  PROVE  LET new == StringAnswer(n, size)
         IN  /\ Keeps(new, n + 1, size)
             /\ new.ok /\ size # NoBuffer => new.delivered = n
             /\ size = n + 1 => new.ok
  BY DEF StringAnswer, Copied, Refused, Lesser, Keeps, NoBuffer, Untold

LEMMA ListKeeps ==
  ASSUME NEW n \in Nat, NEW w \in Nat, NEW size \in Nat \cup {NoBuffer}
  PROVE  LET new == ListAnswer(n, w, size)
         IN  /\ n * w \in Nat
             /\ Keeps(new, n * w, size)
             /\ new.ok /\ size # NoBuffer => new.delivered = n
             /\ size = n * w => new.ok
  <1>1. n * w \in Nat
    OBVIOUS
  <1>2. QED
    BY <1>1 DEF ListAnswer, Copied, Refused, Keeps, NoBuffer, Untold

LEMMA SingleKeeps ==
  ASSUME NEW w \in Nat, NEW size \in Nat \cup {NoBuffer}
  PROVE  LET new == SingleAnswer(w, size)
         IN  /\ Keeps(new, w, size)
             /\ new.ok /\ size # NoBuffer => new.delivered = 1
             /\ size = w => new.ok
  BY DEF SingleAnswer, Copied, Refused, Keeps, NoBuffer, Untold

LEMMA TimestampsKeeps ==
  ASSUME NEW n \in Nat, NEW size \in Nat \cup {NoBuffer}
  PROVE  LET new == TimestampsAnswer(n, size)
         IN  /\ Keeps(new, 8 * n, size)
             /\ new.ok /\ size # NoBuffer => new.delivered = n
             /\ size = 8 * n /\ size # 0 => new.ok
  BY DEF TimestampsAnswer, Copied, Refused, Keeps, NoBuffer, Untold

(* The one answer that writes more than the buffer it accepts.             *)
LEMMA ReadingsTell ==
  ASSUME NEW n \in Nat, NEW size \in Nat \cup {NoBuffer}
  PROVE  LET new == ReadingsAnswer(n, size)
         IN  /\ new.told \in {Untold, 4 * n}
             /\ size = NoBuffer => new.told = 4 * n
             /\ new.ok /\ size # NoBuffer => new.delivered = n
             /\ size = 4 * n /\ size # 0 => new.ok
  BY DEF ReadingsAnswer, Copied, Refused, NoBuffer, Untold

LEMMA NamesTell ==
  ASSUME NEW n \in Nat, NEW w \in Nat, NEW size \in Nat \cup {NoBuffer}
  PROVE  LET new == NamesAnswer(n, w, size)
         IN  /\ n * (w + 1) \in Nat
             /\ new.told \in {Untold, n * (w + 1)}
             /\ size = n * (w + 1) => new.written <= size
             /\ new.ok
             /\ size # NoBuffer => new.delivered = n
  <1>1. n * (w + 1) \in Nat
    OBVIOUS
  <1>2. QED
    BY <1>1 DEF NamesAnswer, NoBuffer, Untold

LEMMA KeysKeeps ==
  ASSUME NEW n \in Nat \ {0}, NEW w \in Nat \ {0},
         NEW size \in Nat \cup {NoBuffer}
  PROVE  LET new == KeysAnswer(n, w, size)
             length == KeysLength(n, w)
         IN  /\ length \in Nat \ {0}
             /\ Keeps(new, length, size)
             /\ new.ok /\ size # NoBuffer =>
                  new.delivered = length - (IF size = length THEN 1 ELSE 0)
             /\ size = length => new.ok
  <1>1. KeysLength(n, w) \in Nat \ {0}
    <2>1. n * w \in Nat \ {0}
      OBVIOUS
    <2>2. QED
      BY <2>1 DEF KeysLength
  <1>2. QED
    BY <1>1 DEF KeysAnswer, Copied, Refused, Lesser, Keeps, NoBuffer, Untold

LEMMA ProbabilitiesKeeps ==
  ASSUME NEW n \in Nat, NEW size \in Nat \cup {NoBuffer}
  PROVE  LET new == ProbabilitiesAnswer(n, size)
         IN  /\ Keeps(new, 8 * (n + 1), size)
             /\ new.ok /\ size # NoBuffer => new.delivered = n
             /\ size = 8 * (n + 1) => new.ok
  BY DEF ProbabilitiesAnswer, Copied, Refused, Lesser, Keeps, NoBuffer, Untold

LEMMA DenseKeeps ==
  ASSUME NEW n \in Nat, NEW size \in Nat \cup {NoBuffer}
  PROVE  LET new == DenseAnswer(n, size)
         IN  /\ Keeps(new, 8 * n, size)
             /\ new.ok /\ size # NoBuffer => new.delivered = n
             /\ size = 8 * n => new.ok
  BY DEF DenseAnswer, Copied, Refused, Keeps, NoBuffer, Untold

--------------------------------------------------------------------------------
(* The inductive invariant: the last answer is what the device says of the *)
(* value it holds now, and the size told is the one that value requires.   *)

\* What the device answers to a buffer of this size.
Response(size) == IF kind = "dense" THEN DenseAnswer(n_state, size) ELSE Stored(size)

\* The size of the value the device holds, in bytes.
Required ==
  LET n == Len(value) IN
  CASE kind = "string" -> n + 1
    [] kind = "list" -> n * width
    [] kind = "single" -> width
    [] kind = "timestamps" -> 8 * n
    [] kind = "readings" -> 4 * n
    [] kind = "names" -> n * (width + 1)
    [] kind = "keys" -> KeysLength(n, width)
    [] kind = "probabilities" -> 8 * (n + 1)
    [] kind = "dense" -> 8 * n_state

\* What is asked about: a job has at least one outcome.
Held ==
  /\ kind \in Kind
  /\ width \in Nat \ {0}
  /\ Len(value) \in Nat
  /\ kind \in Results => Len(value) # 0
  /\ n_state \in Nat

LastAnswer ==
  buffer # NoBuffer => buffer \in BufferSize /\ answer = Response(buffer)

\* The size of the dense table is told when it was built.
ToldSize == fresh => told = Required /\ (kind = "dense" => n_state # 0)

(* The lemmas above, for whatever kind the client reads.                   *)
LEMMA ResponseKeeps ==
  ASSUME Held, NEW size \in Nat \cup {NoBuffer}
  PROVE  /\ Required \in Nat
         /\ Response(size).told \in {Untold, Required}
         /\ size = Required /\ ~(kind \in {"timestamps", "readings"} /\ size = 0)
              => Response(size).ok
         /\ size # NoBuffer /\ kind # "readings"
              /\ (kind = "names" => size = Required)
              => Response(size).written <= size
         /\ size # NoBuffer /\ Response(size).ok =>
              (kind = "keys" /\ size = Whole) \/ Response(size).delivered = Whole
  <1> DEFINE n == Len(value)
  <1> USE DEF Held
  <1>1. CASE kind = "string"
    <2>1. /\ Response(size) = StringAnswer(n, size)
          /\ Required = n + 1 /\ Whole = n
      BY <1>1 DEF Response, Stored, Required, Whole
    <2>2. QED
      BY <1>1, <2>1, StringKeeps DEF Keeps
  <1>2. CASE kind = "list"
    <2>1. /\ Response(size) = ListAnswer(n, width, size)
          /\ Required = n * width /\ Whole = n
      BY <1>2 DEF Response, Stored, Required, Whole
    <2>2. LET new == ListAnswer(n, width, size)
          IN  /\ n * width \in Nat
              /\ Keeps(new, n * width, size)
              /\ new.ok /\ size # NoBuffer => new.delivered = n
              /\ size = n * width => new.ok
      BY ListKeeps
    <2>3. QED
      BY <1>2, <2>1, <2>2 DEF Keeps
  <1>3. CASE kind = "single"
    <2>1. /\ Response(size) = SingleAnswer(width, size)
          /\ Required = width /\ Whole = 1
      BY <1>3 DEF Response, Stored, Required, Whole
    <2>2. QED
      BY <1>3, <2>1, SingleKeeps DEF Keeps
  <1>4. CASE kind = "timestamps"
    <2>1. /\ Response(size) = TimestampsAnswer(n, size)
          /\ Required = 8 * n /\ Whole = n
      BY <1>4 DEF Response, Stored, Required, Whole
    <2>2. LET new == TimestampsAnswer(n, size)
          IN  /\ Keeps(new, 8 * n, size)
              /\ new.ok /\ size # NoBuffer => new.delivered = n
              /\ size = 8 * n /\ size # 0 => new.ok
      BY TimestampsKeeps
    <2>3. QED
      BY <1>4, <2>1, <2>2 DEF Keeps
  <1>5. CASE kind = "readings"
    <2>1. /\ Response(size) = ReadingsAnswer(n, size)
          /\ Required = 4 * n /\ Whole = n
      BY <1>5 DEF Response, Stored, Required, Whole
    <2>2. LET new == ReadingsAnswer(n, size)
          IN  /\ new.told \in {Untold, 4 * n}
              /\ new.ok /\ size # NoBuffer => new.delivered = n
              /\ size = 4 * n /\ size # 0 => new.ok
      BY ReadingsTell
    <2>3. QED
      BY <1>5, <2>1, <2>2 DEF Keeps
  <1>6. CASE kind = "names"
    <2>1. /\ Response(size) = NamesAnswer(n, width, size)
          /\ Required = n * (width + 1) /\ Whole = n
      BY <1>6 DEF Response, Stored, Required, Whole
    <2>2. QED
      BY <1>6, <2>1, NamesTell
  <1>7. CASE kind = "keys"
    <2>1. /\ Response(size) = KeysAnswer(n, width, size)
          /\ Required = KeysLength(n, width) /\ Whole = KeysLength(n, width)
      BY <1>7 DEF Response, Stored, Required, Whole
    <2>2. n \in Nat \ {0}
      BY <1>7 DEF Results
    <2>3. LET new == KeysAnswer(n, width, size)
              length == KeysLength(n, width)
          IN  /\ length \in Nat \ {0}
              /\ Keeps(new, length, size)
              /\ new.ok /\ size # NoBuffer =>
                   new.delivered = length - (IF size = length THEN 1 ELSE 0)
              /\ size = length => new.ok
      BY <2>2, KeysKeeps
    <2>4. QED
      BY <1>7, <2>1, <2>3 DEF Keeps
  <1>8. CASE kind = "probabilities"
    <2>1. /\ Response(size) = ProbabilitiesAnswer(n, size)
          /\ Required = 8 * (n + 1) /\ Whole = n
      BY <1>8 DEF Response, Stored, Required, Whole
    <2>2. LET new == ProbabilitiesAnswer(n, size)
          IN  /\ Keeps(new, 8 * (n + 1), size)
              /\ new.ok /\ size # NoBuffer => new.delivered = n
              /\ size = 8 * (n + 1) => new.ok
      BY ProbabilitiesKeeps
    <2>3. QED
      BY <1>8, <2>1, <2>2 DEF Keeps
  <1>9. CASE kind = "dense"
    <2>1. /\ Response(size) = DenseAnswer(n_state, size)
          /\ Required = 8 * n_state /\ Whole = n_state
      BY <1>9 DEF Response, Required, Whole
    <2>2. QED
      BY <1>9, <2>1, DenseKeeps DEF Keeps
  <1>10. QED
    BY <1>1, <1>2, <1>3, <1>4, <1>5, <1>6, <1>7, <1>8, <1>9, TwoCallsAssumption

--------------------------------------------------------------------------------

LEMMA ListTypes == \A list \in Lists : Len(list) \in Nat
  BY TwoCallsAssumption DEF Lists

(* What is asked about stays a value of its kind.                          *)
LEMMA HeldInit == ASSUME Init PROVE Held
  <1>1. width \in Nat \ {0}
    BY ResultsAssumption DEF Init, Widths
  <1>2. Len(value) \in Nat /\ (kind \in Results => Len(value) # 0)
    BY <1>1, ListTypes, OutcomeKeys DEF Init
  <1>3. QED
    BY <1>1, <1>2 DEF Init, Held

LEMMA HeldStep == ASSUME Held, [Next]_vars PROVE Held'
  <1> USE DEF Held
  <1>1. ASSUME NEW size \in Size, Query(size) PROVE Held'
    BY <1>1 DEF Query, Answers
  <1>2. ASSUME NEW size \in Size, QueryDense(size) PROVE Held'
    <2>1. UNCHANGED <<kind, width, value>> /\ kind = "dense"
      BY <1>2 DEF QueryDense, Answers
    <2>2. CASE UNCHANGED n_state
      BY <2>1, <2>2
    <2>3. CASE \E n_qubit \in QubitsScanned(width, value) : n_state' = 2 ^ n_qubit
      <3>1. QubitsScanned(width, value) \subseteq Nat
        BY ResultsAssumption DEF QubitsScanned
      <3>2. n_state' \in Nat
        BY <2>3, <3>1, PowerOfTwo
      <3>3. QED
        BY <2>1, <3>2
    <2>4. QED
      BY <1>2, <2>2, <2>3 DEF QueryDense
  <1>3. CASE Change
    <2>1. UNCHANGED <<kind, width, n_state>> /\ value' \in Successors
      BY <1>3 DEF Change
    <2>2. kind \notin Results /\ value' \in Lists
      BY <2>1 DEF Successors, Results
    <2>3. QED
      BY <2>1, <2>2, ListTypes
  <1>4. CASE UNCHANGED vars
    BY <1>4 DEF vars
  <1>5. QED
    BY <1>1, <1>2, <1>3, <1>4 DEF Next

LEMMA HeldCorrect == Spec => []Held
  <1>1. Init => Held
    BY HeldInit
  <1>2. Held /\ [Next]_vars => Held'
    BY HeldStep
  <1>3. QED
    BY <1>1, <1>2, PTL DEF Spec

\* The device tells the size its value requires, or leaves size_ret alone.
TellsRequired == \A size \in Size : Response(size).told \in {Untold, Required}

LEMMA TellsCorrect == Spec => []TellsRequired
  <1>1. Held => TellsRequired
    BY ResponseKeeps, TwoCallsAssumption DEF TellsRequired, Size
  <1>2. QED
    BY <1>1, HeldCorrect, PTL

--------------------------------------------------------------------------------

\* With Held, the inductive invariant of the calls.
CallsInv == LastAnswer /\ ToldSize

(* An answer to what the device holds after the step.                      *)
LEMMA AnswerStep ==
  ASSUME TellsRequired', ToldSize, NEW size \in Size,
         Answers(size, (Response(size))'), fresh => Required' = Required,
         kind = "dense" => n_state' # 0
  PROVE  CallsInv'
  <1>1. buffer' = size /\ answer' = (Response(size))'
    BY DEF Answers
  <1>2. LastAnswer'
    BY <1>1 DEF LastAnswer, Size
  <1>3. (Response(size))'.told \in {Untold, Required'}
    BY DEF TellsRequired
  <1>4. ToldSize'
    BY <1>3 DEF ToldSize, Answers
  <1>5. QED
    BY <1>2, <1>4 DEF CallsInv

LEMMA CallsStep ==
  ASSUME Held, TellsRequired', CallsInv, [Next]_vars
  PROVE  CallsInv'
  <1> USE DEF CallsInv
  <1>1. ASSUME NEW size \in Size, Query(size) PROVE CallsInv'
    <2>1. UNCHANGED <<kind, width, value, n_state>> /\ kind # "dense"
      BY <1>1 DEF Query, Answers
    <2>2. (Response(size))' = Stored(size) /\ Required' = Required
      BY <2>1 DEF Response, Stored, Required
    <2>3. QED
      BY <1>1, <2>1, <2>2, AnswerStep DEF Query
  <1>2. ASSUME NEW size \in Size, QueryDense(size) PROVE CallsInv'
    <2>1. UNCHANGED <<kind, width, value>> /\ kind = "dense"
      BY <1>2 DEF QueryDense, Answers
    <2>2. (Response(size))' = DenseAnswer(n_state', size)
      BY <2>1 DEF Response
    <2>3. n_state' # 0 /\ (n_state # 0 => n_state' = n_state)
      <3>1. QubitsScanned(width, value) \subseteq Nat
        BY ResultsAssumption DEF QubitsScanned, Held
      <3>2. QED
        BY <1>2, <3>1, PowerOfTwo DEF QueryDense
    <2>4. fresh => Required' = Required
      BY <2>1, <2>3 DEF ToldSize, Required
    <2>5. QED
      BY <1>2, <2>2, <2>3, <2>4, AnswerStep DEF QueryDense
  <1>3. CASE Change
    BY <1>3 DEF Change, LastAnswer, ToldSize
  <1>4. CASE UNCHANGED vars
    BY <1>4 DEF vars, LastAnswer, ToldSize, Response, Stored, Required
  <1>5. QED
    BY <1>1, <1>2, <1>3, <1>4 DEF Next

LEMMA CallsCorrect == Spec => []CallsInv
  <1>1. Init => CallsInv
    BY DEF Init, CallsInv, LastAnswer, ToldSize
  <1>2. Held /\ TellsRequired' /\ CallsInv /\ [Next]_vars => CallsInv'
    BY CallsStep
  <1>3. QED
    BY <1>1, <1>2, HeldCorrect, TellsCorrect, PTL DEF Spec

--------------------------------------------------------------------------------

(* No answer of a device overflows a client's buffer, however long values  *)
(* and buffers are and whatever changes between two calls; the DCDB        *)
(* readings, which do, are the finding of run dcdb_values.                 *)
THEOREM AnswersFit == ASSUME "readings" \notin Kind PROVE Spec => []WritesFit
  <1>1. Held /\ CallsInv => WritesFit
    <2> SUFFICES ASSUME Held, CallsInv, buffer # NoBuffer,
                        kind = "names" => Careful
                 PROVE  answer.written <= buffer
      BY DEF WritesFit
    <2>1. buffer \in Nat /\ answer = Response(buffer)
      BY TwoCallsAssumption DEF CallsInv, LastAnswer
    <2>2. kind # "readings"
      BY DEF Held
    <2>3. kind = "names" => buffer = Required
      BY DEF Careful, CallsInv, ToldSize
    <2>4. QED
      BY <2>1, <2>2, <2>3, ResponseKeeps
  <1>2. QED
    BY <1>1, HeldCorrect, CallsCorrect, PTL

(* A call that succeeds delivers all of the value the device holds now;    *)
(* the keys in a buffer of their own length are the finding of run         *)
(* qaptiva_keys.                                                           *)
THEOREM NothingCutShort == Spec => []NeverTruncated
  <1>1. Held /\ CallsInv => NeverTruncated
    <2> SUFFICES ASSUME Held, CallsInv, answer.ok, buffer # NoBuffer,
                        ~(kind = "keys" /\ buffer = Whole)
                 PROVE  answer.delivered = Whole
      BY DEF NeverTruncated
    <2>1. buffer \in Nat /\ answer = Response(buffer)
      BY TwoCallsAssumption DEF CallsInv, LastAnswer
    <2>2. QED
      BY <2>1, ResponseKeeps
  <1>2. QED
    BY <1>1, HeldCorrect, CallsCorrect, PTL

(* A buffer of the size told is accepted while the value stays the same.   *)
THEOREM ToldSizeSuffices == Spec => []CarefulSucceeds
  <1>1. Held /\ CallsInv => CarefulSucceeds
    <2> SUFFICES ASSUME Held, CallsInv, Careful,
                        ~(kind \in {"timestamps", "readings"} /\ told = 0)
                 PROVE  answer.ok
      BY DEF CarefulSucceeds
    <2>1. buffer = Required
      BY DEF Careful, CallsInv, ToldSize
    <2>2. Required \in Nat
      BY ResponseKeeps
    <2>3. answer = Response(buffer)
      BY <2>1, <2>2 DEF CallsInv, LastAnswer, NoBuffer
    <2>4. told = buffer
      BY DEF Careful
    <2>5. QED
      BY <2>1, <2>2, <2>3, <2>4, ResponseKeeps
  <1>2. QED
    BY <1>1, HeldCorrect, CallsCorrect, PTL

--------------------------------------------------------------------------------

\* A job keeps its outcomes, and the table is built from them once.
TableInv ==
  /\ kind \in Results => value \in Outcomes(width)
  /\ n_state # 0 =>
       /\ kind = "dense"
       /\ \E n_qubit \in QubitsScanned(width, value) : n_state = 2 ^ n_qubit
       /\ table = DenseTable(n_state, value)

LEMMA TableStep == ASSUME TableInv, [Next]_vars PROVE TableInv'
  <1> USE DEF TableInv
  <1>1. ASSUME NEW size \in Size, Query(size) PROVE TableInv'
    BY <1>1 DEF Query, Answers
  <1>2. ASSUME NEW size \in Size, QueryDense(size) PROVE TableInv'
    BY <1>2 DEF QueryDense, Answers
  <1>3. CASE Change
    <2>1. kind \notin Results /\ UNCHANGED <<kind, n_state>>
      BY <1>3 DEF Change, Successors, Results
    <2>2. QED
      BY <2>1 DEF Results
  <1>4. CASE UNCHANGED vars
    BY <1>4 DEF vars
  <1>5. QED
    BY <1>1, <1>2, <1>3, <1>4 DEF Next

(* Once built, the dense probabilities are those of the outcomes, for any  *)
(* number of qubits and outcomes in any order, and stay so.                *)
THEOREM DenseTableStaysExact == Spec => []DenseExact
  <1>1. Init => TableInv
    BY DEF Init, TableInv
  <1>2. TableInv /\ [Next]_vars => TableInv'
    BY TableStep
  <1>3. Held /\ TableInv => DenseExact
    <2> SUFFICES ASSUME Held, TableInv, n_state # 0
                 PROVE  /\ DOMAIN table = 0 .. n_state - 1
                        /\ Len(value) > 1 => n_state = 2 ^ width
                        /\ \A state \in DOMAIN table :
                             table[state] =
                               IF state < 2 ^ width
                                 THEN ProbabilityOf(width, value, state) ELSE 0
      BY DEF DenseExact
    <2>1. PICK n_qubit \in QubitsScanned(width, value) : n_state = 2 ^ n_qubit
      BY DEF TableInv
    <2>2. /\ width \in Nat /\ value \in Outcomes(width)
          /\ table = DenseTable(2 ^ n_qubit, value)
      BY <2>1 DEF Held, TableInv, Results
    <2>3. QED
      BY <2>1, <2>2, DenseTableExact
  <1>4. QED
    BY <1>1, <1>2, <1>3, HeldCorrect, PTL DEF Spec

================================================================================
