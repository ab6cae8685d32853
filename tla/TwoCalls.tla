-------------------------------- MODULE TwoCalls --------------------------------
(***************************************************************************)
(* A client that reads one value of a device: it asks for the size, and    *)
(* passes a buffer of that size, or of another one, in any order and as    *)
(* often as it likes.  Between two calls the value may become another one: *)
(* an LRZ session is given a further resource, a job is waited for again   *)
(* or gets its id, the portal adds a resource, a DCDB query is submitted   *)
(* again.  A Qaptiva job keeps its results, and the dense probabilities    *)
(* once they were asked for.                                               *)
(***************************************************************************)
EXTENDS QdmiAnswers, QaptivaResults

CONSTANTS Kind,        \* the kinds of values the client reads
          MaxLength,   \* bound: elements of a value
          BufferSize   \* the sizes of the client's buffers

ASSUME TwoCallsAssumption ==
  /\ Kind \subseteq {"string", "list", "single", "timestamps", "readings",
                     "names", "keys", "probabilities", "dense"}
  /\ MaxLength \in Nat
  /\ BufferSize \subseteq Nat

VARIABLES
  kind,     \* the kind of the value
  width,    \* the bytes of an element, the letters of a name, the bits of a key
  value,    \* what the device holds
  n_state,  \* the entries of the job's dense table, 0 before it was built
  table,    \* the job's probability_dense, which is set together with n_state
  buffer,   \* the size passed in the last call
  answer,   \* what it answered; Refused again once the value changed
  told,     \* what size_ret holds, or Untold
  fresh     \* the value is still the one whose size was told

vars == <<kind, width, value, n_state, table, buffer, answer, told, fresh>>

Results == {"keys", "probabilities", "dense"}

Lists == {[i \in 1 .. n |-> i] : n \in 0 .. MaxLength}

Widths(k) ==
  CASE k \in {"list", "single"} -> {4, 8} [] k = "names" -> {1, 3}
    [] k \in Results -> 1 .. MaxWidth    [] OTHER -> {1}

Init ==
  /\ kind \in Kind
  /\ width \in Widths(kind)
  /\ value \in IF kind \in Results THEN Outcomes(width) ELSE Lists
  /\ n_state = 0
  /\ table = <<>>
  /\ buffer = NoBuffer
  /\ answer = Refused
  /\ told = Untold
  /\ fresh = FALSE

--------------------------------------------------------------------------------
(* The device answers, with or without a buffer.                           *)

Size == BufferSize \cup {NoBuffer}

Answers(size, new) ==
  /\ buffer' = size
  /\ answer' = new
  /\ told' = IF new.told = Untold THEN told ELSE new.told
  /\ fresh' = (fresh \/ new.told # Untold)
  /\ UNCHANGED <<kind, width, value>>

Stored(size) ==
  LET n == Len(value) IN
  CASE kind = "string" -> StringAnswer(n, size)
    [] kind = "list" -> ListAnswer(n, width, size)
    [] kind = "single" -> SingleAnswer(width, size)
    [] kind = "timestamps" -> TimestampsAnswer(n, size)
    [] kind = "readings" -> ReadingsAnswer(n, size)
    [] kind = "names" -> NamesAnswer(n, width, size)
    [] kind = "keys" -> KeysAnswer(n, width, size)
    [] kind = "probabilities" -> ProbabilitiesAnswer(n, size)

Query(size) ==
  /\ kind # "dense"
  /\ Answers(size, Stored(size))
  /\ UNCHANGED <<n_state, table>>

\* The first query of the dense probabilities builds the table.  Where the
\* search for the "," leaves the string, the process may also end.
QueryDense(size) ==
  /\ kind = "dense"
  /\ \/ n_state # 0 /\ UNCHANGED <<n_state, table>>
     \/ /\ n_state = 0
        /\ \E n_qubit \in QubitsScanned(width, value) : n_state' = 2 ^ n_qubit
        /\ table' = DenseTable(n_state', value)
  /\ Answers(size, DenseAnswer(n_state', size))

--------------------------------------------------------------------------------
(* The value changes between two calls.                                    *)

\* What LRZ lists hold is only added to.
Successors ==
  CASE kind \in {"string", "timestamps", "readings", "names"} -> Lists
    [] kind = "list" -> {list \in Lists : Len(list) > Len(value)}
    [] OTHER -> {}

Change ==
  /\ \E new \in Successors : value' = new /\ value' # value
  /\ fresh' = FALSE
  /\ buffer' = NoBuffer
  /\ answer' = Refused
  /\ UNCHANGED <<kind, width, n_state, table, told>>

--------------------------------------------------------------------------------

Next == \/ \E size \in Size : Query(size) \/ QueryDense(size)
        \/ Change

Spec == Init /\ [][Next]_vars

--------------------------------------------------------------------------------

\* The client passes a buffer of the size it was told, and the value is the
\* one whose size that was.
Careful == buffer = told /\ fresh

\* How much there is to deliver: characters, elements, or table entries.
Whole ==
  CASE kind = "single" -> 1
    [] kind = "keys" -> KeysLength(Len(value), width)
    [] kind = "dense" -> n_state
    [] OTHER -> Len(value)

(* No answer is longer than the client's buffer, whatever its size, and    *)
(* also when the value became longer after its size was told.  The list of *)
(* LRZ resource names is not tested: there it holds for a client that      *)
(* passes the size it was told before the portal adds a resource.          *)
WritesFit ==
  buffer # NoBuffer /\ (kind = "names" => Careful) => answer.written <= buffer

(* A value that has become longer is refused, never cut short: a call that *)
(* succeeds delivers all of what the device holds now.  Nothing is said of *)
(* a Qaptiva job's keys in a buffer that is just as long as they are.      *)
NeverTruncated ==
  answer.ok /\ buffer # NoBuffer /\ ~(kind = "keys" /\ buffer = Whole) =>
    answer.delivered = Whole

(* A client that passes the size it was told has all of the value when the *)
(* call succeeds: size_ret is documented as the actual size of the data    *)
(* (qaptiva.c:1053).  The keys of a Qaptiva job lose their last bit.       *)
ToldSizeDelivers == Careful /\ answer.ok => answer.delivered = Whole

(* The two calls of the QDMI tests are enough: a buffer of the size told   *)
(* is accepted while the value stays the same.  A DCDB query without a     *)
(* reading tells zero bytes and refuses a buffer of zero bytes.            *)
CarefulSucceeds ==
  Careful /\ ~(kind \in {"timestamps", "readings"} /\ told = 0) => answer.ok

(* The dense probabilities are those of the basis states, in their order,  *)
(* in whatever order the outcomes came; behind them there are only zeros,  *)
(* and none at all if there was more than one outcome (get_results).       *)
DenseExact ==
  n_state # 0 =>
    /\ DOMAIN table = 0 .. n_state - 1
    /\ Len(value) > 1 => n_state = 2 ^ width
    /\ \A state \in DOMAIN table :
         table[state] = IF state < 2 ^ width
                          THEN ProbabilityOf(width, value, state) ELSE 0
================================================================================
