------------------------------ MODULE QdmiAnswers ------------------------------
(***************************************************************************)
(* How the devices answer a query with a value of bytes.  A client passes  *)
(* a buffer of some size, or NULL to ask for the size it needs, and a      *)
(* pointer to be told that size.  An answer says whether the call          *)
(* succeeds, the bytes it writes into the buffer, how much of the value    *)
(* the client can read from it, and the size it is told.                   *)
(***************************************************************************)
EXTENDS Integers

NoBuffer == -1     \* data or value is NULL: the client asks for the size
Untold == -1       \* size_ret is left as it is

Refused == [ok |-> FALSE, written |-> 0, delivered |-> 0, told |-> Untold]

\* The form all answers share: a size test, a copy, and the size told.
Copied(required, written, delivered, size) ==
  IF size # NoBuffer /\ size < required
    THEN Refused
    ELSE [ok        |-> TRUE,
          written   |-> IF size = NoBuffer THEN 0 ELSE written,
          delivered |-> IF size = NoBuffer THEN 0 ELSE delivered,
          told      |-> required]

Lesser(a, b) == IF a < b THEN a ELSE b

--------------------------------------------------------------------------------
(* The property macros, the same in the three devices.                     *)

\* ADD_STRING_PROPERTY of n characters: strncpy pads with zeros up to size,
\* whose last byte becomes the terminator.
StringAnswerUnterminated(n, size) ==     \* mutant: no room for the terminator
  Copied(n, size, Lesser(n, size - 1), size)
StringAnswerTellsLength(n, size) ==      \* mutant: size_ret is strlen
  LET answer == Copied(n + 1, size, n, size)
  IN IF answer.told = Untold THEN answer ELSE [answer EXCEPT !.told = n]
StringAnswer(n, size) == Copied(n + 1, size, Lesser(n, size - 1), size)

\* ADD_LIST_PROPERTY of n elements of w bytes.
ListAnswerInElements(n, w, size) ==      \* mutant: the test forgets sizeof
  Copied(n, n * w, n, size)
ListAnswer(n, w, size) == Copied(n * w, n * w, n, size)

\* ADD_SINGLE_VALUE_PROPERTY of w bytes.
SingleAnswer(w, size) == Copied(w, w, 1, size)

--------------------------------------------------------------------------------
(* DCDB: get_results of a query with n readings.  Like the sensor queries, *)
(* it refuses a buffer of size zero.                                       *)

TimestampsAnswer(n, size) ==
  IF size = 0 THEN Refused ELSE Copied(8 * n, 8 * n, n, size)

\* The size is that of n floats, the copy is of n 64 bit integers.
ReadingsAnswer(n, size) ==
  IF size = 0 THEN Refused ELSE Copied(4 * n, 8 * n, n, size)

--------------------------------------------------------------------------------
(* LRZ: the names of the portal's n resources of w characters each.  The   *)
(* size is told only without a buffer; with one it is not looked at, and   *)
(* the names, a ";" between two of them, are appended to an empty string.  *)

NamesAnswer(n, w, size) ==
  IF size = NoBuffer
    THEN [ok |-> TRUE, written |-> 0, delivered |-> 0, told |-> n * (w + 1)]
    ELSE [ok |-> TRUE, written |-> n * (w + 1), delivered |-> n, told |-> Untold]

--------------------------------------------------------------------------------
(* Qaptiva: get_results of a job with n outcomes of w bits.                *)

\* strlen of the keys, which commas separate.
KeysLength(n, w) == n * w + (n - 1)

\* The size test and the size told leave out the terminator, and the size is
\* told only without a buffer.
KeysAnswer(n, w, size) ==
  LET length == KeysLength(n, w)
      answer == Copied(length, size, Lesser(length, size - 1), size)
  IN IF size = NoBuffer THEN answer ELSE [answer EXCEPT !.told = Untold]

\* results_size counts the keys as one more value, and the copy is as long as
\* the buffer allows: what lies behind the n values goes with them.
ProbabilitiesAnswer(n, size) ==
  Copied(8 * (n + 1), 8 * (size \div 8), Lesser(n, size \div 8), size)

\* The size is told before it is tested.
DenseAnswer(n, size) ==
  [Copied(8 * n, 8 * n, n, size) EXCEPT !.told = 8 * n]
================================================================================
