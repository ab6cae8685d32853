----------------------------- MODULE QaptivaResults -----------------------------
(***************************************************************************)
(* How a Qaptiva job keeps what the appliance measured, and how get_results *)
(* turns it into the probability of every basis state.  An outcome is a    *)
(* key, the bits the qubits were measured in, and a probability; here the  *)
(* probability of the i-th outcome is i, and 0 is that of no outcome.      *)
(***************************************************************************)
EXTENDS Naturals, Sequences, Functions

CONSTANTS MaxWidth,    \* bound: the number of qubits
          MaxOverrun   \* bound: how far behind the keys a "," may be found

\* The number of basis states, 1 << n_qubit, is computed in an int of 32 bits.
ASSUME ResultsAssumption ==
  /\ MaxWidth \in Nat \ {0} /\ MaxOverrun \in Nat \ {0}
  /\ MaxWidth + MaxOverrun <= 30

Keys(w) == [1 .. w -> {0, 1}]

\* What the appliance answers: one outcome or more, in any order, no key twice.
Outcomes(w) == UNION {Injection(1 .. n, Keys(w)) : n \in 1 .. 2 ^ w}

--------------------------------------------------------------------------------

\* strtol(key, &endptr, 2): the number that the first bits of the key make.
StrtolReversed(key) ==       \* mutant: the first bit is the lowest
  LET number[bits \in 0 .. Len(key)] ==
        IF bits = 0 THEN 0 ELSE number[bits - 1] + key[bits] * 2 ^ (bits - 1)
  IN  number[Len(key)]
Strtol(key) ==
  LET number[bits \in 0 .. Len(key)] ==
        IF bits = 0 THEN 0 ELSE 2 * number[bits - 1] + key[bits]
  IN  number[Len(key)]

\* The number of qubits is where the first "," of the keys is.  With a single
\* outcome there is none: the search goes on behind the end of the string.
QubitsScanned(w, keys) ==
  IF Len(keys) > 1 THEN {w} ELSE w + 1 .. w + MaxOverrun

\* A table of n_state zeros, into which the loop puts the i-th value where
\* the i-th key says.
DenseTable(n_state, keys) ==
  LET table[i \in 0 .. Len(keys)] ==
        IF i = 0 THEN [index \in 0 .. n_state - 1 |-> 0]
                 ELSE [table[i - 1] EXCEPT ![Strtol(keys[i])] = i]
  IN  table[Len(keys)]

--------------------------------------------------------------------------------

\* What the table should be: a basis state's number in binary is its key.
KeyOf(w, state) == [i \in 1 .. w |-> (state \div 2 ^ (w - i)) % 2]

ProbabilityOf(w, keys, state) ==
  IF \E i \in DOMAIN keys : keys[i] = KeyOf(w, state)
    THEN CHOOSE i \in DOMAIN keys : keys[i] = KeyOf(w, state)
    ELSE 0
================================================================================
