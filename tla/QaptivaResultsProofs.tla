-------------------------- MODULE QaptivaResultsProofs --------------------------
(***************************************************************************)
(* What get_results computes from the outcomes of a Qaptiva job, for       *)
(* registers and results of every size: the number strtol reads from a key *)
(* and the table of the dense probabilities.  Both are loops over data;    *)
(* induction on their rounds is the least element of the set of the rounds *)
(* for which the claim fails.                                              *)
(***************************************************************************)
EXTENDS QaptivaResults, FiniteSetTheorems, WellFoundedInduction, TLAPS

--------------------------------------------------------------------------------
(* Induction on natural numbers.                                           *)

LEMMA LeastElement ==
  ASSUME NEW T, T \subseteq Nat, T # {}
  PROVE  \E x \in T : \A y \in T : x <= y
  <1> DEFINE R == OpToRel(<, Nat)
  <1>1. IsWellFoundedOn(R, Nat)
    BY NatLessThanWellFounded, Zenon
  <1>2. \A x, y \in Nat : y < x => <<y, x>> \in R
    BY DEF OpToRel
  <1> HIDE DEF R
  <1>3. PICK x \in T : \A y \in T : ~(<<y, x>> \in R)
    BY <1>1, WFMin
  <1>4. ASSUME NEW y \in T PROVE x <= y
    <2>1. x \in Nat /\ y \in Nat
      BY <1>3
    <2>2. ~(y < x)
      BY <1>2, <1>3, <2>1
    <2>3. QED
      BY <2>1, <2>2
  <1>5. QED
    BY <1>3, <1>4

LEMMA Induction ==
  ASSUME NEW T, 0 \in T, \A n \in Nat : n \in T => n + 1 \in T
  PROVE  Nat \subseteq T
  <1> SUFFICES ASSUME Nat \ T # {} PROVE FALSE
    OBVIOUS
  <1>1. PICK x \in Nat \ T : \A y \in Nat \ T : x <= y
    BY LeastElement
  <1>2. x - 1 \in Nat /\ x - 1 \in T
    BY <1>1
  <1>3. QED
    BY <1>1, <1>2

--------------------------------------------------------------------------------
(* Powers of two: the number of subsets of the qubits.                     *)

LEMMA Subsets ==
  ASSUME NEW n \in Nat
  PROVE  /\ IsFiniteSet(SUBSET (1 .. n))
         /\ Cardinality(SUBSET (1 .. n)) = 2 ^ n
  <1>1. IsFiniteSet(1 .. n) /\ Cardinality(1 .. n) = n
    BY FS_Interval
  <1>2. QED
    BY <1>1, FS_SUBSET

(* A register has a positive number of basis states.                       *)
LEMMA PowerOfTwo == ASSUME NEW n \in Nat PROVE 2 ^ n \in Nat \ {0}
  <1>1. SUBSET (1 .. n) # {}
    OBVIOUS
  <1>2. QED
    BY <1>1, Subsets, FS_CardinalityType, FS_EmptySet

LEMMA PowerZero == 2 ^ 0 = 1
  <1>1. SUBSET (1 .. 0) = {{}}
    OBVIOUS
  <1>2. QED
    BY <1>1, Subsets, FS_Singleton


(* One qubit more doubles the register.                                    *)
LEMMA PowerNext == ASSUME NEW n \in Nat PROVE 2 ^ (n + 1) = 2 * 2 ^ n
  <1> DEFINE S == SUBSET (1 .. n)
             With == {{n + 1} \cup s : s \in S}
             f == [s \in S |-> {n + 1} \cup s]
  <1>1. SUBSET (1 .. n + 1) = S \cup With
    <2>1. ASSUME NEW s \in SUBSET (1 .. n + 1) PROVE s \in S \cup With
      <3>1. CASE n + 1 \in s
        <4>1. s = {n + 1} \cup (s \ {n + 1}) /\ s \ {n + 1} \in S
          BY <3>1
        <4>2. QED
          BY <4>1
      <3>2. CASE n + 1 \notin s
        BY <3>2
      <3>3. QED
        BY <3>1, <3>2
    <2>2. ASSUME NEW s \in S PROVE {n + 1} \cup s \in SUBSET (1 .. n + 1)
      OBVIOUS
    <2>3. S \subseteq SUBSET (1 .. n + 1)
      OBVIOUS
    <2>4. \A t \in With : t \in SUBSET (1 .. n + 1)
      BY <2>2
    <2> HIDE DEF S, With
    <2>5. QED
      BY <2>1, <2>3, <2>4
  <1>2. S \cap With = {}
    <2>1. \A s \in S : n + 1 \notin s
      OBVIOUS
    <2>2. \A s \in With : n + 1 \in s
      OBVIOUS
    <2>3. QED
      BY <2>1, <2>2
  <1>3. ExistsBijection(S, With)
    <2>1. f \in Bijection(S, With)
      <3>1. \A s \in S : n + 1 \notin s
        OBVIOUS
      <3>2. f \in [S -> With]
        OBVIOUS
      <3>3. \A s, t \in S : f[s] = f[t] => s = t
        BY <3>1
      <3>4. \A t \in With : \E s \in S : f[s] = t
        OBVIOUS
      <3> HIDE DEF f, S, With
      <3>5. QED
        BY <3>2, <3>3, <3>4 DEF Bijection, Injection, IsInjective, Surjection
    <2>2. QED
      BY <2>1 DEF ExistsBijection
  <1>4. /\ IsFiniteSet(S) /\ Cardinality(S) = 2 ^ n
        /\ IsFiniteSet(With) /\ Cardinality(With) = 2 ^ n
    BY <1>3, Subsets, FS_Bijection
  <1> HIDE DEF S, With
  <1>5. Cardinality(S \cup With) = 2 ^ n + 2 ^ n - 0
    BY <1>2, <1>4, FS_Union, FS_EmptySet
  <1>6. 2 ^ (n + 1) = Cardinality(S \cup With)
    <2>1. n + 1 \in Nat
      OBVIOUS
    <2>2. QED
      BY <1>1, <2>1, Subsets
  <1>7. QED
    BY <1>5, <1>6, PowerOfTwo

--------------------------------------------------------------------------------
(* The loop of strtol.                                                     *)

LEMMA KeyLength == ASSUME NEW w \in Nat, NEW key \in Keys(w) PROVE Len(key) = w
  BY DEF Keys

(* The recursive function in Strtol exists, and its rounds are the loop's. *)
LEMMA StrtolRounds ==
  ASSUME NEW w \in Nat, NEW key \in Keys(w)
  PROVE  \E number :
           /\ number[0] = 0
           /\ \A bits \in 1 .. w : number[bits] = 2 * number[bits - 1] + key[bits]
           /\ Strtol(key) = number[w]
  <1> DEFINE Rounds(n, f) ==
               f = [bits \in 0 .. n |->
                      IF bits = 0 THEN 0 ELSE 2 * f[bits - 1] + key[bits]]
             T == {n \in Nat : \E f : Rounds(n, f)}
  <1>1. 0 \in T
    <2>1. Rounds(0, [bits \in 0 .. 0 |-> 0])
      OBVIOUS
    <2>2. QED
      BY <2>1
  <1>2. ASSUME NEW n \in Nat, n \in T PROVE n + 1 \in T
    <2>1. PICK f : Rounds(n, f)
      BY <1>2
    <2> DEFINE g == [bits \in 0 .. n + 1 |->
                       IF bits = n + 1 THEN 2 * f[n] + key[n + 1] ELSE f[bits]]
    <2>2. ASSUME NEW bits \in 0 .. n + 1
          PROVE  g[bits] = IF bits = 0 THEN 0 ELSE 2 * g[bits - 1] + key[bits]
      <3>1. CASE bits = n + 1
        BY <3>1
      <3>2. CASE bits \in 0 .. n
        BY <2>1, <3>2
      <3>3. QED
        BY <3>1, <3>2
    <2>3. Rounds(n + 1, g)
      BY <2>2
    <2> HIDE DEF g, Rounds
    <2>4. QED
      BY <2>3
  <1>3. w \in T
    <2> HIDE DEF T
    <2>1. QED
      BY <1>1, <1>2, Induction
  <1> DEFINE number == CHOOSE f : Rounds(w, f)
  <1>4. Rounds(w, number)
    BY <1>3
  <1>5. Strtol(key) = number[w]
    BY KeyLength DEF Strtol
  <1> HIDE DEF number
  <1>6. QED
    BY <1>4, <1>5

--------------------------------------------------------------------------------
(* Binary numbers.                                                         *)

LEMMA Quotient ==
  ASSUME NEW m \in Nat \ {0}, NEW q \in Nat, NEW r \in 0 .. m - 1
  PROVE  (q * m + r) \div m = q
  OBVIOUS

LEMMA Division ==
  ASSUME NEW x \in Nat, NEW m \in Nat \ {0}
  PROVE  /\ x \div m \in Nat
         /\ x % m \in 0 .. m - 1
         /\ x = (x \div m) * m + (x % m)
  OBVIOUS

(* Leaving out one more bit halves the number.                             *)
LEMMA Halved ==
  ASSUME NEW x \in Nat, NEW m \in Nat \ {0}
  PROVE  x \div (2 * m) = (x \div m) \div 2
  <1> DEFINE q == x \div m
             r == x % m
             h == q \div 2
             b == q % 2
  <1>1. q \in Nat /\ r \in 0 .. m - 1 /\ x = q * m + r
    BY Division
  <1>2. h \in Nat /\ b \in {0, 1} /\ q = h * 2 + b
    BY <1>1, Division
  <1> HIDE DEF q, r, h, b
  <1>3. b * m + r \in 0 .. 2 * m - 1
    BY <1>1, <1>2
  <1>4. x = h * (2 * m) + (b * m + r)
    BY <1>1, <1>2
  <1>5. 2 * m \in Nat \ {0}
    OBVIOUS
  <1>6. x \div (2 * m) = h
    BY <1>2, <1>3, <1>4, <1>5, Quotient
  <1>7. QED
    BY <1>6 DEF h, q

(* The number of a key is that of a basis state, and the key is that number *)
(* in binary.                                                              *)
LEMMA StrtolReads ==
  ASSUME NEW w \in Nat, NEW key \in Keys(w)
  PROVE  /\ Strtol(key) \in 0 .. 2 ^ w - 1
         /\ key = KeyOf(w, Strtol(key))
  <1>1. PICK number : /\ number[0] = 0
                      /\ \A bits \in 1 .. w :
                           number[bits] = 2 * number[bits - 1] + key[bits]
                      /\ Strtol(key) = number[w]
    BY StrtolRounds
  <1>2. \A bits \in 1 .. w : key[bits] \in {0, 1}
    BY DEF Keys
  <1> DEFINE InRange == {n \in Nat : n <= w => number[n] \in 0 .. 2 ^ n - 1}
  <1>3. Nat \subseteq InRange
    <2>1. 0 \in InRange
      BY <1>1, PowerZero
    <2>2. ASSUME NEW n \in Nat, n \in InRange PROVE n + 1 \in InRange
      <3>1. CASE n + 1 <= w
        <4>1. number[n] \in 0 .. 2 ^ n - 1 /\ n + 1 \in 1 .. w
          BY <2>2, <3>1
        <4>2. number[n + 1] = 2 * number[n] + key[n + 1] /\ key[n + 1] \in {0, 1}
          BY <1>1, <1>2, <4>1
        <4>3. 2 ^ (n + 1) = 2 * 2 ^ n /\ 2 ^ n \in Nat
          BY PowerNext, PowerOfTwo
        <4>4. QED
          BY <4>1, <4>2, <4>3
      <3>2. CASE ~(n + 1 <= w)
        BY <3>2
      <3>3. QED
        BY <3>1, <3>2
    <2> HIDE DEF InRange
    <2>3. QED
      BY <2>1, <2>2, Induction
  <1>4. \A n \in 0 .. w : number[n] \in 0 .. 2 ^ n - 1 /\ number[n] \in Nat
    BY <1>3, PowerOfTwo
  <1> DEFINE Prefix == {d \in Nat : d <= w => number[w - d] = number[w] \div 2 ^ d}
  <1>5. Nat \subseteq Prefix
    <2>1. 0 \in Prefix
      BY <1>4, PowerZero
    <2>2. ASSUME NEW d \in Nat, d \in Prefix PROVE d + 1 \in Prefix
      <3>1. CASE d + 1 <= w
        <4>1. /\ number[w - d] = number[w] \div 2 ^ d
              /\ w - d \in 1 .. w /\ (w - d) - 1 = w - (d + 1)
          BY <2>2, <3>1
        <4>2. number[w - d] = 2 * number[w - (d + 1)] + key[w - d]
          BY <1>1, <4>1
        <4>3. key[w - d] \in {0, 1} /\ number[w - (d + 1)] \in Nat
          BY <1>2, <1>4, <3>1, <4>1
        <4>4. number[w - (d + 1)] = number[w - d] \div 2
          BY <4>2, <4>3
        <4>5. number[w] \div (2 * 2 ^ d) = (number[w] \div 2 ^ d) \div 2
          BY <1>4, PowerOfTwo, Halved
        <4>6. QED
          BY <4>1, <4>4, <4>5, PowerNext
      <3>2. CASE ~(d + 1 <= w)
        BY <3>2
      <3>3. QED
        BY <3>1, <3>2
    <2> HIDE DEF Prefix
    <2>3. QED
      BY <2>1, <2>2, Induction
  <1>6. ASSUME NEW i \in 1 .. w
        PROVE  key[i] = (Strtol(key) \div 2 ^ (w - i)) % 2
    <2>1. w - i \in Nat /\ w - i <= w /\ w - (w - i) = i /\ i - 1 \in 0 .. w
      OBVIOUS
    <2>2. number[i] = number[w] \div 2 ^ (w - i)
      BY <1>5, <2>1
    <2>3. number[i] = 2 * number[i - 1] + key[i] /\ key[i] \in {0, 1}
      BY <1>1, <1>2
    <2>4. number[i - 1] \in Nat
      BY <1>4, <2>1
    <2>5. key[i] = number[i] % 2
      BY <2>3, <2>4
    <2>6. QED
      BY <1>1, <2>2, <2>5
  <1>7. key = KeyOf(w, Strtol(key))
    BY <1>6 DEF Keys, KeyOf
  <1>8. QED
    BY <1>1, <1>4, <1>7

(* Two keys with the same number are the same, and every basis state has   *)
(* one: its binary digits.                                                 *)
LEMMA StrtolOfKey ==
  ASSUME NEW w \in Nat, NEW state \in 0 .. 2 ^ w - 1
  PROVE  KeyOf(w, state) \in Keys(w) /\ Strtol(KeyOf(w, state)) = state
  <1> DEFINE key == KeyOf(w, state)
  <1>1. state \in Nat /\ state < 2 ^ w
    BY PowerOfTwo
  <1>2. \A n \in Nat : state \div 2 ^ n \in Nat
    BY <1>1, PowerOfTwo, Division
  <1>3. \A i \in 1 .. w : key[i] = (state \div 2 ^ (w - i)) % 2
    BY DEF KeyOf
  <1>4. key \in Keys(w)
    <2>1. ASSUME NEW i \in 1 .. w
          PROVE  (state \div 2 ^ (w - i)) % 2 \in {0, 1}
      <3>1. w - i \in Nat
        OBVIOUS
      <3>2. state \div 2 ^ (w - i) \in Nat
        BY <1>2, <3>1
      <3>3. QED
        BY <3>2
    <2>2. QED
      BY <2>1 DEF KeyOf, Keys
  <1> HIDE DEF key
  <1>5. PICK number : /\ number[0] = 0
                      /\ \A bits \in 1 .. w :
                           number[bits] = 2 * number[bits - 1] + key[bits]
                      /\ Strtol(key) = number[w]
    BY <1>4, StrtolRounds
  <1> DEFINE Prefix == {n \in Nat : n <= w => number[n] = state \div 2 ^ (w - n)}
  <1>6. Nat \subseteq Prefix
    <2>1. 0 \in Prefix
      <3>1. 2 ^ w \in Nat \ {0} /\ w - 0 = w
        BY PowerOfTwo
      <3>2. state \div 2 ^ w = 0
        BY <1>1, <3>1
      <3>3. QED
        BY <1>5, <3>1, <3>2
    <2>2. ASSUME NEW n \in Nat, n \in Prefix PROVE n + 1 \in Prefix
      <3>1. CASE n + 1 <= w
        <4> DEFINE d == w - (n + 1)
        <4>1. d \in Nat /\ w - n = d + 1 /\ n + 1 \in 1 .. w /\ (n + 1) - 1 = n
          BY <3>1
        <4> HIDE DEF d
        <4>2. number[n] = state \div 2 ^ (d + 1)
          BY <2>2, <3>1, <4>1
        <4>3. number[n + 1] = 2 * number[n] + ((state \div 2 ^ d) % 2)
          BY <1>3, <1>5, <4>1 DEF d
        <4>4. state \div 2 ^ (d + 1) = (state \div 2 ^ d) \div 2
          BY <1>1, <4>1, PowerOfTwo, PowerNext, Halved
        <4>5. state \div 2 ^ d \in Nat
          BY <1>2, <4>1
        <4>6. number[n + 1] = state \div 2 ^ d
          BY <4>2, <4>3, <4>4, <4>5
        <4>7. QED
          BY <4>6 DEF d
      <3>2. CASE ~(n + 1 <= w)
        BY <3>2
      <3>3. QED
        BY <3>1, <3>2
    <2> HIDE DEF Prefix
    <2>3. QED
      BY <2>1, <2>2, Induction
  <1>7. number[w] = state \div 2 ^ (w - w) /\ w - w = 0
    <2>1. w \in Nat /\ w <= w /\ w - w = 0
      OBVIOUS
    <2>2. w \in Prefix
      BY <1>6
    <2>3. QED
      BY <2>1, <2>2
  <1>8. number[w] = state
    BY <1>1, <1>7, PowerZero
  <1>9. QED
    BY <1>4, <1>5, <1>8 DEF key

--------------------------------------------------------------------------------
(* The loop over the outcomes.                                             *)

(* The recursive function in DenseTable exists, and its rounds are the     *)
(* loop's.                                                                 *)
LEMMA TableRounds ==
  ASSUME NEW n_state, NEW keys, Len(keys) \in Nat
  PROVE  \E table :
           /\ table[0] = [index \in 0 .. n_state - 1 |-> 0]
           /\ \A i \in 1 .. Len(keys) :
                table[i] = [table[i - 1] EXCEPT ![Strtol(keys[i])] = i]
           /\ DenseTable(n_state, keys) = table[Len(keys)]
  <1> DEFINE Zeros == [index \in 0 .. n_state - 1 |-> 0]
             Put(f, i) == [f EXCEPT ![Strtol(keys[i])] = i]
             Rounds(n, f) ==
               f = [i \in 0 .. n |-> IF i = 0 THEN Zeros ELSE Put(f[i - 1], i)]
             T == {n \in Nat : \E f : Rounds(n, f)}
             table == CHOOSE f : Rounds(Len(keys), f)
  <1>1. DenseTable(n_state, keys) = table[Len(keys)]
    BY DEF DenseTable
  <1> HIDE DEF Zeros, Put
  <1>2. 0 \in T
    <2>1. Rounds(0, [i \in 0 .. 0 |-> Zeros])
      OBVIOUS
    <2> HIDE DEF Rounds
    <2>2. QED
      BY <2>1
  <1>3. ASSUME NEW n \in Nat, n \in T PROVE n + 1 \in T
    <2>1. PICK f : Rounds(n, f)
      BY <1>3
    <2> DEFINE g == [i \in 0 .. n + 1 |->
                       IF i = n + 1 THEN Put(f[n], n + 1) ELSE f[i]]
    <2>2. ASSUME NEW i \in 0 .. n + 1
          PROVE  g[i] = IF i = 0 THEN Zeros ELSE Put(g[i - 1], i)
      <3>1. CASE i = n + 1
        BY <3>1
      <3>2. CASE i \in 0 .. n
        BY <2>1, <3>2
      <3>3. QED
        BY <3>1, <3>2
    <2>3. Rounds(n + 1, g)
      BY <2>2
    <2> HIDE DEF g, Rounds
    <2>4. QED
      BY <2>3
  <1>4. Len(keys) \in T
    <2> HIDE DEF T
    <2>1. QED
      BY <1>2, <1>3, Induction
  <1>5. Rounds(Len(keys), table)
    BY <1>4
  <1> HIDE DEF table
  <1>6. /\ table[0] = Zeros
        /\ \A i \in 1 .. Len(keys) : table[i] = Put(table[i - 1], i)
    BY <1>5
  <1>7. QED
    BY <1>1, <1>6, Zenon DEF Zeros, Put

(* Whatever the order of the outcomes, each entry has the value of the     *)
(* outcome whose number it is, and the entries of no outcome are zero.     *)
LEMMA TableEntries ==
  ASSUME NEW n_state \in Nat, NEW keys, Len(keys) \in Nat,
         \A i \in 1 .. Len(keys) : Strtol(keys[i]) \in 0 .. n_state - 1,
         \A i, j \in 1 .. Len(keys) : Strtol(keys[i]) = Strtol(keys[j]) => i = j
  PROVE  /\ DOMAIN DenseTable(n_state, keys) = 0 .. n_state - 1
         /\ \A i \in 1 .. Len(keys) : DenseTable(n_state, keys)[Strtol(keys[i])] = i
         /\ \A state \in 0 .. n_state - 1 :
              (\A i \in 1 .. Len(keys) : Strtol(keys[i]) # state)
                => DenseTable(n_state, keys)[state] = 0
  <1>1. PICK table :
          /\ table[0] = [index \in 0 .. n_state - 1 |-> 0]
          /\ \A i \in 1 .. Len(keys) :
               table[i] = [table[i - 1] EXCEPT ![Strtol(keys[i])] = i]
          /\ DenseTable(n_state, keys) = table[Len(keys)]
    BY TableRounds
  <1> DEFINE Filled(n) ==
               /\ table[n] \in [0 .. n_state - 1 -> Nat]
               /\ \A i \in 1 .. n : table[n][Strtol(keys[i])] = i
               /\ \A state \in 0 .. n_state - 1 :
                    (\A i \in 1 .. n : Strtol(keys[i]) # state)
                      => table[n][state] = 0
             T == {n \in Nat : n <= Len(keys) => Filled(n)}
  <1>2. 0 \in T
    BY <1>1
  <1>3. ASSUME NEW n \in Nat, n \in T PROVE n + 1 \in T
    <2>1. CASE n + 1 <= Len(keys)
      <3> DEFINE new == Strtol(keys[n + 1])
      <3>1. Filled(n) /\ n + 1 \in 1 .. Len(keys) /\ (n + 1) - 1 = n
        BY <1>3, <2>1
      <3>2. table[n + 1] = [table[n] EXCEPT ![new] = n + 1]
        BY <1>1, <3>1
      <3>3. new \in 0 .. n_state - 1
        BY <3>1
      <3>4. table[n + 1] \in [0 .. n_state - 1 -> Nat]
        BY <3>1, <3>2, <3>3
      <3>5. /\ table[n + 1][new] = n + 1
            /\ \A state \in 0 .. n_state - 1 :
                 state # new => table[n + 1][state] = table[n][state]
        BY <3>1, <3>2, <3>3
      <3>6. ASSUME NEW i \in 1 .. n + 1 PROVE table[n + 1][Strtol(keys[i])] = i
        <4>1. CASE i = n + 1
          BY <3>5, <4>1
        <4>2. CASE i \in 1 .. n
          <5>1. i \in 1 .. Len(keys) /\ i # n + 1
            BY <2>1, <4>2
          <5>2. Strtol(keys[i]) # new /\ Strtol(keys[i]) \in 0 .. n_state - 1
            BY <3>1, <5>1
          <5>3. QED
            BY <3>1, <3>5, <4>2, <5>2
        <4>3. QED
          BY <4>1, <4>2
      <3>7. ASSUME NEW state \in 0 .. n_state - 1,
                   \A i \in 1 .. n + 1 : Strtol(keys[i]) # state
            PROVE  table[n + 1][state] = 0
        <4>1. state # new /\ \A i \in 1 .. n : Strtol(keys[i]) # state
          BY <3>7
        <4>2. QED
          BY <3>1, <3>5, <4>1
      <3>8. QED
        BY <3>4, <3>6, <3>7
    <2>2. CASE ~(n + 1 <= Len(keys))
      BY <2>2
    <2>3. QED
      BY <2>1, <2>2
  <1>4. Len(keys) \in T
    <2> HIDE DEF T
    <2>1. QED
      BY <1>2, <1>3, Induction
  <1>5. QED
    BY <1>1, <1>4

--------------------------------------------------------------------------------
(* The table is that of the outcomes.                                      *)

LEMMA PowerGrows ==
  ASSUME NEW m \in Nat, NEW n \in Nat, m <= n
  PROVE  2 ^ m <= 2 ^ n
  <1>1. SUBSET (1 .. m) \in SUBSET SUBSET (1 .. n)
    OBVIOUS
  <1>2. IsFiniteSet(SUBSET (1 .. n))
    BY Subsets
  <1>3. Cardinality(SUBSET (1 .. m)) <= Cardinality(SUBSET (1 .. n))
    BY <1>1, <1>2, FS_Subset
  <1>4. QED
    BY <1>3, Subsets

(* What the appliance answers: at least one key, and no key twice.         *)
LEMMA OutcomeKeys ==
  ASSUME NEW w \in Nat, NEW keys \in Outcomes(w)
  PROVE  /\ Len(keys) \in Nat \ {0}
         /\ DOMAIN keys = 1 .. Len(keys)
         /\ \A i \in 1 .. Len(keys) : keys[i] \in Keys(w)
         /\ \A i, j \in 1 .. Len(keys) : keys[i] = keys[j] => i = j
  <1>1. PICK n \in 1 .. 2 ^ w : keys \in Injection(1 .. n, Keys(w))
    BY DEF Outcomes
  <1>2. n \in Nat \ {0}
    BY PowerOfTwo
  <1>3. /\ keys \in [1 .. n -> Keys(w)]
        /\ \A i, j \in 1 .. n : keys[i] = keys[j] => i = j
    BY <1>1 DEF Injection, IsInjective
  <1>4. Len(keys) = n
    BY <1>2, <1>3
  <1>5. QED
    BY <1>2, <1>3, <1>4

LEMMA QubitsScannedEnough ==
  ASSUME NEW w \in Nat, NEW keys, NEW n_qubit \in QubitsScanned(w, keys)
  PROVE  n_qubit \in Nat /\ w <= n_qubit /\ (Len(keys) > 1 => n_qubit = w)
  BY ResultsAssumption DEF QubitsScanned

(* The dense table of any number of qubits, and of any outcomes in any     *)
(* order, has the probability of each basis state in its place, and zeros  *)
(* behind them, wherever the search for the number of qubits ended.        *)
THEOREM DenseTableExact ==
  ASSUME NEW w \in Nat, NEW keys \in Outcomes(w),
         NEW n_qubit \in QubitsScanned(w, keys)
  PROVE  LET table == DenseTable(2 ^ n_qubit, keys)
         IN  /\ DOMAIN table = 0 .. 2 ^ n_qubit - 1
             /\ Len(keys) > 1 => 2 ^ n_qubit = 2 ^ w
             /\ \A state \in DOMAIN table :
                  table[state] = IF state < 2 ^ w
                                   THEN ProbabilityOf(w, keys, state) ELSE 0
  <1> DEFINE n_state == 2 ^ n_qubit
             table == DenseTable(n_state, keys)
             n == Len(keys)
  <1>1. /\ n \in Nat /\ DOMAIN keys = 1 .. n
        /\ \A i \in 1 .. n : keys[i] \in Keys(w)
        /\ \A i, j \in 1 .. n : keys[i] = keys[j] => i = j
    BY OutcomeKeys
  <1>2. n_qubit \in Nat /\ w <= n_qubit /\ (n > 1 => n_qubit = w)
    BY QubitsScannedEnough
  <1>3. n_state \in Nat /\ 2 ^ w \in Nat /\ 2 ^ w <= n_state
    BY <1>2, PowerOfTwo, PowerGrows
  <1>4. \A i \in 1 .. n : /\ Strtol(keys[i]) \in 0 .. 2 ^ w - 1
                          /\ keys[i] = KeyOf(w, Strtol(keys[i]))
    BY <1>1, StrtolReads
  <1>5. \A i, j \in 1 .. n : Strtol(keys[i]) = Strtol(keys[j]) => i = j
    BY <1>1, <1>4
  <1>6. \A i \in 1 .. n : Strtol(keys[i]) \in 0 .. n_state - 1
    BY <1>3, <1>4
  <1> HIDE DEF n_state
  <1>7. /\ DOMAIN table = 0 .. n_state - 1
        /\ \A i \in 1 .. n : table[Strtol(keys[i])] = i
        /\ \A state \in 0 .. n_state - 1 :
             (\A i \in 1 .. n : Strtol(keys[i]) # state) => table[state] = 0
    BY <1>1, <1>3, <1>5, <1>6, TableEntries
  <1> HIDE DEF table, n
  <1>8. ASSUME NEW state \in 0 .. n_state - 1
        PROVE  table[state] = IF state < 2 ^ w
                                THEN ProbabilityOf(w, keys, state) ELSE 0
    <2>1. CASE state < 2 ^ w
      <3>1. Strtol(KeyOf(w, state)) = state
        BY <1>3, <2>1, StrtolOfKey
      <3>2. \A i \in 1 .. n : keys[i] = KeyOf(w, state) <=> Strtol(keys[i]) = state
        BY <1>4, <3>1
      <3>3. CASE \E i \in 1 .. n : keys[i] = KeyOf(w, state)
        <4>1. PICK i \in 1 .. n : keys[i] = KeyOf(w, state)
          BY <3>3
        <4>2. \A j \in 1 .. n : keys[j] = KeyOf(w, state) <=> j = i
          BY <1>1, <4>1
        <4>3. ProbabilityOf(w, keys, state) = i
          BY <1>1, <4>1, <4>2 DEF ProbabilityOf
        <4>4. table[state] = i
          BY <1>7, <3>2, <4>1
        <4>5. QED
          BY <2>1, <4>3, <4>4
      <3>4. CASE ~ \E i \in 1 .. n : keys[i] = KeyOf(w, state)
        <4>1. ProbabilityOf(w, keys, state) = 0
          BY <1>1, <3>4 DEF ProbabilityOf
        <4>2. table[state] = 0
          BY <1>7, <3>2, <3>4
        <4>3. QED
          BY <2>1, <4>1, <4>2
      <3>5. QED
        BY <3>3, <3>4
    <2>2. CASE ~(state < 2 ^ w)
      <3>1. \A i \in 1 .. n : Strtol(keys[i]) # state
        BY <1>3, <1>4, <2>2
      <3>2. QED
        BY <1>7, <2>2, <3>1
    <2>3. QED
      BY <2>1, <2>2
  <1>9. QED
    BY <1>2, <1>7, <1>8 DEF table, n, n_state
================================================================================
