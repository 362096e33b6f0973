---------------------------- MODULE CommonLemmas ----------------------------
(***************************************************************************)
(* Facts about natural numbers and sequences the proofs share.             *)
(*                                                                         *)
(* Induction is by the least number: a property of the natural numbers     *)
(* that fails somewhere fails at a least number.  Stated of a set, the     *)
(* principle needs no operator for a parameter.                            *)
(***************************************************************************)
EXTENDS Integers, Sequences, WellFoundedInduction, TLAPS

LEMMA LeastNumber ==
  ASSUME NEW T \in SUBSET Nat, T # {}
  PROVE  \E n \in T : \A m \in T : n <= m
<1> DEFINE R == OpToRel(<, Nat)
<1>1. IsWellFoundedOn(R, Nat)
  BY NatLessThanWellFounded
<1>2. \A m, n \in Nat : m < n => <<m, n>> \in R
  BY DEF OpToRel
<1> HIDE DEF R
<1>3. \E n \in T : \A m \in T : <<m, n>> \notin R
  BY <1>1, WFMin
<1>4. PICK n \in T : \A m \in T : <<m, n>> \notin R
  BY <1>3
<1>5. \A m \in T : ~(m < n)
  BY <1>2, <1>4
<1>6. \A m \in T : n <= m
  BY <1>5
<1> QED
  BY <1>6

(* The numbers up to a bound, one at a time.                               *)
LEMMA StepInduction ==
  ASSUME NEW N \in Nat, NEW S, 0 \in S,
         \A n \in 0 .. N - 1 : n \in S => n + 1 \in S
  PROVE  0 .. N \subseteq S
<1> DEFINE Bad == {n \in 0 .. N : n \notin S}
<1> SUFFICES ASSUME Bad # {} PROVE FALSE
  OBVIOUS
<1>1. Bad \in SUBSET Nat /\ Bad # {}
  OBVIOUS
<1>2. PICK n \in Bad : \A m \in Bad : n <= m
  <2> HIDE DEF Bad
  <2> QED
    BY <1>1, LeastNumber
<1>3. n # 0 /\ n - 1 \in 0 .. N - 1 /\ n - 1 \notin Bad
  BY <1>2
<1>4. n - 1 \in S /\ (n - 1) + 1 = n
  BY <1>3
<1> QED
  BY <1>2, <1>3, <1>4

(* All that is smaller at once.                                            *)
LEMMA CompleteInduction ==
  ASSUME NEW N \in Nat, NEW S,
         \A n \in 1 .. N : 1 .. n - 1 \subseteq S => n \in S
  PROVE  1 .. N \subseteq S
<1> DEFINE Bad == {n \in 1 .. N : n \notin S}
<1> SUFFICES ASSUME Bad # {} PROVE FALSE
  OBVIOUS
<1>1. Bad \in SUBSET Nat /\ Bad # {}
  OBVIOUS
<1>2. PICK n \in Bad : \A m \in Bad : n <= m
  <2> HIDE DEF Bad
  <2> QED
    BY <1>1, LeastNumber
<1>3. 1 .. n - 1 \subseteq S
  BY <1>2
<1> QED
  BY <1>2, <1>3

-----------------------------------------------------------------------------
IsSeq(s) == s \in Seq({s[k] : k \in DOMAIN s})

LEMMA SeqFacts ==
  ASSUME NEW s, IsSeq(s)
  PROVE  Len(s) \in Nat /\ DOMAIN s = 1 .. Len(s)
  BY DEF IsSeq

(* A function over 1 .. n is a sequence.                                   *)
LEMMA FunctionIsSeq ==
  ASSUME NEW n \in Nat, NEW s, s = [k \in 1 .. n |-> s[k]]
  PROVE  IsSeq(s) /\ Len(s) = n
<1> DEFINE R == {s[k] : k \in DOMAIN s}
<1>1. DOMAIN s = 1 .. n
  OBVIOUS
<1>2. \A k \in 1 .. n : s[k] \in R
  BY <1>1
<1> HIDE DEF R
<1>3. s \in [1 .. n -> R]
  BY <1>2
<1>4. s \in Seq(R) /\ Len(s) = n
  BY <1>3
<1> QED
  BY <1>4 DEF IsSeq, R

LEMMA SeqIsFunction ==
  ASSUME NEW s, IsSeq(s)
  PROVE  s = [k \in 1 .. Len(s) |-> s[k]]
BY DEF IsSeq

LEMMA AppendFacts ==
  ASSUME NEW s, IsSeq(s), NEW e
  PROVE  /\ IsSeq(Append(s, e))
         /\ Len(Append(s, e)) = Len(s) + 1
         /\ \A k \in 1 .. Len(s) : Append(s, e)[k] = s[k]
         /\ Append(s, e)[Len(s) + 1] = e
<1> DEFINE E == {s[k] : k \in DOMAIN s} \cup {e}
           t == Append(s, e)
<1>1. Len(s) \in Nat /\ DOMAIN s = 1 .. Len(s)
  BY SeqFacts
<1>2. s \in Seq(E)
  <2>1. s \in Seq({s[k] : k \in DOMAIN s})
    BY DEF IsSeq
  <2> QED
    BY <2>1, <1>1
<1>3. /\ t \in Seq(E)
      /\ Len(t) = Len(s) + 1
      /\ \A k \in 1 .. Len(s) : t[k] = s[k]
      /\ t[Len(s) + 1] = e
      /\ DOMAIN t = 1 .. Len(s) + 1
  BY <1>1, <1>2
<1>4. IsSeq(t)
  <2> DEFINE R == {t[k] : k \in DOMAIN t}
  <2>1. \A k \in 1 .. Len(s) + 1 : t[k] \in R
    BY <1>3
  <2> HIDE DEF t, R, E
  <2>2. t \in [1 .. Len(s) + 1 -> E]
    BY <1>1, <1>3
  <2>3. t \in [1 .. Len(s) + 1 -> R]
    BY <2>1, <2>2
  <2>4. t \in Seq(R)
    BY <2>3, <1>1
  <2> QED
    BY <2>4 DEF IsSeq, R
<1> QED
  BY <1>3, <1>4

LEMMA AppendAssociates ==
  ASSUME NEW S, NEW s \in Seq(S), NEW t \in Seq(S), NEW e \in S
  PROVE  /\ Append(s \o t, e) = s \o Append(t, e)
         /\ s \o t \in Seq(S) /\ Append(t, e) \in Seq(S)
  OBVIOUS

(***************************************************************************)
(* Recursion over 0 .. N, each value from the one before it, within a set  *)
(* of values: there is such a function, and there is only one.             *)
(***************************************************************************)
IsStep(step, N, X) == step \in [1 .. N -> [X -> X]]

Recurs(f, N, X, base, step) ==
  /\ f \in [0 .. N -> X]
  /\ f[0] = base
  /\ \A n \in 1 .. N : f[n] = step[n][f[n - 1]]

LEMMA LinearRecursion ==
  ASSUME NEW N \in Nat, NEW X, NEW base \in X, NEW step, IsStep(step, N, X)
  PROVE  \E f : Recurs(f, N, X, base, step)
<1>0. step \in [1 .. N -> [X -> X]]
  BY DEF IsStep
<1> DEFINE Sat(f, m) == f[0] = base /\ \A n \in 1 .. m : f[n] = step[n][f[n - 1]]
           S == {m \in 0 .. N : \E f \in [0 .. N -> X] : Sat(f, m)}
<1>1. 0 \in S
  <2> DEFINE f == [n \in 0 .. N |-> base]
  <2>1. f \in [0 .. N -> X] /\ Sat(f, 0)
    OBVIOUS
  <2> HIDE DEF f
  <2> QED
    BY <2>1
<1>2. ASSUME NEW m \in 0 .. N - 1, m \in S PROVE m + 1 \in S
  <2>1. PICK g \in [0 .. N -> X] : Sat(g, m)
    BY <1>2
  <2>2. m + 1 \in 1 .. N /\ g[m] \in X
    OBVIOUS
  <2> DEFINE next == step[m + 1][g[m]]
             f == [n \in 0 .. N |-> IF n = m + 1 THEN next ELSE g[n]]
  <2>3. next \in X
    BY <1>0, <2>2
  <2> HIDE DEF next
  <2>4. f \in [0 .. N -> X]
    BY <2>3
  <2>5. f[0] = base
    BY <2>1
  <2>6. ASSUME NEW n \in 1 .. m + 1 PROVE f[n] = step[n][f[n - 1]]
    <3>1. f[n - 1] = g[n - 1]
      OBVIOUS
    <3>2. CASE n = m + 1
      <4>1. f[n] = next /\ n - 1 = m
        BY <2>2, <3>2
      <4> HIDE DEF f
      <4> QED
        BY <3>1, <3>2, <4>1 DEF next
    <3>3. CASE n # m + 1
      <4>1. f[n] = g[n] /\ n \in 1 .. m
        BY <3>3
      <4> HIDE DEF f
      <4> QED
        BY <2>1, <3>1, <4>1
    <3> QED
      BY <3>2, <3>3
  <2> HIDE DEF f
  <2>7. Sat(f, m + 1)
    BY <2>5, <2>6
  <2> QED
    BY <2>2, <2>4, <2>7
<1>3. 0 .. N \subseteq S
  <2> HIDE DEF S
  <2> QED
    BY <1>1, <1>2, StepInduction
<1> QED
  BY <1>3 DEF Recurs

LEMMA LinearRecursionIsUnique ==
  ASSUME NEW N \in Nat, NEW f, NEW g, f[0] = g[0],
         \A n \in 1 .. N : f[n - 1] = g[n - 1] => f[n] = g[n]
  PROVE  \A n \in 0 .. N : f[n] = g[n]
<1> DEFINE S == {n \in 0 .. N : f[n] = g[n]}
<1>1. 0 \in S
  OBVIOUS
<1>2. ASSUME NEW n \in 0 .. N - 1, n \in S PROVE n + 1 \in S
  <2>1. n + 1 \in 1 .. N /\ (n + 1) - 1 = n
    OBVIOUS
  <2>2. f[n] = g[n]
    BY <1>2
  <2>3. f[n + 1] = g[n + 1]
    BY <2>1, <2>2
  <2> QED
    BY <2>1, <2>3
<1>3. 0 .. N \subseteq S
  <2> HIDE DEF S
  <2> QED
    BY <1>1, <1>2, StepInduction
<1> QED
  BY <1>3

(* Sequences, one element at a time.                                       *)
LEMMA SequenceInduction ==
  ASSUME NEW C, NEW Good, << >> \in Good,
         \A s \in Seq(C) : \A e \in C : s \in Good => Append(s, e) \in Good
  PROVE  Seq(C) \subseteq Good
<1> SUFFICES ASSUME NEW s \in Seq(C) PROVE s \in Good
  OBVIOUS
<1> DEFINE N == Len(s)
           S == {n \in 0 .. N : SubSeq(s, 1, n) \in Good}
<1>1. 0 \in S
  <2>1. SubSeq(s, 1, 0) = << >>
    OBVIOUS
  <2>2. 0 \in 0 .. N
    OBVIOUS
  <2>3. SubSeq(s, 1, 0) \in Good
    BY <2>1, Zenon
  <2> QED
    BY <2>2, <2>3
<1>2. ASSUME NEW n \in 0 .. N - 1, n \in S PROVE n + 1 \in S
  <2>1. n + 1 \in 1 .. N /\ s[n + 1] \in C /\ SubSeq(s, 1, n) \in Seq(C)
    OBVIOUS
  <2>2. SubSeq(s, 1, n + 1) = Append(SubSeq(s, 1, n), s[n + 1])
    BY <2>1
  <2>3. SubSeq(s, 1, n + 1) \in Good
    BY <1>2, <2>1, <2>2
  <2> QED
    BY <2>1, <2>3
<1>3. 0 .. N \subseteq S
  <2> HIDE DEF S
  <2> QED
    BY <1>1, <1>2, StepInduction
<1>4. SubSeq(s, 1, N) = s
  OBVIOUS
<1>5. N \in 0 .. N
  OBVIOUS
<1>6. SubSeq(s, 1, N) \in Good
  <2> HIDE DEF N
  <2> QED
    BY <1>3, <1>5
<1> QED
  BY <1>4, <1>6, Zenon
=============================================================================
