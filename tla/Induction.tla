----------------------------- MODULE Induction -----------------------------
(***************************************************************************)
(* Induction over the natural numbers, for sets instead of predicates, and *)
(* what it is needed for here: that a fold over a sequence is what its     *)
(* steps make of it.  A number that an induction misses is a least one, so *)
(* everything rests on LeastPosition.                                      *)
(***************************************************************************)
EXTENDS SequenceTheorems, FiniteSetTheorems, WellFoundedInduction, TLAPS

\* A non-empty set of positions has a least one: 1 .. x is minimal, for strict
\* inclusion, among the intervals that end in the set.
LEMMA LeastPosition ==
    ASSUME NEW T \in SUBSET Nat, T # {}
    PROVE  \E x \in T : \A y \in T : x <= y
<1> DEFINE F == {1 .. x : x \in T}
<1>1. F \subseteq FiniteSubsetsOf(Nat)
  <2> SUFFICES ASSUME NEW x \in T PROVE 1 .. x \in FiniteSubsetsOf(Nat)
    OBVIOUS
  <2>1. IsFiniteSet(1 .. x)
    BY FS_Interval, x \in Int, 1 \in Int
  <2>2. 1 .. x \in SUBSET Nat
    OBVIOUS
  <2> QED BY <2>1, <2>2 DEF FiniteSubsetsOf
<1>2. F # {}
  OBVIOUS
<1>3. \E I \in F : \A J \in F : ~(<<J, I>> \in StrictSubsetOrdering(Nat))
  <2> HIDE DEF F
  <2> QED BY <1>1, <1>2, FS_StrictSubsetOrderingWellFounded, WFMin
<1>4. PICK x \in T : \A y \in T : ~(<<1 .. y, 1 .. x>> \in StrictSubsetOrdering(Nat))
  BY <1>3
<1>5. \A y \in T : x <= y
  <2> SUFFICES ASSUME NEW y \in T, y < x PROVE FALSE
    OBVIOUS
  <2>1. 1 .. y \in SUBSET Nat /\ 1 .. x \in SUBSET Nat /\ 1 .. y \subseteq 1 .. x
    OBVIOUS
  <2>2. x \in 1 .. x /\ x \notin 1 .. y
    OBVIOUS
  <2>3. 1 .. y # 1 .. x
    BY <2>2
  <2> QED BY <1>4, <2>1, <2>3 DEF StrictSubsetOrdering
<1> QED BY <1>5

\* What holds of 0, and of the next number with each, holds up to N.
LEMMA UpTo ==
    ASSUME NEW N \in Nat, NEW T, 0 \in T, \A n \in 0 .. N : n \in T /\ n < N => n + 1 \in T
    PROVE  \A n \in 0 .. N : n \in T
<1> DEFINE M == {n \in 0 .. N : n \notin T}
<1> SUFFICES ASSUME M # {} PROVE FALSE
  OBVIOUS
<1>1. \E x \in M : \A y \in M : x <= y
  <2>1. M \in SUBSET Nat
    OBVIOUS
  <2> HIDE DEF M
  <2> QED BY <2>1, LeastPosition
<1>2. PICK x \in M : \A y \in M : x <= y
  BY <1>1
<1>3. x # 0 /\ x - 1 \in 0 .. N /\ x - 1 < x /\ x - 1 < N
  OBVIOUS
<1>4. x - 1 \in T
  BY <1>2, <1>3
<1>5. (x - 1) + 1 \in T
  BY <1>3, <1>4
<1>6. (x - 1) + 1 = x
  BY <1>3
<1> QED BY <1>5, <1>6

---------------------------------------------------------------------------
(* A recursive function is a CHOOSE: something can be said of its values   *)
(* only once there is a function that satisfies its definition.            *)

\* What `step` makes of `first` and the first n elements of s, for each n.
IsIteration(f, step, first, s) ==
    f = [n \in 0 .. Len(s) |-> IF n = 0 THEN first ELSE step[f[n - 1]][s[n]]]

\* Whatever the step and the sequence, there is an iteration.
LEMMA IterationExists ==
    ASSUME NEW A, NEW B, NEW step \in [A -> [B -> A]], NEW first \in A, NEW s \in Seq(B)
    PROVE  \E f \in [0 .. Len(s) -> A] : IsIteration(f, step, first, s)
<1> DEFINE Begins(f, n) == \A i \in 0 .. n : f[i] = IF i = 0 THEN first ELSE step[f[i - 1]][s[i]]
<1> DEFINE T == {n \in 0 .. Len(s) : \E f \in [0 .. n -> A] : Begins(f, n)}
<1>0. Len(s) \in Nat /\ \A i \in 1 .. Len(s) : s[i] \in B
  BY LenProperties, ElementOfSeq
<1>1. 0 \in T
  <2>1. \E f \in [0 .. 0 -> A] : Begins(f, 0)
    <3>1. [i \in 0 .. 0 |-> first] \in [0 .. 0 -> A] /\ Begins([i \in 0 .. 0 |-> first], 0)
      OBVIOUS
    <3> QED BY <3>1
  <2>2. 0 \in 0 .. Len(s)
    BY <1>0
  <2> QED BY <2>1, <2>2
<1>2. ASSUME NEW n \in 0 .. Len(s), n \in T, n < Len(s) PROVE n + 1 \in T
  <2>1. PICK f \in [0 .. n -> A] : Begins(f, n)
    BY <1>2
  <2> DEFINE g == [i \in 0 .. n + 1 |-> IF i = n + 1 THEN step[f[n]][s[n + 1]] ELSE f[i]]
  <2>2. step[f[n]][s[n + 1]] \in A
    BY <1>0, <1>2
  <2>3. g \in [0 .. n + 1 -> A]
    BY <2>2
  <2>4. Begins(g, n + 1)
    <3> SUFFICES ASSUME NEW i \in 0 .. n + 1
                 PROVE  g[i] = IF i = 0 THEN first ELSE step[g[i - 1]][s[i]]
      OBVIOUS
    <3>1. CASE i = n + 1
      BY <3>1
    <3>2. CASE i # n + 1
      <4>1. i \in 0 .. n /\ g[i] = f[i] /\ (i # 0 => g[i - 1] = f[i - 1])
        BY <3>2
      <4> QED BY <2>1, <4>1
    <3> QED BY <3>1, <3>2
  <2>5. n + 1 \in 0 .. Len(s)
    BY <1>0, <1>2
  <2> HIDE DEF g, Begins
  <2> QED BY <2>3, <2>4, <2>5
<1>3. Len(s) \in T
  <2> HIDE DEF T
  <2>1. \A n \in 0 .. Len(s) : n \in T
    BY <1>0, <1>1, <1>2, UpTo
  <2> QED BY <1>0, <2>1
<1>4. PICK f \in [0 .. Len(s) -> A] : Begins(f, Len(s))
  BY <1>3
<1> QED BY <1>4 DEF IsIteration

\* There is one iteration, and it does not look ahead.
LEMMA IterationOfPrefix ==
    ASSUME NEW A, NEW B, NEW step, NEW first, NEW s \in Seq(B), NEW n \in 0 .. Len(s),
           NEW f, IsIteration(f, step, first, s),
           NEW g, IsIteration(g, step, first, SubSeq(s, 1, n))
    PROVE  g[n] = f[n]
<1> DEFINE T == {i \in 0 .. n : g[i] = f[i]}
<1>0. Len(s) \in Nat /\ n \in Nat /\ \A i \in 1 .. n : s[i] \in B
  BY LenProperties, ElementOfSeq
<1>1. Len(SubSeq(s, 1, n)) = n /\ \A i \in 1 .. n : SubSeq(s, 1, n)[i] = s[i]
  <2>1. /\ Len(SubSeq(s, 1, n)) = IF 1 <= n THEN n - 1 + 1 ELSE 0
        /\ \A i \in 1 .. n - 1 + 1 : SubSeq(s, 1, n)[i] = s[1 + i - 1]
    BY <1>0, SubSeqProperties, 1 \in Int, n \in Int
  <2> QED BY <1>0, <2>1
<1>2. \A i \in 0 .. n : g[i] = IF i = 0 THEN first ELSE step[g[i - 1]][SubSeq(s, 1, n)[i]]
  BY <1>1 DEF IsIteration
<1>3. \A i \in 0 .. n : f[i] = IF i = 0 THEN first ELSE step[f[i - 1]][s[i]]
  <2>1. \A i \in 0 .. n : i \in 0 .. Len(s)
    BY <1>0
  <2> QED BY <2>1 DEF IsIteration
<1>4. 0 \in T
  BY <1>0, <1>2, <1>3
<1>5. ASSUME NEW i \in 0 .. n, i \in T, i < n PROVE i + 1 \in T
  <2>1. i + 1 \in 1 .. n /\ i + 1 \in 0 .. n /\ i + 1 # 0 /\ (i + 1) - 1 = i
    BY <1>0, <1>5
  <2>2. g[i + 1] = step[g[i]][SubSeq(s, 1, n)[i + 1]] /\ f[i + 1] = step[f[i]][s[i + 1]]
    BY <1>2, <1>3, <2>1
  <2> QED BY <1>1, <1>5, <2>1, <2>2
<1>6. \A i \in 0 .. n : i \in T
  <2> HIDE DEF T
  <2> QED BY <1>0, <1>4, <1>5, UpTo
<1> QED BY <1>0, <1>6

---------------------------------------------------------------------------
(* Lists. *)

\* Short of its last element a list is what it was.
LEMMA PrefixOfAppend ==
    ASSUME NEW S, NEW s \in Seq(S), NEW x \in S, NEW n \in 0 .. Len(s)
    PROVE  /\ SubSeq(Append(s, x), 1, n) = SubSeq(s, 1, n)
           /\ SubSeq(Append(s, x), 1, Len(s) + 1) = Append(s, x)
<1>0. /\ Len(s) \in Nat /\ Append(s, x) \in Seq(S) /\ Len(Append(s, x)) = Len(s) + 1
      /\ \A i \in 1 .. Len(s) : Append(s, x)[i] = s[i] /\ s[i] \in S
  BY LenProperties, AppendProperties, ElementOfSeq
<1>1. /\ SubSeq(s, 1, n) \in Seq(S)
      /\ Len(SubSeq(s, 1, n)) = IF 1 <= n THEN n - 1 + 1 ELSE 0
      /\ \A i \in 1 .. n - 1 + 1 : SubSeq(s, 1, n)[i] = s[1 + i - 1]
  <2>1. \A i \in 1 .. n : s[i] \in S
    BY <1>0
  <2> QED BY <1>0, <2>1, SubSeqProperties, 1 \in Int, n \in Int
<1>2. /\ SubSeq(Append(s, x), 1, n) \in Seq(S)
      /\ Len(SubSeq(Append(s, x), 1, n)) = IF 1 <= n THEN n - 1 + 1 ELSE 0
      /\ \A i \in 1 .. n - 1 + 1 : SubSeq(Append(s, x), 1, n)[i] = Append(s, x)[1 + i - 1]
  <2>1. \A i \in 1 .. n : Append(s, x)[i] \in S
    BY <1>0
  <2> QED BY <1>0, <2>1, SubSeqProperties, 1 \in Int, n \in Int
<1>3. \A i \in 1 .. n : SubSeq(Append(s, x), 1, n)[i] = SubSeq(s, 1, n)[i]
  BY <1>0, <1>1, <1>2
<1>4. Len(SubSeq(s, 1, n)) = n /\ Len(SubSeq(Append(s, x), 1, n)) = n
  BY <1>0, <1>1, <1>2
<1>5. SubSeq(Append(s, x), 1, n) = SubSeq(s, 1, n)
  BY <1>1, <1>2, <1>3, <1>4, SeqEqual
<1> QED BY <1>0, <1>5, SubSeqFull

\* What holds of the empty list, and of a list that is one longer with each,
\* holds of every list.
LEMMA ListInduction ==
    ASSUME NEW S, NEW T, <<>> \in T,
           \A s \in Seq(S), x \in S : s \in T => Append(s, x) \in T
    PROVE  Seq(S) \subseteq T
<1> SUFFICES ASSUME NEW s \in Seq(S) PROVE s \in T
  OBVIOUS
<1> DEFINE N == {n \in 0 .. Len(s) : SubSeq(s, 1, n) \in T}
<1>0. Len(s) \in Nat /\ \A i \in 1 .. Len(s) : s[i] \in S
  BY LenProperties, ElementOfSeq
<1>1. 0 \in N
  <2>1. SubSeq(s, 1, 0) = <<>>
    BY SubSeqEmpty, 0 \in Int, 1 \in Int
  <2>2. 0 \in 0 .. Len(s)
    BY <1>0
  <2> QED BY <2>1, <2>2
<1>2. ASSUME NEW n \in 0 .. Len(s), n \in N, n < Len(s) PROVE n + 1 \in N
  <2>1. SubSeq(s, 1, n) \in Seq(S) /\ n + 1 \in 1 .. Len(s) /\ 1 \in 1 .. Len(s)
    BY <1>0, <1>2, SubSeqProperties, 1 \in Int, n \in Int
  <2>2. SubSeq(s, 1, n + 1) = Append(SubSeq(s, 1, n), s[n + 1])
    <3>1. SubSeq(s, 1, n + 1) = SubSeq(s, 1, (n + 1) - 1) \o <<s[n + 1]>>
      BY <1>0, <2>1, SubSeqRecursiveSecond, n + 1 \in 1 .. Len(s)
    <3>2. Append(SubSeq(s, 1, n), s[n + 1]) = SubSeq(s, 1, n) \o <<s[n + 1]>>
      BY <1>0, <2>1, AppendIsConcat
    <3> QED BY <3>1, <3>2
  <2>3. SubSeq(s, 1, n + 1) \in T
    BY <1>0, <1>2, <2>1, <2>2
  <2> QED BY <1>0, <1>2, <2>1, <2>3
<1>3. \A n \in 0 .. Len(s) : n \in N
  <2> HIDE DEF N
  <2> QED BY <1>0, <1>1, <1>2, UpTo
<1>4. Len(s) \in N
  BY <1>0, <1>3
<1> QED BY <1>4, SubSeqFull
=============================================================================
