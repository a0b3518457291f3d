---------------------------- MODULE SequenceFacts ----------------------------
(***************************************************************************)
(* Facts about the operators on sequences that module Derivations is built   *)
(* from: what a concatenation, FlattenSeq and SetToSeq hold and where.        *)
(* Induction is over a set of numbers, by its least missing element.         *)
(***************************************************************************)
EXTENDS Integers, Sequences, SequencesExt, FunctionTheorems, FiniteSetTheorems, WellFoundedInduction, TLAPS

\* A set of naturals that has 0 and each successor has all of them.
LEMMA NatSetInduction ==
  ASSUME NEW S \in SUBSET Nat, 0 \in S, \A n \in S : n + 1 \in S
  PROVE  S = Nat
<1> DEFINE R == OpToRel(<, Nat)
<1>1. IsWellFoundedOn(R, Nat)
  BY NatLessThanWellFounded
<1>2. SUFFICES ASSUME Nat \ S # {} PROVE FALSE
  OBVIOUS
<1>3. PICK x \in Nat \ S : \A y \in Nat \ S : ~(<<y, x>> \in R)
  BY <1>1, <1>2, WFMin
<1>4. x # 0 /\ x - 1 \in Nat \ S
  OBVIOUS
<1>5. <<x - 1, x>> \in R
  BY <1>4 DEF OpToRel
<1> QED
  BY <1>3, <1>4, <1>5

\* The same up to a bound.
LEMMA UpTo ==
  ASSUME NEW n \in Nat, NEW S, 0 \in S, \A i \in 0..(n - 1) : i \in S => i + 1 \in S
  PROVE  \A i \in 0..n : i \in S
<1> DEFINE T == {k \in Nat : k \in S \/ k > n}
<1>1. T \in SUBSET Nat /\ 0 \in T
  OBVIOUS
<1>2. ASSUME NEW k \in T PROVE k + 1 \in T
  <2>1. CASE k \in S /\ k <= n - 1
    BY <2>1
  <2>2. CASE k > n - 1
    BY <2>2
  <2> QED
    BY <2>1, <2>2
<1>3. T = Nat
  <2> HIDE DEF T
  <2> QED
    BY <1>1, <1>2, NatSetInduction
<1> QED
  BY <1>3

-----------------------------------------------------------------------------
(* Concatenation.                                                           *)

\* A concatenation holds what its parts hold.
LEMMA ConcatRange ==
  ASSUME NEW S, NEW s \in Seq(S), NEW t \in Seq(S)
  PROVE  s \o t \in Seq(S) /\ Range(s \o t) = Range(s) \cup Range(t)
<1> DEFINE m == Len(s)
           n == Len(t)
           u == s \o t
<1>1. /\ m \in Nat /\ n \in Nat /\ DOMAIN s = 1..m /\ DOMAIN t = 1..n /\ DOMAIN u = 1..(m + n)
      /\ \A i \in 1..m : u[i] = s[i]
      /\ \A i \in (m + 1)..(m + n) : u[i] = t[i - m]
  OBVIOUS
<1>2. s \o t \in Seq(S)
  OBVIOUS
<1> HIDE DEF m, n, u
<1>3. \A x \in Range(s) : x \in Range(u)
  <2>1. \A i \in 1..m : i \in 1..(m + n)
    BY <1>1
  <2>2. \A i \in 1..m : s[i] \in Range(u)
    BY <1>1, <2>1 DEF Range
  <2> QED
    BY <1>1, <2>2 DEF Range
<1>4. \A x \in Range(t) : x \in Range(u)
  <2>1. ASSUME NEW i \in 1..n PROVE i + m \in 1..(m + n) /\ u[i + m] = t[i]
    <3>1. i + m \in (m + 1)..(m + n) /\ i + m \in 1..(m + n) /\ (i + m) - m = i
      BY <1>1
    <3> QED
      BY <1>1, <3>1
  <2>2. \A i \in 1..n : t[i] \in Range(u)
    BY <1>1, <2>1 DEF Range
  <2> QED
    BY <1>1, <2>2 DEF Range
<1>5. \A x \in Range(u) : x \in Range(s) \cup Range(t)
  <2>1. ASSUME NEW i \in 1..(m + n) PROVE u[i] \in Range(s) \cup Range(t)
    <3>1. CASE i \in 1..m
      BY <1>1, <3>1 DEF Range
    <3>2. CASE i \in (m + 1)..(m + n)
      <4>1. i - m \in 1..n
        BY <1>1, <3>2
      <4> QED
        BY <1>1, <3>2, <4>1 DEF Range
    <3> QED
      BY <1>1, <3>1, <3>2
  <2> QED
    BY <1>1, <2>1 DEF Range
<1> QED
  BY <1>2, <1>3, <1>4, <1>5 DEF u

\* The sequence of nothing holds nothing.
LEMMA EmptyRange == DOMAIN <<>> = {} /\ Range(<<>>) = {}
<1>1. DOMAIN <<>> = {}
  OBVIOUS
<1> QED
  BY <1>1 DEF Range

-----------------------------------------------------------------------------
(* FlattenSeq.                                                              *)

\* The defining equation of its recursive function, on the first k sequences.
Flattens(f, ss, k) ==
    f = [i \in 1..k |-> IF i = 1 THEN ss[i] ELSE f[i - 1] \o ss[i]]

\* There is such a function.
LEMMA FlattenExists ==
  ASSUME NEW S, NEW ss \in Seq(Seq(S)), Len(ss) # 0
  PROVE  \E f : Flattens(f, ss, Len(ss))
<1> DEFINE n == Len(ss)
           Good == {k \in Nat : \E f : f \in [1..k -> Seq(S)] /\ Flattens(f, ss, k)}
<1>1. n \in Nat
  OBVIOUS
<1>2. 0 \in Good
  <2>1. [i \in 1..0 |-> <<>>] \in [1..0 -> Seq(S)]
    OBVIOUS
  <2>2. Flattens([i \in 1..0 |-> <<>>], ss, 0)
    BY DEF Flattens
  <2> QED
    BY <2>1, <2>2
<1>3. ASSUME NEW k \in 0..(n - 1), k \in Good PROVE k + 1 \in Good
  <2>1. PICK f : f \in [1..k -> Seq(S)] /\ Flattens(f, ss, k)
    BY <1>3
  <2> DEFINE v == IF k = 0 THEN ss[1] ELSE f[k] \o ss[k + 1]
             g == [i \in 1..(k + 1) |-> IF i = k + 1 THEN v ELSE f[i]]
  <2>2. ss[k + 1] \in Seq(S) /\ ss[1] \in Seq(S)
    BY <1>3
  <2>3. v \in Seq(S)
    BY <2>1, <2>2, <1>3
  <2>4. g \in [1..(k + 1) -> Seq(S)]
    BY <2>1, <2>3
  <2>5. ASSUME NEW i \in 1..(k + 1)
        PROVE  g[i] = IF i = 1 THEN ss[i] ELSE g[i - 1] \o ss[i]
    <3>1. CASE i = k + 1
      BY <3>1
    <3>2. CASE i # k + 1
      <4>1. i \in 1..k /\ g[i] = f[i] /\ (i # 1 => g[i - 1] = f[i - 1])
        BY <3>2
      <4>2. f[i] = IF i = 1 THEN ss[i] ELSE f[i - 1] \o ss[i]
        BY <2>1, <4>1 DEF Flattens
      <4> QED
        BY <4>1, <4>2
    <3> QED
      BY <3>1, <3>2
  <2>6. Flattens(g, ss, k + 1)
    BY <2>5 DEF Flattens
  <2>7. k + 1 \in Nat
    BY <1>3
  <2> HIDE DEF g, v
  <2> QED
    BY <2>4, <2>6, <2>7
<1>4. \A k \in 0..n : k \in Good
  <2> HIDE DEF Good, n
  <2> QED
    BY <1>1, <1>2, <1>3, UpTo
<1> QED
  BY <1>4

\* FlattenSeq holds what its sequences hold.
LEMMA FlattenRange ==
  ASSUME NEW S, NEW ss \in Seq(Seq(S))
  PROVE  /\ FlattenSeq(ss) \in Seq(S)
         /\ Range(FlattenSeq(ss)) = UNION {Range(ss[i]) : i \in DOMAIN ss}
<1>1. CASE Len(ss) = 0
  <2>1. ss = <<>> /\ FlattenSeq(ss) = <<>>
    BY <1>1 DEF FlattenSeq
  <2>2. <<>> \in Seq(S)
    OBVIOUS
  <2> QED
    BY <2>1, <2>2, EmptyRange
<1>2. CASE Len(ss) # 0
  <2> DEFINE n == Len(ss)
             g == CHOOSE f : Flattens(f, ss, n)
  <2>1. FlattenSeq(ss) = g[n]
    BY <1>2 DEF FlattenSeq, Flattens
  <2>2. Flattens(g, ss, n)
    BY <1>2, FlattenExists
  <2> HIDE DEF g
  <2>8. /\ n \in Nat \ {0} /\ DOMAIN ss = 1..n
        /\ \A i \in 1..n : ss[i] \in Seq(S)
        /\ \A i \in 1..n : g[i] = IF i = 1 THEN ss[i] ELSE g[i - 1] \o ss[i]
    <3>1. n \in Nat \ {0} /\ DOMAIN ss = 1..n /\ \A i \in 1..n : ss[i] \in Seq(S)
      BY <1>2
    <3> HIDE DEF n
    <3>2. \A i \in 1..n : g[i] = IF i = 1 THEN ss[i] ELSE g[i - 1] \o ss[i]
      BY <2>2, Zenon DEF Flattens
    <3> QED
      BY <3>1, <3>2
  <2> HIDE DEF n
  <2> DEFINE Good == {k \in 0..n : k # 0 => /\ g[k] \in Seq(S)
                                          /\ Range(g[k]) = UNION {Range(ss[i]) : i \in 1..k}}
  <2>3. 0 \in Good
    BY <2>8
  <2>4. ASSUME NEW k \in 0..(n - 1), k \in Good PROVE k + 1 \in Good
    <3>1. k + 1 \in 1..n /\ k \in 0..n /\ ss[k + 1] \in Seq(S)
      BY <2>8
    <3>2. CASE k = 0
      <4>1. g[1] = ss[1] /\ 1 \in 0..n /\ 1..1 = {1}
        BY <2>8
      <4>2. Range(ss[1]) = UNION {Range(ss[i]) : i \in {1}}
        OBVIOUS
      <4> QED
        BY <3>1, <3>2, <4>1, <4>2
    <3>3. CASE k # 0
      <4>1. g[k + 1] = g[k] \o ss[k + 1]
        <5>1. k + 1 # 1 /\ (k + 1) - 1 = k
          BY <3>1, <3>3
        <5> QED
          BY <2>8, <3>1, <5>1
      <4>2. g[k] \in Seq(S) /\ Range(g[k]) = UNION {Range(ss[i]) : i \in 1..k}
        BY <2>4, <3>3
      <4>3. g[k + 1] \in Seq(S) /\ Range(g[k + 1]) = Range(g[k]) \cup Range(ss[k + 1])
        BY <3>1, <4>1, <4>2, ConcatRange
      <4>4. 1..(k + 1) = 1..k \cup {k + 1} /\ k + 1 \in 0..n
        BY <3>1
      <4>5. Range(g[k + 1]) = UNION {Range(ss[i]) : i \in 1..(k + 1)}
        BY <4>2, <4>3, <4>4
      <4> QED
        BY <4>3, <4>4, <4>5
    <3> QED
      BY <3>2, <3>3
  <2>5. \A k \in 0..n : k \in Good
    <3> HIDE DEF Good
    <3> QED
      BY <2>3, <2>4, <2>8, UpTo
  <2>6. g[n] \in Seq(S) /\ Range(g[n]) = UNION {Range(ss[i]) : i \in 1..n}
    <3>1. n \in 0..n /\ n # 0
      BY <2>8
    <3>2. n \in Good
      BY <2>5, <3>1
    <3> QED
      BY <3>1, <3>2
  <2> QED
    BY <2>1, <2>6, <2>8
<1> QED
  BY <1>1, <1>2

-----------------------------------------------------------------------------
(* Lists, that is sequences of what they hold.                              *)

\* A sequence over any set is a list.
LEMMA SeqIsList ==
  ASSUME NEW S, NEW s \in Seq(S)
  PROVE  s \in Seq(Range(s))
<1> DEFINE n == Len(s)
<1>1. n \in Nat /\ s \in [1..n -> S]
  OBVIOUS
<1> HIDE DEF n
<1>2. s \in [1..n -> Range(s)]
  BY <1>1 DEF Range
<1> QED
  BY <1>1, <1>2

\* So is a function on an interval from 1.
LEMMA FunctionIsList ==
  ASSUME NEW f, NEW n \in Nat, f = [i \in 1..n |-> f[i]]
  PROVE  f \in Seq(Range(f))
<1>1. f \in [1..n -> Range(f)]
  <2>1. DOMAIN f = 1..n
    BY Zenon
  <2>2. \A i \in 1..n : f[i] \in Range(f)
    BY <2>1 DEF Range
  <2>3. [i \in 1..n |-> f[i]] \in [1..n -> Range(f)]
    BY <2>2
  <2> QED
    BY <2>3
<1> QED
  BY <1>1

\* A sequence over its own range has a domain 1..n.
LEMMA ListDomain ==
  ASSUME NEW s, s \in Seq(Range(s))
  PROVE  \E n \in Nat : DOMAIN s = 1..n
<1>1. Len(s) \in Nat /\ DOMAIN s = 1..Len(s)
  OBVIOUS
<1> QED
  BY <1>1

\* Concatenation and FlattenSeq of lists.
LEMMA ConcatLists ==
  ASSUME NEW s, s \in Seq(Range(s)), NEW t, t \in Seq(Range(t))
  PROVE  /\ s \o t \in Seq(Range(s \o t))
         /\ Range(s \o t) = Range(s) \cup Range(t)
<1> DEFINE S == Range(s) \cup Range(t)
<1>1. s \in Seq(S) /\ t \in Seq(S)
  OBVIOUS
<1> HIDE DEF S
<1>2. s \o t \in Seq(S) /\ Range(s \o t) = Range(s) \cup Range(t)
  BY <1>1, ConcatRange
<1> QED
  BY <1>2, SeqIsList

\* FlattenSeq of sequences is a sequence of the elements of all of them.
LEMMA FlattenLists ==
  ASSUME NEW ss, ss \in Seq(Range(ss)), \A i \in DOMAIN ss : ss[i] \in Seq(Range(ss[i]))
  PROVE  /\ FlattenSeq(ss) \in Seq(Range(FlattenSeq(ss)))
         /\ Range(FlattenSeq(ss)) = UNION {Range(ss[i]) : i \in DOMAIN ss}
<1> DEFINE S == UNION {Range(ss[i]) : i \in DOMAIN ss}
           n == Len(ss)
<1>1. \A i \in DOMAIN ss : ss[i] \in Seq(S)
  <2>1. \A i \in DOMAIN ss : Range(ss[i]) \subseteq S
    OBVIOUS
  <2> HIDE DEF S
  <2> QED
    BY <2>1
<1> HIDE DEF S
<1>2. n \in Nat /\ DOMAIN ss = 1..n /\ ss = [i \in 1..n |-> ss[i]]
  OBVIOUS
<1> HIDE DEF n
<1>3. [i \in 1..n |-> ss[i]] \in [1..n -> Seq(S)]
  BY <1>1, <1>2
<1>4. ss \in Seq(Seq(S))
  BY <1>2, <1>3
<1>5. FlattenSeq(ss) \in Seq(S) /\ Range(FlattenSeq(ss)) = UNION {Range(ss[i]) : i \in DOMAIN ss}
  BY <1>4, FlattenRange
<1> QED
  BY <1>5, SeqIsList

\* Short lists.
LEMMA Tuples ==
    /\ <<>> \in Seq(Range(<<>>)) /\ Range(<<>>) = {}
    /\ \A a : <<a>> \in Seq(Range(<<a>>)) /\ Range(<<a>>) = {a}
    /\ \A a, b : <<a, b>> \in Seq(Range(<<a, b>>)) /\ Range(<<a, b>>) = {a, b}
    /\ \A a, b, c : <<a, b, c>> \in Seq(Range(<<a, b, c>>)) /\ Range(<<a, b, c>>) = {a, b, c}
    /\ \A a, b, c, d :
          <<a, b, c, d>> \in Seq(Range(<<a, b, c, d>>)) /\ Range(<<a, b, c, d>>) = {a, b, c, d}
<1>1. <<>> \in Seq(Range(<<>>)) /\ Range(<<>>) = {}
  BY EmptyRange, SeqIsList
<1>2. ASSUME NEW a PROVE <<a>> \in Seq(Range(<<a>>)) /\ Range(<<a>>) = {a}
  <2>1. DOMAIN <<a>> = {1} /\ <<a>> \in Seq({a})
    OBVIOUS
  <2> QED
    BY <2>1, SeqIsList DEF Range
<1>3. ASSUME NEW a, NEW b PROVE <<a, b>> \in Seq(Range(<<a, b>>)) /\ Range(<<a, b>>) = {a, b}
  <2>1. DOMAIN <<a, b>> = {1, 2} /\ <<a, b>> \in Seq({a, b})
    OBVIOUS
  <2> QED
    BY <2>1, SeqIsList DEF Range
<1>4. ASSUME NEW a, NEW b, NEW c
      PROVE  <<a, b, c>> \in Seq(Range(<<a, b, c>>)) /\ Range(<<a, b, c>>) = {a, b, c}
  <2>1. DOMAIN <<a, b, c>> = {1, 2, 3} /\ <<a, b, c>> \in Seq({a, b, c})
    OBVIOUS
  <2> QED
    BY <2>1, SeqIsList DEF Range
<1>5. ASSUME NEW a, NEW b, NEW c, NEW d
      PROVE  <<a, b, c, d>> \in Seq(Range(<<a, b, c, d>>)) /\ Range(<<a, b, c, d>>) = {a, b, c, d}
  <2>1. DOMAIN <<a, b, c, d>> = {1, 2, 3, 4} /\ <<a, b, c, d>> \in Seq({a, b, c, d})
    OBVIOUS
  <2> QED
    BY <2>1, SeqIsList DEF Range
<1> QED
  BY <1>1, <1>2, <1>3, <1>4, <1>5

-----------------------------------------------------------------------------
(* Finite sets as lists.                                                    *)

\* A list holds finitely many things.
LEMMA ListIsFinite ==
  ASSUME NEW s, s \in Seq(Range(s))
  PROVE  IsFiniteSet(DOMAIN s) /\ IsFiniteSet(Range(s))
<1> DEFINE n == Len(s)
<1>1. n \in Nat /\ DOMAIN s = 1..n
  OBVIOUS
<1>2. IsFiniteSet(1..n)
  <2> HIDE DEF n
  <2> QED
    BY <1>1, FS_Interval
<1>3. IsFiniteSet(Range(s))
  <2>1. s \in Seq(Range(s)) /\ \A x \in Range(s) : \E i \in 1..Len(s) : s[i] = x
    BY <1>1 DEF Range
  <2> QED
    BY <2>1 DEF IsFiniteSet
<1> QED
  BY <1>1, <1>2, <1>3

\* SetToSeq of a finite set is a sequence of its elements, each once.
LEMMA SetToSeqLists ==
  ASSUME NEW S, IsFiniteSet(S)
  PROVE  /\ SetToSeq(S) \in Seq(Range(SetToSeq(S))) /\ Range(SetToSeq(S)) = S
         /\ \A i, j \in DOMAIN SetToSeq(S) : SetToSeq(S)[i] = SetToSeq(S)[j] => i = j
<1> DEFINE n == Cardinality(S)
<1>1. n \in Nat /\ ExistsBijection(1..n, S)
  BY FS_CardinalityType
<1> HIDE DEF n
<1>2. PICK h : h \in Bijection(1..n, S)
  BY <1>1 DEF ExistsBijection
<1>3. h \in [1..n -> S] /\ \A a, b \in 1..n : h[a] = h[b] => a = b
  BY <1>2, Fun_BijectionProperties
<1>4. h \in [1..n -> S] /\ IsInjective(h)
  BY <1>3 DEF IsInjective
<1> DEFINE f == CHOOSE g \in [1..n -> S] : IsInjective(g)
<1>5. f \in [1..n -> S] /\ IsInjective(f)
  BY <1>4
<1>6. SetToSeq(S) = f
  BY DEF SetToSeq, n
<1> HIDE DEF f
<1>7. f \in Seq(S)
  BY <1>1, <1>5
<1>8. Range(f) = S
  <2>1. f \in Injection(1..n, S)
    BY <1>5 DEF Injection, IsInjective
  <2>2. IsFiniteSet(1..n) /\ Cardinality(1..n) = n
    BY <1>1, FS_Interval
  <2>3. f \in Surjection(1..n, S)
    BY <2>1, <2>2, FS_Injection DEF n
  <2> QED
    BY <2>3, <1>5 DEF Surjection, Range
<1>9. \A i, j \in DOMAIN f : f[i] = f[j] => i = j
  BY <1>5 DEF IsInjective
<1> QED
  BY <1>6, <1>7, <1>8, <1>9, SeqIsList

-----------------------------------------------------------------------------
(* What a list holds.                                                       *)

Holds(s, R) == s \in Seq(R) /\ Range(s) = R

\* Holds(s, R) for short sequences,
LEMMA Holding ==
    /\ Holds(<<>>, {})
    /\ \A a : Holds(<<a>>, {a})
    /\ \A a, b : Holds(<<a, b>>, {a, b})
    /\ \A a, b, c : Holds(<<a, b, c>>, {a, b, c})
    /\ \A a, b, c, d : Holds(<<a, b, c, d>>, {a, b, c, d})
  BY Tuples DEF Holds

\* for a concatenation of two,
LEMMA ConcatHolds ==
    \A s, t, R, T : Holds(s, R) /\ Holds(t, T) => Holds(s \o t, R \cup T)
<1> SUFFICES ASSUME NEW s, NEW t, NEW R, NEW T, Holds(s, R), Holds(t, T)
             PROVE  Holds(s \o t, R \cup T)
  OBVIOUS
<1>1. s \o t \in Seq(Range(s \o t)) /\ Range(s \o t) = Range(s) \cup Range(t)
  <2>1. s \in Seq(Range(s)) /\ t \in Seq(Range(t))
    BY DEF Holds
  <2> QED
    BY <2>1, ConcatLists
<1> QED
  BY <1>1 DEF Holds

\* The same for more of them.
LEMMA ConcatHolds3 ==
  ASSUME NEW s1, NEW s2, NEW s3, NEW R1, NEW R2, NEW R3, Holds(s1, R1), Holds(s2, R2),
         Holds(s3, R3)
  PROVE  Holds(s1 \o s2 \o s3,
               R1 \cup R2 \cup R3)
<1>1. Holds(s1 \o s2, R1 \cup R2)
  BY ConcatHolds
<1> QED
  BY <1>1, ConcatHolds

\* of five,
LEMMA ConcatHolds5 ==
  ASSUME NEW s1, NEW s2, NEW s3, NEW s4, NEW s5, NEW R1, NEW R2, NEW R3, NEW R4,
         NEW R5, Holds(s1, R1), Holds(s2, R2), Holds(s3, R3), Holds(s4, R4),
         Holds(s5, R5)
  PROVE  Holds(s1 \o s2 \o s3 \o s4 \o s5,
               R1 \cup R2 \cup R3 \cup R4 \cup R5)
<1>1. Holds(s1 \o s2, R1 \cup R2)
  BY ConcatHolds
<1>2. Holds(s1 \o s2 \o s3, R1 \cup R2 \cup R3)
  BY <1>1, ConcatHolds
<1>3. Holds(s1 \o s2 \o s3 \o s4, R1 \cup R2 \cup R3 \cup R4)
  BY <1>2, ConcatHolds
<1> QED
  BY <1>3, ConcatHolds

\* of six,
LEMMA ConcatHolds6 ==
  ASSUME NEW s1, NEW s2, NEW s3, NEW s4, NEW s5, NEW s6, NEW R1, NEW R2, NEW R3,
         NEW R4, NEW R5, NEW R6, Holds(s1, R1), Holds(s2, R2), Holds(s3, R3),
         Holds(s4, R4), Holds(s5, R5), Holds(s6, R6)
  PROVE  Holds(s1 \o s2 \o s3 \o s4 \o s5 \o s6,
               R1 \cup R2 \cup R3 \cup R4 \cup R5 \cup R6)
<1>1. Holds(s1 \o s2, R1 \cup R2)
  BY ConcatHolds
<1>2. Holds(s1 \o s2 \o s3, R1 \cup R2 \cup R3)
  BY <1>1, ConcatHolds
<1>3. Holds(s1 \o s2 \o s3 \o s4, R1 \cup R2 \cup R3 \cup R4)
  BY <1>2, ConcatHolds
<1>4. Holds(s1 \o s2 \o s3 \o s4 \o s5, R1 \cup R2 \cup R3 \cup R4 \cup R5)
  BY <1>3, ConcatHolds
<1> QED
  BY <1>4, ConcatHolds

\* and of FlattenSeq.
LEMMA FlattenHolds ==
  ASSUME NEW n \in Nat, NEW ss, ss = [i \in 1..n |-> ss[i]],
         NEW R, \A i \in 1..n : Holds(ss[i], R[i])
  PROVE  Holds(FlattenSeq(ss), UNION {R[i] : i \in 1..n})
<1>1. DOMAIN ss = 1..n /\ ss \in Seq(Range(ss))
  <2>1. DOMAIN ss = 1..n
    BY Zenon
  <2> QED
    BY <2>1, FunctionIsList
<1>2. \A i \in DOMAIN ss : ss[i] \in Seq(Range(ss[i])) /\ Range(ss[i]) = R[i]
  BY <1>1 DEF Holds
<1>3. /\ FlattenSeq(ss) \in Seq(Range(FlattenSeq(ss)))
      /\ Range(FlattenSeq(ss)) = UNION {Range(ss[i]) : i \in DOMAIN ss}
  BY <1>1, <1>2, FlattenLists
<1>4. UNION {Range(ss[i]) : i \in DOMAIN ss} = UNION {R[i] : i \in 1..n}
  BY <1>1, <1>2
<1> QED
  BY <1>3, <1>4 DEF Holds
-----------------------------------------------------------------------------
(* Where FlattenSeq puts what its sequences hold.                           *)

\* A sequence and an index into it, for the first k sequences.
IndexPairs(k, ss) == {p \in (1..k) \X Nat : p[2] \in DOMAIN ss[p[1]]}

\* f is the first k sequences one after the other: h tells which sequence, and which
\* of its elements, each element of f is.
Unfolds(f, k, ss, h) ==
    /\ h \in Bijection(DOMAIN f, IndexPairs(k, ss))
    /\ \A i \in DOMAIN f : f[i] = ss[h[i][1]][h[i][2]]

\* One more sequence.
LEMMA UnfoldsNext ==
  ASSUME NEW S, NEW f \in Seq(S), NEW k \in Nat, NEW ss, NEW h, Unfolds(f, k, ss, h),
         ss[k + 1] \in Seq(S)
  PROVE  \E g : Unfolds(f \o ss[k + 1], k + 1, ss, g)
<1> DEFINE t == ss[k + 1]
           m == Len(f)
           n == Len(t)
           u == f \o t
           g == [i \in 1..(m + n) |-> IF i \in 1..m THEN h[i] ELSE <<k + 1, i - m>>]
           A == IndexPairs(k, ss)
           B == IndexPairs(k + 1, ss)
<1>1. /\ m \in Nat /\ n \in Nat /\ DOMAIN f = 1..m /\ DOMAIN t = 1..n /\ DOMAIN u = 1..(m + n)
      /\ \A i \in 1..m : u[i] = f[i]
      /\ \A i \in (m + 1)..(m + n) : u[i] = t[i - m]
  OBVIOUS
<1>2. h \in [1..m -> A] /\ \A i, j \in 1..m : h[i] = h[j] => i = j
  BY <1>1, Fun_BijectionProperties DEF Unfolds
<1>3. \A p \in A : \E i \in 1..m : h[i] = p
  BY <1>1, Fun_BijectionProperties DEF Unfolds
<1>4. \A i \in 1..m : f[i] = ss[h[i][1]][h[i][2]]
  BY <1>1 DEF Unfolds
<1>5. \A p : p \in B <=> p \in A \/ \E j \in 1..n : p = <<k + 1, j>>
  <2>1. \A j : j \in DOMAIN ss[k + 1] <=> j \in 1..n
    BY <1>1
  <2>2. 1..(k + 1) = 1..k \cup {k + 1} /\ 1..n \subseteq Nat
    BY <1>1
  <2> HIDE DEF n
  <2> QED
    BY <2>1, <2>2 DEF IndexPairs
<1>6. \A p \in A : p[1] # k + 1
  BY DEF IndexPairs
<1> HIDE DEF m, n, u, A, B
<1>7. /\ \A i \in 1..m : g[i] = h[i]
      /\ \A i \in (m + 1)..(m + n) : g[i] = <<k + 1, i - m>> /\ i - m \in 1..n
      /\ \A i \in 1..(m + n) : i \in 1..m \/ i \in (m + 1)..(m + n)
      /\ DOMAIN g = 1..(m + n) /\ g = [i \in 1..(m + n) |-> g[i]]
  BY <1>1
<1> HIDE DEF g
<1>8. g \in [1..(m + n) -> B]
  <2>1. \A i \in 1..(m + n) : g[i] \in B
    BY <1>2, <1>5, <1>7
  <2> QED
    BY <2>1, <1>7
<1>9. ASSUME NEW i \in 1..(m + n), NEW j \in 1..(m + n), g[i] = g[j] PROVE i = j
  <2>1. CASE i \in 1..m /\ j \in 1..m
    BY <1>2, <1>7, <1>9, <2>1
  <2>2. CASE i \in (m + 1)..(m + n) /\ j \in (m + 1)..(m + n)
    <3>1. <<k + 1, i - m>> = <<k + 1, j - m>>
      BY <1>7, <1>9, <2>2
    <3>2. i - m = j - m
      BY <3>1
    <3> QED
      BY <1>1, <2>2, <3>2
  <2>3. CASE i \in 1..m /\ j \in (m + 1)..(m + n)
    <3>1. h[i] \in A /\ h[i] = <<k + 1, j - m>>
      BY <1>2, <1>7, <1>9, <2>3
    <3> QED
      BY <1>6, <3>1
  <2>4. CASE i \in (m + 1)..(m + n) /\ j \in 1..m
    <3>1. h[j] \in A /\ h[j] = <<k + 1, i - m>>
      BY <1>2, <1>7, <1>9, <2>4
    <3> QED
      BY <1>6, <3>1
  <2> QED
    BY <1>7, <2>1, <2>2, <2>3, <2>4
<1>10. ASSUME NEW p \in B PROVE \E i \in 1..(m + n) : g[i] = p
  <2>1. CASE p \in A
    <3>1. PICK i \in 1..m : h[i] = p
      BY <1>3, <2>1
    <3>2. i \in 1..(m + n)
      BY <1>1
    <3> QED
      BY <1>7, <3>1, <3>2
  <2>2. CASE \E j \in 1..n : p = <<k + 1, j>>
    <3>1. PICK j \in 1..n : p = <<k + 1, j>>
      BY <2>2
    <3>2. j + m \in (m + 1)..(m + n) /\ j + m \in 1..(m + n) /\ (j + m) - m = j
      BY <1>1
    <3> QED
      BY <1>7, <3>1, <3>2
  <2> QED
    BY <1>5, <2>1, <2>2
<1>11. ASSUME NEW i \in 1..(m + n) PROVE u[i] = ss[g[i][1]][g[i][2]]
  <2>1. CASE i \in 1..m
    BY <1>1, <1>4, <1>7, <2>1
  <2>2. CASE i \in (m + 1)..(m + n)
    <3>0. g[i] = <<k + 1, i - m>>
      BY <1>7, <2>2
    <3>1. g[i][1] = k + 1 /\ g[i][2] = i - m
      BY <3>0
    <3> QED
      BY <1>1, <2>2, <3>1
  <2> QED
    BY <1>7, <2>1, <2>2
<1>12. g \in Bijection(1..(m + n), B)
  BY <1>8, <1>9, <1>10, Fun_IsBij
<1>13. DOMAIN u = 1..(m + n)
  BY <1>1
<1>14. Unfolds(u, k + 1, ss, g)
  BY <1>11, <1>12, <1>13 DEF Unfolds, B
<1> QED
  BY <1>14 DEF u

\* FlattenSeq is its sequences one after the other.
LEMMA FlattenIndices ==
  ASSUME NEW n \in Nat, NEW ss, ss = [i \in 1..n |-> ss[i]],
         \A i \in 1..n : ss[i] \in Seq(Range(ss[i]))
  PROVE  \E h : Unfolds(FlattenSeq(ss), n, ss, h)
<1> DEFINE S == UNION {Range(ss[i]) : i \in 1..n}
<1>1. \A i \in 1..n : ss[i] \in Seq(S)
  <2>1. \A i \in 1..n : Range(ss[i]) \subseteq S
    OBVIOUS
  <2> HIDE DEF S
  <2> QED
    BY <2>1
<1> HIDE DEF S
<1>2. DOMAIN ss = 1..n
  BY Zenon
<1>3. ss \in Seq(Seq(S)) /\ Len(ss) = n
  <2>1. [i \in 1..n |-> ss[i]] \in [1..n -> Seq(S)]
    BY <1>1
  <2> QED
    BY <2>1
<1>4. CASE n = 0
  <2>1. ss = <<>> /\ FlattenSeq(ss) = <<>>
    BY <1>3, <1>4 DEF FlattenSeq
  <2>2. IndexPairs(0, ss) = {}
    BY DEF IndexPairs
  <2>3. <<>> \in Bijection({}, {})
    <3>1. <<>> \in [{} -> {}]
      BY EmptyRange
    <3> QED
      BY <3>1, Fun_IsBij
  <2> QED
    BY <1>4, <2>1, <2>2, <2>3, EmptyRange DEF Unfolds
<1>5. CASE n # 0
  <2> DEFINE g == CHOOSE f : Flattens(f, ss, n)
  <2>1. FlattenSeq(ss) = g[n]
    BY <1>3, <1>5 DEF FlattenSeq, Flattens
  <2>2. Flattens(g, ss, n)
    BY <1>3, <1>5, FlattenExists
  <2> HIDE DEF g
  <2>3. \A i \in 1..n : g[i] = IF i = 1 THEN ss[i] ELSE g[i - 1] \o ss[i]
    BY <2>2, Zenon DEF Flattens
  <2> DEFINE Good == {k \in 0..n : k # 0 => g[k] \in Seq(S) /\ \E h : Unfolds(g[k], k, ss, h)}
  <2>4. 0 \in Good
    BY <1>5
  <2>5. ASSUME NEW k \in 0..(n - 1), k \in Good PROVE k + 1 \in Good
    <3>1. k + 1 \in 1..n /\ k + 1 \in 0..n /\ k \in Nat /\ ss[k + 1] \in Seq(S)
      BY <1>1
    <3>2. CASE k = 0
      <4>1. g[1] = ss[1] /\ ss[1] \in Seq(S)
        BY <2>3, <3>1, <3>2
      <4>2. Unfolds(<<>>, 0, ss, <<>>)
        <5>1. IndexPairs(0, ss) = {}
          BY DEF IndexPairs
        <5>2. <<>> \in Bijection({}, {})
          <6>1. <<>> \in [{} -> {}]
            BY EmptyRange
          <6> QED
            BY <6>1, Fun_IsBij
        <5> QED
          BY <5>1, <5>2, EmptyRange DEF Unfolds
      <4>3. PICK h : Unfolds(<<>> \o ss[0 + 1], 0 + 1, ss, h)
        <5>1. <<>> \in Seq(S) /\ 0 \in Nat /\ ss[0 + 1] \in Seq(S)
          BY <4>1
        <5> QED
          BY <4>2, <5>1, UnfoldsNext
      <4>4. <<>> \o ss[0 + 1] = ss[1]
        BY <4>1
      <4>5. Unfolds(g[1], 1, ss, h)
        BY <4>1, <4>3, <4>4
      <4>6. k + 1 = 1 /\ 1 \in 0..n
        BY <3>1, <3>2
      <4>7. g[k + 1] \in Seq(S) /\ \E f : Unfolds(g[k + 1], k + 1, ss, f)
        BY <4>1, <4>5, <4>6
      <4> QED
        BY <3>1, <4>7
    <3>3. CASE k # 0
      <4>1. g[k + 1] = g[k] \o ss[k + 1]
        <5>1. k + 1 # 1 /\ (k + 1) - 1 = k
          BY <3>1, <3>3
        <5> QED
          BY <2>3, <3>1, <5>1
      <4>2. g[k] \in Seq(S) /\ \E h : Unfolds(g[k], k, ss, h)
        BY <2>5, <3>3
      <4>3. g[k + 1] \in Seq(S)
        BY <3>1, <4>1, <4>2
      <4>4. \E h : Unfolds(g[k + 1], k + 1, ss, h)
        <5>1. PICK h : Unfolds(g[k], k, ss, h)
          BY <4>2
        <5>2. \E f : Unfolds(g[k] \o ss[k + 1], k + 1, ss, f)
          BY <3>1, <4>2, <5>1, UnfoldsNext
        <5> QED
          BY <4>1, <5>2
      <4> QED
        BY <3>1, <4>3, <4>4
    <3> QED
      BY <3>2, <3>3
  <2>6. \A k \in 0..n : k \in Good
    <3> HIDE DEF Good
    <3> QED
      BY <2>4, <2>5, UpTo
  <2>7. n \in Good
    <3> HIDE DEF Good
    <3> QED
      BY <2>6
  <2>8. \E h : Unfolds(g[n], n, ss, h)
    BY <1>5, <2>7
  <2> QED
    BY <2>1, <2>8
<1> QED
  BY <1>4, <1>5
=============================================================================
