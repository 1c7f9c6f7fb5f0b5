---------------------------- MODULE SequenceLemmas -----------------------------
(* What the proofs need of numbers and sequences and the library does not      *)
(* have: induction, as a fact about sets, and FlattenSeq, piece by piece.      *)
EXTENDS Integers, SequencesExt, SequenceTheorems, WellFoundedInduction, TLAPS

--------------------------------------------------------------------------------
(* Induction.                                                                  *)

LessThan == {p \in Nat \X Nat : p[1] < p[2]}

LEMMA LessThanIsWellFounded == IsWellFoundedOn(LessThan, Nat)
BY NatLessThanWellFounded DEF OpToRel, LessThan

(* A set of numbers that is not empty has a least element.                     *)
LEMMA LeastNumber ==
  ASSUME NEW T, T \subseteq Nat, T # {}
  PROVE  \E x \in T : \A y \in T : x <= y
<1>1. PICK x \in T : \A y \in T : ~(<<y, x>> \in LessThan)
  BY LessThanIsWellFounded, WFMin
<1>2. ASSUME NEW y \in T, ~(x <= y) PROVE FALSE
  <2>1. x \in Nat /\ y \in Nat /\ y < x
    BY <1>2
  <2>2. <<y, x>> \in LessThan
    BY <2>1 DEF LessThan
  <2> QED
    BY <1>1, <2>2
<1> QED
  BY <1>2

(* A set with 0 that is closed under adding 1 holds all numbers.               *)
LEMMA Induction ==
  ASSUME NEW S, 0 \in S, \A n \in Nat : n \in S => n + 1 \in S
  PROVE  \A n \in Nat : n \in S
<1> SUFFICES ASSUME ~(\A n \in Nat : n \in S) PROVE FALSE
  OBVIOUS
<1> DEFINE T == Nat \ S
<1>1. T \subseteq Nat /\ T # {}
  OBVIOUS
<1>2. PICK x \in T : \A y \in T : x <= y
  BY <1>1, LeastNumber
<1>3. x \in Nat /\ x \notin S /\ x # 0
  BY <1>2
<1>4. x - 1 \in Nat /\ x - 1 \notin S
  BY <1>3
<1> QED
  BY <1>2, <1>3, <1>4
--------------------------------------------------------------------------------
(* FlattenSeq.                                                                 *)

(* f computes the concatenations of the first sequences of s.                  *)
Flattens(f, s) ==
  f = [i \in 1 .. Len(s) |-> IF i = 1 THEN s[i] ELSE f[i - 1] \o s[i]]

LEMMA FlattenExists ==
  ASSUME NEW s, Len(s) \in Nat \ {0}
  PROVE  \E f : Flattens(f, s) /\ FlattenSeq(s) = f[Len(s)]
<1> DEFINE n == Len(s)
           step(f, i) == IF i = 1 THEN s[i] ELSE f[i - 1] \o s[i]
           flatten == CHOOSE f : f = [i \in 1 .. n |-> step(f, i)]
<1>1. n \in Nat \ {0}
  OBVIOUS
<1>2. FlattenSeq(s) = flatten[n]
  BY <1>1, Zenon DEF FlattenSeq
<1>3. \E f : f = [i \in 1 .. n |-> step(f, i)]
  <2> DEFINE upTo(k) == \E f : f = [i \in 1 .. k |-> step(f, i)]
             S == {k \in Nat : upTo(k)}
  <2>1. upTo(0)
    <3>1. [i \in 1 .. 0 |-> 0] = [i \in 1 .. 0 |-> step([j \in 1 .. 0 |-> 0], i)]
      OBVIOUS
    <3> QED
      BY <3>1
  <2>2. ASSUME NEW k \in Nat, upTo(k) PROVE upTo(k + 1)
    <3>1. PICK f : f = [i \in 1 .. k |-> step(f, i)]
      BY <2>2
    <3> DEFINE g == [i \in 1 .. k + 1 |-> IF i = k + 1 THEN step(f, k + 1) ELSE f[i]]
    <3>2. ASSUME NEW i \in 1 .. k + 1 PROVE g[i] = step(g, i)
      <4>1. i # 1 => i - 1 \in 1 .. k /\ g[i - 1] = f[i - 1]
        OBVIOUS
      <4>2. CASE i = k + 1
        BY <4>1, <4>2
      <4>3. CASE i # k + 1
        <5>1. g[i] = f[i] /\ i \in 1 .. k
          BY <4>3
        <5> QED
          BY <3>1, <4>1, <5>1
      <4> QED
        BY <4>2, <4>3
    <3>3. g = [i \in 1 .. k + 1 |-> step(g, i)]
      BY <3>2
    <3> QED
      BY <3>3
  <2> HIDE DEF upTo, n
  <2>3. 0 \in S /\ \A k \in Nat : k \in S => k + 1 \in S
    BY <2>1, <2>2
  <2> HIDE DEF S
  <2>4. \A k \in Nat : k \in S
    BY <2>3, Induction
  <2>5. upTo(n)
    BY <1>1, <2>4 DEF S
  <2> QED
    BY <2>5 DEF upTo
<1>4. flatten = [i \in 1 .. n |-> step(flatten, i)]
  BY <1>3
<1>5. Flattens(flatten, s)
  BY <1>4 DEF Flattens
<1> QED
  BY <1>2, <1>5

LEMMA FlattenEmpty == FlattenSeq(<<>>) = <<>>
BY EmptySeq DEF FlattenSeq

LEMMA FlattenType ==
  ASSUME NEW S, NEW s \in Seq(Seq(S))
  PROVE  FlattenSeq(s) \in Seq(S)
<1> DEFINE n == Len(s)
<1>1. n \in Nat
  BY LenProperties
<1>2. CASE n = 0
  <2>1. s = <<>>
    BY <1>2, EmptySeq
  <2> QED
    BY <2>1, FlattenEmpty, EmptySeq
<1>3. CASE n # 0
  <2>1. PICK f : Flattens(f, s) /\ FlattenSeq(s) = f[n]
    BY <1>1, <1>3, FlattenExists
  <2>2. \A i \in 1 .. n : s[i] \in Seq(S)
    BY ElementOfSeq
  <2>3. f = [i \in 1 .. n |-> IF i = 1 THEN s[i] ELSE f[i - 1] \o s[i]]
    BY <2>1 DEF Flattens
  <2> DEFINE K == {k \in Nat : k \in 1 .. n => f[k] \in Seq(S)}
  <2> HIDE DEF n
  <2>4. 0 \in K
    OBVIOUS
  <2>5. ASSUME NEW k \in Nat, k \in K PROVE k + 1 \in K
    <3> SUFFICES ASSUME k + 1 \in 1 .. n PROVE f[k + 1] \in Seq(S)
      OBVIOUS
    <3>1. CASE k = 0
      BY <2>2, <2>3, <3>1
    <3>2. CASE k # 0
      <4>1. k \in 1 .. n /\ f[k] \in Seq(S) /\ s[k + 1] \in Seq(S)
        BY <1>1, <2>2, <2>5, <3>2
      <4>2. f[k + 1] = f[k] \o s[k + 1]
        <5>1. k + 1 # 1 /\ (k + 1) - 1 = k /\ k + 1 \in 1 .. n
          BY <3>2
        <5>2. f[k + 1] = IF k + 1 = 1 THEN s[k + 1] ELSE f[(k + 1) - 1] \o s[k + 1]
          BY <2>3, <5>1
        <5> QED
          BY <5>1, <5>2
      <4> QED
        BY <4>1, <4>2, ConcatProperties
    <3> QED
      BY <3>1, <3>2
  <2> HIDE DEF K
  <2>6. n \in K
    BY <1>1, <2>4, <2>5, Induction
  <2> QED
    BY <1>1, <1>3, <2>1, <2>6 DEF K
<1> QED
  BY <1>2, <1>3

(* What f computes for s, one sequence after the other.                        *)
LEMMA FlattensStep ==
  ASSUME NEW s, NEW f, Flattens(f, s), Len(s) \in Nat
  PROVE  /\ Len(s) >= 1 => f[1] = s[1]
         /\ \A k \in 1 .. Len(s) - 1 : f[k + 1] = f[k] \o s[k + 1]
<1>1. f = [i \in 1 .. Len(s) |-> IF i = 1 THEN s[i] ELSE f[i - 1] \o s[i]]
  BY DEF Flattens
<1>2. Len(s) >= 1 => f[1] = s[1]
  BY <1>1
<1>3. ASSUME NEW k \in 1 .. Len(s) - 1 PROVE f[k + 1] = f[k] \o s[k + 1]
  <2>1. k + 1 # 1 /\ (k + 1) - 1 = k /\ k + 1 \in 1 .. Len(s)
    OBVIOUS
  <2>2. f[k + 1] = IF k + 1 = 1 THEN s[k + 1] ELSE f[(k + 1) - 1] \o s[k + 1]
    BY <1>1, <2>1
  <2> QED
    BY <2>1, <2>2
<1> QED
  BY <1>2, <1>3

LEMMA FlattenAppend ==
  ASSUME NEW S, NEW s \in Seq(Seq(S)), NEW x \in Seq(S)
  PROVE  FlattenSeq(Append(s, x)) = FlattenSeq(s) \o x
<1> DEFINE T == Seq(S)
           n == Len(s)
           t == Append(s, x)
<1>1. n \in Nat /\ s \in Seq(T) /\ x \in T
  BY LenProperties
<1> HIDE DEF T
<1>2. Len(t) = n + 1 /\ (\A i \in 1 .. n : t[i] = s[i]) /\ t[n + 1] = x
  BY <1>1, AppendProperties
<1> HIDE DEF t
<1>3. PICK g : Flattens(g, t) /\ FlattenSeq(t) = g[n + 1]
  BY <1>1, <1>2, FlattenExists
<1>4. /\ g[1] = t[1]
      /\ \A k \in 1 .. n : g[k + 1] = g[k] \o t[k + 1]
  <2>1. Len(t) \in Nat /\ Len(t) >= 1 /\ Len(t) - 1 = n
    BY <1>1, <1>2
  <2>2. /\ Len(t) >= 1 => g[1] = t[1]
        /\ \A k \in 1 .. Len(t) - 1 : g[k + 1] = g[k] \o t[k + 1]
    BY <1>3, <2>1, FlattensStep
  <2> QED
    BY <2>1, <2>2
<1>5. CASE n = 0
  <2>1. s = <<>>
    BY <1>1, <1>5, EmptySeq
  <2>2. <<>> \o x = x
    BY ConcatEmptySeq
  <2> QED
    BY <1>2, <1>3, <1>4, <1>5, <2>1, <2>2, FlattenEmpty DEF t
<1>6. CASE n # 0
  <2>1. PICK f : Flattens(f, s) /\ FlattenSeq(s) = f[n]
    BY <1>1, <1>6, FlattenExists
  <2>2. f[1] = s[1] /\ \A k \in 1 .. n - 1 : f[k + 1] = f[k] \o s[k + 1]
    <3>1. Len(s) \in Nat /\ Len(s) >= 1
      BY <1>1, <1>6
    <3>2. /\ Len(s) >= 1 => f[1] = s[1]
          /\ \A k \in 1 .. Len(s) - 1 : f[k + 1] = f[k] \o s[k + 1]
      BY <2>1, <3>1, FlattensStep
    <3> QED
      BY <3>1, <3>2
  <2> DEFINE same(k) == k + 1 <= n => g[k + 1] = f[k + 1]
             K == {k \in Nat : same(k)}
  <2> HIDE DEF n
  <2>3. same(0)
    <3>1. g[1] = f[1]
      <4>1. 1 \in 1 .. n
        BY <1>1, <1>6
      <4> QED
        BY <1>2, <1>4, <2>2, <4>1
    <3>2. 0 + 1 = 1
      OBVIOUS
    <3> QED
      BY <3>1, <3>2
  <2>4. ASSUME NEW k \in Nat, same(k) PROVE same(k + 1)
    <3> SUFFICES ASSUME (k + 1) + 1 <= n PROVE g[(k + 1) + 1] = f[(k + 1) + 1]
      OBVIOUS
    <3>1. k + 1 \in 1 .. n - 1 /\ k + 1 \in 1 .. n /\ (k + 1) + 1 \in 1 .. n /\ k + 1 <= n
      BY <1>1
    <3>2. g[k + 1] = f[k + 1] /\ t[(k + 1) + 1] = s[(k + 1) + 1]
      BY <1>2, <2>4, <3>1
    <3>3. g[(k + 1) + 1] = g[k + 1] \o t[(k + 1) + 1]
      BY <1>4, <3>1
    <3>4. f[(k + 1) + 1] = f[k + 1] \o s[(k + 1) + 1]
      BY <2>2, <3>1
    <3> QED
      BY <3>2, <3>3, <3>4
  <2> HIDE DEF same
  <2>5. 0 \in K /\ \A k \in Nat : k \in K => k + 1 \in K
    BY <2>3, <2>4
  <2> HIDE DEF K
  <2>6. \A k \in Nat : k \in K
    BY <2>5, Induction
  <2>7. n - 1 \in Nat /\ (n - 1) + 1 = n /\ n \in 1 .. n
    BY <1>1, <1>6
  <2>8. same(n - 1)
    BY <2>6, <2>7 DEF K
  <2>9. g[n] = f[n]
    <3>1. (n - 1) + 1 <= n => g[(n - 1) + 1] = f[(n - 1) + 1]
      BY <2>8 DEF same
    <3> QED
      BY <1>1, <2>7, <3>1
  <2>10. g[n + 1] = g[n] \o t[n + 1]
    BY <1>4, <2>7
  <2> QED
    BY <1>2, <1>3, <2>1, <2>9, <2>10 DEF t
<1> QED
  BY <1>5, <1>6

LEMMA FlattenTail ==
  ASSUME NEW S, NEW s \in Seq(Seq(S)), s # <<>>
  PROVE  FlattenSeq(s) = Head(s) \o FlattenSeq(Tail(s))
<1> DEFINE T == Seq(S)
           n == Len(s)
           t == Tail(s)
<1>1. n \in Nat \ {0} /\ Head(s) = s[1]
  BY LenProperties, EmptySeq
<1>2. \A i \in 1 .. n : s[i] \in Seq(S)
  BY ElementOfSeq
<1>3. t \in Seq(T) /\ Len(t) = n - 1 /\ \A i \in 1 .. n - 1 : t[i] = s[i + 1]
  <2>1. s \in Seq(T)
    OBVIOUS
  <2> HIDE DEF T
  <2> QED
    BY <2>1, HeadTailProperties
<1> HIDE DEF t
<1>4. PICK f : Flattens(f, s) /\ FlattenSeq(s) = f[n]
  BY <1>1, FlattenExists
<1>5. f[1] = s[1] /\ \A k \in 1 .. n - 1 : f[k + 1] = f[k] \o s[k + 1]
  <2>1. Len(s) \in Nat /\ Len(s) >= 1
    BY <1>1
  <2>2. /\ Len(s) >= 1 => f[1] = s[1]
        /\ \A k \in 1 .. Len(s) - 1 : f[k + 1] = f[k] \o s[k + 1]
    BY <1>4, <2>1, FlattensStep
  <2> QED
    BY <2>1, <2>2
<1>6. s[1] \in Seq(S)
  BY <1>1, <1>2
<1>7. CASE n = 1
  <2>1. t = <<>>
    BY <1>3, <1>7, EmptySeq
  <2>2. s[1] \o <<>> = s[1]
    BY <1>6, ConcatEmptySeq
  <2> QED
    BY <1>1, <1>4, <1>5, <1>7, <2>1, <2>2, FlattenEmpty DEF t
<1>8. CASE n # 1
  <2>1. Len(t) \in Nat \ {0}
    BY <1>1, <1>3, <1>8
  <2>2. PICK g : Flattens(g, t) /\ FlattenSeq(t) = g[n - 1]
    BY <1>3, <2>1, FlattenExists
  <2>3. g[1] = t[1] /\ \A k \in 1 .. n - 2 : g[k + 1] = g[k] \o t[k + 1]
    <3>1. /\ Len(t) >= 1 => g[1] = t[1]
          /\ \A k \in 1 .. Len(t) - 1 : g[k + 1] = g[k] \o t[k + 1]
      BY <2>1, <2>2, FlattensStep
    <3>2. Len(t) >= 1 /\ Len(t) - 1 = n - 2
      BY <1>1, <1>3, <2>1
    <3> QED
      BY <3>1, <3>2
  <2> DEFINE joint(k) == k + 2 <= n => g[k + 1] \in Seq(S) /\ f[k + 2] = s[1] \o g[k + 1]
             K == {k \in Nat : joint(k)}
  <2> HIDE DEF n
  <2>4. joint(0)
    <3>1. 0 + 2 = 2 /\ 0 + 1 = 1 /\ 1 + 1 = 2
      OBVIOUS
    <3>2. 1 \in 1 .. n - 1 /\ 2 \in 1 .. n
      BY <1>1, <1>8
    <3>3. t[1] = s[1 + 1] /\ f[1 + 1] = f[1] \o s[1 + 1]
      BY <1>3, <1>5, <3>2
    <3>4. g[1] = s[2] /\ f[2] = s[1] \o s[2]
      BY <1>5, <2>3, <3>1, <3>3
    <3>5. g[1] \in Seq(S) /\ f[2] = s[1] \o g[1]
      BY <1>2, <3>2, <3>4
    <3> QED
      BY <3>1, <3>5
  <2>5. ASSUME NEW k \in Nat, joint(k) PROVE joint(k + 1)
    <3> SUFFICES ASSUME (k + 1) + 2 <= n
                 PROVE  g[(k + 1) + 1] \in Seq(S) /\ f[(k + 1) + 2] = s[1] \o g[(k + 1) + 1]
      OBVIOUS
    <3>1. /\ k + 1 \in 1 .. n - 2 /\ k + 2 \in 1 .. n - 1 /\ k + 3 \in 1 .. n /\ k + 2 <= n
          /\ (k + 1) + 1 = k + 2 /\ (k + 1) + 2 = k + 3 /\ (k + 2) + 1 = k + 3
      BY <1>1
    <3>2. g[k + 1] \in Seq(S) /\ f[k + 2] = s[1] \o g[k + 1]
      BY <2>5, <3>1
    <3>3. g[k + 2] = g[k + 1] \o s[k + 3]
      <4>1. g[(k + 1) + 1] = g[k + 1] \o t[(k + 1) + 1]
        BY <2>3, <3>1
      <4>2. t[k + 2] = s[(k + 2) + 1]
        BY <1>3, <3>1
      <4> QED
        BY <3>1, <4>1, <4>2
    <3>4. f[k + 3] = f[k + 2] \o s[k + 3]
      <4>1. f[(k + 2) + 1] = f[k + 2] \o s[(k + 2) + 1]
        BY <1>5, <3>1
      <4> QED
        BY <3>1, <4>1
    <3>5. s[k + 3] \in Seq(S)
      BY <1>2, <3>1
    <3>6. (s[1] \o g[k + 1]) \o s[k + 3] = s[1] \o (g[k + 1] \o s[k + 3])
      <4>1. ASSUME NEW a \in Seq(S), NEW b \in Seq(S), NEW c \in Seq(S)
            PROVE  (a \o b) \o c = a \o (b \o c)
        BY ConcatAssociative, SMTT(30)
      <4> QED
        BY <1>6, <3>2, <3>5, <4>1
    <3>7. g[k + 1] \o s[k + 3] \in Seq(S)
      BY <3>2, <3>5, ConcatProperties
    <3> QED
      BY <3>1, <3>2, <3>3, <3>4, <3>6, <3>7
  <2> HIDE DEF joint
  <2>6. 0 \in K /\ \A k \in Nat : k \in K => k + 1 \in K
    BY <2>4, <2>5
  <2> HIDE DEF K
  <2>7. \A k \in Nat : k \in K
    BY <2>6, Induction
  <2>8. n - 2 \in Nat /\ (n - 2) + 2 = n /\ (n - 2) + 1 = n - 1 /\ n <= n
    BY <1>1, <1>8
  <2>9. joint(n - 2)
    BY <2>7, <2>8 DEF K
  <2>10. f[n] = s[1] \o g[n - 1]
    <3>1. (n - 2) + 2 <= n => f[(n - 2) + 2] = s[1] \o g[(n - 2) + 1]
      BY <2>9 DEF joint
    <3> QED
      BY <2>8, <3>1
  <2> QED
    BY <1>1, <1>4, <2>2, <2>10 DEF t
<1> QED
  BY <1>7, <1>8

(* A sequence is its first items and the others.                               *)
LEMMA SplitFits ==
  ASSUME NEW S, NEW s \in Seq(S), NEW n \in Nat, n <= Len(s)
  PROVE  s = SubSeq(s, 1, n) \o SubSeq(s, n + 1, Len(s))
<1> DEFINE m == Len(s)
           a == SubSeq(s, 1, n)
           b == SubSeq(s, n + 1, m)
<1>1. m \in Nat /\ \A i \in 1 .. m : s[i] \in S
  BY LenProperties, ElementOfSeq
<1>2. a \in Seq(S) /\ Len(a) = n /\ \A i \in 1 .. n : a[i] = s[i]
  <2>1. \A i \in 1 .. n : s[i] \in S
    BY <1>1
  <2>2. /\ a \in Seq(S) /\ Len(a) = IF 1 <= n THEN n - 1 + 1 ELSE 0
        /\ \A i \in 1 .. n - 1 + 1 : a[i] = s[1 + i - 1]
    BY <2>1, SubSeqProperties
  <2>3. n - 1 + 1 = n /\ \A i \in 1 .. n : 1 + i - 1 = i
    OBVIOUS
  <2> HIDE DEF a
  <2> QED
    BY <2>2, <2>3
<1>3. b \in Seq(S) /\ Len(b) = m - n /\ \A i \in 1 .. m - n : b[i] = s[n + i]
  <2>1. \A i \in n + 1 .. m : s[i] \in S
    BY <1>1
  <2>2. /\ b \in Seq(S) /\ Len(b) = IF n + 1 <= m THEN m - (n + 1) + 1 ELSE 0
        /\ \A i \in 1 .. m - (n + 1) + 1 : b[i] = s[(n + 1) + i - 1]
    BY <1>1, <2>1, SubSeqProperties
  <2>3. m - (n + 1) + 1 = m - n /\ \A i \in 1 .. m - n : (n + 1) + i - 1 = n + i
    BY <1>1
  <2>4. n <= m
    OBVIOUS
  <2> HIDE DEF b, m
  <2>5. Len(b) = m - n
    BY <1>1, <2>2, <2>4
  <2> QED
    BY <2>2, <2>3, <2>5
<1> HIDE DEF a, b
<1>4. /\ a \o b \in Seq(S) /\ Len(a \o b) = m
      /\ \A i \in 1 .. m : (a \o b)[i] = IF i <= n THEN a[i] ELSE b[i - n]
  <2>1. /\ a \o b \in Seq(S) /\ Len(a \o b) = Len(a) + Len(b)
        /\ \A i \in 1 .. Len(a) + Len(b) :
             (a \o b)[i] = IF i <= Len(a) THEN a[i] ELSE b[i - Len(a)]
    BY <1>2, <1>3, ConcatProperties
  <2>2. Len(a) + Len(b) = m
    BY <1>1, <1>2, <1>3
  <2> QED
    BY <1>2, <2>1, <2>2
<1>5. ASSUME NEW i \in 1 .. m PROVE (a \o b)[i] = s[i]
  <2>1. CASE i <= n
    BY <1>2, <1>4, <2>1
  <2>2. CASE ~(i <= n)
    <3>1. i - n \in 1 .. m - n /\ n + (i - n) = i
      BY <1>1, <2>2
    <3>2. b[i - n] = s[i]
      BY <1>3, <3>1
    <3> QED
      BY <1>4, <2>2, <3>2
  <2> QED
    BY <2>1, <2>2
<1>6. s = a \o b
  BY <1>4, <1>5, SeqEqual
<1> QED
  BY <1>6 DEF a, b, m

================================================================================
