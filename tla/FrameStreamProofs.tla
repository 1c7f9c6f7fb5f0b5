--------------------------- MODULE FrameStreamProofs ---------------------------
(* What follows from the format of the frames (NetBase, FrameStream) for every *)
(* stream: the length in a header is a number, what is known of a position     *)
(* stays so when bytes arrive, and Frames computes what a scan of the stream   *)
(* from its first byte on finds.                                               *)
EXTENDS FrameStream, NetBaseProofs

--------------------------------------------------------------------------------
(* The length in a header.                                                     *)

LEMMA IntAtIsInt ==
  ASSUME NEW c, NEW offset \in Nat,
         \A i \in offset + 1 .. offset + IntLen : c[i] \in Byte
  PROVE  IntAt(c, offset) \in Int
<1> DEFINE part == SubSeq(c, offset + 1, offset + IntLen)
<1>1. IntLen \in Nat \ {0} /\ ByteBase \in Nat /\ Byte \subseteq Int
  BY NetBaseAssumption DEF Byte
<1>2. part \in Seq(Byte)
  BY <1>1, SubSeqProperties
<1> HIDE DEF part
<1>3. Len(part) \in Nat /\ \A i \in 1 .. Len(part) : part[i] \in Byte
  BY <1>2, LenProperties, ElementOfSeq
<1>5. htonl(part) \in Seq(Byte)
  BY <1>2, HtonlTwice
<1>6. Unsigned(htonl(part)) \in Int
  <2>1. /\ Len(htonl(part)) \in Nat
        /\ \A i \in 1 .. Len(htonl(part)) : htonl(part)[i] \in Int
    BY <1>1, <1>5, LenProperties, ElementOfSeq
  <2> QED
    BY <2>1, UnsignedIsInt
<1>7. IntMod \in Int
  BY IntModFits
<1> QED
  BY <1>6, <1>7 DEF IntAt, CharToInt32, Signed, part

LEMMA HeadLenIsNat == HeadLen \in Nat /\ HeadLen >= 6
BY NetBaseAssumption DEF HeadLen

(* The length in a header of bytes is a number.                                *)
LEMMA DatalenIsInt ==
  ASSUME NEW c \in Seq(Byte), Len(c) = HeadLen
  PROVE  CharToNetPacket(c).datalen \in Int
<1>1. \A i \in 1 .. HeadLen : c[i] \in Byte
  BY ElementOfSeq
<1>2. AtDatalen \in Nat /\ \A i \in AtDatalen + 1 .. AtDatalen + IntLen : i \in 1 .. HeadLen
  BY NetBaseAssumption DEF AtDatalen, AtType, AtCheck, HeadLen
<1>3. IntAt(c, AtDatalen) \in Int
  BY <1>1, <1>2, IntAtIsInt
<1> QED
  BY <1>3 DEF CharToNetPacket

--------------------------------------------------------------------------------
(* What is known of a position does not change when bytes arrive.              *)

(* The header behind p.                                                        *)
LEMMA HeaderBytes ==
  ASSUME NEW s \in Seq(Byte), NEW p \in Nat, p + HeadLen <= Len(s)
  PROVE  /\ SubSeq(s, p + 1, p + HeadLen) \in Seq(Byte)
         /\ Len(SubSeq(s, p + 1, p + HeadLen)) = HeadLen
         /\ \A i \in 1 .. HeadLen : SubSeq(s, p + 1, p + HeadLen)[i] = s[p + i]
         /\ HeaderAt(s, p).datalen \in Int
<1> DEFINE bytes == SubSeq(s, p + 1, p + HeadLen)
<1>1. HeadLen \in Nat /\ HeadLen >= 6 /\ Len(s) \in Nat
  BY HeadLenIsNat, LenProperties
<1>2. \A i \in p + 1 .. p + HeadLen : s[i] \in Byte
  <2>1. \A i \in p + 1 .. p + HeadLen : i \in 1 .. Len(s)
    BY <1>1
  <2> QED
    BY <2>1, ElementOfSeq
<1>3. /\ bytes \in Seq(Byte)
      /\ Len(bytes) = IF p + 1 <= p + HeadLen THEN (p + HeadLen) - (p + 1) + 1 ELSE 0
      /\ \A i \in 1 .. (p + HeadLen) - (p + 1) + 1 : bytes[i] = s[(p + 1) + i - 1]
  BY <1>1, <1>2, SubSeqProperties
<1>4. /\ (p + HeadLen) - (p + 1) + 1 = HeadLen
      /\ \A i \in 1 .. HeadLen : (p + 1) + i - 1 = p + i
  BY <1>1
<1>5. Len(bytes) = HeadLen /\ \A i \in 1 .. HeadLen : bytes[i] = s[p + i]
  <2> HIDE DEF bytes
  <2> QED
    BY <1>1, <1>3, <1>4
<1>6. HeaderAt(s, p).datalen \in Int
  BY <1>3, <1>5, DatalenIsInt DEF HeaderAt
<1> QED
  BY <1>3, <1>5, <1>6

LEMMA HeaderStays ==
  ASSUME NEW s \in Seq(Byte), NEW t \in Seq(Byte), Extends(t, s),
         NEW p \in Nat, p + HeadLen <= Len(s)
  PROVE  HeaderAt(t, p) = HeaderAt(s, p)
<1>1. HeadLen \in Nat /\ Len(s) \in Nat /\ Len(t) \in Nat /\ p + HeadLen <= Len(t)
  BY HeadLenIsNat, LenProperties DEF Extends
<1> DEFINE a == SubSeq(s, p + 1, p + HeadLen)
           b == SubSeq(t, p + 1, p + HeadLen)
<1>2. a \in Seq(Byte) /\ Len(a) = HeadLen /\ \A i \in 1 .. HeadLen : a[i] = s[p + i]
  BY HeaderBytes
<1>3. b \in Seq(Byte) /\ Len(b) = HeadLen /\ \A i \in 1 .. HeadLen : b[i] = t[p + i]
  BY <1>1, HeaderBytes
<1>4. \A i \in 1 .. HeadLen : s[p + i] = t[p + i]
  BY <1>1 DEF Extends
<1> HIDE DEF a, b
<1>5. a = b
  BY <1>1, <1>2, <1>3, <1>4, SeqEqual
<1> QED
  BY <1>5 DEF HeaderAt, a, b

(* No frame starts at q, whatever follows.                                     *)
Dead(s, q) ==
  \/ s[q] # HEAD
  \/ q + HeadLen <= Len(s) /\ ~Valid(HeaderAt(s, q))
  \/ /\ q + HeadLen <= Len(s) /\ Valid(HeaderAt(s, q))
     /\ TailOf(s, q) <= Len(s) /\ s[TailOf(s, q)] # TAIL

(* Where the data of a frame or of what may become one ends.                   *)
LEMMA TailIsBehind ==
  ASSUME NEW s \in Seq(Byte), NEW p \in Nat, p + HeadLen <= Len(s), Valid(HeaderAt(s, p))
  PROVE  TailOf(s, p) \in Nat /\ TailOf(s, p) > p + HeadLen
<1>1. HeadLen \in Nat /\ HeaderAt(s, p).datalen \in Int
  BY HeadLenIsNat, HeaderBytes
<1> QED
  BY <1>1 DEF TailOf, Valid

LEMMA FrameIsThere ==
  ASSUME NEW s \in Seq(Byte), NEW p \in Nat, FrameAt(s, p)
  PROVE  /\ p + HeadLen <= Len(s) /\ Valid(HeaderAt(s, p)) /\ s[p] = HEAD
         /\ TailOf(s, p) \in Nat /\ p + HeadLen < TailOf(s, p) /\ TailOf(s, p) <= Len(s)
<1>1. p + HeadLen <= Len(s) /\ Valid(HeaderAt(s, p)) /\ s[p] = HEAD /\ TailOf(s, p) <= Len(s)
  BY DEF FrameAt, HeadAt
<1> QED
  BY <1>1, TailIsBehind

LEMMA FrameStays ==
  ASSUME NEW s \in Seq(Byte), NEW t \in Seq(Byte), Extends(t, s),
         NEW p \in Nat \ {0}, FrameAt(s, p)
  PROVE  FrameAt(t, p) /\ TailOf(t, p) = TailOf(s, p)
<1>1. HeadLen \in Nat /\ Len(s) \in Nat /\ Len(t) \in Nat /\ Len(s) <= Len(t)
  BY HeadLenIsNat, LenProperties DEF Extends
<1>2. /\ p + HeadLen <= Len(s) /\ Valid(HeaderAt(s, p)) /\ s[p] = HEAD
      /\ TailOf(s, p) \in Nat /\ p + HeadLen < TailOf(s, p) /\ TailOf(s, p) <= Len(s)
      /\ s[TailOf(s, p)] = TAIL
  BY FrameIsThere DEF FrameAt
<1>3. HeaderAt(t, p) = HeaderAt(s, p)
  BY <1>2, HeaderStays
<1>4. TailOf(t, p) = TailOf(s, p)
  BY <1>3 DEF TailOf
<1>5. t[p] = s[p] /\ t[TailOf(s, p)] = s[TailOf(s, p)]
  <2>1. p \in 1 .. Len(s) /\ TailOf(s, p) \in 1 .. Len(s)
    BY <1>1, <1>2
  <2> QED
    BY <2>1 DEF Extends
<1>6. p + HeadLen <= Len(t) /\ TailOf(s, p) <= Len(t)
  BY <1>1, <1>2
<1> QED
  BY <1>2, <1>3, <1>4, <1>5, <1>6 DEF FrameAt, HeadAt

LEMMA DeadStays ==
  ASSUME NEW s \in Seq(Byte), NEW t \in Seq(Byte), Extends(t, s),
         NEW q \in 1 .. Len(s), Dead(s, q)
  PROVE  Dead(t, q)
<1>1. HeadLen \in Nat /\ Len(s) \in Nat /\ Len(t) \in Nat /\ Len(s) <= Len(t) /\ t[q] = s[q]
  BY HeadLenIsNat, LenProperties DEF Extends
<1>2. CASE s[q] # HEAD
  BY <1>1, <1>2 DEF Dead
<1>3. CASE q + HeadLen <= Len(s)
  <2>1. HeaderAt(t, q) = HeaderAt(s, q) /\ q + HeadLen <= Len(t)
    BY <1>1, <1>3, HeaderStays
  <2>2. CASE ~Valid(HeaderAt(s, q))
    BY <2>1, <2>2 DEF Dead
  <2>3. CASE Valid(HeaderAt(s, q)) /\ TailOf(s, q) <= Len(s) /\ s[TailOf(s, q)] # TAIL
    <3>1. TailOf(s, q) \in 1 .. Len(s)
      BY <1>1, <1>3, <2>3, TailIsBehind
    <3>2. TailOf(t, q) = TailOf(s, q) /\ t[TailOf(s, q)] = s[TailOf(s, q)]
      BY <2>1, <3>1 DEF TailOf, Extends
    <3> QED
      BY <1>1, <2>1, <2>3, <3>1, <3>2 DEF Dead
  <2>4. CASE s[q] # HEAD
    BY <1>1, <2>4 DEF Dead
  <2> QED
    BY <2>2, <2>3, <2>4 DEF Dead
<1> QED
  BY <1>2, <1>3 DEF Dead

(* A position is dead, open or the start of a frame.                           *)
LEMMA DeadIsNeither ==
  ASSUME NEW s \in Seq(Byte), NEW q \in 1 .. Len(s)
  PROVE  Dead(s, q) <=> ~FrameAt(s, q) /\ ~OpenAt(s, q)
<1>1. HeadLen \in Nat /\ Len(s) \in Nat
  BY HeadLenIsNat, LenProperties
<1>2. CASE q + HeadLen <= Len(s) /\ Valid(HeaderAt(s, q))
  <2>1. TailOf(s, q) \in Nat
    BY <1>2, TailIsBehind
  <2> QED
    BY <1>1, <1>2, <2>1 DEF Dead, FrameAt, HeadAt, OpenAt
<1>3. CASE ~(q + HeadLen <= Len(s)) \/ ~Valid(HeaderAt(s, q))
  BY <1>1, <1>3 DEF Dead, FrameAt, HeadAt, OpenAt
<1> QED
  BY <1>2, <1>3

--------------------------------------------------------------------------------
(* What Frames computes.                                                       *)

(* The equation that defines FramesFrom: it has a solution, since a later      *)
(* position is looked at each time.                                            *)
LEMMA FramesFromExists ==
  ASSUME NEW s \in Seq(Byte)
  PROVE  FramesFrom(s) =
           [p \in 1 .. (Len(s) + 1) |->
              IF p > Len(s) \/ (p <= Len(s) /\ OpenAt(s, p)) THEN <<>>
              ELSE IF FrameAt(s, p)
                   THEN <<Interval(p + 1, TailOf(s, p) - 1)>> \o FramesFrom(s)[TailOf(s, p) + 1]
                   ELSE FramesFrom(s)[p + 1]]
<1> DEFINE n == Len(s)
           step(f, p) ==
             IF p > n \/ (p <= n /\ OpenAt(s, p)) THEN <<>>
             ELSE IF FrameAt(s, p)
                  THEN <<Interval(p + 1, TailOf(s, p) - 1)>> \o f[TailOf(s, p) + 1]
                  ELSE f[p + 1]
           from == CHOOSE f : f = [p \in 1 .. (n + 1) |-> step(f, p)]
<1>1. FramesFrom(s) = from
  BY DEF FramesFrom
<1>2. n \in Nat /\ HeadLen \in Nat /\ HeadLen >= 6
  BY LenProperties, HeadLenIsNat
<1>3. \E f : f = [p \in 1 .. (n + 1) |-> step(f, p)]
  <2> DEFINE S == {k \in Nat : k <= n => \E f : f = [p \in n + 1 - k .. (n + 1) |-> step(f, p)]}
  <2>1. 0 \in S
    <3> DEFINE g == [p \in n + 1 .. (n + 1) |-> <<>>]
    <3>1. \A p \in n + 1 .. (n + 1) : step(g, p) = <<>>
      BY <1>2
    <3>2. g = [p \in n + 1 .. (n + 1) |-> step(g, p)]
      BY <3>1
    <3>3. n + 1 - 0 = n + 1
      BY <1>2
    <3> QED
      BY <3>2, <3>3
  <2>2. ASSUME NEW k \in Nat, k \in S PROVE k + 1 \in S
    <3> SUFFICES ASSUME k + 1 <= n
                 PROVE  \E f : f = [p \in n + 1 - (k + 1) .. (n + 1) |-> step(f, p)]
      OBVIOUS
    <3> DEFINE a == n - k
    <3>1. n + 1 - (k + 1) = a /\ n + 1 - k = a + 1 /\ a \in 1 .. n
      BY <1>2
    <3> HIDE DEF a
    <3>2. PICK f : f = [p \in a + 1 .. (n + 1) |-> step(f, p)]
      BY <1>2, <2>2, <3>1
    <3> DEFINE g == [p \in a .. (n + 1) |-> IF p = a THEN step(f, a) ELSE f[p]]
    <3>3. \A p \in a + 1 .. (n + 1) : p \in a .. (n + 1) /\ p # a /\ g[p] = f[p]
      BY <1>2, <3>1
    <3>4. ASSUME NEW p \in a .. n PROVE step(g, p) = step(f, p)
      <4>1. p \in Nat /\ p + 1 \in a + 1 .. (n + 1)
        BY <1>2, <3>1
      <4>2. FrameAt(s, p) => TailOf(s, p) + 1 \in a + 1 .. (n + 1)
        BY <1>2, <3>1, <4>1, FrameIsThere
      <4> HIDE DEF g
      <4>3. FrameAt(s, p) => g[TailOf(s, p) + 1] = f[TailOf(s, p) + 1]
        BY <3>3, <4>2
      <4>4. g[p + 1] = f[p + 1]
        BY <3>3, <4>1
      <4> QED
        BY <4>3, <4>4
    <3>5. ASSUME NEW p \in a .. (n + 1) PROVE g[p] = step(g, p)
      <4>1. CASE p = a
        <5>1. p \in a .. n
          BY <3>1, <4>1
        <5> QED
          BY <3>4, <4>1, <5>1
      <4>2. CASE p # a /\ p <= n
        <5>1. p \in a .. n /\ p \in a + 1 .. (n + 1)
          BY <1>2, <3>1, <4>2
        <5>2. f[p] = step(f, p)
          BY <3>2, <5>1
        <5> QED
          BY <3>3, <3>4, <5>1, <5>2
      <4>3. CASE p = n + 1
        <5>1. p \in a + 1 .. (n + 1) /\ p > n
          BY <1>2, <3>1, <4>3
        <5>2. f[p] = step(f, p) /\ g[p] = f[p]
          BY <3>2, <3>3, <5>1
        <5>3. step(f, p) = <<>> /\ step(g, p) = <<>>
          BY <5>1
        <5> QED
          BY <5>2, <5>3
      <4>4. p = a \/ (p # a /\ p <= n) \/ p = n + 1
        BY <1>2, <3>1
      <4> HIDE DEF g, step
      <4> QED
        BY <4>1, <4>2, <4>3, <4>4
    <3>6. g = [p \in a .. (n + 1) |-> step(g, p)]
      <4>1. g = [p \in a .. (n + 1) |-> g[p]]
        OBVIOUS
      <4> HIDE DEF g, step
      <4> QED
        BY <3>5, <4>1
    <3> QED
      BY <3>1, <3>6
  <2> HIDE DEF S
  <2>3. n \in S
    BY <1>2, <2>1, <2>2, Induction
  <2>4. n + 1 - n = 1
    BY <1>2
  <2> QED
    BY <1>2, <2>3, <2>4 DEF S
<1>4. from = [p \in 1 .. (n + 1) |-> step(from, p)]
  BY <1>3
<1> HIDE DEF from
<1> QED
  BY <1>1, <1>4

(* The equation, case by case.                                                 *)
LEMMA FramesFromCases ==
  ASSUME NEW s \in Seq(Byte), NEW p \in 1 .. (Len(s) + 1)
  PROVE  /\ p > Len(s) => FramesFrom(s)[p] = <<>>
         /\ p <= Len(s) /\ OpenAt(s, p) => FramesFrom(s)[p] = <<>>
         /\ p <= Len(s) /\ Dead(s, p) => FramesFrom(s)[p] = FramesFrom(s)[p + 1]
         /\ p <= Len(s) /\ FrameAt(s, p) =>
              FramesFrom(s)[p] = <<Interval(p + 1, TailOf(s, p) - 1)>>
                                   \o FramesFrom(s)[TailOf(s, p) + 1]
<1> DEFINE from == FramesFrom(s)
<1>1. from[p] = IF p > Len(s) \/ (p <= Len(s) /\ OpenAt(s, p)) THEN <<>>
                ELSE IF FrameAt(s, p)
                     THEN <<Interval(p + 1, TailOf(s, p) - 1)>> \o from[TailOf(s, p) + 1]
                     ELSE from[p + 1]
  <2> HIDE DEF from
  <2> QED
    BY FramesFromExists DEF from
<1>2. Len(s) \in Nat
  BY LenProperties
<1>3. p <= Len(s) => (Dead(s, p) <=> ~FrameAt(s, p) /\ ~OpenAt(s, p))
  BY <1>2, DeadIsNeither
<1>4. p <= Len(s) /\ FrameAt(s, p) => ~OpenAt(s, p)
  <2> SUFFICES ASSUME p <= Len(s), FrameAt(s, p) PROVE ~OpenAt(s, p)
    OBVIOUS
  <2>1. HeadLen \in Nat /\ p + HeadLen <= Len(s) /\ TailOf(s, p) \in Nat /\ TailOf(s, p) <= Len(s)
    BY FrameIsThere, HeadLenIsNat
  <2> QED
    BY <1>2, <2>1 DEF OpenAt
<1> HIDE DEF from
<1> QED
  BY <1>1, <1>2, <1>3, <1>4 DEF from

LEMMA IntervalFits ==
  ASSUME NEW a \in Int, NEW b \in Int, b >= a - 1
  PROVE  /\ Interval(a, b) \in Seq(Int) /\ Len(Interval(a, b)) = b - a + 1
         /\ \A i \in 1 .. b - a + 1 : Interval(a, b)[i] = a + i - 1
<1>1. b - a + 1 \in Nat
  OBVIOUS
<1>2. Interval(a, b) \in [1 .. b - a + 1 -> Int]
  BY DEF Interval
<1>3. Interval(a, b) \in Seq(Int)
  BY <1>1, <1>2, SeqDef
<1>4. Len(Interval(a, b)) = b - a + 1
  BY <1>1, <1>2, <1>3, LenProperties
<1> QED
  BY <1>3, <1>4 DEF Interval

LEMMA FramesFromType ==
  ASSUME NEW s \in Seq(Byte), NEW p \in 1 .. (Len(s) + 1)
  PROVE  FramesFrom(s)[p] \in Seq(Seq(Int))
<1> DEFINE n == Len(s)
           from == FramesFrom(s)
           S == {k \in Nat : \A q \in 1 .. (n + 1) : n + 1 - q <= k => from[q] \in Seq(Seq(Int))}
<1>1. n \in Nat /\ HeadLen \in Nat
  BY LenProperties, HeadLenIsNat
<1> HIDE DEF from
<1>2. <<>> \in Seq(Seq(Int))
  BY EmptySeq
<1>3. 0 \in S
  <2>1. from[n + 1] = <<>>
    <3>1. n + 1 \in 1 .. (n + 1) /\ n + 1 > n
      BY <1>1
    <3> QED
      BY <3>1, FramesFromCases DEF from
  <2>2. \A q \in 1 .. (n + 1) : n + 1 - q <= 0 => q = n + 1
    BY <1>1
  <2> QED
    BY <1>2, <2>1, <2>2
<1>4. ASSUME NEW k \in Nat, k \in S PROVE k + 1 \in S
  <2> SUFFICES ASSUME NEW q \in 1 .. (n + 1), n + 1 - q <= k + 1
               PROVE  from[q] \in Seq(Seq(Int))
    OBVIOUS
  <2>1. \A r \in 1 .. (n + 1) : r > q => from[r] \in Seq(Seq(Int))
    BY <1>1, <1>4
  <2>2. CASE q > n \/ (q <= n /\ OpenAt(s, q))
    BY <1>2, <2>2, FramesFromCases DEF from
  <2>3. CASE q <= n /\ Dead(s, q)
    <3>1. from[q] = from[q + 1]
      BY <2>3, FramesFromCases DEF from
    <3> QED
      BY <1>1, <2>1, <2>3, <3>1
  <2>4. CASE q <= n /\ FrameAt(s, q)
    <3>1. TailOf(s, q) \in Nat /\ q + HeadLen < TailOf(s, q) /\ TailOf(s, q) <= n
      BY <2>4, FrameIsThere
    <3>2. from[q] = <<Interval(q + 1, TailOf(s, q) - 1)>> \o from[TailOf(s, q) + 1]
      BY <2>4, FramesFromCases DEF from
    <3>3. from[TailOf(s, q) + 1] \in Seq(Seq(Int))
      BY <1>1, <2>1, <3>1
    <3>4. Interval(q + 1, TailOf(s, q) - 1) \in Seq(Int)
      <4>1. /\ q + 1 \in Int /\ TailOf(s, q) - 1 \in Int
            /\ TailOf(s, q) - 1 >= (q + 1) - 1
        BY <1>1, <3>1
      <4> QED
        BY <4>1, IntervalFits
    <3>5. <<Interval(q + 1, TailOf(s, q) - 1)>> \in Seq(Seq(Int))
      BY <3>4
    <3> QED
      BY <3>2, <3>3, <3>5, ConcatProperties
  <2>5. q <= n => FrameAt(s, q) \/ OpenAt(s, q) \/ Dead(s, q)
    BY <1>1, DeadIsNeither
  <2> QED
    BY <1>1, <2>2, <2>3, <2>4, <2>5
<1>5. n + 1 - p \in S
  <2>1. n + 1 - p \in Nat
    BY <1>1
  <2> HIDE DEF S
  <2> QED
    BY <1>3, <1>4, <2>1, Induction
<1> QED
  BY <1>1, <1>5 DEF from

(* Dead positions are passed over.                                             *)
LEMMA FramesFromSkips ==
  ASSUME NEW s \in Seq(Byte), NEW p \in 1 .. (Len(s) + 1), NEW r \in p .. (Len(s) + 1),
         \A q \in p .. r - 1 : Dead(s, q)
  PROVE  FramesFrom(s)[p] = FramesFrom(s)[r]
<1> DEFINE from == FramesFrom(s)
           S == {k \in Nat : p + k <= r => from[p] = from[p + k]}
<1>1. Len(s) \in Nat
  BY LenProperties
<1> HIDE DEF from
<1>2. 0 \in S
  OBVIOUS
<1>3. ASSUME NEW k \in Nat, k \in S PROVE k + 1 \in S
  <2> SUFFICES ASSUME p + (k + 1) <= r PROVE from[p] = from[p + (k + 1)]
    OBVIOUS
  <2>1. p + k \in p .. r - 1 /\ p + k \in 1 .. Len(s) /\ p + (k + 1) = (p + k) + 1
    BY <1>1
  <2>2. from[p + k] = from[(p + k) + 1]
    <3>1. p + k \in 1 .. (Len(s) + 1) /\ p + k <= Len(s) /\ Dead(s, p + k)
      BY <1>1, <2>1
    <3> QED
      BY <3>1, FramesFromCases DEF from
  <2> QED
    BY <1>1, <1>3, <2>1, <2>2
<1> HIDE DEF S
<1>4. r - p \in S
  <2>1. r - p \in Nat
    BY <1>1
  <2> QED
    BY <1>2, <1>3, <2>1, Induction
<1>5. p + (r - p) = r
  BY <1>1
<1> QED
  BY <1>1, <1>4, <1>5 DEF S, from

(* Where no frame starts any more, none is found.                              *)
LEMMA FramesFromNone ==
  ASSUME NEW s \in Seq(Byte), NEW p \in 1 .. (Len(s) + 1),
         \A q \in p .. Len(s) : ~FrameAt(s, q)
  PROVE  FramesFrom(s)[p] = <<>>
<1> DEFINE n == Len(s)
           from == FramesFrom(s)
           S == {k \in Nat : n + 1 - k >= p => from[n + 1 - k] = <<>>}
<1>1. n \in Nat
  BY LenProperties
<1> HIDE DEF from
<1>2. 0 \in S
  <2>1. n + 1 \in 1 .. (n + 1) /\ n + 1 > n /\ n + 1 - 0 = n + 1
    BY <1>1
  <2>2. from[n + 1] = <<>>
    BY <2>1, FramesFromCases DEF from
  <2> QED
    BY <2>1, <2>2
<1>3. ASSUME NEW k \in Nat, k \in S PROVE k + 1 \in S
  <2> SUFFICES ASSUME n + 1 - (k + 1) >= p PROVE from[n + 1 - (k + 1)] = <<>>
    OBVIOUS
  <2> DEFINE q == n + 1 - (k + 1)
  <2>1. q \in p .. n /\ q \in 1 .. n /\ q + 1 = n + 1 - k /\ q + 1 >= p
    BY <1>1
  <2> HIDE DEF q
  <2>2. from[q + 1] = <<>>
    BY <1>3, <2>1
  <2>3. OpenAt(s, q) \/ Dead(s, q)
    BY <2>1, DeadIsNeither
  <2>4. q \in 1 .. (n + 1) /\ q <= n
    BY <1>1, <2>1
  <2>5. from[q] = <<>>
    BY <2>2, <2>3, <2>4, FramesFromCases DEF from
  <2> QED
    BY <2>5 DEF q
<1> HIDE DEF S
<1>4. n + 1 - p \in S
  <2>1. n + 1 - p \in Nat
    BY <1>1
  <2> QED
    BY <1>2, <1>3, <2>1, Induction
<1>5. n + 1 - (n + 1 - p) = p
  BY <1>1
<1> QED
  BY <1>1, <1>4, <1>5 DEF S, from

--------------------------------------------------------------------------------
(* A scan of the stream from its first byte on, as far as p.                   *)

(* Where a frame given to the user starts and ends in the stream.              *)
FirstOf(frame) == frame[1] - 1
LastOf(frame) == frame[Len(frame)] + 1

(* The frames d, in their order, are frames of s before p, and at every other  *)
(* position before p none starts, whatever follows.                            *)
Scanned(s, d, p) ==
  /\ \A i \in DOMAIN d :
       /\ FirstOf(d[i]) \in Nat \ {0} /\ LastOf(d[i]) \in Nat /\ FirstOf(d[i]) < LastOf(d[i])
       /\ FrameAt(s, FirstOf(d[i]))
       /\ d[i] = Interval(FirstOf(d[i]) + 1, TailOf(s, FirstOf(d[i])) - 1)
       /\ LastOf(d[i]) = TailOf(s, FirstOf(d[i])) /\ LastOf(d[i]) < p
  /\ \A i, j \in DOMAIN d : i < j => LastOf(d[i]) < FirstOf(d[j])
  /\ \A q \in 1 .. p - 1 :
       Dead(s, q) \/ \E i \in DOMAIN d : FirstOf(d[i]) <= q /\ q <= LastOf(d[i])

(* The frame that starts at p.                                                 *)
LEMMA FrameFits ==
  ASSUME NEW s \in Seq(Byte), NEW p \in Nat, FrameAt(s, p)
  PROVE  LET frame == Interval(p + 1, TailOf(s, p) - 1) IN
         /\ frame \in Seq(Int) /\ Len(frame) = TailOf(s, p) - p - 1
         /\ FirstOf(frame) = p /\ LastOf(frame) = TailOf(s, p)
<1> DEFINE frame == Interval(p + 1, TailOf(s, p) - 1)
           n == TailOf(s, p) - p - 1
<1>1. TailOf(s, p) \in Nat /\ n \in Nat /\ n >= 1
  <2>1. HeadLen \in Nat /\ HeadLen >= 6 /\ TailOf(s, p) \in Nat /\ p + HeadLen < TailOf(s, p)
    BY FrameIsThere, HeadLenIsNat
  <2> QED
    BY <2>1
<1>2. /\ p + 1 \in Int /\ TailOf(s, p) - 1 \in Int /\ TailOf(s, p) - 1 >= (p + 1) - 1
      /\ (TailOf(s, p) - 1) - (p + 1) + 1 = n
  BY <1>1
<1> HIDE DEF n
<1>3. /\ frame \in Seq(Int) /\ Len(frame) = n
      /\ \A i \in 1 .. n : frame[i] = (p + 1) + i - 1
  BY <1>2, IntervalFits
<1> HIDE DEF frame
<1>4. FirstOf(frame) = p
  BY <1>1, <1>3 DEF FirstOf
<1>5. LastOf(frame) = p + n + 1
  <2>1. frame[n] = (p + 1) + n - 1
    BY <1>1, <1>3
  <2> QED
    BY <1>1, <1>3, <2>1 DEF LastOf
<1>6. p + n + 1 = TailOf(s, p)
  BY <1>1 DEF n
<1> QED
  BY <1>3, <1>4, <1>5, <1>6 DEF frame, n

LEMMA ScannedGrows ==
  ASSUME NEW s \in Seq(Byte), NEW t \in Seq(Byte), Extends(t, s),
         NEW d \in Seq(Seq(Int)), NEW p \in 1 .. Len(s) + 1, Scanned(s, d, p)
  PROVE  Scanned(t, d, p)
<1>1. ASSUME NEW i \in DOMAIN d
      PROVE  FrameAt(t, FirstOf(d[i])) /\ TailOf(t, FirstOf(d[i])) = TailOf(s, FirstOf(d[i]))
  <2>1. FirstOf(d[i]) \in Nat \ {0} /\ FrameAt(s, FirstOf(d[i]))
    BY DEF Scanned
  <2> QED
    BY <2>1, FrameStays
<1>2. ASSUME NEW q \in 1 .. p - 1, Dead(s, q) PROVE Dead(t, q)
  <2>1. q \in 1 .. Len(s)
    BY LenProperties
  <2> QED
    BY <1>2, <2>1, DeadStays
<1> QED
  BY <1>1, <1>2 DEF Scanned

LEMMA ScannedSkips ==
  ASSUME NEW s, NEW d \in Seq(Seq(Int)), NEW p \in Nat, NEW r \in Nat, p <= r,
         Scanned(s, d, p), \A q \in p .. r - 1 : Dead(s, q)
  PROVE  Scanned(s, d, r)
<1>1. \A i \in DOMAIN d : LastOf(d[i]) \in Nat /\ LastOf(d[i]) < r
  BY DEF Scanned
<1>2. \A q \in 1 .. r - 1 : q \in 1 .. p - 1 \/ q \in p .. r - 1
  OBVIOUS
<1> QED
  BY <1>1, <1>2 DEF Scanned

LEMMA ScannedFrame ==
  ASSUME NEW s \in Seq(Byte), NEW d \in Seq(Seq(Int)), NEW p \in Nat \ {0},
         Scanned(s, d, p), FrameAt(s, p)
  PROVE  /\ Append(d, Interval(p + 1, TailOf(s, p) - 1)) \in Seq(Seq(Int))
         /\ Scanned(s, Append(d, Interval(p + 1, TailOf(s, p) - 1)), TailOf(s, p) + 1)
<1> DEFINE frame == Interval(p + 1, TailOf(s, p) - 1)
           more == Append(d, frame)
           n == Len(d)
           tail == TailOf(s, p)
<1>1. /\ frame \in Seq(Int) /\ FirstOf(frame) = p /\ LastOf(frame) = tail
      /\ tail \in Nat /\ p < tail
  <2>1. HeadLen \in Nat
    BY HeadLenIsNat
  <2> QED
    BY <2>1, FrameFits, FrameIsThere
<1>2. /\ more \in Seq(Seq(Int)) /\ n \in Nat /\ more[n + 1] = frame
      /\ \A i \in 1 .. n : more[i] = d[i]
      /\ DOMAIN d = 1 .. n /\ DOMAIN more = 1 .. n + 1
  <2> HIDE DEF frame
  <2> QED
    BY <1>1, AppendProperties, LenProperties
<1>3. frame = Interval(FirstOf(frame) + 1, TailOf(s, FirstOf(frame)) - 1)
  BY <1>1
<1> HIDE DEF more, n, frame, tail
<1>4. ASSUME NEW i \in DOMAIN more
      PROVE  /\ FirstOf(more[i]) \in Nat \ {0} /\ LastOf(more[i]) \in Nat
             /\ FirstOf(more[i]) < LastOf(more[i])
             /\ FrameAt(s, FirstOf(more[i]))
             /\ more[i] = Interval(FirstOf(more[i]) + 1, TailOf(s, FirstOf(more[i])) - 1)
             /\ LastOf(more[i]) = TailOf(s, FirstOf(more[i])) /\ LastOf(more[i]) < tail + 1
  <2>1. CASE i = n + 1
    BY <1>1, <1>2, <1>3, <2>1 DEF tail
  <2>2. CASE i # n + 1
    <3>1. i \in DOMAIN d /\ more[i] = d[i]
      BY <1>2, <2>2
    <3> QED
      BY <1>1, <3>1 DEF Scanned
  <2> QED
    BY <2>1, <2>2
<1>5. ASSUME NEW i \in DOMAIN more, NEW j \in DOMAIN more, i < j
      PROVE  LastOf(more[i]) < FirstOf(more[j])
  <2>1. i \in DOMAIN d /\ more[i] = d[i]
    BY <1>2, <1>5
  <2>2. CASE j = n + 1
    BY <1>1, <1>2, <2>1, <2>2 DEF Scanned
  <2>3. CASE j # n + 1
    <3>1. j \in DOMAIN d /\ more[j] = d[j]
      BY <1>2, <2>3
    <3> QED
      BY <1>5, <2>1, <3>1 DEF Scanned
  <2> QED
    BY <2>2, <2>3
<1>6. ASSUME NEW q \in 1 .. (tail + 1) - 1
      PROVE  Dead(s, q) \/ \E i \in DOMAIN more : FirstOf(more[i]) <= q /\ q <= LastOf(more[i])
  <2>1. CASE q < p
    <3>1. Dead(s, q) \/ \E i \in DOMAIN d : FirstOf(d[i]) <= q /\ q <= LastOf(d[i])
      BY <2>1 DEF Scanned
    <3>2. \A i \in DOMAIN d : i \in DOMAIN more /\ more[i] = d[i]
      BY <1>2
    <3> QED
      BY <3>1, <3>2
  <2>2. CASE q >= p
    <3>1. n + 1 \in DOMAIN more /\ FirstOf(more[n + 1]) <= q /\ q <= LastOf(more[n + 1])
      BY <1>1, <1>2, <2>2
    <3> QED
      BY <3>1
  <2> QED
    BY <2>1, <2>2
<1> QED
  BY <1>2, <1>4, <1>5, <1>6 DEF Scanned, more, frame, tail

(* What has been scanned is what Frames finds.                                 *)
LEMMA ScannedGivesFrames ==
  ASSUME NEW s \in Seq(Byte), NEW d \in Seq(Seq(Int)), NEW p \in 1 .. (Len(s) + 1),
         Scanned(s, d, p)
  PROVE  Frames(s) = d \o FramesFrom(s)[p]
<1> DEFINE n == Len(d)
           from == FramesFrom(s)
           start(i) == IF i = 0 THEN 1 ELSE LastOf(d[i]) + 1
           split(i) == Frames(s) = SubSeq(d, 1, i) \o from[start(i)]
           S == {i \in Nat : i <= n => split(i)}
<1>1. n \in Nat /\ DOMAIN d = 1 .. n /\ Len(s) \in Nat
  BY LenProperties
<1>2. ASSUME NEW i \in 1 .. n
      PROVE  /\ FirstOf(d[i]) \in Nat \ {0} /\ LastOf(d[i]) \in Nat
             /\ FirstOf(d[i]) < LastOf(d[i]) /\ LastOf(d[i]) < p
             /\ FrameAt(s, FirstOf(d[i])) /\ LastOf(d[i]) = TailOf(s, FirstOf(d[i]))
             /\ d[i] = Interval(FirstOf(d[i]) + 1, TailOf(s, FirstOf(d[i])) - 1)
  BY <1>1 DEF Scanned
<1>3. \A i \in 0 .. n : start(i) \in 1 .. p
  BY <1>1, <1>2
<1>4. ASSUME NEW i \in 0 .. n, NEW r \in start(i) .. p,
             \A j \in 1 .. n : j > i => r <= FirstOf(d[j])
      PROVE  from[start(i)] = from[r]
  <2>1. ASSUME NEW q \in start(i) .. r - 1 PROVE Dead(s, q)
    <3>1. q \in 1 .. p - 1
      BY <1>1, <1>3
    <3>2. ASSUME NEW j \in 1 .. n, FirstOf(d[j]) <= q, q <= LastOf(d[j]) PROVE FALSE
      <4>1. CASE j > i
        BY <1>1, <1>2, <1>3, <1>4, <3>1, <3>2, <4>1
      <4>2. CASE j = i
        BY <1>1, <1>2, <1>3, <3>1, <3>2, <4>2
      <4>3. CASE j < i
        <5>1. i \in 1 .. n /\ start(i) = LastOf(d[i]) + 1
          BY <1>1, <4>3
        <5>2. LastOf(d[j]) < FirstOf(d[i])
          BY <1>1, <4>3, <5>1 DEF Scanned
        <5>3. LastOf(d[i]) + 1 <= q /\ q \in Nat
          BY <1>3, <3>1, <5>1
        <5>4. FirstOf(d[i]) < LastOf(d[i]) /\ q <= LastOf(d[j])
          BY <1>2, <3>2, <5>1
        <5>5. LastOf(d[i]) \in Int /\ LastOf(d[j]) \in Int /\ FirstOf(d[i]) \in Int
          BY <1>2, <3>2, <5>1
        <5> QED
          BY <5>2, <5>3, <5>4, <5>5
      <4> QED
        BY <4>1, <4>2, <4>3
    <3> QED
      BY <1>1, <3>1, <3>2 DEF Scanned
  <2>2. start(i) \in 1 .. (Len(s) + 1) /\ r \in start(i) .. (Len(s) + 1)
    BY <1>1, <1>3
  <2> HIDE DEF start
  <2> QED
    BY <2>1, <2>2, FramesFromSkips
<1>5. \A r \in 1 .. (Len(s) + 1) : from[r] \in Seq(Seq(Int))
  BY FramesFromType
<1> HIDE DEF from
<1>6. 0 \in S
  <2>1. SubSeq(d, 1, 0) = <<>>
    BY SubSeqEmpty
  <2>2. <<>> \o from[1] = from[1]
    BY <1>1, <1>5, ConcatEmptySeq
  <2> QED
    BY <2>1, <2>2 DEF Frames, from
<1>7. ASSUME NEW i \in Nat, i \in S PROVE i + 1 \in S
  <2> SUFFICES ASSUME i + 1 <= n
               PROVE  Frames(s) = SubSeq(d, 1, i + 1) \o from[start(i + 1)]
    <3> HIDE DEF split
    <3>1. (i + 1 <= n => split(i + 1)) => i + 1 \in S
      OBVIOUS
    <3> QED
      BY <3>1 DEF split
  <2> DEFINE a == FirstOf(d[i + 1])
             front == SubSeq(d, 1, i)
             rest == from[start(i + 1)]
  <2>1. i \in 0 .. n /\ i + 1 \in 1 .. n
    BY <1>1
  <2>2. a \in start(i) .. p /\ \A j \in 1 .. n : j > i => a <= FirstOf(d[j])
    <3>1. a \in Nat \ {0} /\ a < p
      BY <1>2, <2>1
    <3>2. start(i) <= a
      <4>1. CASE i = 0
        BY <3>1, <4>1
      <4>2. CASE i # 0
        <5>1. i \in 1 .. n /\ LastOf(d[i]) < a
          <6>1. i \in DOMAIN d /\ i + 1 \in DOMAIN d /\ i < i + 1
            BY <1>1, <2>1, <4>2
          <6>2. LastOf(d[i]) < FirstOf(d[i + 1])
            BY <6>1 DEF Scanned
          <6> QED
            BY <1>1, <6>1, <6>2
        <5> QED
          BY <1>2, <3>1, <4>2, <5>1
      <4> QED
        BY <4>1, <4>2
    <3>3. ASSUME NEW j \in 1 .. n, j > i PROVE a <= FirstOf(d[j])
      <4>1. CASE j = i + 1
        BY <3>1, <4>1
      <4>2. CASE j # i + 1
        <5>1. LastOf(d[i + 1]) < FirstOf(d[j])
          <6>1. i + 1 \in DOMAIN d /\ j \in DOMAIN d /\ i + 1 < j
            BY <1>1, <2>1, <3>3, <4>2
          <6> QED
            BY <6>1 DEF Scanned
        <5> QED
          BY <1>2, <2>1, <5>1
      <4> QED
        BY <4>1, <4>2
    <3> QED
      BY <1>3, <2>1, <3>1, <3>2, <3>3
  <2>3. from[start(i)] = from[a]
    <3> HIDE DEF start, a, from
    <3> QED
      BY <1>4, <2>1, <2>2
  <2>4. from[a] = <<d[i + 1]>> \o rest
    <3>1. /\ a \in 1 .. (Len(s) + 1) /\ a <= Len(s) /\ FrameAt(s, a)
          /\ d[i + 1] = Interval(a + 1, TailOf(s, a) - 1)
          /\ start(i + 1) = TailOf(s, a) + 1
      BY <1>1, <1>2, <2>1
    <3> HIDE DEF start, a
    <3> QED
      BY <3>1, FramesFromCases DEF from
  <2>5. /\ front \in Seq(Seq(Int)) /\ d[i + 1] \in Seq(Int) /\ rest \in Seq(Seq(Int))
        /\ SubSeq(d, 1, i + 1) = front \o <<d[i + 1]>>
    <3>1. d[i + 1] \in Seq(Int)
      BY <2>1, ElementOfSeq
    <3>2. rest \in Seq(Seq(Int))
      BY <1>1, <1>3, <1>5, <2>1
    <3>3. front \in Seq(Seq(Int))
      <4>1. \A j \in 1 .. i : d[j] \in Seq(Int)
        BY <1>1, <2>1, ElementOfSeq
      <4> QED
        BY <2>1, <4>1, SubSeqProperties
    <3>4. SubSeq(d, 1, i + 1) = SubSeq(d, 1, (i + 1) - 1) \o <<d[i + 1]>>
      <4>1. 1 \in 1 .. Len(d) /\ i + 1 \in 1 .. Len(d)
        BY <1>1, <2>1
      <4> QED
        BY <4>1, SubSeqRecursiveSecond
    <3>5. (i + 1) - 1 = i
      OBVIOUS
    <3> QED
      BY <3>1, <3>2, <3>3, <3>4, <3>5
  <2>6. Frames(s) = front \o (<<d[i + 1]>> \o rest)
    <3>1. Frames(s) = front \o from[start(i)]
      <4> HIDE DEF split
      <4>1. split(i)
        BY <1>7, <2>1
      <4> QED
        BY <4>1 DEF split
    <3> HIDE DEF start, front, rest, a
    <3> QED
      BY <2>3, <2>4, <3>1
  <2>7. front \o (<<d[i + 1]>> \o rest) = (front \o <<d[i + 1]>>) \o rest
    <3> DEFINE one == <<d[i + 1]>>
               T == Seq(Int)
    <3>1. one \in Seq(T) /\ front \in Seq(T) /\ rest \in Seq(T)
      BY <2>5
    <3> HIDE DEF front, rest, one, T
    <3>2. \A x, y, z \in Seq(T) : (x \o y) \o z = x \o (y \o z)
      BY ConcatAssociative, SMTT(30)
    <3>3. (front \o one) \o rest = front \o (one \o rest)
      BY <3>1, <3>2
    <3> QED
      BY <3>3 DEF one
  <2> QED
    BY <2>5, <2>6, <2>7
<1> HIDE DEF S
<1>8. n \in S
  BY <1>1, <1>6, <1>7, Induction
<1>9. SubSeq(d, 1, n) = d
  BY SubSeqFull
<1>10. from[start(n)] = from[p]
  <2>1. n \in 0 .. n /\ p \in start(n) .. p /\ \A j \in 1 .. n : ~(j > n)
    BY <1>1, <1>3
  <2> HIDE DEF start, from
  <2> QED
    BY <1>4, <2>1
<1>11. Frames(s) = SubSeq(d, 1, n) \o from[start(n)]
  <2> HIDE DEF split
  <2>1. split(n)
    BY <1>1, <1>8 DEF S
  <2> QED
    BY <2>1 DEF split
<1> QED
  BY <1>9, <1>10, <1>11 DEF from


--------------------------------------------------------------------------------
(* The promise about streams of bytes.                                         *)

(* Frames is a scan of the stream up to where the search has to wait: to the   *)
(* end, or to a byte of which more has to arrive. That is the last position up *)
(* to which the stream can be scanned.                                         *)
LEMMA FramesAreScanned ==
  ASSUME NEW s \in Seq(Byte)
  PROVE  /\ Frames(s) \in Seq(Seq(Int))
         /\ \E p \in 1 .. (Len(s) + 1) : Scanned(s, Frames(s), p)
<1> DEFINE n == Len(s)
           Reached(p) == \E d \in Seq(Seq(Int)) : Scanned(s, d, p)
           T == {k \in 0 .. n : Reached(n + 1 - k)}
<1>1. n \in Nat
  BY LenProperties
<1>2. n \in T
  <2>1. Scanned(s, <<>>, 1) /\ <<>> \in Seq(Seq(Int))
    BY EmptySeq DEF Scanned
  <2>2. Reached(1)
    BY <2>1
  <2>3. n \in 0 .. n /\ n + 1 - n = 1
    BY <1>1
  <2> HIDE DEF Reached
  <2> QED
    BY <2>2, <2>3
<1>3. PICK k \in T : \A l \in T : k <= l
  <2>1. T \subseteq Nat /\ T # {}
    BY <1>1, <1>2
  <2> HIDE DEF T
  <2> QED
    BY <2>1, LeastNumber
<1>4. PICK p \in 1 .. (n + 1) : p = n + 1 - k
  BY <1>1, <1>3
<1>5. ASSUME NEW r \in 1 .. (n + 1), Reached(r) PROVE r <= p
  <2>1. n + 1 - r \in 0 .. n /\ n + 1 - (n + 1 - r) = r
    BY <1>1
  <2>2. n + 1 - r \in T
    <3> HIDE DEF Reached
    <3> QED
      BY <1>5, <2>1
  <2>3. k <= n + 1 - r
    <3> HIDE DEF T
    <3> QED
      BY <1>3, <2>2
  <2> QED
    BY <1>1, <1>3, <1>4, <2>3
<1>6. PICK d \in Seq(Seq(Int)) : Scanned(s, d, p)
  BY <1>3, <1>4
<1>7. FramesFrom(s)[p] = <<>>
  <2>a. /\ p > Len(s) => FramesFrom(s)[p] = <<>>
        /\ p <= Len(s) /\ OpenAt(s, p) => FramesFrom(s)[p] = <<>>
    BY FramesFromCases
  <2>b. p <= Len(s) \/ p > Len(s)
    BY <1>1
  <2> SUFFICES ASSUME p <= n, ~OpenAt(s, p) PROVE FALSE
    BY <2>a, <2>b
  <2>1. p \in Nat \ {0} /\ p \in 1 .. Len(s) /\ p + 1 \in 1 .. (n + 1)
    BY <1>1
  <2>2. CASE FrameAt(s, p)
    <3>1. TailOf(s, p) \in Nat /\ TailOf(s, p) <= n /\ TailOf(s, p) > p
      BY <2>1, <2>2, FrameIsThere, HeadLenIsNat
    <3>2. Reached(TailOf(s, p) + 1)
      BY <1>6, <2>1, <2>2, ScannedFrame
    <3>3. TailOf(s, p) + 1 \in 1 .. (n + 1)
      BY <1>1, <3>1
    <3>4. TailOf(s, p) + 1 <= p
      <4> HIDE DEF Reached
      <4> QED
        BY <1>5, <3>2, <3>3
    <3> QED
      BY <3>1, <3>4
  <2>3. CASE ~FrameAt(s, p)
    <3>1. Dead(s, p)
      BY <2>1, <2>3, DeadIsNeither
    <3>2. \A q \in p .. (p + 1) - 1 : Dead(s, q)
      BY <3>1
    <3>3. Scanned(s, d, p + 1)
      BY <1>6, <2>1, <3>2, ScannedSkips
    <3>4. Reached(p + 1)
      BY <3>3
    <3>5. p + 1 <= p
      <4> HIDE DEF Reached
      <4> QED
        BY <1>5, <2>1, <3>4
    <3> QED
      BY <3>5
  <2> QED
    BY <2>2, <2>3
<1>8. Frames(s) = d
  <2>1. Frames(s) = d \o <<>>
    BY <1>6, <1>7, ScannedGivesFrames
  <2> QED
    BY <2>1, ConcatEmptySeq
<1> QED
  BY <1>6, <1>8

(* Each frame that is found is one, from its HEAD byte to its TAIL byte, inside *)
(* the stream, and no two of them share a byte: recvdata never gives a byte to *)
(* the user twice and never takes a part of a frame for another frame.         *)
THEOREM FramesLieApart ==
  ASSUME NEW s \in Seq(Byte)
  PROVE  /\ \A i \in DOMAIN Frames(s) :
              /\ FrameAt(s, FirstOf(Frames(s)[i])) /\ LastOf(Frames(s)[i]) <= Len(s)
              /\ LastOf(Frames(s)[i]) = TailOf(s, FirstOf(Frames(s)[i]))
         /\ \A i, j \in DOMAIN Frames(s) :
              i < j => LastOf(Frames(s)[i]) < FirstOf(Frames(s)[j])
<1>1. PICK p \in 1 .. (Len(s) + 1) : Scanned(s, Frames(s), p)
  BY FramesAreScanned
<1>2. Len(s) \in Nat
  BY LenProperties
<1> DEFINE d == Frames(s)
<1>3. \A i \in DOMAIN d : LastOf(d[i]) \in Nat /\ LastOf(d[i]) < p
  BY <1>1 DEF Scanned
<1>4. \A i \in DOMAIN d : LastOf(d[i]) <= Len(s)
  <2> HIDE DEF d
  <2> QED
    BY <1>2, <1>3
<1> QED
  BY <1>1, <1>4 DEF Scanned

(* Bytes that arrive later change nothing about the frames found before: what  *)
(* recvdata has given to the user stays right whatever the next piece brings,  *)
(* which is what lets it give out a frame as soon as its last byte is there.   *)
THEOREM FramesAreFinal ==
  ASSUME NEW s \in Seq(Byte), NEW t \in Seq(Byte), Extends(t, s)
  PROVE  IsPrefix(Frames(s), Frames(t))
<1> DEFINE d == Frames(s)
<1>1. PICK p \in 1 .. (Len(s) + 1) : Scanned(s, d, p)
  BY FramesAreScanned
<1>2. d \in Seq(Seq(Int))
  BY FramesAreScanned
<1>3. p \in 1 .. (Len(t) + 1)
  BY LenProperties DEF Extends
<1>4. Scanned(t, d, p)
  BY <1>1, <1>2, ScannedGrows
<1> HIDE DEF d
<1>5. Frames(t) = d \o FramesFrom(t)[p]
  BY <1>2, <1>3, <1>4, ScannedGivesFrames
<1>6. PICK more \in Seq(Seq(Int)) : more = FramesFrom(t)[p]
  BY <1>3, FramesFromType
<1>7. Frames(t) = d \o more
  BY <1>5, <1>6
<1>8. /\ d \o more \in Seq(Seq(Int)) /\ Len(d) \in Nat /\ Len(d) <= Len(d \o more)
      /\ \A i \in 1 .. Len(d) : (d \o more)[i] = d[i]
  BY <1>2, ConcatProperties, LenProperties
<1>9. SubSeq(d, 1, Len(d)) = SubSeq(d \o more, 1, Len(d))
  BY <1>8
<1> QED
  BY <1>7, <1>8, <1>9 DEF IsPrefix, d
================================================================================
