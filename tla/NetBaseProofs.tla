----------------------------- MODULE NetBaseProofs -----------------------------
(* The codecs of net_base.h, for every width of a byte and of an int and for   *)
(* either byte order: what is decoded is what was encoded.                     *)
EXTENDS NetBase, SequenceLemmas

--------------------------------------------------------------------------------
(* Quotients and remainders.                                                   *)

LEMMA DivMod ==
  ASSUME NEW n \in Int, NEW b \in Nat \ {0}
  PROVE  n = (n \div b) * b + (n % b) /\ n % b \in 0 .. b - 1 /\ n \div b \in Int
<1>1. n % b \in 0 .. b - 1
  OBVIOUS
<1>2. n \div b \in Int
  OBVIOUS
<1>3. n = b * (n \div b) + (n % b)
  OBVIOUS
<1>4. b * (n \div b) = (n \div b) * b
  BY <1>2
<1> QED
  BY <1>1, <1>2, <1>3, <1>4

LEMMA DivModUnique ==
  ASSUME NEW q \in Int, NEW b \in Nat \ {0}, NEW r \in 0 .. b - 1
  PROVE  (q * b + r) \div b = q /\ (q * b + r) % b = r
<1>1. (q * b + r) \div b = q
  OBVIOUS
<1>2. (q * b + r) % b = r
  OBVIOUS
<1> QED
  BY <1>1, <1>2

LEMMA ModOfSmall ==
  ASSUME NEW b \in Nat \ {0}, NEW r \in 0 .. b - 1
  PROVE  r % b = r
<1>1. r = 0 * b + r
  OBVIOUS
<1> QED
  BY <1>1, DivModUnique

LEMMA TimesMonotonic ==
  ASSUME NEW b \in Nat, NEW c \in Int, NEW d \in Int, c <= d
  PROVE  c * b <= d * b
OBVIOUS

(* A quotient of at least 0, below what the number is below.                   *)
LEMMA QuotientBelow ==
  ASSUME NEW n \in Nat, NEW b \in Nat \ {0}, NEW a \in Nat, n < a * b
  PROVE  n \div b \in 0 .. a - 1
<1> DEFINE q == n \div b
           r == n % b
<1>1. n = q * b + r /\ r \in 0 .. b - 1 /\ q \in Int
  BY DivMod
<1> HIDE DEF q, r
<1>2. CASE q < 0
  <2>1. q * b <= (-1) * b
    BY <1>1, <1>2, TimesMonotonic
  <2> QED
    BY <1>1, <2>1
<1>3. CASE q >= a
  <2>1. a * b <= q * b
    BY <1>1, <1>3, TimesMonotonic
  <2> QED
    BY <1>1, <2>1
<1> QED
  BY <1>1, <1>2, <1>3 DEF q

(* Dividing twice.                                                             *)
LEMMA DivDiv ==
  ASSUME NEW n \in Nat, NEW b \in Nat \ {0}, NEW a \in Nat \ {0}
  PROVE  (n \div b) \div a = n \div (b * a)
<1> DEFINE q == n \div b
           r == n % b
           p == q \div a
           s == q % a
           ab == b * a
           rest == s * b + r
<1>1. n = q * b + r /\ r \in 0 .. b - 1 /\ q \in Int
  BY DivMod
<1>2. q = p * a + s /\ s \in 0 .. a - 1 /\ p \in Int
  BY <1>1, DivMod
<1> HIDE DEF q, r, p, s
<1>3. n = p * ab + rest
  BY <1>1, <1>2
<1>4. s * b <= (a - 1) * b /\ 0 <= s * b
  BY <1>2, TimesMonotonic
<1>5. ab \in Nat \ {0} /\ rest \in 0 .. ab - 1
  BY <1>1, <1>2, <1>4
<1> HIDE DEF ab, rest
<1>6. n \div ab = p
  BY <1>2, <1>3, <1>5, DivModUnique
<1> QED
  BY <1>6 DEF p, q, ab

--------------------------------------------------------------------------------
(* The weights of the bytes.                                                   *)

LEMMA WeightExists ==
  Weight = [i \in 0 .. 2 * IntLen |-> IF i = 0 THEN 1 ELSE Weight[i - 1] * ByteBase]
<1> DEFINE n == 2 * IntLen
           next(f, i) == IF i = 0 THEN 1 ELSE f[i - 1] * ByteBase
           S == {k \in Nat : \E f : f = [i \in 0 .. k |-> next(f, i)]}
<1>1. n \in Nat
  BY NetBaseAssumption
<1>2. 0 \in S
  <2>1. [i \in 0 .. 0 |-> 1] = [i \in 0 .. 0 |-> next([j \in 0 .. 0 |-> 1], i)]
    OBVIOUS
  <2> QED
    BY <2>1
<1>3. ASSUME NEW k \in Nat, k \in S PROVE k + 1 \in S
  <2>1. PICK f : f = [i \in 0 .. k |-> next(f, i)]
    BY <1>3
  <2> DEFINE g == [i \in 0 .. k + 1 |-> IF i = k + 1 THEN f[k] * ByteBase ELSE f[i]]
  <2>2. ASSUME NEW i \in 0 .. k + 1 PROVE g[i] = next(g, i)
    <3>1. CASE i = k + 1
      BY <3>1
    <3>2. CASE i # k + 1
      <4>1. g[i] = f[i] /\ i \in 0 .. k /\ (i # 0 => i - 1 \in 0 .. k /\ g[i - 1] = f[i - 1])
        BY <3>2
      <4> QED
        BY <2>1, <4>1
    <3> QED
      BY <3>1, <3>2
  <2>3. g = [i \in 0 .. k + 1 |-> next(g, i)]
    BY <2>2
  <2> HIDE DEF next, g
  <2>4. \E h : h = [i \in 0 .. k + 1 |-> next(h, i)]
    BY <2>3
  <2> QED
    BY <2>4
<1> HIDE DEF S
<1>4. n \in S
  BY <1>1, <1>2, <1>3, Induction
<1>5. \E f : f = [i \in 0 .. n |-> next(f, i)]
  BY <1>4 DEF S
<1> QED
  BY <1>5 DEF Weight

LEMMA WeightStep ==
  /\ Weight[0] = 1
  /\ \A i \in 1 .. 2 * IntLen : Weight[i] = Weight[i - 1] * ByteBase
  /\ \A i \in 0 .. 2 * IntLen : Weight[i] \in Nat \ {0}
<1> DEFINE n == 2 * IntLen
           S == {k \in Nat : k <= n => Weight[k] \in Nat \ {0}}
<1>1. n \in Nat /\ ByteBase \in Nat \ {0}
  BY NetBaseAssumption
<1> HIDE DEF n
<1>2. Weight[0] = 1 /\ \A i \in 1 .. n : Weight[i] = Weight[i - 1] * ByteBase
  BY <1>1, WeightExists DEF n
<1>3. 0 \in S
  BY <1>2
<1>4. ASSUME NEW k \in Nat, k \in S PROVE k + 1 \in S
  <2> SUFFICES ASSUME k + 1 <= n PROVE Weight[k + 1] \in Nat \ {0}
    OBVIOUS
  <2>1. Weight[k] \in Nat \ {0} /\ Weight[k + 1] = Weight[k] * ByteBase
    BY <1>1, <1>2, <1>4
  <2> QED
    BY <1>1, <2>1
<1>5. \A k \in Nat : k \in S
  <2> HIDE DEF S
  <2> QED
    BY <1>3, <1>4, Induction
<1> QED
  BY <1>1, <1>2, <1>5 DEF n

LEMMA WeightAdds ==
  ASSUME NEW i \in Nat, NEW j \in Nat, i + j <= 2 * IntLen
  PROVE  Weight[i + j] = Weight[i] * Weight[j]
<1> DEFINE S == {k \in Nat : k <= j => Weight[i + k] = Weight[i] * Weight[k]}
<1>1. 2 * IntLen \in Nat /\ ByteBase \in Nat
  BY NetBaseAssumption
<1>2. 0 \in S
  BY <1>1, WeightStep
<1>3. ASSUME NEW k \in Nat, k \in S PROVE k + 1 \in S
  <2> SUFFICES ASSUME k + 1 <= j PROVE Weight[i + (k + 1)] = Weight[i] * Weight[k + 1]
    OBVIOUS
  <2>1. Weight[i + k] = Weight[i] * Weight[k]
    BY <1>3
  <2>2. /\ Weight[i + k] \in Nat /\ Weight[i] \in Nat /\ Weight[k] \in Nat
        /\ Weight[k + 1] = Weight[k] * ByteBase
        /\ Weight[i + (k + 1)] = Weight[i + k] * ByteBase
    <3>1. k + 1 \in 1 .. 2 * IntLen /\ i + (k + 1) \in 1 .. 2 * IntLen
          /\ i + (k + 1) - 1 = i + k /\ (k + 1) - 1 = k
          /\ i \in 0 .. 2 * IntLen /\ k \in 0 .. 2 * IntLen /\ i + k \in 0 .. 2 * IntLen
      BY <1>1
    <3> QED
      BY <3>1, WeightStep
  <2>3. ASSUME NEW a \in Nat, NEW b \in Nat, NEW c \in Nat PROVE (a * b) * c = a * (b * c)
    OBVIOUS
  <2> QED
    BY <1>1, <2>1, <2>2, <2>3
<1> HIDE DEF S
<1>4. j \in S
  BY <1>2, <1>3, Induction
<1> QED
  BY <1>4 DEF S

LEMMA IntModFits ==
  /\ IntLen \in Nat \ {0} /\ IntMod \in Nat \ {0, 1}
  /\ Weight[2 * IntLen] = IntMod * IntMod
<1>1. IntLen \in Nat \ {0} /\ ByteBase \in Nat \ {0, 1}
  BY NetBaseAssumption
<1>2. IntLen \in 1 .. 2 * IntLen /\ IntLen \in 0 .. 2 * IntLen /\ IntLen - 1 \in 0 .. 2 * IntLen
  BY <1>1
<1>3. IntMod \in Nat \ {0} /\ Weight[IntLen - 1] \in Nat \ {0}
      /\ IntMod = Weight[IntLen - 1] * ByteBase
  BY <1>2, WeightStep DEF IntMod
<1>4. IntMod # 1
  <2>1. 1 * ByteBase <= Weight[IntLen - 1] * ByteBase
    BY <1>1, <1>3, TimesMonotonic
  <2> QED
    BY <1>1, <1>3, <2>1
<1>5. IntLen + IntLen = 2 * IntLen
  BY <1>1
<1>6. Weight[IntLen + IntLen] = Weight[IntLen] * Weight[IntLen]
  BY <1>1, <1>5, WeightAdds
<1> QED
  BY <1>1, <1>3, <1>4, <1>5, <1>6 DEF IntMod

--------------------------------------------------------------------------------
(* Numbers and their bytes.                                                    *)

(* The sums that Unsigned adds up, one byte after the other.                   *)
LEMMA UnsignedSums ==
  ASSUME NEW c, Len(c) \in Nat, \A i \in 1 .. Len(c) : c[i] \in Int
  PROVE  \E f \in [0 .. Len(c) -> Int] :
           /\ f[0] = 0 /\ \A i \in 1 .. Len(c) : f[i] = f[i - 1] * ByteBase + c[i]
           /\ Unsigned(c) = f[Len(c)]
<1> DEFINE n == Len(c)
           next(f, i) == IF i = 0 THEN 0 ELSE f[i - 1] * ByteBase + c[i]
           upTo == CHOOSE f : f = [i \in 0 .. n |-> next(f, i)]
<1>1. ByteBase \in Int
  BY NetBaseAssumption
<1>2. Unsigned(c) = upTo[n]
  BY DEF Unsigned
<1>3. \E f : f = [i \in 0 .. n |-> next(f, i)]
  <2> DEFINE S == {k \in Nat : k <= n => \E f : f = [i \in 0 .. k |-> next(f, i)]}
  <2>1. 0 \in S
    <3>1. [i \in 0 .. 0 |-> 0] = [i \in 0 .. 0 |-> next([j \in 0 .. 0 |-> 0], i)]
      OBVIOUS
    <3> QED
      BY <3>1
  <2>2. ASSUME NEW k \in Nat, k \in S PROVE k + 1 \in S
    <3> SUFFICES ASSUME k + 1 <= n PROVE \E f : f = [i \in 0 .. k + 1 |-> next(f, i)]
      OBVIOUS
    <3>1. PICK f : f = [i \in 0 .. k |-> next(f, i)]
      BY <2>2
    <3> DEFINE g == [i \in 0 .. k + 1 |-> IF i = k + 1 THEN f[k] * ByteBase + c[k + 1] ELSE f[i]]
    <3>2. ASSUME NEW i \in 0 .. k + 1 PROVE g[i] = next(g, i)
      <4>1. CASE i = k + 1
        BY <4>1
      <4>2. CASE i # k + 1
        <5>1. g[i] = f[i] /\ i \in 0 .. k /\ (i # 0 => i - 1 \in 0 .. k /\ g[i - 1] = f[i - 1])
          BY <4>2
        <5> QED
          BY <3>1, <5>1
      <4> QED
        BY <4>1, <4>2
    <3>3. g = [i \in 0 .. k + 1 |-> next(g, i)]
      BY <3>2
    <3> QED
      BY <3>3
  <2> HIDE DEF S
  <2>3. n \in S
    BY <2>1, <2>2, Induction
  <2> QED
    BY <2>3 DEF S
<1>4. upTo = [i \in 0 .. n |-> next(upTo, i)]
  BY <1>3
<1> HIDE DEF upTo
<1>5. \A k \in 0 .. n : upTo[k] \in Int
  <2> DEFINE S == {k \in Nat : k <= n => upTo[k] \in Int}
  <2>1. 0 \in S
    BY <1>4
  <2>2. ASSUME NEW k \in Nat, k \in S PROVE k + 1 \in S
    <3> SUFFICES ASSUME k + 1 <= n PROVE upTo[k + 1] \in Int
      OBVIOUS
    <3>1. upTo[k] \in Int /\ c[k + 1] \in Int
      BY <2>2
    <3>2. upTo[k + 1] = upTo[k] * ByteBase + c[k + 1]
      BY <1>4
    <3> QED
      BY <1>1, <3>1, <3>2
  <2> HIDE DEF S
  <2>3. \A k \in Nat : k \in S
    BY <2>1, <2>2, Induction
  <2> QED
    BY <2>3 DEF S
<1>6. upTo \in [0 .. n -> Int]
  BY <1>4, <1>5
<1>7. upTo[0] = 0
  BY <1>4
<1>8. \A i \in 1 .. n : upTo[i] = upTo[i - 1] * ByteBase + c[i]
  BY <1>4
<1> QED
  BY <1>2, <1>6, <1>7, <1>8

(* What a header announces is a number, whatever its bytes.                    *)
LEMMA UnsignedIsInt ==
  ASSUME NEW c, Len(c) \in Nat, \A i \in 1 .. Len(c) : c[i] \in Int
  PROVE  Unsigned(c) \in Int
BY UnsignedSums

LEMMA BytesFit ==
  ASSUME NEW n \in Int, NEW len \in 0 .. 2 * IntLen
  PROVE  /\ Bytes(n, len) \in Seq(Byte) /\ Len(Bytes(n, len)) = len
         /\ \A i \in 1 .. len : Bytes(n, len)[i] = (n \div Weight[len - i]) % ByteBase
<1>1. ByteBase \in Nat \ {0} /\ 2 * IntLen \in Nat
  BY NetBaseAssumption
<1>2. ASSUME NEW i \in 1 .. len PROVE (n \div Weight[len - i]) % ByteBase \in Byte
  <2>1. Weight[len - i] \in Nat \ {0}
    BY <1>1, WeightStep
  <2>2. n \div Weight[len - i] \in Int
    BY <2>1, DivMod
  <2> QED
    BY <1>1, <2>2, DivMod DEF Byte
<1>3. Bytes(n, len) \in [1 .. len -> Byte]
  BY <1>2 DEF Bytes
<1>4. Bytes(n, len) \in Seq(Byte) /\ Len(Bytes(n, len)) = len
  BY <1>3, IsASeq, LenProperties
<1> QED
  BY <1>4 DEF Bytes

(* The bytes of a number that they can hold add up to the number.              *)
LEMMA UnsignedOfBytes ==
  ASSUME NEW len \in 0 .. 2 * IntLen, NEW n \in 0 .. Weight[len] - 1
  PROVE  Unsigned(Bytes(n, len)) = n
<1> DEFINE c == Bytes(n, len)
<1>1. /\ ByteBase \in Nat \ {0} /\ 2 * IntLen \in Nat /\ Weight[len] \in Nat \ {0}
      /\ n \in Nat /\ n < Weight[len]
  BY NetBaseAssumption, WeightStep
<1>2. /\ c \in Seq(Byte) /\ Len(c) = len
      /\ \A i \in 1 .. len : c[i] = (n \div Weight[len - i]) % ByteBase
  BY <1>1, BytesFit
<1> HIDE DEF c
<1>3. \A i \in 1 .. len : c[i] \in Int
  BY <1>1, <1>2, ElementOfSeq DEF Byte
<1>a. Len(c) \in Nat /\ \A i \in 1 .. Len(c) : c[i] \in Int
  BY <1>2, <1>3
<1>4. PICK f \in [0 .. len -> Int] :
           /\ f[0] = 0 /\ \A i \in 1 .. len : f[i] = f[i - 1] * ByteBase + c[i]
           /\ Unsigned(c) = f[len]
  BY <1>2, <1>a, UnsignedSums
<1> DEFINE S == {k \in Nat : k <= len => f[k] = n \div Weight[len - k]}
<1>5. 0 \in S
  <2>1. n \div Weight[len] \in 0 .. 1 - 1
    <3>1. n < 1 * Weight[len]
      BY <1>1
    <3> QED
      BY <1>1, <3>1, QuotientBelow
  <2>2. len - 0 = len
    BY <1>1
  <2> QED
    BY <1>4, <2>1, <2>2
<1>6. ASSUME NEW k \in Nat, k \in S PROVE k + 1 \in S
  <2> SUFFICES ASSUME k + 1 <= len PROVE f[k + 1] = n \div Weight[len - (k + 1)]
    OBVIOUS
  <2> DEFINE w == Weight[len - (k + 1)]
             x == n \div w
  <2>1. w \in Nat \ {0} /\ Weight[len - k] = w * ByteBase
    <3>1. len - k \in 1 .. 2 * IntLen /\ (len - k) - 1 = len - (k + 1)
          /\ len - (k + 1) \in 0 .. 2 * IntLen
      BY <1>1
    <3> QED
      BY <3>1, WeightStep
  <2>2. f[k] = x \div ByteBase
    <3>1. f[k] = n \div Weight[len - k]
      BY <1>6
    <3>2. (n \div w) \div ByteBase = n \div (w * ByteBase)
      BY <1>1, <2>1, DivDiv
    <3> QED
      BY <2>1, <3>1, <3>2
  <2>3. f[k + 1] = f[k] * ByteBase + c[k + 1] /\ c[k + 1] = x % ByteBase
    BY <1>1, <1>2, <1>4
  <2>4. x \in Int
    <3> HIDE DEF w
    <3> QED
      BY <1>1, <2>1, DivMod
  <2> HIDE DEF x, w
  <2>5. x = (x \div ByteBase) * ByteBase + (x % ByteBase)
    BY <1>1, <2>4, DivMod
  <2>6. f[k + 1] = x
    BY <2>2, <2>3, <2>5
  <2> QED
    BY <2>6 DEF x, w
<1> HIDE DEF S
<1>7. len \in S
  <2>1. len \in Nat
    BY <1>1
  <2> QED
    BY <1>5, <1>6, <2>1, Induction
<1>8. f[len] = n \div Weight[0]
  <2>1. len - len = 0 /\ len \in Nat
    BY <1>1
  <2> QED
    BY <1>7, <2>1 DEF S
<1>9. n \div 1 = n
  BY <1>1
<1> QED
  BY <1>4, <1>8, <1>9, WeightStep DEF c

(* The sum of bytes is below their weight, and its bytes are these.            *)
LEMMA BytesOfUnsigned ==
  ASSUME NEW c \in Seq(Byte), Len(c) <= 2 * IntLen
  PROVE  Unsigned(c) \in 0 .. Weight[Len(c)] - 1 /\ Bytes(Unsigned(c), Len(c)) = c
<1> DEFINE n == Len(c)
<1>1. /\ ByteBase \in Nat \ {0} /\ 2 * IntLen \in Nat /\ n \in 0 .. 2 * IntLen
      /\ \A k \in 0 .. n : Weight[k] \in Nat \ {0} 
      /\ \A k \in 1 .. n : Weight[k] = Weight[k - 1] * ByteBase
      /\ Weight[0] = 1
  BY NetBaseAssumption, WeightStep, LenProperties
<1>2. \A i \in 1 .. n : c[i] \in 0 .. ByteBase - 1
  BY ElementOfSeq DEF Byte
<1>3. PICK f \in [0 .. n -> Int] :
           /\ f[0] = 0 /\ \A i \in 1 .. n : f[i] = f[i - 1] * ByteBase + c[i]
           /\ Unsigned(c) = f[n]
  BY <1>1, <1>2, UnsignedSums
<1> HIDE DEF n
<1>4. \A k \in 0 .. n : f[k] \in 0 .. Weight[k] - 1
  <2> DEFINE S == {k \in Nat : k <= n => f[k] \in 0 .. Weight[k] - 1}
  <2>1. 0 \in S
    BY <1>1, <1>3
  <2>2. ASSUME NEW k \in Nat, k \in S PROVE k + 1 \in S
    <3> SUFFICES ASSUME k + 1 <= n PROVE f[k + 1] \in 0 .. Weight[k + 1] - 1
      OBVIOUS
    <3>1. f[k] \in Nat /\ f[k] <= Weight[k] - 1 /\ Weight[k] \in Nat \ {0}
      BY <1>1, <2>2
    <3>2. /\ f[k + 1] = f[k] * ByteBase + c[k + 1] /\ Weight[k + 1] = Weight[k] * ByteBase
          /\ c[k + 1] \in 0 .. ByteBase - 1
      BY <1>1, <1>2, <1>3
    <3>3. ASSUME NEW x \in Nat, NEW w \in Nat, x <= w - 1,
                 NEW b \in Nat \ {0}, NEW d \in 0 .. b - 1
          PROVE  x * b + d \in 0 .. w * b - 1
      <4>1. x * b <= (w - 1) * b /\ 0 * b <= x * b
        BY <3>3, TimesMonotonic
      <4> QED
        BY <4>1
    <3>4. /\ f[k] \in Nat /\ Weight[k] \in Nat /\ f[k] <= Weight[k] - 1
          /\ ByteBase \in Nat \ {0} /\ c[k + 1] \in 0 .. ByteBase - 1
      BY <1>1, <3>1, <3>2
    <3>5. f[k] * ByteBase + c[k + 1] \in 0 .. Weight[k] * ByteBase - 1
      BY <3>3, <3>4
    <3> QED
      BY <3>2, <3>5
  <2> HIDE DEF S
  <2>3. \A k \in Nat : k \in S
    BY <2>1, <2>2, Induction
  <2> QED
    BY <1>1, <2>3 DEF S
<1>5. f[n] \in Nat
  BY <1>1, <1>4
<1>6. \A k \in 0 .. n : f[n - k] = f[n] \div Weight[k]
  <2> DEFINE S == {k \in Nat : k <= n => f[n - k] = f[n] \div Weight[k]}
  <2>1. 0 \in S
    <3>1. n - 0 = n /\ f[n] \div 1 = f[n]
      BY <1>1, <1>5
    <3> QED
      BY <1>1, <3>1
  <2>2. ASSUME NEW k \in Nat, k \in S PROVE k + 1 \in S
    <3> SUFFICES ASSUME k + 1 <= n PROVE f[n - (k + 1)] = f[n] \div Weight[k + 1]
      OBVIOUS
    <3> DEFINE j == n - k
    <3>1. j \in 1 .. n /\ n - (k + 1) = j - 1
      BY <1>1
    <3>2. f[j] = f[n] \div Weight[k]
      BY <1>1, <2>2
    <3>3. f[j] = f[j - 1] * ByteBase + c[j] /\ f[j - 1] \in Int /\ c[j] \in 0 .. ByteBase - 1
      BY <1>1, <1>2, <1>3, <3>1
    <3> HIDE DEF j
    <3>4. f[j] \div ByteBase = f[j - 1]
      <4>1. ASSUME NEW q \in Int, NEW d \in 0 .. ByteBase - 1
            PROVE  (q * ByteBase + d) \div ByteBase = q
        BY <1>1, DivModUnique
      <4>2. (f[j - 1] * ByteBase + c[j]) \div ByteBase = f[j - 1]
        BY <3>3, <4>1
      <4> QED
        BY <3>3, <4>2
    <3>5. Weight[k + 1] = Weight[k] * ByteBase /\ Weight[k] \in Nat \ {0}
      BY <1>1
    <3>6. (f[n] \div Weight[k]) \div ByteBase = f[n] \div (Weight[k] * ByteBase)
      BY <1>1, <1>5, <3>5, DivDiv
    <3> QED
      BY <3>1, <3>2, <3>4, <3>5, <3>6
  <2> HIDE DEF S
  <2>3. \A k \in Nat : k \in S
    BY <2>1, <2>2, Induction
  <2> QED
    BY <1>1, <2>3 DEF S
<1>7. ASSUME NEW i \in 1 .. n PROVE Bytes(f[n], n)[i] = c[i]
  <2>1. Bytes(f[n], n)[i] = (f[n] \div Weight[n - i]) % ByteBase
    BY DEF Bytes
  <2>2. n - i \in 0 .. n /\ n - (n - i) = i
    BY <1>1
  <2>3. f[i] = f[n] \div Weight[n - i]
    BY <1>6, <2>2
  <2>4. f[i] = f[i - 1] * ByteBase + c[i] /\ f[i - 1] \in Int /\ c[i] \in 0 .. ByteBase - 1
    BY <1>1, <1>2, <1>3
  <2>5. f[i] % ByteBase = c[i]
    <3>1. ASSUME NEW q \in Int, NEW d \in 0 .. ByteBase - 1
          PROVE  (q * ByteBase + d) % ByteBase = d
      BY <1>1, DivModUnique
    <3>2. (f[i - 1] * ByteBase + c[i]) % ByteBase = c[i]
      BY <2>4, <3>1
    <3> QED
      BY <2>4, <3>2
  <2> QED
    BY <2>1, <2>3, <2>5
<1>8. Bytes(f[n], n) \in Seq(Byte) /\ Len(Bytes(f[n], n)) = n
  BY <1>1, <1>5, BytesFit
<1>9. Bytes(f[n], n) = c
  BY <1>7, <1>8, SeqEqual DEF n
<1>10. n \in 0 .. n
  BY <1>1
<1> QED
  BY <1>3, <1>4, <1>9, <1>10 DEF n

--------------------------------------------------------------------------------
(* An int and its bytes.                                                       *)

LEMMA HtonlTwice ==
  ASSUME NEW c \in Seq(Byte)
  PROVE  htonl(c) \in Seq(Byte) /\ Len(htonl(c)) = Len(c) /\ htonl(htonl(c)) = c
<1>1. ASSUME NEW d \in Seq(Byte)
      PROVE  /\ Reverse(d) \in Seq(Byte) /\ Len(Reverse(d)) = Len(d)
             /\ \A i \in 1 .. Len(d) : Reverse(d)[i] = d[Len(d) - i + 1]
  <2>1. Len(d) \in Nat /\ \A i \in 1 .. Len(d) : d[i] \in Byte
    BY ElementOfSeq, LenProperties
  <2>2. \A i \in 1 .. Len(d) : d[Len(d) - i + 1] \in Byte
    BY <2>1
  <2>3. Reverse(d) \in [1 .. Len(d) -> Byte]
    BY <2>2 DEF Reverse
  <2>4. Reverse(d) \in Seq(Byte) /\ Len(Reverse(d)) = Len(d)
    BY <2>1, <2>3, LenProperties
  <2> QED
    BY <2>4 DEF Reverse
<1>2. Reverse(c) \in Seq(Byte) /\ Len(Reverse(c)) = Len(c)
      /\ \A i \in 1 .. Len(c) : Reverse(c)[i] = c[Len(c) - i + 1]
  BY <1>1
<1>3. PICK d \in Seq(Byte) : d = Reverse(c)
  BY <1>2
<1>4. Reverse(d) \in Seq(Byte) /\ Len(Reverse(d)) = Len(d)
      /\ \A i \in 1 .. Len(d) : Reverse(d)[i] = d[Len(d) - i + 1]
  BY <1>1
<1>5. ASSUME NEW i \in 1 .. Len(c) PROVE Reverse(d)[i] = c[i]
  <2>1. Len(c) \in Nat /\ Len(d) = Len(c)
    BY <1>2, <1>3, LenProperties
  <2>2. Reverse(d)[i] = d[Len(c) - i + 1]
    BY <1>4, <2>1
  <2>3. Len(c) - i + 1 \in 1 .. Len(c) /\ Len(c) - (Len(c) - i + 1) + 1 = i
    BY <2>1
  <2>4. d[Len(c) - i + 1] = c[Len(c) - (Len(c) - i + 1) + 1]
    BY <1>2, <1>3, <2>3
  <2> QED
    BY <2>2, <2>3, <2>4
<1>6. Reverse(d) = c
  BY <1>2, <1>3, <1>4, <1>5, SeqEqual
<1> QED
  BY <1>2, <1>3, <1>6 DEF htonl

(* An int is one of the numbers its bits can stand for.                        *)
LEMMA SignedOfBits ==
  ASSUME NEW n \in Int32
  PROVE  n % IntMod \in 0 .. IntMod - 1 /\ Signed(n % IntMod) = n
<1> DEFINE m == IntMod
<1>1. m \in Nat \ {0, 1} /\ n \in Int /\ -(m \div 2) <= n /\ n <= (m + 1) \div 2 - 1
  BY IntModFits DEF Int32
<1> HIDE DEF m
<1>2. m \div 2 \in Int /\ (m + 1) \div 2 \in Int /\ (m - 1) \div 2 \in Int
      /\ (m + 1) \div 2 - 1 <= (m - 1) \div 2 /\ (m + 1) \div 2 - 1 < m
      /\ m - m \div 2 > (m - 1) \div 2 /\ m \div 2 <= m
  BY <1>1
<1>3. CASE n >= 0
  <2>1. n \in 0 .. m - 1 /\ n = 0 * m + n
    BY <1>1, <1>2, <1>3
  <2>2. n % m = n
    BY <1>1, <2>1, DivModUnique
  <2> QED
    BY <1>1, <1>2, <1>3, <2>1, <2>2 DEF Signed, m
<1>4. CASE n < 0
  <2>1. n + m \in 0 .. m - 1 /\ n = (-1) * m + (n + m)
    BY <1>1, <1>2, <1>4
  <2>2. n % m = n + m
    BY <1>1, <2>1, DivModUnique
  <2>3. n + m > (m - 1) \div 2
    BY <1>1, <1>2, <1>4
  <2> QED
    BY <1>1, <2>1, <2>2, <2>3 DEF Signed, m
<1> QED
  BY <1>1, <1>3, <1>4

(* CharToInt32 gives back the int that Int32ToChar has converted.              *)
LEMMA IntSurvives ==
  ASSUME NEW n \in Int32
  PROVE  /\ Int32ToChar(n) \in Seq(Byte) /\ Len(Int32ToChar(n)) = IntLen
         /\ CharToInt32(Int32ToChar(n)) = n
<1>1. PICK u \in 0 .. IntMod - 1 : u = n % IntMod /\ Signed(u) = n
  BY SignedOfBits
<1>2. IntLen \in 0 .. 2 * IntLen /\ Weight[IntLen] = IntMod /\ IntMod \in Nat /\ u \in Int
  BY IntModFits DEF IntMod
<1>3. PICK c \in Seq(Byte) : c = Bytes(u, IntLen) /\ Len(c) = IntLen
  BY <1>2, BytesFit
<1>4. Unsigned(c) = u
  BY <1>2, <1>3, UnsignedOfBytes
<1>5. htonl(c) \in Seq(Byte) /\ Len(htonl(c)) = IntLen /\ htonl(htonl(c)) = c
  BY <1>3, HtonlTwice
<1>6. Int32ToChar(n) = htonl(c)
  BY <1>1, <1>3 DEF Int32ToChar
<1> QED
  BY <1>1, <1>4, <1>5, <1>6 DEF CharToInt32

--------------------------------------------------------------------------------
(* A header and its bytes.                                                     *)

(* t begins with s.                                                            *)
Extends(t, s) == Len(s) <= Len(t) /\ \A i \in 1 .. Len(s) : t[i] = s[i]

(* A part that is put behind the others is found there, and what was there     *)
(* stays where it is.                                                          *)
LEMMA PartFits ==
  ASSUME NEW s \in Seq(Byte), NEW part \in Seq(Byte), NEW t \in Seq(Byte),
         Extends(t, s \o part)
  PROVE  /\ s \o part \in Seq(Byte) /\ Len(s \o part) = Len(s) + Len(part)
         /\ Extends(t, s) /\ SubSeq(t, Len(s) + 1, Len(s) + Len(part)) = part
<1>1. /\ s \o part \in Seq(Byte) /\ Len(s \o part) = Len(s) + Len(part)
      /\ \A i \in 1 .. Len(s) + Len(part) :
           (s \o part)[i] = IF i <= Len(s) THEN s[i] ELSE part[i - Len(s)]
      /\ Len(s) \in Nat /\ Len(part) \in Nat /\ Len(t) \in Nat
  BY ConcatProperties, LenProperties
<1>2. Len(s) + Len(part) <= Len(t) /\ \A i \in 1 .. Len(s) + Len(part) : t[i] = (s \o part)[i]
  BY <1>1 DEF Extends
<1>3. \A i \in 1 .. Len(s) : t[i] = s[i]
  BY <1>1, <1>2
<1>4. \A i \in 1 .. Len(part) : t[Len(s) + i] = part[i]
  BY <1>1, <1>2
<1> DEFINE found == SubSeq(t, Len(s) + 1, Len(s) + Len(part))
<1>5. \A i \in Len(s) + 1 .. Len(s) + Len(part) : t[i] \in Byte
  BY <1>1, <1>2, ElementOfSeq
<1>6. /\ found \in Seq(Byte) /\ Len(found) = Len(part)
      /\ \A i \in 1 .. Len(part) : found[i] = t[Len(s) + i]
  BY <1>1, <1>5, SubSeqProperties
<1> HIDE DEF found
<1>7. found = part
  BY <1>4, <1>6, SeqEqual
<1> QED
  BY <1>1, <1>2, <1>3, <1>7 DEF Extends, found

(* A header survives the wire, every field of it at its own offset: any ints,  *)
(* negative ones too, and any bytes (NetPacketToChar, CharToNetPacket).        *)
LEMMA PacketSurvives ==
  ASSUME NEW p \in NetPacket
  PROVE  CharToNetPacket(NetPacketToChar(p)) = p
<1>1. /\ p.version \in Int32 /\ p.type \in Int32 /\ p.datalen \in Int32 /\ p.reserve \in Int32
      /\ p.header \in Byte /\ p.tail \in Byte /\ p.check \in [1 .. CheckLen -> Byte]
      /\ CheckLen \in Nat /\ IntLen \in Nat
  BY NetBaseAssumption DEF NetPacket
<1>2. PICK v \in Seq(Byte) : v = Int32ToChar(p.version) /\ Len(v) = IntLen
                              /\ CharToInt32(v) = p.version
  BY <1>1, IntSurvives
<1>3. PICK marks \in Seq(Byte) : marks = <<p.header, p.tail>>
  <2>1. ASSUME NEW x \in Byte, NEW y \in Byte PROVE <<x, y>> \in Seq(Byte)
    OBVIOUS
  <2>2. <<p.header, p.tail>> \in Seq(Byte)
    BY <1>1, <2>1
  <2> QED
    BY <2>2
<1>4. PICK check \in Seq(Byte) : check = p.check /\ Len(check) = CheckLen
  BY <1>1, LenProperties
<1>5. PICK type \in Seq(Byte) : type = Int32ToChar(p.type) /\ Len(type) = IntLen
                                 /\ CharToInt32(type) = p.type
  BY <1>1, IntSurvives
<1>6. PICK data \in Seq(Byte) : data = Int32ToChar(p.datalen) /\ Len(data) = IntLen
                                 /\ CharToInt32(data) = p.datalen
  BY <1>1, IntSurvives
<1>7. PICK res \in Seq(Byte) : res = Int32ToChar(p.reserve) /\ Len(res) = IntLen
                                /\ CharToInt32(res) = p.reserve
  BY <1>1, IntSurvives
<1> DEFINE s2 == v \o marks
           s3 == s2 \o check
           s4 == s3 \o type
           s5 == s4 \o data
           c == s5 \o res
<1>8. c = NetPacketToChar(p)
  BY <1>2, <1>3, <1>4, <1>5, <1>6, <1>7 DEF NetPacketToChar
<1>9. Len(marks) = 2 /\ marks[1] = p.header /\ marks[2] = p.tail
  BY <1>3
<1>10. /\ s2 \in Seq(Byte) /\ s3 \in Seq(Byte) /\ s4 \in Seq(Byte) /\ s5 \in Seq(Byte)
       /\ c \in Seq(Byte)
  <2>1. ASSUME NEW s \in Seq(Byte), NEW part \in Seq(Byte) PROVE s \o part \in Seq(Byte)
    BY ConcatProperties
  <2>2. s2 \in Seq(Byte)
    BY <2>1
  <2> HIDE DEF s2
  <2>3. s3 \in Seq(Byte)
    BY <2>1, <2>2
  <2> HIDE DEF s3
  <2>4. s4 \in Seq(Byte)
    BY <2>1, <2>3
  <2> HIDE DEF s4
  <2>5. s5 \in Seq(Byte)
    BY <2>1, <2>4
  <2> HIDE DEF s5
  <2>6. c \in Seq(Byte)
    BY <2>1, <2>5
  <2> QED
    BY <2>2, <2>3, <2>4, <2>5, <2>6
<1>11. Extends(c, s5 \o res) /\ Len(c) \in Nat
  BY <1>10, LenProperties DEF Extends
<1> HIDE DEF c
<1>12. /\ Extends(c, s4 \o data) /\ SubSeq(c, Len(s5) + 1, Len(s5) + Len(res)) = res
  BY <1>10, <1>11, PartFits
<1>13. /\ Len(s5) = Len(s4) + Len(data)
       /\ Extends(c, s3 \o type) /\ SubSeq(c, Len(s4) + 1, Len(s4) + Len(data)) = data
  BY <1>10, <1>12, PartFits
<1>14. /\ Len(s4) = Len(s3) + Len(type)
       /\ Extends(c, s2 \o check) /\ SubSeq(c, Len(s3) + 1, Len(s3) + Len(type)) = type
  BY <1>10, <1>13, PartFits
<1>15. /\ Len(s3) = Len(s2) + Len(check)
       /\ Extends(c, v \o marks) /\ SubSeq(c, Len(s2) + 1, Len(s2) + Len(check)) = check
  BY <1>10, <1>14, PartFits
<1>16. /\ Len(s2) = Len(v) + Len(marks) /\ Extends(c, v)
  BY <1>10, <1>15, PartFits
<1> HIDE DEF s2, s3, s4, s5
<1>17. SubSeq(c, 0 + 1, 0 + IntLen) = v
  <2>1. IntLen <= Len(c) /\ \A i \in 1 .. IntLen : c[i] = v[i]
    BY <1>2, <1>16 DEF Extends
  <2> DEFINE found == SubSeq(c, 1, IntLen)
  <2>2. \A i \in 1 .. IntLen : c[i] \in Byte
    BY <1>2, <2>1, ElementOfSeq
  <2>3. found \in Seq(Byte) /\ Len(found) = IntLen /\ \A i \in 1 .. IntLen : found[i] = c[i]
    BY <1>1, <2>2, SubSeqProperties
  <2> HIDE DEF found
  <2>4. found = v
    BY <1>2, <2>1, <2>3, SeqEqual
  <2> QED
    BY <1>1, <2>4 DEF found
<1>18. c[IntLen + 1] = p.header /\ c[IntLen + 2] = p.tail
  <2> DEFINE begin == v \o marks
  <2>1. /\ Len(begin) = IntLen + 2
        /\ \A i \in 1 .. IntLen + 2 : begin[i] = IF i <= IntLen THEN v[i] ELSE marks[i - IntLen]
    <3>1. /\ Len(begin) = Len(v) + Len(marks)
          /\ \A i \in 1 .. Len(v) + Len(marks) :
               begin[i] = IF i <= Len(v) THEN v[i] ELSE marks[i - Len(v)]
      BY ConcatProperties
    <3> HIDE DEF begin
    <3> QED
      BY <1>2, <1>9, <3>1
  <2>2. Extends(c, begin)
    BY <1>15
  <2> HIDE DEF begin
  <2>3. begin[IntLen + 1] = marks[1] /\ begin[IntLen + 2] = marks[2]
    BY <1>1, <2>1
  <2>4. c[IntLen + 1] = begin[IntLen + 1] /\ c[IntLen + 2] = begin[IntLen + 2]
    BY <1>1, <2>1, <2>2 DEF Extends
  <2> QED
    BY <1>9, <2>3, <2>4
<1>19. /\ Len(s2) = AtCheck /\ Len(s3) = AtType /\ Len(s4) = AtDatalen /\ Len(s5) = AtReserve
  BY <1>1, <1>2, <1>4, <1>5, <1>6, <1>9, <1>13, <1>14, <1>15, <1>16
     DEF AtCheck, AtType, AtDatalen, AtReserve
<1>20. /\ IntAt(c, 0) = p.version /\ IntAt(c, AtType) = p.type
       /\ IntAt(c, AtDatalen) = p.datalen /\ IntAt(c, AtReserve) = p.reserve
       /\ SubSeq(c, AtCheck + 1, AtCheck + CheckLen) = p.check
  BY <1>2, <1>4, <1>5, <1>6, <1>7, <1>12, <1>13, <1>14, <1>15, <1>17, <1>19 DEF IntAt
<1>21. CharToNetPacket(c) = [version |-> p.version, header |-> p.header, tail |-> p.tail,
           check |-> p.check, type |-> p.type, datalen |-> p.datalen, reserve |-> p.reserve]
  BY <1>18, <1>20 DEF CharToNetPacket
<1>22. p = [version |-> p.version, header |-> p.header, tail |-> p.tail,
           check |-> p.check, type |-> p.type, datalen |-> p.datalen, reserve |-> p.reserve]
  BY DEF NetPacket
<1> QED
  BY <1>8, <1>21, <1>22

(* What the run evaluates for ints of two small bytes, for every width.        *)
THEOREM HeadersSurvive ==
  ASSUME NEW packets \in SUBSET NetPacket
  PROVE  HeaderSurvives(packets)
BY IntSurvives, PacketSurvives DEF HeaderSurvives

--------------------------------------------------------------------------------
(* A 64-bit number and its bytes.                                              *)

(* The bytes in front and the bytes behind of a 64-bit number.                 *)
LEMMA UnsignedSplit ==
  ASSUME NEW c \in Seq(Byte), Len(c) = 2 * IntLen
  PROVE  LET upper == SubSeq(c, 1, IntLen)
             lower == SubSeq(c, IntLen + 1, 2 * IntLen)
         IN  /\ Unsigned(upper) \in 0 .. IntMod - 1 /\ Unsigned(lower) \in 0 .. IntMod - 1
             /\ Unsigned(c) = Unsigned(upper) * IntMod + Unsigned(lower)
             /\ lower \in Seq(Byte) /\ Len(lower) = IntLen /\ lower[1] = c[IntLen + 1]
<1> DEFINE upper == SubSeq(c, 1, IntLen)
           lower == SubSeq(c, IntLen + 1, 2 * IntLen)
           n == IntLen
<1>1. n \in Nat \ {0} /\ ByteBase \in Nat /\ Weight[n] = IntMod /\ IntMod \in Nat
  BY IntModFits, NetBaseAssumption DEF IntMod
<1>2. \A i \in 1 .. 2 * n : c[i] \in Byte
  BY ElementOfSeq
<1>3. /\ upper \in Seq(Byte) /\ Len(upper) = n /\ \A i \in 1 .. n : upper[i] = c[i]
  <2>1. \A i \in 1 .. n : c[i] \in Byte
    BY <1>1, <1>2
  <2>2. /\ upper \in Seq(Byte) /\ Len(upper) = n
        /\ \A i \in 1 .. n - 1 + 1 : upper[i] = c[1 + i - 1]
    BY <1>1, <2>1, SubSeqProperties
  <2> HIDE DEF upper
  <2> QED
    BY <1>1, <2>2
<1>4. /\ lower \in Seq(Byte) /\ Len(lower) = n /\ \A i \in 1 .. n : lower[i] = c[n + i]
  <2>1. \A i \in n + 1 .. 2 * n : c[i] \in Byte
    BY <1>1, <1>2
  <2>2. /\ lower \in Seq(Byte) /\ Len(lower) = 2 * n - (n + 1) + 1
        /\ \A i \in 1 .. 2 * n - (n + 1) + 1 : lower[i] = c[(n + 1) + i - 1]
    BY <1>1, <2>1, SubSeqProperties
  <2> HIDE DEF lower
  <2> QED
    BY <1>1, <2>2
<1> HIDE DEF upper, lower
<1>5. Unsigned(upper) \in 0 .. IntMod - 1 /\ Unsigned(lower) \in 0 .. IntMod - 1
  BY <1>1, <1>3, <1>4, BytesOfUnsigned
<1>6. PICK f \in [0 .. 2 * n -> Int] :
           /\ f[0] = 0 /\ \A i \in 1 .. 2 * n : f[i] = f[i - 1] * ByteBase + c[i]
           /\ Unsigned(c) = f[2 * n]
  <2>1. Len(c) = 2 * n /\ Len(c) \in Nat /\ \A i \in 1 .. Len(c) : c[i] \in Int
    BY <1>1, <1>2 DEF Byte
  <2> QED
    BY <2>1, UnsignedSums
<1>7. PICK g \in [0 .. n -> Int] :
           /\ g[0] = 0 /\ \A i \in 1 .. n : g[i] = g[i - 1] * ByteBase + upper[i]
           /\ Unsigned(upper) = g[n]
  <2>1. Len(upper) = n /\ Len(upper) \in Nat /\ \A i \in 1 .. Len(upper) : upper[i] \in Int
    BY <1>1, <1>3, ElementOfSeq DEF Byte
  <2> QED
    BY <2>1, UnsignedSums
<1>8. PICK h \in [0 .. n -> Int] :
           /\ h[0] = 0 /\ \A i \in 1 .. n : h[i] = h[i - 1] * ByteBase + lower[i]
           /\ Unsigned(lower) = h[n]
  <2>1. Len(lower) = n /\ Len(lower) \in Nat /\ \A i \in 1 .. Len(lower) : lower[i] \in Int
    <3>1. \A i \in 1 .. Len(lower) : lower[i] \in Byte
      BY <1>4, ElementOfSeq
    <3> QED
      BY <1>1, <1>4, <3>1 DEF Byte
  <2> QED
    BY <2>1, UnsignedSums
<1> HIDE DEF n
<1>9. f[n] = g[n]
  <2> DEFINE S == {k \in Nat : k <= n => f[k] = g[k]}
  <2>1. 0 \in S
    BY <1>1, <1>6, <1>7
  <2>2. ASSUME NEW k \in Nat, k \in S PROVE k + 1 \in S
    <3> SUFFICES ASSUME k + 1 <= n PROVE f[k + 1] = g[k + 1]
      OBVIOUS
    <3>1. f[k] = g[k]
      BY <1>1, <2>2
    <3>2. f[k + 1] = f[k] * ByteBase + c[k + 1] /\ g[k + 1] = g[k] * ByteBase + upper[k + 1]
      <4>1. k + 1 \in 1 .. n /\ k + 1 \in 1 .. 2 * n /\ (k + 1) - 1 = k
        BY <1>1
      <4> QED
        BY <1>6, <1>7, <4>1
    <3>3. upper[k + 1] = c[k + 1]
      <4>1. k + 1 \in 1 .. n
        BY <1>1
      <4> QED
        BY <1>3, <4>1
    <3> QED
      BY <3>1, <3>2, <3>3
  <2> HIDE DEF S
  <2>3. \A k \in Nat : k \in S
    BY <2>1, <2>2, Induction
  <2> QED
    BY <1>1, <2>3 DEF S
<1>10. f[2 * n] = f[n] * Weight[n] + h[n]
  <2> DEFINE S == {k \in Nat : k <= n => f[n + k] = f[n] * Weight[k] + h[k]}
  <2>1. 0 \in S
    <3>1. n + 0 = n /\ f[n] \in Int
      BY <1>1
    <3> QED
      BY <1>8, <3>1, WeightStep
  <2>2. ASSUME NEW k \in Nat, k \in S PROVE k + 1 \in S
    <3> SUFFICES ASSUME k + 1 <= n PROVE f[n + (k + 1)] = f[n] * Weight[k + 1] + h[k + 1]
      OBVIOUS
    <3>1. f[n + k] = f[n] * Weight[k] + h[k]
      BY <1>1, <2>2
    <3>2. /\ f[n + (k + 1)] = f[n + k] * ByteBase + c[n + (k + 1)]
          /\ h[k + 1] = h[k] * ByteBase + lower[k + 1] /\ lower[k + 1] = c[n + (k + 1)]
      <4>1. n + (k + 1) \in 1 .. 2 * n /\ n + (k + 1) - 1 = n + k /\ k + 1 \in 1 .. n
            /\ (k + 1) - 1 = k
        BY <1>1
      <4>2. f[n + (k + 1)] = f[n + k] * ByteBase + c[n + (k + 1)]
        <5> DEFINE j == n + (k + 1)
        <5>1. j \in 1 .. 2 * n /\ j - 1 = n + k
          BY <1>1
        <5> HIDE DEF j
        <5>2. f[j] = f[j - 1] * ByteBase + c[j]
          BY <1>6, <5>1
        <5> QED
          BY <5>1, <5>2 DEF j
      <4>3. h[k + 1] = h[k] * ByteBase + lower[k + 1]
        BY <1>8, <4>1
      <4>4. lower[k + 1] = c[n + (k + 1)]
        BY <1>4, <4>1
      <4> QED
        BY <4>2, <4>3, <4>4
    <3>3. Weight[k + 1] = Weight[k] * ByteBase /\ Weight[k] \in Nat
      <4>1. k + 1 \in 1 .. 2 * n /\ (k + 1) - 1 = k /\ k \in 0 .. 2 * n
        BY <1>1
      <4> QED
        BY <4>1, WeightStep DEF n
    <3>4. f[n] \in Int /\ h[k] \in Int /\ lower[k + 1] \in Int
      <4>1. f[n] \in Int /\ h[k] \in Int /\ k + 1 \in 1 .. Len(lower)
        BY <1>1, <1>4
      <4>2. lower[k + 1] \in Byte
        BY <1>4, <4>1, ElementOfSeq
      <4>3. \A x \in Byte : x \in Int
        BY <1>1 DEF Byte
      <4> QED
        BY <4>1, <4>2, <4>3
    <3>5. ASSUME NEW a \in Int, NEW w \in Int, NEW x \in Int, NEW b \in Int, NEW d \in Int
          PROVE  (a * w + x) * b + d = a * (w * b) + (x * b + d)
      OBVIOUS
    <3>6. (f[n] * Weight[k] + h[k]) * ByteBase + lower[k + 1]
            = f[n] * (Weight[k] * ByteBase) + (h[k] * ByteBase + lower[k + 1])
      <4>1. PICK w \in Int : w = Weight[k]
        BY <3>3
      <4>2. PICK a \in Int, x \in Int, d \in Int : a = f[n] /\ x = h[k] /\ d = lower[k + 1]
        BY <3>4
      <4>3. ByteBase \in Int
        BY <1>1
      <4>4. (a * w + x) * ByteBase + d = a * (w * ByteBase) + (x * ByteBase + d)
        BY <3>5, <4>3
      <4> QED
        BY <4>1, <4>2, <4>4
    <3> QED
      BY <3>1, <3>2, <3>3, <3>6
  <2> HIDE DEF S
  <2>3. \A k \in Nat : k \in S
    BY <2>1, <2>2, Induction
  <2>4. n + n = 2 * n /\ n \in Nat /\ n <= n
    BY <1>1
  <2>5. f[n + n] = f[n] * Weight[n] + h[n]
    BY <2>3, <2>4 DEF S
  <2> QED
    BY <2>4, <2>5
<1>11. Unsigned(c) = Unsigned(upper) * IntMod + Unsigned(lower)
  BY <1>1, <1>6, <1>7, <1>8, <1>9, <1>10
<1>12. lower[1] = c[IntLen + 1]
  BY <1>1, <1>4 DEF n
<1> QED
  BY <1>4, <1>5, <1>11, <1>12 DEF upper, lower, n

(* With an even number of values of a byte, as with 256, an int is negative    *)
(* exactly when the top bit of its first byte is set.                          *)
LEMMA TopBitIsSign ==
  ASSUME NEW c \in Seq(Byte), Len(c) = IntLen, ByteBase % 2 = 0
  PROVE  Unsigned(c) > (IntMod - 1) \div 2 <=> c[1] >= ByteBase \div 2
<1> DEFINE u == Unsigned(c)
           w == Weight[IntLen - 1]
           d == u \div w
           r == u % w
           half == ByteBase \div 2
<1>1. /\ IntLen \in Nat \ {0} /\ ByteBase \in Nat \ {0} /\ w \in Nat \ {0}
      /\ IntMod = w * ByteBase /\ Weight[IntLen] = IntMod
  <2>1. IntLen - 1 \in 0 .. 2 * IntLen /\ IntLen \in 1 .. 2 * IntLen /\ ByteBase \in Nat \ {0}
    BY IntModFits, NetBaseAssumption
  <2> QED
    BY <2>1, IntModFits, WeightStep DEF IntMod
<1>2. u \in Nat /\ u < w * ByteBase /\ c = Bytes(u, IntLen)
  BY <1>1, BytesOfUnsigned
<1>3. u = d * w + r /\ r \in 0 .. w - 1 /\ d \in 0 .. ByteBase - 1
  <2> HIDE DEF u, w
  <2>0. u \in Int /\ w \in Nat \ {0}
    BY <1>1, <1>2
  <2>1. u = d * w + r /\ r \in 0 .. w - 1
    BY <2>0, DivMod
  <2>2. u < ByteBase * w
    BY <1>1, <1>2
  <2>3. d \in 0 .. ByteBase - 1
    BY <1>1, <1>2, <2>2, QuotientBelow
  <2> QED
    BY <2>1, <2>3
<1>4. c[1] = d
  <2> HIDE DEF u
  <2>1. c[1] = (u \div Weight[IntLen - 1]) % ByteBase
    <3>1. Bytes(u, IntLen)[1] = (u \div Weight[IntLen - 1]) % ByteBase
      BY <1>1 DEF Bytes
    <3> QED
      BY <1>2, <3>1
  <2> HIDE DEF d, w
  <2>2. d % ByteBase = d
    BY <1>1, <1>3, ModOfSmall
  <2> QED
    BY <2>1, <2>2 DEF d, w
<1>5. ByteBase = 2 * half /\ half \in Nat
  BY <1>1
<1> HIDE DEF u, w, d, r, half
<1>6. IntMod = 2 * (half * w) /\ half * w \in Nat
  BY <1>1, <1>5
<1>7. (IntMod - 1) \div 2 = half * w - 1
  <2>1. PICK m \in Nat : m = half * w
    BY <1>6
  <2>2. (2 * m - 1) \div 2 = m - 1
    OBVIOUS
  <2> QED
    BY <1>6, <2>1, <2>2
<1>8. CASE d >= half
  <2>1. half * w <= d * w
    BY <1>1, <1>3, <1>5, <1>8, TimesMonotonic
  <2>2. d * w \in Int
    BY <1>1, <1>3
  <2> QED
    BY <1>3, <1>4, <1>6, <1>7, <1>8, <2>1, <2>2 DEF u, half
<1>9. CASE d < half
  <2>1. d * w <= (half - 1) * w /\ (half - 1) * w = half * w - w
    BY <1>1, <1>3, <1>5, <1>9, TimesMonotonic
  <2>2. d * w \in Int
    BY <1>1, <1>3
  <2>3. u < half * w
    BY <1>1, <1>3, <1>6, <2>1, <2>2
  <2> QED
    BY <1>2, <1>3, <1>4, <1>5, <1>6, <1>7, <1>9, <2>3 DEF u, half
<1> QED
  BY <1>3, <1>5, <1>8, <1>9

(* CharToInt64 gives back what Int64ToChar has converted exactly if the top    *)
(* bit of the fifth of eight bytes is clear: with it set, the sum of the lower *)
(* four is a negative int and takes one from the upper half                    *)
(* (net_base.h:125-126). So it is for every width and either byte order.       *)
THEOREM LongsSurviveBelow ==
  ASSUME ByteBase % 2 = 0
  PROVE  Int64SurvivesBelow
<1> SUFFICES ASSUME NEW n \in UInt64
             PROVE  CharToInt64(Int64ToChar(n)) = n
                      <=> Int64ToChar(n)[IntLen + 1] < ByteBase \div 2
  BY DEF Int64SurvivesBelow
<1> DEFINE m == IntMod
           mm == IntMod * IntMod
           len == 2 * IntLen
<1>1. /\ m \in Nat \ {0, 1} /\ mm \in Nat \ {0} /\ len \in 0 .. 2 * IntLen /\ Weight[len] = mm
      /\ n \in 0 .. mm - 1 /\ IntLen \in Nat \ {0} /\ ByteBase \in Nat
  BY IntModFits, NetBaseAssumption DEF UInt64
<1>2. PICK b \in Seq(Byte) : b = Bytes(n, len) /\ Len(b) = len /\ Unsigned(b) = n
  <2>1. Bytes(n, len) \in Seq(Byte) /\ Len(Bytes(n, len)) = len
    BY <1>1, BytesFit
  <2>2. Unsigned(Bytes(n, len)) = n
    BY <1>1, UnsignedOfBytes
  <2> QED
    BY <2>1, <2>2
<1>3. PICK c \in Seq(Byte) : c = htonl(b) /\ Len(c) = len /\ htonl(c) = b
  BY <1>2, HtonlTwice
<1>4. Int64ToChar(n) = c
  BY <1>2, <1>3 DEF Int64ToChar
<1> DEFINE upper == Unsigned(SubSeq(c, 1, IntLen))
           lower == Unsigned(SubSeq(c, IntLen + 1, 2 * IntLen))
           u == Unsigned(c)
           x == (upper * m + LowerHalf(c)) % mm
<1>5. /\ upper \in 0 .. m - 1 /\ lower \in 0 .. m - 1 /\ u = upper * m + lower
      /\ lower > (m - 1) \div 2 <=> c[IntLen + 1] >= ByteBase \div 2
  BY <1>3, UnsignedSplit, TopBitIsSign
<1>6. u \in 0 .. mm - 1 /\ Bytes(u, len) = c
  BY <1>1, <1>3, BytesOfUnsigned
<1>7. CharToInt64(c) = Unsigned(htonl(Bytes(x, len)))
  BY DEF CharToInt64
<1>8. LowerHalf(c) = IF lower > (m - 1) \div 2 THEN lower - m ELSE lower
  BY DEF LowerHalf, Signed
<1> HIDE DEF m, mm, len, upper, lower, u
<1>a. c[IntLen + 1] \in Int /\ ByteBase \div 2 \in Int
  <2>1. IntLen + 1 \in 1 .. Len(c)
    BY <1>1, <1>3 DEF len
  <2>2. c[IntLen + 1] \in Byte
    BY <2>1, ElementOfSeq
  <2> QED
    BY <1>1, <2>2 DEF Byte
<1>9. CASE c[IntLen + 1] < ByteBase \div 2
  <2>1. LowerHalf(c) = lower
    BY <1>5, <1>8, <1>9, <1>a
  <2>2. x = u
    <3>1. x = u % mm
      BY <1>5, <2>1
    <3>2. u % mm = u
      BY <1>1, <1>6, ModOfSmall
    <3> QED
      BY <3>1, <3>2
  <2> HIDE DEF x
  <2> QED
    BY <1>2, <1>3, <1>4, <1>6, <1>7, <1>9, <2>2
<1>10. CASE ~(c[IntLen + 1] < ByteBase \div 2)
  <2>2. LowerHalf(c) = lower - m
    BY <1>5, <1>8, <1>10, <1>a
  <2>3. x = (u - m) % mm /\ u - m \in Int
    <3>1. upper * m + (lower - m) = (upper * m + lower) - m
      BY <1>1, <1>5
    <3> QED
      BY <1>1, <1>5, <1>6, <2>2, <3>1
  <2> HIDE DEF x
  <2> DEFINE q == (u - m) \div mm
  <2>4. u - m = q * mm + x /\ x \in 0 .. mm - 1 /\ q \in Int
    BY <1>1, <2>3, DivMod
  <2> HIDE DEF q
  <2>5. x # u
    <3> SUFFICES ASSUME x = u PROVE FALSE
      OBVIOUS
    <3>1. q * mm = -m
      BY <1>1, <1>6, <2>4
    <3>2. mm > m
      <4>1. 2 * m <= m * m
        BY <1>1, TimesMonotonic
      <4> QED
        BY <1>1, <4>1 DEF mm, m
    <3>3. CASE q >= 0
      <4>1. 0 * mm <= q * mm
        BY <1>1, <2>4, <3>3, TimesMonotonic
      <4> QED
        BY <1>1, <3>1, <4>1
    <3>4. CASE q < 0
      <4>1. q * mm <= (-1) * mm
        BY <1>1, <2>4, <3>4, TimesMonotonic
      <4> QED
        BY <1>1, <3>1, <3>2, <4>1
    <3> QED
      BY <2>4, <3>3, <3>4
  <2>6. PICK d \in Seq(Byte) : d = Bytes(x, len) /\ Len(d) = len /\ Unsigned(d) = x
    <3>0. x \in Int
      BY <1>1, <2>4
    <3>1. Bytes(x, len) \in Seq(Byte) /\ Len(Bytes(x, len)) = len
      BY <1>1, <3>0, BytesFit
    <3>2. Unsigned(Bytes(x, len)) = x
      BY <1>1, <2>4, UnsignedOfBytes
    <3> QED
      BY <3>1, <3>2
  <2>7. PICK e \in Seq(Byte) : e = htonl(d) /\ Len(e) = len /\ htonl(e) = d
    BY <2>6, HtonlTwice
  <2>8. Unsigned(e) # n
    <3> SUFFICES ASSUME Unsigned(e) = n PROVE FALSE
      OBVIOUS
    <3>1. e = b
      <4>1. Bytes(Unsigned(e), len) = e
        BY <1>1, <2>7, BytesOfUnsigned
      <4> QED
        BY <1>2, <4>1
    <3>2. d = c
      BY <1>3, <2>7, <3>1
    <3> QED
      BY <2>5, <2>6, <3>2 DEF u
  <2> QED
    BY <1>4, <1>7, <1>10, <2>6, <2>7, <2>8
<1> QED
  BY <1>9, <1>10
================================================================================
