------------------------ MODULE PodCircularBufferProofs ------------------------
(* Proofs about the circular buffer, for every capacity, item type and count.  *)
EXTENDS PodCircularBuffer, SequenceTheorems, TLAPS

(* The two flags tell apart exactly the states the positions cannot: when the  *)
(* positions coincide one of them is set, when they differ neither is, and     *)
(* they are never both set.                                                    *)
FlagsAgree ==
  /\ (readPos = writePos) <=> (isEmpty \/ isFull)
  /\ ~(isEmpty /\ isFull)

(* The positions and the flags together are inductive: which of the two cases  *)
(* equal positions stand for is decided by the flags, and whether a position   *)
(* stays in the array depends on it.                                           *)
Inv == TypeOK /\ FlagsAgree

(* A memcpy into the array from within a request leaves an array of items.     *)
LEMMA StoredType ==
  ASSUME NEW cells \in [Cells -> Item], NEW k \in Nat, NEW src \in [1 .. k -> Item],
         NEW at \in Int, NEW from \in Nat, NEW n \in Int, from + n <= k
  PROVE  Stored(cells, at, src, from, n) \in [Cells -> Item]
<1> SUFFICES ASSUME NEW c \in Cells
             PROVE  (IF at <= c /\ c < at + n THEN src[from + (c - at) + 1]
                                              ELSE cells[c]) \in Item
  BY Zenon DEF Stored
<1>1. CASE at <= c /\ c < at + n
  <2>1. from + (c - at) + 1 \in 1 .. k
    BY <1>1, BufAssumption, SMT DEF Cells
  <2> QED BY <1>1, <2>1, Zenon
<1>2. CASE ~(at <= c /\ c < at + n)
  BY <1>2, Zenon
<1> QED BY <1>1, <1>2, Zenon

LEMMA TupleType ==
  ASSUME NEW S, NEW n \in Nat, NEW f \in [1 .. n -> S]
  PROVE  f \in Seq(S) /\ Len(f) = n
  BY SMT

LEMMA RequestType ==
  ASSUME NEW items \in Requests
  PROVE  Len(items) \in Nat /\ items \in [1 .. Len(items) -> Item]
<1>1. PICK n \in 0 .. MaxCount : items \in [1 .. n -> Item]
  BY Zenon DEF Requests
<1>2. n \in Nat
  BY BufAssumption, SMT
<1>3. items \in Seq(Item)
  BY <1>1, <1>2, SMT
<1>4. Len(items) \in Nat /\ DOMAIN items = 1 .. Len(items)
  BY <1>3, SMT
<1> QED BY <1>1, <1>3, <1>4, SMT

LEMMA InitInv == Init => Inv
<1> SUFFICES ASSUME Init PROVE TypeOK /\ FlagsAgree
  BY Zenon DEF Inv
<1> USE BufAssumption DEF Init
<1>1. buf \in [Cells -> Item]
  BY Zenon
<1>2. readPos \in Cells /\ writePos \in Cells
  BY SMT DEF Cells
<1>3. isEmpty \in BOOLEAN /\ isFull \in BOOLEAN
  BY Zenon
<1>4. FlagsAgree
  BY Zenon DEF FlagsAgree
<1> QED BY <1>1, <1>2, <1>3, <1>4, Zenon DEF TypeOK

LEMMA WriteInv ==
  ASSUME Inv, NEW items \in Requests, Write(items)
  PROVE  Inv'
<1> DEFINE len == Len(items)
<1>1. len \in Nat /\ items \in [1 .. len -> Item]
  BY RequestType, Zenon
<1>2. buf \in [Cells -> Item] /\ readPos \in Cells /\ writePos \in Cells
  BY Zenon DEF Inv, TypeOK
<1>3. /\ (readPos = writePos) <=> (isEmpty \/ isFull)
      /\ ~(isEmpty /\ isFull)
      /\ isEmpty \in BOOLEAN /\ isFull \in BOOLEAN
  BY Zenon DEF Inv, TypeOK, FlagsAgree
<1> HIDE DEF len
<1>4. CASE WriteNothing(items)
  BY <1>2, <1>3, <1>4, Zenon DEF WriteNothing, Inv, TypeOK, FlagsAgree
<1>5. CASE WriteBeforeEnd(items)
  <2>1. /\ readPos' = readPos /\ writePos' = writePos + len
        /\ len > 0 /\ readPos <= writePos /\ BufSize - writePos > len
        /\ buf' = Stored(buf, writePos, items, 0, len)
    BY <1>5, Zenon DEF WriteBeforeEnd, FitsBeforeEnd, len
  <2>2. buf' \in [Cells -> Item]
    <3>1. writePos \in Int /\ 0 + len <= len
      BY <1>1, <1>2, BufAssumption, SMT DEF Cells
    <3> QED BY <1>1, <1>2, <2>1, <3>1, StoredType, SMT
  <2>3. readPos' \in Cells /\ writePos' \in Cells /\ readPos' # writePos'
    BY <1>1, <1>2, <2>1, BufAssumption, SMT DEF Cells
  <2>4. isEmpty' = FALSE /\ isFull' = FALSE
    <3>1. ~isFull /\ ~FillsUp(writePos') /\ isEmpty' = FALSE
      BY <1>5, <2>1, <2>3, Zenon DEF WriteBeforeEnd, FillsUp
    <3>2. isFull' = IF readPos = writePos THEN isFull ELSE FillsUp(writePos')
      BY <1>5, Zenon DEF WriteBeforeEnd
    <3> QED BY <1>3, <3>1, <3>2, <2>1, <2>3, Zenon DEF FillsUp
  <2> QED BY <2>2, <2>3, <2>4, Zenon DEF Inv, TypeOK, FlagsAgree
<1>6. CASE WriteAcrossEnd(items)
  <2> DEFINE left == BufSize - writePos
  <2>1. /\ readPos' = readPos /\ writePos' = WrappedWritePos(len - left)
        /\ len > 0 /\ readPos <= writePos /\ ~(BufSize - writePos > len)
        /\ buf' = Stored(Stored(buf, writePos, items, 0, left), 0, items, left, writePos')
    BY <1>6, Zenon DEF WriteAcrossEnd, FitsBeforeEnd, len
  <2>2. /\ left \in Nat /\ left <= len
        /\ writePos' \in Cells /\ writePos' <= readPos /\ left + writePos' <= len
    BY <1>1, <1>2, <2>1, BufAssumption, SMT DEF Cells, WrappedWritePos
  <2>3. buf' \in [Cells -> Item]
    <3>1. writePos \in Int /\ 0 + left <= len /\ left \in Int /\ writePos' \in Int
      BY <1>2, <2>2, BufAssumption, SMT DEF Cells
    <3>2. Stored(buf, writePos, items, 0, left) \in [Cells -> Item]
      BY <1>1, <1>2, <3>1, StoredType, SMT
    <3> HIDE DEF left
    <3> QED BY <1>1, <2>1, <2>2, <3>1, <3>2, StoredType, SMT
  <2>4. isEmpty' = FALSE /\ isFull' = (writePos' = readPos')
    BY <1>6, <2>1, Zenon DEF WriteAcrossEnd, FillsUp
  <2> QED BY <1>2, <2>1, <2>2, <2>3, <2>4, Zenon DEF Inv, TypeOK, FlagsAgree
<1>7. CASE WriteIntoGap(items)
  <2> DEFINE n == IF readPos - writePos > len THEN len ELSE readPos - writePos
  <2>1. /\ readPos' = readPos /\ writePos' = writePos + n /\ writePos < readPos
        /\ buf' = Stored(buf, writePos, items, 0, n)
    BY <1>7, Zenon DEF WriteIntoGap, len
  <2>2. writePos' \in Cells /\ n \in Nat /\ n <= len
    BY <1>1, <1>2, <2>1, BufAssumption, SMT DEF Cells
  <2>3. buf' \in [Cells -> Item]
    <3>1. writePos \in Int /\ n \in Int /\ 0 + n <= len
      BY <1>1, <1>2, <2>2, BufAssumption, SMT DEF Cells
    <3> HIDE DEF n
    <3> QED BY <1>1, <1>2, <2>1, <3>1, StoredType, SMT
  <2>4. isEmpty' = FALSE /\ isFull' = (writePos' = readPos')
    BY <1>7, <2>1, Zenon DEF WriteIntoGap, FillsUp
  <2> QED BY <1>2, <2>1, <2>2, <2>3, <2>4, Zenon DEF Inv, TypeOK, FlagsAgree
<1> QED BY <1>4, <1>5, <1>6, <1>7, Zenon DEF Write

LEMMA ReadInv ==
  ASSUME Inv, NEW count \in Int, Read(count)
  PROVE  Inv'
<1>1. readPos \in Cells /\ writePos \in Cells /\ buf \in [Cells -> Item]
  BY Zenon DEF Inv, TypeOK
<1>2. CASE ReadNothing(count)
  BY <1>2, Zenon DEF ReadNothing, Inv, TypeOK, FlagsAgree
<1>3. CASE ReadContiguous(count)
  <2>1. /\ readPos' = readPos + (IF writePos - readPos > count THEN count ELSE writePos - readPos)
        /\ count > 0 /\ readPos < writePos /\ writePos' = writePos
    BY <1>3, Zenon DEF ReadContiguous
  <2>2. readPos' \in Cells
    BY <1>1, <2>1, BufAssumption, SMT DEF Cells
  <2>3. buf' = buf /\ isFull' = FALSE /\ isEmpty' = (readPos' = writePos')
    BY <1>3, <2>1, Zenon DEF ReadContiguous
  <2> QED BY <1>1, <2>1, <2>2, <2>3, Zenon DEF Inv, TypeOK, FlagsAgree
<1>4. CASE ReadBeforeEnd(count)
  <2>1. /\ readPos' = readPos + count /\ writePos' = writePos
        /\ count > 0 /\ BufSize - readPos > count
    BY <1>4, Zenon DEF ReadBeforeEnd
  <2>2. readPos' \in Cells
    BY <1>1, <2>1, BufAssumption, SMT DEF Cells
  <2>3. buf' = buf /\ isFull' = FALSE /\ isEmpty' = (readPos' = writePos')
    BY <1>4, <2>1, Zenon DEF ReadBeforeEnd
  <2> QED BY <1>1, <2>1, <2>2, <2>3, Zenon DEF Inv, TypeOK, FlagsAgree
<1>5. CASE ReadAcrossEnd(count)
  <2>1. /\ readPos' = WrappedReadPos(count - (BufSize - readPos))
        /\ BufSize - readPos <= count /\ writePos' = writePos
    BY <1>5, Zenon DEF ReadAcrossEnd
  <2>2. readPos' \in Cells
    BY <1>1, <2>1, BufAssumption, SMT DEF Cells, WrappedReadPos
  <2>3. buf' = buf /\ isFull' = FALSE /\ isEmpty' = (readPos' = writePos')
    BY <1>5, <2>1, Zenon DEF ReadAcrossEnd
  <2> QED BY <1>1, <2>1, <2>2, <2>3, Zenon DEF Inv, TypeOK, FlagsAgree
<1> QED BY <1>2, <1>3, <1>4, <1>5, Zenon DEF Read

LEMMA StepInv == Inv /\ [Next]_vars => Inv'
<1> SUFFICES ASSUME Inv, [Next]_vars PROVE Inv'
  OBVIOUS
<1>1. CASE \E items \in Requests : Write(items)
  BY <1>1, WriteInv, Zenon
<1>2. CASE \E count \in -1 .. MaxCount : Read(count)
  <2>1. -1 .. MaxCount \subseteq Int
    BY BufAssumption, SMT
  <2> QED BY <1>2, <2>1, ReadInv, Zenon
<1>3. CASE Clear
  <2>1. 0 \in Cells
    BY BufAssumption, SMT DEF Cells
  <2> QED BY <1>3, <2>1, Zenon DEF Clear, Inv, TypeOK, FlagsAgree
<1>4. CASE UNCHANGED vars
  BY <1>4, Zenon DEF vars, Inv, TypeOK, FlagsAgree
<1> QED BY <1>1, <1>2, <1>3, <1>4, Zenon DEF Next

(* Both positions stay inside the array, whatever calls are made.              *)
THEOREM TypeCorrect == Spec => []TypeOK
<1>1. Inv => TypeOK
  BY Zenon DEF Inv
<1> QED BY <1>1, InitInv, StepInv, PTL DEF Spec

(* The flags always tell an empty buffer from a full one.                      *)
THEOREM FlagsCorrect == Spec => []FlagsAgree
<1>1. Inv => FlagsAgree
  BY Zenon DEF Inv
<1> QED BY <1>1, InitInv, StepInv, PTL DEF Spec

--------------------------------------------------------------------------------
(* Sequences are equal when they agree place by place.                         *)
LEMMA PointwiseAppend ==
  ASSUME NEW S, NEW q \in Seq(S), NEW r \in Seq(S), NEW items \in Seq(S),
         NEW n \in 0 .. Len(items), Len(r) = Len(q) + n,
         \A k \in 1 .. Len(q) : r[k] = q[k],
         \A j \in 1 .. n : r[Len(q) + j] = items[j]
  PROVE  r = q \o SubSeq(items, 1, n)
<1> DEFINE t == SubSeq(items, 1, n)
<1>1. t \in Seq(S) /\ Len(t) = n /\ \A j \in 1 .. n : t[j] = items[j]
  BY SMT
<1> HIDE DEF t
<1>2. /\ q \o t \in Seq(S) /\ Len(q \o t) = Len(q) + n
      /\ \A k \in 1 .. Len(q) + n : (q \o t)[k] = IF k <= Len(q) THEN q[k] ELSE t[k - Len(q)]
  BY <1>1, ConcatProperties, Zenon
<1>3. ASSUME NEW k \in 1 .. Len(r) PROVE r[k] = (q \o t)[k]
  <2>1. CASE k <= Len(q)
    BY <1>2, <2>1, SMT
  <2>2. CASE ~(k <= Len(q))
    <3>1. k - Len(q) \in 1 .. n /\ Len(q) + (k - Len(q)) = k /\ k \in 1 .. Len(q) + n
      BY <2>2, LenProperties, SMT
    <3>2. r[k] = items[k - Len(q)] /\ t[k - Len(q)] = items[k - Len(q)]
      BY <1>1, <3>1, Zenon
    <3>3. (q \o t)[k] = t[k - Len(q)]
      BY <1>2, <2>2, <3>1, SMT
    <3> QED BY <3>2, <3>3, Zenon
  <2> QED BY <2>1, <2>2
<1>4. Len(r) = Len(q \o t)
  BY <1>2
<1> QED BY <1>2, <1>3, <1>4, SeqEqual, Zenon DEF t

LEMMA PointwiseTake ==
  ASSUME NEW S, NEW q \in Seq(S), NEW r \in Seq(S), 
         NEW n \in 0 .. Len(q), Len(r) = n,
         \A k \in 1 .. n : r[k] = q[k]
  PROVE  r = SubSeq(q, 1, n)
<1> DEFINE t == SubSeq(q, 1, n)
<1>1. t \in Seq(S) /\ Len(t) = n /\ \A j \in 1 .. n : t[j] = q[j]
  BY SMT
<1> QED BY <1>1, SeqEqual, Zenon

LEMMA PointwiseDrop ==
  ASSUME NEW S, NEW q \in Seq(S), NEW r \in Seq(S), 
         NEW n \in 0 .. Len(q), Len(r) = Len(q) - n,
         \A k \in 1 .. Len(r) : r[k] = q[k + n]
  PROVE  r = SubSeq(q, n + 1, Len(q))
<1> DEFINE t == SubSeq(q, n + 1, Len(q))
<1>1. t \in Seq(S) /\ Len(t) = Len(q) - n /\ \A j \in 1 .. Len(t) : t[j] = q[j + n]
  BY SMT
<1> QED BY <1>1, SeqEqual, Zenon

--------------------------------------------------------------------------------
(* The buffer implements the bounded queue.                                    *)

(* What the two positions and the flags say the buffer holds.                  *)
SizeByCase ==
  \/ isEmpty /\ readPos = writePos /\ Size = 0
  \/ ~isEmpty /\ isFull /\ readPos = writePos /\ Size = BufSize
  \/ ~isEmpty /\ ~isFull /\ readPos < writePos /\ Size = writePos - readPos
  \/ ~isEmpty /\ ~isFull /\ writePos < readPos /\ Size = BufSize - readPos + writePos

LEMMA SizeCases == Inv => SizeByCase
<1> SUFFICES ASSUME Inv PROVE SizeByCase
  OBVIOUS
<1> USE DEF SizeByCase
<1> USE DEF Inv, TypeOK, FlagsAgree
<1>1. CASE isEmpty
  BY <1>1, Zenon DEF Size
<1>2. CASE ~isEmpty /\ isFull
  BY <1>2, Zenon DEF Size
<1>3. CASE ~isEmpty /\ ~isFull
  <2>1. readPos # writePos /\ readPos \in Cells /\ writePos \in Cells
    BY <1>3, Zenon
  <2>2. CASE readPos < writePos
    BY <1>3, <2>2, Zenon DEF Size
  <2>3. CASE ~(readPos < writePos)
    <3>1. writePos < readPos
      BY <2>1, <2>3, BufAssumption, SMT DEF Cells
    <3> QED BY <1>3, <2>3, <3>1, Zenon DEF Size
  <2> QED BY <2>2, <2>3
<1> QED BY <1>1, <1>2, <1>3

LEMMA SizeCasesNext == Inv' => SizeByCase'
  BY SizeCases, PTL

LEMMA SizeType ==
  ASSUME Inv
  PROVE  Size \in 0 .. BufSize /\ readPos \in Cells
<1>1. readPos \in Cells /\ writePos \in Cells
  BY Zenon DEF Inv, TypeOK
<1> QED BY <1>1, SizeCases, BufAssumption, SMT DEF Cells, SizeByCase

ContentsWellFormed ==
  /\ Contents \in Seq(Item)
  /\ Len(Contents) = Size
  /\ \A i \in 1 .. Size : Contents[i] = buf[CellAt(i - 1)]

LEMMA ContentsType == Inv => ContentsWellFormed
<1> SUFFICES ASSUME Inv PROVE ContentsWellFormed
  OBVIOUS
<1>1. Size \in Nat /\ buf \in [Cells -> Item]
  BY SizeType, BufAssumption, SMT DEF Inv, TypeOK
<1>2. ASSUME NEW i \in 1 .. Size PROVE CellAt(i - 1) \in Cells
  BY SizeType, BufAssumption, SMT DEF CellAt, Cells
<1>3. Contents \in [1 .. Size -> Item]
  BY <1>1, <1>2, Zenon DEF Contents
<1>4. Contents \in Seq(Item) /\ Len(Contents) = Size
  BY <1>1, <1>3, TupleType, Zenon
<1>5. \A i \in 1 .. Size : Contents[i] = buf[CellAt(i - 1)]
  BY Zenon DEF Contents
<1> QED BY <1>4, <1>5, Zenon DEF ContentsWellFormed

LEMMA ContentsTypeNext == Inv' => ContentsWellFormed'
  BY ContentsType, PTL

(* A write that stores its first n items after the ones the buffer holds, and  *)
(* keeps those, is the abstract write.                                         *)
LEMMA Appended ==
  ASSUME Inv, Inv', NEW items \in Requests, NEW n \in Nat,
         n = IF Len(items) <= BufSize - Size THEN Len(items) ELSE BufSize - Size,
         readPos' = readPos, Size' = Size + n,
         \A i \in 0 .. Size - 1 : buf'[CellAt(i)] = buf[CellAt(i)],
         \A j \in 1 .. n : buf'[CellAt(Size + j - 1)] = items[j],
         returned' = [count |-> n, items |-> <<>>]
  PROVE  Fifo!Write(items)
<1>1. /\ Contents \in Seq(Item) /\ Len(Contents) = Size
      /\ \A i \in 1 .. Size : Contents[i] = buf[CellAt(i - 1)]
  BY ContentsType, Zenon DEF ContentsWellFormed
<1>2. /\ Contents' \in Seq(Item) /\ Len(Contents') = Size'
      /\ \A i \in 1 .. Size' : Contents'[i] = buf'[CellAt(i - 1)']
  BY ContentsTypeNext, Zenon DEF ContentsWellFormed
<1>3. \A i \in 1 .. Size' : Contents'[i] = buf'[CellAt(i - 1)]
  BY <1>2, Zenon DEF CellAt
<1>4. items \in Seq(Item) /\ Len(items) \in Nat
  BY RequestType, TupleType, Zenon
<1>5. Size \in Nat /\ n \in 0 .. Len(items)
  BY <1>4, SizeType, BufAssumption, SMT
<1>6. Len(Contents') = Len(Contents) + n
  BY <1>1, <1>2, Zenon
<1>7. ASSUME NEW k \in 1 .. Len(Contents) PROVE Contents'[k] = Contents[k]
  <2>1. k \in 1 .. Size /\ k \in 1 .. Size' /\ k - 1 \in 0 .. Size - 1
    BY <1>1, <1>5, SMT
  <2> QED BY <1>1, <1>3, <2>1, Zenon
<1>8. ASSUME NEW j \in 1 .. n PROVE Contents'[Len(Contents) + j] = items[j]
  <2>1. Len(Contents) + j \in 1 .. Size' /\ (Len(Contents) + j) - 1 = Size + j - 1
    BY <1>1, <1>5, SMT
  <2> QED BY <1>3, <2>1, Zenon
<1>9. Contents' = Contents \o SubSeq(items, 1, n)
  <2> DEFINE q == Contents
             r == Contents'
  <2>1. /\ q \in Seq(Item) /\ r \in Seq(Item) /\ Len(r) = Len(q) + n
        /\ \A k \in 1 .. Len(q) : r[k] = q[k]
        /\ \A j \in 1 .. n : r[Len(q) + j] = items[j]
    BY <1>1, <1>2, <1>6, <1>7, <1>8, Zenon
  <2> HIDE DEF q, r
  <2>2. ASSUME NEW r1 \in Seq(Item), Len(r1) = Len(q) + n,
               \A k \in 1 .. Len(q) : r1[k] = q[k],
               \A j \in 1 .. n : r1[Len(q) + j] = items[j]
        PROVE  r1 = q \o SubSeq(items, 1, n)
    BY <1>4, <1>5, <2>2, <2>1, PointwiseAppend, SMTT(120)
  <2>3. r = q \o SubSeq(items, 1, n)
    BY <2>1, <2>2, Zenon
  <2> QED BY <2>3 DEF q, r
<1>10. Fifo!Accepted(Contents, Len(items)) = n
  BY <1>1, Zenon DEF Fifo!Accepted, Fifo!Lesser
<1> QED BY <1>9, <1>10, Zenon DEF Fifo!Write

LEMMA WriteRefines ==
  ASSUME Inv, Inv', NEW items \in Requests, Write(items)
  PROVE  Fifo!Write(items)
<1> DEFINE len == Len(items)
<1>1. len \in Nat /\ items \in [1 .. len -> Item]
  BY RequestType, Zenon
<1>2. /\ readPos \in Cells /\ writePos \in Cells /\ Size \in 0 .. BufSize
      /\ buf \in [Cells -> Item]
  BY SizeType, Zenon DEF Inv, TypeOK
<1>3. SizeByCase /\ SizeByCase'
  BY SizeCases, SizeCasesNext
<1>4. CASE WriteNothing(items)
  <2>1. /\ len = 0 \/ isFull
        /\ UNCHANGED <<buf, readPos, writePos, isEmpty, isFull>>
        /\ returned' = [count |-> 0, items |-> <<>>]
    BY <1>4, Zenon DEF WriteNothing, WroteResult
  <2>2. Size' = Size
    BY <2>1, Zenon DEF Size
  <2>3. isFull => Size = BufSize
    BY Zenon, <1>3 DEF SizeByCase, Inv, FlagsAgree
  <2>4. 0 = IF len <= BufSize - Size THEN len ELSE BufSize - Size
    BY <1>1, <1>2, <2>1, <2>3, BufAssumption, SMT
  <2>5. Size' = Size + 0 /\ 0 \in Nat
    BY <1>2, <2>2, BufAssumption, SMT
  <2>6. \A j \in 1 .. 0 : buf'[CellAt(Size + j - 1)] = items[j]
    BY SMT
  <2>7. \A i \in 0 .. Size - 1 : buf'[CellAt(i)] = buf[CellAt(i)]
    BY <2>1, Zenon
  <2> QED BY <2>1, <2>4, <2>5, <2>6, <2>7, Appended, SMT
<1>5. CASE WriteBeforeEnd(items)
  <2>1. /\ readPos' = readPos /\ writePos' = writePos + len
        /\ len > 0 /\ readPos <= writePos /\ BufSize - writePos > len
        /\ buf' = Stored(buf, writePos, items, 0, len)
        /\ returned' = [count |-> len, items |-> <<>>] /\ ~isFull
    BY <1>5, Zenon DEF WriteBeforeEnd, FitsBeforeEnd, WroteResult
  <2>2. Size = writePos - readPos /\ Size' = Size + len
    BY <1>1, <1>2, <1>3, <2>1, BufAssumption, SMT DEF SizeByCase, Cells
  <2>3. len = IF len <= BufSize - Size THEN len ELSE BufSize - Size
    BY <1>1, <1>2, <2>1, <2>2, BufAssumption, SMT DEF Cells
  <2>4. \A i \in 0 .. Size - 1 : buf'[CellAt(i)] = buf[CellAt(i)]
    BY <1>2, <2>1, <2>2, BufAssumption, SMT DEF Cells, CellAt, Stored
  <2>5. ASSUME NEW j \in 1 .. len PROVE buf'[CellAt(Size + j - 1)] = items[j]
    <3>1. CellAt(Size + j - 1) = writePos + j - 1
      BY <1>1, <1>2, <2>1, <2>2, BufAssumption, SMT DEF Cells, CellAt
    <3>2. writePos + j - 1 \in Cells /\ 0 + ((writePos + j - 1) - writePos) + 1 = j
      BY <1>1, <1>2, <2>1, BufAssumption, SMT DEF Cells
    <3>3. writePos <= writePos + j - 1 /\ writePos + j - 1 < writePos + len
      BY <1>1, <1>2, <2>1, BufAssumption, SMT DEF Cells
    <3> QED BY <2>1, <3>1, <3>2, <3>3, Zenon DEF Stored
  <2> QED BY <1>1, <2>1, <2>2, <2>3, <2>4, <2>5, Appended, Zenon
<1>6. CASE WriteAcrossEnd(items)
  <2> DEFINE left == BufSize - writePos
             n == left + writePos'
             cells == Stored(buf, writePos, items, 0, left)
  <2>1. /\ readPos' = readPos /\ writePos' = WrappedWritePos(len - left)
        /\ len > 0 /\ readPos <= writePos /\ ~(BufSize - writePos > len)
        /\ buf' = Stored(cells, 0, items, left, writePos')
        /\ returned' = [count |-> n, items |-> <<>>] /\ ~isFull
        /\ ~isEmpty'
    BY <1>6, Zenon DEF WriteAcrossEnd, FitsBeforeEnd, WroteResult
  <2>2. /\ left \in Nat /\ left <= len /\ left > 0
        /\ writePos' \in Nat /\ writePos' <= readPos /\ n <= len
        /\ writePos' = readPos \/ n = len
    BY <1>1, <1>2, <2>1, BufAssumption, SMT DEF Cells, WrappedWritePos
  <2>3. /\ Size = writePos - readPos
        /\ Size' = Size + n
        /\ Size + left = BufSize - readPos
    <3>1. /\ readPos' = readPos /\ readPos <= writePos /\ ~isFull /\ ~isEmpty'
          /\ writePos' \in Nat /\ writePos' <= readPos
      BY <2>1, <2>2, Zenon
    <3>2. Size = writePos - readPos
      BY <1>2, <1>3, <3>1, BufAssumption, SMT DEF SizeByCase, Cells
    <3>3. Size' = BufSize - readPos + writePos'
      BY <1>2, <1>3, <3>1, BufAssumption, SMT DEF SizeByCase, Cells
    <3> QED BY <1>2, <3>1, <3>2, <3>3, BufAssumption, SMT DEF Cells
  <2>4. n = IF len <= BufSize - Size THEN len ELSE BufSize - Size
    BY <1>1, <1>2, <2>2, <2>3, BufAssumption, SMT DEF Cells
  <2>5. ASSUME NEW i \in 0 .. Size - 1 PROVE buf'[CellAt(i)] = buf[CellAt(i)]
    <3>1. CellAt(i) \in Cells /\ CellAt(i) >= writePos' /\ CellAt(i) < writePos
      BY <1>2, <2>2, <2>3, BufAssumption, SMT DEF Cells, CellAt
    <3>2. ~(CellAt(i) < 0 + writePos') /\ ~(writePos <= CellAt(i))
      BY <1>2, <2>2, <3>1, BufAssumption, SMT DEF Cells
    <3> QED BY <2>1, <3>1, <3>2, Zenon DEF Stored
  <2>6. ASSUME NEW j \in 1 .. n PROVE buf'[CellAt(Size + j - 1)] = items[j]
    <3>1. CASE j <= left
      <4>1. CellAt(Size + j - 1) = writePos + j - 1
        BY <1>2, <2>2, <2>3, <3>1, BufAssumption, SMT DEF Cells, CellAt
      <4>2. /\ writePos + j - 1 \in Cells
            /\ 0 + ((writePos + j - 1) - writePos) + 1 = j
            /\ ~(writePos + j - 1 < 0 + writePos')
            /\ writePos <= writePos + j - 1 /\ writePos + j - 1 < writePos + left
        BY <1>2, <2>1, <2>2, <3>1, BufAssumption, SMT DEF Cells
      <4> QED BY <2>1, <4>1, <4>2, Zenon DEF Stored
    <3>2. CASE ~(j <= left)
      <4>1. CellAt(Size + j - 1) = j - left - 1
        BY <1>2, <2>2, <2>3, <3>2, BufAssumption, SMT DEF Cells, CellAt
      <4>2. /\ j - left - 1 \in Cells
            /\ left + ((j - left - 1) - 0) + 1 = j
            /\ 0 <= j - left - 1 /\ j - left - 1 < 0 + writePos'
        BY <1>2, <2>2, <3>2, BufAssumption, SMT DEF Cells
      <4> QED BY <2>1, <4>1, <4>2, Zenon DEF Stored
    <3> QED BY <3>1, <3>2
  <2>7. n \in Nat
    BY <2>2, SMT
  <2> QED BY <2>1, <2>3, <2>4, <2>5, <2>6, <2>7, Appended, Zenon
<1>7. CASE WriteIntoGap(items)
  <2> DEFINE n == IF readPos - writePos > len THEN len ELSE readPos - writePos
  <2>1. /\ readPos' = readPos /\ writePos' = writePos + n /\ writePos < readPos
        /\ buf' = Stored(buf, writePos, items, 0, n)
        /\ returned' = [count |-> n, items |-> <<>>] /\ len > 0
        /\ ~isEmpty'
    BY <1>7, Zenon DEF WriteIntoGap, WroteResult
  <2>2. n \in Nat /\ n <= len /\ writePos' <= readPos /\ n > 0
    BY <1>1, <1>2, <2>1, BufAssumption, SMT DEF Cells
  <2>3. Size = BufSize - readPos + writePos /\ Size' = Size + n
    BY <1>2, <1>3, <2>1, <2>2, BufAssumption, SMT DEF SizeByCase, Cells
  <2>4. n = IF len <= BufSize - Size THEN len ELSE BufSize - Size
    BY <1>1, <1>2, <2>2, <2>3, BufAssumption, SMT DEF Cells
  <2> HIDE DEF n
  <2>5. ASSUME NEW i \in 0 .. Size - 1 PROVE buf'[CellAt(i)] = buf[CellAt(i)]
    <3>1. CellAt(i) \in Cells /\ ~(writePos <= CellAt(i) /\ CellAt(i) < writePos + n)
      BY <1>2, <2>1, <2>2, <2>3, BufAssumption, SMT DEF Cells, CellAt
    <3> QED BY <2>1, <3>1, Zenon DEF Stored
  <2>6. ASSUME NEW j \in 1 .. n PROVE buf'[CellAt(Size + j - 1)] = items[j]
    <3>1. CellAt(Size + j - 1) = writePos + j - 1
      BY <1>2, <2>1, <2>2, <2>3, BufAssumption, SMT DEF Cells, CellAt
    <3>2. writePos + j - 1 \in Cells /\ 0 + ((writePos + j - 1) - writePos) + 1 = j
      BY <1>2, <2>1, <2>2, BufAssumption, SMT DEF Cells
    <3>3. writePos <= writePos + j - 1 /\ writePos + j - 1 < writePos + n
      BY <1>2, <2>2, BufAssumption, SMT DEF Cells
    <3> QED BY <2>1, <3>1, <3>2, <3>3, Zenon DEF Stored
  <2> QED BY <2>1, <2>2, <2>3, <2>4, <2>5, <2>6, Appended, Zenon
<1> QED BY <1>4, <1>5, <1>6, <1>7, Zenon DEF Write

(* A read that returns the n oldest items and moves the read position past     *)
(* them is the abstract read.                                                  *)
LEMMA Removed ==
  ASSUME Inv, Inv', NEW count \in Int, NEW n \in Nat, NEW out \in [1 .. n -> Item],
         n = IF count <= 0 THEN 0 ELSE IF count <= Size THEN count ELSE Size,
         buf' = buf, Size' = Size - n,
         \A i \in 1 .. n : out[i] = buf[CellAt(i - 1)],
         \A i \in 1 .. Size - n : CellAt(i - 1)' = CellAt(n + i - 1),
         returned' = [count |-> n, items |-> out]
  PROVE  Fifo!Read(count)
<1>1. /\ Contents \in Seq(Item) /\ Len(Contents) = Size
      /\ \A i \in 1 .. Size : Contents[i] = buf[CellAt(i - 1)]
  BY ContentsType, Zenon DEF ContentsWellFormed
<1>2. /\ Contents' \in Seq(Item) /\ Len(Contents') = Size'
      /\ \A i \in 1 .. Size' : Contents'[i] = buf'[CellAt(i - 1)']
  BY ContentsTypeNext, Zenon DEF ContentsWellFormed
<1>3. Size \in Nat /\ n \in 0 .. Size
  BY SizeType, BufAssumption, SMT
<1>4. out \in Seq(Item) /\ Len(out) = n
  BY TupleType, Zenon
<1>5. out = SubSeq(Contents, 1, n)
  <2> DEFINE q == Contents
  <2>1. q \in Seq(Item) /\ n \in 0 .. Len(q)
    BY <1>1, <1>3, Zenon
  <2>2. \A i \in 1 .. n : out[i] = q[i]
    <3>1. \A i \in 1 .. n : i \in 1 .. Size
      BY <1>3, SMT
    <3> QED BY <1>1, <3>1, Zenon
  <2> HIDE DEF q
  <2>3. out = SubSeq(q, 1, n)
    BY <1>4, <2>1, <2>2, PointwiseTake, Zenon
  <2> QED BY <2>3 DEF q
<1>6. Contents' = SubSeq(Contents, n + 1, Len(Contents))
  <2> DEFINE q == Contents
             r == Contents'
  <2>1. /\ q \in Seq(Item) /\ n \in 0 .. Len(q)
        /\ r \in Seq(Item) /\ Len(r) = Len(q) - n
    BY <1>1, <1>2, <1>3, Zenon
  <2>2. \A i \in 1 .. Len(r) : r[i] = q[i + n]
    <3>1. ASSUME NEW i \in 1 .. Len(Contents') PROVE Contents'[i] = Contents[i + n]
      <4>1. /\ i \in 1 .. Size' /\ i \in 1 .. Size - n
            /\ i + n \in 1 .. Size /\ (i + n) - 1 = n + i - 1
        BY <1>2, <1>3, SMT
      <4>2. Contents'[i] = buf[CellAt(i - 1)']
        BY <1>2, <4>1, Zenon
      <4>3. Contents[i + n] = buf[CellAt((i + n) - 1)]
        BY <1>1, <4>1, Zenon
      <4>4. CellAt(i - 1)' = CellAt(n + i - 1)
        BY <4>1, Zenon
      <4> QED BY <4>1, <4>2, <4>3, <4>4, Zenon
    <3> QED BY <3>1
  <2> HIDE DEF q, r
  <2>3. r = SubSeq(q, n + 1, Len(q))
    BY <2>1, <2>2, PointwiseDrop, Zenon
  <2> QED BY <2>3 DEF q, r
<1>7. Fifo!Available(Contents, count) = n
  BY <1>1, Zenon DEF Fifo!Available, Fifo!Lesser
<1> QED BY <1>5, <1>6, <1>7, Zenon DEF Fifo!Read

(* The arithmetic of a read that passes the end of the array: how much it      *)
(* takes, and where the items it leaves are afterwards.                        *)
LEMMA SplitCount ==
  ASSUME NEW left \in Nat, NEW w \in Nat, NEW r \in 0 .. w, NEW count \in Int,
         count > 0, left + r <= count, r = w \/ left + r = count
  PROVE  /\ left + r \in Nat
         /\ left + r = IF count <= 0 THEN 0
                       ELSE IF count <= left + w THEN count ELSE left + w
  BY SMT

LEMMA CellsPastEnd ==
  ASSUME NEW p \in Cells, NEW w \in Cells, NEW r \in 0 .. w,
         NEW i \in 1 .. ((BufSize - p) + w) - ((BufSize - p) + r)
  PROVE  /\ r + (i - 1) < BufSize
         /\ ~(p + (((BufSize - p) + r) + i - 1) < BufSize)
         /\ p + (((BufSize - p) + r) + i - 1) - BufSize = r + (i - 1)
  BY BufAssumption, SMT DEF Cells

LEMMA ReadRefines ==
  ASSUME Inv, Inv', NEW count \in Int, Read(count)
  PROVE  Fifo!Read(count)
<1>1. /\ readPos \in Cells /\ writePos \in Cells /\ Size \in 0 .. BufSize
      /\ buf \in [Cells -> Item]
  BY SizeType, Zenon DEF Inv, TypeOK
<1>2. SizeByCase /\ SizeByCase'
  BY SizeCases, SizeCasesNext
<1>3. CASE ReadNothing(count)
  <2>1. /\ count <= 0 \/ isEmpty
        /\ UNCHANGED <<buf, readPos, writePos, isEmpty, isFull>>
        /\ returned' = [count |-> 0, items |-> <<>>]
    BY <1>3, Zenon DEF ReadNothing
  <2>2. Size' = Size - 0 /\ 0 \in Nat
    <3>1. Size' = Size
      BY <2>1, Zenon DEF Size
    <3> QED BY <1>1, <3>1, BufAssumption, SMT
  <2>3. isEmpty => Size = 0
    BY Zenon DEF Size
  <2>4. 0 = IF count <= 0 THEN 0 ELSE IF count <= Size THEN count ELSE Size
    BY <1>1, <2>1, <2>3, BufAssumption, SMT
  <2>5. <<>> \in [1 .. 0 -> Item]
    BY SMT
  <2>6. \A i \in 1 .. 0 : <<>>[i] = buf[CellAt(i - 1)]
    BY SMT
  <2>7. ASSUME NEW i \in 1 .. Size - 0 PROVE CellAt(i - 1)' = CellAt(0 + i - 1)
    <3>1. i - 1 = 0 + i - 1
      BY <1>1, BufAssumption, SMT
    <3> QED BY <2>1, <3>1, Zenon DEF CellAt
  <2> QED BY <2>1, <2>2, <2>4, <2>5, <2>6, <2>7, Removed, Zenon
<1>4. CASE ReadContiguous(count)
  <2> DEFINE left == writePos - readPos
             n == IF left > count THEN count ELSE left
  <2>1. /\ count > 0 /\ readPos < writePos /\ readPos' = readPos + n
        /\ buf' = buf /\ writePos' = writePos /\ ~isFull'
        /\ isEmpty' = (readPos' = writePos)
        /\ returned' = [count |-> n, items |-> Fetched(readPos, n)]
    BY <1>4, Zenon DEF ReadContiguous
  <2>2. n \in Nat /\ n > 0 /\ n <= left
    BY <1>1, <2>1, BufAssumption, SMT DEF Cells
  <2>3. Size = left /\ Size' = Size - n
    BY <1>1, <1>2, <2>1, <2>2, BufAssumption, SMT DEF SizeByCase, Cells
  <2>4. n = IF count <= 0 THEN 0 ELSE IF count <= Size THEN count ELSE Size
    BY <1>1, <2>1, <2>3, BufAssumption, SMT DEF Cells
  <2> HIDE DEF n
  <2>5. ASSUME NEW i \in 1 .. n
        PROVE  Fetched(readPos, n)[i] = buf[CellAt(i - 1)] /\ Fetched(readPos, n)[i] \in Item
    <3>1. CellAt(i - 1) = readPos + i - 1 /\ readPos + i - 1 \in Cells
      BY <1>1, <2>1, <2>2, BufAssumption, SMT DEF Cells, CellAt
    <3> QED BY <1>1, <3>1, Zenon DEF Fetched
  <2>6. Fetched(readPos, n) \in [1 .. n -> Item]
    BY <2>5, Zenon DEF Fetched
  <2>7. ASSUME NEW i \in 1 .. Size - n PROVE CellAt(i - 1)' = CellAt(n + i - 1)
    BY <1>1, <2>1, <2>2, <2>3, BufAssumption, SMT DEF Cells, CellAt
  <2> QED BY <2>1, <2>2, <2>3, <2>4, <2>5, <2>6, <2>7, Removed, Zenon
<1>5. CASE ReadBeforeEnd(count)
  <2>1. /\ count > 0 /\ writePos <= readPos /\ BufSize - readPos > count
        /\ readPos' = readPos + count /\ ~isEmpty
        /\ buf' = buf /\ writePos' = writePos /\ ~isFull'
        /\ isEmpty' = (readPos' = writePos)
        /\ returned' = [count |-> count, items |-> Fetched(readPos, count)]
    BY <1>5, Zenon DEF ReadBeforeEnd
  <2>2. count \in Nat
    BY <2>1, SMT
  <2>3. Size = BufSize - readPos + writePos /\ Size' = Size - count
    BY <1>1, <1>2, <2>1, <2>2, BufAssumption, SMT DEF SizeByCase, Cells
  <2>4. count = IF count <= 0 THEN 0 ELSE IF count <= Size THEN count ELSE Size
    BY <1>1, <2>1, <2>3, BufAssumption, SMT DEF Cells
  <2>5. ASSUME NEW i \in 1 .. count
        PROVE  Fetched(readPos, count)[i] = buf[CellAt(i - 1)] /\ Fetched(readPos, count)[i] \in Item
    <3>1. CellAt(i - 1) = readPos + i - 1 /\ readPos + i - 1 \in Cells
      BY <1>1, <2>1, <2>2, BufAssumption, SMT DEF Cells, CellAt
    <3> QED BY <1>1, <3>1, Zenon DEF Fetched
  <2>6. Fetched(readPos, count) \in [1 .. count -> Item]
    BY <2>5, Zenon DEF Fetched
  <2>7. ASSUME NEW i \in 1 .. Size - count PROVE CellAt(i - 1)' = CellAt(count + i - 1)
    BY <1>1, <2>1, <2>2, <2>3, BufAssumption, SMT DEF Cells, CellAt
  <2> QED BY <2>1, <2>2, <2>3, <2>4, <2>5, <2>6, <2>7, Removed, Zenon
<1>6. CASE ReadAcrossEnd(count)
  <2> DEFINE left == BufSize - readPos
             n == left + readPos'
             out == Fetched(readPos, left) \o Fetched(0, readPos')
  <2>1. /\ count > 0 /\ writePos <= readPos /\ left <= count /\ ~isEmpty
        /\ readPos' = WrappedReadPos(count - left)
        /\ buf' = buf /\ writePos' = writePos /\ ~isFull'
        /\ isEmpty' = (readPos' = writePos)
        /\ returned' = [count |-> n, items |-> out]
    BY <1>6, Zenon DEF ReadAcrossEnd
  <2>2. /\ left \in Nat /\ left > 0
        /\ readPos' \in Nat /\ readPos' <= writePos /\ n <= count
        /\ readPos' = writePos \/ n = count
    BY <1>1, <2>1, BufAssumption, SMT DEF Cells, WrappedReadPos
  <2>3. Size = left + writePos /\ Size' = Size - n
    <3>1. Size = left + writePos
      BY <1>1, <1>2, <2>1, BufAssumption, SMT DEF SizeByCase, Cells
    <3>2. writePos' = writePos /\ ~isFull' /\ isEmpty' = (readPos' = writePos)
          /\ readPos' \in Nat /\ readPos' <= writePos
      BY <2>1, <2>2, Zenon
    <3>3. Size' = writePos - readPos'
      BY <1>1, <1>2, <3>2, BufAssumption, SMT DEF SizeByCase, Cells
    <3> QED BY <1>1, <2>2, <3>1, <3>3, BufAssumption, SMT DEF Cells
  <2>4. n \in Nat /\ n = IF count <= 0 THEN 0 ELSE IF count <= Size THEN count ELSE Size
    <3>1. count > 0 /\ (readPos' = writePos \/ left + readPos' = count)
      BY <2>1, <2>2, Zenon
    <3>2. readPos' \in 0 .. writePos /\ writePos \in Nat
      BY <1>1, <2>2, SMT DEF Cells
    <3> HIDE DEF left
    <3> QED BY <2>2, <2>3, <3>1, <3>2, SplitCount, Zenon
  <2>5. Fetched(readPos, left) \in Seq(Item) /\ Len(Fetched(readPos, left)) = left
    <3>1. \A i \in 1 .. left : readPos + i - 1 \in Cells
      BY <1>1, <2>2, BufAssumption, SMT DEF Cells
    <3>2. Fetched(readPos, left) \in [1 .. left -> Item]
      BY <1>1, <3>1, Zenon DEF Fetched
    <3> QED BY <2>2, <3>2, TupleType, Zenon
  <2>6. Fetched(0, readPos') \in Seq(Item) /\ Len(Fetched(0, readPos')) = readPos'
    <3>1. \A i \in 1 .. readPos' : 0 + i - 1 \in Cells
      BY <1>1, <2>2, BufAssumption, SMT DEF Cells
    <3>2. Fetched(0, readPos') \in [1 .. readPos' -> Item]
      BY <1>1, <3>1, Zenon DEF Fetched
    <3> QED BY <2>2, <3>2, TupleType, Zenon
  <2>7. /\ out \in Seq(Item) /\ Len(out) = n
        /\ \A i \in 1 .. n : out[i] = IF i <= left THEN Fetched(readPos, left)[i]
                                                  ELSE Fetched(0, readPos')[i - left]
    <3> DEFINE a == Fetched(readPos, left)
               b == Fetched(0, readPos')
    <3>1. a \in Seq(Item) /\ b \in Seq(Item) /\ Len(a) = left /\ Len(b) = readPos'
      BY <2>5, <2>6, Zenon
    <3> HIDE DEF a, b
    <3>2. /\ a \o b \in Seq(Item) /\ Len(a \o b) = Len(a) + Len(b)
          /\ \A i \in 1 .. Len(a) + Len(b) :
               (a \o b)[i] = IF i <= Len(a) THEN a[i] ELSE b[i - Len(a)]
      BY <3>1, ConcatProperties, Zenon
    <3>3. /\ a \o b \in Seq(Item) /\ Len(a \o b) = n
          /\ \A i \in 1 .. n : (a \o b)[i] = IF i <= left THEN a[i] ELSE b[i - left]
      BY <3>1, <3>2, Zenon
    <3> QED BY <3>3, Zenon DEF a, b
  <2>8. ASSUME NEW i \in 1 .. n PROVE out[i] = buf[CellAt(i - 1)]
    <3>1. CASE i <= left
      <4>1. i \in 1 .. left /\ CellAt(i - 1) = readPos + i - 1
        BY <1>1, <2>2, <3>1, BufAssumption, SMT DEF Cells, CellAt
      <4> QED BY <2>7, <3>1, <4>1, Zenon DEF Fetched
    <3>2. CASE ~(i <= left)
      <4>1. i - left \in 1 .. readPos'
        BY <2>2, <3>2, BufAssumption, SMT
      <4>2. CellAt(i - 1) = 0 + (i - left) - 1
        BY <1>1, <2>2, <3>2, BufAssumption, SMT DEF Cells, CellAt
      <4> QED BY <2>7, <3>2, <4>1, <4>2, Zenon DEF Fetched
    <3> QED BY <3>1, <3>2
  <2>9. out \in [1 .. n -> Item]
    BY <2>7, LenProperties, Zenon
  <2>10. ASSUME NEW i \in 1 .. Size - n PROVE CellAt(i - 1)' = CellAt(n + i - 1)
    <3>1. readPos' \in 0 .. writePos
      BY <1>1, <2>2, SMT DEF Cells
    <3>2. i \in 1 .. ((BufSize - readPos) + writePos) - ((BufSize - readPos) + readPos')
      BY <2>3, Zenon
    <3>3. /\ readPos' + (i - 1) < BufSize
          /\ ~(readPos + (n + i - 1) < BufSize)
          /\ readPos + (n + i - 1) - BufSize = readPos' + (i - 1)
      BY <1>1, <3>1, <3>2, CellsPastEnd, Zenon
    <3> QED BY <3>3, Zenon DEF CellAt
  <2> HIDE DEF n, out
  <2> QED BY <2>1, <2>3, <2>4, <2>8, <2>9, <2>10, Removed, Zenon
<1> QED BY <1>3, <1>4, <1>5, <1>6, Zenon DEF Read

EmptyHasNothing == isEmpty => Contents = <<>>

LEMMA EmptyContents == EmptyHasNothing
<1> USE DEF EmptyHasNothing
<1> SUFFICES ASSUME isEmpty PROVE Contents = <<>>
  OBVIOUS
<1>1. Size = 0
  BY Zenon DEF Size
<1>2. Contents = [i \in 1 .. 0 |-> buf[CellAt(i - 1)]]
  BY <1>1, Zenon DEF Contents
<1>3. 1 .. 0 = {}
  BY SMT
<1> QED BY <1>2, <1>3, SMT

LEMMA EmptyContentsNext == EmptyHasNothing'
  BY EmptyContents, PTL

LEMMA InitRefines == Init => Fifo!Init
<1> SUFFICES ASSUME Init PROVE Fifo!Init
  OBVIOUS
<1>1. isEmpty /\ returned = [count |-> 0, items |-> <<>>]
  BY Zenon DEF Init
<1> QED BY <1>1, EmptyContents, Zenon DEF EmptyHasNothing, Fifo!Init

LEMMA StepRefines == Inv /\ Inv' /\ [Next]_vars => [Fifo!Next]_(Fifo!fifoVars)
<1> SUFFICES ASSUME Inv, Inv', [Next]_vars PROVE [Fifo!Next]_(Fifo!fifoVars)
  OBVIOUS
<1>1. ASSUME NEW items \in Requests, Write(items) PROVE Fifo!Next
  <2>1. Fifo!Write(items)
    BY <1>1, WriteRefines, Zenon
  <2> QED BY <2>1, Zenon DEF Fifo!Next, Fifo!Requests, Requests
<1>2. ASSUME NEW count \in -1 .. MaxCount, Read(count) PROVE Fifo!Next
  <2>1. count \in Int
    BY BufAssumption, SMT
  <2>2. Fifo!Read(count)
    BY <1>2, <2>1, ReadRefines, Zenon
  <2> QED BY <2>2, Zenon DEF Fifo!Next
<1>3. CASE Clear
  <2>1. isEmpty' /\ returned' = returned
    BY <1>3, Zenon DEF Clear
  <2>2. Fifo!Clear
    BY <2>1, EmptyContentsNext, Zenon DEF EmptyHasNothing, Fifo!Clear
  <2> QED BY <2>2, Zenon DEF Fifo!Next
<1>4. CASE UNCHANGED vars
  <2>1. /\ buf' = buf /\ readPos' = readPos /\ writePos' = writePos
        /\ isEmpty' = isEmpty /\ isFull' = isFull /\ returned' = returned
    BY <1>4, Zenon DEF vars
  <2>2. Size' = Size
    BY <2>1, Zenon DEF Size
  <2>3. Contents' = Contents
    BY <2>1, <2>2, Zenon DEF Contents, CellAt
  <2> QED BY <2>1, <2>3, Zenon DEF Fifo!fifoVars
<1> QED BY <1>1, <1>2, <1>3, <1>4, Zenon DEF Next

(* Every behaviour of the circular buffer is, seen through its contents, a     *)
(* behaviour of the bounded first-in first-out queue, for every capacity, item *)
(* type and request size.                                                      *)
THEOREM Refinement == Spec => ImplementsFifo
<1>1. Spec => []Inv
  BY InitInv, StepInv, PTL DEF Spec
<1> QED BY <1>1, InitRefines, StepRefines, PTL DEF Spec, ImplementsFifo, Fifo!Spec
================================================================================
