--------------------------- MODULE PodCircularBuffer ---------------------------
(* The circular buffer of src/reference/include/pod_circularbuffer.h: an array *)
(* `buf` of BufSize cells, a read and a write position, and the flags that     *)
(* tell "empty" from "full" when the positions coincide.  Its callers hold a   *)
(* mutex around every call, so a call is one step.                             *)
EXTENDS Integers, Sequences

CONSTANTS
  Item,        \* the element type T
  BufSize,     \* m_nBufSize
  MaxCount     \* bound: the largest count a caller passes

ASSUME BufAssumption == BufSize \in Nat \ {0} /\ MaxCount \in Nat /\ Item # {}

VARIABLES
  buf,         \* m_pBuf
  readPos,     \* m_nReadPos
  writePos,    \* m_nWritePos
  isEmpty,     \* m_bEmpty
  isFull,      \* m_bFull
  returned     \* what the last call returned: a count, and the items it read

vars == <<buf, readPos, writePos, isEmpty, isFull, returned>>

Cells == 0 .. BufSize - 1

(* memcpy(&m_pBuf[at], &src[from], n)                                          *)
Stored(cells, at, src, from, n) ==
  [c \in Cells |-> IF at <= c /\ c < at + n THEN src[from + (c - at) + 1]
                                            ELSE cells[c]]

(* memcpy(dst, &m_pBuf[at], n)                                                 *)
Fetched(at, n) == [i \in 1 .. n |-> buf[at + i - 1]]

WroteResult(n) == returned' = [count |-> n, items |-> <<>>]

(* The contents of m_pBuf are uninitialised when the buffer is constructed.    *)
Init ==
  /\ buf \in [Cells -> Item]
  /\ readPos = 0
  /\ writePos = 0
  /\ isEmpty = TRUE
  /\ isFull = FALSE
  /\ returned = [count |-> 0, items |-> <<>>]

(* size()                                                                      *)
Size ==
  IF isEmpty THEN 0
  ELSE IF isFull THEN BufSize
  ELSE IF readPos < writePos THEN writePos - readPos
  ELSE BufSize - readPos + writePos

Clear ==
  /\ readPos' = 0
  /\ writePos' = 0
  /\ isEmpty' = TRUE
  /\ isFull' = FALSE
  /\ UNCHANGED <<buf, returned>>

--------------------------------------------------------------------------------
(* write(buf, count), with count = Len(items)                                  *)

(* Mutant: room that is exactly used up counts as room before the end.         *)
FitsBeforeEndOffByOne(count) == BufSize - writePos >= count

FitsBeforeEnd(count) == BufSize - writePos > count

(* Mutant: writing on from the start of the array ignores the read position.   *)
WrappedWritePosOverrun(rest) == rest

(* Where a write that reached the end of the array with `rest` items left ends. *)
(* The code compares with > when the buffer is empty and with >= otherwise.    *)
WrappedWritePos(rest) ==
  IF readPos = writePos
  THEN IF readPos > rest THEN rest ELSE writePos
  ELSE IF readPos >= rest THEN rest ELSE readPos

FillsUp(pos) == pos = readPos

WriteNothing(items) ==
  /\ Len(items) = 0 \/ isFull
  /\ WroteResult(0)
  /\ UNCHANGED <<buf, readPos, writePos, isEmpty, isFull>>

(* Before the end of the array there is room for every item (both when the     *)
(* buffer is empty and when the data lies before the write position).          *)
WriteBeforeEnd(items) ==
  /\ Len(items) > 0 /\ ~isFull
  /\ readPos <= writePos
  /\ FitsBeforeEnd(Len(items))
  /\ buf' = Stored(buf, writePos, items, 0, Len(items))
  /\ writePos' = writePos + Len(items)
  /\ isEmpty' = FALSE
  /\ isFull' = IF readPos = writePos THEN isFull ELSE FillsUp(writePos')
  /\ WroteResult(Len(items))
  /\ UNCHANGED readPos

(* Fill the array to its end and go on at its start, up to the read position.  *)
WriteAcrossEnd(items) ==
  LET left == BufSize - writePos
      rest == Len(items) - left IN
  /\ Len(items) > 0 /\ ~isFull
  /\ readPos <= writePos
  /\ ~FitsBeforeEnd(Len(items))
  /\ writePos' = WrappedWritePos(rest)
  /\ buf' = Stored(Stored(buf, writePos, items, 0, left), 0, items, left, writePos')
  /\ isEmpty' = FALSE
  /\ isFull' = FillsUp(writePos')
  /\ WroteResult(left + writePos')
  /\ UNCHANGED readPos

(* The free cells are the ones from the write to the read position.            *)
WriteIntoGap(items) ==
  LET left == readPos - writePos
      n    == IF left > Len(items) THEN Len(items) ELSE left IN
  /\ Len(items) > 0 /\ ~isFull
  /\ writePos < readPos
  /\ buf' = Stored(buf, writePos, items, 0, n)
  /\ writePos' = writePos + n
  /\ isEmpty' = FALSE
  /\ isFull' = FillsUp(writePos')
  /\ WroteResult(n)
  /\ UNCHANGED readPos

Write(items) ==
  \/ WriteNothing(items)
  \/ WriteBeforeEnd(items)
  \/ WriteAcrossEnd(items)
  \/ WriteIntoGap(items)

--------------------------------------------------------------------------------
(* read(buf, count)                                                            *)

ReadNothing(count) ==
  /\ count <= 0 \/ isEmpty
  /\ returned' = [count |-> 0, items |-> <<>>]
  /\ UNCHANGED <<buf, readPos, writePos, isEmpty, isFull>>

(* The unread items are contiguous.                                            *)
ReadContiguous(count) ==
  LET left == writePos - readPos
      n    == IF left > count THEN count ELSE left IN
  /\ count > 0 /\ ~isEmpty
  /\ readPos < writePos
  /\ readPos' = readPos + n
  /\ isFull' = FALSE
  /\ isEmpty' = (readPos' = writePos)
  /\ returned' = [count |-> n, items |-> Fetched(readPos, n)]
  /\ UNCHANGED <<buf, writePos>>

(* The unread items run to the end of the array, and enough of them do.        *)
ReadBeforeEnd(count) ==
  /\ count > 0 /\ ~isEmpty
  /\ writePos <= readPos
  /\ BufSize - readPos > count
  /\ readPos' = readPos + count
  /\ isFull' = FALSE
  /\ isEmpty' = (readPos' = writePos)
  /\ returned' = [count |-> count, items |-> Fetched(readPos, count)]
  /\ UNCHANGED <<buf, writePos>>

(* Where a read that reached the end of the array with `rest` items to go ends. *)
(* The code compares with > when the buffer is full and with >= otherwise.     *)
WrappedReadPos(rest) ==
  IF readPos = writePos
  THEN IF writePos > rest THEN rest ELSE writePos
  ELSE IF writePos >= rest THEN rest ELSE writePos

(* Read to the end of the array and go on at its start, up to the write        *)
(* position.                                                                   *)
ReadAcrossEnd(count) ==
  LET left == BufSize - readPos
      rest == count - left IN
  /\ count > 0 /\ ~isEmpty
  /\ writePos <= readPos
  /\ left <= count
  /\ readPos' = WrappedReadPos(rest)
  /\ isFull' = FALSE
  /\ isEmpty' = (readPos' = writePos)
  /\ returned' = [count |-> left + readPos',
                  items |-> Fetched(readPos, left) \o Fetched(0, readPos')]
  /\ UNCHANGED <<buf, writePos>>

Read(count) ==
  \/ ReadNothing(count)
  \/ ReadContiguous(count)
  \/ ReadBeforeEnd(count)
  \/ ReadAcrossEnd(count)

--------------------------------------------------------------------------------
Requests == UNION {[1 .. n -> Item] : n \in 0 .. MaxCount}

Next ==
  \/ \E items \in Requests : Write(items)
  \/ \E count \in -1 .. MaxCount : Read(count)
  \/ Clear

Spec == Init /\ [][Next]_vars

--------------------------------------------------------------------------------
(* Both positions stay inside the array after every call, so no memcpy starts  *)
(* outside it (pod_circularbuffer.h asserts the weaker `<= m_nBufSize`).       *)
TypeOK ==
  /\ buf \in [Cells -> Item]
  /\ readPos \in Cells
  /\ writePos \in Cells
  /\ isEmpty \in BOOLEAN
  /\ isFull \in BOOLEAN

(* The cell that is i places after the read position, going round the array.   *)
CellAt(i) == IF readPos + i < BufSize THEN readPos + i ELSE readPos + i - BufSize

(* The items the buffer holds, oldest first.                                   *)
Contents == [i \in 1 .. Size |-> buf[CellAt(i - 1)]]

Fifo == INSTANCE BoundedFifo
          WITH Capacity <- BufSize, queue <- Contents

(* Whatever positions and flags the calls go through, every write and every    *)
(* read returns what a bounded first-in first-out queue returns.               *)
ImplementsFifo == Fifo!Spec
================================================================================
