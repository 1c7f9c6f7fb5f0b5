------------------------------ MODULE BoundedFifo ------------------------------
(* What a bounded first-in first-out buffer promises to its callers: a write   *)
(* stores the longest prefix of its items that fits and returns its length, a  *)
(* read removes and returns the oldest items.  PodCircularBuffer implements    *)
(* this with an array and two positions; TCPClient is built on the promise.    *)
EXTENDS Integers, Sequences

CONSTANTS
  Item,        \* what the buffer stores
  Capacity,    \* how many items it holds
  MaxCount     \* bound: the largest count a caller passes

VARIABLES
  queue,       \* the stored items, oldest first
  returned     \* what the last call returned: a count, and the items it read

fifoVars == <<queue, returned>>

Lesser(m, n) == IF m <= n THEN m ELSE n

(* The number of items a write of `count` items stores.                        *)
Accepted(q, count) == Lesser(count, Capacity - Len(q))

(* The number of items a read of at most `count` items returns.                *)
Available(q, count) == IF count <= 0 THEN 0 ELSE Lesser(count, Len(q))

Init ==
  /\ queue = <<>>
  /\ returned = [count |-> 0, items |-> <<>>]

Write(items) ==
  LET n == Accepted(queue, Len(items)) IN
  /\ queue' = queue \o SubSeq(items, 1, n)
  /\ returned' = [count |-> n, items |-> <<>>]

Read(count) ==
  LET n == Available(queue, count) IN
  /\ queue' = SubSeq(queue, n + 1, Len(queue))
  /\ returned' = [count |-> n, items |-> SubSeq(queue, 1, n)]

Clear ==
  /\ queue' = <<>>
  /\ UNCHANGED returned

Requests == UNION {[1 .. n -> Item] : n \in 0 .. MaxCount}

Next ==
  \/ \E items \in Requests : Write(items)
  \/ \E count \in -1 .. MaxCount : Read(count)
  \/ Clear

Spec == Init /\ [][Next]_fifoVars
================================================================================
