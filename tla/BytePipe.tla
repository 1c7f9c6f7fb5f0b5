-------------------------------- MODULE BytePipe -------------------------------
(* What a TCPClient promises to those who call Send.  The bytes of a message   *)
(* are accepted in their order, each once; what was accepted is delivered in   *)
(* the order of its acceptance; it is given up only while there is no          *)
(* connection, a stretch of it at a time.  A byte is a pair of the number of   *)
(* its message and its place in it.                                            *)
EXTENDS Integers, Sequences

CONSTANTS Messages,  \* the messages' numbers
          MsgLen     \* how long each of them is

VARIABLES waiting,   \* the bytes that were accepted, oldest first
          delivered, \* the bytes that were written, in order
          dropped,   \* the bytes that were given up
          connected  \* there is a connection

pipeVars == <<waiting, delivered, dropped, connected>>

BytesIn(seq) == {seq[i] : i \in DOMAIN seq}

(* The places of message m whose bytes were accepted at some time.             *)
Taken(m) ==
  {k \in 1 .. MsgLen : <<m, k>> \in BytesIn(delivered) \cup BytesIn(waiting) \cup dropped}

Init == waiting = <<>> /\ delivered = <<>> /\ dropped = {} /\ ~connected

(* The next bytes of a message, behind everything that was accepted before.    *)
Accept ==
  /\ waiting' # waiting /\ UNCHANGED <<delivered, dropped, connected>>
  /\ \E m \in Messages, first, last \in 1 .. MsgLen :
       /\ Taken(m) = 1 .. first - 1 /\ first <= last
       /\ waiting' = waiting \o [i \in 1 .. last - first + 1 |-> <<m, first + i - 1>>]

Deliver ==
  /\ delivered' # delivered /\ UNCHANGED <<dropped, connected>>
  /\ \E n \in 1 .. Len(waiting) :
       /\ delivered' = delivered \o SubSeq(waiting, 1, n)
       /\ waiting' = SubSeq(waiting, n + 1, Len(waiting))

GiveUp ==
  /\ ~connected /\ waiting' # waiting /\ UNCHANGED <<delivered, connected>>
  /\ \E first, last \in 1 .. Len(waiting) :
       /\ first <= last
       /\ waiting' = SubSeq(waiting, 1, first - 1) \o SubSeq(waiting, last + 1, Len(waiting))
       /\ dropped' = dropped \cup BytesIn(SubSeq(waiting, first, last))

(* The connection is made, or lost.                                            *)
Link == connected' = ~connected /\ UNCHANGED <<waiting, delivered, dropped>>

Next == Accept \/ Deliver \/ GiveUp \/ Link

Spec == Init /\ [][Next]_pipeVars
================================================================================
