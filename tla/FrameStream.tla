----------------------------- MODULE FrameStream -----------------------------
(***************************************************************************)
(* What a user of a connection is promised: the frames of the byte stream, *)
(* in order, each once, whatever the pieces the bytes arrive in, and each  *)
(* as soon as its last byte is there.                                      *)
(*                                                                         *)
(* A frame is a HEAD byte, a header that repeats HEAD and TAIL and gives a *)
(* length that is not negative, that many bytes of data and a TAIL byte.   *)
(* Where no frame starts, the search goes on at the next HEAD byte.        *)
(***************************************************************************)
EXTENDS NetBase, FiniteSets

CONSTANTS HEAD, TAIL

ASSUME MarksAssumption == HEAD \in Byte /\ TAIL \in Byte

VARIABLES stream,    \* the bytes that have arrived
          delivered  \* the frames given to the user, as the positions of their bytes

Interval(a, b) == [i \in 1 .. (b - a + 1) |-> a + i - 1]

(* the header after the HEAD byte at p *)
HeaderAt(s, p) == CharToNetPacket(SubSeq(s, p + 1, p + HeadLen))
Valid(header) == header.header = HEAD /\ header.tail = TAIL /\ header.datalen >= 0
HeadAt(s, p) == s[p] = HEAD /\ p + HeadLen <= Len(s) /\ Valid(HeaderAt(s, p))

(* the position of the TAIL byte that the header at p announces *)
TailOf(s, p) == p + HeadLen + HeaderAt(s, p).datalen + 1
FrameAt(s, p) == HeadAt(s, p) /\ TailOf(s, p) <= Len(s) /\ s[TailOf(s, p)] = TAIL

(* a HEAD byte of which it cannot be said yet whether a frame starts there *)
OpenAt(s, p) ==
    /\ s[p] = HEAD
    /\ IF p + HeadLen > Len(s) THEN TRUE
       ELSE Valid(HeaderAt(s, p)) /\ TailOf(s, p) > Len(s)

(* the frames of s from p on, as the positions of their header and data *)
FramesFrom(s) ==
    LET from[p \in 1 .. (Len(s) + 1)] ==
            IF p > Len(s) \/ (p <= Len(s) /\ OpenAt(s, p)) THEN <<>>
            ELSE IF FrameAt(s, p)
                 THEN <<Interval(p + 1, TailOf(s, p) - 1)>> \o from[TailOf(s, p) + 1]
                 ELSE from[p + 1]
    IN  from

Frames(s) == FramesFrom(s)[1]

------------------------------------------------------------------------------

Init == stream = <<>> /\ delivered = <<>>

Arrive == /\ stream' # stream /\ IsPrefix(stream, stream')
          /\ UNCHANGED delivered

Deliver == /\ Len(delivered) < Len(Frames(stream))
           /\ delivered' = Append(delivered, Frames(stream)[Len(delivered) + 1])
           /\ UNCHANGED stream

Next == Arrive \/ Deliver

Spec == Init /\ [][Next]_<<stream, delivered>>
=============================================================================
