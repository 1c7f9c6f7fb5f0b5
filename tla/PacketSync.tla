----------------------------- MODULE PacketSync ------------------------------
(***************************************************************************)
(* The packetizer of a connection, reference/include/packet_sync.h: the    *)
(* loop of recvdata, which finds the frames in the pieces of the byte      *)
(* stream that AfterRecv hands it, and what becomes of it when TCPClient   *)
(* or TCPServer go on using it for the next connection.                    *)
(*                                                                         *)
(* The buffers hold positions of the stream instead of bytes: a position   *)
(* names a byte and says where it came from.  The indices are those of the *)
(* code plus one.  recvdata is a loop; each of its branches is an action.  *)
(***************************************************************************)
EXTENDS FrameStream

CONSTANTS BUFFER_SIZE,    \* what is allocated for either buffer at first
          Streams,        \* what a peer may send on one connection
          MaxConnections  \* bound of the model

ASSUME BufferAssumption == BUFFER_SIZE \in Nat /\ BUFFER_SIZE > HeadLen
ASSUME TailAssumption == TAIL < ByteBase \div 2  \* no other tail ever fits, see TailFits
ASSUME StreamsAssumption == Streams \subseteq Seq(Byte) /\ MaxConnections \in Nat

VARIABLES pc,       \* "idle" outside recvdata, else the part of the loop it is in
          parsed,   \* parsetype: "nothing" or "head"
          left,     \* bytes of data not consumed yet, len - iret
          read,     \* thread_readdata, the first truepacketlen bytes
          readLen,  \* thread_readdata.len
          packet,   \* thread_packetdata, the first getdatalen bytes
          packLen,  \* thread_packetdata.len
          headpos,  \* where the head byte of the header in hand is
          next,     \* theNexPacket, as the bytes it was decoded from
          peer,     \* what the peer has still to send
          border    \* where each connection starts in the stream

parser == <<parsed, read, readLen, packet, packLen, headpos, next>>
vars == <<stream, delivered, pc, left, peer, border, parser>>

Larger(a, b) == IF a > b THEN a ELSE b
Smaller(a, b) == IF a < b THEN a ELSE b

BytesOf(positions) == [i \in DOMAIN positions |-> stream[positions[i]]]
Header(positions) == CharToNetPacket(BytesOf(positions))

(* the next n bytes of data *)
Data(n) == Interval(Len(stream) - left + 1, Len(stream) - left + n)

------------------------------------------------------------------------------

InitParser ==
    /\ read = <<>> /\ readLen = BUFFER_SIZE
    /\ packet = <<>> /\ packLen = BUFFER_SIZE
    /\ headpos = 0 /\ next = <<>> /\ parsed = "nothing"

PacketInit ==
    /\ Init /\ InitParser
    /\ pc = "idle" /\ left = 0 /\ peer = <<>> /\ border = <<>>

(* A connection is made.  Start sets HEAD and TAIL, nothing else of the
   packetizer; what the last peer had still to send is lost. *)
Start ==
    /\ pc = "idle" /\ Len(border) < MaxConnections
    /\ peer' \in Streams
    /\ border' = Append(border, Len(stream) + 1)
    /\ UNCHANGED <<stream, delivered, pc, left, parser>>

(* AfterRecv: any part of what the peer has sent is there. *)
Receive ==
    /\ pc = "idle"
    /\ \E n \in 1 .. Len(peer) :
        /\ stream' = stream \o SubSeq(peer, 1, n)
        /\ peer' = SubSeq(peer, n + 1, Len(peer))
        /\ left' = n
    /\ pc' = "loop"
    /\ UNCHANGED <<delivered, border, parser>>

(* Mutant: bytes of earlier calls are looked at only when new ones come. *)
GoesOnWithDataOnly == left > 0

(* Mutant: the loop goes on for a header without data or tail. *)
GoesOnWithHeader == left > 0 \/ Len(read) >= HeadLen

GoesOn == left > 0 \/ Len(read) >= HeadLen + 2

Return ==
    /\ pc = "loop" /\ ~GoesOn
    /\ pc' = "idle"
    /\ UNCHANGED <<stream, delivered, left, peer, border, parser>>

------------------------------------------------------------------------------
(* No header in hand: fill thread_readdata and look for one. *)

(* Mutant: the rest of the buffer is not looked at. *)
TakenBlindly == left

Taken == Smaller(readLen - Len(read), left)
Filled == read \o Data(Taken)
HeadIn(buffer) == SelectInSeq(buffer, LAMBDA p : stream[p] = HEAD)
From(buffer, i) == SubSeq(buffer, i, Len(buffer))

(* the header behind the head byte at i *)
HeaderIn(buffer, i) == SubSeq(buffer, i + 1, i + HeadLen)

SearchHead ==
    /\ pc = "loop" /\ GoesOn /\ parsed = "nothing"
    /\ left' = left - Taken
    /\ UNCHANGED <<stream, delivered, peer, border, readLen>>

NoHead ==
    /\ SearchHead
    /\ HeadIn(Filled) = 0
    /\ read' = <<>> /\ headpos' = headpos
    /\ UNCHANGED <<pc, parsed, packet, packLen, next>>

HeaderIncomplete ==
    /\ SearchHead
    /\ headpos' = HeadIn(Filled)
    /\ headpos' # 0 /\ Len(Filled) - headpos' < HeadLen
    /\ read' = From(Filled, headpos')
    /\ UNCHANGED <<pc, parsed, packet, packLen, next>>

HeaderThere ==
    /\ SearchHead
    /\ headpos' = HeadIn(Filled)
    /\ headpos' # 0 /\ Len(Filled) - headpos' >= HeadLen
    /\ next' = HeaderIn(Filled, headpos')

InvalidHeader ==
    /\ HeaderThere
    /\ ~Valid(Header(next'))
    /\ read' = From(Filled, headpos' + 1)
    /\ UNCHANGED <<pc, parsed, packet, packLen>>

(* the data and the tail byte behind a header *)
BodyLen(header) == Header(header).datalen + 1

ValidHeader ==
    /\ HeaderThere
    /\ Valid(Header(next'))
    /\ parsed' = "head" /\ pc' = "body"
    /\ read' = Filled
    /\ packLen' = Larger(packLen, BodyLen(next'))
    /\ packet' = LET n == Smaller(Len(Filled) - headpos' - HeadLen, BodyLen(next'))
                 IN  SubSeq(Filled, headpos' + HeadLen + 1, headpos' + HeadLen + n)

------------------------------------------------------------------------------
(* A header in hand: collect its data and the tail byte. *)

Missing == BodyLen(next) - Len(packet)
InBody == pc = "body" \/ (pc = "loop" /\ GoesOn /\ parsed = "head")

WaitForBody ==
    /\ InBody /\ left < Missing
    /\ packet' = packet \o Data(left)
    /\ left' = 0 /\ pc' = "idle"
    /\ UNCHANGED <<stream, delivered, peer, border, parsed, read, readLen, packLen, headpos, next>>

FillBody ==
    /\ InBody /\ left >= Missing
    /\ packet' = packet \o Data(Missing)
    /\ left' = left - Missing /\ pc' = "tail"
    /\ UNCHANGED <<stream, delivered, peer, border, parsed, read, readLen, packLen, headpos, next>>

------------------------------------------------------------------------------
(* The whole frame is there: test its last byte. *)

(* thread_readdata alone holds all of it *)
WholeInRead == Len(read) - headpos - HeadLen >= BodyLen(next)

(* thread_packetdata holds chars, which are signed, TAIL is an unsigned char. *)
AsChar(b) == IF b < ByteBase \div 2 THEN b ELSE b - ByteBase
TailFits == AsChar(stream[packet[BodyLen(next)]]) = TAIL

(* Mutant: the bytes of what was no frame are dropped. *)
PutBackNothing == IF WholeInRead THEN From(read, headpos + 1) ELSE <<>>

(* Mutant: what was no frame is parsed again from its first byte on. *)
PutBackWhole ==
    IF WholeInRead THEN From(read, headpos)
    ELSE SubSeq(read, headpos, headpos + HeadLen) \o SubSeq(packet, 1, BodyLen(next))

(* Not a frame: everything behind its first byte is parsed again. *)
PutBack ==
    IF WholeInRead THEN From(read, headpos + 1)
    ELSE HeaderIn(read, headpos) \o SubSeq(packet, 1, BodyLen(next))

WrongTail ==
    /\ pc = "tail" /\ ~TailFits
    /\ read' = PutBack
    /\ readLen' = IF WholeInRead THEN readLen ELSE Larger(readLen, HeadLen + BodyLen(next))
    /\ parsed' = "nothing" /\ pc' = "loop"
    /\ UNCHANGED <<stream, delivered, left, peer, border, packet, packLen, headpos, next>>

(* Mutant: the tail byte stays in the buffer, and one byte too many of it. *)
BehindOffByOne == IF WholeInRead THEN From(read, headpos + HeadLen + BodyLen(next) + 2) ELSE <<>>

Behind == IF WholeInRead THEN From(read, headpos + HeadLen + BodyLen(next) + 1) ELSE <<>>

(* packet_cb_ gets theNexPacket and the data *)
RightTail ==
    /\ pc = "tail" /\ TailFits
    /\ delivered' = Append(delivered, next \o SubSeq(packet, 1, BodyLen(next) - 1))
    /\ read' = Behind
    /\ parsed' = "nothing" /\ pc' = "loop"
    /\ UNCHANGED <<stream, left, peer, border, readLen, packet, packLen, headpos, next>>

------------------------------------------------------------------------------

recvdata == \/ NoHead \/ HeaderIncomplete \/ InvalidHeader \/ ValidHeader
            \/ WaitForBody \/ FillBody \/ WrongTail \/ RightTail \/ Return

PacketNext == Start \/ Receive \/ recvdata

PacketSpec == PacketInit /\ [][PacketNext]_vars

(* A call that was made is executed. *)
PacketFairSpec == PacketSpec /\ WF_vars(recvdata)

------------------------------------------------------------------------------

(* The variables have their types, and no copy of recvdata wrote behind the
   end of either buffer (packet_sync.h:75-84, 118-126, 132-139, 150-157). *)
TypeOK ==
    /\ pc \in {"idle", "loop", "body", "tail"} /\ parsed \in {"nothing", "head"}
    /\ left \in 0 .. Len(stream)
    /\ \A i \in DOMAIN read : read[i] \in DOMAIN stream
    /\ \A i \in DOMAIN packet : packet[i] \in DOMAIN stream
    /\ readLen \in Nat /\ Len(read) <= readLen
    /\ packLen \in Nat /\ Len(packet) <= packLen
    /\ parsed = "head" => headpos \in 1 .. (Len(read) - HeadLen) /\ Len(packet) <= BodyLen(next)

(* However the bytes were cut into pieces, and whatever was parsed twice: when
   recvdata returns the user has got exactly the frames that are complete, not
   one of them a call later (the loop goes on with bytes of earlier calls,
   packet_sync.h:71). *)
DeliveredAtOnce == pc = "idle" => delivered = Frames(stream)

(* A frame is lost to the user only when another one covers its first byte or
   a header before it may still do so: damaged frames and bytes between frames
   cost nothing else (packet_sync.h:112-113, 146-159). *)
NoFrameLost ==
    pc = "idle" =>
        \A p \in DOMAIN stream : FrameAt(stream, p) =>
            \/ \E i \in DOMAIN delivered :
                   delivered[i][1] - 1 <= p /\ p <= delivered[i][Len(delivered[i])] + 1
            \/ parsed = "head" /\ next[1] <= p

(* recvdata returns: no turn of the loop repeats itself (packet_sync.h:71). *)
RecvdataReturns == (pc # "idle") ~> (pc = "idle")

(* What a call has still to do: to look at the bytes from the place where the
   search goes on, to copy those that are left, to go through the loop. *)
Unparsed == IF parsed = "head" THEN Len(stream) + 2 - next[1] ELSE left + Len(read)
Work == 3 * Unparsed + left
            + (CASE pc = "loop" -> 2 [] pc = "body" -> 1 [] OTHER -> 0)

(* Every turn of the loop leaves the call less to do, also those that put
   bytes back or take none: it returns after a number of turns that the bytes
   it was given and those it had kept bound (packet_sync.h:71-160). *)
RecvdataProgresses ==
    [][pc # "idle" /\ pc' # "idle" => Work' \in 0 .. Work - 1]_vars

(* The loop of recvdata, whatever it does in between, implements the promise of
   FrameStream: bytes arrive, and frames of what has arrived are given to the
   user one by one, in their order. *)
Promise == INSTANCE FrameStream
ImplementsFrameStream == Promise!Spec

(* What net_base.h:132 says of the format: head and tail bytes are there to
   detect whether a packet is whole.  No frame given to the user is put together
   from the bytes of two connections. *)
FramesAreWhole ==
    \A i \in DOMAIN delivered, c \in DOMAIN border :
        ~(delivered[i][1] - 1 < border[c] /\ border[c] <= delivered[i][Len(delivered[i])] + 1)
=============================================================================
