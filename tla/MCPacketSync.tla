----------------------------- MODULE MCPacketSync ----------------------------
(* Model values for PacketSync: peers that send frames with HEAD and TAIL      *)
(* bytes in their data, frames whose tail or length is wrong, and stray bytes. *)
EXTENDS PacketSync

Packet(len) ==
    [version |-> 0, header |-> HEAD, tail |-> TAIL, check |-> [i \in 1 .. CheckLen |-> 0],
     type |-> 0, datalen |-> len, reserve |-> 0]
Sent(data) == PacketData(Packet(Len(data)), data)
Empty == Sent(<<>>)

(* A header that announces n bytes, which are those of other frames: with 9
   either buffer has to be enlarged. *)
Announcing(n) == <<HEAD>> \o NetPacketToChar(Packet(n))

GoodStreams == {Empty \o Sent(<<HEAD, TAIL>>), Sent(<<HEAD, 0, TAIL>>)}

AllStreams == {Empty \o Sent(<<HEAD, TAIL>>),
               <<0, HEAD>> \o Sent(<<TAIL>>) \o <<HEAD>>,
               Announcing(9) \o <<HEAD, 0, 0>> \o Empty,
               Announcing(-1) \o Empty}

(* the codecs with ints of more than one byte *)
Wide == INSTANCE NetBase WITH ByteBase <- 4, IntLen <- 2, CheckLen <- 1

SomeInts == {-8, -1, 0, 6}

(* Headers survive the codecs, every int and every field of them, and so do
   exactly those 64-bit numbers that CharToInt64 can add up (net_base.h:89-129,
   152-195).  Whatever the state, so it is evaluated before the first byte. *)
CodecsInvert ==
    stream = <<>> =>
        /\ Wide!HeaderSurvives([version: SomeInts, header: {1}, tail: {2, 3},
                                check: [{1} -> {0, 3}], type: SomeInts,
                                datalen: SomeInts, reserve: SomeInts])
        /\ Wide!Int64SurvivesBelow
=============================================================================
