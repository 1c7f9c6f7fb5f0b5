---------------------------- MODULE PacketSyncProofs ---------------------------
(* Proofs about PacketSync, for every stream of bytes, every way it is cut     *)
(* into pieces and every size of the buffers: no copy leaves its buffer, the   *)
(* user gets exactly the frames of the stream, each at once, no frame is lost  *)
(* to a damaged one, and every turn of the loop leaves a call less to do.      *)
EXTENDS PacketSync, FrameStreamProofs

--------------------------------------------------------------------------------
(* The inductive invariant.                                                    *)

(* Consecutive positions of the stream, from base + 1 on.                      *)
Run(seq, base) == seq \in Seq(Int) /\ \A i \in 1 .. Len(seq) : seq[i] = base + i

(* The bytes that recvdata has taken from its argument.                        *)
Consumed == Len(stream) - left

(* The head byte in front of the header in hand.                               *)
First == next[1] - 1

(* The position at which the search for frames goes on.                        *)
Pos == IF parsed = "head" THEN First ELSE Consumed - Len(read) + 1

BuffersFit ==
  /\ stream \in Seq(Byte) /\ peer \in Seq(Byte) /\ delivered \in Seq(Seq(Int))
  /\ pc \in {"idle", "loop", "body", "tail"} /\ parsed \in {"nothing", "head"}
  /\ left \in 0 .. Len(stream)
  /\ read \in Seq(Int) /\ readLen \in Nat /\ Len(read) <= readLen
  /\ packet \in Seq(Int) /\ packLen \in Nat /\ Len(packet) <= packLen
  /\ \A i \in 1 .. Len(packet) : packet[i] \in 1 .. Len(stream)

(* Without a header in hand thread_readdata holds the last bytes consumed.     *)
NothingInHand ==
  parsed = "nothing" =>
    /\ pc \in {"idle", "loop"}
    /\ Len(read) <= Consumed /\ Run(read, Consumed - Len(read))

(* With one, either thread_readdata holds all of the frame and all that was    *)
(* consumed, or thread_packetdata has the last bytes consumed.                 *)
HeaderInHand ==
  parsed = "head" =>
    /\ headpos \in 1 .. Len(read) - HeadLen
    /\ First \in Nat \ {0} /\ headpos <= First /\ First + HeadLen <= Len(stream)
    /\ stream[First] = HEAD /\ Valid(HeaderAt(stream, First))
    /\ Len(next) = HeadLen /\ Run(next, First)
    /\ Run(read, First - headpos) /\ Run(packet, First + HeadLen)
    /\ Len(packet) <= BodyLen(next) /\ BodyLen(next) <= packLen
    /\ IF WholeInRead
       THEN Len(packet) = BodyLen(next) /\ First - headpos + Len(read) = Consumed
       ELSE /\ First + HeadLen + Len(packet) = Consumed
            /\ Len(read) - headpos - HeadLen <= Len(packet)
    /\ pc = "tail" => Len(packet) = BodyLen(next)
    /\ pc \in {"idle", "loop"} => Len(packet) < BodyLen(next)

(* recvdata returns when it has consumed all, and no frame fits in the rest.   *)
IdleMeansDone ==
  pc = "idle" => left = 0 /\ (parsed = "nothing" => Len(read) < HeadLen + 2)

(* What was given to the user are the frames before Pos.                       *)
ScanIsRight == Pos \in 1 .. Len(stream) + 1 /\ Scanned(stream, delivered, Pos)

IInv ==
  /\ BuffersFit /\ NothingInHand /\ HeaderInHand /\ IdleMeansDone /\ ScanIsRight

LEMMA InvImpliesTypeOK == IInv => TypeOK
<1> SUFFICES ASSUME IInv PROVE TypeOK
  OBVIOUS
<1> USE DEF IInv
<1>1. Len(stream) \in Nat /\ DOMAIN stream = 1 .. Len(stream)
  BY LenProperties DEF BuffersFit
<1>2. Len(read) \in Nat /\ DOMAIN read = 1 .. Len(read)
  BY LenProperties DEF BuffersFit
<1>3. DOMAIN packet = 1 .. Len(packet)
  BY LenProperties DEF BuffersFit
<1>4. left \in 0 .. Len(stream) /\ parsed \in {"nothing", "head"} /\ HeadLen \in Nat
  BY HeadLenIsNat DEF BuffersFit
<1>5. ASSUME NEW i \in 1 .. Len(read) PROVE read[i] \in 1 .. Len(stream)
  <2>1. CASE parsed = "nothing"
    <3>1. read[i] = Consumed - Len(read) + i /\ Len(read) <= Consumed
      BY <2>1 DEF NothingInHand, Run
    <3> QED
      BY <1>1, <1>2, <1>4, <3>1 DEF Consumed
  <2>2. CASE parsed = "head"
    <3>1. /\ headpos \in 1 .. Len(read) - HeadLen
          /\ First \in Nat \ {0} /\ headpos <= First
          /\ read[i] = First - headpos + i
      BY <2>2 DEF HeaderInHand, Run
    <3>2. First - headpos + Len(read) <= Consumed
      <4>1. CASE WholeInRead
        BY <2>2, <4>1 DEF HeaderInHand
      <4>2. CASE ~WholeInRead
        <5>1. /\ First + HeadLen + Len(packet) = Consumed
              /\ Len(read) - headpos - HeadLen <= Len(packet)
          BY <2>2, <4>2 DEF HeaderInHand
        <5>2. Len(packet) \in Nat
          BY LenProperties DEF BuffersFit
        <5> QED
          BY <1>1, <1>2, <1>4, <3>1, <5>1, <5>2 DEF Consumed
      <4> QED
        BY <4>1, <4>2
    <3> QED
      BY <1>1, <1>2, <1>4, <3>1, <3>2 DEF Consumed
  <2> QED
    BY <1>4, <2>1, <2>2
<1>6. parsed = "head" => headpos \in 1 .. (Len(read) - HeadLen) /\ Len(packet) <= BodyLen(next)
  BY DEF HeaderInHand
<1> QED
  BY <1>1, <1>2, <1>3, <1>5, <1>6 DEF TypeOK, BuffersFit

--------------------------------------------------------------------------------
(* Consecutive positions.                                                      *)

LEMMA RunInterval ==
  ASSUME NEW a \in Int, NEW n \in Nat
  PROVE  Run(Interval(a + 1, a + n), a) /\ Len(Interval(a + 1, a + n)) = n
<1>1. a + 1 \in Int /\ a + n \in Int /\ a + n >= (a + 1) - 1 /\ (a + n) - (a + 1) + 1 = n
  OBVIOUS
<1> DEFINE seq == Interval(a + 1, a + n)
<1>2. seq \in Seq(Int) /\ Len(seq) = n /\ \A i \in 1 .. n : seq[i] = (a + 1) + i - 1
  BY <1>1, IntervalFits
<1> HIDE DEF seq
<1>3. Run(seq, a) /\ Len(seq) = n
  BY <1>2 DEF Run
<1> QED
  BY <1>3 DEF seq

LEMMA RunConcat ==
  ASSUME NEW a, NEW b, NEW base \in Int, Run(a, base), Run(b, base + Len(a))
  PROVE  Run(a \o b, base) /\ Len(a \o b) = Len(a) + Len(b)
<1> DEFINE c == a \o b
<1>1. a \in Seq(Int) /\ b \in Seq(Int) /\ Len(a) \in Nat /\ Len(b) \in Nat
  BY LenProperties DEF Run
<1>2. /\ c \in Seq(Int) /\ Len(c) = Len(a) + Len(b)
      /\ \A i \in 1 .. Len(a) + Len(b) : c[i] = IF i <= Len(a) THEN a[i] ELSE b[i - Len(a)]
  BY <1>1, ConcatProperties
<1> HIDE DEF c
<1>3. ASSUME NEW i \in 1 .. Len(c) PROVE c[i] = base + i
  <2>1. CASE i <= Len(a)
    <3>1. i \in 1 .. Len(a) /\ c[i] = a[i]
      BY <1>1, <1>2, <2>1
    <3> QED
      BY <3>1 DEF Run
  <2>2. CASE i > Len(a)
    <3>1. i - Len(a) \in 1 .. Len(b) /\ c[i] = b[i - Len(a)]
      BY <1>1, <1>2, <2>2
    <3>2. b[i - Len(a)] = (base + Len(a)) + (i - Len(a))
      BY <3>1 DEF Run
    <3> QED
      BY <1>1, <3>1, <3>2
  <2> QED
    BY <1>1, <1>2, <2>1, <2>2
<1>4. Run(c, base) /\ Len(c) = Len(a) + Len(b)
  BY <1>2, <1>3 DEF Run
<1> QED
  BY <1>4 DEF c

LEMMA RunSub ==
  ASSUME NEW a, NEW base \in Int, Run(a, base),
         NEW m \in 1 .. Len(a) + 1, NEW n \in m - 1 .. Len(a)
  PROVE  Run(SubSeq(a, m, n), base + (m - 1)) /\ Len(SubSeq(a, m, n)) = n - m + 1
<1> DEFINE c == SubSeq(a, m, n)
<1>1. a \in Seq(Int) /\ Len(a) \in Nat /\ m \in Int /\ n \in Int /\ n - m + 1 \in Nat
  BY LenProperties DEF Run
<1>2. \A i \in m .. n : i \in 1 .. Len(a) /\ a[i] \in Int
  BY <1>1, ElementOfSeq
<1>3. /\ c \in Seq(Int) /\ Len(c) = IF m <= n THEN n - m + 1 ELSE 0
      /\ \A i \in 1 .. n - m + 1 : c[i] = a[m + i - 1]
  BY <1>1, <1>2, SubSeqProperties
<1> HIDE DEF c
<1>4. Len(c) = n - m + 1
  BY <1>1, <1>3
<1>5. ASSUME NEW i \in 1 .. Len(c) PROVE c[i] = base + (m - 1) + i
  <2>1. m + i - 1 \in 1 .. Len(a) /\ c[i] = a[m + i - 1]
    BY <1>1, <1>3, <1>4
  <2>2. a[m + i - 1] = base + (m + i - 1)
    BY <2>1 DEF Run
  <2> QED
    BY <1>1, <2>1, <2>2
<1>6. Run(c, base + (m - 1)) /\ Len(c) = n - m + 1
  BY <1>3, <1>4, <1>5 DEF Run
<1> QED
  BY <1>6 DEF c

LEMMA RunEqual ==
  ASSUME NEW a, NEW b, NEW base \in Int, Run(a, base), Run(b, base), Len(a) = Len(b)
  PROVE  a = b
BY SeqEqual, LenProperties DEF Run

LEMMA RunEmpty ==
  ASSUME NEW base \in Int
  PROVE  Run(<<>>, base) /\ Len(<<>>) = 0
BY EmptySeq DEF Run

(* The header decoded from HeadLen consecutive positions.                      *)
LEMMA HeaderOfRun ==
  ASSUME NEW s \in Seq(Byte), NEW h \in Nat, NEW pos, Run(pos, h), Len(pos) = HeadLen,
         h + HeadLen <= Len(s)
  PROVE  CharToNetPacket([i \in DOMAIN pos |-> s[pos[i]]]) = HeaderAt(s, h)
<1> DEFINE bytes == SubSeq(s, h + 1, h + HeadLen)
<1>1. HeadLen \in Nat /\ DOMAIN pos = 1 .. HeadLen
  BY HeadLenIsNat, LenProperties DEF Run
<1>2. /\ bytes \in Seq(Byte) /\ Len(bytes) = HeadLen
      /\ \A i \in 1 .. HeadLen : bytes[i] = s[h + i]
  BY HeaderBytes
<1> HIDE DEF bytes
<1>3. bytes = [i \in 1 .. HeadLen |-> bytes[i]]
  BY <1>2, LenProperties
<1>4. [i \in DOMAIN pos |-> s[pos[i]]] = [i \in 1 .. HeadLen |-> s[h + i]]
  BY <1>1 DEF Run
<1>5. [i \in DOMAIN pos |-> s[pos[i]]] = bytes
  BY <1>2, <1>3, <1>4
<1> QED
  BY <1>5 DEF HeaderAt, bytes

LEMMA HeadInFits ==
  ASSUME NEW buffer \in Seq(Int)
  PROVE  /\ HeadIn(buffer) \in 0 .. Len(buffer)
         /\ HeadIn(buffer) # 0 => stream[buffer[HeadIn(buffer)]] = HEAD
         /\ \A i \in 1 .. Len(buffer) :
              HeadIn(buffer) = 0 \/ i < HeadIn(buffer) => stream[buffer[i]] # HEAD
<1> DEFINE I == {i \in 1 .. Len(buffer) : stream[buffer[i]] = HEAD}
<1>1. Len(buffer) \in Nat
  BY LenProperties
<1>2. HeadIn(buffer) = IF I # {} THEN Min(I) ELSE 0
  BY DEF HeadIn, SelectInSeq
<1>3. I # {} => Min(I) \in I /\ \A i \in I : Min(I) <= i
  <2>1. I \subseteq Nat
    OBVIOUS
  <2> HIDE DEF I
  <2>2. I # {} => \E x \in I : \A y \in I : x <= y
    BY <2>1, LeastNumber
  <2> QED
    BY <2>2 DEF Min
<1>4. CASE I = {}
  BY <1>1, <1>2, <1>4
<1>5. CASE I # {}
  <2>1. HeadIn(buffer) \in I /\ \A i \in I : HeadIn(buffer) <= i
    BY <1>2, <1>3, <1>5
  <2> QED
    BY <1>1, <2>1
<1> QED
  BY <1>4, <1>5

--------------------------------------------------------------------------------
(* Every step keeps the invariant.                                             *)

(* The header in hand, and where its frame ends.                               *)
LEMMA BodyLenFits ==
  ASSUME IInv, parsed = "head"
  PROVE  /\ Header(next) = HeaderAt(stream, First)
         /\ First \in Nat \ {0} /\ BodyLen(next) \in Nat \ {0}
         /\ TailOf(stream, First) = First + HeadLen + BodyLen(next)
<1> USE DEF IInv
<1>1. /\ First \in Nat \ {0} /\ First + HeadLen <= Len(stream) /\ stream \in Seq(Byte)
      /\ Len(next) = HeadLen /\ Run(next, First) /\ Valid(HeaderAt(stream, First))
  BY DEF HeaderInHand, BuffersFit
<1>2. Header(next) = HeaderAt(stream, First)
  BY <1>1, HeaderOfRun DEF Header, BytesOf
<1>3. HeaderAt(stream, First).datalen \in Nat
  BY <1>1, HeaderBytes DEF Valid
<1> QED
  BY <1>1, <1>2, <1>3, HeadLenIsNat DEF BodyLen, TailOf

LEMMA InvInit == PacketInit => IInv
<1> SUFFICES ASSUME PacketInit PROVE IInv
  OBVIOUS
<1> USE DEF PacketInit, Init, InitParser
<1>1. /\ stream = <<>> /\ peer = <<>> /\ delivered = <<>> /\ read = <<>> /\ packet = <<>>
      /\ left = 0 /\ pc = "idle" /\ parsed = "nothing"
      /\ readLen = BUFFER_SIZE /\ packLen = BUFFER_SIZE /\ BUFFER_SIZE \in Nat
  BY BufferAssumption
<1>2. Len(<<>>) = 0 /\ <<>> \in Seq(Byte) /\ <<>> \in Seq(Int) /\ <<>> \in Seq(Seq(Int))
  BY EmptySeq
<1>3. BuffersFit
  BY <1>1, <1>2 DEF BuffersFit
<1>4. Consumed = 0
  BY <1>1, <1>2 DEF Consumed
<1>5. NothingInHand /\ HeaderInHand /\ IdleMeansDone
  BY <1>1, <1>2, <1>4, RunEmpty, HeadLenIsNat DEF NothingInHand, HeaderInHand, IdleMeansDone
<1>6. ScanIsRight
  <2>1. Pos = 1 /\ DOMAIN delivered = {}
    BY <1>1, <1>2, <1>4 DEF Pos
  <2> QED
    BY <1>1, <1>2, <2>1 DEF ScanIsRight, Scanned
<1> QED
  BY <1>3, <1>5, <1>6 DEF IInv

(* The search of frames and what is kept of the stream depend on nothing else. *)
LEMMA StutterKeeps ==
  ASSUME IInv, UNCHANGED <<stream, delivered, pc, left, parser>>, peer' \in Seq(Byte)
  PROVE  IInv'
<1> USE DEF IInv, parser
<1>1. BuffersFit' /\ NothingInHand' /\ IdleMeansDone'
  BY DEF BuffersFit, NothingInHand, IdleMeansDone, Consumed
<1>2. HeaderInHand'
  BY DEF HeaderInHand, Consumed, First, WholeInRead, BodyLen, Header, BytesOf
<1>3. ScanIsRight'
  BY DEF ScanIsRight, Pos, First, Consumed
<1> QED
  BY <1>1, <1>2, <1>3

LEMMA StartKeeps == ASSUME IInv, Start PROVE IInv'
BY StutterKeeps, StreamsAssumption DEF Start

LEMMA ReceiveKeeps == ASSUME IInv, Receive PROVE IInv'
<1> USE DEF IInv
<1>1. PICK n \in 1 .. Len(peer) :
        /\ stream' = stream \o SubSeq(peer, 1, n)
        /\ peer' = SubSeq(peer, n + 1, Len(peer))
        /\ left' = n
  BY DEF Receive
<1>2. pc = "idle" /\ pc' = "loop" /\ UNCHANGED <<delivered, parser>>
  BY DEF Receive
<1>3. /\ stream \in Seq(Byte) /\ Len(stream) \in Nat /\ peer \in Seq(Byte) /\ Len(peer) \in Nat
      /\ left = 0 /\ HeadLen \in Nat
  BY <1>2, LenProperties, HeadLenIsNat DEF BuffersFit, IdleMeansDone
<1>4. SubSeq(peer, 1, n) \in Seq(Byte) /\ Len(SubSeq(peer, 1, n)) = n
  <2>1. \A i \in 1 .. n : peer[i] \in Byte
    BY <1>3, ElementOfSeq
  <2> QED
    BY <1>3, <2>1, SubSeqProperties
<1>5. peer' \in Seq(Byte)
  <2>1. \A i \in n + 1 .. Len(peer) : peer[i] \in Byte
    BY <1>3, ElementOfSeq
  <2> QED
    BY <1>1, <1>3, <2>1, SubSeqProperties
<1>6. /\ stream' \in Seq(Byte) /\ Len(stream') = Len(stream) + n
      /\ \A i \in 1 .. Len(stream) : stream'[i] = stream[i]
  <2> DEFINE piece == SubSeq(peer, 1, n)
  <2> HIDE DEF piece
  <2>1. stream' = stream \o piece /\ piece \in Seq(Byte) /\ Len(piece) = n
    BY <1>1, <1>4 DEF piece
  <2>2. /\ stream' \in Seq(Byte) /\ Len(stream') = Len(stream) + Len(piece)
        /\ \A i \in 1 .. Len(stream) + Len(piece) :
             stream'[i] = IF i <= Len(stream) THEN stream[i] ELSE piece[i - Len(stream)]
    BY <1>3, <2>1, ConcatProperties
  <2> QED
    BY <1>3, <2>1, <2>2
<1>7. Extends(stream', stream) /\ n \in Nat /\ Consumed' = Consumed /\ Consumed = Len(stream)
  BY <1>1, <1>3, <1>6 DEF Extends, Consumed
<1>8. BuffersFit'
  BY <1>1, <1>2, <1>3, <1>5, <1>6 DEF BuffersFit, parser
<1>9. NothingInHand' /\ IdleMeansDone'
  BY <1>2, <1>7 DEF NothingInHand, IdleMeansDone, parser
<1>10. First' = First /\ Pos' = Pos
  BY <1>2, <1>7 DEF First, Pos, parser
<1>11. HeaderInHand'
  <2> SUFFICES ASSUME parsed = "head" PROVE HeaderInHand'
    BY <1>2 DEF HeaderInHand, parser
  <2>1. /\ First \in Nat \ {0} /\ First + HeadLen <= Len(stream) /\ Len(next) = HeadLen
        /\ Run(next, First)
    BY DEF HeaderInHand
  <2>2. HeaderAt(stream', First) = HeaderAt(stream, First)
    BY <1>3, <1>6, <1>7, <2>1, HeaderStays
  <2>3. First + HeadLen <= Len(stream')
    BY <1>3, <1>6, <2>1
  <2>4. BodyLen(next)' = BodyLen(next)
    <3>1. CharToNetPacket([i \in DOMAIN next |-> stream'[next[i]]]) = HeaderAt(stream', First)
      BY <1>6, <2>1, <2>3, HeaderOfRun
    <3>2. CharToNetPacket([i \in DOMAIN next |-> stream[next[i]]]) = HeaderAt(stream, First)
      BY <1>3, <2>1, HeaderOfRun
    <3> QED
      BY <1>2, <2>2, <3>1, <3>2 DEF BodyLen, Header, BytesOf, parser
  <2>5. stream'[First] = stream[First]
    <3>1. First \in 1 .. Len(stream)
      BY <1>3, <2>1
    <3> QED
      BY <1>6, <3>1
  <2>6. WholeInRead' <=> WholeInRead
    BY <1>2, <2>4 DEF WholeInRead, parser
  <2> QED
    BY <1>2, <1>7, <1>10, <2>2, <2>3, <2>4, <2>5, <2>6 DEF HeaderInHand, parser
<1>12. ScanIsRight'
  <2>1. Pos \in 1 .. Len(stream) + 1 /\ Scanned(stream, delivered, Pos) /\ delivered \in Seq(Seq(Int))
    BY DEF ScanIsRight, BuffersFit
  <2>2. Scanned(stream', delivered, Pos)
    BY <1>3, <1>6, <1>7, <2>1, ScannedGrows
  <2> QED
    BY <1>2, <1>3, <1>6, <1>10, <2>1, <2>2 DEF ScanIsRight
<1> QED
  BY <1>8, <1>9, <1>11, <1>12

LEMMA ReturnKeeps == ASSUME IInv, Return PROVE IInv'
<1> USE DEF IInv
<1>1. /\ pc = "loop" /\ pc' = "idle" /\ left \in Nat /\ ~GoesOn
      /\ UNCHANGED <<stream, delivered, left, peer, border, parser>>
  BY DEF Return, BuffersFit
<1>2. left = 0 /\ Len(read) < HeadLen + 2
  <2>1. Len(read) \in Nat /\ HeadLen \in Nat
    BY LenProperties, HeadLenIsNat DEF BuffersFit
  <2> QED
    BY <1>1, <2>1 DEF GoesOn
<1>3. BuffersFit' /\ NothingInHand' /\ IdleMeansDone'
  BY <1>1, <1>2 DEF BuffersFit, NothingInHand, IdleMeansDone, Consumed, parser
<1>4. HeaderInHand'
  BY <1>1 DEF HeaderInHand, Consumed, First, WholeInRead, BodyLen, Header, BytesOf, parser
<1>5. ScanIsRight'
  BY <1>1 DEF ScanIsRight, Pos, First, Consumed, parser
<1> QED
  BY <1>3, <1>4, <1>5

(* The search for a head byte: with base before the first byte of the buffer,  *)
(* the filled buffer holds all up to the last byte consumed.                   *)
LEMMA SearchFits ==
  ASSUME IInv, SearchHead
  PROVE  \E base \in Nat :
           /\ Pos = base + 1 /\ Run(Filled, base) /\ Len(Filled) \in Nat
           /\ Len(Filled) <= readLen /\ base + Len(Filled) <= Len(stream)
           /\ Consumed' = base + Len(Filled) /\ left' \in 0 .. Len(stream)
           /\ pc = "loop" /\ parsed = "nothing"
           /\ UNCHANGED <<stream, delivered, peer, border, readLen>>
<1> USE DEF IInv
<1>1. /\ pc = "loop" /\ parsed = "nothing" /\ left' = left - Taken
      /\ UNCHANGED <<stream, delivered, peer, border, readLen>>
  BY DEF SearchHead
<1>2. /\ Len(stream) \in Nat /\ Len(read) \in Nat /\ left \in 0 .. Len(stream)
      /\ readLen \in Nat /\ Len(read) <= readLen
  BY LenProperties DEF BuffersFit
<1> DEFINE base == Consumed - Len(read)
<1>3. Run(read, base) /\ base \in Nat /\ Consumed \in Nat /\ Pos = base + 1
  BY <1>1, <1>2 DEF NothingInHand, Consumed, Pos
<1>4. Taken \in 0 .. left /\ Len(read) + Taken <= readLen
  BY <1>2 DEF Taken, Smaller
<1>5. Run(Data(Taken), base + Len(read)) /\ Len(Data(Taken)) = Taken
  <2>1. Consumed + 1 = Len(stream) - left + 1 /\ Consumed + Taken = Len(stream) - left + Taken
    BY DEF Consumed
  <2>2. Run(Interval(Consumed + 1, Consumed + Taken), Consumed)
        /\ Len(Interval(Consumed + 1, Consumed + Taken)) = Taken
    <3>1. Consumed \in Int /\ Taken \in Nat
      BY <1>3, <1>4
    <3> QED
      BY <3>1, RunInterval
  <2>3. base + Len(read) = Consumed
    BY <1>2, <1>3
  <2> QED
    BY <2>1, <2>2, <2>3 DEF Data
<1>6. Run(Filled, base) /\ Len(Filled) = Len(read) + Taken
  <2> HIDE DEF base
  <2>1. base \in Int
    BY <1>3
  <2> QED
    BY <1>3, <1>5, <2>1, RunConcat DEF Filled
<1>7. Consumed' = base + Len(Filled)
  BY <1>1, <1>2, <1>4, <1>6 DEF Consumed
<1>8. base + Len(Filled) <= Len(stream) /\ left' \in 0 .. Len(stream)
  BY <1>1, <1>2, <1>4, <1>6 DEF Consumed
<1> QED
  BY <1>1, <1>2, <1>3, <1>4, <1>6, <1>7, <1>8

(* What keeps the invariant when no header was found: the rest of the filled   *)
(* buffer behind r - 1 positions at which no frame starts.                     *)
LEMMA RestKeeps ==
  ASSUME IInv, SearchHead, UNCHANGED <<pc, parsed, packet, packLen>>,
         NEW r \in 1 .. Len(Filled) + 1,
         read' = SubSeq(Filled, r, Len(Filled)),
         \A i \in 1 .. r - 1 : Dead(stream, Filled[i])
  PROVE  IInv' /\ Pos' = Pos + (r - 1)
<1> USE DEF IInv
<1>1. PICK base \in Nat :
        /\ Pos = base + 1 /\ Run(Filled, base) /\ Len(Filled) \in Nat
        /\ Len(Filled) <= readLen /\ base + Len(Filled) <= Len(stream)
        /\ Consumed' = base + Len(Filled) /\ left' \in 0 .. Len(stream)
        /\ pc = "loop" /\ parsed = "nothing"
        /\ UNCHANGED <<stream, delivered, peer, border, readLen>>
  BY SearchFits
<1> DEFINE m == Len(Filled)
<1>2. Run(read', base + (r - 1)) /\ Len(read') = m - r + 1
  <2>1. m \in r - 1 .. m /\ r \in 1 .. m + 1
    BY <1>1
  <2> QED
    BY <1>1, <2>1, RunSub
<1>3. Len(read') \in Nat /\ Len(read') <= readLen /\ Len(stream) \in Nat
  BY <1>1, <1>2, LenProperties, SMTT(30) DEF BuffersFit
<1>4. BuffersFit'
  BY <1>1, <1>2, <1>3 DEF BuffersFit, Run
<1>5. Consumed' - Len(read') = base + (r - 1) /\ Len(read') <= Consumed'
  BY <1>1, <1>2
<1>6. NothingInHand' /\ HeaderInHand' /\ IdleMeansDone'
  BY <1>1, <1>2, <1>5 DEF NothingInHand, HeaderInHand, IdleMeansDone
<1>7. Pos' = base + r
  <2>1. Pos' = (Consumed' - Len(read')) + 1
    <3>1. parsed' # "head"
      BY <1>1
    <3> QED
      BY <3>1 DEF Pos
  <2>2. Pos' = (base + (r - 1)) + 1
    BY <1>5, <2>1
  <2>3. r \in Int
    BY <1>1
  <2> HIDE DEF m
  <2> QED
    BY <2>2, <2>3
<1>8. ASSUME NEW q \in base + 1 .. (base + r) - 1 PROVE Dead(stream, q)
  <2>1. q - base \in 1 .. r - 1 /\ q - base \in 1 .. Len(Filled)
    BY <1>1
  <2>2. Filled[q - base] = base + (q - base)
    BY <1>1, <2>1 DEF Run
  <2>3. base + (q - base) = q
    BY <1>1
  <2> QED
    BY <2>1, <2>2, <2>3
<1>9. ScanIsRight'
  <2>1. Scanned(stream, delivered, base + 1) /\ delivered \in Seq(Seq(Int))
    BY <1>1 DEF ScanIsRight, BuffersFit
  <2>2. base + 1 \in Nat /\ base + r \in Nat /\ base + 1 <= base + r
    BY <1>1
  <2>3. Scanned(stream, delivered, base + r)
    BY <1>8, <2>1, <2>2, ScannedSkips
  <2>4. base + r \in 1 .. Len(stream) + 1
    BY <1>1, <1>3
  <2> QED
    BY <1>1, <1>7, <2>3, <2>4 DEF ScanIsRight
<1>10. Pos' = Pos + (r - 1)
  <2>1. r \in Int
    BY <1>1
  <2> QED
    BY <1>1, <1>7, <2>1
<1> QED
  BY <1>4, <1>6, <1>9, <1>10

(* Up to the first head byte no frame starts.                                  *)
LEMMA BeforeHead ==
  ASSUME IInv, SearchHead, NEW i \in 1 .. Len(Filled),
         HeadIn(Filled) = 0 \/ i < HeadIn(Filled)
  PROVE  Dead(stream, Filled[i])
<1>1. Filled \in Seq(Int)
  BY SearchFits DEF Run
<1>2. stream[Filled[i]] # HEAD
  BY <1>1, HeadInFits
<1> QED
  BY <1>2 DEF Dead

LEMMA FilledLen == ASSUME IInv, SearchHead PROVE Filled \in Seq(Int) /\ Len(Filled) \in Nat
BY SearchFits DEF Run

LEMMA NoHeadKeeps == ASSUME IInv, NoHead PROVE IInv' /\ Pos' = Pos + Len(Filled)
<1>1. SearchHead /\ HeadIn(Filled) = 0 /\ read' = <<>> /\ UNCHANGED <<pc, parsed, packet, packLen>>
  BY DEF NoHead
<1>2. Filled \in Seq(Int) /\ Len(Filled) \in Nat
  BY <1>1, FilledLen
<1> DEFINE r == Len(Filled) + 1
<1>3. read' = SubSeq(Filled, r, Len(Filled)) /\ r \in 1 .. Len(Filled) + 1
  BY <1>1, <1>2, SubSeqEmpty
<1>4. \A i \in 1 .. r - 1 : Dead(stream, Filled[i])
  BY <1>1, <1>2, BeforeHead
<1>5. r - 1 = Len(Filled)
  BY <1>2
<1> HIDE DEF r
<1> QED
  BY <1>1, <1>3, <1>4, <1>5, RestKeeps

LEMMA HeaderIncompleteKeeps ==
  ASSUME IInv, HeaderIncomplete
  PROVE  IInv' /\ Pos' = Pos + (HeadIn(Filled) - 1)
<1> DEFINE r == HeadIn(Filled)
<1>1. /\ SearchHead /\ r # 0 /\ read' = SubSeq(Filled, r, Len(Filled))
      /\ UNCHANGED <<pc, parsed, packet, packLen>>
  BY DEF HeaderIncomplete, From
<1>2. Filled \in Seq(Int) /\ Len(Filled) \in Nat
  BY <1>1, FilledLen
<1>3. r \in 1 .. Len(Filled) + 1
  BY <1>1, <1>2, HeadInFits
<1>4. \A i \in 1 .. r - 1 : Dead(stream, Filled[i])
  <2>1. r <= Len(Filled)
    BY <1>1, <1>2, HeadInFits
  <2> QED
    BY <1>1, <1>2, <1>3, <2>1, BeforeHead, SMTT(30)
<1>5. r - 1 = HeadIn(Filled) - 1
  OBVIOUS
<1> HIDE DEF r
<1> QED
  BY <1>1, <1>3, <1>4, <1>5, RestKeeps

(* A complete header behind the head byte.                                     *)
LEMMA HeaderThereFits ==
  ASSUME IInv, HeaderThere,
         NEW base \in Nat, Run(Filled, base), base + Len(Filled) <= Len(stream)
  PROVE  /\ headpos' = HeadIn(Filled) /\ headpos' \in 1 .. Len(Filled) - HeadLen
         /\ Len(next') = HeadLen /\ Run(next', base + headpos')
         /\ base + headpos' + HeadLen <= Len(stream)
         /\ stream[base + headpos'] = HEAD
         /\ Header(next') = HeaderAt(stream, base + headpos')
         /\ Header(next').datalen \in Int
         /\ Filled[headpos'] = base + headpos'
<1>1. PICK j : j = headpos'
  OBVIOUS
<1>2. /\ SearchHead /\ j = HeadIn(Filled) /\ j # 0 /\ Len(Filled) - j >= HeadLen
      /\ next' = SubSeq(Filled, j + 1, j + HeadLen)
  BY <1>1 DEF HeaderThere, HeaderIn
<1>3. Filled \in Seq(Int) /\ Len(Filled) \in Nat /\ HeadLen \in Nat /\ HeadLen >= 6
  BY <1>2, FilledLen, HeadLenIsNat
<1>4. j \in 1 .. Len(Filled) - HeadLen /\ j \in 1 .. Len(Filled) /\ stream[Filled[j]] = HEAD
  <2>1. j \in 0 .. Len(Filled) /\ stream[Filled[j]] = HEAD
    BY <1>2, <1>3, HeadInFits
  <2>2. PICK m, h : m = Len(Filled) /\ h = HeadLen
    OBVIOUS
  <2>3. m \in Nat /\ h \in Nat /\ j \in 0 .. m /\ j # 0 /\ m - j >= h
    BY <1>2, <1>3, <2>1, <2>2
  <2>4. j \in 1 .. m - h /\ j \in 1 .. m
    BY <2>3
  <2> QED
    BY <2>1, <2>2, <2>4
<1>5. Filled[j] = base + j
  BY <1>4 DEF Run
<1>6. Run(next', base + j) /\ Len(next') = HeadLen
  <2>1. /\ j + 1 \in 1 .. Len(Filled) + 1
        /\ j + HeadLen \in (j + 1) - 1 .. Len(Filled)
        /\ base + ((j + 1) - 1) = base + j
        /\ (j + HeadLen) - (j + 1) + 1 = HeadLen
    BY <1>3, <1>4
  <2>2. PICK m, n : m = j + 1 /\ n = j + HeadLen
    OBVIOUS
  <2>3. /\ m \in 1 .. Len(Filled) + 1 /\ n \in m - 1 .. Len(Filled)
        /\ base + (m - 1) = base + j /\ n - m + 1 = HeadLen
    BY <2>1, <2>2
  <2>4. /\ Run(SubSeq(Filled, m, n), base + (m - 1))
        /\ Len(SubSeq(Filled, m, n)) = n - m + 1
    BY <2>3, RunSub
  <2>5. next' = SubSeq(Filled, m, n)
    BY <1>2, <2>2
  <2> QED
    BY <2>3, <2>4, <2>5
<1>7. base + j + HeadLen <= Len(stream) /\ base + j \in Nat /\ stream \in Seq(Byte)
  <2>1. stream \in Seq(Byte) /\ Len(stream) \in Nat
    BY LenProperties DEF IInv, BuffersFit
  <2> QED
    BY <1>3, <1>4, <2>1
<1>8. Header(next') = HeaderAt(stream, base + j)
  BY <1>6, <1>7, HeaderOfRun DEF Header, BytesOf
<1>9. Header(next').datalen \in Int
  BY <1>7, <1>8, HeaderBytes
<1> QED
  BY <1>1, <1>2, <1>4, <1>5, <1>6, <1>7, <1>8, <1>9

LEMMA InvalidHeaderKeeps == ASSUME IInv, InvalidHeader PROVE IInv' /\ Pos' = Pos + headpos'
<1>1. /\ SearchHead /\ HeaderThere /\ ~Valid(Header(next'))
      /\ read' = SubSeq(Filled, headpos' + 1, Len(Filled))
      /\ UNCHANGED <<pc, parsed, packet, packLen>>
  BY DEF InvalidHeader, HeaderThere, From
<1>2. PICK base \in Nat : Run(Filled, base) /\ base + Len(Filled) <= Len(stream)
  BY <1>1, SearchFits
<1>3. /\ headpos' = HeadIn(Filled) /\ headpos' \in 1 .. Len(Filled) - HeadLen
      /\ base + headpos' + HeadLen <= Len(stream)
      /\ Header(next') = HeaderAt(stream, base + headpos')
      /\ Filled[headpos'] = base + headpos'
  BY <1>1, <1>2, HeaderThereFits
<1>4. Len(Filled) \in Nat /\ HeadLen \in Nat
  BY <1>1, FilledLen, HeadLenIsNat
<1> DEFINE r == headpos' + 1
<1>5. r \in 1 .. Len(Filled) + 1 /\ \A i \in 1 .. r - 1 : i \in 1 .. Len(Filled)
  BY <1>3, <1>4, SMTT(30)
<1>6. ASSUME NEW i \in 1 .. r - 1 PROVE Dead(stream, Filled[i])
  <2>1. CASE i = headpos'
    BY <1>1, <1>3, <2>1 DEF Dead
  <2>2. CASE i # headpos'
    <3>1. i \in 1 .. Len(Filled) /\ i < HeadIn(Filled)
      BY <1>3, <1>5, <2>2
    <3> QED
      BY <1>1, <3>1, BeforeHead
  <2> QED
    BY <2>1, <2>2
<1>7. read' = SubSeq(Filled, r, Len(Filled))
  BY <1>1
<1>8. r - 1 = headpos'
  BY <1>3, <1>4
<1> HIDE DEF r
<1> QED
  BY <1>1, <1>5, <1>6, <1>7, <1>8, RestKeeps

LEMMA ValidHeaderKeeps ==
  ASSUME IInv, ValidHeader
  PROVE  IInv' /\ Pos' = Pos + (headpos' - 1)
<1> USE DEF IInv
<1> DEFINE m == Len(Filled)
           j == headpos'
           body == BodyLen(next')
           n == Smaller(m - j - HeadLen, body)
<1>1. /\ SearchHead /\ HeaderThere /\ Valid(Header(next'))
      /\ parsed' = "head" /\ pc' = "body" /\ read' = Filled
      /\ packLen' = Larger(packLen, body)
      /\ packet' = SubSeq(Filled, j + HeadLen + 1, j + HeadLen + n)
  BY DEF ValidHeader, HeaderThere
<1>2. PICK base \in Nat :
        /\ Pos = base + 1 /\ Run(Filled, base) /\ Len(Filled) \in Nat
        /\ Len(Filled) <= readLen /\ base + Len(Filled) <= Len(stream)
        /\ Consumed' = base + Len(Filled) /\ left' \in 0 .. Len(stream)
        /\ pc = "loop" /\ parsed = "nothing"
        /\ UNCHANGED <<stream, delivered, peer, border, readLen>>
  BY <1>1, SearchFits
<1>3. /\ j = HeadIn(Filled) /\ j \in 1 .. m - HeadLen
      /\ Len(next') = HeadLen /\ Run(next', base + j)
      /\ base + j + HeadLen <= Len(stream)
      /\ stream[base + j] = HEAD
      /\ Header(next') = HeaderAt(stream, base + j)
      /\ Header(next').datalen \in Int
  BY <1>1, <1>2, HeaderThereFits
<1>4. body \in Nat \ {0}
  BY <1>1, <1>3 DEF BodyLen, Valid
<1>5. /\ BodyLen(next)' = body
      /\ HeaderAt(stream', base + j) = HeaderAt(stream, base + j)
  BY <1>2 DEF BodyLen, Header, BytesOf
<1>6. m \in Nat /\ j \in Nat \ {0} /\ HeadLen \in Nat /\ HeadLen >= 6 /\ n \in 0 .. m - j - HeadLen
      /\ n <= body
  BY <1>2, <1>3, <1>4, HeadLenIsNat, SMTT(30) DEF Smaller
<1> HIDE DEF n, body, j, m
<1>7. Run(packet', base + j + HeadLen) /\ Len(packet') = n
  <2>1. /\ j + HeadLen + 1 \in 1 .. m + 1
        /\ j + HeadLen + n \in (j + HeadLen + 1) - 1 .. m
        /\ base + ((j + HeadLen + 1) - 1) = base + j + HeadLen
        /\ (j + HeadLen + n) - (j + HeadLen + 1) + 1 = n
    BY <1>6
  <2> QED
    BY <1>1, <1>2, <2>1, RunSub DEF m
<1>8. First' = base + j
  <2>1. next'[1] = base + j + 1
    BY <1>3, <1>6 DEF Run
  <2> QED
    BY <1>6, <2>1 DEF First
<1>9. Len(stream) \in Nat
  BY LenProperties DEF BuffersFit
<1>10. packLen' \in Nat /\ body <= packLen'
  BY <1>1, <1>4 DEF BuffersFit, Larger
<1>11. BuffersFit'
  <2>1. ASSUME NEW i \in 1 .. n PROVE packet'[i] \in 1 .. Len(stream)
    <3>1. packet'[i] = base + j + HeadLen + i
      BY <1>7 DEF Run
    <3> QED
      BY <1>2, <1>6, <1>9, <3>1 DEF m
  <2>2. n <= packLen'
    BY <1>4, <1>6, <1>10
  <2> QED
    BY <1>1, <1>2, <1>7, <1>10, <2>1, <2>2 DEF BuffersFit, Run
<1>12. NothingInHand' /\ IdleMeansDone'
  BY <1>1 DEF NothingInHand, IdleMeansDone
<1>13. HeaderInHand'
  <2>1. /\ headpos' = j /\ Len(read') = m /\ headpos' \in 1 .. Len(read') - HeadLen
        /\ First' \in Nat \ {0} /\ headpos' <= First'
    <3>1. headpos' = j /\ Len(read') = m
      BY <1>1 DEF j, m
    <3>2. base + j \in Nat \ {0} /\ j <= base + j
      BY <1>6
    <3> QED
      BY <1>3, <1>8, <3>1, <3>2
  <2>2. /\ First' + HeadLen <= Len(stream') /\ stream'[First'] = HEAD
        /\ Valid(HeaderAt(stream', First'))
    BY <1>1, <1>2, <1>3, <1>8
  <2>3. First' - headpos' = base /\ Run(read', base)
    <3>1. (base + j) - j = base
      BY <1>6
    <3> QED
      BY <1>1, <1>2, <1>8, <2>1, <3>1
  <2>4. Len(packet') <= BodyLen(next)' /\ BodyLen(next)' <= packLen'
    BY <1>5, <1>6, <1>7, <1>10
  <2>5. WholeInRead' <=> m - j - HeadLen >= body
    BY <1>1, <1>5 DEF WholeInRead, j, m
  <2>6. IF WholeInRead'
        THEN Len(packet') = BodyLen(next)' /\ First' - headpos' + Len(read') = Consumed'
        ELSE /\ First' + HeadLen + Len(packet') = Consumed'
             /\ Len(read') - headpos' - HeadLen <= Len(packet')
    <3>1. CASE m - j - HeadLen >= body
      <4>1. n = body
        BY <1>4, <1>6, <3>1 DEF n, Smaller
      <4> QED
        BY <1>2, <1>5, <1>7, <2>1, <2>3, <2>5, <3>1, <4>1 DEF m
    <3>2. CASE ~(m - j - HeadLen >= body)
      <4>1. n = m - j - HeadLen
        BY <1>4, <1>6, <3>2 DEF n, Smaller
      <4> QED
        BY <1>2, <1>6, <1>7, <1>8, <2>1, <2>5, <3>2, <4>1 DEF m
    <3> QED
      BY <3>1, <3>2
  <2>7. Len(next') = HeadLen /\ Run(next', First') /\ Run(packet', First' + HeadLen) /\ pc' = "body"
    BY <1>1, <1>3, <1>7, <1>8
  <2> QED
    BY <2>1, <2>2, <2>3, <2>4, <2>6, <2>7 DEF HeaderInHand
<1>14. ScanIsRight'
  <2>1. Scanned(stream, delivered, base + 1) /\ delivered \in Seq(Seq(Int))
    BY <1>2 DEF ScanIsRight, BuffersFit
  <2>2. ASSUME NEW q \in base + 1 .. (base + j) - 1 PROVE Dead(stream, q)
    <3>1. q - base \in 1 .. Len(Filled) /\ q - base < HeadIn(Filled)
      <4>1. q - base \in 1 .. m /\ q - base < j
        BY <1>3, <1>6
      <4> QED
        BY <1>3, <4>1 DEF m
    <3>2. Filled[q - base] = base + (q - base) /\ base + (q - base) = q
      BY <1>2, <3>1 DEF Run
    <3>3. Dead(stream, Filled[q - base])
      BY <1>1, <3>1, BeforeHead
    <3> QED
      BY <3>2, <3>3
  <2>3. base + 1 \in Nat /\ base + j \in Nat /\ base + 1 <= base + j
    BY <1>2, <1>6
  <2>4. Scanned(stream, delivered, base + j)
    BY <2>1, <2>2, <2>3, ScannedSkips
  <2>5. base + j \in 1 .. Len(stream) + 1
    BY <1>3, <1>6, <1>9
  <2>6. Pos' = base + j
    BY <1>1, <1>8 DEF Pos
  <2> QED
    BY <1>2, <2>4, <2>5, <2>6 DEF ScanIsRight
<1>15. Pos' = Pos + (headpos' - 1)
  <2>1. Pos' = base + j
    BY <1>1, <1>8 DEF Pos
  <2> QED
    BY <1>2, <1>6, <2>1 DEF j
<1> QED
  BY <1>11, <1>12, <1>13, <1>14, <1>15

(* With a header in hand.                                                      *)
LEMMA HandFits ==
  ASSUME IInv, parsed = "head"
  PROVE  /\ Len(stream) \in Nat /\ Len(read) \in Nat /\ Len(packet) \in Nat /\ HeadLen \in Nat
         /\ left \in 0 .. Len(stream) /\ Consumed \in Nat /\ Consumed <= Len(stream)
         /\ headpos \in 1 .. Len(read) - HeadLen /\ headpos <= First
         /\ First \in Nat \ {0} /\ BodyLen(next) \in Nat \ {0} /\ Len(packet) <= BodyLen(next)
         /\ First + HeadLen + Len(packet) <= Consumed
         /\ TailOf(stream, First) = First + HeadLen + BodyLen(next)
<1> USE DEF IInv
<1>1. /\ Len(stream) \in Nat /\ Len(read) \in Nat /\ Len(packet) \in Nat
      /\ left \in 0 .. Len(stream) /\ HeadLen \in Nat
  BY LenProperties, HeadLenIsNat DEF BuffersFit
<1>2. Consumed \in Nat /\ Consumed <= Len(stream)
  BY <1>1 DEF Consumed
<1>3. First \in Nat \ {0} /\ BodyLen(next) \in Nat \ {0}
      /\ TailOf(stream, First) = First + HeadLen + BodyLen(next)
  BY BodyLenFits
<1>4. headpos \in 1 .. Len(read) - HeadLen /\ headpos <= First /\ Len(packet) <= BodyLen(next)
  BY DEF HeaderInHand
<1>5. CASE WholeInRead
  <2>1. Len(packet) = BodyLen(next) /\ First - headpos + Len(read) = Consumed
    BY <1>5 DEF HeaderInHand
  <2>2. Len(read) - headpos - HeadLen >= BodyLen(next)
    BY <1>5 DEF WholeInRead
  <2>3. First + HeadLen + Len(packet) <= Consumed
    BY <1>1, <1>2, <1>3, <1>4, <2>1, <2>2
  <2> QED
    BY <1>1, <1>2, <1>3, <1>4, <2>3
<1>6. CASE ~WholeInRead
  <2>1. First + HeadLen + Len(packet) = Consumed
    BY <1>6 DEF HeaderInHand
  <2>2. First + HeadLen + Len(packet) <= Consumed
    BY <1>1, <1>2, <2>1
  <2> QED
    BY <1>1, <1>2, <1>3, <1>4, <2>2
<1> QED
  BY <1>5, <1>6

(* More bytes of the body are collected, all of it or all that have arrived.   *)
LEMMA BodyGrows ==
  ASSUME IInv, InBody, NEW n \in 0 .. left, n <= Missing,
         packet' = packet \o Data(n), left' = left - n,
         UNCHANGED <<stream, delivered, peer, parsed, read, readLen, packLen, headpos, next>>,
         (n = Missing /\ pc' = "tail") \/ (n < Missing /\ n = left /\ pc' = "idle")
  PROVE  IInv' /\ Pos' = Pos
<1> USE DEF IInv
<1>1. parsed = "head" /\ parsed' = "head"
  BY DEF InBody, NothingInHand, BuffersFit
<1> DEFINE b == BodyLen(next)
           k == Len(packet)
<1>2. /\ Len(stream) \in Nat /\ Len(read) \in Nat /\ k \in Nat /\ HeadLen \in Nat
      /\ left \in 0 .. Len(stream) /\ Consumed \in Nat /\ Consumed <= Len(stream)
      /\ headpos \in 1 .. Len(read) - HeadLen
      /\ First \in Nat \ {0} /\ b \in Nat \ {0} /\ k <= b
      /\ First + HeadLen + k <= Consumed
  BY <1>1, HandFits
<1>3. /\ BodyLen(next)' = b /\ First' = First
      /\ (WholeInRead' <=> WholeInRead)
  BY DEF BodyLen, Header, BytesOf, First, WholeInRead
<1>4. Missing = b - k
  BY DEF Missing
<1>5. Consumed' = Consumed + n
  BY <1>2 DEF Consumed
<1>6. WholeInRead => n = 0
  <2>1. WholeInRead => k = b
    BY <1>1 DEF HeaderInHand
  <2> QED
    BY <1>2, <1>4, <2>1
<1>7. ~WholeInRead => First + HeadLen + k = Consumed /\ Len(read) - headpos - HeadLen <= k
  BY <1>1 DEF HeaderInHand
<1>8. Run(Data(n), First + HeadLen + k) /\ Len(Data(n)) = n
  <2>1. Run(Data(n), Consumed) /\ Len(Data(n)) = n
    <3>1. Consumed + 1 = Len(stream) - left + 1 /\ Consumed + n = Len(stream) - left + n
      BY DEF Consumed
    <3>2. Run(Interval(Consumed + 1, Consumed + n), Consumed)
          /\ Len(Interval(Consumed + 1, Consumed + n)) = n
      <4>1. Consumed \in Int /\ n \in Nat
        BY <1>2
      <4> QED
        BY <4>1, RunInterval
    <3> QED
      BY <3>1, <3>2 DEF Data
  <2>2. CASE WholeInRead
    <3>1. Len(Data(n)) = 0
      BY <1>6, <2>1, <2>2
    <3>2. \A i \in 1 .. Len(Data(n)) : FALSE
      BY <3>1
    <3> QED
      BY <2>1, <3>2 DEF Run
  <2>3. CASE ~WholeInRead
    BY <1>7, <2>1, <2>3
  <2> QED
    BY <2>2, <2>3
<1>9. Run(packet', First + HeadLen) /\ Len(packet') = k + n
  <2>1. Run(packet, First + HeadLen) /\ First + HeadLen \in Int
    BY <1>1, <1>2 DEF HeaderInHand
  <2> QED
    BY <1>8, <2>1, RunConcat
<1>10. k + n <= b /\ k + n \in Nat
  BY <1>2, <1>4
<1>11. First + HeadLen + (k + n) <= Len(stream)
  <2>1. CASE WholeInRead
    <3>1. n = 0
      BY <1>6, <2>1
    <3> QED
      BY <1>2, <3>1
  <2>2. CASE ~WholeInRead
    <3>1. First + HeadLen + k = Consumed
      BY <1>7, <2>2
    <3>2. Consumed + n <= Len(stream)
      BY <1>2 DEF Consumed
    <3> QED
      BY <1>2, <3>1, <3>2
  <2> QED
    BY <2>1, <2>2
<1>12. b <= packLen /\ packLen \in Nat
  BY <1>1 DEF HeaderInHand, BuffersFit
<1> HIDE DEF b, k
<1>13. BuffersFit'
  <2>1. ASSUME NEW i \in 1 .. k + n PROVE packet'[i] \in 1 .. Len(stream)
    <3>1. packet'[i] = (First + HeadLen) + i
      BY <1>9 DEF Run
    <3> QED
      BY <1>2, <1>10, <1>11, <3>1
  <2>2. k + n <= packLen
    BY <1>2, <1>10, <1>12
  <2>3. left - n \in 0 .. Len(stream)
    BY <1>2
  <2>4. pc' \in {"idle", "loop", "body", "tail"}
    OBVIOUS
  <2>5. peer' \in Seq(Byte)
    BY DEF BuffersFit
  <2> QED
    BY <1>9, <1>12, <2>1, <2>2, <2>3, <2>4, <2>5 DEF BuffersFit, Run
<1>14. NothingInHand'
  BY <1>1 DEF NothingInHand
<1>15. IdleMeansDone'
  <2>1. n = left => left - n = 0
    BY <1>2
  <2> QED
    BY <1>1, <2>1 DEF IdleMeansDone
<1>16. HeaderInHand'
  <2>1. IF WholeInRead'
        THEN Len(packet') = BodyLen(next)' /\ First' - headpos' + Len(read') = Consumed'
        ELSE /\ First' + HeadLen + Len(packet') = Consumed'
             /\ Len(read') - headpos' - HeadLen <= Len(packet')
    <3>1. CASE WholeInRead
      <4>1. n = 0 /\ k = b /\ First - headpos + Len(read) = Consumed
        BY <1>1, <1>6, <3>1 DEF HeaderInHand, b, k
      <4>2. k + n = b /\ Consumed + n = Consumed
        BY <1>2, <4>1
      <4> QED
        BY <1>3, <1>5, <1>9, <3>1, <4>1, <4>2
    <3>2. CASE ~WholeInRead
      <4>1. First + HeadLen + k = Consumed /\ Len(read) - headpos - HeadLen <= k
        BY <1>7, <3>2
      <4>2. First + HeadLen + (k + n) = Consumed + n /\ Len(read) - headpos - HeadLen <= k + n
        BY <1>2, <4>1
      <4> QED
        BY <1>3, <1>5, <1>9, <3>2, <4>2
    <3> QED
      BY <3>1, <3>2
  <2>2. pc' = "tail" => k + n = b
    BY <1>2, <1>4
  <2>3. pc' \in {"idle", "loop"} => k + n < b
    BY <1>2, <1>4
  <2>4. /\ headpos \in 1 .. Len(read) - HeadLen
        /\ First \in Nat \ {0} /\ headpos <= First /\ First + HeadLen <= Len(stream)
        /\ stream[First] = HEAD /\ Valid(HeaderAt(stream, First))
        /\ Len(next) = HeadLen /\ Run(next, First)
        /\ Run(read, First - headpos)
    BY <1>1 DEF HeaderInHand
  <2> QED
    BY <1>1, <1>3, <1>9, <1>10, <1>12, <2>1, <2>2, <2>3, <2>4 DEF HeaderInHand
<1>17. ScanIsRight' /\ Pos' = Pos
  BY <1>1, <1>3 DEF ScanIsRight, Pos
<1> QED
  BY <1>13, <1>14, <1>15, <1>16, <1>17

LEMMA WaitForBodyKeeps == ASSUME IInv, WaitForBody PROVE IInv'
<1>1. /\ InBody /\ left < Missing /\ packet' = packet \o Data(left) /\ left' = 0 /\ pc' = "idle"
      /\ UNCHANGED <<stream, delivered, peer, parsed, read, readLen, packLen, headpos, next>>
  BY DEF WaitForBody
<1>2. parsed = "head"
  BY <1>1 DEF InBody, IInv, NothingInHand, BuffersFit
<1>3. left \in 0 .. left /\ left - left = 0 /\ left <= Missing
  BY <1>1, <1>2, HandFits DEF Missing
<1> QED
  BY <1>1, <1>3, BodyGrows

LEMMA FillBodyKeeps ==
  ASSUME IInv, FillBody
  PROVE  IInv' /\ Pos' = Pos /\ Missing \in 0 .. left
<1>1. /\ InBody /\ left >= Missing /\ packet' = packet \o Data(Missing)
      /\ left' = left - Missing /\ pc' = "tail"
      /\ UNCHANGED <<stream, delivered, peer, parsed, read, readLen, packLen, headpos, next>>
  BY DEF FillBody
<1>2. parsed = "head"
  BY <1>1 DEF InBody, IInv, NothingInHand, BuffersFit
<1>3. Missing \in 0 .. left /\ Missing <= Missing
  BY <1>1, <1>2, HandFits DEF Missing
<1> QED
  BY <1>1, <1>3, BodyGrows

(* The whole frame is there, and its last byte decides.                        *)
LEMMA LastByteFits ==
  ASSUME IInv, pc = "tail"
  PROVE  /\ parsed = "head" /\ Len(packet) = BodyLen(next)
         /\ TailOf(stream, First) = First + HeadLen + BodyLen(next)
         /\ First + HeadLen + BodyLen(next) <= Consumed
         /\ TailFits => FrameAt(stream, First)
         /\ ~TailFits => Dead(stream, First)
<1> USE DEF IInv
<1>1. parsed = "head"
  BY DEF NothingInHand, BuffersFit
<1> DEFINE b == BodyLen(next)
           tail == TailOf(stream, First)
<1>2. Len(packet) = b
  BY <1>1 DEF HeaderInHand
<1>3. /\ Len(stream) \in Nat /\ HeadLen \in Nat /\ Consumed \in Nat /\ Consumed <= Len(stream)
      /\ First \in Nat \ {0} /\ b \in Nat \ {0} /\ First + HeadLen + Len(packet) <= Consumed
      /\ tail = First + HeadLen + b
  BY <1>1, HandFits
<1>4. First + HeadLen <= Len(stream) /\ stream[First] = HEAD /\ Valid(HeaderAt(stream, First))
  BY <1>1 DEF HeaderInHand
<1>5. First + HeadLen + b <= Consumed
  BY <1>2, <1>3
<1>6. tail \in 1 .. Len(stream)
  BY <1>3, <1>5
<1>7. packet[b] = tail
  <2>1. b \in 1 .. Len(packet)
    BY <1>2, <1>3
  <2>2. packet[b] = First + HeadLen + b
    BY <1>1, <2>1 DEF HeaderInHand, Run
  <2> QED
    BY <1>3, <2>2
<1>8. stream[tail] \in Byte
  BY <1>6, ElementOfSeq DEF BuffersFit
<1>9. AsChar(stream[tail]) = TAIL <=> stream[tail] = TAIL
  <2>1. PICK c \in Byte : c = stream[tail]
    BY <1>8
  <2>2. ByteBase \in Nat \ {0, 1} /\ TAIL \in Byte /\ TAIL < ByteBase \div 2
    BY NetBaseAssumption, MarksAssumption, TailAssumption
  <2>3. AsChar(c) = TAIL <=> c = TAIL
    BY <2>2 DEF AsChar, Byte
  <2> QED
    BY <2>1, <2>3
<1>10. TailFits <=> stream[tail] = TAIL
  BY <1>7, <1>9 DEF TailFits
<1>11. tail <= Len(stream)
  BY <1>6
<1>12. TailFits => FrameAt(stream, First)
  BY <1>4, <1>10, <1>11 DEF FrameAt, HeadAt
<1>13. ~TailFits => Dead(stream, First)
  BY <1>4, <1>10, <1>11 DEF Dead
<1> QED
  BY <1>1, <1>2, <1>3, <1>5, <1>12, <1>13

LEMMA WrongTailKeeps == ASSUME IInv, WrongTail PROVE IInv' /\ Pos' = Pos + 1
<1> USE DEF IInv
<1> DEFINE b == BodyLen(next)
<1>1. /\ pc = "tail" /\ ~TailFits /\ read' = PutBack
      /\ readLen' = IF WholeInRead THEN readLen ELSE Larger(readLen, HeadLen + b)
      /\ parsed' = "nothing" /\ pc' = "loop"
      /\ UNCHANGED <<stream, delivered, left, peer, packet, packLen>>
  BY DEF WrongTail
<1>2. /\ parsed = "head" /\ Len(packet) = b
      /\ First + HeadLen + b <= Consumed /\ Dead(stream, First)
  BY <1>1, LastByteFits
<1>3. /\ Len(stream) \in Nat /\ Len(read) \in Nat /\ HeadLen \in Nat
      /\ Consumed \in Nat /\ Consumed <= Len(stream)
      /\ headpos \in 1 .. Len(read) - HeadLen /\ headpos <= First
      /\ First \in Nat \ {0} /\ b \in Nat \ {0}
  BY <1>2, HandFits
<1>4. /\ readLen \in Nat /\ Len(read) <= readLen
      /\ Run(read, First - headpos) /\ Run(packet, First + HeadLen)
  BY <1>2 DEF BuffersFit, HeaderInHand
<1> HIDE DEF b
<1>5. Run(read', First) /\ First + Len(read') = Consumed /\ Len(read') <= readLen' /\ readLen' \in Nat
  <2>1. CASE WholeInRead
    <3>1. read' = SubSeq(read, headpos + 1, Len(read)) /\ readLen' = readLen
      BY <1>1, <2>1 DEF PutBack, From
    <3>2. /\ headpos + 1 \in 1 .. Len(read) + 1 /\ Len(read) \in (headpos + 1) - 1 .. Len(read)
          /\ (First - headpos) + ((headpos + 1) - 1) = First
          /\ Len(read) - (headpos + 1) + 1 = Len(read) - headpos
          /\ First - headpos \in Int
      BY <1>3
    <3>3. Run(read', First) /\ Len(read') = Len(read) - headpos
      BY <1>4, <3>1, <3>2, RunSub
    <3>4. First - headpos + Len(read) = Consumed
      BY <1>2, <2>1 DEF HeaderInHand
    <3> QED
      BY <1>3, <1>4, <3>1, <3>3, <3>4
  <2>2. CASE ~WholeInRead
    <3>1. /\ read' = SubSeq(read, headpos + 1, headpos + HeadLen) \o SubSeq(packet, 1, b)
          /\ readLen' = Larger(readLen, HeadLen + b)
      BY <1>1, <2>2 DEF PutBack, HeaderIn, b
    <3>2. /\ headpos + 1 \in 1 .. Len(read) + 1
          /\ headpos + HeadLen \in (headpos + 1) - 1 .. Len(read)
          /\ (First - headpos) + ((headpos + 1) - 1) = First
          /\ (headpos + HeadLen) - (headpos + 1) + 1 = HeadLen
          /\ First - headpos \in Int
      BY <1>3
    <3>3. /\ Run(SubSeq(read, headpos + 1, headpos + HeadLen), First)
          /\ Len(SubSeq(read, headpos + 1, headpos + HeadLen)) = HeadLen
      BY <1>4, <3>2, RunSub
    <3>4. /\ 1 \in 1 .. Len(packet) + 1 /\ b \in 1 - 1 .. Len(packet)
          /\ (First + HeadLen) + (1 - 1) = First + HeadLen /\ b - 1 + 1 = b
          /\ First + HeadLen \in Int
      BY <1>2, <1>3
    <3>5. Run(SubSeq(packet, 1, b), First + HeadLen) /\ Len(SubSeq(packet, 1, b)) = b
      BY <1>4, <3>4, RunSub
    <3>6. Run(read', First) /\ Len(read') = HeadLen + b
      <4>1. PICK x, y : /\ x = SubSeq(read, headpos + 1, headpos + HeadLen)
                        /\ y = SubSeq(packet, 1, b)
        OBVIOUS
      <4>2. /\ Run(x, First) /\ Len(x) = HeadLen /\ First \in Int
            /\ Run(y, First + HeadLen) /\ Len(y) = b /\ read' = x \o y
        BY <1>3, <3>1, <3>3, <3>5, <4>1
      <4>3. Run(x \o y, First) /\ Len(x \o y) = Len(x) + Len(y)
        BY <4>2, RunConcat
      <4> QED
        BY <4>2, <4>3
    <3>7. First + HeadLen + b = Consumed
      BY <1>2, <2>2 DEF HeaderInHand
    <3>8. HeadLen + b <= Larger(readLen, HeadLen + b) /\ Larger(readLen, HeadLen + b) \in Nat
      BY <1>3, <1>4 DEF Larger
    <3> QED
      BY <1>3, <3>1, <3>6, <3>7, <3>8
  <2> QED
    BY <2>1, <2>2
<1>6. Consumed' = Consumed
  BY <1>1 DEF Consumed
<1>7. Len(read') \in Nat
  BY <1>5, LenProperties DEF Run
<1>8. Consumed - Len(read') = First /\ Len(read') <= Consumed
  BY <1>3, <1>5, <1>7
<1>9. BuffersFit'
  BY <1>1, <1>5 DEF BuffersFit, Run
<1>10. NothingInHand' /\ HeaderInHand' /\ IdleMeansDone'
  BY <1>1, <1>5, <1>6, <1>8 DEF NothingInHand, HeaderInHand, IdleMeansDone
<1>11. ScanIsRight'
  <2>1. Pos' = First + 1
    <3>1. parsed' # "head"
      BY <1>1
    <3> QED
      BY <1>6, <1>8, <3>1 DEF Pos
  <2>2. Scanned(stream, delivered, First) /\ delivered \in Seq(Seq(Int))
    BY <1>2 DEF ScanIsRight, Pos, BuffersFit
  <2>3. \A q \in First .. (First + 1) - 1 : Dead(stream, q)
    <3>1. \A q \in First .. (First + 1) - 1 : q = First
      BY <1>3
    <3> QED
      BY <1>2, <3>1
  <2>4. First + 1 \in 1 .. Len(stream) + 1 /\ First \in Nat /\ First + 1 \in Nat /\ First <= First + 1
    BY <1>2, <1>3
  <2>5. Scanned(stream, delivered, First + 1)
    BY <2>2, <2>3, <2>4, ScannedSkips
  <2> QED
    BY <1>1, <2>1, <2>4, <2>5 DEF ScanIsRight
<1>12. Pos' = Pos + 1
  BY <1>1, <1>2, <1>6, <1>8 DEF Pos
<1> QED
  BY <1>9, <1>10, <1>11, <1>12

(* What RightTail gives to the user is the frame behind the header in hand.    *)
LEMMA RightTailGives ==
  ASSUME IInv, RightTail
  PROVE  /\ parsed = "head" /\ FrameAt(stream, First)
         /\ delivered' = Append(delivered, Interval(First + 1, TailOf(stream, First) - 1))
<1> USE DEF IInv
<1> DEFINE b == BodyLen(next)
<1>1. /\ pc = "tail" /\ TailFits
      /\ delivered' = Append(delivered, next \o SubSeq(packet, 1, b - 1))
  BY DEF RightTail
<1>2. /\ parsed = "head" /\ Len(packet) = b /\ FrameAt(stream, First)
      /\ TailOf(stream, First) = First + HeadLen + b
  BY <1>1, LastByteFits
<1>3. HeadLen \in Nat /\ First \in Nat \ {0} /\ b \in Nat \ {0}
  BY <1>2, HandFits
<1>4. Run(next, First) /\ Len(next) = HeadLen /\ Run(packet, First + HeadLen)
  BY <1>2 DEF HeaderInHand
<1> HIDE DEF b
<1>5. /\ 1 \in 1 .. Len(packet) + 1 /\ b - 1 \in 1 - 1 .. Len(packet)
      /\ (First + HeadLen) + (1 - 1) = First + HeadLen /\ (b - 1) - 1 + 1 = b - 1
      /\ First + HeadLen \in Int
  BY <1>2, <1>3
<1>6. Run(SubSeq(packet, 1, b - 1), First + HeadLen) /\ Len(SubSeq(packet, 1, b - 1)) = b - 1
  BY <1>4, <1>5, RunSub
<1>7. /\ Run(next \o SubSeq(packet, 1, b - 1), First)
      /\ Len(next \o SubSeq(packet, 1, b - 1)) = HeadLen + (b - 1)
  BY <1>3, <1>4, <1>6, RunConcat
<1>8. /\ Run(Interval(First + 1, First + (HeadLen + (b - 1))), First)
      /\ Len(Interval(First + 1, First + (HeadLen + (b - 1)))) = HeadLen + (b - 1)
  <2>1. HeadLen + (b - 1) \in Nat /\ First \in Int
    BY <1>3
  <2> QED
    BY <2>1, RunInterval
<1>9. First + (HeadLen + (b - 1)) = TailOf(stream, First) - 1
  BY <1>2, <1>3
<1>10. next \o SubSeq(packet, 1, b - 1) = Interval(First + 1, TailOf(stream, First) - 1)
  <2>1. next \o SubSeq(packet, 1, b - 1) = Interval(First + 1, First + (HeadLen + (b - 1)))
    <3>1. First \in Int
      BY <1>3
    <3> QED
      BY <1>7, <1>8, <3>1, RunEqual
  <2> QED
    BY <1>9, <2>1
<1> QED
  BY <1>1, <1>2, <1>10

LEMMA RightTailKeeps ==
  ASSUME IInv, RightTail
  PROVE  IInv' /\ Pos' = Pos + HeadLen + BodyLen(next) + 1
<1> USE DEF IInv
<1> DEFINE b == BodyLen(next)
           tail == TailOf(stream, First)
<1>1. /\ pc = "tail" /\ TailFits /\ read' = Behind
      /\ parsed' = "nothing" /\ pc' = "loop"
      /\ UNCHANGED <<stream, left, peer, readLen, packet, packLen>>
  BY DEF RightTail
<1>2. /\ parsed = "head" /\ Len(packet) = b
      /\ tail = First + HeadLen + b /\ tail <= Consumed
  BY <1>1, LastByteFits
<1>3. FrameAt(stream, First) /\ delivered' = Append(delivered, Interval(First + 1, tail - 1))
  BY RightTailGives
<1>4. /\ Len(stream) \in Nat /\ Len(read) \in Nat /\ HeadLen \in Nat
      /\ Consumed \in Nat /\ Consumed <= Len(stream)
      /\ headpos \in 1 .. Len(read) - HeadLen /\ headpos <= First
      /\ First \in Nat \ {0} /\ b \in Nat \ {0}
  BY <1>2, HandFits
<1>5. readLen \in Nat /\ Len(read) <= readLen /\ Run(read, First - headpos)
  BY <1>2 DEF BuffersFit, HeaderInHand
<1>6. /\ delivered' \in Seq(Seq(Int)) /\ Scanned(stream, delivered', tail + 1)
  <2>1. Scanned(stream, delivered, First) /\ delivered \in Seq(Seq(Int)) /\ stream \in Seq(Byte)
    BY <1>2 DEF ScanIsRight, Pos, BuffersFit
  <2> QED
    BY <1>3, <1>4, <2>1, ScannedFrame
<1>7. tail \in Nat
  BY <1>2, <1>4
<1> HIDE DEF b, tail
<1>8. Run(read', tail) /\ tail + Len(read') = Consumed /\ Len(read') <= readLen
  <2>1. CASE WholeInRead
    <3>1. read' = SubSeq(read, headpos + HeadLen + b + 1, Len(read))
      BY <1>1, <2>1 DEF Behind, From, b
    <3>2. Len(read) - headpos - HeadLen >= b
      BY <2>1 DEF WholeInRead, b
    <3>3. /\ headpos + HeadLen + b + 1 \in 1 .. Len(read) + 1
          /\ Len(read) \in (headpos + HeadLen + b + 1) - 1 .. Len(read)
          /\ (First - headpos) + ((headpos + HeadLen + b + 1) - 1) = tail
          /\ Len(read) - (headpos + HeadLen + b + 1) + 1 = Len(read) - headpos - HeadLen - b
          /\ First - headpos \in Int
      BY <1>2, <1>4, <3>2
    <3>4. Run(read', tail) /\ Len(read') = Len(read) - headpos - HeadLen - b
      BY <1>5, <3>1, <3>3, RunSub
    <3>5. First - headpos + Len(read) = Consumed
      BY <1>2, <2>1 DEF HeaderInHand
    <3> QED
      BY <1>2, <1>4, <1>5, <3>4, <3>5
  <2>2. CASE ~WholeInRead
    <3>1. read' = <<>>
      BY <1>1, <2>2 DEF Behind
    <3>2. First + HeadLen + b = Consumed
      BY <1>2, <2>2 DEF HeaderInHand, b
    <3>3. Run(<<>>, tail) /\ Len(<<>>) = 0
      BY <1>7, RunEmpty
    <3> QED
      BY <1>2, <1>4, <1>5, <1>7, <3>1, <3>2, <3>3
  <2> QED
    BY <2>1, <2>2
<1>9. Consumed' = Consumed
  BY <1>1 DEF Consumed
<1>10. Len(read') \in Nat
  BY <1>8, LenProperties DEF Run
<1>11. Consumed - Len(read') = tail /\ Len(read') <= Consumed
  BY <1>4, <1>7, <1>8, <1>10
<1>12. BuffersFit'
  BY <1>1, <1>5, <1>6, <1>8 DEF BuffersFit, Run
<1>13. NothingInHand' /\ HeaderInHand' /\ IdleMeansDone'
  BY <1>1, <1>8, <1>9, <1>11 DEF NothingInHand, HeaderInHand, IdleMeansDone
<1>14. ScanIsRight'
  <2>1. Pos' = tail + 1
    <3>1. parsed' # "head"
      BY <1>1
    <3> QED
      BY <1>9, <1>11, <3>1 DEF Pos
  <2>2. tail + 1 \in 1 .. Len(stream) + 1
    BY <1>2, <1>4, <1>7
  <2> QED
    BY <1>1, <1>6, <2>1, <2>2 DEF ScanIsRight
<1>15. Pos' = Pos + HeadLen + b + 1
  BY <1>1, <1>2, <1>4, <1>9, <1>11 DEF Pos
<1> QED
  BY <1>12, <1>13, <1>14, <1>15 DEF b

--------------------------------------------------------------------------------
(* The invariant and what follows from it.                                     *)

LEMMA InvNext == ASSUME IInv, [PacketNext]_vars PROVE IInv'
<1>1. CASE Start
  BY <1>1, StartKeeps
<1>2. CASE Receive
  BY <1>2, ReceiveKeeps
<1>3. CASE recvdata
  BY <1>3, NoHeadKeeps, HeaderIncompleteKeeps, InvalidHeaderKeeps, ValidHeaderKeeps,
     WaitForBodyKeeps, FillBodyKeeps, WrongTailKeeps, RightTailKeeps, ReturnKeeps DEF recvdata
<1>4. CASE UNCHANGED vars
  <2>1. peer' \in Seq(Byte)
    BY <1>4 DEF vars, IInv, BuffersFit
  <2> QED
    BY <1>4, <2>1, StutterKeeps DEF vars
<1> QED
  BY <1>1, <1>2, <1>3, <1>4 DEF PacketNext

LEMMA Invariant == PacketSpec => []IInv
BY InvInit, InvNext, PTL DEF PacketSpec

(* No copy of recvdata writes behind the end of a buffer, whatever the peer    *)
(* sends and however it is cut into pieces (packet_sync.h:75-84, 118-157).     *)
THEOREM TypeCorrect == PacketSpec => []TypeOK
BY Invariant, InvImpliesTypeOK, PTL

(* What the search has found are the frames of the stream, but for those from  *)
(* Pos on.                                                                     *)
LEMMA FoundSoFar ==
  ASSUME IInv
  PROVE  /\ stream \in Seq(Byte) /\ delivered \in Seq(Seq(Int)) /\ Pos \in 1 .. Len(stream) + 1
         /\ FramesFrom(stream)[Pos] \in Seq(Seq(Int))
         /\ Frames(stream) = delivered \o FramesFrom(stream)[Pos]
<1>1. /\ stream \in Seq(Byte) /\ delivered \in Seq(Seq(Int)) /\ Pos \in 1 .. Len(stream) + 1
      /\ Scanned(stream, delivered, Pos)
  BY DEF IInv, BuffersFit, ScanIsRight
<1> QED
  BY <1>1, ScannedGivesFrames, FramesFromType

(* When recvdata has returned nothing is complete from Pos on.                 *)
LEMMA NothingIsLeft ==
  ASSUME IInv, pc = "idle"
  PROVE  /\ parsed = "head" => OpenAt(stream, First) /\ First \in 1 .. Len(stream)
         /\ parsed = "nothing" => \A q \in Pos .. Len(stream) : ~FrameAt(stream, q)
<1> USE DEF IInv
<1>1. left = 0 /\ stream \in Seq(Byte) /\ Len(stream) \in Nat /\ HeadLen \in Nat /\ HeadLen >= 6
  BY LenProperties, HeadLenIsNat DEF IdleMeansDone, BuffersFit
<1>2. Consumed = Len(stream)
  BY <1>1 DEF Consumed
<1>3. ASSUME parsed = "head" PROVE OpenAt(stream, First) /\ First \in 1 .. Len(stream)
  <2> DEFINE b == BodyLen(next)
  <2>1. /\ First \in Nat \ {0} /\ b \in Nat \ {0} /\ TailOf(stream, First) = First + HeadLen + b
    BY <1>3, HandFits
  <2>2. /\ First + HeadLen <= Len(stream) /\ stream[First] = HEAD
        /\ Valid(HeaderAt(stream, First)) /\ Len(packet) < b
    BY <1>3 DEF HeaderInHand
  <2>3. ~WholeInRead /\ First + HeadLen + Len(packet) = Consumed
    <3>1. WholeInRead => Len(packet) = b
      BY <1>3 DEF HeaderInHand
    <3>2. Len(packet) \in Nat
      BY <1>3, HandFits
    <3>3. ~WholeInRead
      BY <2>1, <2>2, <3>1, <3>2
    <3> QED
      BY <1>3, <3>3 DEF HeaderInHand
  <2>4. TailOf(stream, First) > Len(stream)
    <3>1. Len(packet) \in Nat
      BY <1>3, HandFits
    <3> HIDE DEF b
    <3> QED
      BY <1>1, <1>2, <2>1, <2>2, <2>3, <3>1
  <2>5. First \in 1 .. Len(stream) /\ ~(First + HeadLen > Len(stream))
    BY <1>1, <2>1, <2>2
  <2> QED
    BY <2>2, <2>4, <2>5 DEF OpenAt
<1>4. ASSUME parsed = "nothing", NEW q \in Pos .. Len(stream) PROVE ~FrameAt(stream, q)
  <2>1. Len(read) < HeadLen + 2 /\ Len(read) \in Nat /\ Len(read) <= Len(stream)
    BY <1>2, <1>4, LenProperties DEF IdleMeansDone, NothingInHand, BuffersFit
  <2>2. Pos = Len(stream) - Len(read) + 1
    <3>1. parsed # "head"
      BY <1>4
    <3> QED
      BY <1>2, <3>1 DEF Pos
  <2>3. q \in Nat /\ q + HeadLen + 1 > Len(stream)
    BY <1>1, <2>1, <2>2
  <2>4. SUFFICES ASSUME FrameAt(stream, q) PROVE FALSE
    OBVIOUS
  <2>5. TailOf(stream, q) \in Nat /\ q + HeadLen < TailOf(stream, q) /\ TailOf(stream, q) <= Len(stream)
    BY <1>1, <2>3, <2>4, FrameIsThere
  <2> QED
    BY <1>1, <2>3, <2>5
<1> QED
  BY <1>3, <1>4

LEMMA InvImpliesDeliveredAtOnce == IInv => DeliveredAtOnce
<1> SUFFICES ASSUME IInv, pc = "idle" PROVE delivered = Frames(stream)
  BY DEF DeliveredAtOnce
<1>1. /\ stream \in Seq(Byte) /\ delivered \in Seq(Seq(Int)) /\ Pos \in 1 .. Len(stream) + 1
      /\ Frames(stream) = delivered \o FramesFrom(stream)[Pos]
  BY FoundSoFar
<1>2. FramesFrom(stream)[Pos] = <<>>
  <2>1. CASE parsed = "head"
    <3>1. OpenAt(stream, First) /\ First \in 1 .. Len(stream) /\ Pos = First
      BY <2>1, NothingIsLeft DEF Pos
    <3>2. Pos <= Len(stream)
      BY <3>1
    <3> QED
      BY <1>1, <3>1, <3>2, FramesFromCases
  <2>2. CASE parsed = "nothing"
    BY <1>1, <2>2, NothingIsLeft, FramesFromNone
  <2> QED
    BY <2>1, <2>2 DEF IInv, BuffersFit
<1>3. \A d \in Seq(Seq(Int)) : d \o <<>> = d
  <2> DEFINE T == Seq(Int)
  <2> HIDE DEF T
  <2>1. \A d \in Seq(T) : d \o <<>> = d
    BY ConcatEmptySeq
  <2> QED
    BY <2>1 DEF T
<1> QED
  BY <1>1, <1>2, <1>3

(* When recvdata returns the user has got exactly the frames that are complete *)
(* in what has arrived, none of them a call later (packet_sync.h:71).          *)
THEOREM FramesDeliveredAtOnce == PacketSpec => []DeliveredAtOnce
BY Invariant, InvImpliesDeliveredAtOnce, PTL

LEMMA InvImpliesNoFrameLost == IInv => NoFrameLost
<1> SUFFICES ASSUME IInv, pc = "idle", NEW p \in DOMAIN stream, FrameAt(stream, p)
             PROVE  \/ \E i \in DOMAIN delivered :
                         /\ delivered[i][1] - 1 <= p
                         /\ p <= delivered[i][Len(delivered[i])] + 1
                    \/ parsed = "head" /\ next[1] <= p
  BY DEF NoFrameLost
<1>1. /\ stream \in Seq(Byte) /\ Len(stream) \in Nat /\ p \in 1 .. Len(stream)
      /\ Pos \in 1 .. Len(stream) + 1 /\ Scanned(stream, delivered, Pos)
  BY LenProperties DEF IInv, BuffersFit, ScanIsRight
<1>2. ~Dead(stream, p)
  BY <1>1, DeadIsNeither
<1>3. CASE p < Pos
  <2>1. p \in 1 .. Pos - 1
    BY <1>1, <1>3
  <2> QED
    BY <1>2, <1>1, <2>1 DEF Scanned, FirstOf, LastOf
<1>4. CASE p >= Pos
  <2>1. p \in Pos .. Len(stream)
    BY <1>1, <1>4
  <2>2. parsed = "head"
    BY <2>1, NothingIsLeft DEF IInv, BuffersFit
  <2>3. OpenAt(stream, First) /\ First \in Nat \ {0} /\ Pos = First
    BY <2>2, NothingIsLeft, HandFits DEF Pos
  <2>4. p # First
    <3>1. SUFFICES ASSUME p = First PROVE FALSE
      OBVIOUS
    <3>2. FrameAt(stream, First) /\ OpenAt(stream, First)
      BY <2>3, <3>1
    <3>3. First + HeadLen <= Len(stream) /\ TailOf(stream, First) <= Len(stream)
      BY <3>2 DEF FrameAt, HeadAt
    <3>4. First + HeadLen > Len(stream) \/ TailOf(stream, First) > Len(stream)
      BY <3>2 DEF OpenAt
    <3>5. HeadLen \in Nat /\ TailOf(stream, First) \in Nat
      BY <1>1, <2>3, <3>2, FrameIsThere, HeadLenIsNat
    <3> QED
      BY <1>1, <2>3, <3>3, <3>4, <3>5
  <2>5. next[1] \in Int
    <3>1. Run(next, First) /\ Len(next) = HeadLen /\ HeadLen \in Nat /\ HeadLen >= 6
      BY <2>2, HeadLenIsNat DEF IInv, HeaderInHand
    <3> QED
      BY <2>3, <3>1 DEF Run
  <2>6. next[1] <= p
    <3>1. First = next[1] - 1
      BY DEF First
    <3> QED
      BY <1>1, <1>4, <2>3, <2>4, <2>5, <3>1
  <2> QED
    BY <2>2, <2>6
<1> QED
  BY <1>1, <1>3, <1>4

(* A frame is lost only when another one covers its first byte or the header   *)
(* in hand may still do so (packet_sync.h:112-113, 146-159).                   *)
THEOREM NoFrameIsLost == PacketSpec => []NoFrameLost
BY Invariant, InvImpliesNoFrameLost, PTL

--------------------------------------------------------------------------------
(* recvdata implements the promise of FrameStream.  Promise is an instance, so *)
(* its operators have to be shown to be those the proofs above are about.      *)

LEMMA SamePacket ==
  /\ Promise!HeadLen = HeadLen
  /\ \A c : Promise!CharToNetPacket(c) = CharToNetPacket(c)
<1>1. \A c : Promise!CharToInt32(c) = CharToInt32(c)
  <2>1. \A c : Promise!Unsigned(c) = Unsigned(c)
    BY Zenon DEF Promise!Unsigned, Unsigned
  <2>2. \A n : Promise!Signed(n) = Signed(n)
    <3>1. Promise!Weight = Weight
      BY Zenon DEF Promise!Weight, Weight
    <3> QED
      BY <3>1, Zenon DEF Promise!Signed, Signed, Promise!IntMod, IntMod
  <2>3. \A c : Promise!htonl(c) = htonl(c)
    BY Zenon DEF Promise!htonl, htonl, Promise!Reverse, Reverse
  <2> QED
    BY <2>1, <2>2, <2>3, Zenon DEF Promise!CharToInt32, CharToInt32
<1>2. \A c, offset : Promise!IntAt(c, offset) = IntAt(c, offset)
  BY <1>1 DEF Promise!IntAt, IntAt
<1>3. /\ Promise!AtCheck = AtCheck /\ Promise!AtType = AtType /\ Promise!AtDatalen = AtDatalen
      /\ Promise!AtReserve = AtReserve /\ Promise!HeadLen = HeadLen
  BY Zenon DEF Promise!AtCheck, AtCheck, Promise!AtType, AtType, Promise!AtDatalen, AtDatalen,
     Promise!AtReserve, AtReserve, Promise!HeadLen, HeadLen
<1>4. \A c : Promise!CharToNetPacket(c) = CharToNetPacket(c)
  BY <1>2, <1>3, Zenon DEF Promise!CharToNetPacket, CharToNetPacket
<1> QED
  BY <1>3, <1>4

LEMMA SameFrames == \A s : Promise!Frames(s) = Frames(s)
<1>1. \A s, p : Promise!HeaderAt(s, p) = HeaderAt(s, p)
  BY SamePacket DEF Promise!HeaderAt, HeaderAt
<1>2. \A header : Promise!Valid(header) <=> Valid(header)
  BY Zenon DEF Promise!Valid, Valid
<1>3. \A s, p : Promise!TailOf(s, p) = TailOf(s, p)
  BY <1>1, SamePacket, Zenon DEF Promise!TailOf, TailOf
<1>4. \A s, p : Promise!FrameAt(s, p) <=> FrameAt(s, p)
  BY <1>1, <1>2, <1>3, SamePacket, Zenon
     DEF Promise!FrameAt, FrameAt, Promise!HeadAt, HeadAt
<1>5. \A s, p : Promise!OpenAt(s, p) <=> OpenAt(s, p)
  BY <1>1, <1>2, <1>3, SamePacket, Zenon DEF Promise!OpenAt, OpenAt
<1>6. \A a, b : Promise!Interval(a, b) = Interval(a, b)
  BY Zenon DEF Promise!Interval, Interval
<1>7. \A s : Promise!FramesFrom(s) = FramesFrom(s)
  BY <1>3, <1>4, <1>5, <1>6, ZenonT(60) DEF Promise!FramesFrom, FramesFrom
<1> QED
  BY <1>7 DEF Promise!Frames, Frames

LEMMA InitImplements == PacketInit => Promise!Init
BY DEF PacketInit, Init, Promise!Init

(* Bytes that are received are behind those that were there.                   *)
LEMMA ReceiveArrives == ASSUME IInv, Receive PROVE Promise!Arrive
<1>1. PICK n \in 1 .. Len(peer) : stream' = stream \o SubSeq(peer, 1, n)
  BY DEF Receive
<1>2. /\ stream \in Seq(Byte) /\ Len(stream) \in Nat /\ peer \in Seq(Byte) /\ Len(peer) \in Nat
      /\ delivered' = delivered
  BY LenProperties DEF IInv, BuffersFit, Receive
<1> DEFINE piece == SubSeq(peer, 1, n)
<1>3. piece \in Seq(Byte) /\ Len(piece) = n
  <2>1. \A i \in 1 .. n : peer[i] \in Byte
    BY <1>2, ElementOfSeq
  <2> QED
    BY <1>2, <2>1, SubSeqProperties
<1> HIDE DEF piece
<1>4. /\ stream' \in Seq(Byte) /\ Len(stream') = Len(stream) + n
      /\ \A i \in 1 .. Len(stream) + n :
           stream'[i] = IF i <= Len(stream) THEN stream[i] ELSE piece[i - Len(stream)]
  <2>1. stream' = stream \o piece
    BY <1>1 DEF piece
  <2> QED
    BY <1>2, <1>3, <2>1, ConcatProperties
<1>5. stream' # stream
  <2>1. Len(stream') # Len(stream)
    BY <1>2, <1>4
  <2> QED
    BY <2>1
<1>6. SubSeq(stream, 1, Len(stream)) = SubSeq(stream', 1, Len(stream))
  <2> DEFINE m == Len(stream)
             a == SubSeq(stream, 1, m)
             b == SubSeq(stream', 1, m)
  <2>1. \A i \in 1 .. m : stream[i] \in Byte /\ stream'[i] = stream[i]
    BY <1>2, <1>4, ElementOfSeq
  <2>2. 1 \in Int /\ m \in Int /\ m \in Nat /\ m - 1 + 1 = m
    BY <1>2
  <2> HIDE DEF m
  <2>3. a \in Seq(Byte) /\ Len(a) = m /\ \A i \in 1 .. m : a[i] = stream[i]
    <3>1. /\ a \in Seq(Byte) /\ Len(a) = IF 1 <= m THEN m - 1 + 1 ELSE 0
          /\ \A i \in 1 .. m - 1 + 1 : a[i] = stream[1 + i - 1]
      BY <2>1, <2>2, SubSeqProperties
    <3>2. \A i \in 1 .. m : 1 + i - 1 = i
      OBVIOUS
    <3> QED
      BY <2>2, <3>1, <3>2
  <2>4. b \in Seq(Byte) /\ Len(b) = m /\ \A i \in 1 .. m : b[i] = stream'[i]
    <3>1. /\ b \in Seq(Byte) /\ Len(b) = IF 1 <= m THEN m - 1 + 1 ELSE 0
          /\ \A i \in 1 .. m - 1 + 1 : b[i] = stream'[1 + i - 1]
      BY <2>1, <2>2, SubSeqProperties
    <3>2. \A i \in 1 .. m : 1 + i - 1 = i
      OBVIOUS
    <3> QED
      BY <2>2, <3>1, <3>2
  <2>5. a = b
    BY <2>1, <2>3, <2>4, SeqEqual
  <2> QED
    BY <2>5 DEF a, b, m
<1>7. Promise!IsPrefix(stream, stream')
  BY <1>2, <1>4, <1>6 DEF Promise!IsPrefix
<1> QED
  BY <1>2, <1>5, <1>7 DEF Promise!Arrive

(* The frame behind the header in hand is the next one of the stream.          *)
LEMMA RightTailDelivers == ASSUME IInv, RightTail PROVE Promise!Deliver
<1> DEFINE T == Seq(Int)
           frame == Interval(First + 1, TailOf(stream, First) - 1)
           rest == FramesFrom(stream)[TailOf(stream, First) + 1]
           n == Len(delivered)
<1>1. /\ parsed = "head" /\ FrameAt(stream, First) /\ delivered' = Append(delivered, frame)
  BY RightTailGives
<1>2. /\ stream \in Seq(Byte) /\ delivered \in Seq(T)
      /\ Pos \in 1 .. Len(stream) + 1 /\ Pos = First
      /\ Frames(stream) = delivered \o FramesFrom(stream)[First]
  BY <1>1, FoundSoFar DEF Pos
<1>3. Len(stream) \in Nat /\ n \in Nat /\ First \in Nat \ {0}
  BY <1>1, <1>2, HandFits, LenProperties
<1>4. TailOf(stream, First) \in Nat /\ First <= Len(stream) /\ TailOf(stream, First) <= Len(stream)
  <2>1. /\ TailOf(stream, First) \in Nat /\ First + HeadLen < TailOf(stream, First)
        /\ TailOf(stream, First) <= Len(stream)
    BY <1>1, <1>2, <1>3, FrameIsThere
  <2> QED
    BY <1>2, <1>3, <2>1, HeadLenIsNat
<1>5. FramesFrom(stream)[First] = <<frame>> \o rest
  <2>1. First \in 1 .. (Len(stream) + 1)
    BY <1>3, <1>4
  <2> QED
    BY <1>1, <1>2, <1>4, <2>1, FramesFromCases
<1>6. frame \in T /\ rest \in Seq(T)
  <2>1. TailOf(stream, First) + 1 \in 1 .. (Len(stream) + 1)
    BY <1>3, <1>4
  <2> QED
    BY <1>1, <1>2, <1>3, <2>1, FrameFits, FramesFromType
<1> HIDE DEF T, frame, rest
<1>7. /\ <<frame>> \o rest \in Seq(T) /\ Len(<<frame>> \o rest) = 1 + Len(rest)
      /\ (<<frame>> \o rest)[1] = frame /\ Len(rest) \in Nat
  <2>1. <<frame>> \in Seq(T) /\ Len(<<frame>>) = 1 /\ <<frame>>[1] = frame
    BY <1>6
  <2>2. Len(rest) \in Nat
    BY <1>6, LenProperties
  <2> QED
    BY <1>6, <2>1, <2>2, ConcatProperties
<1>8. Len(Frames(stream)) > n /\ Frames(stream)[n + 1] = frame
  <2> DEFINE more == <<frame>> \o rest
  <2>1. more \in Seq(T) /\ Len(more) = 1 + Len(rest) /\ more[1] = frame /\ Len(rest) \in Nat
    BY <1>7
  <2>2. Frames(stream) = delivered \o more
    BY <1>2, <1>5
  <2> HIDE DEF more
  <2>3. /\ Len(delivered \o more) = n + Len(more)
        /\ \A i \in 1 .. n + Len(more) :
             (delivered \o more)[i] = IF i <= n THEN delivered[i] ELSE more[i - n]
    <3>1. delivered \in Seq(T) /\ more \in Seq(T)
      BY <1>2, <2>1
    <3>2. \A d, e \in Seq(T) :
            /\ Len(d \o e) = Len(d) + Len(e)
            /\ \A i \in 1 .. Len(d) + Len(e) :
                 (d \o e)[i] = IF i <= Len(d) THEN d[i] ELSE e[i - Len(d)]
      BY ConcatProperties
    <3> QED
      BY <3>1, <3>2
  <2>4. n + 1 \in 1 .. n + Len(more) /\ ~(n + 1 <= n) /\ (n + 1) - n = 1 /\ n + Len(more) > n
    BY <1>3, <2>1
  <2>5. (delivered \o more)[n + 1] = more[1]
    BY <2>3, <2>4
  <2> QED
    BY <2>1, <2>2, <2>3, <2>4, <2>5
<1>9. stream' = stream
  BY DEF RightTail
<1> QED
  BY <1>1, <1>3, <1>8, <1>9, SameFrames DEF Promise!Deliver

LEMMA StepImplements ==
  ASSUME IInv, [PacketNext]_vars
  PROVE  [Promise!Next]_<<stream, delivered>>
<1>1. CASE Receive
  BY <1>1, ReceiveArrives DEF Promise!Next
<1>2. CASE RightTail
  BY <1>2, RightTailDelivers DEF Promise!Next
<1>3. CASE ~Receive /\ ~RightTail
  <2>1. UNCHANGED <<stream, delivered>>
    BY <1>3 DEF PacketNext, recvdata, Start, NoHead, HeaderIncomplete, InvalidHeader, ValidHeader,
       HeaderThere, SearchHead, WaitForBody, FillBody, WrongTail, Return, vars
  <2> QED
    BY <2>1
<1> QED
  BY <1>1, <1>2, <1>3

(* recvdata, whatever the pieces and whatever is parsed twice, gives the user  *)
(* the frames of the stream one by one, in their order, and nothing else.      *)
THEOREM KeepsPromise == PacketSpec => ImplementsFrameStream
<1>1. IInv /\ [PacketNext]_vars => [Promise!Next]_<<stream, delivered>>
  BY StepImplements
<1>2. PacketInit => Promise!Init
  BY InitImplements
<1> QED
  BY <1>1, <1>2, Invariant, PTL DEF ImplementsFrameStream, PacketSpec, Promise!Spec

--------------------------------------------------------------------------------
(* What every turn of the loop takes off.                                      *)

(* There is room for a header, and more, in thread_readdata.                   *)
RoomForHeader == readLen > HeadLen

LEMMA RoomInvariant == PacketSpec => []RoomForHeader
<1>1. PacketInit => RoomForHeader
  BY BufferAssumption DEF PacketInit, InitParser, RoomForHeader
<1>2. ASSUME IInv, RoomForHeader, [PacketNext]_vars PROVE RoomForHeader'
  <2>1. readLen' = readLen \/ WrongTail
    BY <1>2 DEF PacketNext, Start, Receive, recvdata, NoHead, HeaderIncomplete, InvalidHeader,
         ValidHeader, HeaderThere, SearchHead, WaitForBody, FillBody, RightTail, Return, vars,
         parser
  <2>2. CASE WrongTail
    <3>1. PICK n : n = HeadLen + BodyLen(next)
      OBVIOUS
    <3>2. readLen' = readLen \/ readLen' = Larger(readLen, n)
      BY <2>2, <3>1 DEF WrongTail
    <3>3. n \in Int /\ readLen \in Nat /\ HeadLen \in Nat
      <4>1. parsed = "head"
        BY <1>2, <2>2, LastByteFits DEF WrongTail
      <4> QED
        BY <1>2, <3>1, <4>1, HandFits DEF IInv, BuffersFit
    <3> QED
      BY <1>2, <3>2, <3>3 DEF RoomForHeader, Larger
  <2> QED
    BY <1>2, <2>1, <2>2 DEF RoomForHeader
<1> QED
  BY <1>1, <1>2, Invariant, PTL DEF PacketSpec

(* The bytes that are not parsed yet are those from Pos on.                    *)
LEMMA UnparsedFits ==
  ASSUME IInv
  PROVE  Unparsed = Len(stream) + 1 - Pos /\ Unparsed \in Nat /\ Pos \in Nat /\ left \in Nat
<1>1. /\ Len(stream) \in Nat /\ left \in 0 .. Len(stream) /\ Len(read) \in Nat
      /\ parsed \in {"nothing", "head"} /\ Pos \in 1 .. Len(stream) + 1
  BY LenProperties DEF IInv, BuffersFit, ScanIsRight
<1>2. Unparsed = Len(stream) + 1 - Pos
  <2>1. CASE parsed = "head"
    <3>1. next[1] \in Int
      <4>1. 1 \in 1 .. Len(next) /\ Run(next, First) /\ First \in Nat
        BY <2>1, HeadLenIsNat DEF IInv, HeaderInHand
      <4>2. next[1] = First + 1
        BY <4>1 DEF Run
      <4> QED
        BY <4>1, <4>2
    <3> QED
      BY <1>1, <2>1, <3>1 DEF Unparsed, Pos, First
  <2>2. CASE parsed = "nothing"
    BY <1>1, <2>2 DEF Unparsed, Pos, Consumed
  <2> QED
    BY <1>1, <2>1, <2>2
<1> QED
  BY <1>1, <1>2

LEMMA UnparsedFitsThen ==
  ASSUME IInv'
  PROVE  Unparsed' = Len(stream') + 1 - Pos' /\ Unparsed' \in Nat /\ Pos' \in Nat /\ left' \in Nat
<1>1. /\ Len(stream') \in Nat /\ left' \in 0 .. Len(stream') /\ Len(read') \in Nat
      /\ parsed' \in {"nothing", "head"} /\ Pos' \in 1 .. Len(stream') + 1
  BY LenProperties DEF IInv, BuffersFit, ScanIsRight
<1>2. Unparsed' = Len(stream') + 1 - Pos'
  <2>1. CASE parsed' = "head"
    <3>1. next'[1] \in Int
      <4>1. 1 \in 1 .. Len(next') /\ Run(next', First') /\ First' \in Nat
        BY <2>1, HeadLenIsNat DEF IInv, HeaderInHand
      <4>2. next'[1] = First' + 1
        BY <4>1 DEF Run
      <4> QED
        BY <4>1, <4>2
    <3> QED
      BY <1>1, <2>1, <3>1 DEF Unparsed, Pos, First
  <2>2. CASE parsed' = "nothing"
    BY <1>1, <2>2 DEF Unparsed, Pos, Consumed
  <2> QED
    BY <1>1, <2>1, <2>2
<1> QED
  BY <1>1, <1>2

(* Fewer bytes to parse outweigh a new turn of the loop.                       *)
LEMMA Lighter ==
  ASSUME NEW u \in Nat, NEW v \in 0 .. u, NEW l \in Nat, NEW k \in 0 .. l,
         NEW p \in 0 .. 2, NEW q \in 0 .. 2,
         v < u \/ (q <= p /\ k < l) \/ q < p
  PROVE  3 * v + k + q \in 0 .. (3 * u + l + p) - 1
OBVIOUS

LEMMA WorkShrinks ==
  ASSUME IInv, IInv', Pos' >= Pos, stream' = stream, left' <= left,
         NEW p \in 0 .. 2, p = (CASE pc = "loop" -> 2 [] pc = "body" -> 1 [] OTHER -> 0),
         NEW q \in 0 .. 2, q = (CASE pc' = "loop" -> 2 [] pc' = "body" -> 1 [] OTHER -> 0),
         Pos' > Pos \/ (q <= p /\ left' < left) \/ q < p
  PROVE  Work' \in 0 .. Work - 1
<1>1. /\ Unparsed \in Nat /\ Unparsed' \in Nat /\ left \in Nat /\ left' \in Nat
      /\ Unparsed' = Unparsed + Pos - Pos' /\ Pos \in Nat /\ Pos' \in Nat
  <2>1. Len(stream) \in Nat
    BY LenProperties DEF IInv, BuffersFit
  <2> QED
    BY <2>1, UnparsedFits, UnparsedFitsThen
<1>2. /\ Unparsed' \in 0 .. Unparsed /\ left' \in 0 .. left
      /\ Unparsed' < Unparsed \/ (q <= p /\ left' < left) \/ q < p
  BY <1>1
<1>3. Work = 3 * Unparsed + left + p /\ Work' = 3 * Unparsed' + left' + q
  BY DEF Work
<1> QED
  BY <1>1, <1>2, <1>3, Lighter

(* A search of the head takes bytes of the data, unless there is nothing left  *)
(* and more than a header to look at.                                          *)
LEMMA SearchTakes ==
  ASSUME IInv, RoomForHeader, SearchHead
  PROVE  /\ stream' = stream /\ pc = "loop" /\ left' <= left
         /\ Len(Filled) \in Nat /\ Len(Filled) > 0
         /\ left' < left \/ Len(Filled) > HeadLen
<1>1. /\ pc = "loop" /\ parsed = "nothing" /\ left' = left - Taken /\ stream' = stream
      /\ left > 0 \/ Len(read) >= HeadLen + 2
  BY DEF SearchHead, GoesOn
<1>2. /\ Len(read) \in Nat /\ left \in Nat /\ readLen \in Nat /\ Len(read) <= readLen
      /\ HeadLen \in Nat /\ Len(stream) \in Nat
  BY LenProperties, HeadLenIsNat DEF IInv, BuffersFit
<1>3. Taken \in 0 .. left /\ (Taken = left \/ Taken = readLen - Len(read))
  BY <1>2 DEF Taken, Smaller
<1>4. Len(Filled) = Len(read) + Taken
  <2>1. PICK base \in Nat : /\ Pos = base + 1 /\ Consumed' = base + Len(Filled)
                            /\ Len(Filled) \in Nat
    BY SearchFits
  <2>2. Pos = Len(stream) - left - Len(read) + 1 /\ Consumed' = Len(stream) - left + Taken
    BY <1>1, <1>2, <1>3 DEF Pos, Consumed
  <2> QED
    BY <1>2, <1>3, <2>1, <2>2
<1> QED
  BY <1>1, <1>2, <1>3, <1>4 DEF RoomForHeader

LEMMA ProgressStep ==
  ASSUME IInv, RoomForHeader, recvdata, pc' # "idle"
  PROVE  Work' \in 0 .. Work - 1
<1> DEFINE p == CASE pc = "loop" -> 2 [] pc = "body" -> 1 [] OTHER -> 0
           q == CASE pc' = "loop" -> 2 [] pc' = "body" -> 1 [] OTHER -> 0
<1>0. p \in 0 .. 2 /\ q \in 0 .. 2 /\ Pos \in Nat /\ HeadLen \in Nat
  BY UnparsedFits, HeadLenIsNat
<1>1. CASE NoHead
  <2>1. /\ IInv' /\ Pos' = Pos + Len(Filled) /\ SearchHead
    BY <1>1, NoHeadKeeps DEF NoHead
  <2>2. Pos' > Pos /\ stream' = stream /\ left' <= left
    BY <1>0, <2>1, SearchTakes
  <2> HIDE DEF p, q
  <2> QED
    BY <1>0, <2>1, <2>2, WorkShrinks DEF p, q
<1>2. CASE HeaderIncomplete
  <2>1. /\ IInv' /\ Pos' = Pos + (HeadIn(Filled) - 1) /\ SearchHead
        /\ HeadIn(Filled) # 0 /\ Len(Filled) - HeadIn(Filled) < HeadLen /\ pc' = pc
    BY <1>2, HeaderIncompleteKeeps DEF HeaderIncomplete
  <2>2. /\ stream' = stream /\ left' <= left /\ Len(Filled) \in Nat
        /\ left' < left \/ Len(Filled) > HeadLen
    BY <2>1, SearchTakes
  <2>3. HeadIn(Filled) \in 0 .. Len(Filled)
    BY <2>1, FilledLen, HeadInFits
  <2>4. Pos' >= Pos /\ (Pos' > Pos \/ left' < left)
    BY <1>0, <2>1, <2>2, <2>3
  <2>5. p = q
    BY <2>1
  <2> HIDE DEF p, q
  <2> QED
    BY <1>0, <2>1, <2>2, <2>4, <2>5, WorkShrinks DEF p, q
<1>3. CASE InvalidHeader
  <2>1. /\ IInv' /\ Pos' = Pos + headpos' /\ SearchHead /\ HeaderThere
    BY <1>3, InvalidHeaderKeeps DEF InvalidHeader, HeaderThere
  <2>2. stream' = stream /\ left' <= left /\ Len(Filled) \in Nat
    BY <2>1, SearchTakes
  <2>3. headpos' \in 1 .. Len(Filled)
    BY <2>1, <2>2, FilledLen, HeadInFits DEF HeaderThere
  <2>4. Pos' > Pos /\ Pos' >= Pos
    BY <1>0, <2>1, <2>2, <2>3
  <2> HIDE DEF p, q
  <2> QED
    BY <1>0, <2>1, <2>2, <2>4, WorkShrinks DEF p, q
<1>4. CASE ValidHeader
  <2>1. /\ IInv' /\ Pos' = Pos + (headpos' - 1) /\ SearchHead /\ HeaderThere /\ pc' = "body"
    BY <1>4, ValidHeaderKeeps DEF ValidHeader, HeaderThere
  <2>2. stream' = stream /\ left' <= left /\ Len(Filled) \in Nat /\ pc = "loop"
    BY <2>1, SearchTakes
  <2>3. headpos' \in 1 .. Len(Filled)
    BY <2>1, <2>2, FilledLen, HeadInFits DEF HeaderThere
  <2>4. Pos' >= Pos /\ q < p
    BY <1>0, <2>1, <2>2, <2>3
  <2> HIDE DEF p, q
  <2> QED
    BY <1>0, <2>1, <2>2, <2>4, WorkShrinks DEF p, q
<1>5. CASE FillBody
  <2>1. /\ IInv' /\ Pos' = Pos /\ Missing \in 0 .. left /\ left' = left - Missing
        /\ stream' = stream /\ pc' = "tail" /\ pc \in {"body", "loop"}
    BY <1>5, FillBodyKeeps DEF FillBody, InBody
  <2>2. left' <= left /\ Pos' >= Pos /\ q < p
    BY <1>0, <2>1, UnparsedFits
  <2> HIDE DEF p, q
  <2> QED
    BY <1>0, <2>1, <2>2, WorkShrinks DEF p, q
<1>6. CASE WrongTail
  <2>1. /\ IInv' /\ Pos' = Pos + 1 /\ left' = left /\ stream' = stream
    BY <1>6, WrongTailKeeps DEF WrongTail
  <2>2. left' <= left /\ Pos' > Pos /\ Pos' >= Pos
    BY <1>0, <2>1, UnparsedFits
  <2> HIDE DEF p, q
  <2> QED
    BY <1>0, <2>1, <2>2, WorkShrinks DEF p, q
<1>7. CASE RightTail
  <2>1. /\ IInv' /\ Pos' = Pos + HeadLen + BodyLen(next) + 1 /\ left' = left /\ stream' = stream
    BY <1>7, RightTailKeeps DEF RightTail
  <2>2. BodyLen(next) \in Nat
    BY <1>7, LastByteFits, HandFits DEF RightTail
  <2>3. left' <= left /\ Pos' > Pos /\ Pos' >= Pos
    BY <1>0, <2>1, <2>2, UnparsedFits
  <2> HIDE DEF p, q
  <2> QED
    BY <1>0, <2>1, <2>3, WorkShrinks DEF p, q
<1>8. CASE WaitForBody \/ Return
  BY <1>8 DEF WaitForBody, Return
<1> QED
  BY <1>1, <1>2, <1>3, <1>4, <1>5, <1>6, <1>7, <1>8 DEF recvdata

(* Every turn of the loop of recvdata leaves the call less to do, for any      *)
(* bytes in any pieces and every size of the buffers (packet_sync.h:71-160).   *)
THEOREM TurnsAreBounded == PacketSpec => RecvdataProgresses
<1>1. ASSUME IInv, RoomForHeader, [PacketNext]_vars
      PROVE  [pc # "idle" /\ pc' # "idle" => Work' \in 0 .. Work - 1]_vars
  <2>1. CASE Start \/ Receive
    BY <2>1 DEF Start, Receive
  <2>2. CASE recvdata
    BY <1>1, <2>2, ProgressStep
  <2> QED
    BY <1>1, <2>1, <2>2 DEF PacketNext
<1> QED
  BY <1>1, Invariant, RoomInvariant, PTL DEF PacketSpec, RecvdataProgresses
================================================================================
