------------------------------- MODULE NetBase -------------------------------
(***************************************************************************)
(* The conversions of reference/include/net_base.h and the packet builder  *)
(* of packet_sync.h, on bytes.                                             *)
(*                                                                         *)
(* A byte is a number below ByteBase and an int has IntLen bytes (256 and  *)
(* 4 in the code), so that all ints can be enumerated for small values; a  *)
(* check sum has CheckLen bytes (16 in the code).  On a little-endian host *)
(* htonl and ntohl reverse the bytes, on the others they do nothing.       *)
(***************************************************************************)
EXTENDS Integers, Sequences, SequencesExt

CONSTANTS ByteBase, IntLen, CheckLen, LittleEndian

ASSUME NetBaseAssumption == /\ ByteBase \in Nat \ {0, 1}
                            /\ IntLen \in Nat \ {0}
                            /\ CheckLen \in Nat
                            /\ LittleEndian \in BOOLEAN

Byte == 0 .. (ByteBase - 1)

(* sizeof(NetPacket): version, header, tail, check, type, datalen, reserve *)
HeadLen == 4 * IntLen + 2 + CheckLen

(* what a bit of a byte is worth that has i bytes behind it *)
Weight[i \in 0 .. 2 * IntLen] == IF i = 0 THEN 1 ELSE Weight[i - 1] * ByteBase

IntMod == Weight[IntLen]
Int32 == (-(IntMod \div 2)) .. ((IntMod + 1) \div 2 - 1)
UInt64 == 0 .. (IntMod * IntMod - 1)
NetPacket == [version: Int32, header: Byte, tail: Byte, check: [1 .. CheckLen -> Byte],
              type: Int32, datalen: Int32, reserve: Int32]

------------------------------------------------------------------------------

(* the bytes of a number, most significant first, and back *)
Bytes(n, len) == [i \in 1 .. len |-> (n \div Weight[len - i]) % ByteBase]
Unsigned(c) ==
    LET upTo[i \in 0 .. Len(c)] == IF i = 0 THEN 0 ELSE upTo[i - 1] * ByteBase + c[i]
    IN  upTo[Len(c)]

(* the value an int variable has that holds these bits *)
Signed(n) == IF n > (IntMod - 1) \div 2 THEN n - IntMod ELSE n

htonl(c) == IF LittleEndian THEN Reverse(c) ELSE c

(* Mutant: the conversion to the host's byte order is forgotten. *)
CharToInt32NoSwap(c) == Signed(Unsigned(c))

Int32ToChar(n) == htonl(Bytes(n % IntMod, IntLen))
CharToInt32(c) == Signed(Unsigned(htonl(c)))

Int64ToChar(n) == htonl(Bytes(n, 2 * IntLen))

(* charnum[4] << 24 is an int: with its top bit set, the sum of the lower four
   bytes is negative and borrows from the upper ones. *)
LowerHalf(c) == Signed(Unsigned(SubSeq(c, IntLen + 1, 2 * IntLen)))
CharToInt64(c) ==
    LET n == (Unsigned(SubSeq(c, 1, IntLen)) * IntMod + LowerHalf(c)) % (IntMod * IntMod)
    IN  Unsigned(htonl(Bytes(n, 2 * IntLen)))

------------------------------------------------------------------------------

(* the offsets of the fields in a packed NetPacket *)
AtCheck == IntLen + 2
AtType == AtCheck + CheckLen
AtDatalen == AtType + IntLen
AtReserve == AtDatalen + IntLen

IntAt(c, offset) == CharToInt32(SubSeq(c, offset + 1, offset + IntLen))

NetPacketToChar(p) ==
    Int32ToChar(p.version) \o <<p.header, p.tail>> \o p.check
        \o Int32ToChar(p.type) \o Int32ToChar(p.datalen) \o Int32ToChar(p.reserve)

CharToNetPacket(c) ==
    [version |-> IntAt(c, 0), header |-> c[IntLen + 1], tail |-> c[IntLen + 2],
     check |-> SubSeq(c, AtCheck + 1, AtCheck + CheckLen),
     type |-> IntAt(c, AtType), datalen |-> IntAt(c, AtDatalen), reserve |-> IntAt(c, AtReserve)]

(* What a peer sends for a packet and its datalen bytes of data.  The MD5 of
   the data is commented out: check keeps what the caller left in it, unless
   there is no data. *)
PacketData(p, data) ==
    LET checked == IF data = <<>> THEN [p EXCEPT !.check = [i \in 1 .. CheckLen |-> 0]] ELSE p
    IN  <<p.header>> \o NetPacketToChar(checked) \o data \o <<p.tail>>

------------------------------------------------------------------------------

(* A header survives the wire: every int, negative ones too, and every field
   at its own offset (net_base.h:89-105, 152-195). *)
HeaderSurvives(packets) ==
    /\ \A n \in Int32 : CharToInt32(Int32ToChar(n)) = n
    /\ \A p \in packets : CharToNetPacket(NetPacketToChar(p)) = p

(* A 64-bit number survives exactly when the top bit of charnum[4] is clear
   (net_base.h:125-126); comment and declaration promise it for all. *)
Int64SurvivesBelow ==
    \A n \in UInt64 : CharToInt64(Int64ToChar(n)) = n
                        <=> Int64ToChar(n)[IntLen + 1] < ByteBase \div 2
=============================================================================
