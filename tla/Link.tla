-------------------------------- MODULE Link --------------------------------
(***************************************************************************)
(* One direction of Connection (src/common.cpp), byte by byte: the Send    *)
(* functions on one side, Read and Parse on the other.  A read returns any *)
(* part of what was asked for, so a packet and even its four-byte Size may *)
(* arrive in pieces.  HandlePacket runs the application's code, which may  *)
(* run the run loop again and so enter Parse while a packet is handled.    *)
(*                                                                         *)
(* A write() to a stream socket that is nearly full may take the beginning *)
(* of a packet.  The rest is never sent, and the reader completes the      *)
(* packet with bytes of the next.  The module follows the reader up to the *)
(* end of that packet; after it the stream has no meaning.                 *)
(***************************************************************************)
EXTENDS Integers, Sequences, SequencesExt, FiniteSetsExt

CONSTANTS
    Packet,     \* the packets a side sends
    SizeOf,     \* their Size, in bytes
    Capacity,   \* bytes that fit in the socket buffer
    MaxWrites   \* bound: packets written

\* Size has four bytes and is at least the header's 12 bytes.  Its low byte
\* comes first, and in no packet of include/protocol.h is that byte below 4.
ASSUME LinkAssumption ==
    /\ SizeOf \in [Packet -> Nat]
    /\ \A p \in Packet : /\ SizeOf[p] >= 12 /\ SizeOf[p] % 256 >= 4
                         /\ SizeOf[p] \div 16777216 < 256
    /\ Capacity \in Nat /\ MaxWrites \in Nat

VARIABLES
    buffer,     \* the bytes in the socket
    position,   \* Connection::Position
    data,       \* the bytes of Connection::Packet since it was cleared
    handling,   \* HandlePacket has not returned
    torn,       \* history: write() took a part of a packet
    accepted,   \* history: packets write() took, before that happened
    handled,    \* history: packets given to HandlePacket, as bytes
    writes      \* number of writes, for the bound

vars == <<buffer, position, data, handling, torn, accepted, handled, writes>>

Bytes(p) == [k \in 1..SizeOf[p] |-> <<p, k>>]

\* What the bytes of Size count for.
Weight == <<1, 256, 65536, 16777216>>

\* The value of a byte, for the first four of a packet.
Value(byte) == (SizeOf[byte[1]] \div Weight[byte[2]]) % 256

\* Packet.Size as it stands: bytes not there yet are zero.
PacketSize ==
    LET at(k) == IF k <= Len(data) THEN Value(data[k]) * Weight[k] ELSE 0
    IN  at(1) + at(2) + at(3) + at(4)

Init ==
    /\ buffer = <<>> /\ position = 0 /\ data = <<>> /\ handling = FALSE
    /\ torn = FALSE /\ accepted = <<>> /\ handled = <<>> /\ writes = 0

-----------------------------------------------------------------------------
\* write(Descriptor, &pkt, pkt.Size); the result is ignored.
Write(p) ==
    LET room == Capacity - Len(buffer) IN
    /\ writes < MaxWrites
    /\ writes' = writes + 1
    /\ IF SizeOf[p] <= room
       THEN /\ buffer' = buffer \o Bytes(p)
            /\ accepted' = IF torn THEN accepted ELSE Append(accepted, p)
            /\ UNCHANGED torn
       ELSE \E k \in 0..room :
               /\ buffer' = buffer \o SubSeq(Bytes(p), 1, k)
               /\ torn' = (torn \/ k > 0)
               /\ UNCHANGED accepted
    /\ UNCHANGED <<position, data, handling, handled>>

\* Seeded fault: the size field is not waited for.
TargetSize_NoHeader == PacketSize

\* Seeded fault: the target is the largest packet.
TargetSize_Greedy == 16

TargetSize == IF position < 4 THEN 4 ELSE PacketSize

\* Seeded fault: the packet is handled as soon as its header is there.
Complete_AfterHeader(pos, size) == pos >= 12

\* The test after a successful read.
Complete(pos, size) == pos >= size

\* Seeded fault: the position is cleared before HandlePacket is called.
PositionAt_Cleared(pos, complete) == IF complete THEN 0 ELSE pos

\* The position while HandlePacket runs is still that of the whole packet.
PositionAt(pos, complete) == pos

\* A read of n bytes in Parse, or in a Parse nested in HandlePacket.  When the
\* packet is complete HandlePacket is entered.  Not followed past a packet put
\* together from two.
Read(n) ==
    LET bytes == SubSeq(buffer, 1, n)
        pos   == position + n
    IN  /\ Len(handled) <= Len(accepted)
        /\ n <= TargetSize - position
        /\ buffer' = SubSeq(buffer, n + 1, Len(buffer))
        /\ data' = SubSeq(data, 1, position) \o bytes
                   \o SubSeq(data, pos + 1, Len(data))
        /\ handling' = (handling \/ Complete(pos, PacketSize'))
        /\ position' = PositionAt(pos, Complete(pos, PacketSize'))
        /\ handled' = IF Complete(pos, PacketSize') THEN Append(handled, data')
                      ELSE handled
        /\ UNCHANGED <<torn, accepted, writes>>

ReadSome == \E n \in 1..Len(buffer) : Read(n)

\* HandlePacket returns: Position and Packet are cleared.
Return ==
    /\ handling
    /\ handling' = FALSE
    /\ position' = 0
    /\ data' = <<>>
    /\ UNCHANGED <<buffer, torn, accepted, handled, writes>>

Next == (\E p \in Packet : Write(p)) \/ ReadSome \/ Return

(***************************************************************************)
(* The run loop calls Parse as long as there are bytes in the socket, and  *)
(* the handlers of this program return.                                    *)
(***************************************************************************)
Spec == Init /\ [][Next]_vars /\ WF_vars(ReadSome) /\ WF_vars(Return)

-----------------------------------------------------------------------------
TypeOK ==
    /\ buffer \in Seq(Packet \X Nat) /\ data \in Seq(Packet \X Nat)
    /\ position = Len(data) /\ handling \in BOOLEAN /\ torn \in BOOLEAN
    /\ accepted \in Seq(Packet) /\ writes \in 0..MaxWrites

\* However the stream is cut into reads, the handler sees exactly the packets
\* write() took, whole and in order.  That holds up to the first packet write()
\* took a part of, and what follows does no harm to the packets before it.
PacketsArriveWhole ==
    /\ Len(handled) > Len(accepted) => torn
    /\ \A k \in 1..Min({Len(handled), Len(accepted)}) :
          handled[k] = Bytes(accepted[k])

\* The assertion of Connection::Read holds, and Packet is not overrun as long
\* as no write was short.
ReadStaysInside ==
    /\ position <= TargetSize
    /\ \A p \in Packet :
          ~torn /\ data # <<>> /\ data[1][1] = p => Len(data) <= SizeOf[p]

\* The packet a handler looks at does not change before the handler returns,
\* even when the handler runs the run loop.
HandledPacketIsStable == [][handling /\ handling' => data' = data]_vars

Received == SubSeq(handled, 1, Min({Len(handled), Len(accepted)}))

Channel == INSTANCE PacketChannel WITH
    Packet  <- {Bytes(p) : p \in Packet},
    queue   <- [k \in 1..(Len(accepted) - Len(Received)) |->
                   Bytes(accepted[Len(Received) + k])],
    handled <- Received

\* The Send functions and Parse together are the packet queue that the modules
\* of the two sides use, with its liveness, for the packets written before the
\* first short write: those arrive even if the rest of the stream is lost.
IsAPacketChannel == Channel!Spec
=============================================================================
