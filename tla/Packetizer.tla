----------------------------- MODULE Packetizer -----------------------------
(***************************************************************************)
(* src/mlt/packetizer.cc: how a message of `size' bytes is cut into        *)
(* gradient packets.  A packet is cut either at the send cursor            *)
(* (PartitionOne, first transmission) or from its sequence number          *)
(* (PartitionOneBySeq, retransmission); the two must agree.                *)
(***************************************************************************)
EXTENDS Integers

CONSTANT Segment    \* payload bytes of a full packet: MaxSegment() minus the header

ASSUME SegmentAssumption == Segment \in Nat \ {0}

\* Number of packets - 1.
GetMaxSeqNum(size) == (size + Segment - 1) \div Segment - 1

\* Payload of the packet that starts at `offset'.
PayloadAt(size, offset) ==
  IF size - offset > Segment THEN Segment ELSE size - offset

\* The packet at the send cursor; `bytes_sent' then grows by its payload.
PartitionOne(size, bytes_sent) ==
  [seq    |-> bytes_sent \div Segment,
   offset |-> bytes_sent,
   bytes  |-> PayloadAt(size, bytes_sent)]

\* The same packet again, from its sequence number.
PartitionOneBySeq(size, seq) ==
  [seq    |-> seq,
   offset |-> Segment * seq,
   bytes  |-> PayloadAt(size, Segment * seq)]

\* The packet ends the message.
IsLast(size, pkt) == pkt.offset + pkt.bytes = size
=============================================================================
