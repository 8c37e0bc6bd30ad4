-------------------------- MODULE RetransmitBlocks --------------------------
(***************************************************************************)
(* One retransmission round of a message, with its blocks spelled out.     *)
(* The receiver (ReceivingChannel::FinishFlow) sends the free blocks of    *)
(* its TreeBlockMgr; the sender (PriorityChannel::PollRetransmitRequest)   *)
(* walks them one packet at a time with a cursor (block_num, seq_num).     *)
(* Packets keep arriving, and change the tree, while the request is        *)
(* walked.  MltFlow uses the result of this module: it keeps a request as  *)
(* the set of sequence numbers still to be sent.                           *)
(***************************************************************************)
EXTENDS TreeBlockMgr, Sequences, FiniteSets

VARIABLES blocks,     \* RetransmitRequest.blocks; <<>> when there is no request
          block_num,  \* RetransmitState: index of the current block, from 0
          seq_num     \* RetransmitState: next sequence number to send

walk == <<blocks, block_num, seq_num>>
rvars == <<size_, used_, tree_, blocks, block_num, seq_num>>

RInit == /\ Init
         /\ blocks = <<>>
         /\ block_num = 0
         /\ seq_num = 0

\* The receiver's manager changes while packets arrive.
Receive == Next /\ UNCHANGED walk

\* The blocks in the order in which the std::set is written to the request.
SerializeToBuffer(tree) ==
  CHOOSE s \in [1 .. Cardinality(tree) -> tree] :
    \A i, j \in 1 .. Cardinality(tree) : i < j => s[i].first < s[j].first

(***************************************************************************)
(* FinishFlow for an unfinished message: the manager grows to the number   *)
(* of packets announced (here MaxSize), and its blocks are requested; when *)
(* there is none, no request is sent.  The sender starts at the first      *)
(* block (PriorityChannel::PollNotification, REQUEST_RETRANSMIT).          *)
(***************************************************************************)
FinishFlow ==
  /\ blocks = <<>>
  /\ LET tree == IF size_ < MaxSize THEN Grown(MaxSize) ELSE tree_
     IN /\ tree # {}
        /\ tree_' = tree
        /\ blocks' = SerializeToBuffer(tree)
  /\ size_' = MaxSize
  /\ block_num' = 0
  /\ seq_num' = blocks'[1].first
  /\ UNCHANGED used_

\* Mutant: FlowFinish follows every packet of the last block.
IsFinished_LastBlock == block_num + 1 = Len(blocks)

\* The packet sent is the last one of the request: FlowFinish follows it.
IsFinished == /\ block_num + 1 = Len(blocks)
              /\ seq_num + 1 = blocks[block_num + 1].last

\* Send packet seq_num and advance; the request is erased after its last block.
PollRetransmitRequest ==
  /\ blocks # <<>>
  /\ IF seq_num + 1 # blocks[block_num + 1].last
       THEN /\ seq_num' = seq_num + 1
            /\ UNCHANGED <<blocks, block_num>>
       ELSE IF block_num + 1 < Len(blocks)
         THEN /\ block_num' = block_num + 1
              /\ seq_num' = blocks[block_num + 2].first
              /\ UNCHANGED blocks
         ELSE /\ blocks' = <<>>
              /\ block_num' = 0
              /\ seq_num' = 0
  /\ UNCHANGED vars

\* StopFlow erases the request wherever its cursor is.
StopFlow == /\ blocks # <<>>
            /\ blocks' = <<>>
            /\ block_num' = 0
            /\ seq_num' = 0
            /\ UNCHANGED vars

RNext == Receive \/ FinishFlow \/ PollRetransmitRequest \/ StopFlow

RSpec == RInit /\ [][RNext]_rvars

-----------------------------------------------------------------------------
(***************************************************************************)
(* The two CHECKs of PollRetransmitRequest: whenever a request is active   *)
(* its cursor is inside the block it points to, also after the tree the    *)
(* blocks came from has been split further.                                *)
(***************************************************************************)
CursorInBlock ==
  blocks # <<>> => /\ block_num < Len(blocks)
                   /\ seq_num \in Interval(blocks[block_num + 1])

\* The sequence numbers the request has still to send.
Remaining == {seq \in UNION {Interval(blocks[i]) : i \in 1 .. Len(blocks)} :
                seq >= seq_num}

(***************************************************************************)
(* A request asks for exactly the packets missing when it is made, and     *)
(* every poll sends the least number still wanted, each once, with         *)
(* FlowFinish exactly when none is left: losing or repeating the           *)
(* FlowFinish would end the retransmission rounds or start two at once.    *)
(***************************************************************************)
WalkIsExact ==
  [][ /\ blocks = <<>> /\ blocks' # <<>> => Remaining' = Free'
      /\ PollRetransmitRequest =>
           /\ seq_num \in Remaining
           /\ \A seq \in Remaining : seq_num <= seq
           /\ Remaining' = Remaining \ {seq_num}
           /\ IsFinished <=> Remaining' = {} ]_rvars
=============================================================================
