--------------------------- MODULE BlockManagers ---------------------------
(***************************************************************************)
(* The two implementations of the block manager interface side by side: a  *)
(* BitmapBlockMgr gets the same calls as the tree of RetransmitBlocks.     *)
(***************************************************************************)
EXTENDS RetransmitBlocks

CONSTANT type_size    \* the bits of a word of the bitmap

VARIABLES bsize_, bits_, bused_, segments_,  \* the bitmap
          cut    \* it was resized after its last number had been taken

Bitmap == INSTANCE BitmapBlockMgr

bvars == <<bsize_, bits_, bused_, segments_, cut>>

BInit == RInit /\ Bitmap!Init(size_) /\ cut = FALSE

BitmapResize(n) == Bitmap!Resize(n) /\ cut' = (cut \/ Bitmap!Test(bsize_ - 1))
BitmapTake(seq) == Bitmap!Take(seq) /\ UNCHANGED cut

\* Both managers change while packets arrive.
BReceive == /\ \/ \E n \in 1 .. MaxSize : Resize(n) /\ BitmapResize(n)
               \/ \E seq \in 0 .. MaxSize - 1 : Take(seq) /\ BitmapTake(seq)
            /\ UNCHANGED walk

BFinishFlow ==
  /\ FinishFlow
  /\ IF size_ < MaxSize THEN BitmapResize(MaxSize) ELSE UNCHANGED bvars

BNext == \/ BReceive
         \/ BFinishFlow
         \/ PollRetransmitRequest /\ UNCHANGED bvars
         \/ StopFlow /\ UNCHANGED bvars

BSpec == BInit /\ [][BNext]_<<rvars, bvars>>

-----------------------------------------------------------------------------
(***************************************************************************)
(* The bitmap answers as the tree does, and would send the same request:   *)
(* its word-by-word walk finds the same blocks in the same order.  Its     *)
(* count of segments is the number of blocks (the CHECK_EQ at the end of   *)
(* SerializeToBuffer), unless Resize found the last number taken: Resize   *)
(* looks at the new last bit instead of the old one.  Nothing in the       *)
(* repository resizes a bitmap.                                            *)
(***************************************************************************)
BitmapAgrees ==
  /\ \A seq \in 0 .. size_ - 1 : Bitmap!Check(seq) <=> Check(seq)
  /\ size_ > 0 => Bitmap!SerializeToBuffer = SerializeToBuffer(tree_)
  /\ Bitmap!FreeLength = Cardinality(Free)
  /\ size_ > 0 /\ ~cut => Bitmap!BlockCount = Cardinality(tree_)
=============================================================================
