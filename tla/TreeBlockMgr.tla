---------------------------- MODULE TreeBlockMgr ----------------------------
(***************************************************************************)
(* src/mlt/tree_block_mgr.h: the sequence numbers that have not arrived    *)
(* are kept as a std::set of half-open blocks [first, last), ordered by    *)
(* first.  The receiving channel (LtMessageExt::CopyGradients and          *)
(* FinishFlow) calls Resize only with a larger size, and Take only after   *)
(* Check answered that the number is free.                                 *)
(***************************************************************************)
EXTENDS Integers

CONSTANT MaxSize    \* bound on the sizes a manager is resized to

ASSUME MaxSizeAssumption == MaxSize \in Nat \ {0}

VARIABLES size_,    \* number of sequence numbers managed
          used_,    \* how many Take calls were made
          tree_     \* the free blocks

vars == <<size_, used_, tree_>>

Interval(b) == b.first .. b.last - 1

-----------------------------------------------------------------------------
\* The constructor: one block, which is empty when the size is 0.
Init == /\ size_ \in 0 .. MaxSize
        /\ used_ = 0
        /\ tree_ = {[first |-> 0, last |-> size_]}

\* Mutant: searches with lower_bound, which misses a block that starts at seq.
AtOrBefore_LowerBound(seq) == {b \in tree_ : b.first < seq}

\* *prev(tree_.upper_bound(seq)): the last block that starts at or before seq.
AtOrBefore(seq) == {b \in tree_ : b.first <= seq}

Prev(seq) == CHOOSE b \in AtOrBefore(seq) :
               \A c \in AtOrBefore(seq) : c.first <= b.first

\* TRUE when seq has already been taken.
Check(seq) == \/ AtOrBefore(seq) = {}
              \/ seq \notin Interval(Prev(seq))

\* The last block of the tree (tree_.rbegin()).
LastBlock == CHOOSE b \in tree_ : \A c \in tree_ : c.first <= b.first

\* The blocks after the manager has grown to n numbers.
Grown(n) == IF tree_ = {} \/ LastBlock.last < size_
              THEN tree_ \cup {[first |-> size_, last |-> n]}
              ELSE (tree_ \ {LastBlock})
                     \cup {[first |-> LastBlock.first, last |-> n]}

Resize(n) == /\ n > size_
             /\ size_' = n
             /\ tree_' = Grown(n)
             /\ UNCHANGED used_

\* Mutant: the upper part of a block that is cut in two is lost.
Split_LosesUpper(b, seq) ==
  IF b.first = seq THEN {[first |-> seq + 1, last |-> b.last]}
                   ELSE {[first |-> b.first, last |-> seq]}

\* What is left of block b when seq leaves it; an emptied block is erased.
Split(b, seq) ==
  IF b.first = seq
    THEN {[first |-> seq + 1, last |-> b.last]}
    ELSE IF b.last = seq + 1
      THEN {[first |-> b.first, last |-> seq]}
      ELSE {[first |-> b.first, last |-> seq],
            [first |-> seq + 1, last |-> b.last]}

\* Mutant: an emptied block stays in the tree.
NonEmpty_Kept(blocks) == blocks

NonEmpty(blocks) == {b \in blocks : b.first < b.last}

Take(seq) ==
  /\ seq < size_
  /\ ~Check(seq)
  /\ used_' = used_ + 1
  /\ tree_' = (tree_ \ {Prev(seq)}) \cup NonEmpty(Split(Prev(seq), seq))
  /\ UNCHANGED size_

Next == \/ \E n \in 1 .. MaxSize : Resize(n)
        \/ \E seq \in 0 .. MaxSize - 1 : Take(seq)

Spec == Init /\ [][Next]_vars

-----------------------------------------------------------------------------
\* The sequence numbers that the blocks leave free.
Free == UNION {Interval(b) : b \in tree_}

(***************************************************************************)
(* The blocks never overlap and never touch, none is empty once the        *)
(* manager has a size, and all lie below size_: every answer of Check and  *)
(* every retransmit request rests on it, since the ordered set is searched *)
(* by first only and its elements are changed in place.                    *)
(***************************************************************************)
Canonical ==
  /\ \A b \in tree_ : b.last <= size_ /\ (size_ > 0 => b.first < b.last)
  /\ \A b, c \in tree_ : b # c => b.last < c.first \/ c.last < b.first

(***************************************************************************)
(* The binary search finds the right block: Check(seq) is TRUE exactly for *)
(* the numbers below size_ that no free block contains, so a packet is     *)
(* copied once and never skipped.                                          *)
(***************************************************************************)
CheckIsExact == \A seq \in 0 .. size_ - 1 : Check(seq) <=> seq \notin Free

(***************************************************************************)
(* The tree implements the abstract block manager: Take removes exactly    *)
(* its number from the free ones and Resize adds exactly the new ones.     *)
(***************************************************************************)
Abstract == INSTANCE BlockMgr WITH size <- size_,
                                   taken <- (0 .. size_ - 1) \ Free

RefinesBlockMgr == Abstract!Spec
=============================================================================
