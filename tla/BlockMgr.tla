------------------------------ MODULE BlockMgr ------------------------------
(***************************************************************************)
(* What a block manager promises (src/mlt/block_mgr.h): it remembers which *)
(* of the packet sequence numbers 0 .. size-1 of a message have arrived.   *)
(* TreeBlockMgr, the implementation the receiver uses, is shown to         *)
(* implement this specification; MltFlow uses this view of it directly.    *)
(***************************************************************************)
EXTENDS Integers

CONSTANT MaxSize    \* bound on the sizes a manager is resized to

VARIABLES size,     \* number of sequence numbers managed so far
          taken     \* those that were taken (received)

vars == <<size, taken>>

Init == /\ size \in 0 .. MaxSize
        /\ taken = {}

\* The message turns out to have more packets than were known.
Resize(n) == /\ n > size
             /\ size' = n
             /\ UNCHANGED taken

\* A packet that has not been seen yet arrives.
Take(seq) == /\ seq \in (0 .. size - 1) \ taken
             /\ taken' = taken \cup {seq}
             /\ UNCHANGED size

Next == \/ \E n \in 1 .. MaxSize : Resize(n)
        \/ \E seq \in 0 .. MaxSize - 1 : Take(seq)

Spec == Init /\ [][Next]_vars
=============================================================================
