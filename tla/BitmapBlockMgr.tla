--------------------------- MODULE BitmapBlockMgr ---------------------------
(***************************************************************************)
(* src/mlt/bitmap_block_mgr.h: the block manager that keeps one bit for    *)
(* every sequence number and counts the free segments between them.  The   *)
(* bits are kept as the set of the positions that are set, a word as the   *)
(* set of its offsets.                                                     *)
(***************************************************************************)
EXTENDS Integers, Sequences, FiniteSets, FiniteSetsExt

CONSTANT type_size    \* the bits of a word (64 for long)

VARIABLES bsize_,     \* BlockMgr::size_
          bits_,      \* the set bits of bitmap_
          bused_,     \* used_
          segments_   \* the number of free segments, as counted

vars == <<bsize_, bits_, bused_, segments_>>

\* The constructor, for a message of n packets.
Init(n) == bsize_ = n /\ bits_ = {} /\ bused_ = 0 /\ segments_ = 1

Test(pos) == pos \in bits_
Set(pos) == bits_' = bits_ \cup {pos}

Resize(n) == /\ bsize_' = n
             /\ segments_' = IF Test(n - 1) THEN segments_ + 1 ELSE segments_
             /\ UNCHANGED <<bits_, bused_>>

Check(seq) == Test(seq)

\* Mutant: the number after the last counts as free.
Segments_NoEnd(seq) ==
  segments_ + 1 - (IF seq = 0 \/ Test(seq - 1) THEN 1 ELSE 0)
                - (IF Test(seq + 1) THEN 1 ELSE 0)

\* Taking seq cuts a free segment in two, unless it lies at an end of it.
Segments(seq) ==
  segments_ + 1 - (IF seq = 0 \/ Test(seq - 1) THEN 1 ELSE 0)
                - (IF seq + 1 = bsize_ \/ Test(seq + 1) THEN 1 ELSE 0)

Take(seq) == IF Test(seq) THEN UNCHANGED vars
             ELSE /\ bused_' = bused_ + 1
                  /\ segments_' = Segments(seq)
                  /\ Set(seq)
                  /\ UNCHANGED bsize_

FreeLength == bsize_ - bused_

\* ByteSize, in blocks.
BlockCount == segments_

UnderlayValue(i) == {o \in 0 .. type_size - 1 : Test(i * type_size + o)}

\* __builtin_ctzl; of no bit, what the tzcnt instruction answers.
LastBitNotZero(word) == IF word = {} THEN type_size ELSE Min(word)

\* The inner loop of SerializeToBuffer: the blocks that end in word i.
RECURSIVE InWord(_, _, _)
InWord(i, seg, w) ==
  IF seg = {} \/ w.first >= (i + 1) * type_size THEN w
  ELSE LET trailing_zeros == LastBitNotZero(seg)
           last == i * type_size + trailing_zeros
           zero == LastBitNotZero({o \in trailing_zeros .. type_size - 1 : o \notin seg})
       IN InWord(i, {o \in seg : o >= zero},
                 [first |-> i * type_size + zero,
                  out |-> IF w.first < last
                          THEN Append(w.out, [first |-> w.first, last |-> last])
                          ELSE w.out])

RECURSIVE Words(_, _)
Words(i, w) == IF i * type_size >= bsize_ THEN w
               ELSE Words(i + 1, InWord(i, UnderlayValue(i), w))

\* The blocks written; the CHECK_EQ at the end compares their number with
\* ByteSize().
SerializeToBuffer ==
  LET w == Words(0, [first |-> 0, out |-> <<>>])
  IN IF w.first < bsize_ THEN Append(w.out, [first |-> w.first, last |-> bsize_])
                         ELSE w.out
=============================================================================
