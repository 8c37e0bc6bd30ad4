-------------------------- MODULE RetransmitProofs --------------------------
(***************************************************************************)
(* The block tree and the walk of a retransmit request are correct for     *)
(* every size of a message.  The search of the tree is by the start of a   *)
(* block only, so everything rests on the shape of the tree (Shape); the   *)
(* walk rests on the request being the blocks of the tree in ascending     *)
(* order, each once (Walk).                                                *)
(***************************************************************************)
EXTENDS RetransmitBlocks, FiniteSetTheorems, TLAPS

Block == [first : Nat, last : Nat]

Covered(tree) == UNION {Interval(b) : b \in tree}

(***************************************************************************)
(* The shape of the tree of a manager of n numbers: finitely many blocks   *)
(* that neither overlap nor touch.  Only a manager without a size has an   *)
(* empty block, the one its constructor put there.                         *)
(***************************************************************************)
Shape(tree, n) ==
  /\ tree \subseteq Block
  /\ IsFiniteSet(tree)
  /\ \A b \in tree : b.last <= n /\ (n > 0 => b.first < b.last)
  /\ \A b, c \in tree : b # c => b.last < c.first \/ c.last < b.first
  /\ n = 0 => tree = {[first |-> 0, last |-> 0]}

TreeInv == /\ size_ \in 0 .. MaxSize
           /\ Shape(tree_, size_)

-----------------------------------------------------------------------------
\* A non-empty set of natural numbers has a least element.
LEMMA LeastExists ==
  ASSUME NEW T \in SUBSET Nat, T # {}
  PROVE  \E x \in T : \A y \in T : x <= y
<1> DEFINE R == {p \in Nat \X Nat : p[1] < p[2]}
<1>1. IsWellFoundedOn(R, Nat)
  BY NatLessThanWellFounded, Zenon DEF OpToRel
<1> HIDE DEF R
<1>2. PICK x \in T : \A y \in T : ~ (<<y, x>> \in R)
  BY <1>1, WFMin, Zenon
<1>3. ASSUME NEW y \in T, y < x
      PROVE  FALSE
  <2>1. <<y, x>> \in Nat \X Nat
    BY Zenon
  <2>2. <<y, x>> \in R
    BY <2>1, <1>3, Zenon DEF R
  <2> QED BY <2>2, <1>2, Zenon
<1> QED BY <1>3

\* A non-empty set of blocks whose starts are bounded has one that starts
\* last: std::prev and rbegin find something.
LEMMA LatestExists ==
  ASSUME NEW S \in SUBSET Block, S # {}, NEW n \in Nat,
         \A b \in S : b.first <= n
  PROVE  \E b \in S : \A c \in S : c.first <= b.first
<1> DEFINE T == {n - b.first : b \in S}
<1>1. T \in SUBSET Nat /\ T # {}
  BY DEF Block
<1> HIDE DEF T
<1>2. PICK x \in T : \A y \in T : x <= y
  BY <1>1, LeastExists, Zenon
<1> USE DEF T
<1>3. PICK b \in S : x = n - b.first
  BY <1>2, Zenon
<1>4. ASSUME NEW c \in S
      PROVE  c.first <= b.first
  <2>1. n - c.first \in T
    BY Zenon
  <2>2. n - b.first <= n - c.first
    BY <2>1, <1>2, <1>3, Zenon
  <2>3. c.first \in Nat /\ b.first \in Nat
    BY Zenon DEF Block
  <2> QED BY <2>2, <2>3
<1> QED BY <1>4, Zenon

\* upper_bound and prev: the block found starts at or before seq, and no
\* later block does.
LEMMA PrevFinds ==
  ASSUME TreeInv, NEW seq \in Nat, AtOrBefore(seq) # {}
  PROVE  /\ Prev(seq) \in tree_
         /\ Prev(seq).first <= seq
         /\ \A c \in tree_ : c.first <= seq => c.first <= Prev(seq).first
<1>1. AtOrBefore(seq) \in SUBSET Block /\ \A b \in AtOrBefore(seq) : b.first <= seq
  BY Zenon DEF TreeInv, Shape, AtOrBefore
<1>2. \E b \in AtOrBefore(seq) : \A c \in AtOrBefore(seq) : c.first <= b.first
  BY <1>1, LatestExists, Zenon
<1>3. /\ Prev(seq) \in AtOrBefore(seq)
      /\ \A c \in AtOrBefore(seq) : c.first <= Prev(seq).first
  BY <1>2, Zenon DEF Prev
<1> QED BY <1>3, Zenon DEF AtOrBefore

\* rbegin: the last block of a tree that is not empty.
LEMMA LastBlockFinds ==
  ASSUME TreeInv, tree_ # {}
  PROVE  /\ LastBlock \in tree_
         /\ \A c \in tree_ : c.first <= LastBlock.first
<1>1. tree_ \in SUBSET Block /\ MaxSize \in Nat
  BY MaxSizeAssumption, Zenon DEF TreeInv, Shape
<1>2. \A b \in tree_ : b.first <= MaxSize
  BY <1>1 DEF TreeInv, Shape, Block
<1>3. \E b \in tree_ : \A c \in tree_ : c.first <= b.first
  BY <1>1, <1>2, LatestExists, Zenon
<1> QED BY <1>3, Zenon DEF LastBlock

\* The block that holds seq is the one the search finds.
LEMMA SearchIsExact ==
  ASSUME TreeInv, NEW seq \in Nat
  PROVE  /\ Check(seq) <=> seq \notin Free
         /\ ~Check(seq) => Prev(seq) \in tree_ /\ seq \in Interval(Prev(seq))
<1>1. CASE AtOrBefore(seq) = {}
  BY <1>1 DEF AtOrBefore, Check, Free, Interval, TreeInv, Shape, Block
<1>2. CASE AtOrBefore(seq) # {}
  <2>1. /\ Prev(seq) \in tree_
        /\ Prev(seq).first <= seq
        /\ \A c \in tree_ : c.first <= seq => c.first <= Prev(seq).first
    BY <1>2, PrevFinds, Zenon
  <2>2. ASSUME NEW c \in tree_, seq \in Interval(c)
        PROVE  c = Prev(seq)
    BY <2>1, <2>2 DEF TreeInv, Shape, Block, Interval
  <2>3. Check(seq) <=> seq \notin Interval(Prev(seq))
    BY <1>2, Zenon DEF Check
  <2>4. seq \in Interval(Prev(seq)) <=> seq \in Free
    BY <2>1, <2>2, Zenon DEF Free
  <2> QED BY <2>1, <2>3, <2>4, Zenon
<1> QED BY <1>1, <1>2, Zenon

\* Growing keeps the shape, and frees exactly the new numbers.
LEMMA GrownIsRight ==
  ASSUME TreeInv, NEW n \in 1 .. MaxSize, n > size_
  PROVE  /\ Shape(Grown(n), n)
         /\ Covered(Grown(n)) = Free \cup (size_ .. n - 1)
         /\ Grown(n) # {}
<1> DEFINE new == [first |-> size_, last |-> n]
           longer == [first |-> LastBlock.first, last |-> n]
<1>1. n \in Nat /\ size_ \in Nat /\ n > 0 /\ tree_ \subseteq Block /\ IsFiniteSet(tree_)
  BY MaxSizeAssumption DEF TreeInv, Shape
<1>2. ASSUME tree_ # {}
      PROVE  /\ LastBlock \in tree_
             /\ \A b \in tree_ : b # LastBlock => b.last < LastBlock.first
  <2>1. /\ LastBlock \in tree_
        /\ \A c \in tree_ : c.first <= LastBlock.first
    BY <1>2, LastBlockFinds, Zenon
  <2> QED BY <2>1, <1>1 DEF TreeInv, Shape, Block
<1>3. CASE tree_ = {} \/ LastBlock.last < size_
  <2>1. Grown(n) = tree_ \cup {new}
    BY <1>3, Zenon DEF Grown
  <2>2. \A b \in tree_ : b.first < b.last /\ b.last < size_
    BY <1>1, <1>2, <1>3 DEF TreeInv, Shape, Block
  <2>3. new \in Block
    BY <1>1, Zenon DEF Block
  <2>4. IsFiniteSet(tree_ \cup {new})
    BY <1>1, FS_AddElement, Zenon
  <2>5. Shape(tree_ \cup {new}, n)
    <3>1. \A b \in tree_ \cup {new} : b.last <= n /\ b.first < b.last
      BY <1>1, <2>2 DEF Block
    <3>2. \A b, c \in tree_ \cup {new} : b # c => b.last < c.first \/ c.last < b.first
      BY <1>1, <2>2 DEF TreeInv, Shape, Block
    <3> QED BY <1>1, <2>3, <2>4, <3>1, <3>2 DEF Shape
  <2>6. Covered(tree_ \cup {new}) = Free \cup (size_ .. n - 1)
    <3>1. Interval(new) = size_ .. n - 1
      BY Zenon DEF Interval
    <3> HIDE DEF new
    <3> QED BY <3>1, Zenon DEF Covered, Free
  <2> QED BY <2>1, <2>5, <2>6, Zenon
<1>4. CASE tree_ # {} /\ ~ (LastBlock.last < size_)
  <2>1. Grown(n) = (tree_ \ {LastBlock}) \cup {longer}
    BY <1>4, Zenon DEF Grown
  <2>2. /\ LastBlock \in tree_
        /\ \A b \in tree_ : b # LastBlock => b.last < LastBlock.first
    BY <1>2, <1>4, Zenon
  <2>3. LastBlock.last = size_ /\ LastBlock.first <= size_ /\ LastBlock.first \in Nat
    BY <1>1, <1>4, <2>2 DEF TreeInv, Shape, Block
  <2>4. longer \in Block
    BY <1>1, <2>3, Zenon DEF Block
  <2>5. IsFiniteSet((tree_ \ {LastBlock}) \cup {longer})
    BY <1>1, FS_AddElement, FS_RemoveElement, ZenonT(40)
  <2>6. ASSUME NEW b \in tree_ \ {LastBlock}
        PROVE  b \in Block /\ b.first < b.last /\ b.last < LastBlock.first
    BY <1>1, <2>2, <2>3 DEF TreeInv, Shape, Block
  <2>7. Shape((tree_ \ {LastBlock}) \cup {longer}, n)
    <3>1. \A b \in (tree_ \ {LastBlock}) \cup {longer} : b.last <= n /\ b.first < b.last
      BY <1>1, <2>3, <2>6 DEF Block
    <3>2. \A b, c \in (tree_ \ {LastBlock}) \cup {longer} :
             b # c => b.last < c.first \/ c.last < b.first
      BY <1>1, <2>3, <2>6 DEF TreeInv, Shape, Block
    <3> QED BY <1>1, <2>4, <2>5, <2>6, <3>1, <3>2 DEF Shape
  <2>8. Interval(longer) = Interval(LastBlock) \cup (size_ .. n - 1)
    BY <1>1, <2>3 DEF Interval
  <2>9. Covered((tree_ \ {LastBlock}) \cup {longer}) = Free \cup (size_ .. n - 1)
    <3> HIDE DEF longer
    <3> QED BY <2>2, <2>8 DEF Covered, Free
  <2> QED BY <2>1, <2>7, <2>9, Zenon
<1> QED BY <1>3, <1>4, Zenon

\* Taking a free number keeps the shape, and removes exactly that number.
LEMMA TakenIsRight ==
  ASSUME TreeInv, NEW seq \in Nat, ~Check(seq)
  PROVE  LET tree == (tree_ \ {Prev(seq)}) \cup NonEmpty(Split(Prev(seq), seq))
         IN  /\ Shape(tree, size_)
             /\ Covered(tree) = Free \ {seq}
             /\ seq \in Free
<1> DEFINE old == Prev(seq)
           parts == NonEmpty(Split(old, seq))
           tree == (tree_ \ {old}) \cup parts
<1>1. size_ \in Nat /\ tree_ \subseteq Block /\ IsFiniteSet(tree_)
  BY MaxSizeAssumption DEF TreeInv, Shape
<1>2. old \in tree_ /\ old \in Block /\ seq \in Interval(old) /\ seq \in Free
  BY <1>1, SearchIsExact, Zenon
<1>3. old.first \in Nat /\ old.last \in Nat /\ old.first <= seq /\ seq < old.last
  BY <1>2 DEF Block, Interval
<1>4. size_ > 0 /\ old.last <= size_
  BY <1>1, <1>2, <1>3 DEF TreeInv, Shape
<1> DEFINE lower == [first |-> old.first, last |-> seq]
           upper == [first |-> seq + 1, last |-> old.last]
<1>a. parts = {p \in {lower, upper} : p.first < p.last}
  <2>1. lower.first < lower.last <=> old.first # seq
    BY <1>3
  <2>2. upper.first < upper.last <=> old.last # seq + 1
    BY <1>3
  <2> QED BY <2>1, <2>2, Zenon DEF NonEmpty, Split
<1>5. ASSUME NEW p \in parts
      PROVE  /\ p \in Block /\ p.first < p.last
             /\ old.first <= p.first /\ p.last <= old.last
             /\ p.first = old.first \/ p.first = seq + 1
             /\ p.last = old.last \/ p.last = seq
             /\ p.last <= seq \/ seq < p.first
  BY <1>3, <1>a DEF Block
<1>6. ASSUME NEW p \in parts, NEW q \in parts, p # q
      PROVE  p.last < q.first \/ q.last < p.first
  BY <1>3, <1>6, <1>a
<1>7. UNION {Interval(p) : p \in parts} = Interval(old) \ {seq}
  <2>1. UNION {Interval(p) : p \in parts} = Interval(lower) \cup Interval(upper)
    <3>1. parts \subseteq {lower, upper}
      BY <1>a, Zenon
    <3>2. lower \notin parts => Interval(lower) = {}
      BY <1>3, <1>a DEF Interval
    <3>3. upper \notin parts => Interval(upper) = {}
      BY <1>3, <1>a DEF Interval
    <3> HIDE DEF parts, lower, upper
    <3> QED BY <3>1, <3>2, <3>3, Zenon
  <2>2. Interval(lower) \cup Interval(upper) = Interval(old) \ {seq}
    BY <1>3 DEF Interval
  <2> QED BY <2>1, <2>2, Zenon
<1>8. IsFiniteSet(parts)
  <2>1. IsFiniteSet({lower} \cup {upper})
    <3> HIDE DEF lower, upper
    <3> QED BY FS_Singleton, FS_AddElement, Zenon
  <2>2. parts \in SUBSET ({lower} \cup {upper})
    BY <1>a, Zenon
  <2> HIDE DEF parts, lower, upper
  <2> QED BY <2>1, <2>2, FS_Subset, Zenon
<1>9. IsFiniteSet(tree)
  BY <1>1, <1>8, FS_RemoveElement, FS_Union, Zenon
<1> HIDE DEF old, parts
<1>10. Shape(tree, size_)
  <2>1. \A b \in tree : b \in Block /\ b.last <= size_ /\ b.first < b.last
    BY <1>1, <1>3, <1>4, <1>5 DEF TreeInv, Shape, Block
  <2>2. \A b \in tree_ \ {old} : b.last < old.first \/ old.last < b.first
    BY <1>2, Zenon DEF TreeInv, Shape
  <2>3. \A b \in tree_ \ {old}, p \in parts : b.last < p.first \/ p.last < b.first
    BY <1>1, <1>3, <1>5, <2>2 DEF Block
  <2>4. \A b, c \in tree : b # c => b.last < c.first \/ c.last < b.first
    BY <1>6, <2>3, Zenon DEF TreeInv, Shape
  <2> QED BY <1>4, <1>9, <2>1, <2>4 DEF Shape
<1>11. \A b \in tree_ \ {old} : seq \notin Interval(b)
  BY <1>1, <1>2, <1>3 DEF TreeInv, Shape, Block, Interval
<1>12. Covered(tree) = Free \ {seq}
  BY <1>2, <1>7, <1>11 DEF Covered, Free
<1> QED BY <1>2, <1>10, <1>12, Zenon DEF old, parts

-----------------------------------------------------------------------------
\* Finitely many blocks with different starts can be written in ascending
\* order, each once: the place of a block is the number of blocks that start
\* no later.
LEMMA SerializeIsRight ==
  ASSUME NEW S \in SUBSET Block, IsFiniteSet(S),
         \A b, c \in S : b # c => b.first # c.first
  PROVE  LET s == SerializeToBuffer(S)
         IN  /\ Cardinality(S) \in Nat
             /\ s \in [1 .. Cardinality(S) -> S]
             /\ \A i, j \in 1 .. Cardinality(S) : i < j => s[i].first < s[j].first
             /\ \A b \in S : \E i \in 1 .. Cardinality(S) : s[i] = b
<1> DEFINE N == Cardinality(S)
           D == 1 .. N
           upto(b) == {c \in S : c.first <= b.first}
           rank == [b \in S |-> Cardinality(upto(b))]
           Sorted(s) == \A i, j \in D : i < j => s[i].first < s[j].first
<1>1. N \in Nat
  BY FS_CardinalityType, Zenon
<1>2. \A b \in S : b.first \in Nat
  BY Zenon DEF Block
<1>3. ASSUME NEW b \in S
      PROVE  IsFiniteSet(upto(b)) /\ Cardinality(upto(b)) \in Nat /\ Cardinality(upto(b)) <= N
  <2>1. upto(b) \in SUBSET S
    BY Zenon
  <2> HIDE DEF upto
  <2> QED BY <2>1, FS_Subset, FS_CardinalityType, Zenon
<1>4. ASSUME NEW b \in S, NEW c \in S, b.first < c.first
      PROVE  rank[b] < rank[c]
  <2>1. upto(b) \in SUBSET upto(c) /\ c \in upto(c) /\ c \notin upto(b)
    BY <1>2, <1>4
  <2>2. Cardinality(upto(b)) # Cardinality(upto(c)) /\ Cardinality(upto(b)) <= Cardinality(upto(c))
    <3> HIDE DEF upto
    <3> QED BY <1>3, <2>1, FS_Subset, Zenon
  <2>3. rank[b] = Cardinality(upto(b)) /\ rank[c] = Cardinality(upto(c))
    BY Zenon
  <2> HIDE DEF upto, rank
  <2> QED BY <1>3, <2>2, <2>3
<1>5. ASSUME NEW b \in S
      PROVE  rank[b] \in D
  <2>1. b \in upto(b)
    BY <1>2
  <2>2. Cardinality(upto(b)) # 0
    <3> HIDE DEF upto
    <3> QED BY <1>3, <2>1, FS_EmptySet, Zenon
  <2>3. rank[b] = Cardinality(upto(b))
    BY Zenon
  <2> HIDE DEF upto, rank
  <2> QED BY <1>1, <1>3, <2>2, <2>3
<1>6. rank \in Injection(S, D)
  <2>1. rank \in [S -> D]
    BY <1>5, Zenon
  <2>2. ASSUME NEW b \in S, NEW c \in S, rank[b] = rank[c]
        PROVE  b = c
    <3>1. ~ (b.first < c.first) /\ ~ (c.first < b.first)
      <4> HIDE DEF rank
      <4> QED BY <1>4, <1>5, <2>2
    <3> QED BY <1>2, <3>1
  <2> HIDE DEF rank
  <2> QED BY <2>1, <2>2, Zenon DEF Injection, IsInjective
<1>7. IsFiniteSet(D) /\ Cardinality(D) = N
  BY <1>1, FS_Interval
<1> HIDE DEF rank, upto
<1>8. \A i \in D : \E b \in S : rank[b] = i
  <2>1. rank \in Surjection(S, D)
    <3> HIDE DEF D, N
    <3>1. Cardinality(S) = N
      BY Zenon DEF N
    <3> QED BY <1>6, <1>7, <3>1, FS_Injection, Zenon
  <2> QED BY <2>1, Zenon DEF Surjection
<1> DEFINE order == [i \in D |-> CHOOSE b \in S : rank[b] = i]
<1>9. ASSUME NEW i \in D
      PROVE  order[i] \in S /\ rank[order[i]] = i
  BY <1>8, Zenon
<1>10. order \in [D -> S]
  BY <1>9, Zenon
<1> HIDE DEF order
<1>11. Sorted(order)
  <2> SUFFICES ASSUME NEW i \in D, NEW j \in D, i < j
               PROVE  order[i].first < order[j].first
    BY Zenon
  <2>1. order[i] \in S /\ order[j] \in S /\ rank[order[i]] = i /\ rank[order[j]] = j
    BY <1>9, Zenon
  <2>2. CASE order[j].first < order[i].first
    BY <1>1, <1>4, <2>1, <2>2
  <2>3. CASE order[j].first = order[i].first
    <3>1. order[i] = order[j]
      BY <2>1, <2>3, Zenon
    <3> QED BY <2>1, <3>1
  <2> QED BY <1>2, <2>1, <2>2, <2>3
<1> DEFINE s == SerializeToBuffer(S)
<1>12. s \in [D -> S] /\ Sorted(s)
  BY <1>10, <1>11, Zenon DEF SerializeToBuffer
<1> HIDE DEF s
<1>13. s \in Injection(D, S)
  <2>1. \A i, j \in D : s[i] = s[j] => i = j
    BY <1>1, <1>2, <1>12
  <2> QED BY <1>12, <2>1, Zenon DEF Injection, IsInjective
<1>14. s \in Surjection(D, S)
  <2> HIDE DEF D, N
  <2>1. Cardinality(S) = N
    BY Zenon DEF N
  <2> QED BY <1>7, <1>13, <2>1, FS_Injection, Zenon
<1>15. \A b \in S : \E i \in D : s[i] = b
  BY <1>14, Zenon DEF Surjection
<1> QED BY <1>1, <1>12, <1>15, Zenon DEF s

-----------------------------------------------------------------------------
(***************************************************************************)
(* A request is a sequence of non-empty blocks in ascending order, and its *)
(* cursor is inside the block it points to.                                *)
(***************************************************************************)
Walk ==
  /\ block_num \in Nat /\ seq_num \in Nat
  /\ blocks \in Seq(Block)
  /\ \A i \in 1 .. Len(blocks) : blocks[i].first < blocks[i].last
  /\ \A i, j \in 1 .. Len(blocks) : i < j => blocks[i].last < blocks[j].first
  /\ CursorInBlock

RInv == TreeInv /\ Walk

\* The invariant holds of the empty tree.
LEMMA InitInv == RInit => RInv
<1> SUFFICES ASSUME RInit PROVE RInv
  BY Zenon
<1>1. TreeInv
  <2>1. size_ \in 0 .. MaxSize /\ tree_ = {[first |-> 0, last |-> size_]}
    BY Zenon DEF RInit, Init
  <2>2. IsFiniteSet(tree_)
    BY <2>1, FS_Singleton, Zenon
  <2> QED BY <2>1, <2>2, MaxSizeAssumption DEF TreeInv, Shape, Block
<1>2. Walk
  BY DEF RInit, Walk, CursorInBlock
<1> QED BY <1>1, <1>2, Zenon DEF RInv

\* Packets that arrive change the tree, never the request.
LEMMA ReceiveInv == RInv /\ Receive => RInv'
<1> SUFFICES ASSUME RInv, Receive PROVE RInv'
  BY Zenon
<1>1. TreeInv'
  <2>1. CASE \E n \in 1 .. MaxSize : Resize(n)
    <3>1. PICK n \in 1 .. MaxSize : Resize(n)
      BY <2>1, Zenon
    <3>2. Shape(Grown(n), n)
      BY <3>1, GrownIsRight, Zenon DEF RInv, Resize
    <3> QED BY <3>1, <3>2, MaxSizeAssumption DEF Resize, TreeInv
  <2>2. CASE \E seq \in 0 .. MaxSize - 1 : Take(seq)
    <3>1. PICK seq \in 0 .. MaxSize - 1 : Take(seq)
      BY <2>2, Zenon
    <3>2. seq \in Nat /\ TreeInv /\ ~Check(seq)
      BY <3>1, MaxSizeAssumption DEF RInv, Take
    <3>3. Shape((tree_ \ {Prev(seq)}) \cup NonEmpty(Split(Prev(seq), seq)), size_)
      BY <3>2, TakenIsRight, Zenon
    <3> QED BY <3>1, <3>3, Zenon DEF Take, TreeInv, RInv
  <2> QED BY <2>1, <2>2, Zenon DEF Receive, Next
<1>2. Walk'
  BY Zenon DEF Receive, walk, RInv, Walk, CursorInBlock
<1> QED BY <1>1, <1>2, Zenon DEF RInv

\* What FinishFlow requests: the blocks of the grown tree, in order.
LEMMA RequestIsRight ==
  ASSUME RInv, FinishFlow
  PROVE  /\ TreeInv' /\ size_' = MaxSize
         /\ Free' = Free \cup (size_ .. MaxSize - 1)
         /\ Walk'
         /\ blocks' # <<>>
         /\ block_num' = 0 /\ seq_num' = blocks'[1].first
         /\ \A i \in 1 .. Len(blocks') : blocks'[i] \in tree_'
         /\ \A b \in tree_' : \E i \in 1 .. Len(blocks') : blocks'[i] = b
<1> DEFINE N == Cardinality(tree_')
<1>1. TreeInv /\ MaxSize \in Nat /\ MaxSize > 0 /\ size_ \in 0 .. MaxSize
  BY MaxSizeAssumption DEF RInv, TreeInv
<1>2. Shape(tree_', MaxSize) /\ Covered(tree_') = Free \cup (size_ .. MaxSize - 1) /\ tree_' # {}
  <2>1. CASE size_ < MaxSize
    BY <1>1, <2>1, GrownIsRight DEF FinishFlow
  <2>2. CASE ~ (size_ < MaxSize)
    BY <1>1, <2>2 DEF FinishFlow, TreeInv, Covered, Free
  <2> QED BY <2>1, <2>2, Zenon
<1>3. TreeInv' /\ size_' = MaxSize /\ Free' = Free \cup (size_ .. MaxSize - 1)
  BY <1>1, <1>2 DEF FinishFlow, TreeInv, Covered, Free
<1>4. blocks' = SerializeToBuffer(tree_')
  BY Zenon DEF FinishFlow
<1>5. tree_' \in SUBSET Block /\ IsFiniteSet(tree_')
  BY <1>2, Zenon DEF Shape
<1>6. \A b, c \in tree_' : b # c => b.first # c.first
  BY <1>1, <1>2, <1>5 DEF Shape, Block
<1>7. /\ N \in Nat
      /\ blocks' \in [1 .. N -> tree_']
      /\ \A i, j \in 1 .. N : i < j => blocks'[i].first < blocks'[j].first
      /\ \A b \in tree_' : \E i \in 1 .. N : blocks'[i] = b
  BY <1>4, <1>5, <1>6, SerializeIsRight, Zenon
<1> HIDE DEF N
<1>8. blocks' \in Seq(Block) /\ Len(blocks') = N
  BY <1>5, <1>7
<1>9. N > 0
  BY <1>2, <1>7
<1>10. block_num' = 0 /\ seq_num' = blocks'[1].first
  BY Zenon DEF FinishFlow
<1>11. \A i \in 1 .. N : blocks'[i] \in Block /\ blocks'[i].first < blocks'[i].last
  BY <1>1, <1>2, <1>5, <1>7, Zenon DEF Shape
<1>12. \A i, j \in 1 .. N : i < j => blocks'[i].last < blocks'[j].first
  <2> SUFFICES ASSUME NEW i \in 1 .. N, NEW j \in 1 .. N, i < j
               PROVE  blocks'[i].last < blocks'[j].first
    BY Zenon
  <2>1. blocks'[i] \in tree_' /\ blocks'[j] \in tree_' /\ blocks'[i].first < blocks'[j].first
    BY <1>7, Zenon
  <2>2. blocks'[i].last < blocks'[j].first \/ blocks'[j].last < blocks'[i].first
    BY <1>2, <1>5, <2>1 DEF Shape, Block
  <2> QED BY <1>11, <2>1, <2>2 DEF Block
<1>13. Walk'
  <2>1. CursorInBlock'
    BY <1>8, <1>9, <1>10, <1>11 DEF CursorInBlock, Interval, Block
  <2> QED BY <1>8, <1>9, <1>10, <1>11, <1>12, <2>1 DEF Walk, Block
<1> QED BY <1>3, <1>7, <1>8, <1>9, <1>10, <1>13

\* One poll of a request: the number sent is the least one it still wants,
\* and leaves it; the cursor stays inside a block.
LEMMA PollIsRight ==
  ASSUME RInv, PollRetransmitRequest
  PROVE  /\ Walk'
         /\ seq_num \in Remaining
         /\ \A seq \in Remaining : seq_num <= seq
         /\ Remaining' = Remaining \ {seq_num}
         /\ IsFinished <=> Remaining' = {}
<1> DEFINE N == Len(blocks)
           at == block_num + 1
<1>1. /\ blocks \in Seq(Block) /\ blocks # <<>> /\ N \in Nat
      /\ block_num \in Nat /\ seq_num \in Nat /\ at \in 1 .. N
      /\ seq_num \in Interval(blocks[at])
  BY DEF RInv, Walk, CursorInBlock, PollRetransmitRequest
<1>2. \A i \in 1 .. N : /\ blocks[i].first \in Nat /\ blocks[i].last \in Nat
                        /\ blocks[i].first < blocks[i].last
  <2>1. \A i \in 1 .. N : blocks[i] \in Block
    BY <1>1
  <2> QED BY <2>1, Zenon DEF RInv, Walk, Block
<1>3. \A i, j \in 1 .. N : i < j => blocks[i].last < blocks[j].first
  BY Zenon DEF RInv, Walk
<1>4. blocks[at].first <= seq_num /\ seq_num < blocks[at].last
  BY <1>1, <1>2 DEF Interval
<1> HIDE DEF N
<1>5. ASSUME NEW seq \in Remaining
      PROVE  /\ seq \in Nat /\ seq_num <= seq
             /\ \E i \in 1 .. N : blocks[i].first <= seq /\ seq < blocks[i].last
  <2>1. PICK i \in 1 .. N : seq \in Interval(blocks[i])
    BY Zenon DEF Remaining, N
  <2> QED BY <1>1, <1>2, <2>1 DEF Remaining, Interval
<1>6. ASSUME NEW seq \in Nat, seq_num <= seq,
              NEW i \in 1 .. N, blocks[i].first <= seq, seq < blocks[i].last
       PROVE  seq \in Remaining
  <2>1. seq \in Interval(blocks[i])
    BY <1>2, <1>6 DEF Interval
  <2> QED BY <1>1, <1>6, <2>1, Zenon DEF Remaining, N
<1>7. seq_num \in Remaining /\ \A seq \in Remaining : seq_num <= seq
  BY <1>1, <1>4, <1>5, <1>6
<1> DEFINE U == UNION {Interval(blocks[i]) : i \in 1 .. N}
<1>11. \A seq \in U : seq \in Nat
  <2>1. ASSUME NEW i \in 1 .. N, NEW seq \in Interval(blocks[i])
        PROVE  seq \in Nat
    BY <1>2 DEF Interval
  <2> QED BY <2>1, Zenon
<1>12. ASSUME NEW s \in Nat, seq_num < s, seq_num' = s, UNCHANGED blocks
       PROVE  Remaining' = {seq \in Remaining : seq >= s}
  <2>1. /\ Remaining = {seq \in U : seq >= seq_num}
        /\ Remaining' = {seq \in U : seq >= s}
    BY <1>12, Zenon DEF Remaining, N
  <2> HIDE DEF U
  <2>2. \A seq \in U : seq >= s => seq >= seq_num
    <3>1. \A x, y, z \in Nat : x < y /\ z >= y => z >= x
      OBVIOUS
    <3> QED BY <1>1, <1>11, <1>12, <3>1, Zenon
  <2> QED BY <2>1, <2>2, Zenon
<1> HIDE DEF U
<1>8. CASE seq_num + 1 # blocks[at].last
  <2>1. seq_num' = seq_num + 1 /\ UNCHANGED <<blocks, block_num>>
    BY <1>8, Zenon DEF PollRetransmitRequest
  <2>2. Remaining' = {seq \in Remaining : seq >= seq_num + 1}
    <3>1. seq_num + 1 \in Nat /\ seq_num < seq_num + 1
      BY <1>1
    <3> QED BY <1>12, <2>1, <3>1, Zenon
  <2>3. Remaining' = Remaining \ {seq_num}
    BY <1>1, <1>5, <2>2
  <2>4. seq_num + 1 \in Remaining'
    <3>1. seq_num + 1 < blocks[at].last /\ blocks[at].first <= seq_num + 1
      BY <1>1, <1>2, <1>4, <1>8
    <3>2. seq_num + 1 \in Remaining
      BY <1>1, <1>6, <3>1
    <3> QED BY <1>1, <2>2, <3>2
  <2>5. ~IsFinished
    BY <1>8, Zenon DEF IsFinished
  <2>6. Walk'
    <3>1. seq_num + 1 \in Interval(blocks[at])
      BY <1>1, <1>2, <1>4, <1>8 DEF Interval
    <3> QED BY <1>1, <2>1, <3>1 DEF RInv, Walk, CursorInBlock
  <2> QED BY <1>7, <2>3, <2>4, <2>5, <2>6, Zenon
<1>9. CASE seq_num + 1 = blocks[at].last /\ at < N
  <2>1. /\ block_num' = block_num + 1 /\ seq_num' = blocks[block_num + 2].first
        /\ UNCHANGED blocks
    BY <1>9, Zenon DEF PollRetransmitRequest, N
  <2>2. block_num + 2 \in 1 .. N /\ at < block_num + 2 /\ block_num' + 1 = block_num + 2
    BY <1>1, <1>9, <2>1
  <2>3. seq_num' \in Nat /\ seq_num + 1 < seq_num'
    BY <1>1, <1>2, <1>3, <1>9, <2>1, <2>2, Zenon
  <2>4. \A i \in 1 .. N : i <= at \/ block_num + 2 <= i
    BY <1>1
  <2>5. ASSUME NEW seq \in Remaining, seq # seq_num
        PROVE  seq >= seq_num'
    <3>1. PICK i \in 1 .. N : blocks[i].first <= seq /\ seq < blocks[i].last
      BY <1>5, Zenon
    <3>2. seq \in Nat /\ seq_num < seq
      BY <1>1, <1>5, <2>5
    <3>3. CASE i < at
      BY <1>1, <1>2, <1>3, <1>4, <3>1, <3>2, <3>3
    <3>4. CASE i = at
      BY <1>1, <1>2, <1>9, <3>1, <3>2, <3>4
    <3>5. CASE i = block_num + 2
      BY <2>1, <3>1, <3>5, Zenon
    <3>6. CASE block_num + 2 < i
      BY <1>2, <1>3, <2>1, <2>2, <3>1, <3>2, <3>6
    <3> QED BY <1>1, <3>3, <3>4, <3>5, <3>6
  <2>6. Remaining' = {seq \in Remaining : seq >= seq_num'}
    <3>1. seq_num < seq_num'
      BY <1>1, <2>3
    <3> QED BY <1>12, <2>1, <2>3, <3>1, Zenon
  <2>7. Remaining' = Remaining \ {seq_num}
    BY <1>1, <1>5, <2>3, <2>5, <2>6
  <2>8. seq_num' \in Remaining'
    <3>1. seq_num' \in Remaining
      BY <1>1, <1>2, <1>6, <2>1, <2>2, <2>3
    <3> QED BY <2>3, <2>6, <3>1
  <2>9. ~IsFinished
    BY <1>9 DEF IsFinished, N
  <2>10. Walk'
    <3>1. seq_num' \in Interval(blocks[block_num + 2])
      BY <1>2, <2>1, <2>2 DEF Interval
    <3> QED BY <1>1, <1>9, <2>1, <2>2, <2>3, <3>1 DEF RInv, Walk, CursorInBlock, N
  <2> QED BY <1>7, <2>7, <2>8, <2>9, <2>10, Zenon
<1>10. CASE seq_num + 1 = blocks[at].last /\ ~ (at < N)
  <2>1. blocks' = <<>> /\ block_num' = 0 /\ seq_num' = 0
    BY <1>10, Zenon DEF PollRetransmitRequest, N
  <2>2. at = N
    BY <1>1, <1>10
  <2>3. ASSUME NEW seq \in Remaining
        PROVE  seq = seq_num
    <3>1. PICK i \in 1 .. N : blocks[i].first <= seq /\ seq < blocks[i].last
      BY <1>5, Zenon
    <3>2. seq \in Nat /\ seq_num <= seq
      BY <1>5, Zenon
    <3>3. CASE i < at
      BY <1>1, <1>2, <1>3, <1>4, <3>1, <3>2, <3>3
    <3>4. CASE i = at
      BY <1>1, <1>2, <1>10, <3>1, <3>2, <3>4
    <3> QED BY <1>1, <2>2, <3>3, <3>4
  <2>4. Remaining' = {}
    BY <2>1 DEF Remaining
  <2>5. Remaining \ {seq_num} = {}
    BY <2>3, Zenon
  <2>6. IsFinished
    BY <1>10, <2>2, Zenon DEF IsFinished, N
  <2>7. Walk'
    BY <2>1 DEF Walk, CursorInBlock
  <2> QED BY <1>7, <2>4, <2>5, <2>6, <2>7, Zenon
<1> QED BY <1>8, <1>9, <1>10, Zenon

\* Every operation preserves the invariant.
LEMMA StepInv == RInv /\ [RNext]_rvars => RInv'
<1> SUFFICES ASSUME RInv, [RNext]_rvars PROVE RInv'
  BY Zenon
<1>1. CASE Receive
  BY <1>1, ReceiveInv, Zenon
<1>2. CASE FinishFlow
  BY <1>2, RequestIsRight, Zenon DEF RInv
<1>3. CASE PollRetransmitRequest
  <2>1. Walk'
    BY <1>3, PollIsRight, Zenon
  <2> QED BY <1>3, <2>1, Zenon DEF PollRetransmitRequest, vars, RInv, TreeInv
<1>4. CASE StopFlow
  <2>1. blocks' = <<>> /\ block_num' = 0 /\ seq_num' = 0 /\ UNCHANGED vars
    BY <1>4, Zenon DEF StopFlow
  <2> QED BY <2>1 DEF vars, RInv, TreeInv, Walk, CursorInBlock
<1>5. CASE UNCHANGED rvars
  BY <1>5, Zenon DEF rvars, RInv, TreeInv, Walk, CursorInBlock
<1> QED BY <1>1, <1>2, <1>3, <1>4, <1>5, Zenon DEF RNext

\* The invariant of the tree and of the walk over it.
LEMMA Invariance == RSpec => []RInv
  BY InitInv, StepInv, PTL DEF RSpec

(***************************************************************************)
(* Whatever packets arrive, and however often the manager is resized, the  *)
(* blocks of the tree neither overlap nor touch, and none is empty.        *)
(***************************************************************************)
THEOREM TreeIsCanonical == RSpec => []Canonical
<1>1. RInv => Canonical
  BY Zenon DEF RInv, TreeInv, Shape, Canonical
<1> QED BY <1>1, Invariance, PTL

(***************************************************************************)
(* Check, which looks only at the last block that starts at or before its  *)
(* number, answers exactly whether the number was taken.                   *)
(***************************************************************************)
THEOREM CheckNeverErrs == RSpec => []CheckIsExact
<1>1. RInv => CheckIsExact
  BY SearchIsExact DEF RInv, TreeInv, CheckIsExact
<1> QED BY <1>1, Invariance, PTL

(***************************************************************************)
(* The CHECKs of PollRetransmitRequest on its cursor never fail.           *)
(***************************************************************************)
THEOREM CursorNeverLeaves == RSpec => []CursorInBlock
<1>1. RInv => CursorInBlock
  BY Zenon DEF RInv, Walk
<1> QED BY <1>1, Invariance, PTL

(***************************************************************************)
(* FinishFlow requests exactly the numbers that are free, and the polls of *)
(* a request send them in ascending order, each once, with FlowFinish on   *)
(* the last one and on no other.                                           *)
(***************************************************************************)
THEOREM WalkNeverErrs == RSpec => WalkIsExact
<1>1. ASSUME RInv, FinishFlow
      PROVE  Remaining' = Free'
  <2> DEFINE N == Len(blocks')
  <2>1. /\ TreeInv' /\ Walk' /\ blocks' # <<>> /\ seq_num' = blocks'[1].first
        /\ \A i \in 1 .. N : blocks'[i] \in tree_'
        /\ \A b \in tree_' : \E i \in 1 .. N : blocks'[i] = b
    BY <1>1, RequestIsRight, Zenon
  <2>2. /\ N \in Nat /\ N > 0 /\ seq_num' \in Nat
        /\ \A i \in 1 .. N : blocks'[i] \in Block /\ blocks'[i].first < blocks'[i].last
        /\ \A i, j \in 1 .. N : i < j => blocks'[i].last < blocks'[j].first
    BY <2>1 DEF Walk
  <2>3. \A i \in 1 .. N : seq_num' <= blocks'[i].first
    BY <2>1, <2>2 DEF Block
  <2>4. \A i \in 1 .. N : \A seq \in Interval(blocks'[i]) : seq >= seq_num'
    BY <2>2, <2>3 DEF Interval, Block
  <2>5. Remaining' = UNION {Interval(blocks'[i]) : i \in 1 .. N}
    BY <2>4, Zenon DEF Remaining
  <2>6. Free' = UNION {Interval(b) : b \in tree_'}
    BY Zenon DEF Free
  <2> HIDE DEF N
  <2> QED BY <2>1, <2>5, <2>6, Zenon
<1>2. ASSUME RInv, [RNext]_rvars, blocks = <<>>, blocks' # <<>>
      PROVE  Remaining' = Free'
  <2>1. FinishFlow
    BY <1>2, Zenon DEF RNext, rvars, Receive, walk, PollRetransmitRequest, StopFlow
  <2> QED BY <1>1, <1>2, <2>1, Zenon
<1>3. RInv /\ [RNext]_rvars =>
        [ /\ blocks = <<>> /\ blocks' # <<>> => Remaining' = Free'
          /\ PollRetransmitRequest =>
               /\ seq_num \in Remaining
               /\ \A seq \in Remaining : seq_num <= seq
               /\ Remaining' = Remaining \ {seq_num}
               /\ IsFinished <=> Remaining' = {} ]_rvars
  BY <1>2, PollIsRight, Zenon
<1> QED BY <1>3, Invariance, PTL DEF RSpec, WalkIsExact

(***************************************************************************)
(* The tree implements the abstract block manager for every message size:  *)
(* Take removes exactly its number from the free ones, Resize and          *)
(* FinishFlow add exactly the new ones, and nothing else changes them.     *)
(***************************************************************************)
THEOREM TreeImplementsBlockMgr == RSpec => RefinesBlockMgr
<1> DEFINE taken == (0 .. size_ - 1) \ Free
<1>1. RInit => Abstract!Init
  <2> SUFFICES ASSUME RInit PROVE Abstract!Init
    BY Zenon
  <2>1. size_ \in 0 .. MaxSize /\ tree_ = {[first |-> 0, last |-> size_]}
    BY Zenon DEF RInit, Init
  <2>2. Free = 0 .. size_ - 1
    BY <2>1 DEF Free, Interval
  <2> QED BY <2>1, <2>2, Zenon DEF Abstract!Init
<1>2. RInv /\ [RNext]_rvars => [Abstract!Next]_(Abstract!vars)
  <2> SUFFICES ASSUME RInv, [RNext]_rvars
               PROVE  Abstract!Next \/ UNCHANGED <<size_, taken>>
    BY Zenon DEF Abstract!vars
  <2>1. TreeInv /\ size_ \in Nat /\ MaxSize \in Nat /\ MaxSize > 0 /\ size_ <= MaxSize
    BY MaxSizeAssumption DEF RInv, TreeInv
  <2>2. ASSUME NEW n \in 1 .. MaxSize, n > size_, size_' = n,
               Free' = Free \cup (size_ .. n - 1)
        PROVE  Abstract!Next
    <3>1. taken' = taken
      BY <2>1, <2>2
    <3>2. Abstract!Resize(n)
      BY <2>2, <3>1, Zenon DEF Abstract!Resize
    <3> QED BY <3>2, Zenon DEF Abstract!Next
  <2>3. ASSUME NEW n \in 1 .. MaxSize, Resize(n)
        PROVE  Abstract!Next
    <3>1. n > size_ /\ size_' = n /\ tree_' = Grown(n)
      BY <2>3, Zenon DEF Resize
    <3>2. Covered(Grown(n)) = Free \cup (size_ .. n - 1)
      BY <2>1, <3>1, GrownIsRight, Zenon
    <3>3. Free' = Covered(Grown(n))
      BY <3>1, Zenon DEF Free, Covered
    <3> QED BY <2>2, <3>1, <3>2, <3>3, Zenon
  <2>4. ASSUME NEW seq \in 0 .. MaxSize - 1, Take(seq)
        PROVE  Abstract!Next
    <3>1. /\ seq \in Nat /\ seq < size_ /\ ~Check(seq) /\ size_' = size_
          /\ tree_' = (tree_ \ {Prev(seq)}) \cup NonEmpty(Split(Prev(seq), seq))
      BY <2>1, <2>4 DEF Take
    <3>2. Covered(tree_') = Free \ {seq} /\ seq \in Free
      BY <2>1, <3>1, TakenIsRight, Zenon
    <3>3. Free' = Free \ {seq}
      BY <3>2, Zenon DEF Free, Covered
    <3>4. taken' = taken \cup {seq} /\ seq \in (0 .. size_ - 1) \ taken
      BY <2>1, <3>1, <3>2, <3>3
    <3>5. Abstract!Take(seq)
      BY <3>1, <3>4, Zenon DEF Abstract!Take
    <3> QED BY <3>5, Zenon DEF Abstract!Next
  <2>5. CASE Receive
    BY <2>3, <2>4, <2>5, Zenon DEF Receive, Next
  <2>6. CASE FinishFlow
    <3>1. size_' = MaxSize /\ Free' = Free \cup (size_ .. MaxSize - 1)
      BY <2>6, RequestIsRight, Zenon
    <3>2. CASE size_ < MaxSize
      BY <2>1, <2>2, <3>1, <3>2
    <3>3. CASE size_ = MaxSize
      BY <2>1, <3>1, <3>3
    <3> QED BY <2>1, <3>2, <3>3
  <2>7. CASE PollRetransmitRequest \/ StopFlow \/ UNCHANGED rvars
    <3>1. UNCHANGED <<size_, tree_>>
      BY <2>7, Zenon DEF PollRetransmitRequest, StopFlow, rvars, vars
    <3> QED BY <3>1, Zenon DEF Free
  <2> QED BY <2>5, <2>6, <2>7, Zenon DEF RNext
<1> QED BY <1>1, <1>2, Invariance, PTL DEF RSpec, RefinesBlockMgr, Abstract!Spec
=============================================================================
