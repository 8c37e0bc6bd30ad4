------------------------------- MODULE Queues -------------------------------
(***************************************************************************)
(* Counting and ordering the elements of a FIFO queue.                     *)
(***************************************************************************)
EXTENDS Integers, Sequences, FiniteSets

\* 1 if b, else 0.
One(b) == IF b THEN 1 ELSE 0

\* The number of elements of queue q that are in the set E.
Count(q, E) == Cardinality({i \in 1 .. Len(q) : q[i] \in E})

\* Every element of q that is in E stands before every element that is in F.
Precedes(q, E, F) ==
  \A i, j \in 1 .. Len(q) : q[i] \in E /\ q[j] \in F => i < j

-----------------------------------------------------------------------------
\* What is proved of counts and of sets of sequence numbers, where it is used.

CountIsNat ==
  \A S, E : \A q \in Seq(S) :
    /\ Count(q, E) \in Nat
    /\ Count(q, E) = 0 <=> \A i \in 1 .. Len(q) : q[i] \notin E

CountOfAppend ==
  \A S, E : \A q \in Seq(S) : \A e \in S :
    Count(Append(q, e), E) = Count(q, E) + One(e \in E)

CountOfTail ==
  \A S, E : \A q \in Seq(S) :
    q # <<>> => Count(Tail(q), E) = Count(q, E) - One(Head(q) \in E)

SizeOfSubset ==
  \A T : \A n \in Int :
    T \subseteq 0 .. n =>
      /\ Cardinality(T) \in Nat
      /\ n >= -1 => Cardinality(T) <= n + 1
      /\ \A i : i \notin T => Cardinality(T \cup {i}) = Cardinality(T) + 1

SizeOfInterval ==
  /\ Cardinality({}) = 0
  /\ \A n \in Nat : Cardinality(0 .. (n - 1)) = n

CountingFacts ==
  CountIsNat /\ CountOfAppend /\ CountOfTail /\ SizeOfSubset /\ SizeOfInterval
=============================================================================
