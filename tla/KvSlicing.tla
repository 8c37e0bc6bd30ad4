----------------------------- MODULE KvSlicing -----------------------------
(***************************************************************************)
(* How a KVWorker splits a list of key-value pairs over the servers:       *)
(* Postoffice::GetServerKeyRanges and KVWorker::DefaultSlicer.  A KVPairs  *)
(* is a record of the sequences keys, vals and lens (lens may be empty).   *)
(***************************************************************************)
EXTENDS Integers, Sequences, Functions

CONSTANT MaxKey    \* kMaxKey, small

ASSUME MaxKeyAssumption == MaxKey \in Nat \ {0}

\* SArray::segment(begin, end) of a list that may be absent (empty).
Segment(s, begin, end) == IF s = <<>> THEN <<>> ELSE SubSeq(s, begin + 1, end)

\* Range i of n servers is [begin, end), from the truncated quotient.
GetServerKeyRanges(n) ==
  [i \in 1 .. n |-> [begin |-> (MaxKey \div n) * (i - 1),
                     end   |-> (MaxKey \div n) * i]]

\* std::lower_bound on a sorted list: how many elements are below x.
LowerBound(s, x) == Len(SelectSeq(s, LAMBDA y : y < x))

\* FindRange(s, lower, upper): the positions of the elements in [lower, upper).
FindRange(s, lower, upper) == [begin |-> LowerBound(s, lower), end |-> LowerBound(s, upper)]

\* pos[i] keys precede the slice of server i + 1; each search starts where
\* the previous one ended.
Positions(keys, ranges) ==
  LET pos[i \in 0 .. Len(ranges)] ==
        IF i = 0 THEN LowerBound(keys, ranges[1].begin)
        ELSE pos[i - 1] + LowerBound(SubSeq(keys, pos[i - 1] + 1, Len(keys)),
                                     ranges[i].end)
  IN pos

\* The CHECKs: contiguous ranges, every key in some range, values that match.
SlicerChecks(send, ranges) ==
  /\ \A i \in 2 .. Len(ranges) : ranges[i - 1].end = ranges[i].begin
  /\ Positions(send.keys, ranges)[Len(ranges)] = Len(send.keys)
  /\ send.keys # <<>> =>
       IF send.lens = <<>> THEN Len(send.vals) % Len(send.keys) = 0
                           ELSE Len(send.lens) = Len(send.keys)

\* Mutant: the search of every slice restarts at the first key.
DefaultSlicer_Restart(send, ranges) ==
  [i \in 1 .. Len(ranges) |->
     LET upto == LowerBound(send.keys, ranges[i].end)
         k == IF send.keys = <<>> THEN 0 ELSE Len(send.vals) \div Len(send.keys)
     IN [first |-> upto # 0,
         keys  |-> Segment(send.keys, 0, upto),
         lens  |-> Segment(send.lens, 0, upto),
         vals  |-> Segment(send.vals, 0, upto * k)]]

\* Mutant: the values of every slice start at the first value.
DefaultSlicer_NoValBegin(send, ranges) ==
  LET pos == Positions(send.keys, ranges)
      k == IF send.keys = <<>> THEN 0 ELSE Len(send.vals) \div Len(send.keys)
      valEnd(i) == SumFunction(Segment(send.lens, 0, pos[i]))
  IN [i \in 1 .. Len(ranges) |->
        [first |-> pos[i] # pos[i - 1],
         keys  |-> Segment(send.keys, pos[i - 1], pos[i]),
         lens  |-> Segment(send.lens, pos[i - 1], pos[i]),
         vals  |-> IF send.lens = <<>>
                   THEN Segment(send.vals, pos[i - 1] * k, pos[i] * k)
                   ELSE Segment(send.vals, 0, valEnd(i))]]

\* One slice per server; first is FALSE for a server with nothing to be sent.
\* With lens, the values of a slice start where the previous slice's ended.
DefaultSlicer(send, ranges) ==
  LET pos == Positions(send.keys, ranges)
      k == IF send.keys = <<>> THEN 0 ELSE Len(send.vals) \div Len(send.keys)
      valEnd[i \in 0 .. Len(ranges)] ==
        IF i = 0 THEN 0
        ELSE valEnd[i - 1] + SumFunction(Segment(send.lens, pos[i - 1], pos[i]))
  IN [i \in 1 .. Len(ranges) |->
        [first |-> pos[i] # pos[i - 1],
         keys  |-> Segment(send.keys, pos[i - 1], pos[i]),
         lens  |-> Segment(send.lens, pos[i - 1], pos[i]),
         vals  |-> IF send.lens = <<>>
                   THEN Segment(send.vals, pos[i - 1] * k, pos[i] * k)
                   ELSE Segment(send.vals, valEnd[i - 1], valEnd[i])]]
=============================================================================
