----------------------------- MODULE MCMltFlow -----------------------------
(***************************************************************************)
(* Small instances of MltFlow.                                             *)
(***************************************************************************)
EXTENDS MltFlow

\* Two messages.  Message 1 has packets of 8 and 4 bytes, and its receiver is
\* content with 5 bytes, which are aligned up to 8: the short packet alone is
\* not enough.  Message 2 is a single packet, wanted whole.
PairSize == [m \in MsgIds |-> IF m = 1 THEN 12 ELSE 4]
PairKept == [m \in MsgIds |-> IF m = 1 THEN 5 ELSE 4]

\* One message of 8, 8 and 4 bytes; any two of its packets are enough.
LongSize == [m \in MsgIds |-> 20]
LongKept == [m \in MsgIds |-> 12]

\* Messages of one packet each, wanted whole.
ShortSize == [m \in MsgIds |-> 4]
ShortKept == [m \in MsgIds |-> 4]
=============================================================================
