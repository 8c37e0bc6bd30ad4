------------------------ MODULE LossTolerantTransfer ------------------------
(***************************************************************************)
(* What a pair of PostSend and PostRecv promises its applications: once    *)
(* the receiver is content the sender forgets the message, and from then   *)
(* on the send and the receive complete, each once and in either order;    *)
(* the receive has at least the bytes it asked for.                        *)
(***************************************************************************)
EXTENDS Integers

CONSTANTS MsgIds,   \* message ids, each used once
          Size,     \* bytes of each message
          Bound(_)  \* bytes after which its receiver is content

VARIABLES sent,     \* state of each send as its application sees it
          received, \* state of each receive
          bytes     \* bytes received

vars == <<sent, received, bytes>>

Init == /\ sent = [m \in MsgIds |-> "idle"]
        /\ received = [m \in MsgIds |-> "idle"]
        /\ bytes = [m \in MsgIds |-> 0]

PostSend(m) == /\ sent[m] = "idle"
               /\ sent' = [sent EXCEPT ![m] = "posted"]
               /\ UNCHANGED <<received, bytes>>

PostRecv(m) == /\ received[m] = "idle"
               /\ received' = [received EXCEPT ![m] = "posted"]
               /\ UNCHANGED <<sent, bytes>>

\* Some more of the message arrives, maybe beyond what was asked for.
Receive(m) == /\ sent[m] # "idle"
              /\ received[m] \in {"posted", "content"}
              /\ \E b \in bytes[m] + 1 .. Size[m] :
                   /\ bytes' = [bytes EXCEPT ![m] = b]
                   /\ received' = [received EXCEPT ![m] =
                                     IF b >= Bound(m) THEN "content" ELSE @]
              /\ UNCHANGED sent

\* The sender learns that the receiver is content; no completion is seen yet.
Stop(m) == /\ sent[m] = "posted"
           /\ received[m] = "content"
           /\ sent' = [sent EXCEPT ![m] = "stopped"]
           /\ UNCHANGED <<received, bytes>>

CompleteSend(m) == /\ sent[m] = "stopped"
                   /\ sent' = [sent EXCEPT ![m] = "complete"]
                   /\ UNCHANGED <<received, bytes>>

CompleteRecv(m) == /\ received[m] = "content"
                   /\ sent[m] \in {"stopped", "complete"}
                   /\ bytes[m] >= Bound(m)
                   /\ received' = [received EXCEPT ![m] = "complete"]
                   /\ UNCHANGED <<sent, bytes>>

Next == \E m \in MsgIds : \/ PostSend(m) \/ PostRecv(m) \/ Receive(m)
                          \/ Stop(m) \/ CompleteSend(m) \/ CompleteRecv(m)

Spec == Init /\ [][Next]_vars
=============================================================================
