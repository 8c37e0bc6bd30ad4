-------------------------- MODULE MCPriorityChannel --------------------------
(***************************************************************************)
(* Two setups.  "Pacing": one connection and a message of three packets,   *)
(* at a rate that lets a packet pass every other tick.  "Churn": three     *)
(* connections, which come and go, and a short message to each of the      *)
(* first two, at a rate that never holds a packet back.                    *)
(***************************************************************************)
EXTENDS PriorityChannel

Pacing == [peers |-> <<1>>, dest |-> <<1>>, size |-> <<5>>,
           rate |-> 2, horizon |-> 5, removes |-> FALSE]
Churn == [peers |-> <<1, 2, 3>>, dest |-> <<1, 2>>, size |-> <<1, 1>>,
          rate |-> 50, horizon |-> 1, removes |-> TRUE]
TheSetups == {Pacing, Churn}
=============================================================================
