----------------------------- MODULE MCResender -----------------------------
(***************************************************************************)
(* A worker (9) and a server (8) with two applications.  The requests of   *)
(* the two applications have the same timestamp; the server answers one.   *)
(***************************************************************************)
EXTENDS Resender

Msg(a, ts, from, to, req) ==
  [cmd |-> "DATA", app_id |-> a, timestamp |-> ts, sender |-> from, recver |-> to,
   request |-> req]

TwoApps == {Msg(0, 0, 9, 8, TRUE), Msg(1, 0, 9, 8, TRUE), Msg(0, 0, 8, 9, FALSE)}
=============================================================================
