----------------------------- MODULE MCCluster -----------------------------
(***************************************************************************)
(* A scheduler, one server and one worker process with two customers, and  *)
(* a process that may be started in place of the server.                   *)
(***************************************************************************)
EXTENDS Cluster

FourProcs == <<"r", "s", "w", "h">>
FourRoles == [p \in Procs0 |-> CASE p = "h" -> Scheduler [] p = "w" -> Worker [] OTHER -> Server]
SharedWorker == [p \in Procs0 |-> IF p = "w" THEN {0, 1} ELSE {0}]
=============================================================================
