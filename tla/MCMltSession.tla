---------------------------- MODULE MCMltSession ----------------------------
(***************************************************************************)
(* Sessions of the test application: two processes with a window of meta   *)
(* messages (a gap of one fills the meta queue of one entry), three        *)
(* processes with the three barriers of the UDP test, and two processes    *)
(* that greet each other.                                                  *)
(***************************************************************************)
EXTENDS MltSession

Hello == {<<"connection", {0, 1}>>}
Sessions == Hello \cup {<<"rc_speed", {0, 1}>>, <<"udp_simple", {0, 1, 2}>>}
=============================================================================
