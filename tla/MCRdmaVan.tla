----------------------------- MODULE MCRdmaVan -----------------------------
(***************************************************************************)
(* A worker, on the server's host or on another one.  Its first round      *)
(* makes a rendezvous for each of the four kinds of message, the second    *)
(* uses their buffers again.  The simple request may come at any time, its *)
(* uninitialised key may be the one in use, and a connection may be        *)
(* rejected once.  The pools are so small that each of them runs dry: a    *)
(* push and a pull sent together are two rendezvous for one context of     *)
(* REPLY, and with the simple request they need three indices of two.      *)
(***************************************************************************)
EXTENDS RdmaVan
=============================================================================
