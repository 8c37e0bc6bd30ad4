------------------------------ MODULE MCKvApp ------------------------------
(***************************************************************************)
(* One worker and two servers; with MaxKey = 4 their key ranges are        *)
(* [0, 2) and [2, 4): key 1 is the last of the first range, and key 2 the  *)
(* first of the second.                                                    *)
(***************************************************************************)
EXTENDS KvApp

TwoServers == <<8, 10>>
OneAppEach == {<<8, 0>>, <<10, 1>>}
OneOrBoth == {<<>>, <<1>>, <<1, 2>>}
=============================================================================
