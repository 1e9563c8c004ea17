-------------------------- MODULE MCResultHandOff --------------------------
(***************************************************************************)
(* Three requests for TLC.  (No symmetry: WaitersAreServed is a liveness   *)
(* property.)                                                              *)
(***************************************************************************)
EXTENDS ResultHandOff

CONSTANTS c1, c2, c3

ThreeClients == {c1, c2, c3}
=============================================================================
