------------------------------ MODULE MCTunnel ------------------------------
(* Tunnel on small instances.                                              *)
EXTENDS Tunnel, TLC

(* Requests are alike: they get their stream ids in the order they come.   *)
RequestSymmetry == Permutations(Requests)
=============================================================================
