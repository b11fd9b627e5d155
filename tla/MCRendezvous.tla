---------------------------- MODULE MCRendezvous ----------------------------
(* Rendezvous on small instances.                                          *)
EXTENDS Rendezvous, TLC

(* The processes are alike for what they do here.  Attempts are not: Dial  *)
(* takes the unused connections in a fixed order.                          *)
MeetSymmetry == Permutations(Processes)
=============================================================================
