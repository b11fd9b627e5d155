--------------------------- MODULE MCSignalServer ---------------------------
(* SignalServer on small instances.                                        *)
EXTENDS SignalServer, TLC

(* Connections are alike, and so are rooms.                                *)
SignalSymmetry == Permutations(Clients) \cup Permutations(Rooms)
=============================================================================
