---------------------------- MODULE MCForwarding ----------------------------
(* Forwarding on small instances.                                          *)
EXTENDS Forwarding

(* An upstream without a path, with and without a slash, and one with.     *)
SomeUpstreams == {<<"host">>, <<"host", "/">>, <<"host", "/", "v">>}
=============================================================================
