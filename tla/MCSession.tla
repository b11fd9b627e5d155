----------------------------- MODULE MCSession -----------------------------
(* A release newer than serve's with versions in common, one with none.    *)
EXTENDS Session

SomeRanges == {<<1, 3>>, <<3, 4>>}
=============================================================================
