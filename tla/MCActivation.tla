--------------------------- MODULE MCActivation ---------------------------
(* Small instances of Activation for TLC.                                   *)
EXTENDS Activation

MCSession == {1, 2}
MCClosure == {"installed", "first", "second"}
MCCandidate == [s \in MCSession |-> IF s = 1 THEN "first" ELSE "second"]
=============================================================================
