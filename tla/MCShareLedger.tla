--------------------------- MODULE MCShareLedger ---------------------------
(* Instances of ShareLedger for TLC: the limit is small enough to be passed *)
(* more than once within the submissions allowed.                           *)
EXTENDS ShareLedger
=============================================================================
