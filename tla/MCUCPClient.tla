---------------------------- MODULE MCUCPClient ----------------------------
(* Instances of UCPClient for TLC. *)
EXTENDS UCPClient, TLC

\* Miners are interchangeable in the safety runs; connections are not, since
\* socket() takes the lowest free one.
MinerSymmetry == Permutations(Miners)
=============================================================================
