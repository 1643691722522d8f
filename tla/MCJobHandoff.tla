---------------------------- MODULE MCJobHandoff ----------------------------
(* The small instance of JobHandoff for TLC: Handoff.cfg has three jobs, one
   miner of either build, and a device that reports once per header. *)
EXTENDS JobHandoff
=============================================================================
