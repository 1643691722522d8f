--------------------------- MODULE JobRegisters ----------------------------
(***************************************************************************)
(* What the miners may still take the fields of UCPClient for, although    *)
(* nothing keeps the receiver out while they copy them: a bank of          *)
(* registers that each only move on, to jobs the pool has issued, and of   *)
(* which every reader keeps copies.  Jobs are numbered as they are issued, *)
(* 0 is no job.                                                            *)
(***************************************************************************)
EXTENDS Naturals

CONSTANTS Readers, Cells

VARIABLES
  top,   \* jobs issued so far
  cell,  \* cell[c]: the job whose value register c holds
  seen   \* seen[r][c]: the job whose value reader r last copied from c

registers == <<top, cell, seen>>

Blank == [c \in Cells |-> 0]
RegInit == top = 0 /\ cell = Blank /\ seen = [r \in Readers |-> Blank]

NewJob == top' = top + 1 /\ UNCHANGED <<cell, seen>>

\* A register moves on, never back.
Advance(c) ==
  \E j \in cell[c] + 1 .. top :
    cell' = [cell EXCEPT ![c] = j] /\ UNCHANGED <<top, seen>>

Fetch(r, c) == seen' = [seen EXCEPT ![r][c] = cell[c]] /\ UNCHANGED <<top, cell>>

RegNext ==
  \/ NewJob
  \/ \E c \in Cells : Advance(c) \/ \E r \in Readers : Fetch(r, c)

RegSpec == RegInit /\ [][RegNext]_registers
=============================================================================
