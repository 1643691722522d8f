------------------------------ MODULE MCCards ------------------------------
(* A small instance of SerialLink for TLC. *)
EXTENDS SerialLink
MCLists == {<<3>>, <<12, 3>>}
MCDosLists == {<<NotCom, 3, 12, 3>>, <<12, 103, 0, 3>>, <<12, 300>>}
\* Searching for the last run's header, and cut off in the middle of an answer.
Searching == [words |-> 0, due |-> 1, left |-> 0]
CutOff == [words |-> 1, due |-> 0, left |-> 2]
MCLeftovers == {[d \in Devices |-> IF d = 12 THEN CutOff ELSE Searching]}
=============================================================================
