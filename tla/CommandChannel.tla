--------------------------- MODULE CommandChannel ---------------------------
(***************************************************************************)
(* What the rest of the miner may take the receive loop of UCPClient.h     *)
(* for: a channel of commands that loses some, and hands on the others in  *)
(* the order the pool sent them, each once.  Commands are numbered as they *)
(* are sent.                                                               *)
(***************************************************************************)
EXTENDS Naturals

VARIABLES
  sent,  \* commands sent so far
  next,  \* the first command that may still be handed on
  got    \* the last command handed on, 0 before the first

chanVars == <<sent, next, got>>

ChanInit == sent = 0 /\ next = 1 /\ got = 0

Transmit == sent' = sent + 1 /\ UNCHANGED <<next, got>>

\* Commands up to n - 1 are gone.
Lose ==
  \E n \in next + 1 .. sent + 1 : next' = n /\ UNCHANGED <<sent, got>>

\* Command m is handed on, and what was sent before it is gone.
HandOn ==
  \E m \in next..sent :
    /\ got' = m
    /\ \E n \in m + 1 .. sent + 1 : next' = n
    /\ UNCHANGED sent

ChanNext == Transmit \/ Lose \/ HandOn

ChanSpec == ChanInit /\ [][ChanNext]_chanVars
=============================================================================
