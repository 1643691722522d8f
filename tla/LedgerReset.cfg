\* One reconnection, then a pool that stays silent.
CONSTANTS
  AckLimit = 2
  MaxSubmits = 7
  MaxResets = 1
SPECIFICATION Spec
INVARIANT SilenceIsNoticedAfterReset
\* The program exits, or its submissions are used up.
CHECK_DEADLOCK FALSE
