\* Two reconnections among six shares, limit three.
CONSTANTS
  AckLimit = 3
  MaxSubmits = 6
  MaxResets = 2
SPECIFICATION Spec
INVARIANT TypeOK
INVARIANT SentNeverFarAhead
INVARIANT AnswersWereSent
PROPERTY ExitMeansSilence
INVARIANT SilenceIsNoticed
\* The program exits, or its submissions are used up.
CHECK_DEADLOCK FALSE
