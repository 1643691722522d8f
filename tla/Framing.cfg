\* Three commands of two lengths, two interruptions, up to three reads to a buffer.
CONSTANTS
  MaxMore = 1
  BufSize = 5
  Lengths = {2, 4}
  MaxSent = 3
  MaxBreaks = 2
SPECIFICATION FairSpec
INVARIANT FramingInv
PROPERTY CommandsInOrder
PROPERTY OnlyFollowersAreLost
PROPERTY QuietDelivery
\* The pool need not send, and the reader then waits for ever.
CHECK_DEADLOCK FALSE
