\* Two threads at most, cards 3 and 12, tables of two ports, headers of two words and one
\* answer to each, whole or in halves.
CONSTANTS
  MaxGpus = 2
  Devices = {3, 12}
  Lists <- MCLists
  MaxPorts = 2
  Handles = {1, 2}
  DosLists <- MCDosLists
  HeaderWords = 2
  Repeats = 1
  Pieces = {2, 4}
  MaxUnread = 4
  Leftovers <- MCLeftovers
SPECIFICATION Spec
INVARIANT TypeOK
INVARIANT OwnCard
INVARIANT NoCardLeftOut
INVARIANT ListedCardsAreTried
INVARIANT NoncesAreWhole
INVARIANT HeadersAreWhole
INVARIANT WaitsForItsCard
\* Main may have ended.
CHECK_DEADLOCK FALSE
