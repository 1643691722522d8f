\* Three jobs, two at a time on the wire, a device that reports once a header, either build.
CONSTANTS
  Miners = {m1}
  NoMiner = NoMiner
  Nonces = {n1}
  Exhausted = Exhausted
  Nothing = Nothing
  Repeats = 1
  MaxJobs = 3
  MaxWire = 2
  MaxSerial = 2
  MaxTime = 1
SPECIFICATION FairSpec
INVARIANT HandoffInv
INVARIANT SettledWork
INVARIANT MixedOnlyByOverlap
INVARIANT NonceOfItsRound
INVARIANT ExtraNonceOfItsJob
\* Other commands may displace every job there is, and no miner starts.
PROPERTY JobReachesDevice
PROPERTY JobsOnlyMoveOn
CHECK_DEADLOCK FALSE
