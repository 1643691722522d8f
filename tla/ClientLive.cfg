\* No device finds a nonce: the receiver alone reconnects, through two faults and an
\* outage of any length.  Three descriptors: two attempts may fail and leak.
CONSTANTS
  Conns = {1, 2, 3, 4, 5, 6}
  NoConn = NoConn
  MaxFds = 3
  Main = Main
  Receiver = Receiver
  Miners = {m1}
  Threads = {Main, Receiver, m1}
  NoMiner = NoMiner
  MaxQueue = 2
  MaxFaults = 2
  MaxOutages = 1
  PoolSends = {"CAPABILITIES", "MINING_AUTH_SUCCESS",
               "MINING_SUBSCRIBE_SUCCESS", "MINING_SUBSCRIBE_FAILURE", "MINING_JOB"}
  MaxRetry = 0
  MaxMore = 1
  FindsNonce = FALSE
SPECIFICATION FairSpec
PROPERTY OnlyLeaksStrandTheReceiver
PROPERTY ConstructorReturns
\* A thread may wait for ever in recv(), and budgets run out.
CHECK_DEADLOCK FALSE
