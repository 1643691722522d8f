\* One outage, after which the pool is back for good; two descriptors.
CONSTANTS
  Conns = {1, 2, 3, 4, 5}
  NoConn = NoConn
  MaxFds = 2
  Main = Main
  Receiver = Receiver
  Miners = {m1}
  Threads = {Main, Receiver, m1}
  NoMiner = NoMiner
  MaxQueue = 1
  MaxFaults = 0
  MaxOutages = 1
  PoolSends = {"CAPABILITIES", "MINING_AUTH_SUCCESS", "MINING_SUBSCRIBE_SUCCESS", "MINING_JOB"}
  MaxRetry = 0
  MaxMore = 1
  FindsNonce = FALSE
SPECIFICATION FairSpec
PROPERTY OutageIsSurvived
\* A thread may wait for ever in recv(), and budgets run out.
CHECK_DEADLOCK FALSE
