\* The first job arrives too late, and the constructor tries again.
CONSTANTS
  Conns = {1, 2, 3, 4, 5}
  NoConn = NoConn
  MaxFds = 2
  Main = Main
  Receiver = Receiver
  Miners = {m1}
  Threads = {Main, Receiver, m1}
  NoMiner = NoMiner
  MaxQueue = 1
  MaxFaults = 0
  MaxOutages = 0
  PoolSends = {"CAPABILITIES", "MINING_AUTH_SUCCESS", "MINING_SUBSCRIBE_SUCCESS", "MINING_JOB"}
  MaxRetry = 1
  MaxMore = 1
  FindsNonce = TRUE
SPECIFICATION Spec
PROPERTY RetryDoesNotAbort
\* A thread may wait for ever in recv(), and budgets run out.
CHECK_DEADLOCK FALSE
