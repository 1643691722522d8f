\* A miner that has passed the check and a receiver that reconnects.
CONSTANTS
  Conns = {1, 2, 3, 4, 5}
  NoConn = NoConn
  MaxFds = 2
  Main = Main
  Receiver = Receiver
  Miners = {m1}
  Threads = {Main, Receiver, m1}
  NoMiner = NoMiner
  MaxQueue = 1
  MaxFaults = 1
  MaxOutages = 0
  PoolSends = {"CAPABILITIES", "MINING_AUTH_SUCCESS", "MINING_SUBSCRIBE_SUCCESS", "MINING_JOB"}
  MaxRetry = 0
  MaxMore = 1
  FindsNonce = TRUE
SPECIFICATION Spec
PROPERTY NoShareWhileReconnecting
\* A thread may wait for ever in recv(), and budgets run out.
CHECK_DEADLOCK FALSE
