\* The receiver and two miners, every message and one fault.
CONSTANTS
  Conns = {1, 2, 3, 4, 5, 6}
  NoConn = NoConn
  MaxFds = 2
  Main = Main
  Receiver = Receiver
  Miners = {m1, m2}
  Threads = {Main, Receiver, m1, m2}
  NoMiner = NoMiner
  MaxQueue = 1
  MaxFaults = 1
  MaxOutages = 0
  PoolSends = {"CAPABILITIES", "MINING_AUTH_SUCCESS", "MINING_AUTH_FAILURE",
               "MINING_SUBSCRIBE_SUCCESS", "MINING_SUBSCRIBE_FAILURE",
               "MINING_JOB", "MALFORMED_MINING_JOB", "NOISE"}
  MaxRetry = 1
  MaxMore = 1
  FindsNonce = TRUE
SPECIFICATION Spec
SYMMETRY MinerSymmetry
INVARIANT TypeOK
INVARIANT ReconnectFlagHeldByReconnector
INVARIANT SubmitHoldsLock
INVARIANT QuiescentSubscribed
INVARIANT SetupSharedWithReceiverOnly
INVARIANT IInv
PROPERTY MisdirectedOnlyByRace
\* A thread may wait for ever in recv(), and budgets run out.
CHECK_DEADLOCK FALSE
