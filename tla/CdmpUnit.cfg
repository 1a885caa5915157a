SPECIFICATION UnitSpec
CHECK_DEADLOCK FALSE
CONSTANTS
  Type = {1, 2, 3}
  Data = {d1, d2}
  NoData = NoData
  Peer = {p}
  MaxLocal = 2
  Lag = 2
  Window = 3
  MaxResends = 2
  IdCount = 3
  Peers = {"p"}
  Broadcast = "all"
  TransactionTimeout = 2
  Codes = {"user", "service"}
  MaxAge = 1
  MaxTransactions = 4
  MaxClock = 3
  Loggers = {"a", "b"}
  SlotCount = 1
  MaxEvents = 2
INVARIANTS
  LocalTypeOK
  StampsCompareNewer
  LiveVersionsDistinct
  DigestCurrent
  TransactionsSafe

  
