CONSTANTS
  d1 = d1
  d2 = d2
  i1 = i1
  w1 = w1
  Caches <- Split
  WAYS <- OneWay
  RQ_SIZE <- Twos
  WQ_SIZE <- Ones
  PQ_SIZE <- Ones
  MSHR_SIZE <- Mshrs
  PROCESSED_SIZE = 2
  DRAM_RQ_SIZE = 1
  DRAM_WQ_SIZE = 1
  LLC_BYPASS = FALSE
  Addr = {d1}
  CodeAddr = {d1}
  DataAddr = {d1}
  Word = {w1}
  MaxDemand = 2
  MaxStore = 0
  MaxPrefetch = 1
  MaxIssued = 3
SPECIFICATION FairSpec
PROPERTY Served
CHECK_DEADLOCK FALSE
