CONSTANTS
  d1 = d1
  d2 = d2
  i1 = i1
  w1 = w1
  Caches <- All
  WAYS <- OneWay
  RQ_SIZE <- Twos
  WQ_SIZE <- Ones
  PQ_SIZE <- Ones
  MSHR_SIZE <- Mshrs
  PROCESSED_SIZE = 4
  DRAM_RQ_SIZE = 1
  DRAM_WQ_SIZE = 1
  LLC_BYPASS = TRUE
  Addr = {i1, d1, d2}
  CodeAddr = {i1}
  DataAddr = {d1, d2}
  Word = {w1}
  MaxDemand = 1
  MaxStore = 1
  MaxPrefetch = 1
  MaxIssued = 3
SPECIFICATION FairSpec
PROPERTIES Served Drains
