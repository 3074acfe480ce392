CONSTANTS
  d1 = d1
  d2 = d2
  i1 = i1
  w1 = w1
  Caches <- Split
  WAYS <- L1ITwo
  RQ_SIZE <- Twos
  WQ_SIZE <- Ones
  PQ_SIZE <- Pqs
  MSHR_SIZE <- Mshrs
  PROCESSED_SIZE = 4
  DRAM_RQ_SIZE = 1
  DRAM_WQ_SIZE = 1
  LLC_BYPASS = FALSE
  Addr = {i1, d1, d2}
  CodeAddr = {i1}
  DataAddr = {d1, d2}
  Word = {w1}
  MaxDemand = 2
  MaxStore = 2
  MaxPrefetch = 2
  MaxIssued = 4
SPECIFICATION Spec
INVARIANTS TypeOK NoAssert NoOrphan Conserved OneCopy
PROPERTY DirtyKept
SYMMETRY Symmetry
