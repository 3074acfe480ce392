SPECIFICATION Spec
CONSTANTS
  NOFFSETS = 2
  OFFSET <- Offsets
  DEFAULT_OFFSET = 1
  SCORE_MAX = 2
  ROUND_MAX = 3
  LOW_SCORE = 1
  BAD_SCORE = 0
  TIME = 5
  LLC_RATE_MAX = 5
  GAUGE_MAX = 3
  BANDWIDTH = 2
  MSHR_THRESHOLD_MIN = 1
  MSHR_THRESHOLD_MAX = 3
  L2C_MSHR_SIZE = 3
  NUM_WAY = 4
  Line = {1, 2}
  Slot = {0, 1}
  TagOf <- Tags
  LeftOf <- Lefts
  RightOf <- Rights
  DELAYQSIZE = 2
  DELAY = 3
  SIZE = 3
  Address = {a1, a2, a3, a4}
  Id = {x, y}
  NoAddress = NoAddress
  NoId = NoId
INVARIANTS TypeOK TraceFaithful NearestProducer LearningSound DelayRing VictimOldest ScanIsLive
PROPERTIES ImplementsSets LoopsEnd ImplementsFifo
CHECK_DEADLOCK FALSE
