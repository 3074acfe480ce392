CONSTANTS
  lineA = lineA
  lineB = lineB
  IFETCH_SIZE = 2
  DECODE_SIZE = 2
  ROB_SIZE = 2
  STA_SIZE = 6
  FETCH_WIDTH = 2
  DECODE_WIDTH = 2
  DECODE_LATENCY = 1
  BRANCH_MISPREDICT_PENALTY = 1
  L1I_SIZE = 1
  Traced <- Mixed
  MaxRead = 3
SPECIFICATION Spec
INVARIANTS TypeOK ProgramOrder AnswerComing StallOwed
PROPERTIES AllRetire
