CONSTANTS
  r1 = r1
  r2 = r2
  a1 = a1
  a2 = a2
  Reg = {r1, r2}
  Addr = {a1, a2}
  Programs <- HoldAndWait
  ROB_SIZE = 4
  LQ_SIZE = 1
  SQ_SIZE = 1
  WQ_SIZE = 1
  SCHEDULER_SIZE = 4
SPECIFICATION Spec
PROPERTY Retires
CHECK_DEADLOCK FALSE
