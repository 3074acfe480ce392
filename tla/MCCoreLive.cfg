CONSTANTS
  r1 = r1
  r2 = r2
  a1 = a1
  a2 = a2
  Reg = {r1, r2}
  Addr = {a1, a2}
  Programs <- Broad
  ROB_SIZE = 3
  LQ_SIZE = 4
  SQ_SIZE = 1
  WQ_SIZE = 1
  SCHEDULER_SIZE = 3
SPECIFICATION Spec
PROPERTY Retires
