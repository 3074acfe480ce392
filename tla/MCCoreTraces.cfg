CONSTANTS
  r1 = r1
  r2 = r2
  a1 = a1
  a2 = a2
  Reg = {r1, r2}
  Addr = {a1, a2}
  Programs <- Traces
  ROB_SIZE = 4
  LQ_SIZE = 3
  SQ_SIZE = 2
  WQ_SIZE = 2
  SCHEDULER_SIZE = 4
SPECIFICATION Spec
INVARIANTS TypeOK OperandsReady WakeupsOwed OpsPlaced CountersAgree
PROPERTY ImplementsInOrder
