CONSTANTS
  r1 = r1
  r2 = r2
  a1 = a1
  a2 = a2
  Reg = {r1, r2}
  Addr = {a1, a2}
  Programs <- Overtaken
  ROB_SIZE = 3
  LQ_SIZE = 4
  SQ_SIZE = 3
  WQ_SIZE = 2
  SCHEDULER_SIZE = 3
SPECIFICATION Spec
INVARIANT NoAssertFails
