CONSTANTS
  x1 = x1
  x2 = x2
  x3 = x3
  b1 = b1
  b2 = b2
  Addr = {x1, x2, x3}
  Bank = {b1, b2}
  NoAddr = NoAddr
  NoRow = NoRow
  BankOf <- MCBankOf
  RowOf <- MCRowOf
  SIZE <- Sizes
  HIGH_WM = 3
  LOW_WM = 2
  tRP = 1
  tRCD = 1
  tCAS = 2
  RETURN_TIME = 2
  TURN_AROUND = 3
  MaxCycle = 36
  LastArrival = 4
  MaxAge = 1
SPECIFICATION Spec
INVARIANTS TypeOK BanksAgree NextFresh Answered ServedInTime
PROPERTY BusSeparated
