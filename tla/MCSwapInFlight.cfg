CONSTANTS
  Cpu <- OneCore
  CodePage <- CodeOnly
  DataPage <- DataOnly
  Span = 8
  Frame <- DrawnFrames
  DRAM_PAGES = 1
  Runs <- RunLengths
SPECIFICATION Spec
INVARIANTS TlbCoherent
