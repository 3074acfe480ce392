CONSTANTS
  Cpu <- OneCore
  CodePage <- Code
  DataPage <- Data
  Span = 8
  Frame <- DrawnFrames
  DRAM_PAGES = 3
  Runs <- RunLengths
SPECIFICATION Spec
INVARIANTS TypeOK MutuallyInverse TlbAgrees
PROPERTIES FramesStay
