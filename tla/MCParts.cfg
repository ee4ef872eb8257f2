SPECIFICATION Spec
CONSTANTS
  Parts = {"pt", "tlb", "alloc", "tty", "list", "boot", "signal", "rtc", "wire", "lwip", "netdev", "disk", "cfs", "select", "stdio", "printf", "string", "stdlib", "match", "calendar", "spin", "spin1", "abi", "context"}
  ENTRY_COUNT = 2
  PtArchs <- MCPtArchs
  PtFrames = {101, 102, 103, 104, 105}
  PtCalls = {"map", "map_region", "unmap", "unmap_region", "update", "drop"}
  PtFlags <- MCPtFlags
  MaxPtCalls = 3
  PtAddrs = {0, 3}
  Cpus = {1, 2}
  TlbPages = {1, 2}
  TlbFrames = {1}
  MaxFlushes = 2
  AL_PAGE_SIZE = 4
  MIN_HEAP_SIZE = 8
  SET_SIZE = 4
  BlkSizes = {1, 2, 4}
  AlStart = 3
  AlSize = 52
  AlKinds = {"slab", "buddy", "tlsf"}
  AlLayouts <- MCLayouts
  AlPages <- MCPages
  MaxAlCalls = 4
  TTY_BUF_SIZE = 4
  RX_BUFFER_SIZE = 3
  BUF_READER_SIZE = 2
  TtyModes <- MCTtyModes
  TtyReaders = {1, 2}
  TtyLens = {1, 2}
  Entries = {e1, e2, e3, e4}
  NoEntry = NoEntry
  Machines <- MCMachines
  Whichs = {0, 1}
  PERIOD = 2
  LATENCY = 2
  MaxTime = 6
  ItValues = {2}
  ItIntervals = {0, 4}
  MaxItimers = 2
  RtcStarts <- MCRtcStarts
  RtcTimes = {951782399, 1709164799, 2145916800}
  MaxTicks = 3
  MaxRtcCalls = 2
  RtcTicksInWrite = FALSE
  WireNums = {0, 7, 255, 1000, 70000}
  WireStrs <- MCWireStrs
  WireNames <- MCWireNames
  PSIZE = 40
  LwThreads = {"t1", "t2"}
  LwTcp = {"s1", "s2", "s3"}
  LwUdp = {"u1"}
  LwUses <- MCLwUses
  LwPorts = {1, 2}
  LwPeers <- MCLwPeers
  LwBufs = {1, 2, 3}
  RX_BUF_QUEUE_SIZE = 2
  TCP_MSS = 2
  PORT_START = 5
  PORT_END = 6
  LwSends = {3}
  LwReads = {2}
  LwListening = "s1"
  LwConnected = "s2"
  LwCalls = 3
  LwFrames = 2
  LwEvents = 4
  QS = 2
  NET_BUF_LEN = 4
  NdHdr = 1
  NdMtu = 3
  RECV_BATCH_SIZE = 2
  NdPackets = 2
  BLOCK_SIZE = 2
  DkHint = 15
  DkCluster = 4
  DkNames = {"a", "b"}
  DkPaths <- MCDkPaths
  DkOffsets = {0, 3}
  DkLens = {1, 6}
  DkCalls = 5
  CfsTasks = {k1, k2, k3}
  CfsIdle = CfsIdle
  CfsNices <- MCNices
  CfsHeld = 1
  CfsTicks = 3
  CfsCalls = 4
  BITS_PER_USIZE = 2
  FD_SETSIZE = 4
  SelSets <- MCSelSets
  SelNfds <- MCSelNfds
  SelTimes <- MCSelTimes
  SelChanges = 1
  SelClock = 1
  FILE_BUF_SIZE = 3
  StdThreads = {"p", "q"}
  StdTexts <- MCStdTexts
  StdModes <- MCStdModes
  StdData <- MCStdData
  StdItems <- MCStdItems
  StdLines = {1, 3, 5}
  StdFaults = 1
  StdCalls = 3
  CHAR_BITS = 3
  SHORT_BITS = 4
  INT_BITS = 6
  LONG_BITS = 8
  INTEGER_BUFFER_SIZE = 9
  DECIMAL_BUFFER_SIZE = 9
  MAX_SUPPORTED_PRECISION = 3
  DEFAULT_FLOAT_PRECISION = 2
  MAX_INTEGRAL_DIGITS = 2
  DBL_MAX_10_EXP = 6
  UINT_MAX = 1000
  MAX_BUFFER = 24
  PfSpecs <- MCPfSpecs
  PfSizes = {0, 4, 30}
  Haystacks <- MCHaystacks
  Needles <- MCNeedles
  Words <- MCWords
  Counts = {0, 1, 2, 4}
  Fills = {0, 1, 2, 3, 4, 5, 6, 7, 8, 9, 10, 11, 12, 13, 16}
  GROW = 2
  SL_BITS = 7
  SL_WORD = 4
  Numerals <- MCNumerals
  Bases = {0, 1, 10, 16}
  Arrays <- MCArrays
  FnTokens <- MCTokens
  MaxTokens = 3
  FnStrings <- MCStrings
  FnFlags = {{}, {"PERIOD"}, {"PATHNAME", "PERIOD"}, {"PATHNAME", "LEADING_DIR"}, {"CASEFOLD"}}
  GlobTrees <- MCTrees
  GlobPatterns <- MCGlobs
  GlobFlags = {{}, {"MARK"}, {"APPEND", "NOCHECK"}, {"ERR"}, {"NOSORT", "PERIOD"}}
  CAL_INT_MAX = 200
  CalDays <- MCDays
  CalSecs = {0, 43199, 86399}
  StrftimeDays <- MCStrftimeDays
  CalFormats <- MCFormats
  CalSizes = {0, 1, 3, 12}
  RATIO_BITS = 6
  RatioParts = {0, 1, 2, 3, 5, 7, 10, 24, 33, 62, 63}
  SpCpus = {1, 2}
  SpThreads = {"t1", "t2"}
  SpStart <- MCSpStart
  SpSmp = TRUE
  SpinNoIrq = {"timers"}
  SpinNoPreempt = {"driver"}
  SpinRaw = {"raw"}
  NoLock = NoLock
  SpTries = 1
  ABI_INT_MOD = 65536
  AbiThreads = {"t1", "t2"}
  AbiFeatures <- MCAbiFeatures
  AbiTables = {"riscv64", "aarch64", "x86_64"}
  AbiErrors = {"NotFound", "WouldBlock", "Unsupported"}
  AbiValues = {0, 7}
  AbiCalls = 2
  CtxBuilds <- MCCtxBuilds
  CtxThreads = {"t1", "t2"}
  CtxMain = "t1"
  JmpValues = {0, 5}
  CtxSteps = 7
INVARIANTS   ListIsSeq CpusShared     LocksExclude 
CHECK_DEADLOCK FALSE
