SPECIFICATION Spec
CONSTANTS
  MdSessions = 1
  MdReplyTo = 2
  MdConfTo = 1
  MdRetries = 1
  MdCopies = 1
  TcpCalls = 2
  TcpLen = 3
  TcpHdr = 2
  TcpConns = 2
  SeSessions = {"s1"}
  SeGroups = {g1, g2}
  SeSlots = 2
  SeMaxMc = 1
  SeElems = 2
  VmSize <- BlockSizes
  VmPre <- BlocksAtStart
  VmPreDefault <- BlocksByDefault
  VmPreMost = 2
  VmHead = 1
  VmArea = 9
  VmThreads = {"t1", "t2"}
  VqMax = 3
  VqSenders = {"s1", "s2"}
  VqReceivers = {"r1", "r2"}
  VqMsgs = 6
  VtBase = 4
  VtWord = 16
  VtInterval = 3
  VtExec = 4
  VtSecs = 4
  VtFactor = 4
  MaTop <- DataSets
  MaInner <- Nested
  MaComIds = {1, 2}
  MaKnown = {1}
  MaSeeds = {0, 1, 2}
  MaRooms = {8, 64}
  MaCuts = {1, 5}
  MaMaxLevel = 5
  DnUris = {1, 2, 3}
  DnHostFiles <- HostFiles
  DnMax = 2
  DnModes = {0, 1}
  DnCounts <- CountsAtStart
  DnFirst <- TrainAtStart
  DnTopos = {2}
  DnCalls = 3
  DnChanges = 2
  TtTrains <- Trains
  TtMax = 3
  TtCached = 2
  TtNone = "none"
  TtEvents = 2
  TtCalls = 2
INVARIANTS
  MdSound
  TcpSound
  SeSound
  VosSound
  MaRoundTrip
  DnRight
  TtSound
PROPERTY
  MdEnds
CHECK_DEADLOCK FALSE
