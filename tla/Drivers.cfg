SPECIFICATION Spec
CONSTANTS
  AxN = 4
  AxFrags = 2
  AxSkbs = 3
  ArN = 2
  ArQuota = 2
  ArFrames = 4
  EpChanNum <- Channels
  EpTx = 2
  EpPorts = {"mac1"}
  EpBusy = {3, 4}
  EpFrames = 2
  AmGroups = {"g1", "g2"}
  AmCamNum = 1
  AmQueues = 2
  AmProbes = 2
  PxBuffers = 3
  PxFrames = 4
  PrBuffers = 3
  PrFrames = 5
  PcBase = 3
  PcWord = 4
  PcTimes = {0, 1, 2, 3, 4, 5, 6}
  PcSteps = 3
  QbTc = 2
  QbTick = 8
  QbTicks = 4
  QbEntries = 3
  QbLists <- GateLists
  QbSteps = 4
  TcWide = {"timer", "pid"}
  SwVlans = {1, 2}
  SwPorts = {"mac1", "ex"}
  SwCallers = {"bridge", "ioctl"}
  SwKeys <- BridgeKeys
  SwUserKeys <- UserKeys
  SwExEp = TRUE
  SwLearnHw = TRUE
  SwOps = 3
  FdOps = 3
  EmSmp = FALSE
  EmPong = TRUE
  EmLens = {47}
  EmSkbs = 3
  EmFrames = 2
  LtN = 4
  LtFrags = 2
  LtSkbs = 4
  LrN = 3
  LrFrames = 6
INVARIANTS
  RingsSound
  EpSound
  AmSound
  PxSound
  
CHECK_DEADLOCK FALSE
