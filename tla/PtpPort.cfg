SPECIFICATION Spec
CONSTANTS
  PtPorts = 2
  PtMe = 5
  PtOwn <- OwnClocks
  PtAnnounces <- Announces
  PtKinds = {"ptp", "slave_only", "designated_master", "designated_slave"}
  PtP2p = FALSE
  PtJbod = FALSE
  PtAsap = FALSE
  PtFires = 2
  SyMasters = {1, 3}
  SyGm <- GrandMasters
  SyTime <- GrandMasterTimes
  SySyncs = 2
  SyReqs = 1
  SyWander = 1
  SyModes = {"filter"}
  SyStep = 6
  SyThreshold = 2
  SyNum = 1
  UcDuration = 2
  UcPeriods = {0, 1}
  UcEnd = 6
  UcLosses = 1
  UcOther = 1
  UcMechanisms = {"E2E", "P2P"}
  PpResponders = {"r1", "r2"}
  PpFar = {"r2"}
  PpOneStep = {"r2"}
  PpAllowed = 1
  PpMax = 1
  PpRequests = 2
  PpSteps = 1
  PpSyncs = 1
  PpKinds = {"as", "plain"}
  PpMechanisms = {"AUTO"}
INVARIANTS
  PtSound
  SySound
  UcSound
  PpSound
CHECK_DEADLOCK FALSE
