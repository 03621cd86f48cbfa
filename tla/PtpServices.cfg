SPECIFICATION Spec
CONSTANTS
  XcPorts = 3
  XcSources = {"m"}
  XcSeqs = {1, 2}
  XcArrivals = 3
  XcModes = {"E2E", "P2P"}
  PhClocks <- Interfaces
  PhClockOf <- InterfaceOf
  PhPhc <- PhcOf
  PhRts = {"both"}
  PhChanges = 2
  MsTypes = {"MANAGEMENT", "FOLLOW_UP", "PDELAY_RESP"}
  MsBuilt <- TlvsBuilt
  MsArrive <- TlvsArriving
  MsMsgs = 2
  MsOps = 4
  MgClocks = 3
  MgClients = {"x", "y"}
  MgAsks <- Requests
  MgRequests = 2
  MgEvents = 1
  MgLife = 1
INVARIANTS
  XcSound
  PhSound
  MsSound
  MgAnswered
CHECK_DEADLOCK FALSE
