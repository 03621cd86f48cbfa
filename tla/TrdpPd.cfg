CONSTANTS
  CntMod = 3
  Modulus = 3
  Data = {0, 1}
  MaxGap = 1
  Timeout = 4
  RecvPoll = 2
  Options = {TRUE, FALSE}
  NetDelay = 0
  NetCap = 1
  RxCap = 1
  Reorder = FALSE
  Pulling = FALSE
SPECIFICATION Spec
INVARIANTS TimeoutExact DataIsFresh SilenceIsReported
PROPERTY MissedIsExact
