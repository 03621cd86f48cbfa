CONSTANTS
  CntMod = 2
  Modulus = 2
  Data = {0}
  MaxGap = 1
  Timeout = 1
  RecvPoll = 2
  Options = {FALSE}
  NetDelay = 0
  NetCap = 1
  RxCap = 1
  Reorder = FALSE
  Pulling = TRUE
SPECIFICATION Spec
INVARIANT PullKeepsPromises
