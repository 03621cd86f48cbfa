CONSTANTS
  N = 4
  NumStreams = 1
  MaxFrag = 0
  SMP = TRUE
  Reopen = FALSE
SPECIFICATION Spec
INVARIANT HwQueueIsLive
