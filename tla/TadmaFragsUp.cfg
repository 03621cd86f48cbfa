CONSTANTS
  N = 4
  NumStreams = 1
  MaxFrag = 2
  SMP = FALSE
  Reopen = FALSE
SPECIFICATION FairSpec
INVARIANT QueueIsSound
PROPERTY StoppedIsWoken
