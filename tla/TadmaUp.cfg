CONSTANTS
  N = 4
  NumStreams = 2
  MaxFrag = 0
  SMP = FALSE
  Reopen = FALSE
SPECIFICATION FairSpec
PROPERTIES FetchedIsReclaimed StoppedIsWoken
