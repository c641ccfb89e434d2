SPECIFICATION FairSpec
CONSTANTS
  MapSize = 2
  CounterRange = 8
  States = {0, 2, 5}
  Scores = {1}
  RoundRobinCycles = 1
  Results <- MCResults
  InitialSeeds <- MCSeeds
  StateMode = "favor"
  SeedMode = "favor"
  FewSeeds = 1
  FewPaths = 1
  TmoutLimit = 0
  StallThreshold = 1
  ChatThreshold = 1
  KeepHangs = 1
  KeepCrashes = 1
  SkipTimeouts = TRUE
  SkipCrashes = FALSE
INVARIANTS WinnersKeepTraces NotFuzzedCounted FavoredCoverMap MapAligned
PROPERTIES StopEnds
CHECK_DEADLOCK FALSE
