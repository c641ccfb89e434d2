SPECIFICATION Spec
CONSTANTS
  MaxFile = 5
  Blocks <- MCBlocks
  BlockXL = 2
  TokenSizes = {1, 2}
  RegionSizes = {1, 2}
  RegionLevel = TRUE
  MaxRanges = 2
  MaxStack = 2
  StartScores = {1}
  ScoreLimit = 1
  StageRuns = 1
  SpliceCycles = 1
  MaxRuns = 2
  MaxSent = 2
  UserSeeds = {"u1", "u2"}
  Items = {"i1"}
  DoneCycles = 1
  FewPaths = 1
  SyncInterval = 2
  InitialPaths = 2
  MaxPaths = 3
  Instances = {"f1", "f2", "f3"}
  Cores = {0, 1}
  Pointers = {"p1", "p2", "p3", "p4"}
  Bucket <- SharedBucket
  Sizes = {0, 1, 3}
  MaxAlloc = 2
  ByteBits = 4
  ArithMax = 3
  Interesting <- Interest
  MinAutoExtra = 2
  MaxAutoExtra = 3
  EffScale = 2
  EffMinLen = 2
  EffMaxPerc = 90
  Dictionaries <- MCDictionaries
  DictLevel = 1
  Fold <- Lower
  FoundTokens <- MCFoundTokens
  MaxAutoExtras = 3
  UseAutoExtras = 2
  MaxDictFile = 4
  MaxHits = 1
  NodeCount = 6
  MaxMessages = 2
  MaxSeedRegions = 1
  Symbols = {"0", "a"}
  Zero = "0"
  MaxInput = 4
  Modes <- TminModes
  TrimSteps = 1
  SetSteps = 2
  SetMin = 2
  Objects = {"o1", "o2"}
  Located <- Trampolines
  MapSize = 4
  CountMod = 4
  Cell <- MCCell
  Shifted <- MCShifted
  MaxBlocks = 3
  MaxForks = 2
INVARIANTS
  InputsSound RangesInside TokensDistinct RunsAccounted SeedsSurviveKills CampaignEndsWell
  GrammarsSound ReportExact CoresNotShared  MinimalAndSame SplicesKeepContext
PROPERTIES RunEnds
CHECK_DEADLOCK FALSE
