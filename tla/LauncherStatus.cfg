SPECIFICATION MCSpec
CONSTANTS
    NumJobs = 2
    Voltron = {2}
    Runs = 2
    Interrupts = {"ctrl_c"}
    MaxInterrupts = 1
    DaemonFaults = TRUE
    Launchers = {l1, l2}
    NumReplications = 2
    NumProfiles = 2
    MaxFaults = 2
    NumReplicas = 2
    Radix = 10
    MaxFailures = 2
INVARIANTS
    StatusTruthful
    HandlerLosesAtMostOne
    SharedFilesSound
    ResultsTruthful
