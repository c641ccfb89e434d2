SPECIFICATION MCSpec
CONSTANTS
    NumJobs = 2
    Voltron = {1, 2}
    Runs = 2
    Interrupts = {"terminate"}
    MaxInterrupts = 1
    DaemonFaults = FALSE
    Invocations = {i1, i2, i3}
    Signals = {"term", "kill"}
    ExecutorMayAbandon = TRUE
    AccessMayFail = TRUE
    RestoreMayFail = TRUE
    Launchers = {l1, l2, l3}
    Snapshots = {"main", "image", "broken"}
    Images = {"image"}
    Truncated = {"broken"}
    InitialTrees = {{"dir", "ready"}, {"dir", "required", "other", "ready"}}
    Faults = {"fail", "kill"}
INVARIANTS
    RecordedContainersStopped
    SettingsHold
    MountedTreeIsWhole
PROPERTIES
    InterruptEnds
    EveryInvocationEnds
    ImplementsPublication
    EveryPreparationEnds
