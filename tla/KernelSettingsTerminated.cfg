SPECIFICATION SettingsSpec
CONSTANTS
    Invocations = {i1}
    Signals = {"term"}
    ExecutorMayAbandon = FALSE
    AccessMayFail = FALSE
    RestoreMayFail = FALSE
INVARIANTS
    Restored
