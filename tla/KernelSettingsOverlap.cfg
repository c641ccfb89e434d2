SPECIFICATION SettingsSpec
CONSTANTS
    Invocations = {i1, i2}
    Signals = {"term"}
    ExecutorMayAbandon = FALSE
    AccessMayFail = FALSE
    RestoreMayFail = FALSE
INVARIANTS
    RestoresAlone
