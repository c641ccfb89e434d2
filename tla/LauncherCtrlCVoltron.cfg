SPECIFICATION Spec
CONSTANTS
    NumJobs = 1
    Voltron = {1}
    Runs = 1
    Interrupts = {"ctrl_c"}
    MaxInterrupts = 1
    DaemonFaults = FALSE
INVARIANTS
    RecordedContainersStopped
