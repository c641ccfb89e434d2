SPECIFICATION Spec
CONSTANTS
    NumJobs = 1
    Voltron = {}
    Runs = 1
    Interrupts = {"terminate"}
    MaxInterrupts = 1
    DaemonFaults = FALSE
INVARIANTS
    RecordedContainersStopped
