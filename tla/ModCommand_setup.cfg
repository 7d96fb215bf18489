SPECIFICATION Spec
CONSTANTS
    b1 = b1
    b2 = b2
    Builds <- MCBuilds
    ModBuild <- MCModBuild
    MaxFaults = 1
    Catalogue <- MCCatalogue
    Late <- MCLate
    Batch = 2
    Kinds = {"login", "batch", "mod"}
    Machines <- MCMachines
    Projects <- MCProjects
    MaxRuns = 2
INVARIANTS
    NoConcurrentInstall
    EnsuredIsUsable
    CleanMachineReady
    BrowserComplete
    NeverClobbers
    ModOutcomes
CHECK_DEADLOCK FALSE
