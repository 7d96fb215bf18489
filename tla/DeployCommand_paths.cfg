\* Every command line, every answer.
SPECIFICATION Spec
CONSTANT Flags <- AllFlags
INVARIANTS ContractsRebuild
    OwnerIsSigner TapsAnnounced
