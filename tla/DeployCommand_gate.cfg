\* --yes without --signer.
SPECIFICATION Spec
CONSTANT Flags <- AllFlags
INVARIANTS GateAsksPublisher
