\* One runDeploy, any mode, signer and flags, the chains moving underneath.
SPECIFICATION FairSpec
CONSTANT MaxRegistryRetries = 3
INVARIANTS RowsTellTruth NothingLeftOpen
PROPERTIES ImplementsPublication DeployEnds
