SPECIFICATION Spec
CONSTANTS
    l1 = l1
    l2 = l2
    Libs <- MCLibs
    Starts <- MCStarts
INVARIANTS
    RowsSettle
    FrontendSeesDeployed
    ReleasedUnlessRaced
PROPERTY PinsAgree
CHECK_DEADLOCK FALSE
