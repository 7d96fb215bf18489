SPECIFICATION FairSpec
CONSTANTS
    Accounts = {a1, a2}
    MaxIdent = 3
    MaxCommands = 2
    DripAmount = 2
    DripCap = 2
INVARIANTS
    NoPoisonedPairing
    GrantsAreForThisAccount
    OnlyOrphansStayOpen
    SignedOutIsGone
    SetupUsesNewPairing
    DripBounded
CHECK_DEADLOCK FALSE
PROPERTY
    LoginReturns
