\* Three apps, two of them signing as one phone session, two workers.
SPECIFICATION FairSpec
CONSTANTS
    k1 = k1  k2 = k2  session = session  slot = slot  alice = alice
    NoAccount = NoAccount
    NumApps = 3
    Requested = 2
    Keys <- TwoKeys
    SignerKey <- SplitKey
    Accounts <- SplitAccounts
    SignsWith <- SplitSignsWith
    SkipBuild <- SomeSkipBuild
    Publish = TRUE
    MaxTx = 1
INVARIANTS TypeOK NonceSafe GateFifo ExitCodeHonest
PROPERTIES ImplementsSerialSubmission BatchReturns
