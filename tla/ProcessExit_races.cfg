\* One command, two signals, every order of the exits.
SPECIFICATION FairSpec
CONSTANTS
    s1 = s1  s2 = s2
    Signals <- TwoSignals
INVARIANTS FailureReported OrderlyExitCleansUp
PROPERTIES ProcessEnds
