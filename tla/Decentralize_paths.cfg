\* Every command line and answer; three random names are tried.
SPECIFICATION DecentralizeFairSpec
CONSTANT MaxAttempts = 3
INVARIANTS OnlyMirrorRemoved
PROPERTY RunEnds
