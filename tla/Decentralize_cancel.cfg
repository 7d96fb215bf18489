\* The same, for Ctrl+C at a prompt.
SPECIFICATION DecentralizeFairSpec
CONSTANT MaxAttempts = 3
PROPERTY CancelEnds
