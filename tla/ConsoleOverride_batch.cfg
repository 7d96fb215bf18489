\* A deploy-all batch whose signature requests may be re-sent while one is pending.
SPECIFICATION ConsoleSpec
CONSTANTS
    a1 = a1  a2 = a2  a3 = a3
    Apps <- Batch
    MaxSignatures = 2
INVARIANTS RestoresNest
SYMMETRY AppSymmetry
