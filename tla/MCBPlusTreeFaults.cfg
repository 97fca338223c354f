\* Two calls broken off anywhere, and a file too short for the splits that follow.
CONSTANTS
    Keys = {1, 2, 3, 4}
    Rids = {10}
    MaxLeaf = 2
    MaxInternal = 2
    MaxPages = 7
    MaxFaults = 2
SPECIFICATION FairSpec
INVARIANTS
    ScanKeepsAcked
    DescentEnds
PROPERTIES
    ScanOnlyGrows
    InsertReturns
VIEW WithoutLast
