\* Seven keys in leaves of two and internal nodes of two separators: leaves,
\* internal nodes and the root all split, in every order of inserts.
CONSTANTS
    Keys = {1, 2, 3, 4, 5, 6, 7}
    Rids = {10}
    MaxLeaf = 2
    MaxInternal = 2
    MaxPages = 16
    MaxFaults = 0
SPECIFICATION Spec
INVARIANTS
    WellFormed
    SearchMatchesScan
PROPERTIES
    ImplementsUniqueIndex
