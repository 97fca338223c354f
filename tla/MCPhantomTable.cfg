\* A run that is expected to fail: one write that fails.
CONSTANTS
    TableNames = {s, t}
    IndexNames = {p}
    Columns = {1}
    Roots = {1, 2}
    MaxId = 4
    Keys = {k, l}
    MaxRows = 2
    MaxInUse = 4
    MaxFaults = 1
SYMMETRY AnyNames
SPECIFICATION Spec
INVARIANT Reopens
