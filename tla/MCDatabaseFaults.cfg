\* Two faults anywhere, writes that fail or are torn and crashes, with two tables,
\* an index on each and two rows in all; ids are given twice, so that a failed
\* statement may be retried.
CONSTANTS
    TableNames = {s, t}
    IndexNames = {p, q}
    Columns = {1}
    Roots = {1, 2}
    MaxId = 3
    Keys = {k, l}
    MaxRows = 2
    MaxInUse = 2
    MaxFaults = 2
SYMMETRY AnyNames
SPECIFICATION Spec
INVARIANTS
    CatalogConsistent
    StorageAgrees
    AckedRowsKept
    AckedTablesOnly
