\* Statements, closing and opening without faults: two tables of two columns and
\* two rows, two indexes, roots that split once, ids given twice, and records too
\* large for a page.
CONSTANTS
    TableNames = {s, t}
    IndexNames = {p, q}
    Columns = {1, 2}
    Roots = {1, 2}
    MaxId = 3
    Keys = {k, l}
    MaxRows = 2
    MaxInUse = 4
    MaxFaults = 0
SYMMETRY AnyNames
SPECIFICATION Spec
INVARIANTS
    
    CatalogMatchesFiles
    Reopens
PROPERTY ImplementsRelations
