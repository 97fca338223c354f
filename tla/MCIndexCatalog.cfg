\* Versions of two indexes with records of different sizes over four pages;
\* the process may die inside an append and reads may fail.
CONSTANTS
    DataStart = 4
    PageBytes = 24
    SlotBytes = 4
    MaxOffset = 32
    MaxPages = 4
    Corrupt = Corrupt
    plain = plain
    longer = longer
    IndexIds = {plain, longer}
    Roots = {0, 1, 2, 3, 4}
    Records <- MCRecords
    Size <- MCSize
    Faults = {"read", "crash"}
VIEW StateView
SPECIFICATION CatalogSpec
INVARIANT LoadReturnsNewest
