\* Three pages, each with room for two records of one mix or another, records
\* of four sizes, and every fault.
CONSTANTS
    DataStart = 4
    PageBytes = 24
    SlotBytes = 4
    MaxOffset = 32
    MaxPages = 3
    Corrupt = Corrupt
    short = short
    long = long
    wide = wide
    huge = huge
    Records = {short, long, wide, huge}
    Size <- MCSize
    Faults = {"read", "write", "tear", "crash"}
VIEW StateView
SPECIFICATION Spec
INVARIANTS
    SlotsIntact
    AckedRecordsKept
PROPERTIES
    RidsStable
    InsertAddsOneRow
