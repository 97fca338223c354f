\* A run that is expected to fail: no faults at all, one oversized record.
CONSTANTS
    DataStart = 4
    PageBytes = 24
    SlotBytes = 4
    MaxOffset = 32
    MaxPages = 2
    Corrupt = Corrupt
    short = short
    long = long
    wide = wide
    huge = huge
    Records = {short, wide}
    Size <- MCSize
    Faults = {}
SPECIFICATION Spec
INVARIANT EveryPageIsSlotted
