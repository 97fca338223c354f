\* 3 page ids, 2 frames, 2 guards, every fault: more pages than frames, so that
\* eviction happens, and as many guards as frames, so that all can be pinned.
CONSTANTS
    MaxPages = 3
    FrameCount = 2
    Blank = Blank
    Corrupt = Corrupt
    Absent = Absent
    NoPage = NoPage
    NoFrame = NoFrame
    g1 = g1
    g2 = g2
    d1 = d1
    Guards = {g1, g2}
    Data = {Blank, d1}
    Faults = {"read", "write", "tear"}
SYMMETRY GuardSymmetry
VIEW StateView
SPECIFICATION Spec
INVARIANTS
    TypeOK
    BookkeepingExact
    GuardsKeepTheirPage
    NoLostUpdate
PROPERTIES
    NoInternalError
    CorruptionNeedsDamage
    ExhaustedNeedsPins
    FlushedMeansDurable
    ImplementsPageStore
