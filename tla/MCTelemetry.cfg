CONSTANTS
    t1 = t1
    t2 = t2
    requests = requests
    errors = errors
    Threads = {t1, t2}
    NoThread = NoThread
    MetricNames = {requests, errors}
    NoName = NoName
    Amounts = {2, 3}
    Capacity = 2
    MaxWord = 4
SPECIFICATION FairSpec
INVARIANTS
    EventsInOrder
    SnapshotsConsistent
    NoIncrementLost
PROPERTY LocksReleased
