\* Passing run: deduplication, coherent and fresh results, batch bounds,
\* and termination of every read, with two caller threads.
CONSTANTS
    Threads = {t1, t2}
    Pids <- MC_Pids
    Addrs <- MC_Addrs
    Sizes <- MC_Sizes
    MaxBytes = 3
    MaxDispatch = 2
    ScatterThreshold = 1
    MaxItems = 2
    MaxWrites = 1
    NoThread = NoThread
    NoResult = NoResult
    Garbage = Garbage
SPECIFICATION Spec
INVARIANT TypeOK
INVARIANT OneAccessPerItem
INVARIANT CoherentWaiters
INVARIANT FreshRead
INVARIANT BatchWithinBounds
PROPERTY ReadCompletes
CHECK_DEADLOCK FALSE
