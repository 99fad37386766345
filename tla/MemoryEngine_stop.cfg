\* Violation run: ~Memory's shutdown sets bStop and notifies without mtx;
\* a dispatch thread that has just found the wait predicate false misses
\* the notify, blocks for good, and the join never returns.
CONSTANTS
    Threads = {t1}
    Pids <- MC_OnePid
    Addrs <- MC_Addrs
    Sizes <- MC_Sizes
    MaxBytes = 4
    MaxDispatch = 2
    ScatterThreshold = 1
    MaxItems = 1
    MaxWrites = 1
    NoThread = NoThread
    NoResult = NoResult
    Garbage = Garbage
SPECIFICATION Spec
PROPERTY ShutdownCompletes
CHECK_DEADLOCK FALSE
