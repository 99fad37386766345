\* Violation run: the first caller of a sequentially read item can copy the
\* result out of the promise buffer after VMMDLL_MemFree released it.
CONSTANTS
    Threads = {t1}
    Pids <- MC_OnePid
    Addrs <- MC_Addrs
    Sizes <- MC_Sizes
    MaxBytes = 4
    MaxDispatch = 2
    ScatterThreshold = 1
    MaxItems = 1
    MaxWrites = 0
    NoThread = NoThread
    NoResult = NoResult
    Garbage = Garbage
SPECIFICATION Spec
PROPERTY ImplementsAbstractRead
CHECK_DEADLOCK FALSE
