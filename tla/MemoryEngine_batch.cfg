\* Batch assembly under load: three callers of one pid and three addresses,
\* so that the MAX_DISPATCH_SIZE cap (2 here) cuts a batch of size-1 items
\* short, scatter batches of two run, and an item of the budget's size (4)
\* makes the selection loop break at once and dispatch an empty batch.
CONSTANTS
    Threads = {t1, t2, t3}
    Pids <- MC_OnePid
    Addrs <- MC_ThreeAddrs
    Sizes <- MC_SizesAtBudget
    MaxBytes = 4
    MaxDispatch = 2
    ScatterThreshold = 1
    MaxItems = 3
    MaxWrites = 0
    NoThread = NoThread
    NoResult = NoResult
    Garbage = Garbage
SPECIFICATION Spec
INVARIANT OneAccessPerItem
INVARIANT BatchWithinBounds
SYMMETRY ThreadSymmetry
CHECK_DEADLOCK FALSE
