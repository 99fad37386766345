\* Two connections sharing the table; 2-bit handles (counter 0..1) so that
\* the counter wraps and handles are reused.
CONSTANTS
    Conns = {c1, c2}
    Pids <- MC_Pids
    SnapLens <- MC_SnapLens
    HandleBits = 2
    Kinds <- MC_ProcessKind
    Missing = Missing
SPECIFICATION Spec
INVARIANT TypeOK
INVARIANT CursorWithinSnapshot
INVARIANT PointerStableUntilClose
SYMMETRY ConnSymmetry
INVARIANT FirstAnswersFirstEntry
