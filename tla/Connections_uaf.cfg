\* Violation run: one connection's PROCESS32NEXT holds the pointer nextProcessInfo
\* returned while another connection's CLOSEHANDLE erases the snapshot.
CONSTANTS
    Conns = {c1, c2}
    Pids <- MC_Pids
    SnapLens <- MC_SnapLens
    HandleBits = 2
    Kinds <- MC_ProcessKind
    Missing = Missing
SPECIFICATION Spec
INVARIANT DerefOfLiveEntry
