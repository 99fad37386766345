\* Violation run: the legacy GETARCHITECTURE path takes getProcessHandleLegacyCE(),
\* which returns a pid, as a handle.
CONSTANTS
    Conns = {c1, c2}
    Pids <- MC_Pids
    SnapLens <- MC_SnapLens
    HandleBits = 2
    Kinds <- MC_ProcessKind
    Missing = Missing
SPECIFICATION Spec
INVARIANT LegacyFallbackIsOpenHandle
