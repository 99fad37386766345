\* Region and architecture queries against VAD maps whose regions fit in
\* regionSize: the lookup, the protection and type translation, the
\* VIRTUALQUERYEXFULL list and the architecture byte.
CONSTANTS
    AddrBits = 4
    SizeBits = 3
    NameCap <- MC_NameCap
    Layouts <- MC_Layouts
    Addrs <- MC_Addrs
    TpModels <- MC_TpModels
SPECIFICATION Spec
INVARIANT TypeOK
INVARIANT ReplyDescribesContainingRegion
INVARIANT ReportedRangeIsRegion
INVARIANT FullListsSnapshot
INVARIANT ArchitectureOfTarget
