\* A VAD of 2^(SizeBits-1) bytes, the scaled counterpart of a region of 2 GiB
\* or more: the record sent for it.
CONSTANTS
    AddrBits = 4
    SizeBits = 3
    NameCap <- MC_NameCap
    Layouts <- MC_LargeLayouts
    Addrs <- MC_NonZeroAddrs
    TpModels <- MC_TpModels
SPECIFICATION Spec
INVARIANT ReportedRangeIsRegion
