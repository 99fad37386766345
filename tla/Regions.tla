------------------------------ MODULE Regions ------------------------------
(***************************************************************************)
(* The region and architecture queries of a connection: GETREGIONINFO /   *)
(* VIRTUALQUERYEX and VIRTUALQUERYEXFULL (src/Client.cpp 590-664), which   *)
(* build MemoryRegion values from the backend's VAD map (src/Memory.h      *)
(* 41-84) and translate their protection and type (Client.cpp 666-740),   *)
(* and the answer of GETARCHITECTURE once the handle is known              *)
(* (Memory.cpp 209-244, Client.cpp 537-575).                              *)
(*                                                                         *)
(* The handle test these handlers share with the other table users is      *)
(* modelled in Connections; here the handle names an open process and the  *)
(* backend reports one of the VAD maps in Layouts, read afresh by every     *)
(* query.  Addresses are uint64 scaled to AddrBits bits, and         *)
(* MemoryRegion::regionSize, an int32_t, to SizeBits bits.  A name is a    *)
(* record of its origin and its length.                                    *)
(***************************************************************************)
EXTENDS Integers, Sequences

CONSTANTS
    AddrBits,      \* width of a target address (uint64)
    SizeBits,      \* width of MemoryRegion::regionSize (int32_t)
    NameCap,       \* the 127-byte cap of the GETREGIONINFO name
    Layouts,       \* VAD maps the backend may report for the process
    Addrs,         \* addresses a client asks about
    TpModels       \* tpMemoryModel values, and "fail" for a failed call

ASSUME /\ AddrBits \in Nat /\ SizeBits \in Nat /\ 1 < SizeBits /\ SizeBits <= AddrBits
       /\ NameCap \in Nat /\ Addrs \subseteq 0..(2^AddrBits - 1)

(* Windows constants, Client.h 37-51. *)
PAGE_READONLY == 2
PAGE_READWRITE == 4
PAGE_EXECUTE_READ == 32
PAGE_EXECUTE_READWRITE == 64
MEM_PRIVATE == 131072
MEM_MAPPED == 262144
MEM_IMAGE == 16777216

(* Two's-complement conversions: to a signed and an unsigned w-bit value.  *)
Signed(x, w) == LET m == x % 2^w IN IF m >= 2^(w - 1) THEN m - 2^w ELSE m
Unsigned(x, w) == x % 2^w

Bit(x, i) == (x \div 2^i) % 2 = 1

Placeholders == <<"<heap>", "<stack>", "<pagefile>", "<file>", "<image>", "<teb>">>

VARIABLES
    vads,      \* the target process's VAD map, as the backend reports it
    regions,   \* the module snapshot the last query was answered from
    request,   \* the last request
    reply      \* what was sent for it

vars == <<vads, regions, request, reply>>

-----------------------------------------------------------------------------
(* Variant of RegionSize without the + 1 of the inclusive vaEnd.          *)
RegionSizeExclusive(v) == Signed(v.vaEnd - v.vaStart, SizeBits)

(* MemoryRegion(VMMDLL_MAP_VADENTRY), Memory.h 41-84: regionSize is the    *)
(* uint64 difference stored in an int32_t, the name is uszText or else the *)
(* placeholder of the first flag set, in this priority.                    *)
RegionSize(v) == Signed(v.vaEnd - v.vaStart + 1, SizeBits)

RegionName(v) ==
    IF v.text > 0 THEN [from |-> "text", len |-> v.text]
    ELSE LET set == {i \in 1..Len(Placeholders) : Placeholders[i] \in v.flags}
             tag == IF set = {} THEN "<unknown>"
                    ELSE Placeholders[CHOOSE i \in set : \A j \in set : i <= j]
         IN [from |-> tag, len |-> Len(tag)]

(* vadProtectionToHumanReadable, Client.cpp 666-683: the six-character     *)
(* descriptor from vh = Protection >> 3 and vl = Protection & 7.  The      *)
(* cache character is cleared when no access character is set.            *)
HumanReadable(v) ==
    LET vh == v.Protection \div 8
        vl == v.Protection % 8
        s1 == IF Bit(vh, 1) THEN (IF Bit(vh, 0) THEN "m" ELSE "g")
              ELSE (IF Bit(vh, 0) THEN "n" ELSE "-")
        s2 == IF vl \in {1, 3, 4, 6} THEN "r" ELSE "-"
        s3 == IF Bit(vl, 2) THEN "w" ELSE "-"
        s4 == IF Bit(vl, 1) THEN "x" ELSE "-"
        s5 == IF vl \in {5, 7} THEN "c" ELSE "-"
        cleared == s2 = "-" /\ s3 = "-" /\ s4 = "-" /\ s5 = "-"
    IN <<IF v.fPrivateMemory THEN "p" ELSE "-",
         IF cleared THEN "-" ELSE s1, s2, s3, s4, s5>>

(* Variant of Win32Protection that takes the r character for the w one.   *)
Win32ProtectionReadAsWrite(v) ==
    LET s == HumanReadable(v)
    IN IF s[5] = "x" THEN (IF s[3] = "r" THEN PAGE_EXECUTE_READWRITE ELSE PAGE_EXECUTE_READ)
       ELSE IF s[3] = "r" THEN PAGE_READWRITE ELSE PAGE_READONLY

(* vadProtectionToWin32Protection, Client.cpp 685-722: only the w and x    *)
(* characters are used.                                                    *)
Win32Protection(v) ==
    LET s == HumanReadable(v)
    IN IF s[5] = "x" THEN (IF s[4] = "w" THEN PAGE_EXECUTE_READWRITE ELSE PAGE_EXECUTE_READ)
       ELSE IF s[4] = "w" THEN PAGE_READWRITE ELSE PAGE_READONLY

(* vadTypeToWin32Type, Client.cpp 724-740. *)
Win32Type(v) ==
    IF v.fPrivateMemory THEN MEM_PRIVATE
    ELSE IF v.VadType = 2 THEN MEM_IMAGE ELSE MEM_MAPPED

(* A CeVirtualQueryExOutput / CeRegionInfo record, Client.cpp 742-798: the *)
(* int32 regionSize is sign-extended into the uint64 size field.           *)
QueryRecord(v) ==
    [result |-> 1, protection |-> Win32Protection(v), type |-> Win32Type(v),
     base |-> v.vaStart, size |-> Unsigned(RegionSize(v), AddrBits)]

NullRecord == [result |-> 0, protection |-> 0, type |-> 0, base |-> 0, size |-> 0]

(* The first region with vaStart <= address <= vaEnd, or 0 for none.       *)
FirstContaining(rs, a) ==
    LET set == {i \in 1..Len(rs) : rs[i].vaStart <= a /\ a <= rs[i].vaEnd}
    IN IF set = {} THEN 0 ELSE CHOOSE i \in set : \A j \in set : i <= j

(* Variant of MemoryModelOf with the ARM64 and X64 case labels swapped.    *)
MemoryModelOfSwapped(tp) ==
    CASE tp = "NA"     -> "NA"
      [] tp = "X86PAE" -> "X86PAE"
      [] tp = "ARM64"  -> "X64"
      [] tp = "X64"    -> "ARM64"
      [] tp = "X86"    -> "X86"
      [] OTHER         -> "UNKNOWN"

(* Memory::getMemoryModel, Memory.cpp 209-244: a failed call and an        *)
(* unknown tpMemoryModel both give UNKNOWN.                                *)
MemoryModelOf(tp) ==
    CASE tp = "NA"     -> "NA"
      [] tp = "X86PAE" -> "X86PAE"
      [] tp = "ARM64"  -> "ARM64"
      [] tp = "X64"    -> "X64"
      [] tp = "X86"    -> "X86"
      [] OTHER         -> "UNKNOWN"

(* getArchitectureFromMemoryModel, Client.cpp 550-575: -1 in an unsigned   *)
(* char is 255.                                                            *)
ArchitectureOf(model) ==
    CASE model \in {"X86", "X86PAE"} -> 0
      [] model = "X64"               -> 1
      [] model = "ARM64"             -> 3
      [] OTHER                       -> Unsigned(-1, 8)

(* Variant of TruncatedLen that keeps NameCap + 1 bytes.                   *)
TruncatedLenPastCap(v) == IF RegionName(v).len < NameCap + 1 THEN RegionName(v).len ELSE NameCap + 1

(* The name GETREGIONINFO sends, Client.cpp 622-632: at most NameCap bytes *)
(* of the region's name, after a one-byte length.                          *)
TruncatedLen(v) == IF RegionName(v).len < NameCap THEN RegionName(v).len ELSE NameCap

-----------------------------------------------------------------------------
Init ==
    /\ vads \in Layouts
    /\ regions = <<>>
    /\ request = [cmd |-> "none"]
    /\ reply = <<>>

(* handleCommandGetRegionInfo, Client.cpp 590-637, for VIRTUALQUERYEX and  *)
(* GETREGIONINFO.  An address <= 0 is answered with the null record and    *)
(* the handler returns at once.  Otherwise the module snapshot is taken    *)
(* afresh, the first region containing the address is answered, and        *)
(* GETREGIONINFO adds the truncated name (empty when none was found).       *)
GetRegionInfo(cmd, a) ==
    /\ UNCHANGED vads
    /\ request' = [cmd |-> cmd, addr |-> a]
    /\ \/ /\ a <= 0
          /\ regions' = <<>>
          /\ reply' = <<[frame |-> "query", rec |-> NullRecord]>>
       \/ /\ a > 0
          /\ LET rs == vads
                   i == FirstContaining(rs, a)
                   rec == IF i = 0 THEN NullRecord ELSE QueryRecord(rs[i])
                   name == IF i = 0 THEN 0 ELSE TruncatedLen(rs[i])
               IN /\ regions' = rs
                  /\ reply' = <<[frame |-> "query", rec |-> rec]>>
                              \o (IF cmd = "GETREGIONINFO"
                                  THEN <<[frame |-> "name", len |-> name]>>
                                  ELSE <<>>)

(* Variant of VirtualQueryExFull whose records stop one short of the count. *)
VirtualQueryExFullShort ==
    /\ request' = [cmd |-> "VIRTUALQUERYEXFULL"]
    /\ UNCHANGED vads
    /\ regions' = vads
    /\ reply' = <<[frame |-> "count", n |-> Len(vads)]>>
                \o [i \in 1..(Len(vads) - 1) |-> [frame |-> "full", rec |-> QueryRecord(vads[i])]]

(* handleCommandVirtualQueryExFull, Client.cpp 639-664: the region count,  *)
(* then one record per region of a fresh snapshot; the flags are unused.   *)
VirtualQueryExFull ==
    /\ request' = [cmd |-> "VIRTUALQUERYEXFULL"]
    /\ UNCHANGED vads
    /\ regions' = vads
    /\ reply' = <<[frame |-> "count", n |-> Len(vads)]>>
                \o [i \in 1..Len(vads) |-> [frame |-> "full", rec |-> QueryRecord(vads[i])]]

(* handleCommandGetArchitecture after the handle test, Client.cpp 537-547: *)
(* the memory model of the process, then its architecture byte.            *)
GetArchitecture(tp) ==
    /\ request' = [cmd |-> "GETARCHITECTURE", tp |-> tp]
    /\ reply' = <<[frame |-> "arch", arch |-> ArchitectureOf(MemoryModelOf(tp))]>>
    /\ UNCHANGED <<vads, regions>>

Next ==
    \/ \E cmd \in {"VIRTUALQUERYEX", "GETREGIONINFO"}, a \in Addrs : GetRegionInfo(cmd, a)
    \/ VirtualQueryExFull
    \/ \E tp \in TpModels : GetArchitecture(tp)

Spec == Init /\ [][Next]_vars

-----------------------------------------------------------------------------
Frames ==
    [frame : {"query", "full"}, rec : [result : {0, 1}, protection : Nat, type : Nat,
                                         base : Nat, size : Nat]]
    \cup [frame : {"name"}, len : 0..NameCap]
    \cup [frame : {"count"}, n : Nat]
    \cup [frame : {"arch"}, arch : 0..255]

VadEntries ==
    [vaStart : Nat, vaEnd : Nat, Protection : 0..31, fPrivateMemory : BOOLEAN,
     VadType : Nat, text : Nat, flags : SUBSET {Placeholders[i] : i \in 1..Len(Placeholders)}]

TypeOK ==
    /\ vads \in Seq(VadEntries)
    /\ regions \in Seq(VadEntries)
    /\ reply \in Seq(Frames)

(* The Windows memory manager's meaning of the low three protection bits   *)
(* (MM_READONLY .. MM_EXECUTE_WRITECOPY): the reference the translation is  *)
(* checked against.                                                         *)
MmWritable(v) == v.Protection % 8 \in {4, 5, 6, 7}
MmExecutable(v) == v.Protection % 8 \in {2, 3, 6, 7}

Described(r, v) ==
    /\ r.base = v.vaStart
    /\ r.protection \in {PAGE_READWRITE, PAGE_EXECUTE_READWRITE} <=> MmWritable(v)
    /\ r.protection \in {PAGE_EXECUTE_READ, PAGE_EXECUTE_READWRITE} <=> MmExecutable(v)
    /\ r.type = IF v.fPrivateMemory THEN MEM_PRIVATE
                ELSE IF v.VadType = 2 THEN MEM_IMAGE ELSE MEM_MAPPED

Contains(v, a) == v.vaStart <= a /\ a <= v.vaEnd

(* VIRTUALQUERYEX/GETREGIONINFO answer result 1 exactly when a region of   *)
(* the fresh snapshot contains a non-zero address, and then describe the   *)
(* lowest such region: its base, a protection as writable and executable   *)
(* as the VAD's, and its type (handleCommandGetRegionInfo with the         *)
(* descriptor-based vadProtectionToWin32Protection).                        *)
ReplyDescribesContainingRegion ==
    request.cmd \in {"VIRTUALQUERYEX", "GETREGIONINFO"} =>
        LET r == reply[1].rec
            hits == {i \in 1..Len(regions) : Contains(regions[i], request.addr)}
        IN /\ (r.result = 1) <=> (request.addr > 0 /\ hits # {})
           /\ r.result = 1 =>
                \E i \in hits : /\ \A j \in hits : i <= j
                                /\ Described(r, regions[i])

(* Every region record sent, by VIRTUALQUERYEX, GETREGIONINFO or            *)
(* VIRTUALQUERYEXFULL, spans exactly its VAD: base + size - 1 is vaEnd      *)
(* (MemoryRegion's int32_t regionSize, sent in the uint64 size field).      *)
ReportedRangeIsRegion ==
    \A k \in 1..Len(reply) :
        reply[k].frame \in {"query", "full"} /\ reply[k].rec.result = 1 =>
            \E v \in {regions[i] : i \in 1..Len(regions)} :
                /\ v.vaStart = reply[k].rec.base
                /\ reply[k].rec.base + reply[k].rec.size - 1 = v.vaEnd

(* VIRTUALQUERYEXFULL sends the count of the snapshot's regions and then   *)
(* one record for each, in order.                                          *)
FullListsSnapshot ==
    request.cmd = "VIRTUALQUERYEXFULL" =>
        /\ reply[1] = [frame |-> "count", n |-> Len(regions)]
        /\ Len(reply) = Len(regions) + 1
        /\ \A i \in 1..Len(regions) : Described(reply[i + 1].rec, regions[i])

(* The GETARCHITECTURE byte names the target's instruction set as Cheat    *)
(* Engine numbers them: 0 for a 32-bit x86 target (with or without PAE), 1 *)
(* for x64, 3 for ARM64 and 255 when MemProcFS cannot tell, going through  *)
(* Memory::getMemoryModel and getArchitectureFromMemoryModel.             *)
ArchitectureOfTarget ==
    request.cmd = "GETARCHITECTURE" =>
        reply[1].arch = CASE request.tp \in {"X86", "X86PAE"} -> 0
                          [] request.tp = "X64"               -> 1
                          [] request.tp = "ARM64"             -> 3
                          [] OTHER                            -> 255

=============================================================================
