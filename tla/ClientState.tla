---------------------------- MODULE ClientState ----------------------------
(***************************************************************************)
(* The Handle & Snapshot Table (src/ClientState.cpp): one instance,        *)
(* Server::sharedState, is used by every connection thread.  Every method  *)
(* holds ClientState::mtx for its whole body, so each is one atomic step   *)
(* here; a caller that makes several calls (Connections) can interleave    *)
(* with other callers between them.                                        *)
(*                                                                         *)
(* A snapshot (a vector of ProcessInfo or MemoryRegion) is abstracted to   *)
(* its length: an entry is named by its index.  The process and the module *)
(* maps, and their cursor maps, are the values of Kinds.    Handles are  *)
(* CE_HANDLE, a signed int, here of HandleBits bits so that the counter     *)
(* wrap is reachable.                                                      *)
(***************************************************************************)
EXTENDS Integers

CONSTANTS
    Pids,           \* process ids (integers: the legacy lookup mixes them with handles)
    SnapLens,       \* possible snapshot lengths
    HandleBits,     \* width of CE_HANDLE
    Kinds,          \* snapshot kinds: "process" (process maps), "module" (module maps)
    Missing         \* model value: key not in an unordered_map

ASSUME /\ HandleBits \in Nat /\ HandleBits >= 2
       /\ Pids \subseteq Int /\ SnapLens \subseteq Nat
       /\ Kinds \subseteq {"process", "module"} /\ Kinds # {}

\* INT_MAX of a HandleBits-bit int.
IntMax == 2^(HandleBits - 1) - 1

\* Handle values the table is used with: every counter value and -1, the
\* value GETARCHITECTURE starts from and the protocol's invalid handle.
Handles == -1..IntMax

VARIABLES
    lastHandleID,         \* ClientState::lastHandleID
    snapshots,            \* kind -> handle -> length, or Missing
    iters,                \* kind -> handle -> cursor (processIter / moduleIter)
    handlesToProcessIDs   \* handle -> pid, or Missing

tableVars == <<lastHandleID, snapshots, iters, handlesToProcessIDs>>

TableTypeOK ==
    /\ lastHandleID \in 0..IntMax
    /\ snapshots \in [Kinds -> [Handles -> SnapLens \cup {Missing}]]
    /\ iters \in [Kinds -> [Handles -> Nat \cup {Missing}]]
    /\ handlesToProcessIDs \in [Handles -> Pids \cup {Missing}]

TableInit ==
    /\ lastHandleID = 0
    /\ snapshots = [k \in Kinds |-> [h \in Handles |-> Missing]]
    /\ iters = [k \in Kinds |-> [h \in Handles |-> Missing]]
    /\ handlesToProcessIDs = [h \in Handles |-> Missing]

-----------------------------------------------------------------------------
(* generateHandle, lines 7-14: lastHandleID++ past INT_MAX is signed       *)
(* overflow; the build wraps it to INT_MIN, which the `< 0` test resets to *)
(* 0.  No test skips a handle that is still in use.                        *)
NextHandleID == IF lastHandleID = IntMax THEN 0 ELSE lastHandleID + 1

GenerateHandle ==
    /\ lastHandleID' = NextHandleID
    /\ UNCHANGED <<snapshots, iters, handlesToProcessIDs>>

(* Variant of StoreOpenProcess that records the handle in place of the pid. *)
StoreOpenProcessHandleAsPid(pid, h) ==
    /\ handlesToProcessIDs' = [handlesToProcessIDs EXCEPT ![h] = h]
    /\ UNCHANGED <<lastHandleID, snapshots, iters>>

(* storeOpenProcess(pid, handle), lines 20-26: operator[] overwrites.      *)
StoreOpenProcess(pid, h) ==
    /\ handlesToProcessIDs' = [handlesToProcessIDs EXCEPT ![h] = pid]
    /\ UNCHANGED <<lastHandleID, snapshots, iters>>

(* Variant of StoreTlHelp32Snapshot with operator[] in place of insert.    *)
StoreTlHelp32SnapshotOverwrite(k, len, h) ==
    /\ snapshots' = [snapshots EXCEPT ![k][h] = len]
    /\ iters' = [iters EXCEPT ![k][h] = 0]
    /\ UNCHANGED <<lastHandleID, handlesToProcessIDs>>

(* storeTlHelp32Snapshot(snapshot, handle), lines 32-52: insert keeps an    *)
(* existing snapshot under the handle, the cursor is reset regardless.     *)
StoreTlHelp32Snapshot(k, len, h) ==
    /\ snapshots' = IF snapshots[k][h] = Missing
                    THEN [snapshots EXCEPT ![k][h] = len]
                    ELSE snapshots
    /\ iters' = [iters EXCEPT ![k][h] = 0]
    /\ UNCHANGED <<lastHandleID, handlesToProcessIDs>>

(* closeHandle, lines 54-62: erase the handle from all five maps.          *)
CloseHandle(h) ==
    /\ snapshots' = [k \in Kinds |-> [snapshots[k] EXCEPT ![h] = Missing]]
    /\ iters' = [k \in Kinds |-> [iters[k] EXCEPT ![h] = Missing]]
    /\ handlesToProcessIDs' = [handlesToProcessIDs EXCEPT ![h] = Missing]
    /\ UNCHANGED lastHandleID

(* The cursor as operator[] reads it: a missing entry is created as 0.     *)
Cursor(k, h) == IF iters[k][h] = Missing THEN 0 ELSE iters[k][h]

(* nextProcessInfo / nextMemoryRegion, lines 64-86: nullptr for an unknown  *)
(* handle or a cursor at the end, else the entry at the cursor, which is   *)
(* advanced.  The result is the entry's index, or NoEntry.                 *)
NoEntry == -1

(* Variant of HasNext testing the cursor with <= in place of <.            *)
HasNextAtEnd(k, h) ==
    snapshots[k][h] # Missing /\ Cursor(k, h) <= snapshots[k][h]

HasNext(k, h) ==
    snapshots[k][h] # Missing /\ Cursor(k, h) < snapshots[k][h]

NextEntry(k, h) == IF HasNext(k, h) THEN Cursor(k, h) ELSE NoEntry

AdvanceCursor(k, h) ==
    /\ iters' = IF snapshots[k][h] = Missing THEN iters
                ELSE IF HasNext(k, h) THEN [iters EXCEPT ![k][h] = Cursor(k, h) + 1]
                ELSE [iters EXCEPT ![k][h] = Cursor(k, h)]
    /\ UNCHANGED <<lastHandleID, snapshots, handlesToProcessIDs>>

(* resetProcessIterator / resetModuleIterator, lines 88-98: operator[]      *)
(* creates the cursor even when the handle has no snapshot.                *)
ResetIterator(k, h) ==
    /\ iters' = [iters EXCEPT ![k][h] = 0]
    /\ UNCHANGED <<lastHandleID, snapshots, handlesToProcessIDs>>

(* containsProcessIDHandle, lines 128-132, and getProcessID, 100-104.  A   *)
(* handle outside Handles (a pid passed as a handle) is simply absent.     *)
ContainsProcessIDHandle(h) ==
    h \in Handles /\ handlesToProcessIDs[h] # Missing

GetProcessID(h) ==
    IF ContainsProcessIDHandle(h) THEN handlesToProcessIDs[h] ELSE -1

(* getProcessHandleLegacyCE, lines 106-114: -1 for an empty map, else the  *)
(* mapped value (a pid) of whichever entry begin() yields.                 *)
LegacyCandidates ==
    IF \A h \in Handles : handlesToProcessIDs[h] = Missing THEN {-1}
    ELSE {handlesToProcessIDs[h] : h \in {g \in Handles : handlesToProcessIDs[g] # Missing}}

(* containsProcessInfoHandle, containsMemoryRegionHandle, lines 116-126.   *)
ContainsSnapshot(k, h) == snapshots[k][h] # Missing

=============================================================================
