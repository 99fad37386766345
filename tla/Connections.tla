---------------------------- MODULE Connections ----------------------------
(***************************************************************************)
(* The Connection Dispatcher (src/Client.cpp) of several connections, each *)
(* its own thread (Server::handleClientConnection), driving the one shared *)
(* handle table of ClientState.  A handler is the sequence of table calls  *)
(* it makes; each call is one step, so other connections run between      *)
(* them.  Reading the arguments and sending the reply touch no shared      *)
(* state and are folded into the neighbouring step.  A handler that       *)
(* returns false closes the connection; the Server then accepts a new one  *)
(* (Reconnect).  The Memory Access Engine is left abstract here: its calls *)
(* are the "use_mem" steps, where only the pid passed to it matters.       *)
(***************************************************************************)
EXTENDS ClientState

CONSTANT Conns      \* connection threads

VARIABLES
    cpc,        \* per connection: the step of the handler it is in
    op,         \* per connection: the command being handled
    hd,         \* per connection: the handle the handler works on
    knd,        \* per connection: snapshot kind (process or module)
    first,      \* per connection: PROCESS32FIRST / MODULE32FIRST
    val,        \* per connection: snapshot length, pid, or entry index
    ptrOk,      \* ghost: the entry pointer held has not been freed
    disturbed   \* ghost: between this FIRST's reset and its next, another
                \* connection's next advanced the same cursor

connVars == <<cpc, op, hd, knd, first, val, ptrOk, disturbed>>
vars == <<tableVars, connVars>>

Steps == {"idle", "snap_store", "open_store", "it_reset", "it_next",
          "it_deref", "use_get", "use_mem", "arch_legacy", "arch_check",
          "closed"}
Ops == {"none", "snapshot", "open", "iterate", "read", "write", "region", "arch", "arch_legacy"}

\* Handles for which getProcessID would answer: the open process handles.
OpenProcessHandles == {h \in Handles : ContainsProcessIDHandle(h)}

TypeOK ==
    /\ TableTypeOK
    /\ cpc \in [Conns -> Steps]
    /\ op \in [Conns -> Ops]
    /\ hd \in [Conns -> Handles \cup Pids]
    /\ knd \in [Conns -> Kinds]
    /\ first \in [Conns -> BOOLEAN]
    /\ val \in [Conns -> Int]
    /\ ptrOk \in [Conns -> BOOLEAN]
    /\ disturbed \in [Conns -> BOOLEAN]

(* c's handler returns to handleClientConnection at `step` ("idle": it    *)
(* returned true; "closed": false, the socket is closed and the thread     *)
(* ends); the handler's locals are gone.                                   *)
Finish(c, step) ==
    /\ cpc' = [cpc EXCEPT ![c] = step]
    /\ op' = [op EXCEPT ![c] = "none"]
    /\ hd' = [hd EXCEPT ![c] = -1]
    /\ knd' = [knd EXCEPT ![c] = "process"]
    /\ first' = [first EXCEPT ![c] = FALSE]
    /\ val' = [val EXCEPT ![c] = 0]
    /\ ptrOk' = [ptrOk EXCEPT ![c] = FALSE]
    /\ disturbed' = [disturbed EXCEPT ![c] = FALSE]

Init ==
    /\ TableInit
    /\ cpc = [c \in Conns |-> "idle"]
    /\ op = [c \in Conns |-> "none"]
    /\ hd = [c \in Conns |-> -1]
    /\ knd = [c \in Conns |-> "process"]
    /\ first = [c \in Conns |-> FALSE]
    /\ val = [c \in Conns |-> 0]
    /\ ptrOk = [c \in Conns |-> FALSE]
    /\ disturbed = [c \in Conns |-> FALSE]

Done(c) == Finish(c, "idle")

Drop(c) == Finish(c, "closed")

-----------------------------------------------------------------------------
(* handleCommandToolHelp32Snapshot (SNAPPROCESS, SNAPMODULE) and the       *)
(* process fallback of handleCommandToolHelp32SnapshotEx: the backend       *)
(* snapshot is taken, then storeTlHelp32Snapshot(snapshot) first calls     *)
(* generateHandle, one critical section ...                                *)
SnapshotGenerate(c, k, len) ==
    /\ cpc[c] = "idle"
    /\ GenerateHandle
    /\ cpc' = [cpc EXCEPT ![c] = "snap_store"]
    /\ op' = [op EXCEPT ![c] = "snapshot"]
    /\ hd' = [hd EXCEPT ![c] = NextHandleID]
    /\ knd' = [knd EXCEPT ![c] = k]
    /\ val' = [val EXCEPT ![c] = len]
    /\ UNCHANGED <<first, ptrOk, disturbed>>

(* ... then stores under that handle, a second one, and sends the handle.  *)
SnapshotStore(c) ==
    /\ cpc[c] = "snap_store"
    /\ StoreTlHelp32Snapshot(knd[c], val[c], hd[c])
    /\ Done(c)

(* handleCommandOpenProcess: storeOpenProcess(pid) = generateHandle, then  *)
(* store; the handle is sent.                                              *)
OpenGenerate(c, pid) ==
    /\ cpc[c] = "idle"
    /\ GenerateHandle
    /\ cpc' = [cpc EXCEPT ![c] = "open_store"]
    /\ op' = [op EXCEPT ![c] = "open"]
    /\ hd' = [hd EXCEPT ![c] = NextHandleID]
    /\ val' = [val EXCEPT ![c] = pid]
    /\ UNCHANGED <<knd, first, ptrOk, disturbed>>

OpenStore(c) ==
    /\ cpc[c] = "open_store"
    /\ StoreOpenProcess(val[c], hd[c])
    /\ Done(c)

(* handleCommandCloseHandle: closeHandle(h), then send 1.  A connection    *)
(* holding an entry pointer into h's snapshot now holds a freed pointer.   *)
CloseHandleCmd(c, h) ==
    /\ cpc[c] = "idle"
    /\ CloseHandle(h)
    /\ ptrOk' = [d \in Conns |-> IF cpc[d] = "it_deref" /\ hd[d] = h
                                 THEN FALSE ELSE ptrOk[d]]
    /\ UNCHANGED <<cpc, op, hd, knd, first, val, disturbed>>

(* Variant of IterateCheck that never resets the cursor for FIRST.        *)
IterateCheckNoReset(c, k, isFirst, h) ==
    /\ cpc[c] = "idle"
    /\ \/ /\ ~ContainsSnapshot(k, h)
          /\ UNCHANGED connVars
       \/ /\ ContainsSnapshot(k, h)
          /\ cpc' = [cpc EXCEPT ![c] = "it_next"]
          /\ op' = [op EXCEPT ![c] = "iterate"]
          /\ hd' = [hd EXCEPT ![c] = h]
          /\ knd' = [knd EXCEPT ![c] = k]
          /\ first' = [first EXCEPT ![c] = isFirst]
          /\ UNCHANGED <<val, ptrOk, disturbed>>
    /\ UNCHANGED tableVars

(* handleCommandIterateProcessesNext / ...ModulesNext, lines 327-377: an   *)
(* unknown handle gets the end-of-list entry; otherwise FIRST resets the   *)
(* cursor (its own critical section) before next is called.                *)
IterateCheck(c, k, isFirst, h) ==
    /\ cpc[c] = "idle"
    /\ \/ /\ ~ContainsSnapshot(k, h)
          /\ UNCHANGED connVars
       \/ /\ ContainsSnapshot(k, h)
          /\ cpc' = [cpc EXCEPT ![c] = IF isFirst THEN "it_reset" ELSE "it_next"]
          /\ op' = [op EXCEPT ![c] = "iterate"]
          /\ hd' = [hd EXCEPT ![c] = h]
          /\ knd' = [knd EXCEPT ![c] = k]
          /\ first' = [first EXCEPT ![c] = isFirst]
          /\ UNCHANGED <<val, ptrOk, disturbed>>
    /\ UNCHANGED tableVars

IterateReset(c) ==
    /\ cpc[c] = "it_reset"
    /\ ResetIterator(knd[c], hd[c])
    /\ cpc' = [cpc EXCEPT ![c] = "it_next"]
    /\ UNCHANGED <<op, hd, knd, first, val, ptrOk, disturbed>>

(* next returns a pointer into the stored vector, or nullptr: then the     *)
(* end-of-list entry is sent.                                              *)
IterateNext(c) ==
    /\ cpc[c] = "it_next"
    /\ AdvanceCursor(knd[c], hd[c])
    /\ \/ /\ NextEntry(knd[c], hd[c]) = NoEntry
          /\ Done(c)
       \/ /\ NextEntry(knd[c], hd[c]) # NoEntry
          /\ val' = [val EXCEPT ![c] = NextEntry(knd[c], hd[c])]
          /\ cpc' = [cpc EXCEPT ![c] = "it_deref"]
          /\ ptrOk' = [ptrOk EXCEPT ![c] = TRUE]
          /\ disturbed' = [d \in Conns |->
                          disturbed[d] \/ (d # c /\ cpc[d] = "it_next" /\ first[d]
                                       /\ hd[d] = hd[c] /\ knd[d] = knd[c])]
          /\ UNCHANGED <<op, hd, knd, first>>

(* The entry's fields are read through the pointer, after the lock is     *)
(* released, and sent (sendProcess32Entry / sendModule32Entry).            *)
IterateDeref(c) ==
    /\ cpc[c] = "it_deref"
    /\ Done(c)
    /\ UNCHANGED tableVars
-----------------------------------------------------------------------------
(* handleCommandReadProcessMemory (426-478), handleCommandWriteProcess-     *)
(* Memory (480-509), handleCommandGetRegionInfo (590-637) and               *)
(* handleCommandVirtualQueryExFull (639-664) all test                       *)
(* containsProcessIDHandle and close the connection when it fails.  A read *)
(* asking for compression closes it first; a read or region query with    *)
(* address or size <= 0 answers 0 at once.  Otherwise getProcessID(handle)  *)
(* is called afterwards, in a separate critical section.                   *)
UseCheck(c, o, h) ==
    /\ cpc[c] = "idle"
    /\ \/ /\ o = "read"
          /\ Drop(c)
       \/ /\ ~ContainsProcessIDHandle(h)
          /\ Drop(c)
       \/ /\ o \in {"read", "region"}
          /\ ContainsProcessIDHandle(h)
          /\ UNCHANGED connVars
       \/ /\ ContainsProcessIDHandle(h)
          /\ cpc' = [cpc EXCEPT ![c] = "use_get"]
          /\ op' = [op EXCEPT ![c] = o]
          /\ hd' = [hd EXCEPT ![c] = h]
          /\ UNCHANGED <<knd, first, val, ptrOk, disturbed>>
    /\ UNCHANGED tableVars

UseGet(c) ==
    /\ cpc[c] = "use_get"
    /\ val' = [val EXCEPT ![c] = GetProcessID(hd[c])]
    /\ cpc' = [cpc EXCEPT ![c] = "use_mem"]
    /\ UNCHANGED <<tableVars, op, hd, knd, first, ptrOk, disturbed>>

(* Lines 455-477: Memory::read with that pid.  A failed read (read <= 0,  *)
(* as for pid -1) is answered 0 and the connection stays open, as is a    *)
(* short or full one.                                                      *)
ReadMem(c) ==
    /\ cpc[c] = "use_mem" /\ op[c] = "read"
    /\ Done(c)
    /\ UNCHANGED tableVars

(* Lines 493-508: Memory::write returns size or (size_t)-1, so `written <  *)
(* 0` never holds; the handler returns written == size, and a failed      *)
(* write closes the connection.                                            *)
WriteMem(c) ==
    /\ cpc[c] = "use_mem" /\ op[c] = "write"
    /\ \/ Done(c)
       \/ Drop(c)
    /\ UNCHANGED tableVars

(* getModuleSnapshot / getMemoryModel with that pid (GETREGIONINFO,        *)
(* VIRTUALQUERYEXFULL, GETARCHITECTURE): the reply is sent and the handler *)
(* returns true, whatever the backend answered.                            *)
QueryMem(c) ==
    /\ cpc[c] = "use_mem" /\ op[c] \in {"region", "arch", "arch_legacy"}
    /\ Done(c)
    /\ UNCHANGED tableVars

(* handleCommandGetArchitecture, lines 511-532: poll for a handle for up   *)
(* to a second with recvNonBlocking.  The outcomes the socket wrappers     *)
(* give: the handle arrives and is stored (WinsockWrapper); none arrives,  *)
(* or LinuxSocketWrapper receives it into its own pointer variable while    *)
(* errno still says EWOULDBLOCK, so the legacy lookup runs; or Linux       *)
(* receives it without storing it and errno says otherwise: handle = -1.   *)
ArchProbe(c) ==
    /\ cpc[c] = "idle"
    /\ \/ \E h \in Handles :
            /\ cpc' = [cpc EXCEPT ![c] = "arch_check"]
            /\ op' = [op EXCEPT ![c] = "arch"]
            /\ hd' = [hd EXCEPT ![c] = h]
       \/ /\ cpc' = [cpc EXCEPT ![c] = "arch_legacy"]
          /\ op' = [op EXCEPT ![c] = "arch_legacy"]
          /\ hd' = [hd EXCEPT ![c] = -1]
    /\ UNCHANGED <<tableVars, knd, first, val, ptrOk, disturbed>>

(* Line 529: handle = getProcessHandleLegacyCE(), which yields a pid.      *)
ArchLegacy(c) ==
    /\ cpc[c] = "arch_legacy"
    /\ \E p \in LegacyCandidates : hd' = [hd EXCEPT ![c] = p]
    /\ cpc' = [cpc EXCEPT ![c] = "arch_check"]
    /\ UNCHANGED <<tableVars, op, knd, first, val, ptrOk, disturbed>>

(* Lines 532-538: an unknown handle closes the connection, else the pid is *)
(* looked up and the memory model queried.                                 *)
ArchCheck(c) ==
    /\ cpc[c] = "arch_check"
    /\ \/ /\ ~ContainsProcessIDHandle(hd[c])
          /\ Drop(c)
       \/ /\ ContainsProcessIDHandle(hd[c])
          /\ cpc' = [cpc EXCEPT ![c] = "use_get"]
          /\ UNCHANGED <<op, hd, knd, first, val, ptrOk, disturbed>>
    /\ UNCHANGED tableVars

(* Server::start accepts a new connection, served by a new thread with a   *)
(* new Client, once an old one has ended.                                  *)
Reconnect(c) ==
    /\ cpc[c] = "closed"
    /\ cpc' = [cpc EXCEPT ![c] = "idle"]
    /\ UNCHANGED <<tableVars, op, hd, knd, first, val, ptrOk, disturbed>>

-----------------------------------------------------------------------------
Next ==
    \E c \in Conns :
        \/ \E k \in Kinds, len \in SnapLens : SnapshotGenerate(c, k, len)
        \/ SnapshotStore(c)
        \/ \E p \in Pids : OpenGenerate(c, p)
        \/ OpenStore(c)
        \/ \E h \in Handles : CloseHandleCmd(c, h)
        \/ \E k \in Kinds, b \in BOOLEAN, h \in Handles : IterateCheck(c, k, b, h)
        \/ IterateReset(c)
        \/ IterateNext(c)
        \/ IterateDeref(c)
        \/ \E o \in {"read", "write", "region"}, h \in Handles : UseCheck(c, o, h)
        \/ UseGet(c)
        \/ ReadMem(c)
        \/ WriteMem(c)
        \/ QueryMem(c)
        \/ ArchProbe(c)
        \/ ArchLegacy(c)
        \/ ArchCheck(c)
        \/ Reconnect(c)

Spec == Init /\ [][Next]_vars
-----------------------------------------------------------------------------
(* Cursors stay inside their snapshot: nextProcessInfo/nextMemoryRegion    *)
(* advance only below the size, and every store resets the cursor, so no   *)
(* interleaving of FIRST, NEXT, store and close leaves a cursor past the   *)
(* end (which would make the next call index out of the vector).           *)
CursorWithinSnapshot ==
    \A k \in Kinds, h \in Handles :
        ContainsSnapshot(k, h) => Cursor(k, h) <= snapshots[k][h]

(* The pointer nextProcessInfo/nextMemoryRegion returns stays a valid      *)
(* entry of the same snapshot until its handle is closed: a store under a  *)
(* handle in use (insert) does not replace the vector it points into.      *)
PointerStableUntilClose ==
    \A c \in Conns :
        cpc[c] = "it_deref" /\ ptrOk[c] =>
            /\ ContainsSnapshot(knd[c], hd[c])
            /\ val[c] < snapshots[knd[c]][hd[c]]

(* The Process32/Module32 handlers read the entry through that pointer     *)
(* only while its snapshot is still stored (the pointer is not freed by a  *)
(* CLOSEHANDLE of another connection in between).                          *)
DerefOfLiveEntry ==
    \A c \in Conns : cpc[c] = "it_deref" => ptrOk[c]

(* The legacy GETARCHITECTURE path substitutes a currently open process    *)
(* handle (or -1 when none is open) for the handle the client did not send. *)
LegacyFallbackIsOpenHandle ==
    \A c \in Conns :
        cpc[c] = "arch_check" /\ op[c] = "arch_legacy" =>
            hd[c] \in OpenProcessHandles \cup {-1}

(* PROCESS32FIRST / MODULE32FIRST answer the snapshot's first entry: the   *)
(* reset (line 341) and nextProcessInfo (line 343) are two critical      *)
(* sections, and only another connection's NEXT on the same handle between *)
(* them moves the cursor off 0; a store or close under the handle, a      *)
(* counter wrap, or another FIRST in that gap does not.                    *)
FirstAnswersFirstEntry ==
    \A c \in Conns :
        cpc[c] = "it_deref" /\ first[c] /\ ~disturbed[c] => val[c] = 0

=============================================================================
