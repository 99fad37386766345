---------------------------- MODULE MemoryEngine ----------------------------
(***************************************************************************)
(* The memory access engine of ceserver-pcileech (src/Memory.h,            *)
(* src/Memory.cpp): the read backlog that deduplicates identical           *)
(* (pid, address, size) requests, the single dispatch thread that selects  *)
(* a batch of one pid under a count and a byte budget, executes it         *)
(* sequentially or as a scatter read under the binary semaphore shared     *)
(* with Memory::write, and the BacklogItem result cell read by every       *)
(* caller attached to the item.                                            *)
(*                                                                         *)
(* Data is abstracted to versions: mem[p][a] counts the writes to an       *)
(* address, and a backend read returns the version it saw.  The byte count *)
(* a read reports (0 on failure) is left out: the code sets the promise    *)
(* on the failure path exactly as on success, so no control depends on it. *)
(***************************************************************************)
EXTENDS Naturals, FiniteSets, Sequences, SequencesExt

CONSTANTS
    Threads,            \* client connection threads calling read/write
    Pids,               \* process ids
    Addrs,              \* addresses
    Sizes,              \* requested sizes (bytes)
    MaxBytes,           \* MAX_BYTES_PER_DISPATCH
    MaxDispatch,        \* MAX_DISPATCH_SIZE
    ScatterThreshold,   \* SCATTER_READ_THRESHOLD
    MaxItems,           \* bound: BacklogItems created in one behaviour
    MaxWrites,          \* bound: Memory::write calls in one behaviour
    NoThread,           \* model value: nobody holds the semaphore
    NoResult,           \* model value: an unset promise / cache
    Garbage             \* model value: bytes of a released buffer

ASSUME /\ Sizes \subseteq Nat \ {0}
       /\ MaxBytes \in Nat /\ MaxDispatch \in Nat \ {0}
       /\ ScatterThreshold \in Nat
       /\ MaxItems \in Nat /\ MaxWrites \in Nat

Dispatcher == "dispatcher"       \* the dispatch thread as a semaphore holder

Keys == [pid : Pids, addr : Addrs, size : Sizes]

NoRequest == [item |-> 0, ver |-> 0]   \* a thread not inside Memory::read

VARIABLES
    mem,        \* target memory: a version per (pid, address)
    writes,     \* Memory::write calls so far (bounded by MaxWrites)
    items,      \* Seq of BacklogItem records, indexed by creation order
    backlog,    \* ids of the items in Memory::backlog
    sem,        \* holder of Memory::sem (binary semaphore), or NoThread
    pc,         \* per thread: "idle", "get" (in BacklogItem::get), "write"
    req,        \* per thread: the item it waits on and the version at request
    answers,    \* history: every value returned by Memory::read
    dpc,        \* dispatch thread: "none" (not started), "loop", "wait",
                \* "blocking", "waiting", "window", "acquire", "exec", "free", "stopped"
    batch,      \* dispatchBuffer: ids selected by the current iteration
    bStop,      \* Memory::bStop
    spc         \* the thread running ~Memory: "run", "notify", "join", "joined"

vars == <<mem, writes, items, backlog, sem, pc, req, answers, dpc, batch, bStop, spc>>

ItemIds == 1..Len(items)

TypeOK ==
    /\ mem \in [Pids -> [Addrs -> Nat]]
    /\ writes \in 0..MaxWrites
    /\ items \in Seq([key : Keys, cell : Nat \cup {NoResult},
                      buf : {"none", "live", "freed"},
                      cached : Nat \cup {Garbage, NoResult},
                      promiseRead : BOOLEAN, accesses : Nat])
    /\ backlog \subseteq ItemIds
    /\ answers \subseteq [item : ItemIds, data : Nat \cup {Garbage}, reqVer : Nat]
    /\ sem \in Threads \cup {Dispatcher, NoThread}
    /\ pc \in [Threads -> {"idle", "get", "write"}]
    /\ dpc \in {"none", "loop", "wait", "blocking", "waiting", "window",
                "acquire", "exec", "free", "stopped"}
    /\ batch \subseteq ItemIds
    /\ bStop \in BOOLEAN
    /\ spc \in {"run", "notify", "join", "joined"}

-----------------------------------------------------------------------------
(* backlogPush.notify_all(): a dispatcher blocked in wait wakes and takes  *)
(* mtx again to re-evaluate its predicate; otherwise nothing happens.      *)
Notify == IF dpc = "waiting" THEN "wait" ELSE dpc

(* A new BacklogItem (Memory.h 104-116): its key, an unset promise, no    *)
(* buffer handed over yet, data allocated but not filled, promiseRead      *)
(* false; accesses counts the backend reads made for it.                   *)
NewBacklogItem(k) ==
    [key |-> k, cell |-> NoResult, buf |-> "none", cached |-> NoResult,
     promiseRead |-> FALSE, accesses |-> 0]

(* Variant of ReadRegister that attaches to any item ever made for the     *)
(* key, as a lookup in a table of completed results would.                 *)
ReadRegisterAnyItem(t, k) ==
    LET known == {i \in ItemIds : items[i].key = k}
    IN
    /\ pc[t] = "idle" /\ spc = "run" /\ dpc # "blocking"
    /\ \/ /\ known # {}
          /\ req' = [req EXCEPT ![t] = [item |-> CHOOSE i \in known : TRUE,
                                        ver |-> mem[k.pid][k.addr]]]
          /\ UNCHANGED <<items, backlog, dpc>>
       \/ /\ known = {}
          /\ Len(items) < MaxItems
          /\ items' = Append(items, NewBacklogItem(k))
          /\ backlog' = backlog \cup {Len(items) + 1}
          /\ req' = [req EXCEPT ![t] = [item |-> Len(items) + 1,
                                        ver |-> mem[k.pid][k.addr]]]
          /\ dpc' = Notify
    /\ pc' = [pc EXCEPT ![t] = "get"]
    /\ UNCHANGED <<bStop, spc, mem, writes, sem, answers, batch>>

(* Memory::read, lines 177-188: under mtx, attach to the pending item of   *)
(* the same key or create one, insert it and notify the dispatch loop      *)
(* (notify_all wakes the dispatcher if it is blocked in backlogPush.wait). *)
(* mtx is not free while the dispatcher evaluates its wait predicate       *)
(* ("blocking").  Nobody calls read once ~Memory has begun.                *)
ReadRegister(t, k) ==
    LET pending == {i \in backlog : items[i].key = k}
    IN
    /\ pc[t] = "idle" /\ spc = "run" /\ dpc # "blocking"
    /\ \/ /\ pending # {}
          /\ req' = [req EXCEPT ![t] = [item |-> CHOOSE i \in pending : TRUE,
                                        ver |-> mem[k.pid][k.addr]]]
          /\ UNCHANGED <<items, backlog, dpc>>
       \/ /\ pending = {}
          /\ Len(items) < MaxItems
          /\ items' = Append(items, NewBacklogItem(k))
          /\ backlog' = backlog \cup {Len(items) + 1}
          /\ req' = [req EXCEPT ![t] = [item |-> Len(items) + 1,
                                        ver |-> mem[k.pid][k.addr]]]
          /\ dpc' = Notify
    /\ pc' = [pc EXCEPT ![t] = "get"]
    /\ UNCHANGED <<bStop, spc, mem, writes, sem, answers, batch>>

(* The bytes the first caller copies out of the promise buffer             *)
(* (memcpy(data, result.second, size)): the backend's bytes while the      *)
(* buffer is live; once it was handed to VMMDLL_MemFree the read is        *)
(* undefined and may see the old bytes or anything else.                   *)
CopiedData(it) ==
    IF it.buf = "live" THEN {it.cell} ELSE {it.cell, Garbage}

Answer(t, i, d) ==
    [item |-> i, data |-> d, reqVer |-> req[t].ver]

(* Variant of Get that does not block on the future: a caller may return  *)
(* before the promise is set.                                              *)
GetNoWait(t) ==
    LET i  == req[t].item
        it == items[i]
    IN
    /\ pc[t] = "get"
    /\ \/ /\ it.promiseRead
          /\ answers' = answers \cup {Answer(t, i, it.cached)}
          /\ UNCHANGED items
       \/ /\ ~it.promiseRead
          /\ \E d \in CopiedData(it) :
               /\ items' = [items EXCEPT ![i].cached = d, ![i].promiseRead = TRUE]
               /\ answers' = answers \cup {Answer(t, i, d)}
    /\ pc' = [pc EXCEPT ![t] = "idle"]
    /\ req' = [req EXCEPT ![t] = NoRequest]
    /\ UNCHANGED <<bStop, spc, mem, writes, backlog, sem, dpc, batch>>

(* Variant of Get without the promiseRead cache: every caller copies out   *)
(* of the promise buffer.                                                  *)
GetNoCache(t) ==
    LET i  == req[t].item
        it == items[i]
    IN
    /\ pc[t] = "get"
    /\ it.cell # NoResult
    /\ \E d \in CopiedData(it) :
         /\ items' = [items EXCEPT ![i].cached = d, ![i].promiseRead = TRUE]
         /\ answers' = answers \cup {Answer(t, i, d)}
    /\ pc' = [pc EXCEPT ![t] = "idle"]
    /\ req' = [req EXCEPT ![t] = NoRequest]
    /\ UNCHANGED <<bStop, spc, mem, writes, backlog, sem, dpc, batch>>

(* BacklogItem::get (Memory.h 122-132) and the return of Memory::read     *)
(* (Memory.cpp 190-193).  The caller takes the item mutex; a caller that   *)
(* finds promiseRead set returns the cached pair, the first caller blocks  *)
(* in future.get() while holding the mutex until the promise is set, then  *)
(* copies the promise buffer into the item and sets promiseRead.  The      *)
(* mutex is held across the wait, so one step covers lock to unlock.       *)
Get(t) ==
    LET i  == req[t].item
        it == items[i]
    IN
    /\ pc[t] = "get"
    /\ \/ /\ it.promiseRead
          /\ answers' = answers \cup {Answer(t, i, it.cached)}
          /\ UNCHANGED items
       \/ /\ ~it.promiseRead
          /\ it.cell # NoResult
          /\ \E d \in CopiedData(it) :
               /\ items' = [items EXCEPT ![i].cached = d, ![i].promiseRead = TRUE]
               /\ answers' = answers \cup {Answer(t, i, d)}
    /\ pc' = [pc EXCEPT ![t] = "idle"]
    /\ req' = [req EXCEPT ![t] = NoRequest]
    /\ UNCHANGED <<bStop, spc, mem, writes, backlog, sem, dpc, batch>>

(* Memory::write, lines 197-206: acquire sem, call VMMDLL_MemWrite,       *)
(* release sem on both the failure and the success path.                   *)
WriteAcquire(t) ==
    /\ pc[t] = "idle" /\ spc = "run"
    /\ writes < MaxWrites
    /\ sem = NoThread
    /\ sem' = t
    /\ writes' = writes + 1
    /\ pc' = [pc EXCEPT ![t] = "write"]
    /\ UNCHANGED <<bStop, spc, mem, items, backlog, req, answers, dpc, batch>>

(* Variant of WriteDo whose failure path returns -1 without releasing sem. *)
WriteDoLeakSem(t, p, a) ==
    /\ pc[t] = "write"
    /\ \/ /\ mem' = [mem EXCEPT ![p][a] = @ + 1]
          /\ sem' = NoThread
       \/ UNCHANGED <<mem, sem>>
    /\ pc' = [pc EXCEPT ![t] = "idle"]
    /\ UNCHANGED <<bStop, spc, writes, items, backlog, req, answers, dpc, batch>>

WriteDo(t, p, a) ==
    /\ pc[t] = "write"
    /\ \/ mem' = [mem EXCEPT ![p][a] = @ + 1]   \* VMMDLL_MemWrite succeeds
       \/ UNCHANGED mem                         \* it fails: return -1
    /\ sem' = NoThread
    /\ pc' = [pc EXCEPT ![t] = "idle"]
    /\ UNCHANGED <<bStop, spc, writes, items, backlog, req, answers, dpc, batch>>

-----------------------------------------------------------------------------
(* Memory::start, lines 93-98: the dispatch thread is created once, with  *)
(* bStop cleared.  Memory::init calls it; a test may queue reads first.    *)
Start ==
    /\ dpc = "none" /\ spc = "run"
    /\ bStop' = FALSE
    /\ dpc' = "loop"
    /\ UNCHANGED <<mem, writes, items, backlog, sem, pc, req, answers, batch, spc>>

(* Memory::dispatchLoop, lines 252-260: `while (!bStop)` reads bStop       *)
(* without mtx; with bStop set the thread returns.                         *)
DispatchStop ==
    /\ dpc = "loop" /\ bStop
    /\ dpc' = "stopped"
    /\ UNCHANGED <<mem, writes, items, backlog, sem, pc, req, answers, batch, bStop, spc>>

(* Lines 253-256: under mtx, an empty backlog: unlock, lock again and wait *)
(* on backlogPush.                                                         *)
DispatchIdle ==
    /\ dpc = "loop" /\ ~bStop
    /\ backlog = {}
    /\ dpc' = "wait"
    /\ UNCHANGED <<mem, writes, items, backlog, sem, pc, req, answers, batch, bStop, spc>>

(* Line 257: backlogPush.wait(lock, pred) evaluates bStop || size > 0      *)
(* under mtx; if it holds, `continue` goes back to the loop test, else     *)
(* the thread is about to block, still holding mtx ("blocking").           *)
DispatchWaitCheck ==
    /\ dpc = "wait"
    /\ dpc' = IF bStop \/ backlog # {} THEN "loop" ELSE "blocking"
    /\ UNCHANGED <<mem, writes, items, backlog, sem, pc, req, answers, batch, bStop, spc>>

(* The wait releases mtx and blocks; only a later notify wakes it.         *)
DispatchBlock ==
    /\ dpc = "blocking"
    /\ dpc' = "waiting"
    /\ UNCHANGED <<mem, writes, items, backlog, sem, pc, req, answers, batch, bStop, spc>>

(* Lines 259-261: a non-empty backlog: unlock and enter the build window.  *)
DispatchWake ==
    /\ dpc = "loop" /\ ~bStop
    /\ backlog # {}
    /\ dpc' = "window"
    /\ UNCHANGED <<bStop, spc, mem, writes, items, backlog, sem, pc, req, answers, batch>>

(* Memory::shutdown, lines 100-107, run by ~Memory once no connection uses *)
(* the engine: bStop = true and notify_all, neither under mtx, then join   *)
(* the dispatch thread if one was started.                                 *)
ShutdownSetStop ==
    /\ spc = "run"
    /\ \A t \in Threads : pc[t] = "idle"
    /\ bStop' = TRUE
    /\ spc' = "notify"
    /\ UNCHANGED <<mem, writes, items, backlog, sem, pc, req, answers, dpc, batch>>

ShutdownNotify ==
    /\ spc = "notify"
    /\ dpc' = Notify
    /\ spc' = "join"
    /\ UNCHANGED <<mem, writes, items, backlog, sem, pc, req, answers, batch, bStop>>

ShutdownJoin ==
    /\ spc = "join"
    /\ dpc \in {"none", "stopped"}
    /\ spc' = "joined"
    /\ UNCHANGED <<mem, writes, items, backlog, sem, pc, req, answers, dpc, batch, bStop>>

(* The batch that the selection loop of lines 268-282 builds when the      *)
(* unordered backlog iterates in the order `order`: the pid of the first   *)
(* item, items of that pid until the byte budget test or the count cap     *)
(* stops the scan.                                                         *)
(* Variants of Scan: one that forgets the pid filter, one that tests the  *)
(* MAX_DISPATCH_SIZE cap with > instead of >=.                              *)
RECURSIVE ScanAnyPid(_, _, _, _, _)
ScanAnyPid(order, pid, n, sofar, acc) ==
    IF n > Len(order) THEN acc
    ELSE LET it == items[order[n]].key IN
         IF sofar + it.size >= MaxBytes THEN acc
         ELSE IF Cardinality(acc \cup {order[n]}) >= MaxDispatch
              THEN acc \cup {order[n]}
              ELSE ScanAnyPid(order, pid, n + 1, sofar + it.size, acc \cup {order[n]})

RECURSIVE ScanCapOffByOne(_, _, _, _, _)
ScanCapOffByOne(order, pid, n, sofar, acc) ==
    IF n > Len(order) THEN acc
    ELSE LET it == items[order[n]].key IN
         IF it.pid # pid THEN ScanCapOffByOne(order, pid, n + 1, sofar, acc)
         ELSE IF sofar + it.size >= MaxBytes THEN acc
         ELSE IF Cardinality(acc \cup {order[n]}) > MaxDispatch
              THEN acc \cup {order[n]}
              ELSE ScanCapOffByOne(order, pid, n + 1, sofar + it.size, acc \cup {order[n]})

RECURSIVE Scan(_, _, _, _, _)
Scan(order, pid, n, sofar, acc) ==
    IF n > Len(order) THEN acc
    ELSE LET it == items[order[n]].key IN
         IF it.pid # pid THEN Scan(order, pid, n + 1, sofar, acc)
         ELSE IF sofar + it.size >= MaxBytes THEN acc
         ELSE IF Cardinality(acc \cup {order[n]}) >= MaxDispatch
              THEN acc \cup {order[n]}
              ELSE Scan(order, pid, n + 1, sofar + it.size, acc \cup {order[n]})

SelectBatch(order) == Scan(order, items[order[1]].key.pid, 1, 0, {})

(* Variant of DispatchSelect that does not erase the batch from backlog. *)
DispatchSelectNoErase ==
    /\ dpc = "window"
    /\ \E order \in SetToSeqs(backlog) : batch' = SelectBatch(order)
    /\ dpc' = "acquire"
    /\ UNCHANGED <<bStop, spc, mem, writes, items, backlog, sem, pc, req, answers>>

(* Lines 261-290: after the build window (a sleep with mtx released,      *)
(* during which readers keep inserting: the "window" state), lock mtx,    *)
(* select a batch in iteration order, erase it from the backlog, unlock.   *)
DispatchSelect ==
    /\ dpc = "window"
    /\ \E order \in SetToSeqs(backlog) :
         /\ batch' = SelectBatch(order)
         /\ backlog' = backlog \ SelectBatch(order)
    /\ dpc' = "acquire"
    /\ UNCHANGED <<bStop, spc, mem, writes, items, sem, pc, req, answers>>

(* Lines 292-296: std::async runs the batch; the discarded future blocks  *)
(* in its destructor, so the loop continues only after the task ends.      *)
(* The task first acquires sem.                                            *)
DispatchAcquire ==
    /\ dpc = "acquire"
    /\ sem = NoThread
    /\ sem' = Dispatcher
    /\ dpc' = "exec"
    /\ UNCHANGED <<bStop, spc, mem, writes, items, backlog, pc, req, answers, batch>>

(* One backend read of item i (VMMDLL_MemReadEx or VMMDLL_Scatter_Read)   *)
(* and the promise set with its buffer: the cell holds the version seen.   *)
BackendRead(i) ==
    LET k == items[i].key
    IN [items[i] EXCEPT !.cell = mem[k.pid][k.addr], !.buf = "live",
                        !.accesses = @ + 1]

(* Memory::dispatch, lines 301-318: at most ScatterThreshold items are    *)
(* read one by one with VMMDLL_MemReadEx and the promise is set with the   *)
(* buffer; the buffer is released at line 317 in a later step.  An empty   *)
(* batch does nothing and the task releases sem.                           *)
DispatchSequential ==
    /\ dpc = "exec"
    /\ Cardinality(batch) <= ScatterThreshold
    /\ \/ /\ batch = {}
          /\ sem' = NoThread
          /\ dpc' = "loop"
          /\ UNCHANGED items
       \/ \E i \in batch :
            /\ items' = [items EXCEPT ![i] = BackendRead(i)]
            /\ dpc' = "free"
            /\ UNCHANGED sem
    /\ UNCHANGED <<bStop, spc, mem, writes, backlog, pc, req, answers, batch>>

(* Line 317: VMMDLL_MemFree(promiseBuffer) right after set_value; then    *)
(* dispatch returns and the task releases sem (line 295).                  *)
DispatchFree ==
    /\ dpc = "free"
    /\ items' = [i \in ItemIds |-> IF i \in batch
                                   THEN [items[i] EXCEPT !.buf = "freed"]
                                   ELSE items[i]]
    /\ sem' = NoThread
    /\ dpc' = "loop"
    /\ UNCHANGED <<bStop, spc, mem, writes, backlog, pc, req, answers, batch>>

(* Lines 319-351: a scatter read of the whole batch; each promise is set  *)
(* with its own buffer, which is never released.  Then sem is released.    *)
DispatchScatter ==
    /\ dpc = "exec"
    /\ Cardinality(batch) > ScatterThreshold
    /\ items' = [i \in ItemIds |-> IF i \in batch THEN BackendRead(i) ELSE items[i]]
    /\ sem' = NoThread
    /\ dpc' = "loop"
    /\ UNCHANGED <<bStop, spc, mem, writes, backlog, pc, req, answers, batch>>

-----------------------------------------------------------------------------
Init ==
    /\ mem = [p \in Pids |-> [a \in Addrs |-> 0]]
    /\ writes = 0
    /\ items = <<>>
    /\ backlog = {}
    /\ sem = NoThread
    /\ pc = [t \in Threads |-> "idle"]
    /\ req = [t \in Threads |-> NoRequest]
    /\ answers = {}
    /\ dpc = "none"
    /\ batch = {}
    /\ bStop = FALSE
    /\ spc = "run"

Next ==
    \/ \E t \in Threads :
         \/ \E k \in Keys : ReadRegister(t, k)
         \/ Get(t)
         \/ WriteAcquire(t)
         \/ \E p \in Pids, a \in Addrs : WriteDo(t, p, a)
    \/ Start
    \/ DispatchStop
    \/ DispatchIdle
    \/ DispatchWaitCheck
    \/ DispatchBlock
    \/ DispatchWake
    \/ DispatchSelect
    \/ DispatchAcquire
    \/ DispatchSequential
    \/ DispatchFree
    \/ DispatchScatter
    \/ ShutdownSetStop
    \/ ShutdownNotify
    \/ ShutdownJoin

(* The dispatch thread, the thread in ~Memory and every blocked caller     *)
(* keep running: the OS scheduler runs runnable threads, and Memory::init *)
(* starts the dispatch thread.  Issuing a request and destroying the      *)
(* engine are the clients' and main's choice and are not fair.            *)
Fairness ==
    /\ WF_vars(Start)
    /\ WF_vars(DispatchStop \/ DispatchIdle \/ DispatchWaitCheck \/ DispatchBlock
               \/ DispatchWake \/ DispatchSelect \/ DispatchAcquire
               \/ DispatchSequential \/ DispatchFree \/ DispatchScatter)
    /\ WF_vars(ShutdownNotify \/ ShutdownJoin)
    /\ \A t \in Threads : WF_vars(Get(t))
    /\ \A t \in Threads : WF_vars(\E p \in Pids, a \in Addrs : WriteDo(t, p, a))

Spec == Init /\ [][Next]_vars /\ Fairness

-----------------------------------------------------------------------------
(* Deduplication is exact: the backend is read at most once for every     *)
(* BacklogItem, however many callers attached to it (Memory::read attaches *)
(* only while the item is in the backlog, and the dispatch loop erases a   *)
(* selected item before running it), so no promise is ever set twice.      *)
OneAccessPerItem ==
    \A i \in ItemIds : items[i].accesses <= 1

(* Every caller attached to one BacklogItem returns the same bytes: only the first BacklogItem::get copies out of the   *)
(* promise, the others return the cached copy (promiseRead).               *)
CoherentWaiters ==
    \A a, b \in answers :
        a.item = b.item => a.data = b.data

(* No stale read: the backend access that answered a Memory::read call    *)
(* happened after the call was issued, so it saw every write completed    *)
(* before the call (a caller attaches only to an item not yet dispatched). *)
FreshRead ==
    \A a \in answers : items[a.item].cell >= a.reqVer

(* A batch handed to Memory::dispatch holds items of a single pid, at most *)
(* MAX_DISPATCH_SIZE of them, and requests fewer than                      *)
(* MAX_BYTES_PER_DISPATCH bytes in total.                                   *)
BatchWithinBounds ==
    dpc \in {"acquire", "exec", "free"} =>
        /\ \A i, j \in batch : items[i].key.pid = items[j].key.pid
        /\ Cardinality(batch) <= MaxDispatch
        /\ MapThenSumSet(LAMBDA i : items[i].key.size, batch) < MaxBytes

(* Memory::read never blocks forever: every caller waiting in             *)
(* BacklogItem::get eventually returns, which needs the dispatch loop to   *)
(* select its item and to win the semaphore from Memory::write.            *)
ReadCompletes ==
    \A t \in Threads : pc[t] = "get" ~> pc[t] = "idle"

(* ~Memory returns: once Memory::shutdown has set bStop, the dispatch      *)
(* thread leaves its loop, also when it was about to block in             *)
(* backlogPush.wait, and the join at line 104 completes.                   *)
ShutdownCompletes ==
    spc # "run" ~> spc = "joined"

-----------------------------------------------------------------------------
(* Refinement mapping onto AbstractRead.  A thread inside Memory::read has *)
(* the key of its item and, once the dispatcher set the item's promise,    *)
(* the value that backend read saw; threads outside it (or inside          *)
(* Memory::write, which is atomic up there) are idle.  A result returned   *)
(* is the key of its item and the bytes the caller got.                    *)
ReadState(t) ==
    IF pc[t] = "get"
    THEN [key |-> items[req[t].item].key, val |-> items[req[t].item].cell]
    ELSE [key |-> NoResult, val |-> NoResult]

Read == INSTANCE AbstractRead
            WITH rd <- [t \in Threads |-> ReadState(t)],
                 answers <- {[key |-> items[a.item].key, data |-> a.data] : a \in answers}

(* Memory::read and Memory::write implement an atomic memory: every read   *)
(* returns what the target held at one instant between its call and its   *)
(* return, whether the backlog served it alone, attached it to another     *)
(* caller's item, or read it in a sequential or a scatter batch.           *)
ImplementsAbstractRead == Read!ASpec

=============================================================================
