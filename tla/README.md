# TLA+ models of ceserver-pcileech

This directory holds TLA+ models of the concurrent core of ceserver-pcileech. The server is a
network server that speaks the Cheat Engine network protocol. It reads and writes the memory of
another machine through a PCILeech/MemProcFS DMA backend. Each module is translated from the
C++ under `src/`. `PROJECT.json` maps every definition to the source lines it models. It also
lists the runs, the mutants that show each property can fail, the findings and the hazards.

## The system

| Part | Source | Shared state | Concurrency |
|---|---|---|---|
| Memory Access Engine | `Memory.cpp`, `Memory.h` | `backlog` (map key→`BacklogItem`), `sem`, per-item promise/`data`/`promiseRead` | every connection thread calls `read`/`write`; one dispatch thread; batches run under `std::async` |
| Handle & Snapshot Table | `ClientState.cpp/.h` | `lastHandleID`, process/module snapshot maps, two cursor maps, handle→pid map | one instance (`Server::sharedState`) used by all connections; each method holds `mtx` |
| Connection Dispatcher | `Client.cpp/.h` | per-connection name, socket | one thread per connection; handlers make several separate table calls |
| Connection Acceptor | `Server.cpp/.h` | `clientThreads` vector | accept loop, starts one thread per client, kept in `clientThreads` and joined after stop |
| Region/protection helpers | `Memory.h` (`MemoryRegion`), `Client.cpp` 590-798 | none | pure functions of a fresh VAD snapshot |
| Socket wrappers | `*SocketWrapper*` | descriptors of the process | close, destructor, accept, recv, Winsock non-blocking mode as `Server` uses them |
| Backend wrapper, `main` | `PCILeechWrapper.h`, `main.cpp` | OS resources | thin wrappers |

Data flows from the Acceptor to one Dispatcher per connection. The Dispatcher calls the Table
and the Engine, and the Engine calls the backend.

### Memory Access Engine, and how `MemoryEngine.tla` models it

- **`Memory::read` (Memory.cpp 176-194).** Under `mtx`, the caller looks up the key
  `pid:address:size`. It attaches to a pending item, or it creates an item, inserts it and
  notifies. Then it calls `BacklogItem::get`. Model: `ReadRegister(t, k)` attaches or
  appends a `NewBacklogItem(k)` (the constructor's initial state) to `items` and adds its id
  to `backlog`.
  - The caller remembers `mem`'s current version in `req`. This is the freshness baseline.
- **`BacklogItem::get` (Memory.h 122-132).** Under the item's mutex, only the first caller
  waits on the future and copies the promise buffer into `data`. Later callers return `data`.
  Model: `Get(t)`. Each answer is recorded in the history variable `answers` with its item,
  the bytes it got (a version, or `Garbage` when it was copied out of a freed buffer) and the
  version memory had when the call was made.
- **`Memory::write` (196-207).** This acquires the binary semaphore `sem` shared with read
  batches. It then writes, which may fail, and releases `sem`. Model: `WriteAcquire`, then
  `WriteDo`. The number of write calls is bounded by `MaxWrites`.
- **`Memory::start` and `Memory::shutdown` (93-107).** `Start` creates the dispatch thread
  (`Memory::init` calls it; a test may queue reads first). `~Memory` calls `shutdown` once no
  connection uses the engine. It runs `ShutdownSetStop` (`bStop = true`), then
  `ShutdownNotify` (`notify_all`), then `ShutdownJoin`. Neither of the first two holds `mtx`.
- **The dispatch loop (246-298).** At the top of the loop, `DispatchStop` leaves the loop
  when `bStop` is set. `DispatchIdle` handles an empty backlog and goes to the
  `backlogPush.wait`:
  - `DispatchWaitCheck` evaluates the predicate `bStop || size > 0` under `mtx`;
  - `DispatchBlock` then blocks;
  - until that block, `mtx` is still held, so `ReadRegister` waits;
  - a `notify_all` (`Notify`, from `ReadRegister` or `ShutdownNotify`) wakes only a dispatcher
    that has already blocked. Spurious wakeups are left out, since they only re-run the
    predicate.

  With a non-empty backlog, `DispatchWake` enters the build window with `mtx` released. `DispatchSelect` relocks and picks the batch:
  - the backlog is an `unordered_map`, so every iteration order (`SetToSeqs`) is allowed;
  - `Scan` keeps items of the first item's pid;
  - it breaks when `requestedSoFar + size >= MAX_BYTES_PER_DISPATCH` (`MaxBytes`);
  - it breaks when the batch reaches `MAX_DISPATCH_SIZE` (`MaxDispatch`);
  - the batch is then erased from the backlog.

  The `std::async` future is discarded, so its destructor blocks. The batch therefore runs
  before the loop continues: `DispatchAcquire`, then `DispatchSequential`/`DispatchFree` or
  `DispatchScatter`.
- **`Memory::dispatch` (300-352).** For at most `SCATTER_READ_THRESHOLD` items it reads
  sequentially and calls `set_value` with a fresh buffer. It **frees that buffer at line 317**
  (`DispatchFree`, a separate step, so a waiter can copy in between). Otherwise it does one
  scatter read, and the buffers are never freed.
- **Data abstraction.** Target memory is a version counter per (pid, address). A write that
  succeeds increments the version. A read result is the version seen, or `Garbage` for a
  copy out of a freed buffer.

### Properties of the engine (runs in `PROJECT.json`)

- `OneAccessPerItem`: the backend is read at most once per item. This is the deduplication
  promise.
- `CoherentWaiters`: all answers for one item carry the same data.
- `FreshRead`: every answer is at least as new as memory was when the caller asked.
- `BatchWithinBounds`: a running batch has a single pid, at most `MaxDispatch` items, and a
  size sum below `MaxBytes`.
- `ReadCompletes`: every caller blocked in `get` returns (liveness).
- `ImplementsAbstractRead`: the engine should refine `AbstractRead.tla`, the promise of
  `Memory::read`/`Memory::write` as an atomic memory. A read returns what the target held at
  one instant between its call and its return (`Serve`), and a write takes effect at one
  instant. The refinement mapping (`ReadState`, `Read == INSTANCE AbstractRead WITH ...`)
  works as follows:
  - a thread in `get` has its item's key, and the item's `cell` once the promise is set;
  - every other thread is idle, since a write is atomic at that level;
  - a returned answer is the item's key with the bytes the caller got;
  - one backend read (sequential) or scatter read serves every waiter of the batch in one
    `Serve` step.

### Runs and findings

| Run | Bounds | Result |
|---|---|---|
| `engine` (`MemoryEngine.cfg`) | 2 threads, 2 pids, 1 address, sizes {1,2}, budget 3, cap 2, 2 items, 1 write | passes, 62k states |
| `engine_batch` (`MemoryEngine_batch.cfg`) | 3 threads, 1 pid, 3 addresses, sizes {1,4}, budget 4, cap 2, 3 items, thread symmetry | passes, 306k states |
| `engine_uaf` | 1 thread, 1 item | **violation** of `ImplementsAbstractRead`: the waiter copies after `VMMDLL_MemFree` (Memory.cpp:317) and returns bytes the target never held |

The refinement cannot pass with the code's `SCATTER_READ_THRESHOLD` of 1. Every single-item
batch takes the sequential path, which frees the buffer the waiter has yet to copy, so
`engine_uaf` checks the refinement and reports that. The mapping itself was confirmed
separately: with the threshold at 0, only scatter reads run and the refinement holds
(12k states). No run keeps that setting, because it is not the code's constant.

| Run | Bounds | Result |
|---|---|---|
| `engine_stop` (`MemoryEngine_stop.cfg`) | 1 thread, 1 item, 1 write | **violation** of `ShutdownCompletes`: a lost wakeup. TLC's shortest trace needs no request: `Start`, then `DispatchIdle` and `DispatchWaitCheck` (predicate false). Next come `ShutdownSetStop` and `ShutdownNotify`, with nobody waiting yet, and then `DispatchBlock`. The join in `~Memory` (Memory.cpp:104) never returns. The bounds allow one read and one write, but the race needs neither. That is `main` when `Memory::init` fails: init calls `start()` before it tests `hVMM` (Memory.cpp:86-90), `main` returns at once, and `~Memory` can hang instead of exiting. |

`ShutdownCompletes` states that once shutdown has begun, the dispatch thread is joined. Only
`engine_stop` checks it. In the passing runs the same race would fail it, so they leave it out.
The race also shows that the unsynchronised `bool bStop` is a data race. The model gives its
reads the value of the last write in the interleaving, which is one of the outcomes the build
can produce.

An item of the budget's size (`>=` with `break`, Memory.cpp:275) is never selected, and its
caller would wait forever. Budget-sized items appear in `engine_batch`, where they exercise the
selection loop. The real budget is 10^9 bytes, far above any read a client sends, so
`ReadCompletes` is checked with sizes below it. The hazard list records the edge.

The bounds are enough for the cases that matter:
- two keys of different pids make the pid filter matter;
- two threads on one key exercise attachment and the cache;
- three size-1 items against a cap of 2 hit the cap;
- a size-4 item against a budget of 4 hits the budget;
- one write races the dispatcher for `sem`.

`engine_batch` is safety-only, so thread symmetry is sound there. It is not used in runs that
check liveness.

### Fairness

Weak fairness covers:
- `Start`, because `Memory::init` calls it;
- the dispatcher's steps, because it is a dedicated thread;
- the shutdown thread's notify and join, once `~Memory` has begun;
- each blocked caller's `Get`, once its result is set;
- each writer's `WriteDo`, once it holds `sem`.

The OS scheduler runs runnable threads, so these assumptions hold. Issuing requests is the
client's choice and is not fair. `CHECK_DEADLOCK FALSE` is used because the server legitimately
idles once the clients stop sending.

### Handle & Snapshot Table: `ClientState.tla`

`ClientState.tla` is a library of the table's methods, in the manner of handler modules that
another module composes. Every method holds `ClientState::mtx` for its whole body, so each is
one atomic action or operator:
- `GenerateHandle`/`NextHandleID`;
- `StoreOpenProcess` (`operator[]`, so it overwrites);
- `StoreTlHelp32Snapshot` (`insert`, which keeps an existing snapshot, while the cursor is
  reset anyway);
- `CloseHandle`;
- `AdvanceCursor`/`NextEntry`, for `nextProcessInfo`/`nextMemoryRegion`;
- `ResetIterator` (`operator[]`, so it creates a cursor);
- `GetProcessID`, `LegacyCandidates` (`getProcessHandleLegacyCE`) and the `Contains*`
  predicates.

The model abstracts three things:
- a snapshot vector is reduced to its length, and an entry to its index;
- the process and module maps are indexed by `Kinds`;
- `CE_HANDLE` is an `int` of `HandleBits` bits. Incrementing past `IntMax` is signed overflow,
  which the build wraps to `INT_MIN`. The `< 0` test then resets it to 0, so `NextHandleID`
  wraps to 0.

### Connection Dispatcher: `Connections.tla`

`Connections.tla` extends `ClientState`. Each connection is a thread (`Conns`) with a
handler step `cpc` and the handler's locals (`op`, `hd`, `knd`, `first`, `val`). Each table
call of a handler is one step, so other connections interleave between them. The handlers are:
- `SnapshotGenerate`, then `SnapshotStore`;
- `OpenGenerate`, then `OpenStore`;
- `CloseHandleCmd`;
- `IterateCheck`, then `IterateReset` (FIRST only), `IterateNext` and `IterateDeref`, which
  reads the entry through the returned pointer;
- `UseCheck`, then `UseGet`, then `ReadMem`, `WriteMem` or `QueryMem`. These are Read,
  Write, GetRegionInfo and VirtualQueryExFull: the `containsProcessIDHandle` test,
  `getProcessID`, and the engine call. The engine call is abstract here; what remains is
  whether the handler keeps the connection (a read or query always does, a write only when
  `written == size`).
- `ArchProbe`, then `ArchLegacy`, then `ArchCheck`. These are GETARCHITECTURE.
  `ArchProbe`'s outcomes are what the socket wrappers can produce:
  - Windows stores the handle;
  - no handle arrives, or Linux receives it into `&buffer` with a stale `EWOULDBLOCK` in
    errno, so the legacy lookup runs. This path is real on Linux. On Windows `lastError` is
    `WSAGetLastError()`, whose `WSAEWOULDBLOCK` (10035) never equals `EWOULDBLOCK`, so the
    path is in practice unreachable there. `Connections` has no platform, so for Windows it
    over-approximates;
  - Linux receives it without storing it and errno says otherwise, so the handle is -1.

A handler that returns false closes the connection (`Drop`). The accept loop then serves a new
connection in that slot (`Reconnect`). The ghost variable `ptrOk` records whether the entry
pointer a connection holds has been freed by a `closeHandle`. The ghost variable `disturbed`
records whether another connection's NEXT advanced the cursor between a FIRST's reset and its
`nextProcessInfo`.

| Run | Property | Result |
|---|---|---|
| `conn` (`Connections.cfg`) | `TypeOK`, `CursorWithinSnapshot`, `PointerStableUntilClose`, `FirstAnswersFirstEntry` | passes, about 2M states, about 70 s |
| `conn_uaf` | `DerefOfLiveEntry` | **violation**: PROCESS32NEXT uses the entry pointer after another connection's CLOSEHANDLE (Client.cpp:349) |
| `conn_legacy` | `LegacyFallbackIsOpenHandle` | **violation**: `getProcessHandleLegacyCE` returns a pid, which is used as a handle (ClientState.cpp:113) |

The same interleaving as `conn_uaf` also hits the use handlers. When a CLOSEHANDLE lands
between `containsProcessIDHandle` and `getProcessID` (Client.cpp:457 and similar sites), the
engine gets pid -1. The backend read then fails and is answered as an empty read. After a
counter wrap (2^31 handles) an OPENPROCESS can reissue the handle in that gap, and the engine
gets another process's pid. No property states the effect of that pid, because the engine is
not composed with `Connections` (hazard at Client.cpp:457). `FirstAnswersFirstEntry` checks
that a FIRST answers entry 0 unless another connection's NEXT on the handle ran between the
reset and the next. That NEXT is the shared-cursor race of the hazard at Client.cpp:341, which
the spec accepts; the property checks that the reset comes before the next. Stores, closes, wraps and other FIRSTs in that gap cannot move it.

Bounds:
- Two connections suffice for every race above, since each needs two actors.
- `HandleBits = 2` gives the handles {-1, 0, 1}, so the counter wraps after two handles. The
  passing properties are therefore also checked across wraps and handle reuse.
- Snapshot lengths {0, 1, 2}. 0 is the empty vector that `getProcessSnapshot` and
  `getModuleSnapshot` return when the backend fails (Memory.cpp:116-122, 146); it is stored
  under a handle like any other. 1 and 2 make "first" differ from "next".
- The pids {1, 5} make the legacy pid equal an open handle in one case and no handle in the
  other.
- Only the process maps are checked (`Kinds = {"process"}`). The module maps run the same code,
  and adding them multiplies the table's states.
- The runs check safety only and need no fairness. Deadlock is checked: an idle connection can
  always send another command.

### Region queries and translation helpers: `Regions.tla`

`Regions.tla` models the handlers that answer from the backend's VAD map, with the helpers they
use. The handle test they share with the other handlers is modelled in `Connections`. Here the
handle names an open process.
- `vads`: the target's VAD map, one of `Layouts`, fixed for a behaviour. Every query reads it
  afresh, as `getModuleSnapshot` does.
- `GetRegionInfo(cmd, a)` (Client.cpp 590-637), for VIRTUALQUERYEX and GETREGIONINFO:
  - an address of 0 gets the null record and returns;
  - otherwise it takes the lowest region with `vaStart <= a <= vaEnd` (`FirstContaining`);
  - it sends the record (`QueryRecord`);
  - for GETREGIONINFO it then sends the name length, truncated to `NameCap` (`TruncatedLen`).
- `VirtualQueryExFull` (639-664) sends the count and one record per region.
- `GetArchitecture(tp)` (537-547) is the step after the handle test: `MemoryModelOf`
  (Memory::getMemoryModel), then `ArchitectureOf`.
- The operators translate the code exactly:
  - `RegionSize`, `RegionName`: the MemoryRegion constructor, with the `int32_t` regionSize as a
    two's-complement conversion to `SizeBits` bits;
  - `HumanReadable`, `Win32Protection`, `Win32Type`.

The reply is a sequence of frames, which is what a client reads. The properties check the
translation against references that the code does not use:
- `MmWritable`/`MmExecutable` give the memory manager's meaning of the protection bits;
- the region range is checked against the VAD, the framing against the protocol, and the
  architecture byte against the MemProcFS memory model.

| Run | Property | Result |
|---|---|---|
| `regions` (`Regions.cfg`) | `TypeOK`, `ReplyDescribesContainingRegion`, `ReportedRangeIsRegion`, `FullListsSnapshot`, `ArchitectureOfTarget` | passes, 16.8k states |
| `regions_size` | `ReportedRangeIsRegion` | **violation**: a region of 2^(SizeBits-1) bytes or more is reported with a sign-extended size (Memory.h:54) |

Bounds:
- Addresses are 4 bits wide, and regionSize is 3 bits (the scaled `uint64`/`int32_t`). The first
  size it cannot hold is 4. The passing run's regions have 2 or 3 bytes, and the violation
  run's region has 4 bytes.
- One region [1,3] is tried with all 32 protection values, both privacy flags, VAD types 1 and 2,
  and five naming cases: text shorter or longer than the cap, no name, two flags, the last flag.
- The two-region maps have a gap.
- The queried addresses {0, 1, 3, 4, 6, 9} hit address 0, each end of a region, the gap, and
  beyond.

### Connection Acceptor and connection sockets: `Server.tla`

`Server.tla` models `Server::start`'s accept loop and `handleClientConnection`'s receive
loop. Sockets are modelled as descriptor numbers of the process:
- `fdOpen` holds the open numbers. `accept` returns the lowest free one.
- `Close(fd)` frees a number, whoever uses it now.
- `sock[c]` is the number c's wrapper holds.
- `owner` is a ghost variable: the client whose connection a number was accepted for.

The actions are:
- `Accept`: the setsockopt failure path closes the socket; the success path starts a thread
  at the loop test.
- `ThreadExit`: the loop test sees `bStop`; the function returns and the destructor closes.
- `ToRecv`: the loop test passes and the thread calls `recv`, where it blocks.
- `RecvCommand`: a byte arrives from whichever client the number now leads to.
- `RecvEof`: recv returns 0 and `continue` goes back to the loop test.
- `RecvError`: recv returns -1 (`RecvFails`), so the thread closes the socket and returns.
- `Dispatch`: `dispatchCommand` returns true or false, and false means close.
- `DispatchGetArchitecture`: the same for GETARCHITECTURE, whose `recvNonBlocking` leaves a
  Winsock socket in non-blocking mode (`nonblock`); the Linux wrapper passes `MSG_DONTWAIT`
  to one call only. The build is the variable `platform`, chosen in `Init`.
- `Release`: the wrapper's destructor closes the number again.
- `Stop` and `JoinAll`: `Server::stop` and the final joins.
- `PeerClose` and `PeerReset`: the client's side of the connection.

`RecvFails` is true when the number is closed or names no client, when that client reset the
connection, or when the socket is non-blocking: `recv(MSG_WAITALL)` on a non-blocking Winsock
socket fails. So on Windows every connection is closed at the first command after a
GETARCHITECTURE. The passing run goes through this path on both platforms. No run of its own
states it, since one request sequence on one connection shows it.

The fairness is weak fairness on every step a connection thread can take without waiting for
its client, and on the acceptor's join, since the OS runs runnable threads. Accepting, sending
and stopping are the environment's choice.

| Run | Property | Result |
|---|---|---|
| `server` (`Server.cfg`) | `TypeOK`, `NoFdLeak`, `ResetReleases` | passes, 3,154 states (both platforms) |
| `server_spin` | `EofReleases` | **violation**: after the client closes its end, recv returns 0 forever and the thread cycles between the loop test and recv without closing the socket (Server.cpp:113) |
| `server_fd` | `SocketClosedOnlyByOwner` | **violation**: a finished connection's second close (the wrapper destructor: WinsockWrapper.cpp:13 in the trace, LinuxSocketWrapper.cpp:16 likewise) closes the socket of a client accepted on the same number in between |

Bounds:
- Two clients and one descriptor number are enough. The second client can only get the
  number the first one freed, which is the reuse the double close needs.
- With no number free, accept returns -1. The `TypeOK` conjunct "a live thread holds a real
  descriptor" shows that the setsockopt test keeps such a socket from being served.
- With a third client, a thread whose socket was closed under it could read a stranger's
  commands. The passing run stays at two clients, so its properties are not about that
  consequence of the double close.

`Server::stop` only sets `bStop`. `ThreadExit` is enabled only at the loop test, so a thread
blocked in `recv`, like the acceptor blocked in `accept`, stays there until its client acts.
`Server::join` after `stop` can therefore wait forever. `main` never calls `stop`, so no run
states termination after it; it is a hazard at Server.cpp:90.

## Plan

1. `MemoryEngine` (done).
2. `ClientState` (done).
3. `Connections` (done for the table-using handlers).
4. `Server`: the accept loop, the receive loop and the socket lifetime (done).
5. `AbstractRead`: what the engine promises (done). The refinement is violated by the
   freed-buffer copy. After a fix (freeing the buffer once every waiter has copied), it
   becomes the property of a passing run.
6. `Regions`: the protection, type and name helpers and the region queries (done).
7. Argument decoding edges in `Connections`: the write reply of -1, the negative write size
   (an uncaught `std::bad_array_new_length` that terminates the whole server), the same
   allocation in GETSYMBOLLISTFROMFILE, and the `nameLength + 1` wrap in SET_CONNECTION_NAME. Each one shows up in a single
   request, so they are recorded as hazards and not given runs. They would be modelled as
   operators over scaled widths if a run became free.
8. A composition of `Connections` with `MemoryEngine`, so that the pid -1 from the
   check-then-get race flows into a real read.

9. `Memory::start`/`shutdown` and the dispatch loop's condition-variable wait (done). The
   lost wakeup is the `engine_stop` finding.

## Not modelled

- The framing of the GETREGIONINFO reply at address 0 is not checked by any run. The
  behaviour itself is modelled: `GetRegionInfo` returns the record and no name frame. One
  request shows it, and a unit test reaches it.
  It is listed as a hazard at Client.cpp:600.
- Snapshot capture (`getProcessSnapshot` and its siblings). Its result is the environment of
  `Connections` (any length, 0 included) and `Regions`. `getProcessSnapshot` is two
  `VMMDLL_PidList` calls and one name query per pid, and it races the target's process table.
  A process started between the two calls gives an empty list and leaks the pid buffer; a
  reused pid is named after the new process. Modelling that needs a model of the target OS
  and one run of its own. Both cases are listed as hazards (Memory.cpp:119, 127).
- `main` (the entry point). Its one concurrent consequence is that `Memory::init` starts the
  dispatch thread before it tests the backend handle. That is covered by `engine_stop` (hazard
  at Memory.cpp:88).
- Logging.
- The exact bytes of reads. Only versions matter to the properties.
- Handlers that only use the socket or the backend (GetVersion, GetABI, the thread and module
  streams of SnapshotEx, GetSymbolListFromFile, the debug stubs). They touch no shared state.
- The PCILeech/MemProcFS backend (`PCILeechWrapper.h`): function pointers into an external
  library. It appears only through its effects on the engine: a read returns the version the
  target holds or fails, a write succeeds or fails.
- Tests and mocks: not part of the running system.
- Argument decoding (the negative WRITEPROCESSMEMORY and GETSYMBOLLISTFROMFILE sizes, the
  SET_CONNECTION_NAME length wrap, the -1 write reply). Each bug shows up in one request and
  would need a violation run of its own. The project spends its violation runs on interleavings
  and lost wake-ups that a unit test hardly reaches, so these stay hazards with notes.
