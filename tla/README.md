# TLA+ models of the ISC unix socket manager

This directory models `src/lib/isc/unix/socket.c`, the asynchronous socket layer of bind-utils. The models are written for the TLC model checker. `PROJECT.json` lists:

- the components;
- the runs;
- the mutants;
- the map from each TLA+ definition to the lines of C it translates;
- the findings;
- the hazards.

## 1. The system

### Parts

| Part | Code | State |
|---|---|---|
| Socket manager | `isc_socketmgr_t`, `isc_socketmgr_create/destroy` | `fds[]`, `fdstate[]` (CLOSED / MANAGED / CLOSE_PENDING), `read_fds`, `write_fds`, `maxfd`, `nsockets`, the control pipe, the manager lock |
| Watcher thread | `watcher` | Local copies of the bitmaps and of `maxfd`, the `done` flag |
| Control pipe | `select_poke`, `select_readmsg` | Descriptor numbers and `SELECT_POKE_SHUTDOWN` |
| Socket | `isc_socket_t`, `allocate_socket`, `free_socket`, `destroy` | `references`, `recv_list`, `send_list`, `accept_list`, `connect_ev`, `pending_recv/send/accept`, `recv_result`/`send_result` (sticky), `connected`, `connecting`, the embedded `readable_ev`/`writable_ev`, the socket lock |
| Requests | `isc_socket_recv[v]`, `send[to][v]`, `recvmark`, `sendmark`, `connect`, `accept`, `cancel` | Request events queued on a socket's lists |
| I/O engine | `doio_recv`, `doio_send`, `internal_recv`, `internal_send`, `internal_connect`, `internal_accept` | Reads the kernel's answer and decides soft, hard, EOF or success |
| Message headers | `build_msghdr_send/recv`, `process_cmsg`, `set_dev_address` | Pure translation of buffers and control messages |
| Tasks | `isc_task_send`, `isc_task_sendanddetach`, `isc_task_attach` (outside this repository) | A FIFO of events per task and a reference count per task |

### How the parts interact

1. An API call takes the socket lock. It tries the I/O at once when the list is empty. Otherwise it queues the request, attaches the task, and pokes the watcher through the pipe.
2. The watcher holds the manager lock except while it blocks in `select()`.
3. For every poke, the watcher recomputes the socket's two watch bits:
   - the read bit is set iff a request is queued and `!pending_recv`;
   - the write bit is set iff (a send is queued and `!pending_send`) or `connecting`.
4. For every descriptor `select()` reported, the watcher dispatches the socket's embedded internal event to the task of the head request. Dispatch sets the pending flag and takes a socket reference.
5. The task runs `internal_recv`/`internal_send`/`internal_connect`. These drop that reference (destroying the socket if it was the last), drain the list through `doio_*`, send a done event per request, and poke if requests remain.
6. `destroy()` marks the descriptor CLOSE_PENDING and pokes. The watcher closes it, either in its control loop or in its scan.

### Hard behaviours

- The watcher's scan runs under the manager lock only. API calls and task handlers change the lists, under the socket lock, between `select()` returning and the scan.
- Two threads race to drop the last reference to a socket: the application (`detach`) and a task (an internal event).
- A descriptor is reused by the next `socket()` as soon as it is closed.
- Sticky errors, markers, EOF on a stream, and soft versus hard errors depend on the socket type and on `connected`.
- A cancel can target one task or all tasks.

## 2. The modules

### `DoIO`

`DoIO` is the I/O engine, as pure operators.

- `KernelAnswers` are the classes of one `recvmsg()`/`sendmsg()` result:
  - `again`: `SOFT_ERROR` errnos;
  - `refused`: ECONNREFUSED, ENETUNREACH, EHOSTUNREACH;
  - `nobufs`;
  - `other`: any other errno;
  - `zero`: zero bytes;
  - `short`: fewer bytes than the request's minimum;
  - `full`.
- `doio_recv` and `doio_send` are the decision tables of the two functions, including `SOFT_OR_HARD` (`SoftOrHard`). They give the `DOIO_*` code, the result posted, and the new sticky result.
- `Drain` is the `RECURSIVE` loop of `internal_recv`/`internal_send`:
  - markers and sticky results complete at once;
  - a soft answer stops the loop;
  - EOF completes every request.

### `MsgHdr`

`MsgHdr` is the byte level of the I/O engine, as pure operators. Memory is abstracted to lengths and offsets. A buffer is `[length, used]`. A request has a type, a region length (when `bufs = <<>>`), its buffer list, the bytes `n` moved so far and its `minimum`. An iovec is `[buf, off, len]`: `buf` is 0 for the region, an index into the list, or `Overflow` for the socket's one-byte scratch.

| Operator | Code |
|---|---|
| `build_msghdr_recv`, with `RegionIov`, `RecvSlots` (the stolen iovec), `FirstWithRoom` (skip full buffers) and `RecvIovs` (the loop and its `INSIST`) | `build_msghdr_recv` (523-625) |
| `build_msghdr_send`, with `SendSkip` (skip sent bytes) and `SendIovs` | `build_msghdr_send` (408-516) |
| `process_cmsg` | `MSG_TRUNC`/`MSG_CTRUNC` and the PKTINFO and TIMESTAMP cmsgs (323-394) |
| `doio_recv_bytes`, with `FillBuffers` | `doio_recv` after `recvmsg()` returned `cc >= 0`: EOF, the overflow byte, `process_cmsg`, `dev->n`, the buffer update loop, SOFT or SUCCESS (746-813) |
| `doio_send_bytes` | `doio_send` after `sendmsg()` returned `cc >= 0` (877-895) |
| `NewRecvs`, `RecvMinimum`, `NewSends` | the requests `isc_socket_recv/recvv` and `isc_socket_sendto/sendtov` create, with their `REQUIRE`s |

The kernel (`KernelWrites`, `KernelRecvFlags`) follows recvmsg(2): the iovecs are filled in order with as many bytes as fit, and a longer datagram is cut and flagged MSG_TRUNC. `RecvRequests` and `SendRequests` are the requests a `doio_*` call can meet: new ones, and those a soft step left queued. `ISC_SOCKET_MAXSCATTERGATHER` and `ISC_NET_RECVOVERFLOW` are defined outside `src/`, so they are parameters: `maxsg`, and both values of `recvoverflow`. Steps that fail an `INSIST` are excluded from the properties (see section 4).

### `SocketQueue`

`SocketQueue` is the abstract specification: what a socket promises the callers of its receive and send requests, with no watcher, pipe, task or kernel.

- `queue[f][d]`: the ids of the requests waiting in direction `d`.
- `res[f][d]`: the sticky result.
- `done[f][d]`: the highest id and the result of the last completion that was not a cancel.

Its actions:
- `Post`: a request with a fresh id joins the tail.
- `CompleteAtOnce`: a request completes on an empty list.
- `CompleteHead`: the first `n` requests complete.
- `Cancel`: any requests are removed.
- `Retire`: a socket with empty lists is retired.

The sticky result only ever changes from `Success`. Once it is set, every completion carries it (`Sticky`).

### `SocketIO`

`SocketIO` composes the manager, the watcher, the sockets and the tasks.

**Variables**
- The manager's fields and the pipe.
- The watcher's program counter `wpc` and its locals.
- `sock[fd]`: one record per descriptor slot. Its `gen` tells incarnations of a reused descriptor apart.
- Task queues `tq` of internal events, `taskRefs`, and `destroyer[fd]` (the thread that must run `destroy()`).
- `stalled`: the `select_poke` calls spinning on a full pipe. Each records its thread, the lock it keeps meanwhile (a socket's descriptor, `MgrLock` or `NoLock`), and its message.
- History variables:
  - `calls` (request ids);
  - `hist` (the last completion per direction, and whether the last connect succeeded);
  - `fault`, which names the failed `INSIST` that aborted the process. Nothing runs after it.

**Actions.** There is one action per API function and handler.

| Action | Code |
|---|---|
| `Create`, `Attach`, `Detach`, `Destroy` | `isc_socket_create`, `attach`, `detach`, `destroy`+`free_socket` |
| `Recv`, `Send` (through `IO`) | `isc_socket_recv[v]`, `isc_socket_send[to][v]` |
| `RecvMark`, `SendMark` | `isc_socket_recvmark/sendmark` |
| `Connect` | `isc_socket_connect` |
| `Listen(f)` | `isc_socket_listen` |
| `Accept(f, t)` | `isc_socket_accept` |
| `Cancel(f, who, how)` | `isc_socket_cancel` (any non-empty subset of recv, send, accept, connect; `who = NoTask` is the NULL task). A cancelled accept frees its nascent socket |
| `WatcherSnap`, `WatcherSelect`, `WatcherLock`, `WatcherRelock` | Copy of the bitmaps under the lock, `select()`, and waiting for the manager lock after it returns (`WatcherRelock` after an interrupted `select()`, which then copies the bitmaps again) |
| `WatcherCtl`, `WatcherCtlSock` | One control message read by `select_readmsg`, which frees its pipe slot at once: close, SHUTDOWN, or, for a managed descriptor, wait for its socket lock (`wmsg` names it) and re-arm its bits (`ReadWanted`, `WriteWanted`) |
| `WatcherScan` | One descriptor of the scan: close, or `dispatch_read`/`dispatch_accept`/`dispatch_write`/`dispatch_connect` on a live socket |
| `TaskRun` | The head event of a task: `internal_recv`, `internal_send` (`InternalIO`, `Rearm`), `internal_connect` (`InternalConnect`), or the part of `internal_accept` under the listener lock (`InternalAccept`) |
| `AcceptRegister(t)` | The rest of `internal_accept`: registering the new descriptor under the manager lock and sending the done event |
| `DestroyOrphan` | `destroy()` of the fd -1 socket that a failed accept hands to the application. It is not in `Next`; see below |
| `MgrDestroy`, `MgrJoin` | `isc_socketmgr_destroy` |
| `PokeRetry` | The `write()` loop of `select_poke` getting its message in once the pipe has room |

**What is abstracted**
- Granularity and locks:
  - Every API call and handler is one step, because each runs entirely under its socket's lock.
  - The watcher's steps are one control message or one descriptor, because API calls interleave with its scan.
  - `Create`, `Destroy` and `MgrDestroy` need the manager lock. They are disabled while the watcher holds it (`WatcherHoldsLock`). `destroy()` checks its INSISTs on the lists before it locks, so that abort does not wait for the lock.
  - The control pipe holds `PipeCapacity` messages. When it is full, `SelectPoke` performs the calling step's other effects and records the poke in `stalled`. Its thread keeps its lock until `PokeRetry`:
    - the socket lock for API calls and internal handlers;
    - the manager lock for `destroy()`.
  - Those effects are visible only to holders of the same lock, so applying them early is sound.
  - `internal_accept` drops the listener's lock before it takes the manager lock. So it is two steps, `InternalAccept` and `AcceptRegister`. Between them, `accepting[t]` holds the descriptor `accept()` returned and the request. That descriptor is not free for `Create`.
  - While a lock is kept, these steps wait:
    - every step that takes that lock: API calls on the socket, `TaskRun` of its events, `Create`, `Destroy` and `MgrDestroy`;
    - the watcher's next step, if it needs that lock (`WatcherNeeds`): the manager lock after `select()`, the lock of the socket whose message it has read, or of the descriptor it scans.
- Inputs:
  - `select()`'s result is any subset of the watched descriptors, since the kernel decides readiness. The pipe is reported whenever it holds a message.
  - `accept()` answers `ok`, `again` (a soft errno) or `other` (any other errno). A failing `make_nonblock` takes the `other` path. The kernel gives out the lowest free descriptor (`FreeFds`). It fails I/O, `connect()` and `listen()` on a listening socket, so those calls are enabled only on non-listeners (`CanIO`). `Listen` happens once per socket and is not counted in `MaxCalls`.
  - Addresses, buffers and byte counts are not represented. A request is a record of its id, its task, whether it is a marker, and its ATTACHED bit.
- The socket of a failed accept: `internal_accept` hands it to the application with fd -1. `orphans` counts those not yet detached. Detaching one (`DestroyOrphan`) writes `fds[-1]` and pokes -1, which is `SELECT_POKE_SHUTDOWN`, so it is kept out of `Spec`. `SpecDetachingFailedAccepts` adds it, and only the `accept_orphan_shutdown` run uses that spec. The other runs assume the application never detaches such a socket.
- Undefined behaviour: `allocate_socketevent` never initialises `attributes`. The bit an immediate completion is sent with is chosen from the constant `UninitAttached`.

**Bounds, in `MCSocketIO`**
- `Fds = {1}` with `MaxCreates = 2`: the descriptor is reused once, so stale events for an old incarnation can occur.
- Two tasks (symmetric), both socket types, and `MaxCalls = 2` requests or cancels. Two is enough for two queued requests (order of completion), a completion followed by a replayed sticky result, and a request with its cancel. It keeps the run near 50k states, so its mutants fail within two minutes.
- `PipeCapacity = 1`. Two pokes fill the pipe, so pokes spin, and `PokeRetry` completes them once the watcher has read a message. The pipe is smaller than in `pipe_deadlock`, but the spin is the same.
- `MaxRefs = 2`, so a second holder can keep the socket alive while the first detaches.
- Every `connect()` class. The `SO_ERROR` classes are `0`, `inprogress` and `refused` in `core`: `timedout` and `other` take the same path as `refused`, with another result code. All five are used in the other runs.
- `AcceptAnswers = {}` in `core`: no socket listens there. The accept runs use a listener (see section 3).
- One answer per distinct path of `doio_recv` (`again refused other zero full`) and of `doio_send` (`again refused other full`). `short` behaves as `again` on a stream and as `full` on a datagram; `nobufs` behaves as `full` except for the result code.

These bounds are enough for every interleaving the properties talk about:
- a request posted, dispatched and then cancelled while the scan runs;
- two requests of two tasks on one list;
- the last reference dropped by a task;
- a descriptor closed and reused;
- manager shutdown.

`CHECK_DEADLOCK FALSE`: the system may legitimately stop when the call budget is spent, with the watcher blocked in `select()` and no descriptor ready, or after a fault.

## 3. Runs

| Run | Expect | Shows |
|---|---|---|
| `core` (`MCSocketIO.cfg`) | pass (about 80k states, under 1 min) | See the list below |
| `stale_select` | violation of `WatcherDispatchesQueuedWork` | A cancel between `select()` and the scan makes the scan dispatch an empty list: `INSIST(ev != NULL)` in `dispatch_read` aborts |
| `connect_double_dispatch` | violation of `InternalEventQueuedOnce` | A poke while a connect's `writable_ev` is queued re-arms the write bit, and the event is queued twice |
| `cancel_foreign_connect` | violation of `ConnectingIffConnectEv` | Cancelling another task's connect clears `connecting` but keeps `connect_ev` |
| `uninit_attached` | violation of `TaskRefsAccounted` | The uninitialised ATTACHED bit (and markers that never set it) unbalance task references |
| `connect_lost_wakeup` | violation of `SendWatched` | A send queued during a connect loses its write bit, and `internal_connect` never pokes |
| `accept_orphan_shutdown` | violation of `WatcherStopsOnlyAtShutdown` | A hard `accept()` error hands the application a socket with fd -1. Detaching it makes `destroy()` poke -1, which is SELECT_POKE_SHUTDOWN, and the watcher exits while the manager runs |
| `accept_register_race` | violation of `ShutdownQuiescent` | `internal_accept` registers the accepted descriptor after unlocking the listener. The listener can be destroyed and `isc_socketmgr_destroy` finish in between, leaving a MANAGED descriptor behind |
| `udp_sticky` | violation of `DatagramResultsNeverSticky` | An unexpected errno on a UDP socket makes its result sticky, against spec section 7 and the comment in `doio_send` |
| `connect_not_connected` | violation of `ConnectedAfterConnect` | `internal_connect` completes a connect without setting `connected`, so later ECONNREFUSED on that stream is soft |
| `pipe_deadlock` | violation of `NoPokeDeadlock` | Two pokes fill a pipe of two. `destroy()` pokes a third time and spins holding the manager lock. The watcher, back from `select()`, waits for that lock at line 1740 and never reads the pipe. The control loop itself cannot deadlock this way: it reads a message (1749) before it locks the socket (1804) |
| `liveness_refinement` | pass (about 63k states, about 3 min) | See the second list below |

In the `core` run, in every state reached:
- no internal event names a freed socket or an old incarnation (`NoUseAfterFree`);
- pending flags match the queued internal events (`PendingMatchesQueuedEvent`);
- the watcher never watches a closed descriptor, nor reads for a socket whose `readable_ev` is in flight (`WatchedFdsOpen`);
- a queued receive is always watched or poked (`RecvWatched`);
- completions keep request order (`CompletionFIFO`);
- a sticky result is what the last completion carried (`StickyResultReplayed`);
- after `isc_socketmgr_destroy`, nothing is open or queued (`ShutdownQuiescent`). With no listener, no accept can race the shutdown.

It also checks the byte level (`MsgHdr`): for every live socket, over every request of its type built from buffers of up to 2 bytes, lists of up to 3 buffers and `ISC_SOCKET_MAXSCATTERGATHER = 2`. Each check is a table, one entry per socket type, that TLC evaluates once (`RecvIovecsHold` and the like in `MCSocketIO`). These bounds give a list longer than the iovec array, a buffer partly filled by a short read, a datagram longer than the room, and a stream region read in two steps:
- `build_msghdr_recv` writes no iovec past its array; the overflow iovec uses the stolen slot (`MCRecvIovecsWithinArray`);
- the bytes `doio_recv` counts as received (`dev->n`, the buffers' used counts) are exactly the bytes the kernel wrote through the iovecs, and the update loop never runs off the list (`MCRecvKeepsWhatKernelWrote`);
- a datagram is delivered with the bytes that fit, with TRUNC exactly when it was cut, whether the overflow byte or MSG_TRUNC tells, for every non-empty datagram (`MCDatagramDelivered`);
- after a short write, `build_msghdr_send` offers exactly the unsent bytes in order (`MCSendResumesAfterSent`);
- `DoIO`'s table, which `SocketIO` uses, returns the same `DOIO_*` code as the byte-level code for every step (`MCDoIOAbstractsBytes`).

The `core` run checks these up to the first fault; the violation runs show the faults.

The `liveness_refinement` run checks `FairSpec`. Its bounds:
- `Fds = {1, 2}` and `MaxCreates = 1`. The second descriptor comes only from `accept()`, and can be closed and accepted again.
- `MaxCalls = 2`: two accepts, or an accept and its cancel, on the listener.
- every `accept()`, `connect()` and `SO_ERROR` class;
- `Types = {"tcp"}`: a listener and accepted sockets are streams. The datagram paths are covered by the safety properties of `core`. Each temporal property costs a pass over the behaviour graph, and a datagram socket would double that graph;
- no symmetry, since symmetry is unsound for liveness;
- `PipeCapacity = 8`, more pokes than that many calls can make, so no poke spins.

It is the pass run with a listener. So besides `PendingMatchesQueuedEvent` and `RecvWatched` for `pending_accept`, the accept list and accepted descriptors, and `MaxfdCoversManaged` (every descriptor the manager owns, whether `Create` or `internal_accept`'s registration put it there, is within the `maxfd` range that the scan walks and closes), it shows:
- `SocketIO` implements `SocketQueue` (`QueueSpec == SQ!Spec`), through the refinement mapping in `SQ == INSTANCE SocketQueue WITH ...`:
  - the ids on each list;
  - the sticky results;
  - `hist`.

  So `isc_socket_recv/send` only append, and `internal_recv/send` only complete a head of the list. The sticky result only changes from `Success` and is replayed. Cancel only removes, and `destroy()` retires only an idle socket.
- Every socket whose last reference is dropped has its descriptor closed, unless the process aborts (`DestroyedSocketClosed`).
- `isc_socketmgr_destroy` returns (`ShutdownCompletes`).
- A receive queued on a live, referenced socket leads to `readable_ev` being sent to its task, unless the list empties, the socket goes away or the manager shuts down (`RecvEventuallyDispatched`). This needs the kernel to report the descriptor readable. The model does not assume that: the property states it as a premise, `SF_vars(ReportsReadable(f)) => ...`. Without the premise, a select() that never reports the descriptor would violate the property trivially. The property exercises the re-arming poke of `internal_recv` (line 1587) and of `isc_socket_recv`, the watcher's control loop, and the scan.

Each property of a passing run has a mutant: a definition of the model replaced by a plausible bug (see `PROJECT.json`), which TLC shows breaks the property.

### Fairness (`Fairness` in `SocketIO`)

| Steps | Fairness | Why |
|---|---|---|
| The watcher's steps, `TaskRun(t)`, `PokeRetry`, `MgrJoin` | weak | Threads the OS and the task manager keep scheduling |
| `select()` returning with the control pipe readable | strong | `select()` is not interrupted by signals for ever |
| `Destroy(f)`, `AcceptRegister(t)` | strong | A thread blocked on the manager lock gets it when the watcher keeps releasing it around `select()`. This is a fair-mutex assumption: POSIX does not guarantee it, but the watcher holds the lock only between two `select()` calls |
| Application calls, kernel readiness, `isc_socketmgr_destroy` | none | The environment's choice. `RecvEventuallyDispatched` states kernel readiness as a premise of the property, not of the specification |

## 4. Not modelled yet

Parts of `socket.c` that a model could still cover:

1. **Completion of requests.** `RecvEventuallyDispatched` shows that a queued receive reaches its task's event when the kernel reports readiness. Whether `doio_recv` then completes the request depends on the kernel's answer: a `soft` answer may repeat for ever, and the spec gives requests no timeout. So completion itself is not claimed.

Not checked by a property:
- A zero-length UDP datagram is read and treated as soft (`doio_recv`, line 806). The datagram is consumed, and the request waits for the next one, although the comment calls empty datagrams "perfectly valid". No property judges it: the spec gives no rule for it, and `MCDatagramDelivered` states nothing about empty datagrams. `MCDoIOAbstractsBytes` only checks that the `DoIO` table agrees with the byte-level code here.
- `INSIST(iovcount < maxiov)` (lines 459 and 576) is checked before every remaining buffer, empty ones included. A `recvv` list with more buffers than `ISC_SOCKET_MAXSCATTERGATHER` (one fewer on UDP with the overflow slot) aborts, and the API sets no limit. The properties skip these steps; the limit is not documented under `src/`.
- A stream `isc_socket_recv` of a zero-length region (allowed: `length >= minimum = 0`) reads 0 bytes and takes it as EOF (line 752), so the socket's `recv_result` becomes sticky EOF. Spec section 4.4 says the same of any 0 on a stream.
- A marker on an empty list is sent with `isc_task_send` to its sender, which is still the socket (line 3027). The model records the abort as a fault site of `Mark`. No run checks it, because the only property it breaks is the fault flag itself.
- Detaching the last reference with requests queued reaches `destroy()`'s INSISTs (line 913), contrary to the spec's detach scenario. `Destroy` records it as a fault site. No run checks it.
- The pipe deadlock needs the pipe full. A real pipe holds thousands of pokes, where the model holds two, but the wait cycle is the same for any capacity.

Not modelled, by design:
- In `MsgHdr`, the values copied into the event (address, pktinfo, timestamp) and the PKTINFO control message `build_msghdr_send` attaches. No decision of the engine depends on them.
- `isc_socket_bind`, `getpeername`, `getsockname`, `gettype` and `make_nonblock`. Each is a single system call and touches no shared state.
- The `FATAL_ERROR` exits on failing system calls.
- Logging and tracing.
