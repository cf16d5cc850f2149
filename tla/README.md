# A TLA+ development for the HTTP client stack and the SQLite binding

The repository is an OCaml monorepo. Nearly all of its 50 000 files are vendored
packages (`opam/`, about 417 of them); the project's own code is in `avsm/`,
`bleeding/` and `cwrm/`. This development is about the parts of that code where
fibers, system threads or the garbage collector meet. One is the HTTP client
stack

    requests  (bleeding/requests/lib)       sessions, cache, HTTP/1, HTTP/2
       |  Conpool.connection ~sw pool endpoint
    conpool   (bleeding/conpool/lib)        a pool of TCP/TLS connections
       |  Mutex, Condition, Stream, Switch, Fiber
    eio       (opam/eio/lib_eio)            cooperative fibers

and the other the SQLite binding

    sqlite3_eio    (bleeding/sqlite3/lib_eio)   fibers, cancellation
       |  Eio_unix.run_in_systhread
    sqlite3_stubs  (bleeding/sqlite3/lib)       C stubs, reference counts
       |
    SQLite         (vendored)

Paths below are relative to the repository's root.

## 1. Inventory

### The parts modelled

| Part | State it keeps | Operations | Talks to |
|---|---|---|---|
| conpool (`conpool.ml`) | per endpoint an `endpoint_pool`: list of connections, `ep_mutex`, statistics; per connection `pc_active_users`, `pc_use_count`, `pc_closed`, clocks, a condition; the table of endpoints | `connection` = `get_or_create_endpoint_pool` + `acquire_connection`, with `release_connection` when the caller's switch ends; `clear_endpoint`; end of the pool's switch | Eio's mutex, condition and switch; the protocol's `is_healthy`, `on_close` |
| Eio mutex (`eio_mutex.ml`) | locked, unlocked or poisoned; waiters | lock, unlock, `use_rw` with protection and poison, cancellation of a waiter | |
| HTTP/2 stream (`h2_stream.ml`) | RFC 9113 state, flow-control windows | `transition`, `apply_event`, `credit_send_window`, `update_initial_window_size` | |
| HTTP/2 client (`h2_client.ml`, `h2_connection.ml`) | stream table, handlers with a bounded event queue each, connection window, peer settings, connection state and error, the reader fiber | `request` (headers, body under flow control, response), `start_reader`, `dispatch_frame` | the flow, Eio's stream and mutex |
| HTTP/2 in the pool (`h2_conpool_handler.ml`, the HTTP/2 path of `requests.ml`) | per connection `goaway_received`, the cached `max_concurrent_streams`; per request the attempt | `init_state`, `on_acquire`, `is_healthy`, `on_close`, `access_mode`, `request`; `try_h2`, `clear_endpoint`, the second `try_h2` | conpool calls the handler under `ep_mutex`; the handler calls the HTTP/2 client; requests clears the pool |
| response cache (`cache.ml`) | a table from URL to entries, `total_entries` | store, lookup, invalidate, clear, eviction | its own mutex; used by callers of the library, not by `requests.ml` |
| SQLite stubs (`sqlite3_stubs.c`) | `db_wrap` with a reference count and two lists of rooted closures; `stmt_wrap` | open, close, exec, prepare, recompile, step, reset, finalize, create and delete functions and collations; the finalisers | the OCaml runtime lock and collector; SQLite |
| SQLite from fibers (`sqlite3_eio.ml`) | the handle, `closed`; per call a system thread and a watcher | exec, prepare, step, reset, finalize, iter, fold, close | Eio's thread pool and cancellation; the stubs |
| Eio stream (`stream.ml`) | bounded queue | `add` blocks when it is full, `take` when it is empty | |

### What is hard in them

* **conpool**: `ep_mutex` is held across name resolution, connect and TLS, and
  across the wait for a free connection; the same mutex is needed to release.
  It is not reentrant, is handed over in FIFO order and is disabled by an
  exception. A connection may go stale while it is idle, while it is lent, or
  while others wait; it has several users in shared mode. Correct means: user
  counts agree with who holds what, limits are kept, nobody gets a retired or
  unhealthy connection or loses one that is still in use, every acquire and
  release ends, a retired connection is closed, a failed connect does no harm.
* **HTTP/2**: one reader fiber serves all requests through bounded queues, so a
  slow or abandoned request can stall the others; send windows are changed by
  the request fibers and by the reader, and resized by SETTINGS; GOAWAY, EOF and
  bad frames are announced with `handlers_mutex` held; results of `apply_event`
  are ignored. Correct means: the windows agree with what the peer granted, `Ok`
  means the whole final response, every request ends.
* **HTTP/2 in the pool**: the pool judges a connection by `is_healthy`, which does
  not learn of its end; one request's failure clears the endpoint under all
  others and repeats the request; `on_close` writes to a connection that may be
  gone, inside the pool's critical section. Correct means: an old connection
  costs a request nothing but its retry, every request ends.
* **SQLite**: three owners of the same memory (handle, statements, SQLite), freed by
  the collector in any order, also while a blocking call runs; two locks taken
  in both orders; an interrupt that works on the connection and not on a call.
  Correct means: nothing points to freed memory, nothing is left open, a
  fiber disturbs no other by returning normally, every call ends.
* **Cache**: a store replaces by one relation (does the request match the old
  entry?) what a lookup finds by the same relation but for another request.
  Correct means: a request finds the newest response it may be given, variants
  are stored once, there are never more than `max_entries`.
* **Eio primitives**: ownership of a mutex must pass to a waiter that still
  waits; a cancelled waiter must leave the queue.

The hazards are listed line by line in `PROJECT.json` with the properties that
would catch each of them, and with the reason where no property covers it yet.

### The parts not modelled

| Part | Why |
|---|---|
| conpool's configuration, endpoints, command line | records, printers, terms; the settings the pool reads are constants of `Conpool` |
| HTTP/2 handshake's frames, receive windows, server push, `request_sync`, `one_request`, the one-shot connection of `h2_adapter.ml` | open, see the plan |
| frames, HPACK, header mapping | codecs; only what `h2_headers_to_response` makes of `:status` is modelled |
| HTTP/1 client, expect-continue | open |
| redirects, retry policies, learning the protocol hint (`requests.ml`) | open; `H2Pool` begins once the hint says HTTP/2 |
| the cache's ages, freshness and validation | arithmetic on dates, without interaction |
| SQLite's bind, column, backup, error text | move values, without shared state of their own |
| websocket, authentication, signatures, proxies, headers, bodies, URIs | pure data and parsing, or one exchange without shared state |
| httpz, cookeio, claude, ip-echo, oxtop | independent of the client stack; httpz's lock table and cookeio's jar are later candidates |
| AT protocol, web applications, API clients, command-line tooling, codecs | generated code, sequential drivers, byte-level encoders |
| `opam/` | vendored, except the Eio primitives above |

Counted in lines, the models cover a small part of the tree and cannot cover
much more: of the tree's C sources and headers nearly everything is vendored, and
mostly generated arithmetic and tables of `mirage-crypto` or SQLite's own
amalgamation header. The project's own C is the one file `sqlite3_stubs.c`, which
is modelled; its own OCaml is what the table above lists.

## 2. The modules

| Module | Contents |
|---|---|
| `Conpool` | the connection pool and its mutex, its properties, the refinement mapping to `Leases` |
| `Leases` | the abstract specification: what a pool promises its users |
| `MCConpool` | instances of `Conpool` for TLC (sets of fibers and of faults, symmetry) |
| `ConpoolSafetyProofs` | types of `Conpool`, its inductive invariant, the safety theorems that follow from it, and that it implements `Leases`, proved |
| `ConpoolCountProofs` | mutexes and their queues, the statistics, sockets, and when nobody waits, proved on top of it |
| `H2Stream` | the stream state machine and the send-window arithmetic, as operators |
| `H2Client` | request fibers, the reader fiber, and the peer, over `H2Stream` |
| `MCH2Client` | instances of `H2Client` for TLC |
| `H2ClientProofs` | all invariants of `H2Client`, proved |
| `H2Pool` | requests with their retry, over pooled HTTP/2 connections: pool, handler and client composed, each cut down to what the others see |
| `H2PoolProofs` | its type invariant and `StaleIsRetried`, proved |
| `Cache`, `CacheProofs` | the in-memory response cache; all its invariants, proved |
| `DataLemmas` | sums over finite sets, least elements, injective sequences: lemmas that `H2ClientProofs` and `CacheProofs` share |
| `Sqlite3Stubs`, `Sqlite3StubsProofs` | ownership of memory and connections in the C stubs; all its invariants, proved |
| `Sqlite3Eio`, `Sqlite3EioProofs` | fibers that share a handle, its two locks and cancellation; its invariants, proved |
| `MCH2Pool`, `MCCache`, `MCSqlite3Stubs`, `MCSqlite3Eio` | their instances for TLC |

A definition named `...` that follows a comment "Mutant:" is not part of the
specification: it is a plausible bug of the definition after it, kept so that
one can see which property that bug breaks.

### 2.1 `Conpool`

Fibers of one Eio domain are cooperative, so the code between two suspension
points is one action. In `conpool.ml` these are: a contended `ep_mutex`, the
connect inside `create_connection`, and the wait at the connection limit.
`stats_mutex` and `endpoints_mutex` are never held across a suspension, so they
are never contended and are left out. All fibers talk to one endpoint; different
endpoints share nothing but the table.

| Variable | Code |
|---|---|
| `pc`, `pool`, `conn`, `ops` | where a fiber stands, the `endpoint_pool` it looked up, the connection it uses or awaits, the sessions it began |
| `table`, `made` | the endpoint's entry in the Hashtbl, the `endpoint_pool`s made so far (`clear_endpoint` drops the entry, and fibers that looked the old one up keep using it) |
| `holder`, `queue`, `poisoned` | `ep_mutex` |
| `connections`, `stats` | fields of the `endpoint_pool`; the list grows only at its head, so it is a set of creation numbers read newest first |
| `users`, `uses`, `closed` | `pc_active_users`, `pc_use_count`, `pc_closed` |
| `flow`, `hooked`, `stale` | the socket is open; `on_close` was called; the reasons for which `check_health` would refuse the connection |
| `shut` | the pool's switch is released |

| Action | Code |
|---|---|
| `StartAcquire` | `get_or_create_endpoint_pool` and the lock of `acquire_connection`; raises on a poisoned mutex |
| `AcquireReuse` | `find_available` returns a connection; the unhealthy ones it met before it are marked closed and not closed |
| `AcquireConnect` | nothing available, room below the limit: suspended in `create_connection` with the mutex held |
| `AcquireAtLimit` | at the limit: either the recursive call, which locks the mutex its caller owns, or the wait for `pc_user_available`, with the mutex held |
| `CreateSucceeds`, `CreateFails` | the connect returns, or raises and poisons the mutex, so that queued fibers fail too |
| `StartRelease`, `Release` | `release_connection`: users, statistics, retirement, broadcast, as one critical section |
| `StartClear`, `Clear` | `clear_endpoint` |
| `CancelLock` | cancellation of a fiber queued on the mutex (what follows is protected) |
| `GoStale` | a protocol failure, or a clock of `check_health` running out |
| `Shutdown` | the pool's switch is released after the fibers below it are done |

`Leases` has two variables: `lease`, the connection each fiber has, and
`retired`. A step lends one connection that is not retired and has room, or
takes some leases back, and `retired` only grows. `LeasesSpec` instantiates it
with `lease` = the connection of a fiber between acquire and release, `retired` =
the connections with `pc_closed`.

### 2.2 `H2Client` and `H2Stream`

`H2Stream.Transition` follows the machine of `h2_stream.ml` case by
case; `ApplyEvent` leaves the state alone on an error, as every caller does.

`H2Client` starts after the handshake. Each request fiber makes one request.
A step runs to the next suspension: a read or write of the flow, `Stream.add` on
a full queue, `Stream.take` on an empty one, `handlers_mutex` while the reader
holds it across a blocked `add`, or the fork of the reader, which runs before the
request that forks it goes on.

| Variable | Code |
|---|---|
| `pc`, `off`, `chunk` | where `request` stands, body bytes written, bytes of the DATA frame being written |
| `window`, `initial`, `stream` | the stream's `send_window`, `initial_send_window`, state |
| `status`, `got`, `outcome` | the `pending_response`, and what `request` returned |
| `handlers`, `events` | the handler table and the handlers' queues |
| `connWindow`, `peerInit`, `connState`, `connError` | `H2_connection`'s window, the peer's `initial_window_size`, state, `connection_error` |
| `reader`, `todo` | the reader: reading, blocked in `add`, notifying every handler, stopped, dead of an exception |
| `wire`, `srv` | frames in flight and the peer, which are the environment |
| `drifted` | history, which no action reads: the streams that SETTINGS resized from a size that was not the one in force |

| Action | Code |
|---|---|
| `Refuse`, `StartReader`, `Start` | `request` up to its first write; the fork of the reader by the first one, during which only the reader runs |
| `WriteHeaders`, `SendChunk`, `ChunkWritten`, `AwaitWindow`, `TakeWhileSending` | headers and the body loop: window test and consumption, write, wait for an event when a window is exhausted |
| `TakeResponse`, `Unregister` | `wait_for_response` and the removal of the handler |
| `WriteRaises`, `Cancel` | `request` raises; its handler stays registered |
| `ReadForStream`, `ReadStreamUpdate`, `ReadConnUpdate`, `ReadSettings`, `ReadGoaway` | `dispatch_frame` |
| `ReadEnd`, `Announce`, `Notify`, `ReaderDies` | end of the connection, announced to the handlers until one has no room, and resumed; the reader's own write raising, after the SETTINGS it acknowledges were applied |
| `Deliver`, `Unblock` | `Eio.Stream.add`, suspended while the queue is full |
| `ReplyHeaders` ... `Close` | the peer (external): a server that answers and replenishes windows, and the faults it may commit |

### 2.3 `H2Pool`

`Conpool` and `H2Client` check the pool and the client each against any behaviour
of the other. `H2Pool` composes them, cut down: of the pool the table,
`ep_mutex`, the list and the user counts, below the connection limit; of the client
one event per request; of the handler everything. What it adds is the loop
through all three: a request fails, clears the endpoint, and tries again.

| Variable | Code |
|---|---|
| `pc`, `attempt`, `answer`, `result`, `pool`, `conn` | where a request stands in `try_h2`, `clear_endpoint` and the second `try_h2`, the first event its handler got, what the attempt returned, the `endpoint_pool` and connection it uses |
| `table`, `made`, `owner`, `poisoned`, `connections`, `users`, `pcClosed`, `flow` | the pool, as in `Conpool`; a flow may be broken, so that writes raise |
| `h2`, `lost`, `reader` | `H2_connection.state`, `connection_error`, the reader fiber |
| `cached`, `peerLimit` | the handler's and the client's `max_concurrent_streams` |
| `disturbed` | what `StaleIsRetried` remembers: a request met a fault, or another request's clear |

| Action | Code |
|---|---|
| `Start`, `AfterRelease`, `ClearEnd` | the arms of `try_h2` and its retry in `requests.ml`, each up to the lock of `acquire_connection` |
| `AcquireReuse`, `AcquireConnect`, `ConnectOk`, `ConnectFails` | `acquire_connection` with `is_healthy` and `access_mode`; `init_state`, `on_acquire` |
| `Write`, `Take` | `H2_conpool_handler.request` over `H2_client.request`; the refresh of the limit |
| `Cancel` | cancellation, in the queue of `ep_mutex`, while the request writes, or while it waits for its answer; connect, release and clear are protected |
| `Release`, `LockPoisoned` | `release_connection`; a poisoned mutex |
| `ClearLock`, `ClearOne`, `ClearEnd` | `clear_endpoint`, with one `on_close`, and its write, per step |
| `ReaderCancelled`, `Peer...` | the reader as it dispatches what the peer sends |

### 2.4 `Sqlite3Stubs`

OCaml code runs under the runtime lock, so every stub is an action, and a step or
an exec, which leave the lock, a begin and an end. In between, the collector may
finalise any dropped handle or statement that the call does not root.

`wrap`, `dbptr`, `refs`, `linked` are a `db_wrap`; `owner`, `vm` a `stmt_wrap`;
`handle`, `stmt` the OCaml values as the collector sees them; `conn`, `reg` are
SQLite's side, modelled from its header (`close_v2` and zombies, `finalize`,
`create_function` refused while a statement is active). `label` and `made`
number the cells of functions and collations. The actions have the names of the
stubs. The model keeps the two rules of sqlite.org/threadsafe that
`sqlite3.mli` refers its callers to: nobody finalises or resets a statement
another thread steps, or closes a database another thread executes on.

### 2.5 `Sqlite3Eio`

Per fiber one call at a time, of any kind: on the event loop `StartCall`
(`check_open` and the submission), `Cancel` (the watcher's interrupt), `Return`; in
the system thread `Begin`, then either `Stub` (`Keeping`: prepare, reset, finalize
wait for the connection's mutex with the runtime lock held) or `EnterSql`,
`CallBack`, `RunCallback`, `LeaveSql`, `Leave` (`Execs` and `Steps` release the runtime
lock around SQLite). The kinds in `WithCallback` take the runtime lock again
below the mutex: an exec for its row callback, an exec or a step for a function or
collation of the program. `vm` is the fiber's own statement, which step may leave
between two rows, reset ends and finalize removes; exec and prepare work on other
statements, also between two rows. A fiber whose call was cancelled may call
again. `StartClose` and `EndClose` are `close_state` on the event loop. `rt` and `mx`
are the owners of the two locks. With `Careful`, calls that call back share the
handle with no other call: a hypothesis about the program, which the code does
not enforce.

### 2.6 `Cache`

`entries` and `total` are the fields of `t`; `Store`, `Invalidate`, `Clear` are the
operations, each under the mutex from its first step to its last; `Lookup` is an
operator, since it changes nothing but hit counters. `Evicted` allows any order
of the hash table. `newest` is what a property remembers: per request the response
stored last of those RFC 9111 entitles it to (`Entitled`), which is a relation of its
own and not the code's `Matches`.

## 3. What is checked

### Runs that pass

| Run | Instance | Shows |
|---|---|---|
| `conpool_exclusive` | 3 fibers, 2 connections of 1 user, 1 reuse each; idle timeouts, failing connects, cancelled waiters, `clear_endpoint`, shutdown | `UsersMatchHolders`, `ActiveBoundsInUse`, `ConnectionLimit`, `UseCountLimit`, `CriticalSectionOwned`, `BroadcastReachesNobody`, `StuckOnlyAtLimit`, and refinement of `Leases` |
| `conpool_shared` | 2 fibers, 2 connections of 2 users; protocol failures and lifetimes that end while the connection is in use, cancelled waiters | `TypeOK`, `IdleNeverUnderstated`, `UserKeepsSocket`, `NeverStuck`, `HandOutsAreUsable`; every acquire and release ends |
| `h2_safety` | 2 requests, one with a 2-byte body; cancellation, early answers, end of file, a dying reader, two frames among SETTINGS, bad ones and unasked credit | `TypeOK`, `WindowMatchesPeer`, `OkIsWholeResponse` |
| `h2_liveness` | 2 uploads, event queues of one entry; interim responses, trailers, undecodable headers, resets, GOAWAY | `ConnCreditConserved`, `OkMeansFinished`; every request ends |
| `h2_pool` | 2 requests, a limit of 1 stream raised to 2 and lowered again, 2 faults out of reset streams, GOAWAY, end of file, broken sockets, SETTINGS, failed connects; cancellation | `TypeOK`, `StaleIsRetried`; every request ends |
| `cache` | 2 URLs, variants by one header of 3 values or absent, 10 entries | `LookupFindsNewest`, `OneEntryPerVariant`, `EntriesWithinLimit`, `TypeOK` |
| `sqlite3_stubs` | 1 database, 2 statements, 3 cells of one name and two arities | `NoDanglingWrap`, `NoDanglingConnection`, `CollectedIsClosed`, `CollectedIsFreed`, `NullaryCellsAlive`, `TypeOK` |
| `sqlite3_eio` | 2 fibers, 2 calls of any kind each, `Careful` | `TypeOK`, `NormalReturnsInterruptNobody`; every call ends |

### Runs that end in a counterexample

Each checks one sentence of the documentation or of a comment against the code.

| Run | What happens |
|---|---|
| `conpool_wait` | `conpool.mli:177` promises that an exclusive acquire "blocks until a connection is available". At the limit the fiber awaits `pc_user_available` while it owns `ep_mutex`; a release needs that mutex before it broadcasts. The waiter waits for ever, and so do all releases. With `OneFiber`, an idle timeout among the faults and one connection, no connection need be in use: `find_available` marks the expired one closed, and `acquire_connection` calls itself and locks the mutex it owns. |
| `conpool_leak` | `config.mli:153`: `on_close` is the "Cleanup callback when connection is destroyed". `release_connection` sets `pc_closed` before it calls `close_connection`, which returns at once when it is set. Neither socket nor protocol is closed until the pool's own switch ends. `find_available` does the same. |
| `h2_pool_broken` | `requests.ml:555`: "Stale/broken connection - clear endpoint and retry once". A connection the peer has reset still counts as open, so `clear_endpoint` has `on_close` write a GOAWAY to it; the write raises under `ep_mutex`, which disables it, and `try_h2` is not run again. Every later request of the endpoint fails too. |
| `sqlite3_sharing` | `sqlite3_eio.mli:24`: "multiple fibers sharing a handle via system threads are safe". An exec, or a step that uses a function of the program, waits for the runtime lock to run the callback, with the connection's mutex; a prepare, finalize or close in another thread waits for the mutex with the runtime lock. Nothing runs any more. |

### Bounds, and why they are enough

* `MaxOps` (sessions and clears a fiber begins) is 2: a connection can be made,
  given back, and be reused or refused. `MaxCreated` and `MaxPools` are 3 in
  `conpool_exclusive`: a full pool and one more connection, and two
  generations of `endpoint_pool` after the first. Three fibers give a holder, a
  fiber in the critical section and one queued behind it; in shared mode two
  fibers are two users of one connection. `MaxUses` is 1, the
  boundary of the comparison, in the exclusive run; the shared one has no limit.
* `conpool_shared` has as many connections as fibers and two users for each, which
  is what `NeverStuck` and the liveness properties need: `find_available`
  counts the stale connections it meets in the same call against the limit, so
  in exclusive mode a pool exactly as large as the number of fibers can still
  get stuck (`StuckOnlyAtLimit` says when).
* HTTP/2: windows of at most 2 or 3 bytes for `MaxWindow`, with bodies of 1 and 2
  bytes, let a window be exhausted, reopened, overflow and be pushed below zero
  by SETTINGS 0. In `h2_safety` the connection window is a single byte, so every
  byte of a body waits for its credit, and a response has two DATA frames, so that
  losing the first would show. `QueueCap` 1 makes the reader block (64 in the
  code: only the number of events before that differs). `WireCap` bounds the
  frames in flight, `MaxUnasked` the SETTINGS after the first, frames to reject
  and unasked credit together: two in `h2_safety`, so that streams are resized
  once, twice, and from a size that is no longer in force, and a bad frame meets a
  changed window. Of streams resized from such a size (`drifted`)
  `WindowMatchesPeer` says nothing, see below.
* `H2Pool`: two requests, of which one can clear the endpoint under the other, two
  faults (one that fails the request and one that meets its retry), four
  connections and pools (each request opens at most two).
* SQLite: two statements and a handle are three references to one `db_wrap`, in
  all orders of finalisation; three cells, of two arities, let a name be
  registered, shadowed and deleted. Databases share nothing, so one is enough.
  Two fibers are the smallest number that share a handle; the theorems below
  hold for all numbers.
* `Cache`: 10 entries is the smallest `max_entries` with a tenth of at least one;
  more than 10 stores on 2 URLs evict, and drift.
* Fiber symmetry is used only in runs without liveness properties.
* `CHECK_DEADLOCK FALSE` everywhere: requests and sessions end, bounds are
  reached, and some behaviours of the code really do hang, which the
  properties above state separately.

### Fairness

Eio runs every runnable fiber in turn, so a fiber that owns the mutex, has
something to take or has room to add takes its step (weak fairness, per fiber).
A connect returns or times out (`Net.connect` is under `Time.with_timeout`; name
resolution and TLS are not, and are assumed to end). A session ends, since
`release_connection` is a handler of the caller's switch. In HTTP/2 each request
fiber is a call that is made, and the peer answers a complete request and
replenishes the windows it saw used; without that no client could finish.
In `H2Pool` and `Sqlite3Eio` fairness is strong for the steps of a request or a call: the
pool's mutex is FIFO, and a thread that waits for a lock which is free again and
again does get it. Statements end, by themselves or interrupted. Nobody need
start, cancel or close anything.
Nothing is assumed of faults: no clock need run out, no frame need be bad, nobody
need be cancelled.

### Where a document and the code disagree

Besides the four runs above. The properties are worded so that they claim no more
than the code keeps in these cases, and do not claim that the code is right there.

| Document | Code |
|---|---|
| `stats.mli:27-28`: `active` is the "Number of connections currently in use." | It counts users: `acquire_connection` and `release_connection` add and subtract one per user. With two users of one connection it is 2. `ActiveBoundsInUse` says that it is exact when a connection has one user, and between connections and users otherwise. |
| `stats.mli:30-31`: `idle` is the "Number of connections in pool waiting to be reused." | Connections that `find_available` drops are not subtracted, so it may overstate for ever. `IdleNeverUnderstated` is the other half. |
| `config.mli:39-40`: `max_connections_per_endpoint` is the "Maximum concurrent connections per endpoint" | It bounds one `endpoint_pool`. `clear_endpoint` drops the table's entry while fibers still connect and hold connections in the old one (`conpool.ml:669`), and the next fiber makes another. `ConnectionLimit` is about one `endpoint_pool`. |
| RFC 9113 6.9.2 (`spec/rfc9113.txt:2213-2216`): a receiver "MUST adjust the size of all stream flow-control windows that it maintains by the difference between the new value and the old value." | `update_initial_window_size` (`h2_stream.ml:369`) subtracts the stream's first window, which it never updates. The first change is right, the second is wrong for every stream that lived through the first. `WindowMatchesPeer` leaves such streams out (`drifted`); without that `h2_safety` refutes it. |
| RFC 9113 6.9.2 (`spec/rfc9113.txt:2218-2221`): "A sender MUST track the negative flow-control window" | A SETTINGS that makes a window negative is an error of the whole connection (`h2_stream.ml:371`), after other streams have been resized. `WindowMatchesPeer` says nothing once `connection_error` is set. |
| `h2_conpool_handler.ml:15`: "Stream slot management respecting peer's max_concurrent_streams" | The handler copies the limit at the handshake and refreshes the copy only after a successful request (`h2_conpool_handler.ml:198`), so after a lowered limit the pool goes on with the old one; and a cancelled request gives its slot back without resetting its stream. No property claims that the limit is kept. |
| `cache.mli:175-176`: `size` is "the number of entries in the cache." | `total_entries` is incremented also when an entry was replaced (`cache.ml:199`), so it says more than there are, and after `max_entries` replacements each store evicts, possibly what it just stored. `EntriesWithinLimit` is that it never says less. |
| `cache.mli:127`: `max_entries` is the "Maximum number of entries" | A tenth of `max_entries` is evicted; below 10 that is none, and the cache grows without bound. `EntriesLimited` is proved for 10 and more, and the run has 10. |
| RFC 9111 4.1 (`spec/rfc9111.txt:1776-1782`, `1804-1807`; `cache.mli:6` says "per RFC 9111"): a stored response may be used only for a request with the same headers its `Vary` names, and an absent header "can only match another request if it is also absent there." | `vary_headers` keeps only the headers the storing request had (`cache.ml:169-180`), so an entry stored without the header is given to every request. `LookupFindsNewest` is about what a request is entitled to, and not about what it is given beyond that. |
| `sqlite3_eio.mli:15-18`: "If the calling fiber is cancelled [...] the underlying SQLite operation is interrupted via [sqlite3_interrupt] and the cancellation exception propagates normally." | The interrupt works on the connection: it stops every statement that runs on it, those of other fibers included, and none if the call has not begun its own. SQLITE_INTERRUPT is a normal return, so the cancelled fiber's `run` may return a result. After a close, the interrupt raises. `NormalReturnsInterruptNobody` is about programs in which nothing was cancelled yet. |
| `sqlite3.mli:78-79`: "It is good practice to manually close database handles to free resources as quickly as possible." | After an explicit close the finaliser of the handle gives up no reference, so the `db_wrap` and the closures it roots are never freed. `CollectedIsFreed` is about databases left to the collector. |
| `sqlite3.mli`: `delete_function` "deletes function with name [name]" | It deletes the function of arity 0 in SQLite and frees the newest closure of that name (`sqlite3_stubs.c:1531-1543`), so a function of another arity stays registered, with a freed closure. `NullaryCellsAlive` is what remains true. |
| RFC 9113 8.1 (`spec/rfc9113.txt:2408-2413`): trailers are a HEADERS frame without pseudo-header fields | Every HEADERS frame goes through `h2_headers_to_response`, which makes 200 of a block without `:status`: trailers turn a 404 into a 200. `OkIsWholeResponse` is checked and proved without trailers. |
| RFC 9113 6.8 (`spec/rfc9113.txt:2024-2028`): "Activity on streams numbered lower than or equal to the last stream identifier might still complete successfully." | GOAWAY fails every stream (`h2_client.ml:285-295`). |
| RFC 9110 9.2.2 (`spec/rfc9110.txt:3883`; `retry.mli:72-75`): a non-idempotent request should not be retried automatically | The retry of `requests.ml:553-562` does not look at the method. |
| `stats.mli:39-40`: `total_closed` is "Total connections that have been closed." | It counts a connection once per user that retires it, and connections that are retired and not closed. |
| `config.mli:42`: `max_idle_time` is the "Maximum time a connection can sit idle" | The clock runs from the last acquisition, so a long use counts as idle time. |
| `config.mli:49`: "Number of connection retry attempts" | They happen inside one connect. If the last fails it raises under `ep_mutex`, which disables the endpoint for good; `clear_endpoint` raises as well. |
| `cache.ml:127`: "Evict oldest entries if over limit" | Eviction is in the order of the hash table, by whole URLs. |

### Observed, and not stated as properties

What the code also does. The RFCs under `requests/spec` have been compared with it
only where the table above cites them.

* `clear_endpoint` closes sockets under their users, which is why `UserKeepsSocket`
  is checked without `clear`.
* A body `Some ""` sends neither DATA nor END_STREAM. A response that arrives
  while the body is being sent is discarded and the request then waits.
* The reader may block on a full queue while it holds `handlers_mutex`, and then
  a finished request cannot unregister. A reader that dies of an exception tells
  no one, and the first request, if the reader it forks finds the end at once,
  registers after the end was announced and is never told: it hangs. These are
  why `EveryRequestEnds` is checked without the loss of the connection.
* A connection-level WINDOW_UPDATE wakes nobody: it goes to no handler, and a
  request that waits for its next event with both windows exhausted stays there.
  `EveryRequestEnds` fails without any fault with `InitWindow` 3 and
  `ConnWindow` 2.
* The queue of a cancelled request's handler is not emptied any more. Once it is
  full the reader blocks for ever (`Faults` {"cancel"}, `QueueCap` 1), and with it
  every request of the connection. A cancelled request does not reset its stream.
* Requests that fail together clear the endpoint one after the other, the second
  closing the first one's fresh connection; `clear_endpoint` removes the table's
  entry whichever pool it holds by then (`conpool.ml:669`). Every error of a
  request, a RST_STREAM included, clears the endpoint under all others.
* When a variant is replaced in the cache, an older one may answer again.
* An exception raised in a callback during `step` is not consumed there; a later
  failing `exec` of that thread raises it. A close between `check_open` and the
  thread's start raises the stubs' error, not the module's own.

## 4. What is proved

Every invariant that a passing run checks is proved, for every value of the
constants the module's assumption allows, and so are the action property
`HandOutsAreUsable` and the refinement of `Leases`. Five of the theorems have a
hypothesis about the constants (`SocketsKept`, `RoomForAll`, `OkIsFinished`,
`OkIsWhole`, `EntriesLimited`); it is in the theorem's statement, the run that checks
the property satisfies it, and the text says what happens without.

### 4.1 The connection pool

From `ConfigAssumption` (limits are positive, `MaxUses` positive or `NoLimit`) and
`BoundAssumption` (a finite set of fibers, the bounds are naturals),
`ConpoolSafetyProofs` proves

* `TypeCorrect`: `TypeOK`, together with `Placed` (what `pool` and
  `conn` refer to exists wherever a fiber's `pc` says it is used), without which
  `TypeOK` is not inductive;
* that `Inv` is inductive, and with it
  `MutualExclusion` (`CriticalSectionOwned`), `UsersCounted`
  (`UsersMatchHolders`), `LimitRespected` (`ConnectionLimit`), `UsesLimited`
  (`UseCountLimit`), `BroadcastIsUseless` (`BroadcastReachesNobody`),
  `StuckMeansFull` (`StuckOnlyAtLimit`) and `HandedOutUsable`
  (`HandOutsAreUsable`);
* `Implementation`: `Spec => LeasesSpec`.

`Inv` is the conjunction of `TypeOK`, `Placed`, `CriticalSectionOwned` and

* `Numbered`: connections in a list have been created, are in one list only, and
  a created number is not reused - needed to know that `CreateSucceeds` makes a
  connection nobody has;
* `Live`: a connection in the list that is not marked closed has an open socket -
  needed for `HandOutsAreUsable`;
* `UseCountLimit`, `ConnectionLimit`: the latter holds at `CreateSucceeds` only
  because the fiber that connects owns the mutex since it tested the limit, so it
  rests on `CriticalSectionOwned`;
* `StuckInv`: a stuck fiber's pool is frozen, since every change of it needs the
  mutex the stuck fiber owns; `BroadcastReachesNobody` follows, since the
  broadcast is made under that mutex;
* `UsersMatchHolders`: one lemma per way the set of holders changes
  (`UsersKept`, `UserAdded`), with the cardinality facts of
  `FiniteSetTheorems`.

Each step lemma (`TypeStep`, `OwnedStep`, `NumberedStep`, ..., `InvStep`) has one
step per action. The action property `HandOutsAreUsable` and the refinement take
`Inv` in the first state and need nothing of the second one but its type. In the
refinement, `RetiredForGood` is that `pc_closed` is never reset; a hand-out is
`Lend`, a release or the failure of releases is `GiveBack`, and all else
stutters.

`ConpoolCountProofs` adds to `Inv` what the statistics and the wait at the limit
need. `CountInv` is `Inv` and

* `MutexSound`: a mutex that fibers queue on has an owner, the owner and the
  waiters are fibers of that pool in the steps that wait, and nobody is queued
  twice; it is a theorem of its own (`NoWaiterLost`), since a hand-over to a
  cancelled waiter, or a poisoned mutex that keeps one, would break it;
* `Counts`: `active` is the number of borrowers (from which, and the limit of users
  per connection, the bounds by connections in use follow) and `idle` at least the number of
  open connections without users. `Dec` stops at zero in the code, so a counter
  that could be decremented once too often would stay wrong for good; the proof
  shows that the subtraction is never cut off while the mutex is not poisoned.
  `LendsOne` and `ReturnsOne` say how a step changes both cardinalities;
* `Saturated`: while a fiber connects, all open connections of its pool are used
  to capacity. This is the stale read of `find_available`, taken before the
  connect suspends: it remains true because whoever could change it needs the
  mutex.

From it follow `ActiveCounted` (`ActiveBoundsInUse`) and `IdleCounted`
(`IdleNeverUnderstated`). Two theorems need more than `CountInv`:

* `SocketsKept` (`UserKeepsSocket`) if `"clear" \notin Faults`: `clear_endpoint`
  closes sockets under their users, and is documented to, so the theorem is about
  programs that do not call it;
* `RoomForAll` (`NeverStuck`) if
  `Cardinality(Fibers) <= Capacity * (MaxConns - 1)`: a pool grows only while all
  its open connections are saturated (`Saturated`), so before its last connection
  is made the others alone have `Capacity * (MaxConns - 1)` users, none of them
  the fiber that connects. `Roomy` (fewer open connections than the limit) is
  the invariant, and the pigeonhole argument is the cardinality of a union of
  disjoint sets of holders. The bound is tight: with one fiber more the pool may
  be at its limit when an idle connection goes stale just before it is asked for.

### 4.2 HTTP/2 over the pool

For `H2Pool`, from `PoolAssumption` (a finite set of requests, positive limits),
`H2PoolProofs` proves

* `TypeCorrect`: `TypeOK`, in which `UsersExact` (`pc_active_users` is the number of
  requests that have the connection) is what keeps the counter from going below
  zero, together with `Placed`;
* `StaleRetried` (`StaleIsRetried`), by `Settled`: closed sockets belong to
  retired connections and broken ones to lost connections (`Sockets`), and for a
  request that nothing disturbs (`Calm`) the first attempt may fail on a
  connection lost before, but the second finds a pool with no such connection.

### 4.3 The HTTP/2 client

From `ClientAssumption` (finitely many requests, windows within the maximum, any
body, queue, frame size, wire and set of faults), `H2ClientProofs` proves

* `TypeCorrect` (`TypeOK`), by `Types`, which also says which frames can be on the
  wire and in a queue (`Sendable`) and what the reader holds while it is suspended;
* `CreditConserved` (`ConnCreditConserved`), without a hypothesis. `Stages` ties a
  fiber's `pc` to what it has registered and written - that `chunk` is zero except
  while a chunk is being written or has raised is what makes the sum over all
  fibers move by exactly one term - and `DataLemmas` supplies the sums
  (`SumExcept`, `SumReindex`);
* `WindowsAgree` (`WindowMatchesPeer`), for any number of SETTINGS: a stream in
  `handlers \ drifted` has the size in force before each of them, so the delta the
  code computes from its first window is that of the two sizes. The other streams,
  for which it is not, are `drifted`, and the property leaves them out;
* `OkIsFinished` (`OkMeansFinished`) if no body is `Some ""`: for that the loop of
  `send_body` writes no frame, hence no END_STREAM, and the stream never becomes
  half-closed;
* `OkIsWhole` (`OkIsWholeResponse`) if `"trailers" \notin Faults`: a block of
  trailers has no `:status`, and `h2_headers_to_response` makes 200 of it, which
  overwrites the response's own status.

The last one rests on `Claims`. The *pipe* of a request is its queue, the event the
reader is suspended with, and the wire. The pipe is `Sound`: in the order the peer
sent it, nothing of a response behind its end, no HEADERS but interim ones before
others. And a response that the peer has begun is either `Whole` (what the request
has got plus what is in the pipe is all the peer has sent, and the final status is
either taken or in the pipe) or `Doomed` (an event that ends the request with an
error is in the pipe, or its end or its HEADERS are lost, so that it can no longer
return `Ok`). The interesting steps are those that drop events: a request that
takes one while it sends its body, a reader that finds no handler, and a reader
that dies. Each leaves a response `Doomed`, and nothing makes a doomed response
whole again.

### 4.4 The response cache

`CacheProofs` proves the run's four invariants from `CacheAssumption` (finitely
many URLs; methods, header names and values may be any sets). `CacheInv` is the
types, `FindsNewest` (the newest response a request is entitled to is at the first place of
the list that matches the request), `Distinct` (no list has an entry twice) and
that `total_entries` is at least the number of entries; `EntriesLimited` adds, for a
`max_entries` of at least 10, that eviction always brings it back within the limit. `store` filters the list by one relation and `lookup`
searches it by another; the proof is that what the filter removes never includes
the first match of another request. Eviction is a sum over the URLs removed
(`SumSplit`).

`DataLemmas` proves these facts about sums without an induction theorem, whose
operator parameter no installed prover can instantiate: a claim about all subsets
of a finite set that fails has a smallest subset for which it fails
(`MinimalSubset`), and removing an element of it gives the contradiction.

### 4.5 The SQLite binding

`Sqlite3StubsProofs` proves every invariant of the run from
`StubsAssumption`, by an inductive `Inv` whose parts are: the reference count is the
number of owners of a wrap (`Counted`), every owner's wrap is alive (`Owned`),
SQLite's connection agrees with the wrap and its statements (`Wrapped`,
`Connected`), and what is registered has a cell (`Registered`). `Sqlite3EioProofs`
proves from `EioAssumption` the type invariant, which says who holds which lock,
and that as long as no call is cancelled or raises no statement is interrupted
(`Quiet`).

### 4.6 What is only model-checked

Liveness: `EveryAcquireEnds`, `EveryReleaseEnds`, `EveryRequestEnds` of both HTTP/2
modules and `EveryCallEnds`, which need `ENABLED` and fairness, out of the proof
system's reach. The properties of the violation runs are refuted by TLC and there
is nothing to prove.

## 5. Plan

The order is by how much of the system depends on the part.

Done:

1. `Conpool` with `Leases`: mutex, limit, statistics, clear and shutdown.
2. Its theorems: types, safety, refinement.
3. `H2Stream`, `H2Client`: concurrent requests, flow control, the reader.
4. The disagreements between documentation and code, as runs.
5. `H2Pool`: requests with their retry over pool, handler and client, and its
   theorems.
6. `Sqlite3Stubs`, `Sqlite3Eio` and `Cache`, with their theorems; those of
   `H2Client`, and of the pool's statistics.

Open:

7. `H2Receive`: receive windows on stream and connection, and writes that can be
   cancelled half-way.
8. The protocol hint of `requests.ml`, read before the wait for a connection, so
   that a second handshake may be started on one that speaks HTTP/2 already.
9. `Retry`: retry and redirect counts, and what the server may have processed.
   Abstract specification: a request is processed at most once unless it is
   idempotent.
10. `ExpectContinue`: the timer against the interim response, and the connection
    that goes back to the pool after a half-read body.
11. Theorems: that closed stream states are terminal in `H2Stream`; by how much the
    window of a `drifted` stream is off; `OkIsWhole` with trailers for responses whose status is 200.
