# landzero.net/x: models, checks and proofs

The repository collects Go libraries for servers: database drivers, a web
framework, codecs, a command line package and small helpers; with the SQLite
driver comes SQLite itself, in one C file. This directory
holds TLA+ modules for the parts whose correctness depends on the order in which
things happen, the TLC configurations that check them on small instances, and
proofs that hold for every instance.

Two parts are modelled. The Redis client (`src/database/redis`) is the Go
library with the most concurrency and the most failure handling: a pool shared
by all goroutines, background goroutines, retries, transactions over a connection
that may be replaced, a cluster whose topology changes under a running call, and
a Pub/Sub connection that is re-made behind its user's back. SQLite
(`src/database/sqlite3/sqlite3-binding.c`) is by far the largest part of the
repository; modelled are the layers that make its transactions atomic, isolated
and durable: the write-ahead log (wal.c), the pager with its rollback journal
(pager.c) and the file locks of Unix (os_unix.c). They have to be right when
processes, threads, kills and power losses interleave in any order.

## 1. Inventory

### Modelled components

| Component | State | Operations | Module |
|---|---|---|---|
| Connection pool `internal/pool/pool.go` | queue (semaphore), `conns`, `freeConns`, closed flag, dial-error count and last error | Get, Put, Remove, NewConn, CloseConn, Filter, Close; goroutines `reaper`, `tryDial` | `ConnPool` |
| Cluster registry and state `cluster.go` (first half), `internal/singleflight` | `allNodes`, `allAddrs`, `clusterAddrs`, generations, singleflight group, state holder, `reloading` | GetOrCreate, NextGeneration, GC, LazyReload, loadState, newClusterState, Close | `ClusterNodes` |
| Command processing `redis.go` | one retry loop per call; the connection in hand; what is unread on it | defaultProcess, generalProcessPipeline, pipelineProcessCmds, txPipelineProcessCmds, releaseConn | `ClientCmds` |
| Tx and sticky pool `tx.go`, `internal/pool/pool_sticky.go` | `cn`, `closed` of the sticky pool; WATCH on the server | Watch, Unwatch, Pipelined, Close; StickyConnPool Get, Put, Remove, Close | `TxWatch` |
| Cluster command processing `cluster.go` (second half) | attempts, commands per node, redirections | defaultProcess, defaultProcessPipeline, defaultProcessTxPipeline, remapCmds, checkMovedErr | `ClusterCmds` |
| Pub/Sub `pubsub.go` | `cn`, `channels`, `patterns`, `closed`, `ch` | Subscribe, PSubscribe, Unsubscribe, PUnsubscribe, Ping, ReceiveTimeout, receiveMessage, Channel, Close | `PubSub` |
| SQLite write-ahead log, wal.c | wal-index (two header copies, page numbers of frames, `nBackfill`, `aReadMark`), its locks, log file, database file; what is on the disk | begin and end of a read or write transaction, `sqlite3WalFrames` for spill and commit, `walRestartLog`, `sqlite3WalUndo`, `sqlite3WalCheckpoint`, `walIndexRecover` | `Wal` |
| SQLite rollback pager, pager.c | Pager state, page cache with its change counter, journal position, journal and database file; what is on the disk | `sqlite3PagerSharedLock` with hot journal recovery, reading, `sqlite3PagerBegin`, `pager_write`, `pagerStress`, commit in two phases, rollback, `pager_unlock` | `Pager` |
| SQLite Unix file locks, os_unix.c | `unixFile.eFileLock`, `unixInodeInfo` per process, POSIX locks on three byte ranges, descriptors put aside | `unixOpen`, `unixLock`, `posixUnlock`, `unixCheckReservedLock`, `unixClose` | `UnixLock` |

Interactions: every command takes a connection from a pool (`ConnPool`) and
gives it back by `releaseConn` (`ClientCmds`); a Tx interposes the sticky pool
(`TxWatch`) between the two; a PubSub takes connections with `NewConn`, outside the
pool's semaphore. The cluster client holds one ordinary client per node. Its
registry (`ClusterNodes`) is read by every command (`ClusterCmds`), which asks for
a reload when a server redirects it. The components share no lock, so they are
composed by their promises: `ConnLease` states what the pool promises, and
`ConnPool` is shown to implement it; `ClientCmds` and `TxWatch` start from that
promise (a connection is lent to one call at a time), and `ClusterCmds` from what
`ClusterNodes` promises (an address has at most one registered node).
In SQLite the pager sits on the file locks. `DbLock` states the five abstract locks:
`UnixLock` is shown to implement them, and `Pager` takes its lock steps from them. The
pager uses either a rollback journal or the log, so `Wal` and `Pager` do not interact.

What is hard in these components, and what makes them correct:

* **Pool.** Four kinds of goroutine and Close interleave between critical sections.
  Each path must receive from the queue exactly once, connections must not be
  shared, lost or exceed PoolSize, and a tripped breaker must be reset.
* **Registry.** Nodes are created outside the lock, several callers share one
  creation, timers armed a minute ago collect nodes by generation, and loads overlap.
  One creation at a time may test an address, no client may be lost, and states
  must advance.
* **Commands.** A write may break half way and a reply may be lost; a connection
  may go back to the pool only if it owes nothing. Retrying must not run a
  transaction or a blocking command twice.
* **Tx.** The connection may be replaced between WATCH and EXEC.
* **Cluster commands.** Slots migrate key by key under the call, nodes are closed
  under it, and each node of an attempt fails separately. No error must mean
  that all commands were run, and redirections must converge without running anything twice.
* **Pub/Sub.** The connection is fetched under the lock and used without it. No
  connection may be lost or closed in another's place, and what was asked for
  must reach the server, on a later connection if not on this one.
* **Log.** Readers do not block writers or checkpoints: each step of one meets
  any state of the others, and what it read a step ago may be stale. A reader must
  see one version throughout, a commit must not be lost, and the log must be able to
  replace the wal-index after a kill and survive a power loss in any order of writes.
* **Pager.** Journal, database and directory reach the disk in an order that
  only syncs fix. Whenever everybody dies the journal must lead back to a committed
  database; a cache that outlived its lock must be noticed; recovery races other recoveries.
* **File locks.** POSIX locks belong to the process and vanish with any descriptor of
  the file. Threads of a process must still exclude each other, and a waiting writer must get its turn.

### Components not modelled (yet)

`PROJECT.json` lists all of them with the reason. In short:

* **Planned**: SQLite's page cache, backup object and B-tree cursors, and the
  cancellation of a statement by the Go binding; Redis Sentinel failover and Ring; the YAML parser and emitter state
  machines; the MySQL connection's life and packet framing; web sessions, cache,
  CSRF tokens, captchas and handler chain; minit; ORM callbacks; and pure
  algorithms (hash tags, consistent hashing, RESP reader, record codec, shell
  quoting, shuffling, stdcopy framing).
* **Left out**: data conversion without state (per-command argument building and
  reply parsing, SQL text per dialect, struct reflection, inflection, calendar
  arithmetic), operating system glue (pty, reuse port), generated or vendored
  code (SQLite's parser, YAML's tables), SQLite's query planner, virtual
  machine, functions and extensions (sequential computation on data), templates and
  help texts. The amalgamation has 210,000 lines, of which these are the most; a model of
  its concurrency and recovery can cover only a few per cent of the lines.

## 2. Plan

Order of work, most important first:

1. *(done)* ConnPool with ConnLease and its proofs; ClusterNodes; ClientCmds; TxWatch
   with proofs; ClusterCmds; PubSub with proofs.
   *(done)* Wal; DbLock; Pager with proofs on DbLock; UnixLock with its refinement of DbLock.
   *(done)* Proofs of UnixLock (it implements DbLock), ClusterNodes, ClientCmds, ClusterCmds, Wal's writers and log, and of
   who changes the pager's database.
2. **Failover** (sentinel.go): MasterAddr, switchMaster, listen, discoverSentinels and
   Close over a pool that `Filter` empties of the old master. To check: no command
   is sent to an old master for ever; a listener of a replaced sentinel does not reset its
   successor; nothing is re-made after Close.
3. **Ring** (ring.go, internal/consistenthash): votes of the heartbeat, rebalance,
   and Close. To check: a key moves only when its shard goes down or comes back; the
   ring never loses its last shard for good; use after Close.
4. **Codecs as state machines**: YAML parserc.go and emitterc.go over event
   streams (both accept the same language; the emitter's indentation and state
   stacks return to where they were); the TOML rule on redefined tables.
5. **MySQL**: one connection with the watcher goroutine of connection_go18.go,
   cancellation racing the result, ErrBadConn only before anything was written,
   the busy buffer, and sequence numbers of split packets (8 bits, so with overflow).
6. **Web**: sessions of concurrent requests (Read, RegenerateID, Destroy, GC, release),
   memory and file cache with expiry, single use of a captcha, the handler chain.
7. **Pure algorithms** in one module that only TLC uses: hash tags, consistent
   hash, RESP reader under split reads, record codec, shell quoting, shuffle,
   stdcopy.
8. **Proofs**: Wal's `Snapshot` outside the two windows of `flaw` (which frame sqlite3WalFindFrame finds, and what a checkpoint may copy
   under a reader); the pager's order of writes (`Recoverable` without power loss, for which `PlayList` has to be characterised).
9. **More of SQLite**: savepoints and the size of the database in Pager; master journals over
   two databases; the page cache; backup against a writer; saved cursors.

As modules are added, runs that refute a documented claim on an instance of an
existing module are folded into this text to keep the set of runs small.

## 3. Modules and how they correspond to the code

General conventions. A variable keeps the name of the field it stands for. A step
is what the code does between two synchronisation points: one critical section,
one channel operation, one atomic access or one network exchange. Locals that
live across steps are functions of the goroutine (`pc`, `cn`, `node`, ...).
Connections and nodes are identities; an identity may be taken again only when
nothing in the system refers to it any more, which stands for a newly allocated
one and keeps the instance finite. A definition whose name says what it
gets wrong (`CountDialErrorAtLeast`, `PopFreeSkipsStale`) is the mutated form of the
definition after it and is used by no specification.

**ConnPool.** `queue` is the number of elements in the channel. Get is `GetStart`,
`Enqueue` or `EnqueueFull` + `PoolTimeout`, then `PopFree`, `CheckStale`, and NewConn's
steps when there is no idle connection (`NewConnCheck`, `DialOk`/`DialError`,
`CountDialError`, `AppendConn`). `op = "bare"` marks NewConn/CloseConn of a PubSub,
which never touch the queue. The reaper's section is the only one longer than a
step: it closes a connection with `freeConnsMu` held (`freeMu`). `tryDial` counts the
goroutines at each point of tryDial, because nothing in the code says there is at
most one. Time is abstracted to `IdleTimeoutPasses`, which makes an idle
connection stale at any moment. Put's check for unread data is part of `PutFree` and
`DropConn`: a user may give a connection back either way. Statistics are left out.

**ConnLease** is the abstract specification: which user has which connection.

**ClusterNodes.** `GetOrCreate` is `Lookup`, the singleflight group's `DoJoin`/`DoLead`,
`TestEnds`, `Forget`, `WaitEnds` and `Register`. A completed call stays in the group
until its leader takes the group's lock again, as in the code. Loaders run
loadState address by address, take the answer to CLUSTER SLOTS to be any
nonempty set of addresses, stamp the nodes and store the state. GC timers may
fire at any later time. `CloseCollected` is the closing of collected nodes outside
the lock.

**ClientCmds.** A connection carries the requests that the server has not seen
(`req`) and the replies the client has not read (`rep`). A write may break after
any prefix, a reply may be lost, a server may answer with an error or LOADING. The
rules for retrying and for keeping the connection are those of `releaseConn`,
`internal.IsRetryableError` and the two process functions. `MultiRefused` lets the server
answer MULTI with an error.

**Conns** declares the connections that PubSub and TxWatch share.

**TxWatch** runs the repository's example (`example_test.go`, ExampleClient_Watch): GET
under WATCH, SET plus one in MULTI/EXEC, and again on TxFailedErr. One exchange is one
step with three outcomes: answered, failed before it was run, failed after it was run. `sticky` is the `cn` of the
sticky pool and `cmd` the command a goroutine is at; the specification is `TxSpec`.

**ClusterCmds** follows one call. Other goroutines are what they change under
it: `Reload`, `Collect`, `Close`. The servers migrate slots key by key
(`StartMigration`, `MigrateKey`, `FinishMigration`) and answer MOVED and ASK accordingly.
`cmdsMap` and `failedCmds` are the maps of the pipeline code, with ASKING as an
entry of the batch, since the code stores it as a command.

**PubSub.** Subscribe, Unsubscribe and Close hold `c.mu` throughout and are single
steps, with their three ways to fail. Receiving and Ping fetch and release the
connection under the lock but use it without. `wanted` is what the calls
made so far ask for; `channels` is what the code recorded, and `sub` what the server knows.

**Wal.** A connection's `con` is its Wal object and its place. Reading is `ReadHdr`,
`TryLock0`/`Compare0` (database file only) or `PickMark`, `LockMark`, `CompareMark`; writing is
`BeginWrite`, then for each call of sqlite3WalFrames `WalFrames`, perhaps the reset of the log
(`RestartLog`, `ResetHdr0`, `ResetInfo`), `WriteFileHdr`, a `WriteFrame` per page and `FinishSpill`
or `FinishCommit` + `Publish`. The two copies of the header are written in one order
and read in the other, hence `ResetHdr0`, `Publish` and `RecoverHdr` as separate steps. A checkpoint is
`CkptBegin` to `CkptDone`, a page at a time, and `CkptAfter`/`CkptTruncate` for the modes that reset the log.
A file is its content and, per page or frame, the contents a power loss may leave. `flaw` notes that a
behaviour has entered one of two windows in which the code goes wrong (Findings 1 and below);
the passing run follows behaviours up to there and no further (constraint `NoFlaw`).

**DbLock.** `lock` and `resv`: PENDING and EXCLUSIVE can be reached without RESERVED, as
hot journal recovery does, and the test for RESERVED (`ReservedSeen`) tells these apart between processes
but not between threads, as the code.

**Pager.** `pg` is the Pager object. `SharedLock`, `JournalExists`, `CheckReserved`, `FirstByte`,
`HotExclusive`, `HotOpen`, `Vers` are sqlite3PagerSharedLock; `Spill` and `Commit` both go through
`ExclusiveLock`, `JournalSync`, `WriteNRec`, `JournalSync2` and `WritePage`; a commit goes on with
`DatabaseSync` and `pager_end_transaction` (`Final...`, `EndTransaction`), a rollback or recovery with `PlayPage`
and `PlayEnd`. The journal is a row of slots; a record is valid when its checksum is its header's, which
the code arranges with a random number per header. `dirMay`, `base` and `old` say what the disk
may hold of the directory and of the journal, so that each sync has an effect. `cur` is the
committed database, `prev` what a power loss may take it back to where the synchronous mode allows that.
The passing run ends at states in which a persistent journal was zeroed and not synced by a connection
that is gone (constraint `ZeroLasts`, Findings).

**UnixLock.** A step is one fcntl call with the assignments that go with it. `MutexFree` is unixMutex. `os`
is the system's table of locks by process; `DropAll` is what close() does. A `Held` lock is `eFileLock`,
lowered while posixUnlock is between its two calls.

The servers, the network, the operating system, the disk and the user's own code are external; they are
modelled from what the code expects of them.

## 4. Runs

| Run | Instance | What it shows |
|---|---|---|
| `pool` | 2 users, 3 connections, PoolSize 2 | The queue counts its holders; lent, dialed and idle connections stay within PoolSize; nothing is shared or lost; a tripped breaker has one prober and an error to return |
| `pool_live` | 2 users, 1 connection, PoolSize 2, fair | ConnPool implements ConnLease; Close ends both goroutines; a tripped breaker is reset; calls end |
| `cluster_nodes` | 2 addresses, 3 nodes, 1 caller, 2 loaders, 2 loads | One Test per address at a time, no client lost, states advance, GC spares stamped nodes |
| `client_cmds` | 2 users, 2 connections, batches of 2, 1 retry | Replies reach their call, transactions and blocking commands run at most once, no error means run |
| `tx_watch` | 3 goroutines, 4 increments, no retries | WATCH is a check-and-set; no WATCH is left on an idle connection |
| `cluster_cmds` | 2 addresses, 2 slots (one uncovered), batches of 2, 2 redirects, 1 migration, 1 network error | No error means run, nothing runs twice through redirections, transactions never run twice, redirections converge |
| `pubsub` | 1 channel, 2 connections, 1 break, fair | No connection is lost or closed in another's place, subscriptions reach the server, Channel closes, subscriptions come back |
| `wal` | 2 connections, 2 pages, 3 frames, 2 transactions, 2 reader locks, 2 rare events | Readers see their snapshot, no commit is lost, the log can replace the wal-index, writers follow each other |
| `wal_reset` *(violation)* | 4 frames, 3 transactions, 3 reader locks, nothing rare | A checkpoint with an old header backfills a log that was reset |
| `pager` | 2 processes, 2 pages, 2 transactions, all three journal modes, 2 rare events | Locks exclude each other, everybody works on the last committed database, and death of all leaves a recoverable one |
| `pager_threads` *(violation)* | 2 threads of one process, 1 rare event | A thread's failed recovery hides the hot journal from another thread |
| `file_lock` | 2 threads of one process, 1 of another, 2 failing calls, fair | os_unix.c implements the abstract locks, its RESERVED test agrees with them, and only threads of a reading process can starve a writer |

**Bounds.** Two users are the least that race; the pool's third connection exceeds
PoolSize and is needed for a new dial while two are in hand. `MaxLoads` 2 lets two
loads overlap and an old GC timer meet a newer state. `MaxRetries` 1 and `MaxRedirects` 2
give a first, a middle and a last attempt. `Batch` 2 gives a pipeline a first and a
last command, hence a partial failure. `MaxMoves` 1 lets a slot be stable, migrating and
moved in one call. In PubSub two connections are an old one still in use and its
successor. In SQLite's models two connections are a reader and a writer, a writer and a checkpoint, or two
recoveries; a single-page and a two-page transaction overlap in one page; three frames let the
second transaction go on after the first or start the log anew, and the journal of the first
transaction be longer than that of the second. Two rare events are an event and another one during the
recovery from it: a kill inside recovery, a power loss after an I/O error. Three files are the
least with both a sibling thread and another process.
Every bound is a named constant (`MaxLoads`, `MaxCalls`, `MaxIncrs`, `MaxMoves`,
`MaxTrouble`, `MaxNodes`, `MaxInbox`, `MaxBreaks`, `MaxTxn`, `MaxFrame`, `MaxRare`, `MaxErr`) tested in the guard of the action it limits.
Symmetry is used on identities only, and never in a run with liveness properties.

**Deadlock** is checked for the pool, the registry, Pub/Sub and SQLite's three modules. It is off where the model
ends when its bounded calls are used up (ClientCmds, TxWatch, ClusterCmds).

**Fairness.** Goroutines that can run do run (Go's scheduler), as weak fairness of each
goroutine's step. Two facts about the world are assumed: a dial that is retried for
ever succeeds in the end (strong fairness of `TryDialOk` and of PubSub's `RecvConn`),
and a broken connection is noticed in the end (strong fairness of `RecvRead("bad")`; the
code pings after a timeout and reads with a deadline). A user of the pool gives
his connection back, and the user of Channel reads from it. `CallsEnd` has
a premise: connections eventually stop going stale. Without it TLC shows a Get whose
loop is fed for ever with connections that are put back and go stale before each
of its pops; the code has no bound on that loop.
In `UnixLock`, a call that holds the mutex ends; statements end, so a lock other than PENDING is given
up; a writer with PENDING is called again by its busy handler; and a thread that keeps asking for the
mutex gets it (strong fairness of the unlocking steps). Nothing makes anybody ask for a lock.

## 5. Findings

With a run, and in `PROJECT.json` under `findings`:

1. **A checkpoint of a log that is gone** (`walCheckpoint`, run `wal_reset`): a PASSIVE checkpoint reads the
   header without the writer's lock. If all frames are backfilled and a writer then resets the log, the
   test `nBackfill < hdr.mxFrame` compares the new log's 0 with the old log's length, and frames of the
   new log, committed or not, are copied as if they were the old ones. Readers of the database file see
   pages of another version.
2. **PENDING taken for RESERVED** (`unixCheckReservedLock`, run `pager_threads`): within a process any lock
   above SHARED counts. A thread that wanted EXCLUSIVE for a hot journal and met a reader has PENDING until
   it unlocks; meanwhile another thread concludes that a live writer owns the journal and
   reads a database that was never committed.

Shown on other instances of the modules, each by TLC and without a run of its own to keep the set small;
in brackets the instance and the property that fails, where the module still states it:

* **Close leaks a connection** (pool.go:115): NewConn does not look at `closed` again
  after dialing.
* **A shared node is closed** (cluster.go:331): both callers of one singleflight
  creation get the same node; the second takes it for a duplicate (2 callers, 1 loader).
* **Unread replies** (redis.go:300): an error to MULTI ends the reading of a
  transaction, and the connection is kept (`MultiRefused` TRUE, `OwnReplies`).
* **WATCH is lost on retry** (pool_sticky.go:68): the sticky pool hands out another
  connection in the middle of a Tx (`MCTxWatch` with 2 goroutines, 2 connections, `MaxRetries` 1, `MaxIncrs` 2,
  `IncrementsKept`).
* **No error, nothing run** (cluster.go:1071): ErrClosed on the pipeline path only remaps the commands
  (`MCClusterCmds` with `Batch` 1, pipelines only, both slots covered, `MaxRedirects` 1, no moves, one node, no
  trouble; `NilMeansRun`).
* **Kill during a reset of the log** (`walRestartHdr`): after the header and before `nBackfill` and the marks are reset,
  the next process keeps both, and frames of the new log below the old `nBackfill` are
  taken to be in the database file (`Wal` with 1 page, 3 reader locks, PASSIVE only, `MaxTxn` 3, `MaxFrame` 2,
  `MaxRare` 1, constraint `NoStale`; `Snapshot`).
* **Persistent journal zeroed, not synced** (`zeroJournalHdr`): a kill or an error at that sync, another
  connection's transaction and a power loss leave a journal mixed from two (`Pager` without `ZeroLasts`; `Recoverable`).
* **Mixed journal modes**: a connection in DELETE mode deletes the journal that one in PERSIST mode keeps open
  (PERSIST and DELETE in one assignment, `MaxTxn` 3, `MaxRare` 1; `Recoverable`). The comment in `pager_unlock`
  knows of it: "Otherwise another connection with journal_mode=delete might delete the file out from under us".
* **synchronous=NORMAL with PERSIST** (`FullSync` FALSE): the byte that hides an old header and the record count
  reach the disk in any order (`Recoverable`). This is a documented weakness of NORMAL, met here at one more place.
* **A journal that ends on a sector boundary** (`Aligned` TRUE, PERSIST, an I/O error): a connection's own rollback takes an
  old header at `journalHdr` for its own without looking at the magic number (`ReadersView`).
* **Starvation by threads** (`unixLock`): its comment says of PENDING "This ensures that no new SHARED locks
  can be obtained, but existing SHARED locks are allowed to persist", but a thread of a process that already reads gets
  SHARED without looking at the PENDING byte, so overlapping threads keep a writer waiting for ever.
  `OnlyThreadsStarve` states that they are the only ones who can.

Met while modelling, without a run:

* `NewConn` of a PubSub adds to `p.conns` without the queue, so the sockets a client
  has open may exceed PoolSize; `PoolBound` counts those lent by Get.
* cluster.go:326: a node created while Close runs is dropped with its client open.
* cluster.go:420: a GC that runs between GetOrCreate and SetGeneration of a newer load
  may close a node that the load is about to use: the node is unstamped until then.
* cluster.go:1433: `remove` shifts `clusterAddrs` in place while readers hold the same array.
* cluster.go:1122: two nodes of one attempt remapped to the same node: the second
  assignment replaces the first one's commands.
* cluster.go:1305: a transaction of which a part is redirected is run in two pieces.
* cluster.go:810: after LOADING the loop keeps the same node, although the comment
  says it reads from the master.
* pubsub.go:116: a write that timed out leaves a connection with a command cut off;
  `Subscribed` exempts it (`torn`).
* pubsub.go:178: Unsubscribe without names leaves the map alone, so the next connection is
  subscribed again, although the comment says it unsubscribes from all.

## 6. Proofs

All proofs hold for every value of the constants that satisfies the named
assumptions of the component's module: a finite set of users, identities distinct from the nil
ones, `PoolSize` at least 1, bounds natural numbers.

**ConnPoolProofs.** `TypeOK` is not inductive: the reaper's `Tail(freeConns)` is a
sequence only because it still holds the lock under which it saw an element. `Shape`
adds which operation a goroutine can be in at each point and what `freeMu` means;
`ShapeInv` (with `TypeOK`) is inductive, proved by one lemma per group of actions. On top of it:

* `Breaker`: any counted error has been stored, and the counter stays at or above PoolSize for as
  long as a tryDial runs, so that it cannot pass the threshold a second time: `TrippedHasErrorAlways`, `BreakerHasProberAlways`;
* `OneOwner`: each connection is in one hand or once in the idle list, the reaper
  excepted while it holds the lock: `NoSharingAlways`;
* `OpenIsOwnedAlways`, relative to `ShapeInv` only;
* cardinality arguments for the semaphore (`CountOne`: a step changes the holders by at
  most one goroutine): `QueueCountsHoldersAlways`, and from it `PoolBoundAlways`;
* `LeaseImplemented`: each step lends a connection nobody has, takes one back, or leaves
  `Lent` unchanged. The bound on borrowers comes from `QueueCountsHolders`.

**ConnStateProofs** holds the proofs of `PubSub` and of `TxWatch`: both are about what the server remembers of a connection,
the subscriptions or the WATCH. For PubSub, `Inv` adds to the checked invariants `Shape`: a goroutine that saw its
connection fail saw one that is broken or closed, and its identity cannot come back meanwhile.
From it `OneConnAlways`, `SubscribedAlways`, and the action property `HealthyKeptAlways`.
For Client.Watch, `Owned`: each WATCH is on a connection some goroutine has in hand and
will still use: `IdleUnwatchedAlways`, for any `MaxRetries`. `Snapshot`: from GET to EXEC the
connection is watched, and as long as the server has noted no write the value read is
still the counter's. It needs
`MaxRetries = 0`, stated in the theorems, and gives `IncrementsKeptWithoutRetries` and
`CheckAndSetWithoutRetries`. The instance named under Findings shows that the hypothesis is necessary.

**ClusterNodesProofs.** `NodesInv` adds to the types and to `OpenIsOwned` what the checked properties rest on. `Flights`:
from its Do to its delete a leader's node is in the singleflight group under its address, so a second leader finds the key
taken: `SpecSingleFlight`. `OneLoad` and `Generations`: the constructor's load ends before the flag `reloading` can be
taken and the flag admits one load, so a state under construction has the latest generation, and a timer
that of a state already published: `SpecStateAdvances` and `SpecGCKeepsStamped`. `SpecOpenIsOwned` is part of the invariant.

**ClientCmdsProofs.** A connection is lent to one user and goes back only when nothing is under way on it. `ClientInv` says what
is under way: the requests left on a connection are consecutive ones of one attempt (`Row`, `Asked`), no attempt has requests on
two (`OneHome`), what is left fits the state of MULTI (`Queue`), and for the attempt being read, the replies read, the replies
waiting and the requests left add up to its requests (`Stream`). `Count` sets the runs of a command, plus the attempts that
may still run it, against the attempts made; `Once` says that a transaction or blocking command that may yet run
has not run. Hence `SpecOwnReplies`, `SpecRunsBounded` and `SpecNoErrorMeansRun`, for any number of users, connections and
retries and any length of a batch. All four theorems assume `~MultiRefused`, as the run does. The hypothesis is
needed: when the server answers MULTI with an error the code keeps a connection with unread replies, and TLC shows
`OwnReplies` violated (Findings). The length arithmetic of queues and `Cardinality` of the attempts left are lemmas at the head of the module.

**ClusterCmdsProofs.** A command of a call is in a batch still to be sent (`Waiting`), among the replies still to be read
(`Unanswered`), or in a node's batch for the next attempt (`failedCmds`), and never in two of these or twice in one (`Places`). On top of
that, three arguments. `RunInv`: a command that may still run (`MayRun`) has not run yet, and none has run twice, as long as no network error
disturbs the call or the call is a transaction: `SpecRunsOnce`, `SpecTxRunsOnce`. `NilInv`: a command without an error
has run or is in one of the three places, with the two exceptions the code has, a batch that has given up (the call then returns an error,
the first by position) and a pipeline that met a closed node (`metClosed`): `SpecNilMeansRunOpen`. `RedirectInv`: `Left` counts how many
redirections a command can still meet at a node before another migration begins, two at the most; each one met uses one up, each
migration adds one, so attempts made and redirections left never exceed the migrations begun by more than one: `SpecRedirectsConverge`.
The hypotheses are those of the properties themselves (no trouble, no closed node); the constants are only assumed to be what their
names say (`ClusterCmdsAssumption`). The head of the module has the lemmas on batches: what `InOrder`, appending, remapping and `SetCmdsErr` do with
the entries of a sequence. TLC checks `ClusterInv` on the instance of `cluster_cmds`.

**PagerProofs.** First the locks. `Exclusion` needs two facts more to be inductive: the levels are the five, and who is in
`resv` has more than SHARED (`LockInv`). One lemma per action; `LockSpecExclusion` for every set of connections and every
assignment of them to processes. `PagerImplementsDbLock`: each action of the pager is an action of DbLock or leaves the locks
alone, also when an error or a kill cuts it short; the one fact needed about the state is that locks are levels, which
DbLock's invariant gives. With it `PagerExclusion` holds for any number of connections, pages and journal modes.
Then what the locks are for. `WriterInv` ties the lock of a connection to the place and state of its Pager object: one that
is about to write pages, has written some, or plays back a hot journal has EXCLUSIVE; a journal that is still open from an earlier
transaction has been finalized. `PagerChangesAlone` follows: the database file changes and transactions commit only in
steps of a connection that has EXCLUSIVE while no other has any lock, or in a power loss. `WriterInv` and `ChangesAlone` hold in
the instances of `pager` and `pager_threads` too, with or without the constraint `ZeroLasts`.

**UnixLockProofs.** A process is described by itself: `OneCall` (one call of it holds the mutex), `Counted` (`nShared`, `nLock`,
`nRef` count its files), `Highest` (its level is the highest of its files'), `Midway` (what a call knows between two fcntl
calls) and `Backed` (which POSIX locks stand behind the level). A step touches one process (`LocalTo`); between processes there is only
the exclusion of POSIX locks. The counters make the set of files finite in `UnixLockAssumption`. On `UnixLockInv`: `SpecReservedAgrees`;
`SpecImplementsDbLock`, where each fcntl call, failure, close and kill maps to one step of DbLock or to none; and
`SpecExclusion`, the promise of DbLock carried over by that refinement to descriptors of any processes.

**WalProofs.** `SpecWriterCurrent` and `SpecWriterOnly`. Where a connection is tells whether it holds WAL_WRITE_LOCK, but
walRestartHdr is run by writers and by TRUNCATE checkpoints, walTryBeginRead by readers and by writers that leave
READ(0), and recovery by readers and checkpoints; `Caller` tells them apart, `Locked` gives them the lock, and `Based`
says that the header in the wal-index is the one a writer has read (`WalInv`).
`SpecRecoverable` rests on what the frames of the log are. `Logged` says of a header and a run of
frames that they carry its salt, that each checksum is that of the frames up to it, that the last one commits the header's version, and that the
table names their pages; `Composed` says the same of the frames a writer has appended since the header it read, up to
those that overwriting has left without a checksum. `LogInv` has `Logged` for the shared header and for the one under recovery or about to be
published, and `Composed` for the writer (and `Stored`: frames are records, and finitely many may be left by a power loss).
The step that needs most is WriteFileHdr: a log is begun with a salt that no
frame, header or connection has (`FreshSaltIs`), or with the salt walRestartHdr has just
advanced.
`SpecNothingLost` is about the wal-index that recovery will build when this one is gone. `Anchored(log, header of the file, v, m, base)`:
either version `v` is in the database file and no frame that a recovery could count is older than `v` (`NewLog`), or
`v` or a later version is committed in the log by frames that cannot be other than they are, up to `m` if the header has frames (`OldLog`). `Shown` has this
for the log as it is and `acked`, and for every log a power loss may leave and `durable`; `LogFile` ties the log file
to what may be left of it, `Versions` orders `durable`, `acked` and the ages of frames. `Begun`: whoever begins a log, a writer or a
TRUNCATE checkpoint, does so under a salt that no older frame has, and the frames a writer has appended are of its
transaction, the commit mark at the end. `Ready`: a header about to be published by recovery or by a commit is already backed by the log.
`AnchorInv` is the conjunction, with one lemma per step. Its heart is `RecoveredAnchor`: the
last commit that walIndexRecover finds in an anchored log is not older than the version anchored.
The theorems need no constraint: they also hold in behaviours that went through one of the windows of `flaw`.

**Only model-checked.**

* Liveness (`GoroutinesStop`, `BreakerResets`, `CallsEnd`, `ChannelCloses`, `Resubscribes`, `OnlyThreadsStarve`):
  TLAPS 1.4.5 does not prove properties under fairness.
* `ReadersView` and `Recoverable` of Pager, and `Snapshot` of Wal. All three hold only up to the states at which the runs'
  constraints stop (Findings), and Pager's rest on the
  recursive function `PlayList`, whose value for every journal would take an induction over data.

## 7. What the models leave out

Time is abstracted to "may time out now". Byte-level encoding, argument
building and reply parsing are left out; what they decide for control (Redis error or
network error, timeout, MOVED/ASK, LOADING) is kept. Back-off between retries only delays.
Routing to replicas and by latency, `ClusterClient.Watch`, `ForEachNode`, `PoolStats` and
the cluster client's own reaper of idle connections are not modelled yet. Data races
(`remove`, above) are described rather than modelled where their outcome is no value of
the type.

In SQLite's models the size of the database does not change, so truncation and the pages past the old end
are left out. `Wal` leaves out closing and deleting the log, wal-indexes that are read-only or in heap memory, the snapshot
interface, and writes of a frame that are cut within its header; the locks of the wal-index are atomic. `Pager` leaves out savepoints, master
journals, `PRAGMA journal_mode` on an open connection, exclusive locking mode, memory journals, memory mapped reads, atomic and batch
writes. `UnixLock` leaves out the other locking styles, descriptors opened with different flags, and a failing
fstat() in `findInodeInfo`, after which the code closes the descriptor and says itself that locks may be lost.
