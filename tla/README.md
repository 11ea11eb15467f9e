# Verification of homer

homer captures SIP/RTC signalling: agents send HEP packets, the *writer* decodes
them and stores rows in a DuckLake lakehouse (parquet files and a catalog), the
*node* answers queries on the lake and streams live events, the *coordinator*
serves the API and the UI and fans queries out to nodes. This directory holds
TLA+ specifications of the parts where goroutines, locks, queues, statements and
shutdown order decide whether data is kept and answers are right, the TLC runs
that check them on small instances, and TLAPS proofs of the main results for
every size.

Source paths are relative to the repository's `src/` directory. `PROJECT.json`
maps every definition to the lines it models and lists the components, hazards
(each with its line and the properties aimed at it), runs, mutants and theorems.

## 1. Inventory

| Component | State | Operations | Hard behaviour | Module |
|---|---|---|---|---|
| HEP ingest (`writer/writer.go`, `udp.go`, `tcp.go`, `http.go`, `conn_set.go`) | `stopped`, `inputCh`, `exitWorker`; `quit`, listener, `connSem`, connection set | receive, `EnqueuePacket`, `worker`, accept, serve, `Stop` | check-then-send, connections accepted while stopping, idle clients | `Ingest` |
| Table writer (`storage/ducklake/tables.go`, `ducklake.go`) | Go batch, two in-memory tables, `activeIdx`, flush queue, slot locks, catalog lock | `Write`, flush with retry, swap, maintenance, `Stop` | append against flush, stale slot, failed statements, lock order | `TableWriter`, `RowCustody` |
| Table routing (`hep_adapter.go`, `getOrCreateTable`) | table map, writers per key | route, append, flush | two keys with one table | `TableRouting` |
| Row adapter, decoder, import (`decoder`, `hep_adapter.go`) | duplicate cache, date cache in two words | decode, date, import | two words written apart, forced dates | `HepRow` |
| Lake bring-up (`sharded_writer.go`, `writer_lock.go`, `catalog_registry.go`, `repair.go`) | lock files, marks, DuckDB instances | start shards, repair, attach, tiering and compaction instances, stop | failure half way, two processes | `LakeSetup` |
| Native compactor (`storage/ducklake/compactor`) and everyone who changes a partition | live files, files on disk, scheduled deletions | plan, merge, swap, flush, tiering, clean-up | changes during the merge, crash before the swap | `Compactor` |
| Compaction service (`writer/compaction*.go`, `backup.go`) | `running`, latches, backups | cycle, verify, escalate, restore, stop | two goroutines, undetected damage | `CompactionService` |
| Mover and tiering (`storage/ducklake/mover`, `tiered_storage.go`, `writer/tiering.go`) | a partition in each volume's catalog | select, count, plan, copy, retire, expire | no transaction over two catalogs | `TierMove` |
| Process and receivers (`main.go`, `otlpreceiver`, `vqrtcpreceiver`) | module list, queues, servers | start, reload, stop, drain | deadline, handlers that outlive servers | `Shutdown` |
| Line protocol (`lineprotoreceiver`) | believed columns, `tablesMu` | ensure table, partition, alter, insert | stale belief, several tables per request | `LineProto` |
| SIPREC (`siprecreceiver`) | sessions, dialogs | INVITE, ACK, BYE, CANCEL | BYE overtakes INVITE | `Siprec` |
| Remote logging (`remotelog`) | queue, batch, pooled structs | send, flush, close | reuse of a released struct, unjoined close | `RemoteLog` |
| Live stream of a node (`stream/hepstream/broker.go`, `node/stream_handler.go`) | subscribers, ring, token buckets | publish, subscribe, replay, forward | snapshot against cancel, ring wrap | `HepBroker` |
| Live stream of the coordinator (`coordinator/services/stream_service.go`) | forwarders, merged channel | subscribe, forward, close, reconnect | who closes the channel | `StreamFan` |
| Node queries (`node/node.go`) | rows in memory, hot and cold lake | the query strategies and their merge | rows move between statements | `NodeQuery` |
| Node database handle (`node/node.go`, `fsql_server.go`) | handle, `n.mu`, `refreshMu`, `s.mu` | refresh, credentials, stop | closed handle, lock cycle | `NodeHandle` |
| Search (`flight_service.go`, `search` handlers) | per-node ranges and health | smart routing, slices, two-step queries | stale ranges, failing nodes | `Search` |
| Call info (`callinfo_compute.go`) | none | derive a call's state, times, codecs | order of messages of one millisecond | `CallInfo` |
| Accounts, settings, registrations (coordinator) | the settings database, revocations, caches | REST handlers, statement by statement | no transactions, cancelled requests | `Accounts`, `Settings`, `Registry` |
| Games (`coordinator/games`) | rooms, queue, clocks | join, leave, move, timers | a timer that has fired | `Netris`, `NetChess` |

Ingest workers hand rows to the table writers and events to the broker and the
remote loggers. Flushes, tiering, compaction and maintenance meet at the catalog
lock. The node reads the lake the writer fills, and shares its instance when both
run in one process. The coordinator asks nodes and merges. The module manager starts and
stops all of them.

## 2. Modules

One module per component, composed by an `MC` module where components share a
run, and one `Proofs` module per proved component or group.

| Module | Composes or proves |
|---|---|
| `MCTableWriter`, `MCIngest`, `MCHepBroker`, `MCCompactor`, `MCShutdown`, `MCRemoteLog`, `MCTableRouting` | one component each |
| `MCMaintenance` | `TierMove` and `CompactionService` |
| `MCServices` | `LineProto`, `Siprec`, `Accounts`, `Settings`, `RemoteLog`, `StreamFan`, `Registry`, `TableRouting`, `HepRow`, `LakeSetup` |
| `MCQueries` | `Netris`, `NetChess`, `Search`, `NodeQuery`, `NodeHandle`, `CallInfo` |
| `TableWriterProofs`, `IngestProofs`, `CompactorProofs` | the component of the name |
| `MaintenanceProofs` | `TierMove`, `CompactionService`, `Shutdown` |
| `ServicePartsProofs` | `LineProto`, `Siprec`, `TableRouting`, `HepRow`, `Registry`, `Accounts`, `Settings`, `RemoteLog`, `HepBroker` |
| `ServicesProofs` | `LakeSetup`, `StreamFan`, and with `ServicePartsProofs` what follows for `MCServices` |
| `QueryPartsProofs` | `Search`, `CallInfo` |
| `QueriesProofs` | `Netris`, `NetChess`, `NodeHandle`, `NodeQuery`, and with `QueryPartsProofs` what follows for `MCQueries` |

In the last three compositions a variable (`service`, `part`, `area`) names the
component whose steps a behaviour takes; the components keep no state in common,
so nothing is lost by not interleaving them.

Conventions. A step is what a goroutine does between two points at which another
one can overtake it: a lock, an atomic access, a channel operation, a statement
sent to DuckDB. `pc`-like variables name the place of each goroutine; locks and
connections held are read off those places where that is possible. Variables
under "Observers" are used by properties only and restrict no step. An operator
preceded by "Mutant:" is a plausible mistake in the code; no specification uses it.
A statement takes effect as a whole or not at all, and everything marked external in a
header (DuckDB, gRPC, sockets, the operating system) is modelled from how the code uses it.

Each module's header says what its state stands for and what it leaves out. A few
correspondences deserve more:

* `TableWriter`. `Write` puts a row into the batch and, when that is full, runs
  `flushBatch` on the caller's goroutine: `TakeBatch`, `lockActiveMem` (`LoadSlot`,
  `RLock`, `Recheck`), `GetConn`, append. `flushLoop` runs `flushBatch`, `Swap` and
  `SendJob` on each tick, and once more at Stop. The flush worker takes `catalogMu`, the
  slot's write lock, INSERT ... SELECT, TRUNCATE; `FlushQueue` chooses between the
  central and the per-table worker.
* `Ingest`. `EnqueuePacket` tests `stopped` (`CheckStopped`) and sends later (`Send`).
  `Writer.Stop` is one action per thing it does.
* `TierMove`. `part[v]` is the set of the partition's rows in volume `v`. The lock is
  held for one statement only, so a flush may come between any two. `late` records
  that a flush hit one of the windows of `TooLate`; with any one of them left out, TLC
  finds rows lost outside of them.
* `Compactor`. A file is a name with rows; `active` is what the catalog names, `disk` what
  is there. What is done under the catalog lock is one step, the native merge is three
  (plan, merge, swap) with everyone else in between.
* `Shutdown`. Module stops are one step per call of each `Stop`; `elapsed` counts
  the timeouts that the code compares.

## 3. Runs

| Run | Properties | Bounds |
|---|---|---|
| `table_writer` | `AtMostOnce`, `RowsAwaitFlush`, `CleanStopLosesNothing`, `MaintenanceBlocksNoAppend`, `CustodySpec` | 3 rows, 2 workers, batch of 2, 2 connections, queue of 2, 2 failed statements |
| `table_writer_live` | `AppendedReachesLake`, `StopTerminates` | 1 row, 1 connection, queue of 1, 1 failure, per-table worker |
| `ingest` | `JoinedPacketsHandled`, `StoreOutlivesWorkers`, `NoConnSurvivesStop`, `StopReturns` | 2 connections for 1 slot, 1 request, 1 UDP loop, 2 workers, queue of 1 |
| `hep_broker` | `RingHoldsLatest`, `NoGap`, `PublishReturns` | 3 events, ring of 2, 2 publishers, 1 client, queue of 1, rate 1 |
| `hep_broker_panic` | `NoSendOnClosed`, violated | 1 event, 1 client |
| `maintenance` | `LossNeedsLateFlush`, `CopyIntoEmpty`, `NativeRetiresCopied`, `PartitionNotStuck`, `CyclesExclusive`, `GoodBackupKept`, `RestoreReversible`, `MaintenanceGoesOn` | 3 rows, 3 volumes, 2 failures or crashes; 1 table whose own files may make every merge fatal, 3 backups, 1 failure besides, 2 starts, 1 damage, 2 restores |
| `compactor` | `QuerySeesRows`, `CatalogFilesOnDisk`, `RowsOnce`, `SmallFilesMerged`, `OrphansReclaimed` | 3 rows, merged files of at most 2, 9 names, 1 failure or crash, 1 tiering, 1 unlocked insert |
| `shutdown` | `CleanExitStored`, `LateUseIsUnjoined`, `StopEnds` | 2 requests of any kind, queues of 1, 1 worker |
| `services` | `IngestRowsSafe`, `ReceiversSafe`, `DeliverySafe`, `SettingsDBSafe`, `StorageSafe` | in `services.cfg`: 2 or 3 of each kind of actor, 1 fault or restart, 2 columns of line protocol |
| `queries` | `GamesSafe`, `QueriesSafe` | in `queries.cfg`: 2 nodes with 6 rows, 3 rows on a node, 3 players, 2 rooms, 2 half-moves of chess, codes that are also those of quick rooms, calls of 6 messages, of which every 200 may come again |
| `remote_log_reuse` | `LoggedAsReceived`, violated | 2 packets, 1 struct |
| `table_routing_shared` | `AppendWaitsForFlush`, violated | 2 rows, 2 workers, 2 swaps |

Why the bounds are enough for what is asked. Two slots are the code's own number;
three rows and a batch of two give a full batch, a partial batch that the loop
drains, and rows in both slots at once; two failures give a failed INSERT with a failed
retry, or a failed TRUNCATE and a failed INSERT. Queues of one or two places are full at
once, so that blocking, shedding and a job that runs after its slot is active again
happen. Three events make a ring of two wrap. Three rows give a destination that is
smaller than, as large as and larger than the source, and three volumes a middle one
that is source and destination in one cycle. Three rows in files of at most two give lone
files, full files and batches of several. Two requests put one in a queue and one with a worker. Two
processes and two shards give the overlap of a restart with a start that fails at the
second shard. With two columns an INSERT can be wider than the table it meets, so that
columns are added, and narrower than what an earlier process stored. A table whose merge
always fails meets `MaxMergeFatals` with no fault spent, so that quarantine is reached; two
restores let the second one fail where the first one moved files aside. With two half-moves a
takeback could drop a move and the reply to it, and does not. What is proved in section 4 holds for all sizes.

Deadlock is checked except where the cfg says otherwise: the compositions `services`
and `queries` and the two one-component runs of their parts end when the bounded requests,
rows or rooms are used up; the deadlock hazards in them are stated as invariants (`NodeHandleSafe`).

### What the failing runs show

* `hep_broker_panic`: a cancel between the snapshot of `Publish` and its send
  closes the channel that the send then uses.
* `remote_log_reuse`: a packet queued for a remote log client is released to the
  decoder's pool before the client has read it.
* `table_routing_shared`: a missing sub-type is written as "default", so a keepalive and
  a packet of sub-type "default" have two TableWriters over one pair of memory tables;
  a row is truncated uncopied.

### Observed while modelling, without a run

Each of these was read from the code while a module was written; several are the
exceptions that properties name.

* Table writer: a slot whose flush gave up before `Stop` is not flushed by the one last
  `flushAll` (`ducklake.go:797`). Ingest: `Stop` does not stop the UDP receiver, so an event
  loop past the `stopped` test enqueues after the workers are gone (`writer.go:616`).
* Tiering: a destination whose count differs is discarded and copied again in one attempt
  (`tiered_storage.go:660`), although the comment at :567 keeps the source for a later one; tiering takes no
  lock file; a failed re-ATTACH leaves a shard detached.
* Compaction: the native merge has no quarantine (`compaction.go:1143`), so that a table
  whose merge is always fatal ends every cycle, which `MaintenanceGoesOn` excepts. A cycle backs
  the catalog up before it looks at it: after a restore that gave up and left an empty catalog, or while
  damage goes unnoticed, `Keep` cycles rotate the last sound copy out (`blind` in
  `GoodBackupKept`). `recoverGhostFiles` does not ask the latch; the swap goes by row counts (`swap.go:153`); OTLP inserts take no catalog lock
  (`otlp_storage.go:261`), so that orphan deletion can take their files.
* Process: main's deadline of 30 s is shorter than the OTLP drain's 60 s; a SIGTERM is
  dropped while a SIGHUP is pending; a failed `Start` exits without stopping what was started.
* SIPREC: a dialog leaks when a BYE overtakes the INVITE's store (`server.go:217`); CANCEL
  never deletes the session.
* Accounts and settings: no unique key on user names; revocations are in memory; a reset that is
  cancelled after its DELETE leaves the table empty.
* Streams: `Subscribe` replays history into a channel nobody reads yet, so a
  history above 256 events blocks; every reconnect replays again.
* Search: a stale cached range leaves a node out although the comment in
  `flight_service.go` says never; no connected node gives an empty result without an error. Node: the lake is read before
  memory, so a flush between hides a row; `<=` becomes `<` in chunked queries.
* Takeback: the comment at `netchess/hub.go:737` says that the requester's last move and any
  reply to it are dropped. The loop stops at the first position with the requester to move: it drops one half-move if the opponent is to
  move, and none if the requester is. `TakebackFair`, in `GamesSafe`, states what the code does.
* Games: a player who names the code of a waiting player's quick room takes its second seat,
  and the next quick match seats somebody over it (`netris/hub.go:240`, `netchess/hub.go:259`), although a
  room has "Capacity 2" (`games_v4.go:88`). In Netris, a player who enters a room whose first player
  has left takes the second seat from whoever holds it. An old room's `Leave` deletes a new entry.

### Fairness

Nothing makes packets arrive, rows be written, `Stop` be called, a client read or a
statement fail.

* `TableWriter`: each goroutine strongly fair as a whole: Go serves mutex, RWMutex and
  pool waiters in turn, statements end, the ticker keeps firing, `select` takes
  a ready `stopChan` in the end.
* `Ingest`: weak fairness of acceptor, handlers, workers and the steps of `Stop`; a
  read is only sure to return once its connection is closed.
* `HepBroker`: weak fairness of a worker inside `Publish`, nothing of the clients.
* `TierMove`, `CompactionService`, `Compactor`: weak fairness of the goroutines that
  run cycles, which tickers go on starting; failures and crashes are bounded and not owed.
* `Shutdown`: weak fairness of main, of the modules' stops and of time; requests and
  workers owe nothing, as a gRPC export may never end.

## 4. Proofs

All proofs hold for every value of the constants that satisfies the named `ASSUME` of
the module: finite sets, naturals where the code has sizes, at least one place
where the code has a constant above zero.

`TableWriterProofs`: `TypeCorrect`, `CopiedAtMostOnce` (`AtMostOnce`), `NoRowStranded`
(`RowsAwaitFlush`), `CleanStop` (`CleanStopLosesNothing`), `AppendsPassMaintenance`
(`MaintenanceBlocksNoAppend`), `ImplementsCustody` (`Spec => CustodySpec`). `AtMostOnce` is not
inductive: the invariant adds where a row can be (batch, a goroutine's local
rows, a slot, the lake), that these places are disjoint except between an INSERT and
its TRUNCATE or after a failed TRUNCATE, and that a reader and the flush never hold one
slot together. `MaintenanceBlocksNoAppend` needs `CatalogInv`: who holds `catalogMu` at which place,
and that the flush takes it before the slot. The refinement maps held rows to the
rows buffered anywhere and not in the lake.

`IngestProofs`: `TypeCorrect`, `StopDrains` (`JoinedPacketsHandled`), `StoreStaysOpen`
(`StoreOutlivesWorkers`), `ConnsClosed` (`NoConnSurvivesStop`), from what is already true at
each place of `Stop` (`PhaseInv`), which connections are tracked and counted
(`ConnInv`, `SemInv`), the fate of a packet (`PlaceInv`), and that no joined packet
enters the queue after a worker left it empty (`DrainInv`).

`MaintenanceProofs`, tiering: `TypeCorrect`, `LossNeedsLateFlushHolds`, `CopyIntoEmptyHolds`,
`NativeRetiresCopiedHolds`. Equal counts say nothing of the rows; what makes them
enough is `Nested`: without a late flush the first volume that holds the partition has
every row a later one has, so that a destination of equal size is equal.

`ServicePartsProofs`, the live stream: `BrokerTypeCorrect`, `RingReadsLatest` (`RingHoldsLatest`),
`NothingFallsBetween` (`NoGap`), for every ring size. `BrokerInv` says which
published event each ring position holds, by arithmetic modulo the ring's size, and where each
event is that a subscriber has not seen: in a snapshot, its channel, the replay, or dropped.

`MaintenanceProofs`, compaction service: `CsTypeCorrect`, `OneCycleAtATime` (`CyclesExclusive`),
`LatchHolds` (`DamageStopsCompaction`, which no run checks), `SoundBackupLeft` (`GoodBackupKept`),
`RestoreUndoable` (`RestoreReversible`). A sound copy is one that is neither damaged nor of an
empty catalog. `SoundBackupLeft` counts: `CsInv` bounds the copies that follow the newest sound one by
`blind`, the cycles and processes that have ended on an unsound catalog without finding it so, and
one more while a copy waits for its cycle's check. `RestoreUndoable` says that a catalog in
use is among the `.pre-restore` copies as soon as it is gone, whichever restore moved it there: a
restore that fails takes back what it has moved itself (`renamed`), and nothing of an earlier one.

`CompactorProofs`: `PartitionTypeCorrect`, `EveryRowOnce` (`RowsOnce`), `NamedFilesStay`
(`CatalogFilesOnDisk`), `QueriesSeeTheRows` (`QuerySeesRows`). The invariant says that live
files are disjoint in rows, that the planned files and the outputs written so
far have the same rows, and when equal counts of rows mean equal rows. What the greedy batching of
`planBatches` covers would need an induction over the files; the proof uses that a
batching is a partition of them, which is how the module defines it.

`MaintenanceProofs`, shutdown: `SdTypeCorrect`, `CleanExit` (`CleanExitStored`), `LateUse`
(`LateUseIsUnjoined`). `SdInv` says what is closed, drained and joined at each step of the
stop, module by module in reverse order of their start, and that a drain which gave up left the
deadline behind it.

`ServicesProofs`: what the run `services` checks, for the composition. A step of it is a
step of one part or leaves that part's variables alone, so that an inductive invariant of each
part is all it takes.

* `StorageSound` (`LsSpec => []LakeSetupSafe`) and `StorageAmongServices` (`StorageSafe`), by
  an invariant per process: which locks, marks and instances it has at each step of its start
  and stop, and which shards it still has to stop.
* `ReceiversSound` (`ReceiversSafe`), from `ServicePartsProofs`: `SiprecSafe` is inductive
  together with what an INVITE under way has stored; `LineProtoSafe` needs what a handler knows
  of its table at each step, under `tablesMu` and after it (`LpHandler`), and that columns
  believed are columns there unless an earlier process made the table (`LpCaches`).
* `IngestRowsSound` (`IngestRowsSafe`), from `ServicePartsProofs`. `TrInv`: a key has one
  `TableWriter`, a worker past the map has its own, a row not yet appended is with one worker
  and nowhere else, and as long as a suffix has one key its rows are in one slot, in the lake,
  or in both between INSERT and TRUNCATE. `HrInv`: as long as one day is dated at a time the two
  words of the date cache belong together but between their stores, every cached duplicate
  has its packet, and each packet of an imported file is in one place.
* `SettingsDBSound` (`SettingsDBSafe`), from `ServicePartsProofs`. None of its three parts is
  inductive. `RgInv` adds that an id which no client named has one row at most, `AcInv` where the
  state and the one-time token of an OAuth2 login are at each of its steps, `StInv` what
  requests in flight are still going to write: a user who was served
  has each default dashboard or a reset under way that has not come to it yet (`StDefaults`), and
  so has each built-in mapping (`StMappings`).
* `DeliverySound` (`DeliverySafe`). `RlInv` (in `ServicePartsProofs`) says in which of queue,
  batch, POST and outcome each accepted packet is while Close and the client's goroutine
  go on. `SfInv` says of each source where every event of its connection is (`SfData`), what its
  forwarder may do next (`SfControl`), and at which step of opening, serving and closing the handler is
  (`SfPhases`), from which it follows that nobody is left to send when the channel is closed.

`QueriesProofs`: `GamesSound` (`GamesSafe`), for any players, codes and rooms of both hubs. That nobody
who left is sent to, that the next quick match finds somebody, and that who waits alone is found
or told are not inductive one by one: a seat is safe as long as its player's `Leave` finds the
room, which a code used twice may hide, and the queue is live as long as the room's second seat is
free. `NrInv` and `NcInv` say for each room who sits in it and where these players believe they are,
whether its code leads to it and what its timers may still do; for each player where it
sits or which step took the seat; and for the queue whose room it names. An observer marks
the rooms whose exception a property allows (`nrAlone`, `nrNamed`, `ncAlone`, `ncNamed`), and nothing but
the step named at its declaration sets it.

`QueriesProofs`, the node: `NodeSound` (`NodeHandleSafe` and `NodeQuerySafe` in the composition).
`NhInv` says who has or waits for which lock at each step, which handles are open and which of
them the requests, the catalog and the refresher have, as far as the refresh under way has come.
`NqInv` follows the parts of a query: each row of the window that was there while the query ran has been
read, is excused, or is cut off by LIMIT, after every chunk and every merge.

`QueriesProofs`, calls: `CallInfoSound` (`CallInfoSafe`), from `QueryPartsProofs`. The times need
only that a leg's rows are those of the milliseconds up to now (`CiTimely`), in whichever order
`CiOrders` puts them; that the fold
over a millisecond exists and keeps this is an induction over the number of its rows, carried out with the
least number for which it fails. Codecs, durations and state are about the rows in the order of the wire. For
those, `CiMedia`, `CiTimes` and `CiState` relate the leg, with the row not yet looked at applied to it
(`CiSeen`), to the phase of the call, its open offer and its 200s so far; each is preserved by
every message, whose effect on the leg one lemma gives (`CiRowIsDone`).

`QueriesProofs`, searches: `SearchSound` (`SearchSafe`), from `QueryPartsProofs`, and `QueriesSound`
(`QueriesSafe`), which puts the four parts together. That a row held all the while is in the answer, or is
missing for a reason, is a statement about the end of a search only: between two calls to the nodes `SeInv`
says the same of everything that is finished already, whatever the search is made of: the tables
before the present one (`SeAll`), the slices above the present one (`SeSlice`, with `SeChain`, by which those
that wait leave no gap), what is found before the second query of a lazy search and of a correlated one
(`SeFound`), and the nodes that have answered the present query (`SeFan`). The reasons are those of
`AnswerComplete` and survive every step (`SeExcused`): a node not asked or failed is not forgotten,
and a limit reached without a row stays reached. The sorts of the code are modelled by what they do:
the place of a row is found by the number of rows ahead of it (`ByTime`), and that the result is as
long as the input, with the same rows in the order asked for, is proved (`SeSorted`). A smart-routed
node is passed over only for rows that its range does not speak of, because a cached range is one that
a health check read, and a row stored since is in `seUnseen` (`SeRanges`).

Each inductive invariant was checked by TLC on an instance before it was proved. Two parts of
the properties say of what state a standstill is. ENABLED is beyond the prover: `SfMoving` and
`NhMoving` write out the guards of the steps that could be taken instead, and TLC finds them
equivalent to ENABLED on the instances of the runs.

Only model-checked:

* the liveness properties (`AppendedReachesLake`, `StopTerminates`, `StopReturns`,
  `PublishReturns`, `PartitionNotStuck`, `MaintenanceGoesOn`, `SmallFilesMerged`,
  `OrphansReclaimed`, `StopEnds`), which are beyond the prover;
* the three violated properties, which are false.

## 5. Not modelled

Byte-level parsing (HEP chunks, SIP, ISUP, protobuf, line protocol), the translation of
requests to SQL, configuration files, metrics, Lua scripts, MCP, exports, the wizard and the
other commands, the UI and the legacy server. They keep no state between steps of several actors;
the reasons are with the components in `PROJECT.json`.

## 6. Plan

1. The parsers of SIP and of line protocol and the loading of the configuration as
   operators over abstract messages, checked against reference definitions.
