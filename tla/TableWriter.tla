----------------------------- MODULE TableWriter -----------------------------
(***************************************************************************)
(* One table of the DuckLake writer (src/storage/ducklake/tables.go and    *)
(* the flush half of ducklake.go): a Go-side batch, two in-memory DuckDB   *)
(* tables that are swapped, and a flush that copies one of them into the   *)
(* lake table and truncates it.                                            *)
(*                                                                         *)
(* Goroutines: the ingest workers (Writers), which call Write; flushLoop   *)
(* ("loop"), which swaps on a ticker; the flush worker, which serves the   *)
(* jobs; maintenance (compaction, tiering), which takes catalogMu; and the *)
(* goroutine in MultiTableWriter.Stop ("stop").  A step is what happens    *)
(* between two points at which a goroutine can be overtaken: a lock, an    *)
(* atomic load, a channel operation, a statement sent to DuckDB.           *)
(*                                                                         *)
(* External: DuckDB.  A statement either takes effect as a whole or fails  *)
(* and has none; an Appender that fails on a row has committed the rows    *)
(* before it.  A row is a model value.                                     *)
(***************************************************************************)
EXTENDS Naturals, Sequences, FiniteSets

CONSTANTS Rows,             \* rows the workers may write, each at most once
          Writers,          \* ingest worker goroutines
          BatchSize,        \* storage.ducklake.batch_size
          PoolConns,        \* writerPoolConns
          QueueCap,         \* capacity of the flush channel (64, or 2 per table)
          FlushQueue,       \* TRUE: central flush queue; FALSE: per-table worker
          MaxRetries,       \* flushMaxRetries
          MaxFaults,        \* bound on failed statements in one behaviour
          FaultsDuringStop  \* whether statements may fail once Stop was called

Slots == {0, 1}
Procs == Writers \cup {"loop", "stop"}

ASSUME TableWriterAssumption ==
    /\ "loop" \notin Writers /\ "stop" \notin Writers
    /\ BatchSize \in Nat \ {0} /\ PoolConns \in Nat \ {0}
    /\ QueueCap \in Nat \ {0} /\ MaxRetries \in Nat /\ MaxFaults \in Nat
    /\ FlushQueue \in BOOLEAN /\ FaultsDuringStop \in BOOLEAN

VARIABLES batch,      \* tw.batch
          mem,        \* mem[s]: the rows of tw.memTables[s]
          activeIdx,  \* tw.activeIdx
          jobs,       \* slots queued on flushQueueCh or tw.flushCh
          lake,       \* lake[r]: how many copies of r the lake table has
          pc,         \* pc[p]: where goroutine p is
          rows,       \* rows[p]: the local "rows" of p's flushBatch
          slot,       \* slot[p]: the local "slot" of p's lockActiveMem, "old" of a swap
          final,      \* TRUE while flushLoop runs its last flushAll
          fpc,        \* where the flush worker is
          fslot,      \* the slot of its job
          attempt,    \* its attempt number
          maint       \* where maintenance is

\* Observers: they restrict no step.
VARIABLES accepted,   \* rows Write has put into a batch
          dropped,    \* rows of an append that failed
          stale,      \* rows a failed TRUNCATE left behind in a slot
          lost,       \* rows still in memory when the DuckDB instance was closed
          faults      \* failed statements so far

bufVars   == <<batch, mem, activeIdx, jobs, lake>>
procVars  == <<pc, rows, slot, final>>
flushVars == <<fpc, fslot, attempt>>
obsVars   == <<accepted, dropped, stale, lost, faults>>
vars      == <<bufVars, procVars, flushVars, maint, obsVars>>

Init == /\ batch = {}
        /\ mem = [s \in Slots |-> {}]
        /\ activeIdx = 0
        /\ jobs = <<>>
        /\ lake = [r \in Rows |-> 0]
        /\ pc = [p \in Procs |-> "idle"]
        /\ rows = [p \in Procs |-> {}]
        /\ slot = [p \in Procs |-> 0]
        /\ final = FALSE
        /\ fpc = "idle" /\ fslot = 0 /\ attempt = 0
        /\ maint = "idle"
        /\ accepted = {} /\ dropped = {} /\ stale = {} /\ lost = {}
        /\ faults = 0
-------------------------------------------------------------------------------
(* Locks, the connection pool and faults, read off the goroutines' places. *)

StopCalled == pc["stop"] # "idle"
Closed     == pc["stop"] = "stopped"

\* memMu[s] is read-locked by p from RLock to RUnlock.
RHeld(p, s) == slot[p] = s /\ pc[p] \in {"check", "conn", "append"}

\* Mutant: the slot is locked before catalogMu.
WHeldSlotFirst(s) == fslot = s /\ fpc \in {"catalog", "insert", "truncate"}

\* memMu[s] is write-locked by the flush worker.
WHeld(s) == fslot = s /\ fpc \in {"insert", "truncate"}

\* A goroutine in RWMutex.Lock keeps new readers out.
WPending(s) == fslot = s /\ fpc = "wlock"

\* RWMutex.RLock of the slot does not wait.
SlotFree(s) == ~WHeld(s) /\ ~WPending(s)

\* catalogMu: held by maintenance, or by a flush up to the end of its INSERT.
CatalogFree == maint = "idle" /\ fpc \notin {"wlock", "insert"}

\* Mutant: the connection is taken before the read lock.
ConnUsersConnFirst == {p \in Procs : pc[p] \in {"rlock", "check", "conn", "append"}}
                        \cup {m \in {"maint"} : maint = "stmt"}

\* Connections of the pool that are held across a wait.
ConnUsers == {p \in Procs : pc[p] = "append"}
                \cup {m \in {"maint"} : maint = "stmt"}
FreeConn  == Cardinality(ConnUsers) < PoolConns

Fault == /\ faults < MaxFaults
         /\ StopCalled => FaultsDuringStop
         /\ faults' = faults + 1

Goto(p, l) == pc' = [pc EXCEPT ![p] = l]

\* Where the caller of flushBatch goes on: Write returns, flushAll swaps,
\* Close joins the flush worker.
AfterFlushBatch(p) == CASE p = "loop" -> "swap"
                        [] p = "stop" -> "join"
                        [] OTHER      -> "idle"
-------------------------------------------------------------------------------
(* TableWriter.Write and flushBatch. *)

\* The batch grows under batchMu; a full batch is flushed by the same goroutine.
Write(w, r) ==
    /\ pc[w] = "idle" /\ ~StopCalled
    /\ r \notin accepted
    /\ batch' = batch \cup {r}
    /\ accepted' = accepted \cup {r}
    /\ Goto(w, IF Cardinality(batch') >= BatchSize THEN "take" ELSE "idle")
    /\ UNCHANGED <<mem, activeIdx, jobs, lake, rows, slot, final, flushVars, maint,
                   dropped, stale, lost, faults>>

\* flushBatch takes the whole batch under batchMu, or returns when it is empty.
TakeBatch(p) ==
    /\ pc[p] = "take"
    /\ rows' = [rows EXCEPT ![p] = batch]
    /\ batch' = {}
    /\ Goto(p, IF batch = {} THEN AfterFlushBatch(p) ELSE "load")
    /\ UNCHANGED <<mem, activeIdx, jobs, lake, slot, final, flushVars, maint, obsVars>>

\* lockActiveMem: load activeIdx, RLock that slot, and load activeIdx again.
LoadSlot(p) ==
    /\ pc[p] = "load"
    /\ slot' = [slot EXCEPT ![p] = activeIdx]
    /\ Goto(p, "rlock")
    /\ UNCHANGED <<bufVars, rows, final, flushVars, maint, obsVars>>

\* Mutant: appends ignore a running flush.
RLockDuringFlush(p) ==
    /\ pc[p] = "rlock"
    /\ Goto(p, "check")
    /\ UNCHANGED <<bufVars, rows, slot, final, flushVars, maint, obsVars>>

RLock(p) ==
    /\ pc[p] = "rlock" /\ SlotFree(slot[p])
    /\ Goto(p, "check")
    /\ UNCHANGED <<bufVars, rows, slot, final, flushVars, maint, obsVars>>

\* Mutant: activeIdx is not read again under the lock.
RecheckNever(p) ==
    /\ pc[p] = "check"
    /\ Goto(p, "conn")
    /\ UNCHANGED <<bufVars, rows, slot, final, flushVars, maint, obsVars>>

Recheck(p) ==
    /\ pc[p] = "check"
    /\ Goto(p, IF activeIdx = slot[p] THEN "conn" ELSE "load")
    /\ UNCHANGED <<bufVars, rows, slot, final, flushVars, maint, obsVars>>

\* db.Conn: waits for a connection of the pool.
GetConn(p) ==
    /\ pc[p] = "conn" /\ FreeConn
    /\ Goto(p, "append")
    /\ UNCHANGED <<bufVars, rows, slot, final, flushVars, maint, obsVars>>

\* The end of an append that stored the rows S: the connection and the read
\* lock are released, the rest of the batch is discarded with the error.
Appended(p, S) ==
    /\ mem' = [mem EXCEPT ![slot[p]] = @ \cup S]
    /\ dropped' = dropped \cup (rows[p] \ S)
    /\ rows' = [rows EXCEPT ![p] = {}]
    /\ Goto(p, AfterFlushBatch(p))
    /\ UNCHANGED <<batch, activeIdx, jobs, lake, slot, final, flushVars, maint,
                   accepted, stale, lost>>

AppendOK(p) == pc[p] = "append" /\ Appended(p, rows[p]) /\ UNCHANGED faults

\* db.Conn fails, or the Appender fails after the rows S.
AppendErr(p) ==
    \/ pc[p] = "conn" /\ Appended(p, {}) /\ Fault
    \/ pc[p] = "append" /\ Fault /\ \E S \in SUBSET rows[p] : Appended(p, S)

FlushBatch(p) == \/ TakeBatch(p) \/ LoadSlot(p) \/ RLock(p) \/ Recheck(p)
                 \/ GetConn(p) \/ AppendOK(p) \/ AppendErr(p)
-------------------------------------------------------------------------------
(* MultiTableWriter.flushLoop and flushAll. *)

\* The ticker fires; the Azure secret is refreshed first when it is due.
Tick ==
    /\ pc["loop"] = "idle"
    /\ \E l \in {"secret", "take"} : Goto("loop", l)
    /\ UNCHANGED <<bufVars, rows, slot, final, flushVars, maint, obsVars>>

\* ensureAzureSecretFresh: one statement under catalogMu.
RefreshSecret ==
    /\ pc["loop"] = "secret" /\ CatalogFree /\ FreeConn
    /\ Goto("loop", "take")
    /\ UNCHANGED <<bufVars, rows, slot, final, flushVars, maint, obsVars>>

\* Mutant: the loop returns without a last flushAll.
LastTickNoFlush ==
    /\ pc["loop"] = "idle" /\ StopCalled
    /\ final' = TRUE
    /\ Goto("loop", "exited")
    /\ UNCHANGED <<bufVars, rows, slot, flushVars, maint, obsVars>>

\* stopChan is closed: flushAll once more, then the loop returns.
LastTick ==
    /\ pc["loop"] = "idle" /\ StopCalled
    /\ final' = TRUE
    /\ Goto("loop", "take")
    /\ UNCHANGED <<bufVars, rows, slot, flushVars, maint, obsVars>>

\* Mutant: the index is not kept to two slots.
SwapPastTwo ==
    /\ pc["loop"] = "swap"
    /\ slot' = [slot EXCEPT !["loop"] = activeIdx]
    /\ activeIdx' = activeIdx + 1
    /\ Goto("loop", "send")
    /\ UNCHANGED <<batch, mem, jobs, lake, rows, final, flushVars, maint, obsVars>>

\* The active slot becomes standby.  Only this goroutine stores activeIdx.
Swap ==
    /\ pc["loop"] = "swap"
    /\ slot' = [slot EXCEPT !["loop"] = activeIdx]
    /\ activeIdx' = 1 - activeIdx
    /\ Goto("loop", "send")
    /\ UNCHANGED <<batch, mem, jobs, lake, rows, final, flushVars, maint, obsVars>>

\* Mutant: a job that finds the channel full is dropped.
SendJobOrDrop ==
    /\ pc["loop"] = "send"
    /\ jobs' = IF Len(jobs) < QueueCap THEN Append(jobs, slot["loop"]) ELSE jobs
    /\ Goto("loop", IF final THEN "exited" ELSE "idle")
    /\ UNCHANGED <<batch, mem, activeIdx, lake, rows, slot, final, flushVars, maint,
                   obsVars>>

\* The former active slot is queued; the send blocks while the channel is full.
SendJob ==
    /\ pc["loop"] = "send" /\ Len(jobs) < QueueCap
    /\ jobs' = Append(jobs, slot["loop"])
    /\ Goto("loop", IF final THEN "exited" ELSE "idle")
    /\ UNCHANGED <<batch, mem, activeIdx, lake, rows, slot, final, flushVars, maint,
                   obsVars>>

Loop == Tick \/ RefreshSecret \/ LastTick \/ Swap \/ SendJob
-------------------------------------------------------------------------------
(* flushQueueWorker or flushWorker: flushSlotDirect and copyAndClearSlot. *)

RecvJob ==
    /\ fpc = "idle" /\ jobs # <<>>
    /\ fslot' = Head(jobs)
    /\ jobs' = Tail(jobs)
    /\ fpc' = "catalog" /\ attempt' = 0
    /\ UNCHANGED <<batch, mem, activeIdx, lake, procVars, maint, obsVars>>

LockCatalog ==
    /\ fpc = "catalog" /\ CatalogFree
    /\ fpc' = "wlock"
    /\ UNCHANGED <<bufVars, procVars, fslot, attempt, maint, obsVars>>

\* Mutant: the flush does not wait for running appends.
LockSlotNoWait ==
    /\ fpc = "wlock"
    /\ fpc' = "insert"
    /\ UNCHANGED <<bufVars, procVars, fslot, attempt, maint, obsVars>>

LockSlot ==
    /\ fpc = "wlock" /\ \A p \in Procs : ~RHeld(p, fslot)
    /\ fpc' = "insert"
    /\ UNCHANGED <<bufVars, procVars, fslot, attempt, maint, obsVars>>

\* Mutant: the slot is not truncated.
InsertNoTruncate ==
    /\ fpc = "insert" /\ FreeConn
    /\ lake' = [r \in Rows |-> IF r \in mem[fslot] THEN lake[r] + 1 ELSE lake[r]]
    /\ fpc' = "idle"
    /\ UNCHANGED <<batch, mem, activeIdx, jobs, procVars, fslot, attempt, maint, obsVars>>

\* INSERT INTO lake SELECT * FROM mem, then catalogMu is released.  An empty
\* slot is not truncated.
InsertOK ==
    /\ fpc = "insert" /\ FreeConn
    /\ lake' = [r \in Rows |-> IF r \in mem[fslot] THEN lake[r] + 1 ELSE lake[r]]
    /\ fpc' = IF mem[fslot] = {} THEN "idle" ELSE "truncate"
    /\ UNCHANGED <<batch, mem, activeIdx, jobs, procVars, fslot, attempt, maint, obsVars>>

\* The INSERT fails: both locks are released, and the flush backs off and tries
\* again, or gives up (error not retriable, or attempts used up).
InsertErr ==
    /\ fpc = "insert" /\ FreeConn /\ Fault
    /\ \/ attempt < MaxRetries /\ attempt' = attempt + 1 /\ fpc' = "catalog"
       \/ fpc' = "idle" /\ UNCHANGED attempt
    /\ UNCHANGED <<bufVars, procVars, fslot, maint, accepted, dropped, stale, lost>>

TruncateOK ==
    /\ fpc = "truncate" /\ FreeConn
    /\ mem' = [mem EXCEPT ![fslot] = {}]
    /\ fpc' = "idle"
    /\ UNCHANGED <<batch, activeIdx, jobs, lake, procVars, fslot, attempt, maint, obsVars>>

\* A failed TRUNCATE is only logged.
TruncateErr ==
    /\ fpc = "truncate" /\ FreeConn /\ Fault
    /\ stale' = stale \cup mem[fslot]
    /\ fpc' = "idle"
    /\ UNCHANGED <<bufVars, procVars, fslot, attempt, maint, accepted, dropped, lost>>

FlushWorker == \/ RecvJob \/ LockCatalog \/ LockSlot \/ InsertOK \/ InsertErr
               \/ TruncateOK \/ TruncateErr
-------------------------------------------------------------------------------
(* Maintenance on the same DuckDB instance: CatalogLock, a statement on a   *)
(* connection of the pool, CatalogUnlock.                                   *)

MaintLock == /\ maint = "idle" /\ CatalogFree
             /\ maint' = "locked"
             /\ UNCHANGED <<bufVars, procVars, flushVars, obsVars>>

MaintStmt == /\ maint = "locked" /\ FreeConn
             /\ maint' = "stmt"
             /\ UNCHANGED <<bufVars, procVars, flushVars, obsVars>>

MaintUnlock == /\ maint = "stmt"
               /\ maint' = "idle"
               /\ UNCHANGED <<bufVars, procVars, flushVars, obsVars>>

Maintenance == MaintLock \/ MaintStmt \/ MaintUnlock
-------------------------------------------------------------------------------
(* MultiTableWriter.Stop and TableWriter.Close.  Writer.Stop joins the      *)
(* ingest workers before it calls Stop; a tier move started at boot is not  *)
(* joined, so maintenance may still run.                                    *)

\* Every queued flush job has been served.
JobsDone == jobs = <<>> /\ fpc = "idle"

StopCall ==
    /\ pc["stop"] = "idle"
    /\ \A w \in Writers : pc[w] = "idle"
    /\ Goto("stop", "wait")
    /\ UNCHANGED <<bufVars, rows, slot, final, flushVars, maint, obsVars>>

\* wg.Wait for flushLoop and, with the central queue, flushQueueWg.Wait; then
\* Close runs flushBatch.
StopJoinLoop ==
    /\ pc["stop"] = "wait" /\ pc["loop"] = "exited"
    /\ FlushQueue => JobsDone
    /\ Goto("stop", "take")
    /\ UNCHANGED <<bufVars, rows, slot, final, flushVars, maint, obsVars>>

\* Mutant: the instance is closed without joining the flush worker.
CloseDBNoJoin ==
    /\ pc["stop"] = "join"
    /\ lost' = lost \cup {r \in mem[0] \cup mem[1] : lake[r] = 0}
    /\ mem' = [s \in Slots |-> {}]
    /\ Goto("stop", "stopped")
    /\ UNCHANGED <<batch, activeIdx, jobs, lake, rows, slot, final, flushVars, maint,
                   accepted, dropped, stale, faults>>

\* close(flushCh) and flushWg.Wait, then db.Close drops the memory tables.
CloseDB ==
    /\ pc["stop"] = "join" /\ JobsDone
    /\ lost' = lost \cup {r \in mem[0] \cup mem[1] : lake[r] = 0}
    /\ mem' = [s \in Slots |-> {}]
    /\ Goto("stop", "stopped")
    /\ UNCHANGED <<batch, activeIdx, jobs, lake, rows, slot, final, flushVars, maint,
                   accepted, dropped, stale, faults>>

Stop == StopCall \/ StopJoinLoop \/ CloseDB
-------------------------------------------------------------------------------
\* The process is finished; the model idles.
Done == Closed /\ UNCHANGED vars

Next == \/ \E w \in Writers, r \in Rows : Write(w, r)
        \/ \E p \in Procs : FlushBatch(p)
        \/ Loop
        \/ FlushWorker
        \/ Maintenance
        \/ Stop
        \/ Done

Spec == Init /\ [][Next]_vars

\* What the Go runtime and DuckDB give every goroutine: a runnable goroutine
\* runs, and one that waits for a mutex, an RWMutex or a pool connection is
\* served in turn, so strong fairness of the goroutine as a whole (it is at one
\* place at a time).  The ticker keeps firing, select picks a ready stopChan in
\* the end, and maintenance finishes its statement.  Write, the call of Stop and
\* the start of maintenance are the environment's, and no statement has to fail.
Fairness ==
    /\ \A p \in Procs : SF_vars(\/ TakeBatch(p) \/ LoadSlot(p) \/ RLock(p)
                                \/ Recheck(p) \/ GetConn(p) \/ AppendOK(p))
    /\ SF_vars(Tick \/ RefreshSecret \/ Swap \/ SendJob)
    /\ SF_vars(LastTick)
    /\ SF_vars(RecvJob \/ LockCatalog \/ LockSlot \/ InsertOK \/ TruncateOK)
    /\ SF_vars(MaintStmt \/ MaintUnlock)
    /\ WF_vars(StopJoinLoop \/ CloseDB)

FairSpec == Spec /\ Fairness
-------------------------------------------------------------------------------
(* Properties. *)

InLake   == {r \in Rows : lake[r] > 0}
Buffered == batch \cup mem[0] \cup mem[1] \cup (UNION {rows[p] : p \in Procs})

\* The type invariant of every variable of the table writer.
TypeOK ==
    /\ batch \in SUBSET Rows
    /\ mem \in [Slots -> SUBSET Rows]
    /\ activeIdx \in Slots
    /\ jobs \in Seq(Slots)
    /\ lake \in [Rows -> Nat]
    /\ pc \in [Procs -> {"idle", "take", "load", "rlock", "check", "conn", "append",
                         "secret", "swap", "send", "exited", "wait", "join", "stopped"}]
    /\ rows \in [Procs -> SUBSET Rows]
    /\ slot \in [Procs -> Slots]
    /\ final \in BOOLEAN
    /\ fpc \in {"idle", "catalog", "wlock", "insert", "truncate"}
    /\ fslot \in Slots
    /\ attempt \in 0..MaxRetries
    /\ maint \in {"idle", "locked", "stmt"}
    /\ accepted \in SUBSET Rows /\ dropped \in SUBSET Rows
    /\ stale \in SUBSET Rows /\ lost \in SUBSET Rows
    /\ faults \in 0..MaxFaults

\* The table writer implements RowCustody: a row leaves memory only into the
\* lake, with a reported append error, or when db.Close drops the memory
\* tables.  In particular no append lands between the INSERT ... SELECT and
\* the TRUNCATE of copyAndClearSlot (tables.go, memMu).
Custody == INSTANCE RowCustody WITH held   <- Buffered \ InLake,
                                    stored <- InLake,
                                    gone   <- dropped \cup lost,
                                    open   <- ~Closed
CustodySpec == Custody!Spec

\* A row is copied into the lake at most once, over any interleaving of swaps,
\* retries and queued jobs for a slot that is active again (flushSlotDirect),
\* unless a TRUNCATE failed with the row in the slot.
AtMostOnce == \A r \in Rows \ stale : lake[r] <= 1

JobQueued(s) == \E i \in 1..Len(jobs) : jobs[i] = s

\* A flush of slot s is still to come: its INSERT has not run yet.
JobComing(s) == \/ JobQueued(s)
                \/ fslot = s /\ fpc \in {"catalog", "wlock", "insert"}
                \/ pc["loop"] = "send" /\ slot["loop"] = s

\* lockActiveMem: "Rows therefore only go into the slot that the next swap hands
\* to a flush".  As long as no statement failed, rows in the standby slot, and
\* rows about to be appended to it, have a flush of that slot to come.
RowsAwaitFlush ==
    faults = 0 =>
        \A s \in Slots \ {activeIdx} :
            /\ mem[s] # {} => JobComing(s) \/ (fslot = s /\ fpc = "truncate")
            /\ \A p \in Procs : slot[p] = s /\ pc[p] \in {"conn", "append"}
                                   => JobComing(s)

\* As long as no statement failed, db.Close at the end of Stop drops no row that
\* the lake does not have: the order of Stop (join the loop, serve the jobs,
\* close the table, close the instance) leaves nothing behind in the batch or in
\* either memory table.
CleanStopLosesNothing == faults = 0 => lost = {}

\* While maintenance holds catalogMu, an append waits for a slot only until the
\* TRUNCATE that already runs is done, never for the maintenance itself
\* (copyAndClearSlot takes catalogMu before the slot lock).
MaintenanceBlocksNoAppend ==
    \A p \in Procs : (maint # "idle" /\ pc[p] = "rlock" /\ ~SlotFree(slot[p]))
                         => (fpc = "truncate" /\ fslot = slot[p])

\* A row in a memory table reaches the lake, through failed flushes too (the
\* slot is flushed again two swaps later), unless the writer is closed first.
AppendedReachesLake ==
    \A r \in Rows : (r \in mem[0] \cup mem[1]) ~> (lake[r] > 0 \/ Closed)

\* MultiTableWriter.Stop returns: no wait of the flush loop, the flush worker,
\* the appends and maintenance for each other's locks, connections and channel
\* slots closes a cycle.
StopTerminates == StopCalled ~> Closed
===============================================================================
