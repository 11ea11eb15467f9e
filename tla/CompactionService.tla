------------------------- MODULE CompactionService -------------------------
(***************************************************************************)
(* The control of compaction (writer/compaction*.go): two goroutines that  *)
(* both run cycles, one at a time; the DuckDB instance they use, which a   *)
(* fatal error invalidates; the latches that stop the native engine, a     *)
(* table's merge or all of compaction; the catalog backups that rotate     *)
(* before every native merge; and what start-up and the operator do to a   *)
(* catalog (storage/ducklake/backup.go, repair.go).                        *)
(*                                                                         *)
(* What a cycle does to the lake's files is module Compactor.  Here the    *)
(* catalog is good, or damaged in a way that some check notices.           *)
(***************************************************************************)
EXTENDS Naturals, FiniteSets, Sequences

CONSTANTS
    Tables,
    Keep,           \* DefaultCatalogBackupKeep
    MaxMergeFatals, \* maxMergeFatalsPerTable
    CsMaxFaults,    \* bound on failed statements and crashes
    MaxDamages,     \* bound on damage to the catalog
    MaxStarts,      \* bound on starts of the process
    MaxRestores     \* bound on restores by the operator

ASSUME CompactionServiceAssumption ==
    /\ IsFiniteSet(Tables)
    /\ {Keep, MaxMergeFatals, MaxStarts} \subseteq Nat \ {0}
    /\ {CsMaxFaults, MaxDamages, MaxRestores} \subseteq Nat

Goroutines == {"startup", "loop"}

\* "dupes": duplicated snapshot ids, which the next start repairs.  "corrupt":
\* a table_id that is no integer, or pages that quick_check rejects.  "empty":
\* what a start creates where it finds no catalog.
Catalogs == {"good", "dupes", "corrupt", "empty", "missing"}

\* The catalogs that hold the lake: a start makes the duplicates good.
Sound == {"good", "dupes"}

Engines == {"native", "duckdb"}

CycleSteps == {"retention", "inlined", "backup", "native", "leftover", "duckdb",
               "invariants", "verify", "maintain"}
CsPlaces == {"wait", "ghosts", "check", "flush", "done"} \cup CycleSteps

VARIABLES
    process,        \* "down", "up", "stopping"; "restoring": homer catalog restore
    csPc,           \* where each goroutine is
    cycleRunning,
    enabled,        \* config.Enable
    nativeEngine,   \* config.Engine is native, and lake and catalog allow it
    isolated,       \* openDB is set: compaction has a DuckDB instance of its own
    poison,         \* <<engine, table>>: the table's files make that engine's merge fatal
    closeDB,        \* ... that has not been closed
    dbBroken,
    nativeDisabled,
    catalogCorrupt, \* the latch
    nativeUnsupported,
    mergeFatals,
    todo,           \* tables the running cycle has still to merge
    duckdbTables,   \* tables the native engine leaves to the DuckDB merge
    catalog,
    backups,        \* oldest first
    aside,          \* .pre-restore copies, oldest first
    renamed,        \* the running restore has moved a catalog aside
    csFaults, damages, starts, restores

(* Observers. *)
VARIABLES
    blind,          \* cycles and processes that have ended on an unsound catalog, the
                    \* damage not found, since a sound one was backed up: at most
                    \* Keep, and Keep as long as none was
    lastLive        \* the last catalog in use that no start had to create

config == <<enabled, nativeEngine, isolated, poison>>
latches == <<nativeDisabled, catalogCorrupt, nativeUnsupported, mergeFatals>>
csCycleVars == <<cycleRunning, todo, duckdbTables>>
bounds == <<damages, starts, restores>>
asides == <<aside, renamed>>
csVars == <<process, csPc, config, closeDB, dbBroken, latches, csCycleVars, catalog, backups, asides,
          csFaults, bounds, blind, lastLive>>

---------------------------------------------------------------------------

Fault == csFaults < CsMaxFaults /\ csFaults' = csFaults + 1

\* A statement: done, failed, or failed with an error that invalidates the
\* instance (noteDBError).
Statement ==
    \/ UNCHANGED <<csFaults, dbBroken>>
    \/ ~dbBroken /\ Fault /\ dbBroken' = TRUE

\* ensureDB: an invalidated instance is opened again when compaction owns it.
EnsureDB(ok) ==
    \/ ~dbBroken /\ ok /\ UNCHANGED <<csFaults, dbBroken>>
    \/ dbBroken /\ isolated /\ ok /\ dbBroken' = FALSE /\ UNCHANGED csFaults
    \/ dbBroken /\ isolated /\ ~ok /\ Fault /\ UNCHANGED dbBroken
    \/ dbBroken /\ ~isolated /\ ~ok /\ UNCHANGED <<csFaults, dbBroken>>

mergeQuarantined == {t \in Tables : mergeFatals[t] >= MaxMergeFatals}

CsGoto(g, place) == csPc' = [csPc EXCEPT ![g] = place]

\* A fatal error of the merge of table t: of its own files, or for another reason.
FatalMerge(e, t) == IF <<e, t>> \in poison THEN UNCHANGED csFaults ELSE Fault

\* What lastLive is once the catalog is c.
LiveAfter(c) == IF c \in {"missing", "empty"} THEN lastLive ELSE c

\* After a cycle the loop waits for the next tick.
Home(g) == IF g = "loop" THEN "wait" ELSE "done"

CsInit ==
    /\ process = "down"
    /\ csPc = [g \in Goroutines |-> "done"]
    /\ enabled \in BOOLEAN /\ nativeEngine \in BOOLEAN /\ isolated \in BOOLEAN
    /\ ~enabled => ~nativeEngine /\ ~isolated
    /\ poison \in SUBSET ({e \in Engines : e = "native" => nativeEngine} \X Tables)
    /\ ~enabled => poison = {}
    /\ closeDB = FALSE /\ dbBroken = FALSE
    /\ nativeDisabled = FALSE /\ catalogCorrupt = FALSE
    /\ nativeUnsupported = {} /\ mergeFatals = [t \in Tables |-> 0]
    /\ cycleRunning = FALSE /\ todo = {} /\ duckdbTables = {}
    /\ catalog = "good" /\ backups = <<>> /\ aside = <<>> /\ renamed = FALSE
    /\ csFaults = 0 /\ damages = 0 /\ starts = 0 /\ restores = 0
    /\ blind = Keep /\ lastLive = "good"

---------------------------------------------------------------------------
(* The process. *)

\* Duplicates are collapsed, other damage is only reported.
Repaired == IF catalog = "dupes" THEN "good" ELSE catalog

\* The writer attaches the catalog, after RepairCatalogSnapshots has collapsed
\* duplicates, or creates one; then the goroutines begin to wait.
Start ==
    /\ process = "down"
    /\ starts < MaxStarts
    /\ starts' = starts + 1
    /\ process' = "up"
    /\ catalog' = IF catalog = "missing" THEN "empty" ELSE Repaired
    /\ lastLive' = LiveAfter(catalog')
    /\ csPc' = [g \in Goroutines |-> IF enabled \/ g = "loop" THEN "wait" ELSE "done"]
    /\ closeDB' = isolated
    /\ UNCHANGED <<config, dbBroken, latches, csCycleVars, backups, asides, csFaults, damages, restores,
                   blind>>

\* The latches end with the process.
EndProcess ==
    /\ closeDB' = FALSE /\ dbBroken' = FALSE
    /\ nativeDisabled' = FALSE /\ catalogCorrupt' = FALSE
    /\ nativeUnsupported' = {} /\ mergeFatals' = [t \in Tables |-> 0]

\* Stop: cancel; wg.Wait; closeMaintenanceDB.
CloseMaintenanceDB ==
    /\ process = "stopping"
    /\ \A g \in Goroutines : csPc[g] = "done"
    /\ process' = "down"
    /\ EndProcess

StopCancels ==
    /\ process = "up"
    /\ process' = "stopping"
    /\ UNCHANGED <<csPc, config, closeDB, dbBroken, latches, csCycleVars, catalog, backups, asides,
                   csFaults, bounds, blind, lastLive>>

Undetected == IF catalog \notin Sound /\ blind < Keep THEN blind + 1 ELSE blind

StopReturns ==
    /\ CloseMaintenanceDB
    /\ blind' = Undetected
    /\ UNCHANGED <<csPc, config, csCycleVars, catalog, backups, asides, csFaults,
                   bounds, lastLive>>

CsCrash ==
    /\ process \in {"up", "stopping"}
    /\ Fault
    /\ process' = "down"
    /\ csPc' = [g \in Goroutines |-> "done"]
    /\ EndProcess
    /\ cycleRunning' = FALSE /\ todo' = {} /\ duckdbTables' = {}
    /\ blind' = Undetected
    /\ UNCHANGED <<config, catalog, backups, asides, bounds, lastLive>>

\* What nobody intends: two SQLite libraries on one file, a torn page.
DamageCatalog ==
    /\ damages < MaxDamages
    /\ damages' = damages + 1
    /\ process = "up" /\ catalog = "good"
    /\ catalog' \in {"dupes", "corrupt"}
    /\ lastLive' = catalog'
    /\ UNCHANGED <<process, csPc, config, closeDB, dbBroken, latches, csCycleVars, backups, asides,
                   csFaults, starts, restores, blind>>

---------------------------------------------------------------------------
(* homer catalog restore, while the writer is down (it takes the writer's  *)
(* lock): the source is looked up among the backups and the .pre-restore   *)
(* copies, the live files are renamed, then the source is copied.          *)

\* Mutant: the name of the copy has no time stamp, and takes the last one's place.
AsideCatalogFilesOnce(c) == <<c>>

\* asideCatalogFiles: one more .pre-restore copy; its name is the time in seconds,
\* and no operator restores twice in one second.
AsideCatalogFiles(c) == Append(aside, c)

\* What a restore may copy: a backup, or a .pre-restore copy of an earlier one.
RestoreSources ==
    {backups[i] : i \in DOMAIN backups}
    \cup {aside[i] : i \in 1 .. (IF renamed THEN Len(aside) - 1 ELSE Len(aside))}

RestoreAside ==
    /\ process = "down"
    /\ RestoreSources # {}
    /\ restores < MaxRestores
    /\ restores' = restores + 1
    /\ process' = "restoring"
    /\ renamed' = (catalog # "missing")
    /\ aside' = IF catalog = "missing" THEN aside ELSE AsideCatalogFiles(catalog)
    /\ catalog' = "missing"
    /\ UNCHANGED <<csPc, config, closeDB, dbBroken, latches, csCycleVars, backups, csFaults, damages,
                   starts, blind, lastLive>>

\* undoCatalogRenames: what this restore has renamed, and no other, goes back.
UndoCatalogRenames ==
    IF renamed
    THEN /\ catalog' = aside[Len(aside)]
         /\ aside' = SubSeq(aside, 1, Len(aside) - 1)
    ELSE UNCHANGED <<catalog, aside>>

\* The copy succeeds; or fails and the renames are undone; or the command dies.
RestoreEnds ==
    /\ process = "restoring"
    /\ process' = "down"
    /\ renamed' = FALSE
    /\ \/ catalog' \in RestoreSources /\ UNCHANGED <<aside, csFaults>>
       \/ Fault /\ UndoCatalogRenames
       \/ Fault /\ UNCHANGED <<catalog, aside>>
    /\ lastLive' = LiveAfter(catalog')
    /\ UNCHANGED <<csPc, config, closeDB, dbBroken, latches, csCycleVars, backups, bounds, blind>>

---------------------------------------------------------------------------
(* The goroutines. *)

\* A timer or ticker fires, or the context is done.
Wake(g) ==
    /\ csPc[g] = "wait"
    /\ \/ process = "stopping" /\ CsGoto(g, "done")
       \/ /\ process = "up"
          /\ CsGoto(g, IF g = "startup" THEN "ghosts" ELSE IF enabled THEN "check" ELSE "flush")
    /\ UNCHANGED <<dbBroken, latches, csCycleVars, backups, csFaults, blind>>

\* inlineFlushOnlyLoop.
FlushOnly(g) ==
    /\ csPc[g] = "flush"
    /\ \/ EnsureDB(FALSE)
       \/ ~dbBroken /\ Statement
    /\ CsGoto(g, "wait")
    /\ UNCHANGED <<latches, csCycleVars, backups, blind>>

\* recoverGhostFiles: no look at the latch.
GhostFiles(g) ==
    /\ csPc[g] = "ghosts"
    /\ Statement
    /\ CsGoto(g, "check")
    /\ UNCHANGED <<latches, csCycleVars, backups, blind>>

\* Mutant: two cycles at once.
BeginCycleAlways == TRUE

\* The compare-and-swap of beginCycle succeeds.
BeginCycle == ~cycleRunning

\* runCompaction returns early; endCycle is deferred.
SkipCycle(g) == CsGoto(g, Home(g)) /\ cycleRunning' = FALSE /\ UNCHANGED <<todo, duckdbTables>>

\* Mutant: the latch is not looked at.
CatalogIntegrityUnasked == TRUE

catalogIntegrityOK == ~catalogCorrupt

RunCompaction(g) ==
    /\ csPc[g] = "check"
    /\ \/ /\ ~BeginCycle
          /\ CsGoto(g, Home(g))
          /\ UNCHANGED <<csCycleVars, csFaults, dbBroken>>
       \/ /\ BeginCycle /\ ~catalogIntegrityOK
          /\ SkipCycle(g)
          /\ UNCHANGED <<csFaults, dbBroken>>
       \/ /\ BeginCycle /\ catalogIntegrityOK
          /\ EnsureDB(FALSE)
          /\ SkipCycle(g)
       \/ /\ BeginCycle /\ catalogIntegrityOK
          /\ EnsureDB(TRUE)
          /\ cycleRunning' = TRUE
          /\ todo' = Tables /\ duckdbTables' = {}
          /\ CsGoto(g, "retention")
    /\ UNCHANGED <<latches, backups, blind>>

EndCycle(g) == CsGoto(g, Home(g)) /\ cycleRunning' = FALSE /\ todo' = {} /\ duckdbTables' = {}

\* discoverTables and runRetention; an error goes to the log.
Retention(g) ==
    /\ csPc[g] = "retention"
    /\ Statement
    /\ CsGoto(g, "inlined")
    /\ UNCHANGED <<latches, csCycleVars, backups, blind>>

\* flushInlinedData, then useNativeEngine, which asks the instance what it can do.
Inlined(g) ==
    /\ csPc[g] = "inlined"
    /\ \/ \E ok \in BOOLEAN : EnsureDB(ok)
       \/ ~dbBroken /\ Fault /\ dbBroken' = TRUE
    /\ CsGoto(g, IF nativeEngine /\ ~nativeDisabled /\ ~dbBroken' THEN "backup" ELSE "duckdb")
    /\ UNCHANGED <<latches, csCycleVars, backups, blind>>

\* pruneCatalogBackups.
Prune(b) == IF Len(b) <= Keep THEN b ELSE SubSeq(b, Len(b) - Keep + 1, Len(b))

\* backupBeforeNativeMerge; without a copy there is no merge.
Backup(g) ==
    /\ csPc[g] = "backup"
    /\ \/ /\ backups' = Prune(Append(backups, catalog))
          /\ blind' = IF catalog \in Sound THEN 0 ELSE blind
          /\ CsGoto(g, "native")
          /\ UNCHANGED csFaults
       \/ /\ Fault
          /\ CsGoto(g, "verify")
          /\ UNCHANGED <<backups, blind>>
    /\ UNCHANGED <<dbBroken, latches, csCycleVars>>

\* A fatal error ends the cycle: no invariants, no verify, no maintenance.
AbortCycle(g) ==
    /\ dbBroken' = TRUE
    /\ EndCycle(g)
    /\ blind' = Undetected

\* runNativeMerge, table by table: merged, skipped or failed; left to the DuckDB
\* merge; or unsupported until restart.  A fatal error is not counted here.
NativeMerge(g, t) ==
    /\ csPc[g] = "native" /\ t \in todo
    /\ \/ /\ todo' = todo \ {t}
          /\ \/ UNCHANGED <<duckdbTables, nativeUnsupported>>
             \/ /\ t \notin nativeUnsupported
                /\ duckdbTables' = duckdbTables \cup {t}
                /\ UNCHANGED nativeUnsupported
             \/ /\ nativeUnsupported' = nativeUnsupported \cup {t}
                /\ UNCHANGED duckdbTables
          /\ UNCHANGED <<csPc, cycleRunning, dbBroken, csFaults, blind>>
       \/ /\ t \notin nativeUnsupported
          /\ FatalMerge("native", t)
          /\ AbortCycle(g)
          /\ UNCHANGED nativeUnsupported
    /\ UNCHANGED <<nativeDisabled, catalogCorrupt, mergeFatals, backups>>

NativeMerged(g) ==
    /\ csPc[g] = "native" /\ todo = {}
    /\ todo' = duckdbTables
    /\ duckdbTables' = {}
    /\ CsGoto(g, "leftover")
    /\ UNCHANGED <<cycleRunning, dbBroken, latches, backups, csFaults, blind>>

\* Mutant: the fatal error is not counted.
RecordMergeFatalLost(t) == UNCHANGED mergeFatals

\* recordMergeFatal; from the MaxMergeFatals'th on the table is quarantined.
RecordMergeFatal(t) == mergeFatals' = [mergeFatals EXCEPT ![t] = @ + 1]

\* mergeTablesDuckDB, table by table.  On an instance that is already invalid
\* every merge is a fatal error.
DuckdbMerge(g, t) ==
    /\ csPc[g] \in {"leftover", "duckdb"} /\ t \in todo
    /\ \/ /\ t \in mergeQuarantined \/ ~dbBroken
          /\ todo' = todo \ {t}
          /\ UNCHANGED <<csPc, cycleRunning, duckdbTables, mergeFatals, dbBroken, csFaults, blind>>
       \/ /\ t \notin mergeQuarantined
          /\ IF dbBroken THEN UNCHANGED csFaults ELSE FatalMerge("duckdb", t)
          /\ RecordMergeFatal(t)
          /\ AbortCycle(g)
    /\ UNCHANGED <<nativeDisabled, catalogCorrupt, nativeUnsupported, backups>>

DuckdbMerged(g) ==
    /\ csPc[g] \in {"leftover", "duckdb"} /\ todo = {}
    /\ CsGoto(g, IF csPc[g] = "leftover" THEN "invariants" ELSE "verify")
    /\ UNCHANGED <<dbBroken, latches, csCycleVars, backups, csFaults, blind>>

\* checkCatalogInvariants; an error of the check counts as a violation.
CheckInvariants(g) ==
    /\ csPc[g] = "invariants"
    /\ \/ nativeDisabled' = (nativeDisabled \/ catalog = "dupes") /\ UNCHANGED csFaults
       \/ nativeDisabled' = TRUE /\ Fault
    /\ CsGoto(g, "verify")
    /\ UNCHANGED <<dbBroken, catalogCorrupt, nativeUnsupported, mergeFatals, csCycleVars, backups,
                   blind>>

\* What the scan of ducklake_data_file or quick_check sees.
CorruptTableIDs == catalog = "corrupt"

\* verifyCatalogIntegrity; a check that cannot run is only logged.
Verify(g) ==
    /\ csPc[g] = "verify"
    /\ \/ /\ CorruptTableIDs
          /\ catalogCorrupt' = TRUE
          /\ EndCycle(g)
          /\ UNCHANGED <<csFaults, blind>>
       \/ /\ IF CorruptTableIDs THEN Fault ELSE UNCHANGED csFaults
          /\ blind' = Undetected
          /\ CsGoto(g, "maintain")
          /\ UNCHANGED <<csCycleVars, catalogCorrupt>>
    /\ UNCHANGED <<dbBroken, nativeDisabled, nativeUnsupported, mergeFatals, backups>>

\* The maintenance calls; every failure goes to the log.
Maintain(g) ==
    /\ csPc[g] = "maintain"
    /\ Statement
    /\ EndCycle(g)
    /\ UNCHANGED <<latches, backups, blind>>

Goroutine(g) ==
    /\ \/ Wake(g) \/ FlushOnly(g) \/ GhostFiles(g)
       \/ RunCompaction(g) \/ Retention(g) \/ Inlined(g) \/ Backup(g)
       \/ \E t \in Tables : NativeMerge(g, t) \/ DuckdbMerge(g, t)
       \/ NativeMerged(g) \/ DuckdbMerged(g)
       \/ CheckInvariants(g) \/ Verify(g) \/ Maintain(g)
    /\ UNCHANGED <<process, config, closeDB, catalog, asides, bounds, lastLive>>

\* Nothing is left to do once the last process is down.
Done ==
    /\ process = "down" /\ starts = MaxStarts
    /\ UNCHANGED csVars

CsNext ==
    \/ Start \/ StopCancels \/ StopReturns \/ CsCrash \/ DamageCatalog
    \/ RestoreAside \/ RestoreEnds
    \/ \E g \in Goroutines : Goroutine(g)
    \/ Done

CsSpec == CsInit /\ [][CsNext]_csVars

\* Timers fire and statements return.
CsFairness ==
    /\ \A g \in Goroutines : WF_csVars(Goroutine(g))
    /\ WF_csVars(StopReturns)

CsFairSpec == CsSpec /\ CsFairness

---------------------------------------------------------------------------

InCycle(g) == csPc[g] \in CycleSteps

CsTypeOK ==
    /\ process \in {"down", "up", "stopping", "restoring"}
    /\ csPc \in [Goroutines -> CsPlaces]
    /\ {enabled, nativeEngine, isolated, closeDB, dbBroken, nativeDisabled, catalogCorrupt,
        cycleRunning, renamed} \subseteq BOOLEAN
    /\ nativeUnsupported \subseteq Tables /\ todo \subseteq Tables /\ duckdbTables \subseteq Tables
    /\ mergeFatals \in [Tables -> 0 .. MaxMergeFatals]
    /\ catalog \in Catalogs
    /\ backups \in Seq(Catalogs \ {"missing"}) /\ Len(backups) <= Keep
    /\ aside \in Seq(Catalogs \ {"missing"})
    /\ poison \subseteq Engines \X Tables
    /\ csFaults \in 0 .. CsMaxFaults /\ damages \in 0 .. MaxDamages
    /\ starts \in 0 .. MaxStarts /\ restores \in 0 .. MaxRestores
    /\ blind \in 0 .. Keep
    /\ lastLive \in Catalogs

\* The startup goroutine and the loop never rewrite the lake at the same time,
\* cycleRunning is set exactly while one of them does (every early return and
\* abort resets it), and no cycle works on an instance that Stop has closed.
CyclesExclusive ==
    /\ \A g, h \in Goroutines : InCycle(g) /\ InCycle(h) => g = h
    /\ cycleRunning <=> \E g \in Goroutines : InCycle(g)
    /\ process = "down" => \A g \in Goroutines : csPc[g] = "done"

\* Once a check has found the catalog damaged, this process does not write to it
\* any more.  (recoverGhostFiles, once, may: it does not ask.)
DamageStopsCompaction ==
    catalogCorrupt => \A g \in Goroutines : ~InCycle(g)

\* stopOnCatalogDamage is there "to keep the last good catalog backups".  Once a
\* sound catalog has been backed up a sound copy is left, unless Keep copies of an
\* unsound one have been made since: of a damaged one by a cycle that did not
\* come to find the damage (it was aborted before verify, or the check could not
\* run) or by the first cycle after a restart; or of the empty one that a start
\* creates where a restore died, which no check takes for damage.
GoodBackupKept ==
    blind + 1 < Keep => \E i \in DOMAIN backups : backups[i] \in Sound

\* "so the restore is reversible" (RestoreCatalog): while the catalog is gone, or
\* is an empty one, the last one that was in use is among the .pre-restore
\* copies, however many restores failed or died and whatever starts came between.
RestoreReversible ==
    catalog \in {"missing", "empty"} => \E i \in DOMAIN aside : aside[i] = lastLive

\* Cycles go on to their maintenance calls again and again, although a table's
\* files make its merge fatal each time: the instance is opened again, and after
\* MaxMergeFatals such errors the DuckDB merge leaves the table out.  Excepted:
\* the process ends; damage was found; the instance is invalid and shared with
\* ingest; and the native engine has met such a table, for which runNativeMerge
\* has no quarantine, so that each cycle may end there.
MaintenanceGoesOn ==
    \/ []<>(\E g \in Goroutines : csPc[g] = "maintain")
    \/ <>[](\/ process # "up" \/ ~enabled \/ catalogCorrupt \/ (dbBroken /\ ~isolated)
            \/ ~nativeDisabled /\ \E t \in Tables \ nativeUnsupported : <<"native", t>> \in poison)
=============================================================================
