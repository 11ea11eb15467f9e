------------------------------ MODULE LakeSetup ------------------------------
(***************************************************************************)
(* Bring-up and shutdown of the storage: processes with the same           *)
(* configuration (a restart that overlaps with the old process, a          *)
(* duplicate container) open SQLite catalogs, repair them and attach them  *)
(* to DuckDB instances: one per shard, one for compaction, one for tiering *)
(* and one for tiering's file cleanup.                                     *)
(*                                                                         *)
(* Guards: the lock file of a catalog, which only the shards take, and the *)
(* registry of the catalogs attached in the process, which the repair      *)
(* asks.  External: flock, and the operating system, which drops locks and *)
(* instances with the process.                                             *)
(***************************************************************************)
EXTENDS Naturals, Sequences, FiniteSets

CONSTANTS
    LsProcs,        \* processes
    LsMaxShards,    \* shard_count is up to this
    LsMaxFaults,    \* bound on failed statements and crashes
    LsMaxStarts     \* bound on starts of a process

LsNobody == "nobody"

ASSUME LakeSetupAssumption ==
    /\ IsFiniteSet(LsProcs) /\ LsNobody \notin LsProcs
    /\ LsMaxShards \in Nat \ {0} /\ {LsMaxFaults, LsMaxStarts} \subseteq Nat

VARIABLES
    lsShards,       \* shard_count
    lsTiered,       \* storage_policy with a hot and a cold volume
    lsFiles,        \* catalogs on disk
    lsLock,         \* catalog -> the process that has its lock file
    lsAttached,     \* process -> instance -> catalogs attached, for the open ones
    lsMarks,        \* process -> catalog -> attachedCatalogs.refs
    lsPc, lsAt,     \* process -> its step, the shard it is at
    lsTodo,         \* process -> shards to stop
    lsFatal,        \* process -> shards whose instance DuckDB has invalidated
    lsFailure,      \* process -> instanceFailure: none, sent, taken
    lsFaults, lsStarts,
    \* Observers.
    lsDisturbed,    \* a catalog was repaired while an instance had it attached
    lsTorn          \* process -> shards whose re-attach failed

lsVars == <<lsShards, lsTiered, lsFiles, lsLock, lsAttached, lsMarks, lsPc, lsAt, lsTodo, lsFatal,
            lsFailure, lsFaults, lsStarts, lsDisturbed, lsTorn>>

\* A catalog is the configured one or has a suffix: the number of a shard or the
\* name of a volume.
LsSuffixes == 0..(LsMaxShards - 1)
LsCatalogs == {<<"base">>, <<"hot">>, <<"cold">>} \cup {<<"shard", i>> : i \in LsSuffixes}

shardCatalogPath(i) == IF lsShards = 1 THEN <<"base">> ELSE <<"shard", i>>

LsInstances == {<<"writer", i>> : i \in LsSuffixes}
               \cup {<<"compaction">>, <<"tiering">>, <<"cleanup">>}

LsOpen(p) == DOMAIN lsAttached[p]
LsHas(p) == UNION {lsAttached[p][x] : x \in LsOpen(p)}

-----------------------------------------------------------------------------

LsInit ==
    /\ lsShards \in 1..LsMaxShards
    /\ lsTiered \in BOOLEAN
    /\ lsFiles \in {{}, {<<"base">>}}
    /\ lsLock = [c \in LsCatalogs |-> LsNobody]
    /\ lsAttached = [p \in LsProcs |-> << >>]
    /\ lsMarks = [p \in LsProcs |-> [c \in LsCatalogs |-> 0]]
    /\ lsPc = [p \in LsProcs |-> "off"] /\ lsAt = [p \in LsProcs |-> 0]
    /\ lsTodo = [p \in LsProcs |-> << >>]
    /\ lsFatal = [p \in LsProcs |-> {}] /\ lsFailure = [p \in LsProcs |-> "none"]
    /\ lsFaults = 0 /\ lsStarts = [p \in LsProcs |-> 0]
    /\ lsDisturbed = FALSE
    /\ lsTorn = [p \in LsProcs |-> {}]

LsGoes(p, pc) == lsPc' = [lsPc EXCEPT ![p] = pc]
LsFault == lsFaults < LsMaxFaults /\ lsFaults' = lsFaults + 1

LsWith(p, x, cats) ==
    lsAttached' = [lsAttached EXCEPT ![p] = [y \in DOMAIN @ \cup {x} |-> IF y = x THEN cats ELSE @[y]]]
LsWithout(p, xs) ==
    lsAttached' = [lsAttached EXCEPT ![p] = [y \in DOMAIN @ \ xs |-> @[y]]]

\* An error of shard i: newMultiTableWriter stops it, then NewShardedWriter the
\* shards before it.
\* Mutant: only the shards before it.
LsFailedShardForgotten(i) == [j \in 1..i |-> j - 1]
LsFailedShard(i) == <<i>> \o [j \in 1..i |-> j - 1]

LsUnwind(p) ==
    /\ lsTodo' = [lsTodo EXCEPT ![p] = LsFailedShard(lsAt[p])]
    /\ LsGoes(p, "close")

-----------------------------------------------------------------------------
(* NewManager: newMultiTableWriter for one shard after the other. *)

LsStart(p) ==
    /\ lsPc[p] = "off" /\ lsStarts[p] < LsMaxStarts
    /\ lsStarts' = [lsStarts EXCEPT ![p] = @ + 1]
    /\ lsAt' = [lsAt EXCEPT ![p] = 0]
    /\ LsGoes(p, "lock")
    /\ UNCHANGED <<lsShards, lsTiered, lsFiles, lsLock, lsAttached, lsMarks, lsTodo, lsFatal,
                   lsFailure, lsFaults, lsDisturbed, lsTorn>>

\* flock, without waiting.
acquireCatalogWriterLock(p) ==
    LET c == shardCatalogPath(lsAt[p])
    IN  /\ lsPc[p] = "lock"
        /\ IF lsLock[c] = LsNobody
           THEN /\ lsLock' = [lsLock EXCEPT ![c] = p]
                /\ LsGoes(p, "open")
                /\ UNCHANGED lsTodo
           ELSE LsUnwind(p) /\ UNCHANGED lsLock
        /\ UNCHANGED <<lsShards, lsTiered, lsFiles, lsAttached, lsMarks, lsAt, lsFatal, lsFailure,
                       lsFaults, lsStarts, lsDisturbed, lsTorn>>

\* newLakeDuckDB, tuning, extensions.
LsOpenInstance(p) ==
    /\ lsPc[p] = "open"
    /\ LsWith(p, <<"writer", lsAt[p]>>, {})
    /\ \/ LsGoes(p, "repair") /\ UNCHANGED <<lsTodo, lsFaults>>
       \/ LsFault /\ LsUnwind(p)
    /\ UNCHANGED <<lsShards, lsTiered, lsFiles, lsLock, lsMarks, lsAt, lsFatal, lsFailure, lsStarts,
                   lsDisturbed, lsTorn>>

\* WAL mode, GCOrphanInlineTables, RepairCatalogSnapshots: on a file that is there,
\* on the ground that nobody else has it open.  Errors are logged.
LsRepair(p) ==
    LET c == shardCatalogPath(lsAt[p])
    IN  /\ lsPc[p] = "repair"
        /\ lsDisturbed' = (lsDisturbed \/ \E q \in LsProcs : c \in LsHas(q))
        /\ LsGoes(p, "attach")
        /\ UNCHANGED <<lsShards, lsTiered, lsFiles, lsLock, lsAttached, lsMarks, lsAt, lsTodo,
                       lsFatal, lsFailure, lsFaults, lsStarts, lsTorn>>

\* Secrets and ATTACH, which makes the file.
LsAttach(p) ==
    LET c == shardCatalogPath(lsAt[p])
    IN  /\ lsPc[p] = "attach"
        /\ \/ /\ LsWith(p, <<"writer", lsAt[p]>>, {c})
              /\ lsFiles' = lsFiles \cup {c}
              /\ LsGoes(p, "mark")
              /\ UNCHANGED <<lsTodo, lsFaults>>
           \/ LsFault /\ LsUnwind(p) /\ UNCHANGED <<lsAttached, lsFiles>>
        /\ UNCHANGED <<lsShards, lsTiered, lsLock, lsMarks, lsAt, lsFatal, lsFailure, lsStarts,
                       lsDisturbed, lsTorn>>

MarkCatalogAttached(p, cats) ==
    lsMarks' = [lsMarks EXCEPT ![p] = [c \in LsCatalogs |-> @[c] + (IF c \in cats THEN 1 ELSE 0)]]

\* Mutant: the entry goes with the first release.
LsReleasedAll(n) == 0
LsReleased(n) == IF n <= 1 THEN 0 ELSE n - 1

LsRelease(p, c) == lsMarks' = [lsMarks EXCEPT ![p][c] = LsReleased(@)]

LsMark(p) ==
    /\ lsPc[p] = "mark"
    /\ MarkCatalogAttached(p, {shardCatalogPath(lsAt[p])})
    /\ IF lsAt[p] + 1 < lsShards
       THEN LsGoes(p, "lock") /\ lsAt' = [lsAt EXCEPT ![p] = @ + 1]
       ELSE LsGoes(p, "compaction") /\ UNCHANGED lsAt
    /\ UNCHANGED <<lsShards, lsTiered, lsFiles, lsLock, lsAttached, lsTodo, lsFatal, lsFailure,
                   lsFaults, lsStarts, lsDisturbed, lsTorn>>

-----------------------------------------------------------------------------
(* Writer.Start: the other instances. *)

\* OpenMaintenanceDB of the primary shard; on an error compaction uses the writer's.
OpenMaintenanceDB(p) ==
    LET c == shardCatalogPath(0)
    IN  /\ lsPc[p] = "compaction"
        /\ \/ /\ LsWith(p, <<"compaction">>, {c})
              /\ MarkCatalogAttached(p, {c})
              /\ UNCHANGED lsFaults
           \/ LsFault /\ UNCHANGED <<lsAttached, lsMarks>>
        /\ LsGoes(p, IF lsTiered THEN "tiering" ELSE "up")
        /\ UNCHANGED <<lsShards, lsTiered, lsFiles, lsLock, lsAt, lsTodo, lsFatal, lsFailure,
                       lsStarts, lsDisturbed, lsTorn>>

\* attachVolume: the hot volume takes the configured catalog if its file is there.
\* Mutant: a catalog of its own for every volume.
LsHotCatalogNew(files) == <<"hot">>
LsHotCatalog(files) == IF <<"base">> \in files THEN <<"base">> ELSE <<"hot">>

\* TieredStorageManager.Start: hot, then cold; a failure closes the instance and
\* leaves the marks, and the writer goes on without tiering.
LsStartTiering(p) ==
    LET hot == LsHotCatalog(lsFiles)
    IN  /\ lsPc[p] = "tiering"
        /\ \/ /\ LsWith(p, <<"tiering">>, {hot, <<"cold">>})
              /\ MarkCatalogAttached(p, {hot, <<"cold">>})
              /\ lsFiles' = lsFiles \cup {hot, <<"cold">>}
              /\ UNCHANGED lsFaults
           \/ /\ LsFault
              /\ \E done \in {{}, {hot}} :
                    MarkCatalogAttached(p, done) /\ lsFiles' = lsFiles \cup done
              /\ UNCHANGED lsAttached
        /\ LsGoes(p, "up")
        /\ UNCHANGED <<lsShards, lsTiered, lsLock, lsAt, lsTodo, lsFatal, lsFailure, lsStarts,
                       lsDisturbed, lsTorn>>

\* fileCleanupDB: a volume of the tiering instance, when it is first cleaned up.
LsFileCleanup(p, c) ==
    /\ lsPc[p] = "up" /\ <<"tiering">> \in LsOpen(p)
    /\ c \in lsAttached[p][<<"tiering">>]
    /\ LET before == IF <<"cleanup">> \in LsOpen(p) THEN lsAttached[p][<<"cleanup">>] ELSE {}
       IN  /\ c \notin before
           /\ LsWith(p, <<"cleanup">>, before \cup {c})
    /\ MarkCatalogAttached(p, {c})
    /\ UNCHANGED <<lsShards, lsTiered, lsFiles, lsLock, lsPc, lsAt, lsTodo, lsFatal, lsFailure,
                   lsFaults, lsStarts, lsDisturbed, lsTorn>>

\* RefreshCatalogCache: DETACH and ATTACH on every shard.  A shard whose ATTACH
\* failed has nothing to detach the next time, so it is not attached again.
LsRefresh(p) ==
    /\ lsPc[p] = "up"
    /\ LsFault
    /\ \E i \in 0..(lsShards - 1) :
          /\ i \notin lsTorn[p]
          /\ LsWith(p, <<"writer", i>>, {})
          /\ lsTorn' = [lsTorn EXCEPT ![p] = @ \cup {i}]
    /\ UNCHANGED <<lsShards, lsTiered, lsFiles, lsLock, lsMarks, lsPc, lsAt, lsTodo, lsFatal,
                   lsFailure, lsStarts, lsDisturbed>>

-----------------------------------------------------------------------------
(* A fatal error of DuckDB.  All shards share one instanceFailure. *)

LsInvalidate(p, i) ==
    /\ lsPc[p] = "up" /\ i < lsShards /\ i \notin lsFatal[p] /\ LsFault
    /\ lsFatal' = [lsFatal EXCEPT ![p] = @ \cup {i}]
    /\ UNCHANGED <<lsShards, lsTiered, lsFiles, lsLock, lsAttached, lsMarks, lsPc, lsAt, lsTodo,
                   lsFailure, lsStarts, lsDisturbed, lsTorn>>

\* Mutant: every error that looks fatal is one.
instanceInvalidatedUnprobed(p, i) == TRUE
instanceInvalidated(p, i) == i \in lsFatal[p]

\* noteFlushError: out of memory looks the same, so the instance is asked.
noteFlushError(p, i) ==
    /\ lsPc[p] = "up" /\ i < lsShards
    /\ instanceInvalidated(p, i)
    /\ lsFailure[p] = "none"
    /\ lsFailure' = [lsFailure EXCEPT ![p] = "sent"]
    /\ UNCHANGED <<lsShards, lsTiered, lsFiles, lsLock, lsAttached, lsMarks, lsPc, lsAt, lsTodo,
                   lsFatal, lsFaults, lsStarts, lsDisturbed, lsTorn>>

\* main takes the error and stops the process.
LsInvalidated(p) ==
    /\ lsPc[p] = "up" /\ lsFailure[p] = "sent"
    /\ lsFailure' = [lsFailure EXCEPT ![p] = "taken"]
    /\ LsGoes(p, "stop")
    /\ UNCHANGED <<lsShards, lsTiered, lsFiles, lsLock, lsAttached, lsMarks, lsAt, lsTodo, lsFatal,
                   lsFaults, lsStarts, lsDisturbed, lsTorn>>

-----------------------------------------------------------------------------
(* Writer.Stop: compaction, tiering, then the shards in order. *)

LsSignal(p) ==
    /\ lsPc[p] = "up"
    /\ LsGoes(p, "stop")
    /\ UNCHANGED <<lsShards, lsTiered, lsFiles, lsLock, lsAttached, lsMarks, lsAt, lsTodo, lsFatal,
                   lsFailure, lsFaults, lsStarts, lsDisturbed, lsTorn>>

\* The marks of tiering's instances are never released.
LsStopServices(p) ==
    /\ lsPc[p] = "stop"
    /\ LsWithout(p, {<<"compaction">>, <<"tiering">>, <<"cleanup">>})
    /\ IF <<"compaction">> \in LsOpen(p) THEN LsRelease(p, shardCatalogPath(0)) ELSE UNCHANGED lsMarks
    /\ lsTodo' = [lsTodo EXCEPT ![p] = [j \in 1..lsShards |-> j - 1]]
    /\ LsGoes(p, "close")
    /\ UNCHANGED <<lsShards, lsTiered, lsFiles, lsLock, lsAt, lsFatal, lsFailure, lsFaults, lsStarts,
                   lsDisturbed, lsTorn>>

\* MultiTableWriter.Stop: the instance, the mark, the lock, in this order.
LsClose(p) ==
    /\ lsPc[p] = "close"
    /\ IF lsTodo[p] = << >>
       THEN LsGoes(p, "stopped") /\ UNCHANGED lsAttached
       ELSE LsWithout(p, {<<"writer", Head(lsTodo[p])>>}) /\ LsGoes(p, "release")
    /\ UNCHANGED <<lsShards, lsTiered, lsFiles, lsLock, lsMarks, lsAt, lsTodo, lsFatal, lsFailure,
                   lsFaults, lsStarts, lsDisturbed, lsTorn>>

\* A shard that was not attached has no mark, one that was refused the lock no lock.
LsReleaseMark(p) ==
    LET c == shardCatalogPath(Head(lsTodo[p]))
    IN  /\ lsPc[p] = "release"
        /\ IF lsMarks[p][c] > 0 THEN LsRelease(p, c) ELSE UNCHANGED lsMarks
        /\ LsGoes(p, "unlock")
        /\ UNCHANGED <<lsShards, lsTiered, lsFiles, lsLock, lsAttached, lsAt, lsTodo, lsFatal,
                       lsFailure, lsFaults, lsStarts, lsDisturbed, lsTorn>>

releaseCatalogWriterLock(p) ==
    LET c == shardCatalogPath(Head(lsTodo[p]))
    IN  /\ lsPc[p] = "unlock"
        /\ lsLock' = [lsLock EXCEPT ![c] = IF @ = p THEN LsNobody ELSE @]
        /\ lsTodo' = [lsTodo EXCEPT ![p] = Tail(@)]
        /\ LsGoes(p, "close")
        /\ UNCHANGED <<lsShards, lsTiered, lsFiles, lsAttached, lsMarks, lsAt, lsFatal, lsFailure,
                       lsFaults, lsStarts, lsDisturbed, lsTorn>>

\* The process is gone, in the end or by a crash: its locks and instances with it.
LsGone(p) ==
    /\ LsGoes(p, "off")
    /\ lsLock' = [c \in LsCatalogs |-> IF lsLock[c] = p THEN LsNobody ELSE lsLock[c]]
    /\ lsAttached' = [lsAttached EXCEPT ![p] = << >>]
    /\ lsMarks' = [lsMarks EXCEPT ![p] = [c \in LsCatalogs |-> 0]]
    /\ lsAt' = [lsAt EXCEPT ![p] = 0]
    /\ lsTodo' = [lsTodo EXCEPT ![p] = << >>]
    /\ lsFatal' = [lsFatal EXCEPT ![p] = {}]
    /\ lsFailure' = [lsFailure EXCEPT ![p] = "none"]
    /\ lsTorn' = [lsTorn EXCEPT ![p] = {}]
    /\ UNCHANGED <<lsShards, lsTiered, lsFiles, lsStarts, lsDisturbed>>

LsExit(p) == lsPc[p] = "stopped" /\ LsGone(p) /\ UNCHANGED lsFaults
LsCrash(p) == lsPc[p] # "off" /\ LsFault /\ LsGone(p)

LsNext ==
    \E p \in LsProcs :
        \/ LsStart(p) \/ acquireCatalogWriterLock(p) \/ LsOpenInstance(p) \/ LsRepair(p)
        \/ LsAttach(p) \/ LsMark(p) \/ OpenMaintenanceDB(p) \/ LsStartTiering(p)
        \/ \E c \in LsCatalogs : LsFileCleanup(p, c)
        \/ LsRefresh(p) \/ LsInvalidated(p) \/ LsSignal(p) \/ LsStopServices(p)
        \/ \E i \in LsSuffixes : LsInvalidate(p, i) \/ noteFlushError(p, i)
        \/ LsClose(p) \/ LsReleaseMark(p) \/ releaseCatalogWriterLock(p) \/ LsExit(p) \/ LsCrash(p)

LsSpec == LsInit /\ [][LsNext]_lsVars

-----------------------------------------------------------------------------
(* Properties. *)

\* No catalog is attached by two processes, by whatever instances: only the shards
\* take lock files, and what the other instances attach is covered by them as long as
\* the locks are released last.
LsOneProcessPerCatalog ==
    \A p, q \in LsProcs : p # q => LsHas(p) \cap LsHas(q) = {}

\* The repair has the file for itself, which makes it lossless.
LsRepairAlone == ~lsDisturbed

\* While an instance has a catalog attached the registry says so, or is about to:
\* code that would open the file with the other SQLite library is refused.
LsRegistryCovers ==
    \A p \in LsProcs : \A c \in LsHas(p) :
        lsMarks[p][c] > 0 \/ (lsPc[p] = "mark" /\ c = shardCatalogPath(lsAt[p]))

\* A start that failed, and a stop, leave neither instance, lock nor, without
\* tiering, mark behind, whichever shard failed at whichever step.
LsNothingLeft ==
    \A p \in LsProcs : lsPc[p] = "stopped" =>
        /\ LsOpen(p) = {}
        /\ \A c \in LsCatalogs : lsLock[c] # p
        /\ ~lsTiered => \A c \in LsCatalogs : lsMarks[p][c] = 0

\* With one shard the hot volume of tiering is the catalog the writer writes, on a new
\* installation too.  With more it is not: no catalog of a shard is ever tiered.
LsTieringFindsWriter ==
    \A p \in LsProcs : <<"tiering">> \in LsOpen(p) =>
        (lsShards = 1) <=> (shardCatalogPath(0) \in lsAttached[p][<<"tiering">>])

\* The process is stopped for an invalidated instance only if there is one.
LsReportTrue == \A p \in LsProcs : lsFailure[p] # "none" => lsFatal[p] # {}

LakeSetupSafe ==
    /\ LsOneProcessPerCatalog
    /\ LsRepairAlone
    /\ LsRegistryCovers
    /\ LsNothingLeft
    /\ LsTieringFindsWriter
    /\ LsReportTrue
=============================================================================
