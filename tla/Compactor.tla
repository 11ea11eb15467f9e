----------------------------- MODULE Compactor -----------------------------
(***************************************************************************)
(* One partition of a lake table: its parquet files on disk, the catalog   *)
(* that names them, and everyone who rewrites them.                        *)
(*                                                                         *)
(*   - the writer's flush and the OTLP and line protocol inserts, which    *)
(*     add files (the inserts without the catalog lock);                   *)
(*   - the compaction cycle (writer/compaction.go): retention, then the    *)
(*     native merge (storage/ducklake/compactor) or DuckLake's own, then   *)
(*     the maintenance calls;                                              *)
(*   - tiering, which deletes the partition and runs the same maintenance  *)
(*     calls on the hot lake.                                              *)
(*                                                                         *)
(* What is done under the catalog lock is one step.  The native merge      *)
(* plans under the lock, writes merged files without it and swaps them in  *)
(* under it again; everybody else may act in between.                      *)
(***************************************************************************)
EXTENDS Naturals, FiniteSets, Sequences, SequencesExt

CONSTANTS
    Names,          \* names of parquet files (uuids: a name in use is never taken again)
    MaxRows,        \* bound on the batches of rows written; rows are numbered by their time
    Target,         \* TargetFileSizeBytes; a file is as large as it has rows
    MaxFaults,      \* bound on failed steps and crashes
    MaxTierings,    \* bound on what tiering does
    MaxUnlocked     \* bound on the inserts without the catalog lock

ASSUME CompactorAssumption ==
    /\ IsFiniteSet(Names) /\ "none" \notin Names
    /\ MaxRows \in Nat
    /\ Target \in Nat \ {0}
    /\ MaxFaults \in Nat
    /\ MaxTierings \in Nat
    /\ MaxUnlocked \in Nat

VARIABLES
    disk,           \* the files on disk
    active,         \* the catalog's live files of the partition, by row id
    retired,        \* files only older snapshots use
    scheduled,      \* ducklake_files_scheduled_for_deletion
    deleted,        \* rows of active files that a delete file hides
    young,          \* the partition was written to less than MinAge ago
    insert,         \* file of an insert that has not committed yet
    cycle,          \* where the compaction cycle is
    plan,           \* batches of files still to be merged
    outputs,        \* merged files written so far
    expectedRows,   \* how many rows they have
    writing,        \* the merged file being written
    tiering,        \* where tiering's volume maintenance is
    recovering,     \* the scan for ghost files after a start is still to come
    faults,
    tierings

(* Observers. *)
VARIABLES
    inserted,       \* rows ever written
    expected,       \* rows written and not deleted by anybody
    addedSince,     \* rows came since the partition was planned
    deletedSince,   \* rows were deleted since then
    collided,       \* a swap found the planned count though both had happened
    exposed         \* rows that were inserted without the lock

catalogVars == <<active, retired, scheduled, deleted>>
mergeVars == <<plan, outputs, expectedRows, writing>>
obsVars == <<inserted, expected, addedSince, deletedSince, collided, exposed>>
vars == <<disk, catalogVars, young, insert, cycle, mergeVars, tiering, recovering,
          faults, tierings, obsVars>>

Rows == 1 .. MaxRows
Files == [name : Names, rows : SUBSET Rows]
None == [name |-> "none", rows |-> {}]
CyclePlaces == {"idle", "retention", "plan", "merge", "swap", "expire", "cleanup", "orphans"}
TieringPlaces == {"idle", "expire", "cleanup", "orphans"}

---------------------------------------------------------------------------

Active == ToSet(active)
RowsIn(S) == UNION {f.rows : f \in S}
Visible == RowsIn(Active) \ deleted
Known == Active \cup retired \cup scheduled
FilesIn(batches) == UNION {ToSet(batches[i]) : i \in DOMAIN batches}
Planned == FilesIn(plan)
InUse == disk \cup Known \cup Planned \cup ToSet(outputs) \cup {insert, writing}
Fresh == Names \ {f.name : f \in InUse}

\* A new uuid (which one does not matter) with the rows R in it.
NewFile(R) == [name |-> CHOOSE n \in Fresh : TRUE, rows |-> R]

Size(f) == Cardinality(f.rows)

\* The files that are not in S, by row id as before.
Without(files, S) ==
    LET kept == {i \in DOMAIN files : files[i] \notin S}
        Rank(i) == Cardinality({j \in kept : j <= i})
    IN  [k \in 1 .. Cardinality(kept) |-> files[CHOOSE i \in kept : Rank(i) = k]]

\* The partition has been planned and not been swapped yet.
Merging == cycle \in {"merge", "swap"}

Init ==
    /\ disk = {}
    /\ active = <<>>
    /\ retired = {} /\ scheduled = {} /\ deleted = {}
    /\ young = FALSE
    /\ insert = None
    /\ cycle = "idle" /\ tiering = "idle" /\ recovering = FALSE
    /\ plan = <<>> /\ outputs = <<>> /\ expectedRows = 0 /\ writing = None
    /\ faults = 0 /\ tierings = 0
    /\ inserted = {} /\ expected = {}
    /\ addedSince = FALSE /\ deletedSince = FALSE
    /\ collided = FALSE
    /\ exposed = {}

---------------------------------------------------------------------------
(* Writers. *)

\* The file f becomes part of the partition.
AddFile(f) ==
    /\ active' = Append(active, f)
    /\ young' = TRUE
    /\ expected' = expected \cup f.rows
    /\ addedSince' = (addedSince \/ Merging)

\* A batch of new rows (one stands for it) is written to the new file f.
WriteFile(f) ==
    /\ disk' = disk \cup {f}
    /\ inserted' = inserted \cup f.rows

NewRows == {Cardinality(inserted) + 1}

\* The flush: INSERT ... SELECT under the catalog lock.
Flush ==
    /\ Rows # inserted /\ Fresh # {}
    /\ LET f == NewFile(NewRows) IN WriteFile(f) /\ AddFile(f)
    /\ UNCHANGED <<recovering, retired, scheduled, deleted, insert, cycle, mergeVars, tiering,
                   faults, tierings, deletedSince, collided, exposed>>

\* An OTLP or line protocol INSERT runs without the lock: its parquet file is
\* on disk ...
InsertWrites ==
    /\ insert = None /\ Cardinality(exposed) < MaxUnlocked
    /\ Rows # inserted /\ Fresh # {}
    /\ insert' = NewFile(NewRows)
    /\ WriteFile(insert')
    /\ UNCHANGED <<recovering, catalogVars, young, cycle, mergeVars, tiering, faults, tierings,
                   expected, addedSince, deletedSince, collided, exposed>>

\* ... before its transaction commits.
InsertCommits ==
    /\ insert # None
    /\ AddFile(insert)
    /\ exposed' = exposed \cup insert.rows
    /\ insert' = None
    /\ UNCHANGED <<recovering, disk, retired, scheduled, deleted, cycle, mergeVars, tiering,
                   faults, tierings, inserted, deletedSince, collided>>

\* MinAge passes without a write.
Settle ==
    /\ young
    /\ young' = FALSE
    /\ UNCHANGED <<recovering, disk, catalogVars, insert, cycle, mergeVars, tiering, faults,
                   tierings, obsVars>>

---------------------------------------------------------------------------
(* DELETE of rows R: files without a row left are retired, others get a    *)
(* delete file.                                                            *)

Delete(R) ==
    LET gone == {f \in Active : f.rows \subseteq deleted \cup R}
    IN  /\ active' = Without(active, gone)
        /\ retired' = retired \cup gone
        /\ deleted' = (deleted \cup R) \ RowsIn(gone)
        /\ expected' = expected \ R
        /\ deletedSince' = (deletedSince \/ (Merging /\ R # {}))

\* Tiering moves the partition to the next volume or expires it.
TierDelete ==
    /\ tiering = "idle"
    /\ tierings < MaxTierings
    /\ active # <<>>
    /\ tierings' = tierings + 1
    /\ Delete(Visible)
    /\ UNCHANGED <<recovering, disk, scheduled, young, insert, cycle, mergeVars, tiering, faults,
                   inserted, addedSince, collided, exposed>>

---------------------------------------------------------------------------
(* Maintenance calls, each under the lock.                                 *)

\* Snapshots older than the interval go; the files only they used (S) are
\* scheduled for deletion.
Expire(S) ==
    /\ retired' = retired \ S
    /\ scheduled' = scheduled \cup S

Cleanup ==
    /\ disk' = disk \ scheduled
    /\ scheduled' = {}

\* Mutant: a dry run.
OrphansDryRun == disk' = disk

\* delete_orphaned_files(cleanup_all => true) keeps what the catalog knows.
Orphans == disk' = disk \cap Known

Maintenance(at) ==
    \/ /\ at = "expire"
       /\ \E S \in {{}, retired} : Expire(S)
       /\ UNCHANGED disk
    \/ /\ at = "cleanup"
       /\ Cleanup
       /\ UNCHANGED retired
    \/ /\ at = "orphans"
       /\ Orphans
       /\ UNCHANGED <<retired, scheduled>>

AfterMaintenance(at) ==
    CASE at = "expire" -> "cleanup" [] at = "cleanup" -> "orphans" [] OTHER -> "idle"

\* RunVolumeMaintenance on the hot volume.
StartTierMaintenance ==
    /\ tiering = "idle"
    /\ tierings < MaxTierings
    /\ tierings' = tierings + 1
    /\ tiering' = "expire"
    /\ UNCHANGED <<recovering, disk, catalogVars, young, insert, cycle, mergeVars, faults, obsVars>>

\* A failed call is logged and the next one runs.
MaintenanceFails == faults < MaxFaults /\ faults' = faults + 1 /\ UNCHANGED <<disk, retired, scheduled>>

TierMaintenance ==
    /\ tiering # "idle"
    /\ \/ Maintenance(tiering) /\ UNCHANGED faults
       \/ MaintenanceFails
    /\ tiering' = AfterMaintenance(tiering)
    /\ UNCHANGED <<recovering, active, deleted, young, insert, cycle, mergeVars, tierings, obsVars>>

---------------------------------------------------------------------------
(* The compaction cycle.                                                   *)

\* Mutant: the list of merged files is kept.
ClearKeepsOutputs ==
    /\ plan' = <<>> /\ expectedRows' = 0 /\ writing' = None
    /\ addedSince' = FALSE /\ deletedSince' = FALSE
    /\ UNCHANGED outputs

Clear ==
    /\ plan' = <<>> /\ outputs' = <<>> /\ expectedRows' = 0 /\ writing' = None
    /\ addedSince' = FALSE /\ deletedSince' = FALSE

StartCycle ==
    /\ cycle = "idle"
    /\ cycle' = "retention"
    /\ UNCHANGED <<recovering, disk, catalogVars, young, insert, mergeVars, tiering, faults,
                   tierings, obsVars>>

\* Rows older than the cutoff are deleted; with no TTL none are.
Retention(cutoff) ==
    /\ cycle = "retention"
    /\ cycle' = "plan"
    /\ Delete({r \in Visible : r < cutoff})
    /\ UNCHANGED <<recovering, disk, scheduled, young, insert, mergeVars, tiering, faults,
                   tierings, inserted, addedSince, collided, exposed>>

Bytes(batch) == Cardinality(RowsIn(ToSet(batch)))

\* A file joins the last batch unless that would exceed Target.
Join(batches, f) ==
    LET current == batches[Len(batches)]
    IN  IF current # <<>> /\ Bytes(current) + Size(f) > Target
        THEN Append(batches, <<f>>)
        ELSE [batches EXCEPT ![Len(batches)] = Append(current, f)]

\* The batches of all files, from those of the first n.
Batches(files) ==
    LET upTo[n \in 0 .. Len(files)] ==
            IF n = 0 THEN << <<>> >> ELSE Join(upTo[n - 1], files[n])
    IN  upTo[Len(files)]

\* Mutant: a file with a batch of its own is not rewritten.
PlanBatchesSkipsLone(files) == SelectSeq(Batches(files), LAMBDA b : Len(b) > 1)

\* planBatches: every file is in a batch, because the swap retires all of them.
PlanBatches(files) == Batches(files)

\* planPartition: at least as much is consolidated as is rewritten for nothing.
Worth(files) ==
    LET lone == {b \in ToSet(Batches(files)) : Len(b) < 2}
        overhead == Cardinality(UNION {RowsIn(ToSet(b)) : b \in lone})
    IN  Len(files) >= 2 /\ Bytes(files) > overhead /\ overhead <= Bytes(files) - overhead

\* partitionHasDeletes, partitionQuietFor, planPartition.
Mergeable == deleted = {} /\ ~young /\ Worth(active)

\* CompactTable reads the catalog under the lock.
PlanPartition ==
    /\ cycle = "plan"
    /\ IF Mergeable
       THEN /\ plan' = PlanBatches(active)
            /\ cycle' = "merge"
       ELSE /\ cycle' = "expire"
            /\ UNCHANGED plan
    /\ UNCHANGED <<recovering, disk, catalogVars, young, insert, outputs, expectedRows, writing, tiering,
                   faults, tierings, obsVars>>

\* mergeParquetFiles creates the output of the next batch ...
CreateOutput ==
    /\ cycle = "merge" /\ writing = None /\ plan # <<>>
    /\ Fresh # {}
    /\ writing' = NewFile({})
    /\ disk' = disk \cup {writing'}
    /\ UNCHANGED <<recovering, catalogVars, young, insert, cycle, plan, outputs, expectedRows, tiering,
                   faults, tierings, obsVars>>

\* ... and copies the row groups of its sources into it.  A source or the
\* output that somebody removed meanwhile is an error.
FinishOutput ==
    /\ cycle = "merge" /\ writing # None
    /\ ToSet(Head(plan)) \cup {writing} \subseteq disk
    /\ LET out == [writing EXCEPT !.rows = RowsIn(ToSet(Head(plan)))]
       IN  /\ disk' = (disk \ {writing}) \cup {out}
           /\ outputs' = Append(outputs, out)
           /\ expectedRows' = expectedRows + Size(out)
    /\ plan' = Tail(plan)
    /\ writing' = None
    /\ cycle' = IF Tail(plan) = <<>> THEN "swap" ELSE "merge"
    /\ UNCHANGED <<recovering, catalogVars, young, insert, tiering, faults, tierings, obsVars>>

\* Every error of compactPartition: the merged files are removed, the cycle
\* goes on with the maintenance calls.
RemoveOutputs ==
    /\ disk' = disk \ (ToSet(outputs) \cup {writing})
    /\ Clear
    /\ cycle' = "expire"
    /\ UNCHANGED <<recovering, catalogVars, young, insert, tiering, tierings, inserted, expected, collided, exposed>>

MergeFails ==
    /\ cycle = "merge"
    /\ \/ /\ writing # None
          /\ ~(ToSet(Head(plan)) \cup {writing} \subseteq disk)
          /\ UNCHANGED faults
       \/ faults < MaxFaults /\ faults' = faults + 1
    /\ RemoveOutputs

\* Mutant: no row count before the DELETE.
CountsAlwaysMatch == TRUE

\* Mutant: the partition may have grown.
CountsGrown == Cardinality(Visible) >= expectedRows

\* swapPartition's conditions: as many rows as were merged, and files that
\* ducklake_add_data_files can open.
CountsMatch == Cardinality(Visible) = expectedRows

\* Mutant: the path is registered unread.
CanRegisterUnread == TRUE

CanRegister == ToSet(outputs) \subseteq disk

\* Mutant: the DELETE is left out.
SwappedIn == active \o outputs

\* What is left after the DELETE and the registration.
Swapped == outputs

\* DELETE the partition, register the merged files, compare the count again.
Swap ==
    /\ cycle = "swap"
    /\ CountsMatch /\ CanRegister
    /\ active' = Swapped
    /\ retired' = retired \cup Active
    /\ deleted' = {}
    /\ young' = TRUE
    /\ collided' = (collided \/ (addedSince /\ deletedSince))
    /\ Clear
    /\ cycle' = "expire"
    /\ UNCHANGED <<recovering, disk, scheduled, insert, tiering, faults, tierings,
                   inserted, expected, exposed>>

SwapFails ==
    /\ cycle = "swap"
    /\ \/ ~(CountsMatch /\ CanRegister) /\ UNCHANGED faults
       \/ faults < MaxFaults /\ faults' = faults + 1
    /\ RemoveOutputs

\* ducklake_merge_adjacent_files: the sources go straight to the deletion queue.
MergeAdjacentFiles ==
    /\ Active \subseteq disk
    /\ Fresh # {}
    /\ active' = <<NewFile(RowsIn(Active))>>
    /\ disk' = disk \cup ToSet(active')
    /\ scheduled' = scheduled \cup Active
    /\ young' = TRUE

\* clearBrokenParquet: the entry of the missing file that failed the merge goes.
ClearBrokenParquet(f) ==
    /\ active' = Without(active, {f})
    /\ UNCHANGED <<disk, scheduled, young>>

\* mergeTablesDuckDB, under the lock.
DuckdbMerge ==
    /\ cycle = "plan"
    /\ cycle' = "expire"
    /\ \/ /\ Len(active) < 2 \/ deleted # {}
          /\ UNCHANGED <<disk, active, scheduled, young>>
       \/ /\ Len(active) >= 2 /\ deleted = {}
          /\ MergeAdjacentFiles \/ \E f \in Active \ disk : ClearBrokenParquet(f)
    /\ UNCHANGED <<retired, deleted, insert, mergeVars, tiering, recovering, faults, tierings, obsVars>>

CycleMaintenance ==
    /\ cycle \in {"expire", "cleanup", "orphans"}
    /\ \/ Maintenance(cycle) /\ UNCHANGED faults
       \/ MaintenanceFails
    /\ cycle' = AfterMaintenance(cycle)
    /\ UNCHANGED <<recovering, active, deleted, young, insert, mergeVars, tiering, tierings, obsVars>>

---------------------------------------------------------------------------

\* The process dies and starts again: what was on disk stays.
Crash ==
    /\ faults < MaxFaults
    /\ faults' = faults + 1
    /\ cycle' = "idle" /\ tiering' = "idle"
    /\ insert' = None
    /\ recovering' = TRUE
    /\ Clear
    /\ UNCHANGED <<disk, catalogVars, young, tierings, inserted, expected, collided, exposed>>

\* ScanGhostFiles: entries whose file is missing.  All entries at once are
\* refused: then it is the volume that is missing.
Ghosts == Active \ disk
Refused == Len(active) > 1 /\ Ghosts = Active

\* Seconds after the start recoverGhostFiles removes these entries.
RecoverGhostFiles ==
    /\ recovering
    /\ recovering' = FALSE
    /\ active' = IF Refused THEN active ELSE Without(active, Ghosts)
    /\ deleted' = deleted \cap RowsIn(ToSet(active'))
    /\ UNCHANGED <<disk, retired, scheduled, young, insert, cycle, mergeVars, tiering, faults,
                   tierings, obsVars>>

Merge ==
    \/ PlanPartition
    \/ CreateOutput \/ FinishOutput \/ MergeFails
    \/ Swap \/ SwapFails
    \/ DuckdbMerge

Cycle ==
    \/ StartCycle
    \/ \E cutoff \in Rows : Retention(cutoff)
    \/ Merge
    \/ CycleMaintenance

Next ==
    \/ Flush
    \/ InsertWrites \/ InsertCommits
    \/ Settle
    \/ TierDelete \/ StartTierMaintenance \/ TierMaintenance
    \/ Cycle
    \/ Crash \/ RecoverGhostFiles

Spec == Init /\ [][Next]_vars

\* The ticker goes on starting cycles, statements end, time passes; nobody owes
\* a write.
Fairness ==
    /\ WF_vars(Cycle)
    /\ WF_vars(Settle \/ TierMaintenance \/ InsertCommits \/ RecoverGhostFiles)

FairSpec == Spec /\ Fairness

---------------------------------------------------------------------------

TypeOK ==
    /\ active \in Seq(Files) /\ outputs \in Seq(Files)
    /\ disk \subseteq Files /\ retired \subseteq Files /\ scheduled \subseteq Files
    /\ plan \in Seq(Seq(Files))
    /\ {insert, writing} \subseteq Files \cup {None}
    /\ {deleted, inserted, expected, exposed} \subseteq SUBSET Rows
    /\ {young, recovering, addedSince, deletedSince, collided} \subseteq BOOLEAN
    /\ expectedRows \in Nat
    /\ ~Merging => plan = <<>> /\ outputs = <<>> /\ writing = None
    /\ cycle \in CyclePlaces /\ tiering \in TieringPlaces
    /\ faults \in 0 .. MaxFaults /\ tierings \in 0 .. MaxTierings

\* A query sees exactly the rows that were written and not deleted.  Two things
\* break it.  swapPartition knows the partition by its row count alone
\* (swap.go:153): when rows were deleted and as many added since the plan, the
\* deleted ones come back and the added ones are gone.  And rows inserted without
\* the catalog lock lose their file to delete_orphaned_files before they commit.
QuerySeesRows ==
    ~collided => Visible \subseteq expected /\ expected \ exposed \subseteq Visible

\* Every file a live or an older snapshot names is on disk, whoever cleans up
\* while a merge is under way, except the files of such inserts: the catalog
\* never names a merged file that was removed before its swap, and the swap's
\* cleanup never removes one that it names.
CatalogFilesOnDisk ==
    \A f \in Active \cup retired : f \in disk \/ f.rows \subseteq exposed

\* No row is in two live files: a crash, a retry or a late swap never registers
\* merged files next to their sources.
RowsOnce ==
    \A i, j \in DOMAIN active : i # j => active[i].rows \cap active[j].rows = {}

\* A partition with files worth merging does not stay that way, unless a delete
\* file or a lost file keeps the merge off it: planBatches covers every file, so
\* the counts of the swap agree in the end.
SmallFilesMerged ==
    []<>(Worth(active) => deleted # {} \/ ~(Active \subseteq disk))

\* Files that no catalog entry names do not pile up: what a crash leaves between
\* merge and swap is removed by a later cycle.
OrphansReclaimed ==
    []<>(disk \subseteq Known \cup {insert})
=============================================================================
