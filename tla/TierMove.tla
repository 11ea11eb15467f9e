------------------------------- MODULE TierMove -------------------------------
(***************************************************************************)
(* One date partition of one table on its way through the volumes of a     *)
(* storage policy (writer/tiering.go, MovePartition of tiered_storage.go,  *)
(* the native mover).  Volume 1 is the hot volume the writer flushes into; *)
(* every volume has a catalog of its own, and no transaction spans two.    *)
(*                                                                         *)
(* Actors: the tiering cycle (single flight: isRunning), which moves the   *)
(* partition from each volume to the next and expires it on the last one;  *)
(* and the writer's flush, which adds rows to the hot partition whenever   *)
(* their timestamp falls on its date, however old that date is.  A step of *)
(* the cycle is one statement or one transaction: execWithRetry and        *)
(* withRetryOnLocked hold the catalog lock for one attempt only, so a      *)
(* flush may come between any two of them.                                 *)
(*                                                                         *)
(* External: DuckDB, DuckLake and the object store.  A statement takes     *)
(* effect as a whole or fails and has none; a failed attempt that is       *)
(* retried is no step, giving up is FailMove.  A partition is the set of   *)
(* its rows and a row count its cardinality; CopyIntoEmpty shows that no   *)
(* volume ever holds a row twice.  Files copied but not registered are no  *)
(* rows.  Snapshot expiry and file cleanup change no rows.                 *)
(***************************************************************************)
EXTENDS Naturals, FiniteSets

CONSTANTS Rows,           \* the rows of the partition, each flushed at most once
          NumVolumes,     \* volumes of the storage policy
          NativeSources,  \* source volumes for which useNativeMove holds
          TTLVolumes,     \* volumes with max_data_age_days > 0
          SizeVolumes,    \* source volumes with a size limit and a move_factor
          MaxFaults       \* bound on failed moves and crashes in one behaviour

Volumes == 1..NumVolumes
Sources == 1..(NumVolumes - 1)

ASSUME TierMoveAssumption ==
    /\ IsFiniteSet(Rows)
    /\ NumVolumes \in Nat /\ NumVolumes >= 2
    /\ NativeSources \subseteq Sources
    /\ TTLVolumes \subseteq Volumes /\ SizeVolumes \subseteq Sources
    /\ MaxFaults \in Nat

VARIABLES part,      \* part[v]: the rows of the partition in the catalog of v
          aged,      \* volumes whose cutoff date has passed the partition's date
          dayOver,   \* TRUE once the partition is not of the current UTC day
          pc,        \* where the tiering cycle is
          pair,      \* the source volume of the pair being processed
          pass,      \* its pass: by size, then by age
          srcCount,  \* MovePartition's srcCount
          plan,      \* MovePartition's action
          files      \* the rows of Move's file list; expected is their number

\* Observers: they restrict no step (faults only bounds the failures).
VARIABLES flushed,   \* rows the writer has flushed
          expired,   \* rows expired on the last volume
          late,      \* TRUE once a flush hit a partition it was too late for
          faults     \* failed moves and crashes so far

cycleVars == <<pc, pair, pass, srcCount, plan, files>>
dateVars  == <<aged, dayOver>>
obsVars   == <<flushed, expired, late>>
vars      == <<part, dateVars, cycleVars, obsVars, faults>>

Src == part[pair]
Dst == part[pair + 1]

Init == /\ part = [v \in Volumes |-> {}]
        /\ aged = {} /\ dayOver = FALSE
        /\ pc = "idle" /\ pair = 1 /\ pass = "size"
        /\ srcCount = 0 /\ plan = "none" /\ files = {}
        /\ flushed = {} /\ expired = {}
        /\ late = FALSE
        /\ faults = 0
-------------------------------------------------------------------------------
(* The writer and the calendar.                                             *)

Downstream == UNION {part[v] : v \in Volumes \ {1}}

\* When a flush into the hot partition comes too late: rows of the partition
\* have moved on and left the hot volume; or its DELETE is next; or the source
\* was counted, and the count is that of the destination.
TooLate == \/ ~(Downstream \subseteq part[1])
           \/ pair = 1 /\ pc = "delete"
           \/ pair = 1 /\ pc = "countDst" /\ srcCount = Cardinality(part[2])

\* The INSERT of a flush, under catalogMu.
Flush(r) ==
    /\ r \notin flushed
    /\ part' = [part EXCEPT ![1] = @ \cup {r}]
    /\ flushed' = flushed \cup {r}
    /\ late' = (late \/ TooLate)
    /\ UNCHANGED <<dateVars, cycleVars, expired, faults>>

\* The date falls behind the cutoff of a volume.
Age(v) ==
    /\ v \in TTLVolumes \ aged
    /\ aged' = aged \cup {v}
    /\ UNCHANGED <<part, dayOver, cycleVars, obsVars, faults>>

\* partitionStillOpen turns FALSE for the partition.
DayEnds ==
    /\ ~dayOver
    /\ dayOver' = TRUE
    /\ UNCHANGED <<part, aged, cycleVars, obsVars, faults>>
-------------------------------------------------------------------------------
(* runTieringCycle.                                                         *)

Goto(l) == pc' = l /\ UNCHANGED <<pair, pass>>

Forget == srcCount' = 0 /\ plan' = "none" /\ files' = {}

\* Mutant: the loop over the pairs takes the last volume for a source.
NextPassPastLast ==
    /\ pass' = IF pass = "size" THEN "age" ELSE "size"
    /\ pair' = IF pass = "size" THEN pair ELSE pair + 1
    /\ pc' = IF pass = "age" /\ pair = NumVolumes THEN "expire" ELSE "select"
    /\ Forget

\* MovePartition has returned, with or without an error, or was not called: on
\* to the other pass, the next pair or the expiry.
NextPass ==
    /\ pass' = IF pass = "size" THEN "age" ELSE "size"
    /\ pair' = IF pass = "size" THEN pair ELSE pair + 1
    /\ pc' = IF pass = "age" /\ pair + 1 = NumVolumes THEN "expire" ELSE "select"
    /\ Forget

StartCycle ==
    /\ pc = "idle"
    /\ pc' = "select" /\ UNCHANGED <<pair, pass>>
    /\ UNCHANGED <<part, dateVars, srcCount, plan, files, obsVars, faults>>

\* moveOldestPartitions takes what it needs of the partitions whose day is
\* over, moveOldPartitions all that GetPartitionsOlderThan returns.
MaySelect  == Src # {} /\ IF pass = "size" THEN pair \in SizeVolumes /\ dayOver
                                          ELSE pair \in aged
MustSelect == MaySelect /\ pass = "age"

SelectPartition ==
    /\ pc = "select"
    /\ MaySelect
    /\ Goto("countSrc")
    /\ UNCHANGED <<part, dateVars, srcCount, plan, files, obsVars, faults>>

SkipPartition ==
    /\ pc = "select"
    /\ ~MustSelect
    /\ NextPass
    /\ UNCHANGED <<part, dateVars, obsVars, faults>>

DeletePartition(v) ==
    /\ part' = [part EXCEPT ![v] = {}]
    /\ expired' = expired \cup part[v]

\* expireOldPartitions on the last volume ends the cycle.
ExpirePartition ==
    /\ pc = "expire"
    /\ IF NumVolumes \in aged
       THEN DeletePartition(NumVolumes)
       ELSE UNCHANGED <<part, expired>>
    /\ pc' = "idle" /\ pair' = 1 /\ pass' = "size"
    /\ UNCHANGED <<dateVars, srcCount, plan, files, flushed, late, faults>>
-------------------------------------------------------------------------------
(* MovePartition.                                                           *)

\* partitionRowCount on the source; no lock is held.
CountSource ==
    /\ pc = "countSrc"
    /\ srcCount' = Cardinality(Src)
    /\ Goto("countDst")
    /\ UNCHANGED <<part, dateVars, plan, files, obsVars, faults>>

\* Mutant: any rows on the destination count as a finished copy.
PartitionMovePlanTrusting(s, d) ==
    CASE s = 0 -> "none"
      [] s # 0 /\ d = 0 -> "copy"
      [] OTHER -> "deleteSourceOnly"

\* Mutant: a destination that differs is copied to once more.
PartitionMovePlanAppending(s, d) ==
    CASE s = 0 -> "none"
      [] s # 0 /\ d # 0 /\ d = s -> "deleteSourceOnly"
      [] OTHER -> "copy"

\* Mutant: a destination that differs fails the move.
PartitionMovePlanRefusing(s, d) ==
    CASE s # 0 /\ d = 0 -> "copy"
      [] s # 0 /\ d = s -> "deleteSourceOnly"
      [] OTHER -> "none"

\* partitionMovePlan, for the counts COUNT(*) can return.
PartitionMovePlan(s, d) ==
    CASE s = 0 -> "none"
      [] s # 0 /\ d = 0 -> "copy"
      [] s # 0 /\ d # 0 /\ d = s -> "deleteSourceOnly"
      [] OTHER -> "replaceDest"

\* useNativeMove decides how the copy is made.
CopyStep == IF pair \in NativeSources THEN "list" ELSE "insert"

\* partitionRowCount on the destination, and the switch on the plan.
CountDestination ==
    /\ pc = "countDst"
    /\ LET p == PartitionMovePlan(srcCount, Cardinality(Dst))
       IN  IF p = "none"
           THEN NextPass
           ELSE /\ plan' = p
                /\ Goto(CASE p = "copy"             -> CopyStep
                          [] p = "deleteSourceOnly" -> "delete"
                          [] OTHER                  -> "discard")
                /\ UNCHANGED <<srcCount, files>>
    /\ UNCHANGED <<part, dateVars, obsVars, faults>>

DiscardIncompleteDestination ==
    /\ pc = "discard"
    /\ part' = [part EXCEPT ![pair + 1] = {}]
    /\ Goto(CopyStep)
    /\ UNCHANGED <<dateVars, srcCount, plan, files, obsVars, faults>>
-------------------------------------------------------------------------------
(* mover.Move: the parquet files are copied outside DuckDB.                 *)

\* Under the lock: the file list of the partition.
ListFiles ==
    /\ pc = "list"
    /\ Src # {}
    /\ files' = Src
    /\ Goto("copy")
    /\ UNCHANGED <<part, dateVars, srcCount, plan, obsVars, faults>>

\* ErrFallback: inlined rows, row-level deletes, no ducklake_add_data_files,
\* or a column that cannot be mapped: MovePartition goes on with the INSERT.
Fallback ==
    /\ pc \in {"list", "register"}
    /\ files' = {}
    /\ Goto("insert")
    /\ UNCHANGED <<part, dateVars, srcCount, plan, obsVars, faults>>

\* The bytes move with no lock held.
CopyFiles ==
    /\ pc = "copy"
    /\ Goto("register")
    /\ UNCHANGED <<part, dateVars, srcCount, plan, files, obsVars, faults>>

\* registerCopiedFiles: one transaction on the destination catalog.
RegisterCopiedFiles ==
    /\ pc = "register"
    /\ IF Dst # {} /\ Cardinality(Dst) # Cardinality(files)
       THEN NextPass /\ UNCHANGED part
       ELSE /\ part' = [part EXCEPT ![pair + 1] = IF Dst = {} THEN files ELSE @]
            /\ Goto("retire")
            /\ UNCHANGED <<srcCount, plan, files>>
    /\ UNCHANGED <<dateVars, obsVars, faults>>

\* Mutant: the source is not counted again before its DELETE.
RetireSourceUnchecked ==
    /\ pc = "retire"
    /\ part' = [part EXCEPT ![pair] = {}]
    /\ NextPass
    /\ UNCHANGED <<dateVars, obsVars, faults>>

\* retireSourcePartition: one transaction on the source catalog, under the
\* lock, which leaves a source that has changed in place.
RetireSource ==
    /\ pc = "retire"
    /\ part' = [part EXCEPT ![pair] =
                  IF Cardinality(@) = Cardinality(files) THEN {} ELSE @]
    /\ NextPass
    /\ UNCHANGED <<dateVars, obsVars, faults>>
-------------------------------------------------------------------------------
(* movePartitionDuckDB and deleteSourcePartition.                           *)

\* INSERT INTO destination SELECT * FROM source WHERE date = ?
InsertIntoDestination ==
    /\ pc = "insert"
    /\ part' = [part EXCEPT ![pair + 1] = @ \cup Src]
    /\ Goto("delete")
    /\ UNCHANGED <<dateVars, srcCount, plan, files, obsVars, faults>>

\* DELETE FROM source WHERE date = ?
DeleteSource ==
    /\ pc = "delete"
    /\ part' = [part EXCEPT ![pair] = {}]
    /\ NextPass
    /\ UNCHANGED <<dateVars, obsVars, faults>>
-------------------------------------------------------------------------------
(* Failures.                                                                *)

\* A listing, a count, a copy or a statement has failed for good: the
\* error is logged and the cycle goes on with the next pair.
FailMove ==
    /\ faults < MaxFaults
    /\ pc \notin {"idle", "expire"}
    /\ faults' = faults + 1
    /\ NextPass
    /\ UNCHANGED <<part, dateVars, obsVars>>

\* The process dies in the middle of a cycle and is started again.
Crash ==
    /\ faults < MaxFaults
    /\ pc # "idle"
    /\ faults' = faults + 1
    /\ pc' = "idle" /\ pair' = 1 /\ pass' = "size"
    /\ Forget
    /\ UNCHANGED <<part, dateVars, obsVars>>
-------------------------------------------------------------------------------
Cycle == \/ StartCycle \/ SelectPartition \/ SkipPartition \/ ExpirePartition
         \/ CountSource \/ CountDestination \/ DiscardIncompleteDestination
         \/ ListFiles \/ Fallback \/ CopyFiles
         \/ RegisterCopiedFiles \/ RetireSource
         \/ InsertIntoDestination \/ DeleteSource

Next == \/ \E r \in Rows : Flush(r)
        \/ \E v \in Volumes : Age(v)
        \/ DayEnds
        \/ Cycle
        \/ FailMove
        \/ Crash

Spec == Init /\ [][Next]_vars

\* The ticker goes on starting cycles and a cycle goes on; the faults are the
\* environment's, and no flush is owed.
FairSpec == Spec /\ WF_vars(Cycle)
-------------------------------------------------------------------------------
(* Properties.                                                              *)

Labels == {"idle", "select", "countSrc", "countDst", "discard", "list", "copy",
           "register", "retire", "insert", "delete", "expire"}
Plans  == {"none", "copy", "deleteSourceOnly", "replaceDest"}

\* The state is well typed; a pair always has a volume to move to.
TypeOK ==
    /\ part \in [Volumes -> SUBSET Rows]
    /\ aged \subseteq Volumes /\ dayOver \in BOOLEAN
    /\ pc \in Labels /\ plan \in Plans
    /\ pair \in Volumes /\ pass \in {"size", "age"}
    /\ pair = NumVolumes <=> pc = "expire"
    /\ srcCount \in Nat /\ files \subseteq Rows
    /\ flushed \subseteq Rows /\ expired \subseteq Rows
    /\ late \in BOOLEAN
    /\ faults \in 0..MaxFaults

\* A row the writer has flushed is in some volume, or expired on the last one,
\* whatever fails, crashes or is retried between the copy and the DELETE of
\* MovePartition, unless a flush came too late for its partition.
LossNeedsLateFlush ==
    ~late => flushed \subseteq (UNION {part[v] : v \in Volumes}) \cup expired

\* MovePartition never puts a second copy of a row into a volume: the INSERT
\* and ducklake_add_data_files find no row of the partition there, after a
\* failed earlier attempt too.
CopyIntoEmpty ==
    pc \in {"list", "copy", "register", "insert"} => Dst = {}

\* The native mover's DELETE of the source takes no row the destination does
\* not have, although the rows were copied with no lock held and a flush may
\* have added to the partition meanwhile.
NativeRetiresCopied ==
    [][pc = "retire" => \A v \in Sources :
            part[v] \ part'[v] \subseteq part[v + 1]]_vars

\* No failed attempt sticks (partitionMovePlan: issue 1080): in the end a
\* partition has left every volume whose cutoff it has passed.
PartitionNotStuck ==
    \A v \in Sources : <>[](v \in aged => part[v] = {})

\* What partitionMoveReplaceDest's comment says: a move that discards the
\* destination leaves the source; only a later attempt that sees equal counts
\* deletes it.
ReplaceLeavesSource ==
    [][plan = "replaceDest" => Src \subseteq part'[pair]]_vars
===============================================================================
