-------------------------- MODULE MaintenanceProofs --------------------------
(***************************************************************************)
(* Proofs about the maintenance that MCMaintenance composes, and about     *)
(* Shutdown, the end of the process.                                       *)
(*                                                                         *)
(* CompactionService, for every set of tables, every number of backups     *)
(* that are kept and any number of failures, damages, restarts and         *)
(* restores.  The inductive invariant CsInv:                               *)
(*                                                                         *)
(*   CsTypeOK         every variable has its type;                         *)
(*   CyclesExclusive  at most one goroutine is in a cycle, and             *)
(*                    cycleRunning says so;                                *)
(*   DamageStopsCompaction   the latch and a cycle exclude each other;     *)
(*   Attached         while a goroutine lives the process is up or         *)
(*                    stopping, and then there is a catalog;               *)
(*   LastLive         the catalog in use is the last one that was; a       *)
(*                    restore that renamed one can find it again;          *)
(*   RestoreReversible                                                     *)
(*   SoundBackup      the newest sound backup is followed by no more       *)
(*                    copies than blind and Pending account for.           *)
(*                                                                         *)
(* TierMove, for every finite set of rows, every number of volumes, every  *)
(* choice of engines and any number of failures.  The inductive invariant  *)
(* IInv:                                                                   *)
(*                                                                         *)
(*   TypeOK         every variable has its type;                           *)
(*   CopyIntoEmpty  a copy is only made to an empty destination;           *)
(*   CopyInv        what the native mover has listed and registered;       *)
(*   CountInv       a source that was counted as not empty is not empty;   *)
(*   NestInv        as long as no flush was too late: the first volume     *)
(*                  that holds the partition holds all of it (Nested),     *)
(*                  equal counts mean equal rows, the DELETE that comes    *)
(*                  next deletes copied rows only, and no row is missing.  *)
(*                                                                         *)
(* Shutdown, for every set of requests, every depth of the queues and any  *)
(* number of workers.  The inductive invariant SdInv:                      *)
(*                                                                         *)
(*   SdTypeOK    every variable has its type; what main has waited, and so *)
(*               any wait of a module's Stop, is within main's deadline;   *)
(*   OrderInv    which steps of Stop have closed what;                     *)
(*   ListenInv   a receiver whose Stop waits takes no more requests;       *)
(*   PlaceInv    who may be in a queue or with a worker;                   *)
(*   JoinInv     what is past a wait of Stop is over, or its connection    *)
(*               was cut;                                                  *)
(*   AckInv      where an answered request is;                             *)
(*   LateUseIsUnjoined.                                                    *)
(***************************************************************************)
EXTENDS TierMove, CompactionService, Shutdown, SequenceTheorems, FiniteSetTheorems, TLAPS

-----------------------------------------------------------------------------
(* The compaction service.                                                 *)

Attached ==
    /\ process \in {"down", "restoring"} => \A g \in Goroutines : csPc[g] = "done"
    /\ process \in {"up", "stopping"} => catalog # "missing"

LastLive ==
    /\ lastLive \notin {"missing", "empty"}
    /\ catalog \notin {"missing", "empty"} => lastLive = catalog
    /\ process = "restoring" => catalog = "missing"
    /\ renamed => process = "restoring" /\ aside # <<>>

\* A copy of an unsound catalog that no cycle or process has yet answered for
\* by ending: the latch was set after it, or the cycle that made it still runs.
AfterCopy == {"native", "leftover", "invariants", "verify"}

Pending ==
    IF /\ catalog \notin Sound /\ process \in {"up", "stopping"}
       /\ catalogCorrupt \/ \E g \in Goroutines : csPc[g] \in AfterCopy
    THEN 1 ELSE 0

\* At most n copies follow a sound one, unless n suffices to push it out.
KeptWithin(b, n) ==
    Keep <= n \/ \E i \in 1 .. Len(b) : b[i] \in Sound /\ Len(b) - i <= n

\* blind grows when Pending falls: what follows the newest sound backup is at
\* most their sum.
Uncounted == blind + Pending
SoundBackup == KeptWithin(backups, Uncounted)

CsInv ==
    /\ CsTypeOK /\ CyclesExclusive /\ DamageStopsCompaction
    /\ Attached /\ LastLive /\ RestoreReversible /\ SoundBackup
-----------------------------------------------------------------------------
\* A sequence without its first element.
LEMMA WithoutOldest ==
    ASSUME NEW S, NEW a \in Seq(S), NEW n \in Nat, n >= 1, Len(a) = n + 1
    PROVE  /\ SubSeq(a, 2, n + 1) \in Seq(S) /\ Len(SubSeq(a, 2, n + 1)) = n
           /\ \A i \in 1 .. n : SubSeq(a, 2, n + 1)[i] = a[i + 1]
  OBVIOUS

\* What pruneCatalogBackups leaves after one more copy: at most Keep copies, at
\* least one, the new one last; a copy that was not the oldest of Keep is kept,
\* one place further from the end.
LEMMA PruneProperties ==
    ASSUME NEW S, NEW b \in Seq(S), NEW c \in S, Len(b) <= Keep
    PROVE  LET p == Prune(Append(b, c))
           IN  /\ p \in Seq(S) /\ Len(p) <= Keep /\ Len(p) >= 1
               /\ p[Len(p)] = c
               /\ \A i \in 1 .. Len(b) :
                    Len(b) - i + 1 < Keep =>
                        \E j \in 1 .. Len(p) : p[j] = b[i] /\ Len(p) - j = Len(b) - i + 1
<1>0. Keep \in Nat /\ Keep >= 1
  BY CompactionServiceAssumption
<1>1. /\ Append(b, c) \in Seq(S) /\ Len(Append(b, c)) = Len(b) + 1 /\ Len(b) \in Nat
      /\ Append(b, c)[Len(b) + 1] = c
      /\ \A i \in 1 .. Len(b) : Append(b, c)[i] = b[i]
  BY AppendProperties, LenProperties
<1> DEFINE a == Append(b, c)
           p == Prune(a)
<1>2. CASE Len(a) <= Keep
  <2>1. p = a
    BY <1>2 DEF Prune
  <2>2. ASSUME NEW i \in 1 .. Len(b)
        PROVE  \E j \in 1 .. Len(p) : p[j] = b[i] /\ Len(p) - j = Len(b) - i + 1
    <3>1. i \in 1 .. Len(p) /\ p[i] = b[i] /\ Len(p) - i = Len(b) - i + 1
      BY <1>1, <2>1
    <3> QED
      BY <3>1
  <2> QED
    BY <1>0, <1>1, <1>2, <2>1, <2>2
<1>3. CASE ~(Len(a) <= Keep)
  <2>1. Len(b) = Keep /\ Len(a) = Keep + 1
    BY <1>0, <1>1, <1>3
  <2>2. p = SubSeq(a, 2, Keep + 1)
    BY <1>0, <1>3, <2>1 DEF Prune
  <2>4. /\ p \in Seq(S) /\ Len(p) = Keep
        /\ \A i \in 1 .. Keep : p[i] = a[i + 1]
    BY <1>0, <1>1, <2>1, <2>2, WithoutOldest
  <2>5. ASSUME NEW i \in 1 .. Len(b), Len(b) - i + 1 < Keep
        PROVE  \E j \in 1 .. Len(p) : p[j] = b[i] /\ Len(p) - j = Len(b) - i + 1
    <3>1. i - 1 \in 1 .. Len(p) /\ p[i - 1] = a[i] /\ Len(p) - (i - 1) = Len(b) - i + 1
      BY <1>0, <2>1, <2>4, <2>5
    <3> QED
      BY <1>1, <3>1
  <2>6. p[Len(p)] = c
    BY <1>0, <1>1, <2>1, <2>4
  <2> QED
    BY <1>0, <2>4, <2>5, <2>6
<1> QED
  BY <1>2, <1>3

\* One more copy: a sound one is the newest; any other moves the sound one by a
\* place.
LEMMA KeptCopy ==
    ASSUME NEW S, NEW b \in Seq(S), NEW c \in S, Len(b) <= Keep, NEW n \in Nat
    PROVE  /\ c \in Sound => KeptWithin(Prune(Append(b, c)), n)
           /\ KeptWithin(b, n) => KeptWithin(Prune(Append(b, c)), n + 1)
<1> DEFINE p == Prune(Append(b, c))
<1>0. /\ Keep \in Nat /\ p \in Seq(S) /\ Len(p) >= 1 /\ p[Len(p)] = c
      /\ \A i \in 1 .. Len(b) :
           Len(b) - i + 1 < Keep => \E j \in 1 .. Len(p) : p[j] = b[i] /\ Len(p) - j = Len(b) - i + 1
  BY PruneProperties, CompactionServiceAssumption
<1>1. Len(p) \in Nat /\ Len(b) \in Nat
  BY <1>0
<1> HIDE DEF p
<1>2. c \in Sound => KeptWithin(p, n)
  <2>1. Len(p) \in 1 .. Len(p) /\ Len(p) - Len(p) <= n
    BY <1>0, <1>1
  <2> QED
    BY <1>0, <2>1 DEF KeptWithin
<1>3. ASSUME NEW i \in 1 .. Len(b), b[i] \in Sound, Len(b) - i <= n
      PROVE  KeptWithin(p, n + 1)
  <2>1. CASE Len(b) - i + 1 < Keep
    <3>1. PICK j \in 1 .. Len(p) : p[j] = b[i] /\ Len(p) - j = Len(b) - i + 1
      BY <1>0, <2>1
    <3> QED
      BY <1>1, <1>3, <3>1 DEF KeptWithin
  <2>2. CASE ~(Len(b) - i + 1 < Keep)
    BY <1>0, <1>1, <1>3, <2>2 DEF KeptWithin
  <2> QED
    BY <2>1, <2>2
<1>4. Keep <= n => KeptWithin(p, n + 1)
  BY <1>0 DEF KeptWithin
<1>5. KeptWithin(b, n) => KeptWithin(p, n + 1)
  BY <1>3, <1>4 DEF KeptWithin
<1> QED
  BY <1>2, <1>5 DEF p
-----------------------------------------------------------------------------
LEMMA InitInv == CsInit => CsInv
<1> SUFFICES ASSUME CsInit PROVE CsInv
  OBVIOUS
<1>1. CsTypeOK
  <2>1. /\ {enabled, nativeEngine, isolated, closeDB, dbBroken, nativeDisabled, catalogCorrupt,
            cycleRunning, renamed} \subseteq BOOLEAN
        /\ csPc \in [Goroutines -> CsPlaces]
    BY DEF CsInit, CsPlaces
  <2>2. /\ mergeFatals \in [Tables -> 0 .. MaxMergeFatals] /\ csFaults \in 0 .. CsMaxFaults
        /\ damages \in 0 .. MaxDamages /\ starts \in 0 .. MaxStarts /\ restores \in 0 .. MaxRestores
        /\ blind \in 0 .. Keep
    BY CompactionServiceAssumption DEF CsInit
  <2>3. backups \in Seq(Catalogs \ {"missing"}) /\ Len(backups) <= Keep /\ aside \in Seq(Catalogs \ {"missing"})
    BY CompactionServiceAssumption DEF CsInit
  <2> QED
    BY <2>1, <2>2, <2>3 DEF CsInit, CsTypeOK, Catalogs
<1>2. CyclesExclusive /\ DamageStopsCompaction /\ Attached
  BY DEF CsInit, CyclesExclusive, DamageStopsCompaction, Attached, InCycle, CycleSteps
<1>3. LastLive /\ RestoreReversible /\ SoundBackup
  BY CompactionServiceAssumption
     DEF CsInit, LastLive, RestoreReversible, SoundBackup, KeptWithin, Uncounted, Pending, Sound
<1> QED
  BY <1>1, <1>2, <1>3 DEF CsInv

\* A fault is counted.
LEMMA FaultCounted ==
    ASSUME CsTypeOK, Fault
    PROVE  csFaults' \in 0 .. CsMaxFaults
  BY CompactionServiceAssumption DEF CsTypeOK, Fault

\* A merge of a table leaves the cycle where it was or ends it.
LEMMA NativeMergeSteps ==
    ASSUME NEW g, NEW t, NativeMerge(g, t)
    PROVE  /\ csPc' = csPc \/ csPc' = [csPc EXCEPT ![g] = Home(g)]
           /\ csFaults' = csFaults \/ Fault
           /\ blind' = blind \/ blind' = Undetected
  BY DEF NativeMerge, FatalMerge, AbortCycle, EndCycle, CsGoto

LEMMA DuckdbMergeSteps ==
    ASSUME NEW g, NEW t, DuckdbMerge(g, t)
    PROVE  /\ csPc' = csPc \/ csPc' = [csPc EXCEPT ![g] = Home(g)]
           /\ csFaults' = csFaults \/ Fault
           /\ blind' = blind \/ blind' = Undetected
           /\ \/ UNCHANGED mergeFatals
              \/ t \notin mergeQuarantined /\ mergeFatals' = [mergeFatals EXCEPT ![t] = @ + 1]
  BY DEF DuckdbMerge, FatalMerge, RecordMergeFatal, AbortCycle, EndCycle, CsGoto

\* The types of what a goroutine's step may change.
LEMMA GoroutineType ==
    ASSUME CsTypeOK, Attached, NEW g \in Goroutines, Goroutine(g)
    PROVE  CsTypeOK'
<1> USE DEF CsTypeOK, config, latches, csCycleVars, bounds, asides
<1> USE CompactionServiceAssumption, FaultCounted DEF Goroutine, CsGoto, CsPlaces, CycleSteps, Goroutines, Home
<1>1. CASE Wake(g)
  BY <1>1 DEF Wake
<1>2. CASE FlushOnly(g)
  BY <1>2 DEF FlushOnly, EnsureDB, Statement
<1>3. CASE GhostFiles(g)
  BY <1>3 DEF GhostFiles, Statement
<1>4. CASE RunCompaction(g)
  BY <1>4 DEF RunCompaction, EnsureDB, SkipCycle
<1>5. CASE Retention(g)
  BY <1>5 DEF Retention, Statement
<1>6. CASE Inlined(g)
  BY <1>6 DEF Inlined, EnsureDB
<1>8. ASSUME NEW t \in Tables, NativeMerge(g, t) PROVE CsTypeOK'
  <2>0. /\ csPc' = csPc \/ csPc' = [csPc EXCEPT ![g] = Home(g)]
        /\ csFaults' = csFaults \/ Fault
        /\ blind' = blind \/ blind' = Undetected
    BY <1>8, NativeMergeSteps
  <2>1. csPc' \in [Goroutines -> CsPlaces]
    BY <2>0
  <2>4. csFaults' \in 0 .. CsMaxFaults
    BY <2>0
  <2>5. blind' \in 0 .. Keep
    BY SMTT(30), <2>0 DEF Undetected
  <2>2. nativeUnsupported' \subseteq Tables /\ todo' \subseteq Tables /\ duckdbTables' \subseteq Tables
    BY <1>8 DEF NativeMerge, AbortCycle, EndCycle
  <2>3. dbBroken' \in BOOLEAN /\ cycleRunning' \in BOOLEAN
    BY <1>8 DEF NativeMerge, AbortCycle, EndCycle
  <2> QED
    BY <1>8, <2>1, <2>2, <2>3, <2>4, <2>5 DEF NativeMerge
<1>9. ASSUME NEW t \in Tables, DuckdbMerge(g, t) PROVE CsTypeOK'
  <2>0. /\ csPc' = csPc \/ csPc' = [csPc EXCEPT ![g] = Home(g)]
        /\ csFaults' = csFaults \/ Fault
        /\ blind' = blind \/ blind' = Undetected
        /\ \/ UNCHANGED mergeFatals
           \/ t \notin mergeQuarantined /\ mergeFatals' = [mergeFatals EXCEPT ![t] = @ + 1]
    BY <1>9, DuckdbMergeSteps
  <2>1. csFaults' \in 0 .. CsMaxFaults
    BY <2>0
  <2>5. csPc' \in [Goroutines -> CsPlaces]
    BY <2>0
  <2>6. blind' \in 0 .. Keep
    BY SMTT(30), <2>0 DEF Undetected
  <2>2. todo' \subseteq Tables /\ duckdbTables' \subseteq Tables
    BY <1>9 DEF DuckdbMerge, AbortCycle, EndCycle
  <2>3. dbBroken' \in BOOLEAN /\ cycleRunning' \in BOOLEAN
    BY <1>9 DEF DuckdbMerge, AbortCycle, EndCycle
  <2>4. mergeFatals' \in [Tables -> 0 .. MaxMergeFatals]
    <3>1. MaxMergeFatals \in Nat /\ mergeFatals[t] \in 0 .. MaxMergeFatals
      OBVIOUS
    <3>2. t \notin mergeQuarantined => mergeFatals[t] + 1 \in 0 .. MaxMergeFatals
      BY SMTT(30), <3>1 DEF mergeQuarantined
    <3> QED
      BY <2>0, <3>2
  <2> QED
    BY <1>9, <2>1, <2>2, <2>3, <2>4, <2>5, <2>6 DEF DuckdbMerge
<1>10. CASE NativeMerged(g)
  BY <1>10 DEF NativeMerged
<1>11. CASE DuckdbMerged(g)
  BY <1>11 DEF DuckdbMerged
<1>12. CASE CheckInvariants(g)
  BY <1>12 DEF CheckInvariants
<1>13. CASE Verify(g)
  <2>0. csFaults' = csFaults \/ Fault
    BY <1>13 DEF Verify
  <2>1. csFaults' \in 0 .. CsMaxFaults
    BY <2>0
  <2>5. csPc' \in [Goroutines -> CsPlaces]
    BY <1>13 DEF Verify, EndCycle, Undetected
  <2>6. blind' \in 0 .. Keep
    BY SMTT(30), <1>13 DEF Verify, EndCycle, Undetected
  <2>2. todo' \subseteq Tables /\ duckdbTables' \subseteq Tables
    BY <1>13 DEF Verify, EndCycle
  <2>3. catalogCorrupt' \in BOOLEAN /\ cycleRunning' \in BOOLEAN
    BY <1>13 DEF Verify, EndCycle
  <2> QED
    BY <1>13, <2>1, <2>2, <2>3, <2>5, <2>6 DEF Verify
<1>14. CASE Maintain(g)
  BY <1>14 DEF Maintain, EndCycle, Statement
<1>7. CASE Backup(g)
  <2>1. csPc' \in [Goroutines -> CsPlaces] /\ csFaults' \in 0 .. CsMaxFaults
    BY <1>7 DEF Backup
  <2>4. blind' \in 0 .. Keep
    <3>1. blind' \in {0, blind}
      BY <1>7 DEF Backup
    <3>2. Keep \in Nat /\ blind \in 0 .. Keep
      OBVIOUS
    <3> QED
      BY SMTT(30), <3>1, <3>2
  <2>2. catalog \in Catalogs \ {"missing"}
    BY <1>7 DEF Backup, Attached
  <2>3. backups' \in Seq(Catalogs \ {"missing"}) /\ Len(backups') <= Keep
    <3>1. CASE backups' = Prune(Append(backups, catalog))
      BY <2>2, <3>1, PruneProperties
    <3>2. CASE UNCHANGED backups
      BY <3>2
    <3> QED
      BY <1>7, <3>1, <3>2 DEF Backup
  <2> QED
    BY <1>7, <2>1, <2>3, <2>4 DEF Backup
<1> QED
  BY <1>1, <1>2, <1>3, <1>4, <1>5, <1>6, <1>7, <1>8, <1>9, <1>10, <1>11, <1>12, <1>13, <1>14

\* What a process that ends leaves of its latches.
LEMMA EndProcessType ==
    ASSUME EndProcess
    PROVE  /\ closeDB' = FALSE /\ dbBroken' = FALSE /\ nativeDisabled' = FALSE /\ catalogCorrupt' = FALSE
           /\ nativeUnsupported' \subseteq Tables /\ mergeFatals' \in [Tables -> 0 .. MaxMergeFatals]
<1>1. MaxMergeFatals \in Nat
  BY CompactionServiceAssumption
<1>2. mergeFatals' = [t \in Tables |-> 0]
  BY DEF EndProcess
<1>3. mergeFatals' \in [Tables -> 0 .. MaxMergeFatals]
  BY <1>1, <1>2
<1> QED
  BY <1>3 DEF EndProcess

\* A restore ends with a catalog copied, or with the one it renamed put back, or
\* with none.
LEMMA RestoreOutcomes ==
    ASSUME CsTypeOK, LastLive, RestoreEnds
    PROVE  /\ catalog' \in Catalogs /\ aside' \in Seq(Catalogs \ {"missing"})
           /\ csFaults' \in 0 .. CsMaxFaults
           /\ \/ UNCHANGED aside
              \/ /\ aside # <<>>
                 /\ catalog' = aside[Len(aside)]
                 /\ aside' = SubSeq(aside, 1, Len(aside) - 1)
<1>1. csFaults' \in 0 .. CsMaxFaults
  BY FaultCounted DEF RestoreEnds, CsTypeOK
<1>2. CASE catalog' \in RestoreSources /\ UNCHANGED aside
  <2>1. aside \in Seq(Catalogs \ {"missing"}) /\ backups \in Seq(Catalogs \ {"missing"})
    BY DEF CsTypeOK
  <2>2. RestoreSources \subseteq Catalogs
    BY <2>1 DEF RestoreSources
  <2> QED
    BY <1>1, <1>2, <2>1, <2>2
<1>3. CASE UndoCatalogRenames /\ renamed
  <2>1. aside \in Seq(Catalogs \ {"missing"}) /\ aside # <<>>
    BY <1>3 DEF CsTypeOK, LastLive
  <2>2. catalog' = aside[Len(aside)] /\ aside' = SubSeq(aside, 1, Len(aside) - 1)
    BY <1>3 DEF UndoCatalogRenames
  <2> QED
    BY <1>1, <2>1, <2>2
<1>4. CASE UNCHANGED <<catalog, aside>>
  BY <1>1, <1>4 DEF CsTypeOK
<1> QED
  BY <1>2, <1>3, <1>4 DEF RestoreEnds, UndoCatalogRenames

\* Start, stop, crash, damage and restore.
LEMMA ProcessType ==
    ASSUME CsTypeOK, Attached, LastLive,
           \/ Start \/ StopCancels \/ StopReturns \/ CsCrash \/ DamageCatalog
           \/ RestoreAside \/ RestoreEnds \/ Done
    PROVE  CsTypeOK'
<1> USE DEF CsTypeOK, config, latches, csCycleVars, bounds, asides
<1>0. Keep \in Nat /\ MaxMergeFatals \in Nat /\ MaxStarts \in Nat /\ MaxDamages \in Nat /\ MaxRestores \in Nat
  BY CompactionServiceAssumption
<1>1. CASE Start
  <2>1. csPc' \in [Goroutines -> CsPlaces] /\ catalog' \in Catalogs /\ lastLive' \in Catalogs
    BY <1>1 DEF Start, CsPlaces, Repaired, Catalogs, LiveAfter
  <2>2. starts' \in 0 .. MaxStarts
    BY <1>0, <1>1 DEF Start
  <2> QED
    BY <1>1, <2>1, <2>2 DEF Start
<1>2. CASE StopCancels
  BY <1>2 DEF StopCancels
<1>3. CASE StopReturns
  <2>1. blind' \in 0 .. Keep
    BY <1>0, <1>3 DEF StopReturns, Undetected
  <2>2. EndProcess /\ process' = "down"
    BY <1>3 DEF StopReturns, CloseMaintenanceDB
  <2> QED
    BY <1>3, <2>1, <2>2, EndProcessType DEF StopReturns
<1>4. CASE CsCrash
  <2>1. csPc' \in [Goroutines -> CsPlaces] /\ blind' \in 0 .. Keep
    BY <1>0, <1>4 DEF CsCrash, Undetected, CsPlaces
  <2>2. csFaults' \in 0 .. CsMaxFaults
    BY <1>4, FaultCounted DEF CsCrash
  <2>3. EndProcess
    BY <1>4 DEF CsCrash
  <2> QED
    BY <1>4, <2>1, <2>2, <2>3, EndProcessType DEF CsCrash
<1>5. CASE DamageCatalog
  BY <1>0, <1>5 DEF DamageCatalog, Catalogs
<1>6. CASE RestoreAside
  <2>1. aside' \in Seq(Catalogs \ {"missing"}) /\ renamed' \in BOOLEAN
    BY <1>6 DEF RestoreAside, AsideCatalogFiles
  <2>2. restores' \in 0 .. MaxRestores /\ catalog' \in Catalogs
    BY <1>0, <1>6 DEF RestoreAside, Catalogs
  <2> QED
    BY <1>6, <2>1, <2>2 DEF RestoreAside
<1>7. CASE RestoreEnds
  <2>1. catalog' \in Catalogs /\ aside' \in Seq(Catalogs \ {"missing"}) /\ csFaults' \in 0 .. CsMaxFaults
    BY <1>7, RestoreOutcomes
  <2>2. lastLive' \in Catalogs
    BY <1>7, <2>1 DEF RestoreEnds, LiveAfter
  <2> QED
    BY <1>7, <2>1, <2>2 DEF RestoreEnds
<1>8. CASE Done
  BY <1>8 DEF Done, csVars
<1> QED
  BY <1>1, <1>2, <1>3, <1>4, <1>5, <1>6, <1>7, <1>8
-----------------------------------------------------------------------------
\* A step of goroutine g moves g alone, never from a place where it has
\* returned, and is one of: a step outside a cycle; a step inside one; the end of
\* a cycle, which resets cycleRunning; the begin of a cycle, which sets it, and
\* needs it reset and the latch open.
LEMMA CycleShape ==
    ASSUME CsTypeOK, NEW g \in Goroutines, Goroutine(g)
    PROVE  /\ csPc[g] # "done"
           /\ \A h \in Goroutines \ {g} : csPc'[h] = csPc[h]
           /\ \/ /\ ~InCycle(g) /\ ~InCycle(g)'
                 /\ cycleRunning' = cycleRunning /\ catalogCorrupt' = catalogCorrupt
              \/ /\ InCycle(g) /\ InCycle(g)'
                 /\ cycleRunning' = cycleRunning /\ catalogCorrupt' = catalogCorrupt
              \/ InCycle(g) /\ ~InCycle(g)' /\ ~cycleRunning'
              \/ /\ ~InCycle(g) /\ InCycle(g)'
                 /\ ~cycleRunning /\ cycleRunning' /\ ~catalogCorrupt /\ ~catalogCorrupt'
<1> USE DEF CsTypeOK, latches, csCycleVars, CsGoto, CsPlaces, CycleSteps, Goroutines, Home, InCycle
<1>1. CASE Wake(g)
  BY <1>1 DEF Wake
<1>2. CASE FlushOnly(g)
  BY <1>2 DEF FlushOnly
<1>3. CASE GhostFiles(g)
  BY <1>3 DEF GhostFiles
<1>4. CASE RunCompaction(g)
  BY <1>4 DEF RunCompaction, SkipCycle, BeginCycle, catalogIntegrityOK
<1>5. CASE Retention(g)
  BY <1>5 DEF Retention
<1>6. CASE Inlined(g)
  BY <1>6 DEF Inlined
<1>7. CASE Backup(g)
  BY <1>7 DEF Backup
<1>8. CASE \E t \in Tables : NativeMerge(g, t)
  BY <1>8 DEF NativeMerge, AbortCycle, EndCycle
<1>9. CASE \E t \in Tables : DuckdbMerge(g, t)
  BY <1>9 DEF DuckdbMerge, AbortCycle, EndCycle
<1>10. CASE NativeMerged(g)
  BY <1>10 DEF NativeMerged
<1>11. CASE DuckdbMerged(g)
  BY <1>11 DEF DuckdbMerged
<1>12. CASE CheckInvariants(g)
  BY <1>12 DEF CheckInvariants
<1>13. CASE Verify(g)
  BY <1>13 DEF Verify, EndCycle
<1>14. CASE Maintain(g)
  BY <1>14 DEF Maintain, EndCycle
<1> QED
  BY <1>1, <1>2, <1>3, <1>4, <1>5, <1>6, <1>7, <1>8, <1>9, <1>10, <1>11, <1>12, <1>13, <1>14 DEF Goroutine

\* So a goroutine's step keeps the cycles apart and the latch effective.
LEMMA GoroutineCycles ==
    ASSUME CsTypeOK, CyclesExclusive, DamageStopsCompaction, Attached,
           NEW g \in Goroutines, Goroutine(g)
    PROVE  CyclesExclusive' /\ DamageStopsCompaction' /\ Attached'
<1>1. /\ csPc[g] # "done" /\ process \in {"up", "stopping"}
      /\ UNCHANGED <<process, catalog>>
  BY CycleShape DEF Attached, CsTypeOK, Goroutine
<1>2. \A h \in Goroutines \ {g} : (InCycle(h)' <=> InCycle(h))
  BY CycleShape DEF InCycle
<1>3. Attached'
  BY <1>1 DEF Attached
<1>4. CyclesExclusive' /\ DamageStopsCompaction'
  <2> DEFINE in(h) == InCycle(h)
             inP(h) == InCycle(h)'
  <2>1. (\A h \in Goroutines : ~in(h)) \/ (\E h \in Goroutines : in(h))
    OBVIOUS
  <2>2. CASE ~InCycle(g) /\ ~InCycle(g)' /\ cycleRunning' = cycleRunning /\ catalogCorrupt' = catalogCorrupt
    BY <1>1, <1>2, <2>2 DEF CyclesExclusive, DamageStopsCompaction
  <2>3. CASE InCycle(g) /\ InCycle(g)' /\ cycleRunning' = cycleRunning /\ catalogCorrupt' = catalogCorrupt
    BY <1>1, <1>2, <2>3 DEF CyclesExclusive, DamageStopsCompaction
  <2>4. CASE InCycle(g) /\ ~InCycle(g)' /\ ~cycleRunning'
    BY <1>1, <1>2, <2>4 DEF CyclesExclusive, DamageStopsCompaction
  <2>5. CASE /\ ~InCycle(g) /\ InCycle(g)'
             /\ ~cycleRunning /\ cycleRunning' /\ ~catalogCorrupt /\ ~catalogCorrupt'
    BY <1>1, <1>2, <2>5 DEF CyclesExclusive, DamageStopsCompaction
  <2> QED
    BY CycleShape, <2>2, <2>3, <2>4, <2>5
<1> QED
  BY <1>3, <1>4

\* As long as no copy is made, blind and Pending together never fall, short of
\* Keep: the sound copy that SoundBackup promises stays the one it was.
LEMMA SoundStays ==
    ASSUME CsTypeOK, CsTypeOK', SoundBackup, UNCHANGED backups,
           Uncounted' >= Uncounted \/ Uncounted' >= Keep
    PROVE  SoundBackup'
<1>0. (Pending = 0 \/ Pending = 1) /\ (Pending = 0 \/ Pending = 1)'
  BY DEF Pending
<1>1. Uncounted \in Nat /\ Uncounted' \in Nat /\ Len(backups) \in Nat
  <2>1. blind \in Nat /\ blind' \in 0 .. Keep
    BY DEF CsTypeOK
  <2>2. Len(backups) \in Nat
    BY SMTT(30) DEF CsTypeOK
  <2> QED
    BY <1>0, <2>1, <2>2 DEF Uncounted
<1>2. ASSUME NEW n \in Nat, NEW m \in Nat, n <= m \/ Keep <= m, KeptWithin(backups, n)
      PROVE  KeptWithin(backups, m)
  BY <1>1, <1>2, CompactionServiceAssumption DEF KeptWithin
<1>3. KeptWithin(backups, Uncounted')
  <2>1. Uncounted <= Uncounted' \/ Keep <= Uncounted'
    BY <1>1, CompactionServiceAssumption
  <2> QED
    BY <1>1, <1>2, <2>1, Zenon DEF SoundBackup
<1>4. KeptWithin(backups, Uncounted') = KeptWithin(backups', Uncounted')
  BY Zenon
<1> QED
  BY <1>3, <1>4, Zenon DEF SoundBackup

\* A goroutine's step that makes no copy: the cycle goes on, or the latch is
\* set, or blind counts it.
LEMMA BlindCounts ==
    ASSUME CsTypeOK, NEW g \in Goroutines, Goroutine(g), ~Backup(g)
    PROVE  /\ UNCHANGED backups
           /\ \/ blind' = Undetected
              \/ /\ blind' = blind
                 /\ csPc[g] \in AfterCopy => catalogCorrupt' \/ csPc'[g] \in AfterCopy
                 /\ catalogCorrupt => catalogCorrupt'
<1> USE DEF CsTypeOK, latches, csCycleVars, CsGoto, CsPlaces, Goroutines, AfterCopy
<1>1. CASE Wake(g)
  BY <1>1 DEF Wake
<1>2. CASE FlushOnly(g)
  BY <1>2 DEF FlushOnly
<1>3. CASE GhostFiles(g)
  BY <1>3 DEF GhostFiles
<1>4. CASE RunCompaction(g)
  BY <1>4 DEF RunCompaction
<1>5. CASE Retention(g)
  BY <1>5 DEF Retention
<1>6. CASE Inlined(g)
  BY <1>6 DEF Inlined
<1>8. CASE \E t \in Tables : NativeMerge(g, t)
  BY <1>8 DEF NativeMerge, AbortCycle
<1>9. CASE \E t \in Tables : DuckdbMerge(g, t)
  BY <1>9 DEF DuckdbMerge, AbortCycle
<1>10. CASE NativeMerged(g)
  BY <1>10 DEF NativeMerged
<1>11. CASE DuckdbMerged(g)
  BY <1>11 DEF DuckdbMerged
<1>12. CASE CheckInvariants(g)
  BY <1>12 DEF CheckInvariants
<1>13. CASE Verify(g)
  BY <1>13 DEF Verify
<1>14. CASE Maintain(g)
  BY <1>14 DEF Maintain
<1> QED
  BY <1>1, <1>2, <1>3, <1>4, <1>5, <1>6, <1>8, <1>9, <1>10, <1>11, <1>12, <1>13, <1>14 DEF Goroutine

LEMMA GoroutineBackups ==
    ASSUME CsInv, CsTypeOK', NEW g \in Goroutines, Goroutine(g)
    PROVE  SoundBackup'
<1> USE DEF CsInv
<1>0. UNCHANGED <<process, catalog>> /\ \A h \in Goroutines \ {g} : csPc'[h] = csPc[h]
  BY CycleShape DEF Goroutine
<1>1. blind \in 0 .. Keep /\ blind' \in 0 .. Keep /\ Keep \in Nat
  BY CompactionServiceAssumption DEF CsTypeOK
<1>2. CASE ~Backup(g)
  <2>1. Uncounted' >= Uncounted \/ Uncounted' >= Keep
    <3>1. CASE blind' = Undetected
      BY <1>1, <3>1 DEF Undetected, Uncounted, Pending
    <3>2. CASE /\ blind' = blind
               /\ csPc[g] \in AfterCopy => catalogCorrupt' \/ csPc'[g] \in AfterCopy
               /\ catalogCorrupt => catalogCorrupt'
      <4>1. Pending = 1 => Pending' = 1
        BY <1>0, <3>2 DEF Pending
      <4> QED
        BY <1>1, <3>2, <4>1 DEF Uncounted, Pending
    <3> QED
      BY <1>2, <3>1, <3>2, BlindCounts
  <2> QED
    BY <1>2, <2>1, BlindCounts, SoundStays
<1>3. CASE Backup(g) /\ UNCHANGED <<backups, blind>>
  <2>1. /\ UNCHANGED catalogCorrupt
        /\ csPc[g] = "backup" /\ csPc'[g] \in {"native", "verify"}
    BY <1>3 DEF Backup, CsGoto, latches, CsTypeOK
  <2>2. Pending = 1 => Pending' = 1
    BY <1>0, <2>1 DEF Pending, AfterCopy
  <2>3. Uncounted' >= Uncounted
    BY <1>1, <1>3, <2>2 DEF Uncounted, Pending
  <2> QED
    BY <1>3, <2>3, SoundStays
<1>4. CASE /\ Backup(g) /\ backups' = Prune(Append(backups, catalog))
           /\ blind' = IF catalog \in Sound THEN 0 ELSE blind
  <2>1. /\ csPc[g] = "backup" /\ csPc'[g] \in {"native", "verify"} /\ UNCHANGED catalogCorrupt
    BY <1>4 DEF Backup, CsGoto, latches, CsTypeOK
  <2>2. catalog \in Catalogs \ {"missing"} /\ process \in {"up", "stopping"}
    BY <2>1 DEF Attached, CsTypeOK
  <2>3. backups \in Seq(Catalogs \ {"missing"}) /\ Len(backups) <= Keep
    BY DEF CsTypeOK
  <2>5. CASE catalog \in Sound
    <3>0. Pending' = 0 \/ Pending' = 1
      BY DEF Pending
    <3>1. Uncounted' \in Nat
      BY <1>1, <3>0 DEF Uncounted
    <3>2. KeptWithin(backups', Uncounted')
      BY <1>4, <2>2, <2>3, <2>5, <3>1, KeptCopy
    <3> QED
      BY <3>2 DEF SoundBackup
  <2>6. CASE catalog \notin Sound
    <3>1. ~catalogCorrupt /\ \A h \in Goroutines : csPc[h] \notin AfterCopy
      <4>1. InCycle(g) /\ \A h \in Goroutines \ {g} : ~InCycle(h)
        BY <2>1 DEF CyclesExclusive, InCycle, CycleSteps
      <4> QED
        BY <2>1, <4>1 DEF DamageStopsCompaction, InCycle, CycleSteps, AfterCopy
    <3>2. Pending = 0 /\ Pending' <= 1 /\ Pending' \in {0, 1}
      BY <3>1 DEF Pending
    <3>3. CASE Pending' = 1
      <4>1. Uncounted \in Nat /\ Uncounted' = Uncounted + 1
        BY <1>1, <1>4, <2>6, <3>2, <3>3 DEF Uncounted
      <4>2. KeptWithin(backups', Uncounted + 1)
        BY <1>4, <2>2, <2>3, <4>1, KeptCopy DEF SoundBackup
      <4> QED
        BY <4>1, <4>2 DEF SoundBackup
    <3>4. Pending' = 1
      BY <1>0, <1>4, <2>1, <2>2, <2>6 DEF Pending, AfterCopy, Backup, CsGoto, CsTypeOK
    <3> QED
      BY <3>3, <3>4
  <2> QED
    BY <2>5, <2>6
<1> QED
  BY <1>2, <1>3, <1>4 DEF Backup

\* No goroutine restores a catalog.
LEMMA GoroutineRestores ==
    ASSUME LastLive, RestoreReversible, NEW g \in Goroutines, Goroutine(g), Attached
    PROVE  LastLive' /\ RestoreReversible'
  BY DEF Goroutine, asides, LastLive, RestoreReversible

\* One more .pre-restore copy is the last one.
LEMMA AsideGrows ==
    ASSUME CsTypeOK, catalog \in Catalogs, catalog # "missing"
    PROVE  LET a == AsideCatalogFiles(catalog)
           IN  /\ a # <<>> /\ DOMAIN a = DOMAIN aside \cup {Len(aside) + 1}
               /\ a[Len(aside) + 1] = catalog /\ \A i \in DOMAIN aside : a[i] = aside[i]
<1>1. aside \in Seq(Catalogs \ {"missing"})
  BY DEF CsTypeOK
<1> QED
  BY <1>1, AppendProperties, LenProperties DEF AsideCatalogFiles

\* Start, stop, crash, damage and restore keep what the theorems need.
LEMMA ProcessStep ==
    ASSUME CsInv, CsTypeOK',
           \/ Start \/ StopCancels \/ StopReturns \/ CsCrash \/ DamageCatalog
           \/ RestoreAside \/ RestoreEnds \/ Done
    PROVE  CsInv'
<1> USE DEF CsInv, csCycleVars, latches
<1>0. /\ blind \in 0 .. Keep /\ blind' \in 0 .. Keep /\ Keep \in Nat
      /\ catalog \in Catalogs /\ process \in {"down", "up", "stopping", "restoring"}
  BY CompactionServiceAssumption DEF CsTypeOK
<1>1. CyclesExclusive' /\ DamageStopsCompaction'
  <2> USE DEF CyclesExclusive, DamageStopsCompaction, InCycle, CycleSteps
  <2>1. CASE Start
    BY <2>1 DEF Start
  <2>2. CASE StopCancels
    BY <2>2 DEF StopCancels
  <2>3. CASE StopReturns
    BY <2>3 DEF StopReturns, CloseMaintenanceDB, EndProcess
  <2>4. CASE CsCrash
    BY <2>4 DEF CsCrash, EndProcess
  <2>5. CASE DamageCatalog
    BY <2>5 DEF DamageCatalog
  <2>6. CASE RestoreAside
    BY <2>6 DEF RestoreAside
  <2>7. CASE RestoreEnds
    BY <2>7 DEF RestoreEnds, Attached
  <2>8. CASE Done
    BY <2>8 DEF Done, csVars
  <2> QED
    BY <2>1, <2>2, <2>3, <2>4, <2>5, <2>6, <2>7, <2>8
<1>2. Attached' /\ LastLive'
  <2> USE DEF Attached, LastLive
  <2>1. CASE Start
    BY <1>0, <2>1 DEF Start, Repaired, LiveAfter, Catalogs, asides
  <2>2. CASE StopCancels
    BY <2>2 DEF StopCancels, asides
  <2>3. CASE StopReturns
    BY <2>3 DEF StopReturns, CloseMaintenanceDB, asides
  <2>4. CASE CsCrash
    BY <2>4 DEF CsCrash, asides
  <2>5. CASE DamageCatalog
    BY <2>5 DEF DamageCatalog, asides
  <2>6. CASE RestoreAside
    <3>1. renamed' => aside' # <<>>
      BY <1>0, <2>6, AsideGrows DEF RestoreAside
    <3> QED
      BY <2>6, <3>1 DEF RestoreAside
  <2>7. CASE RestoreEnds
    BY <2>7 DEF RestoreEnds, LiveAfter
  <2>8. CASE Done
    BY <2>8 DEF Done, csVars, asides
  <2> QED
    BY <2>1, <2>2, <2>3, <2>4, <2>5, <2>6, <2>7, <2>8
<1>5. RestoreReversible'
  <2>0. aside \in Seq(Catalogs \ {"missing"})
    BY DEF CsTypeOK
  <2>1. CASE Start
    BY <2>1 DEF Start, Repaired, LiveAfter, LastLive, RestoreReversible, asides
  <2>2. CASE StopCancels \/ StopReturns \/ CsCrash \/ Done
    BY <2>2 DEF StopCancels, StopReturns, CsCrash, Done, csVars, RestoreReversible, asides
  <2>5. CASE DamageCatalog
    BY <2>5 DEF DamageCatalog, RestoreReversible
  <2>6. CASE RestoreAside
    <3>1. \E i \in DOMAIN aside' : aside'[i] = lastLive
      <4>1. CASE catalog = "missing"
        BY <2>6, <4>1 DEF RestoreAside, RestoreReversible
      <4>2. CASE catalog # "missing"
        <5>1. \E i \in DOMAIN aside \cup {Len(aside) + 1} : aside'[i] = lastLive
          BY <1>0, <2>6, <4>2, AsideGrows DEF RestoreAside, RestoreReversible, LastLive
        <5> QED
          BY <1>0, <2>6, <4>2, <5>1, AsideGrows DEF RestoreAside
      <4> QED
        BY <4>1, <4>2
    <3> QED
      BY <2>6, <3>1 DEF RestoreAside, RestoreReversible
  <2>7. CASE RestoreEnds
    <3>0. lastLive \notin {"missing", "empty"} /\ catalog = "missing"
      BY <2>7 DEF RestoreEnds, LastLive
    <3>1. PICK i \in DOMAIN aside : aside[i] = lastLive
      BY <3>0 DEF RestoreReversible
    <3>2. ASSUME catalog' \in {"missing", "empty"} PROVE lastLive' = lastLive
      BY <2>7, <3>2 DEF RestoreEnds, LiveAfter
    <3>3. CASE UNCHANGED aside
      BY <3>1, <3>2, <3>3 DEF RestoreReversible
    <3>4. CASE /\ aside # <<>>
               /\ catalog' = aside[Len(aside)]
               /\ aside' = SubSeq(aside, 1, Len(aside) - 1)
      <4>1. ASSUME catalog' \in {"missing", "empty"}
            PROVE  i \in DOMAIN aside' /\ aside'[i] = lastLive
        <5>1. i \in 1 .. Len(aside) /\ i # Len(aside)
          BY <2>0, <3>0, <3>1, <3>4, <4>1
        <5>2. i \in 1 .. Len(aside) - 1
          BY <2>0, <5>1
        <5> QED
          BY <2>0, <3>1, <3>4, <5>2
      <4> QED
        BY <3>2, <4>1 DEF RestoreReversible
    <3> QED
      BY <2>7, <3>3, <3>4, RestoreOutcomes
  <2> QED
    BY <2>1, <2>2, <2>5, <2>6, <2>7
<1>3. UNCHANGED backups
  BY DEF Start, StopCancels, StopReturns, CsCrash, DamageCatalog, RestoreAside, RestoreEnds, Done, csVars
\* Pending falls only with the process, and then blind counts it.
<1>4. Uncounted' >= Uncounted \/ Uncounted' >= Keep
  <2> USE DEF Uncounted, Pending
  <2>1. CASE Start
    BY <1>0, <2>1 DEF Start
  <2>2. CASE StopCancels
    BY <1>0, <2>2 DEF StopCancels
  <2>3. CASE StopReturns
    BY <1>0, <2>3 DEF StopReturns, CloseMaintenanceDB, Undetected
  <2>4. CASE CsCrash
    BY <1>0, <2>4 DEF CsCrash, Undetected
  <2>5. CASE DamageCatalog
    BY <1>0, <2>5 DEF DamageCatalog, Sound
  <2>6. CASE RestoreAside
    BY <1>0, <2>6 DEF RestoreAside
  <2>7. CASE RestoreEnds
    BY <1>0, <2>7 DEF RestoreEnds
  <2>8. CASE Done
    BY <1>0, <2>8 DEF Done, csVars
  <2> QED
    BY <2>1, <2>2, <2>3, <2>4, <2>5, <2>6, <2>7, <2>8
<1> QED
  BY <1>1, <1>2, <1>3, <1>4, <1>5, SoundStays

\* CsInv is an invariant of the service.
LEMMA InductiveCsInv == CsSpec => []CsInv
<1>1. ASSUME CsInv, [CsNext]_csVars PROVE CsInv'
  <2>1. ASSUME NEW g \in Goroutines, Goroutine(g) PROVE CsInv'
    <3>1. CsTypeOK'
      BY <1>1, <2>1, GoroutineType DEF CsInv
    <3> QED
      BY <1>1, <2>1, <3>1, GoroutineCycles, GoroutineBackups, GoroutineRestores DEF CsInv
  <2>2. CASE \/ Start \/ StopCancels \/ StopReturns \/ CsCrash \/ DamageCatalog
             \/ RestoreAside \/ RestoreEnds \/ Done
    <3>1. CsTypeOK'
      BY <1>1, <2>2, ProcessType DEF CsInv
    <3> QED
      BY <1>1, <2>2, <3>1, ProcessStep
  <2>3. CASE UNCHANGED csVars
    BY <1>1, <2>3 DEF CsInv, csVars, config, latches, csCycleVars, bounds, CsTypeOK, CyclesExclusive,
       DamageStopsCompaction, Attached, LastLive, RestoreReversible, asides, SoundBackup, Uncounted, Pending,
       KeptWithin, InCycle
  <2> QED
    BY <1>1, <2>1, <2>2, <2>3 DEF CsNext
<1> QED
  BY <1>1, InitInv, PTL DEF CsSpec

\* Type correctness of the compaction service's state (CompactionService in
\* writer/compaction.go, the files of storage/ducklake/backup.go).
THEOREM CsTypeCorrect == CsSpec => []CsTypeOK
<1>1. CsInv => CsTypeOK
  BY DEF CsInv
<1> QED
  BY <1>1, InductiveCsInv, PTL

\* beginCycle and the deferred endCycle (compaction.go) do exclude the startup
\* goroutine and the loop from each other, on every path out of a cycle, and
\* Stop joins both before the instance is closed.
THEOREM OneCycleAtATime == CsSpec => []CyclesExclusive
<1>1. CsInv => CyclesExclusive
  BY DEF CsInv
<1> QED
  BY <1>1, InductiveCsInv, PTL

\* After verifyCatalogIntegrity has set catalogCorrupt no goroutine is in a
\* cycle, and none enters one, until the process is restarted.
THEOREM LatchHolds == CsSpec => []DamageStopsCompaction
<1>1. CsInv => DamageStopsCompaction
  BY DEF CsInv
<1> QED
  BY <1>1, InductiveCsInv, PTL

\* The rotation of BackupSQLiteCatalog leaves a copy that holds the lake as long
\* as fewer than Keep - 1 cycles and processes have ended on a catalog that does
\* not, unnoticed, since such a copy was made.
THEOREM SoundBackupLeft == CsSpec => []GoodBackupKept
<1>1. ASSUME CsInv PROVE GoodBackupKept
  <2>1. CASE blind + 1 < Keep
    <3>1. blind \in Nat /\ Keep \in Nat /\ (Pending = 0 \/ Pending = 1)
      BY <1>1, CompactionServiceAssumption DEF CsInv, CsTypeOK, Pending
    <3>2. Uncounted \in Nat /\ ~(Keep <= Uncounted)
      BY <2>1, <3>1 DEF Uncounted
    <3>3. \E i \in 1 .. Len(backups) : backups[i] \in Sound
      BY <1>1, <3>2 DEF CsInv, SoundBackup, KeptWithin
    <3>4. DOMAIN backups = 1 .. Len(backups)
      BY <1>1 DEF CsInv, CsTypeOK
    <3> QED
      BY <3>3, <3>4 DEF GoodBackupKept
  <2> QED
    BY <2>1 DEF GoodBackupKept
<1> QED
  BY <1>1, InductiveCsInv, PTL

\* RestoreCatalog (storage/ducklake/backup.go) is reversible after any number of
\* restores: while the catalog is gone or is an empty one, the last catalog in
\* use is among the .pre-restore copies.
THEOREM RestoreUndoable == CsSpec => []RestoreReversible
<1>1. CsInv => RestoreReversible
  BY DEF CsInv
<1> QED
  BY <1>1, InductiveCsInv, PTL
-----------------------------------------------------------------------------
(* The partition mover.                                                    *)

CopyInv ==
    /\ pc \in {"copy", "register"} => files # {} /\ files \subseteq Src
    /\ pc = "retire" => files \subseteq Src /\ Dst = files

CountInv ==
    /\ pc = "countDst" /\ srcCount # 0 => Src # {}
    /\ pc = "discard" => Src # {}

\* Volumes further down never hold rows that a volume before them lacks,
\* unless the partition has left that volume.
Nested == \A v \in Volumes : \A w \in Volumes :
             v < w /\ part[v] # {} => part[w] \subseteq part[v]

Kept == \A r \in flushed : r \in expired \/ \E v \in Volumes : r \in part[v]

NestInv ==
    ~late => /\ Nested
             /\ Kept
             /\ pc \in {"copy", "register"} =>
                  \A w \in Volumes : w > pair => part[w] \subseteq files
             /\ pc = "countDst" /\ srcCount = Cardinality(Dst) =>
                  srcCount = Cardinality(Src)
             /\ pc = "delete" => Src \subseteq Dst

IInv == TypeOK /\ CopyIntoEmpty /\ CopyInv /\ CountInv /\ NestInv
-----------------------------------------------------------------------------
\* Row counts: a count is a number, it is 0 for no rows only, and a part of a
\* partition that has as many rows as the whole is the whole.
LEMMA Counting ==
    ASSUME NEW S \in SUBSET Rows
    PROVE  /\ Cardinality(S) \in Nat
           /\ Cardinality(S) = 0 <=> S = {}
           /\ \A T \in SUBSET S : Cardinality(S) = Cardinality(T) => S = T
<1>1. IsFiniteSet(S)
  BY FS_Subset, TierMoveAssumption
<1> QED
  BY <1>1, FS_Subset, FS_CardinalityType, FS_EmptySet

\* While a pair is being processed it has a source and a destination.
LEMMA PairHasDestination ==
    ASSUME TypeOK, pc # "expire"
    PROVE  /\ pair \in Sources /\ pair + 1 \in Volumes /\ pair + 1 # 1
           /\ Src \in SUBSET Rows /\ Dst \in SUBSET Rows
<1>1. pair \in 1..NumVolumes /\ pair # NumVolumes
  BY DEF TypeOK, Volumes
<1>2. pair \in Sources /\ pair + 1 \in Volumes /\ pair \in Volumes /\ pair + 1 # 1
  BY <1>1, TierMoveAssumption DEF Sources, Volumes
<1> QED
  BY <1>2 DEF TypeOK, Src, Dst

LEMMA InitIInv == Init => IInv
<1> SUFFICES ASSUME Init PROVE IInv
  OBVIOUS
<1>1. 1 \in Volumes /\ NumVolumes # 1
  BY TierMoveAssumption DEF Volumes
<1>2. TypeOK
  <2>1. part \in [Volumes -> SUBSET Rows] /\ late \in BOOLEAN
    BY DEF Init
  <2>2. pair \in Volumes /\ (pair = NumVolumes <=> pc = "expire")
    BY <1>1 DEF Init
  <2>3. faults \in 0..MaxFaults /\ srcCount \in Nat
    BY TierMoveAssumption DEF Init
  <2> QED
    BY <2>1, <2>2, <2>3 DEF Init, TypeOK, Labels, Plans
<1>3. NestInv
  BY DEF Init, NestInv, Nested, Kept
<1> QED
  BY <1>2, <1>3 DEF Init, IInv, CopyIntoEmpty, CopyInv, CountInv

\* What is left to show of a step that ends MovePartition.
LEMMA NextPassType ==
    ASSUME TypeOK, pc # "expire", NextPass
    PROVE  /\ pair' \in Volumes /\ pass' \in {"size", "age"} /\ pc' \in {"expire", "select"}
           /\ pair' = NumVolumes <=> pc' = "expire"
           /\ srcCount' \in Nat /\ plan' \in Plans /\ files' \subseteq Rows
<1>1. pair \in Volumes /\ pair + 1 \in Volumes /\ pass \in {"size", "age"} /\ pair # NumVolumes
  BY PairHasDestination DEF TypeOK
<1> QED
  BY <1>1 DEF NextPass, Forget, Plans

LEMMA TypeStep ==
    ASSUME TypeOK, [Next]_vars
    PROVE  TypeOK'
<1> USE DEF TypeOK, dateVars
<1>0. /\ 1 \in Volumes /\ NumVolumes # 1
      /\ \A S \in SUBSET Rows : Cardinality(S) \in Nat
  BY TierMoveAssumption, Counting DEF Volumes
<1>1. ASSUME NEW r \in Rows, Flush(r) PROVE TypeOK'
  BY <1>0, <1>1 DEF Flush, cycleVars
<1>2. ASSUME NEW v \in Volumes, Age(v) PROVE TypeOK'
  BY <1>2 DEF Age, cycleVars, obsVars
<1>19. CASE DayEnds
  BY <1>19 DEF DayEnds, cycleVars, obsVars
<1>3. CASE StartCycle
  BY <1>0, <1>3 DEF StartCycle, obsVars, Labels
<1>4. CASE SelectPartition
  BY <1>4 DEF SelectPartition, Goto, obsVars, Labels
<1>20. CASE SkipPartition
  BY <1>20, NextPassType DEF SkipPartition, obsVars, Labels
<1>5. CASE ExpirePartition
  BY <1>0, <1>5 DEF ExpirePartition, DeletePartition, Labels
<1>6. CASE CountSource
  <2>1. Cardinality(Src) \in Nat
    BY <1>0, <1>6, PairHasDestination DEF CountSource
  <2> QED
    BY <1>6, <2>1 DEF CountSource, Goto, obsVars, Labels
<1>7. CASE CountDestination
  <2> DEFINE p == PartitionMovePlan(srcCount, Cardinality(Dst))
  <2>1. CASE p = "none"
    BY <1>7, <2>1, NextPassType DEF CountDestination, obsVars, Labels
  <2>2. CASE p # "none"
    <3>1. p \in Plans
      BY DEF PartitionMovePlan, Plans
    <3>2. plan' = p /\ pair' = pair /\ pc' \in {"list", "insert", "delete", "discard"}
      BY <1>7, <2>2 DEF CountDestination, Goto, CopyStep
    <3> QED
      BY <1>7, <2>2, <3>1, <3>2 DEF CountDestination, Goto, obsVars, Labels
  <2> QED
    BY <2>1, <2>2
<1>8. CASE DiscardIncompleteDestination
  BY <1>8, PairHasDestination DEF DiscardIncompleteDestination, Goto, CopyStep, obsVars, Labels
<1>9. CASE ListFiles
  BY <1>9, PairHasDestination DEF ListFiles, Goto, obsVars, Labels
<1>10. CASE Fallback
  BY <1>10 DEF Fallback, Goto, obsVars, Labels
<1>11. CASE CopyFiles
  BY <1>11 DEF CopyFiles, Goto, obsVars, Labels
<1>12. CASE RegisterCopiedFiles
  <2>1. CASE NextPass /\ UNCHANGED part
    BY <1>12, <2>1, NextPassType DEF RegisterCopiedFiles, obsVars, Labels
  <2>2. CASE ~(NextPass /\ UNCHANGED part)
    BY <1>12, <2>2, PairHasDestination DEF RegisterCopiedFiles, Goto, obsVars, Labels
  <2> QED
    BY <2>1, <2>2
<1>13. CASE RetireSource
  BY <1>13, NextPassType DEF RetireSource, obsVars, Labels
<1>14. CASE InsertIntoDestination
  BY <1>14, PairHasDestination DEF InsertIntoDestination, Goto, obsVars, Labels
<1>15. CASE DeleteSource
  BY <1>15, NextPassType DEF DeleteSource, obsVars, Labels
<1>16. CASE FailMove
  BY <1>16, NextPassType, TierMoveAssumption DEF FailMove, obsVars, Labels
<1>17. CASE Crash
  BY <1>0, <1>17, TierMoveAssumption DEF Crash, Forget, obsVars, Labels, Plans
<1>18. CASE UNCHANGED vars
  BY <1>18 DEF vars, cycleVars, obsVars
<1> QED
  BY <1>1, <1>2, <1>3, <1>4, <1>5, <1>6, <1>7, <1>8, <1>9, <1>10, <1>11, <1>12,
     <1>13, <1>14, <1>15, <1>16, <1>17, <1>18, <1>19, <1>20 DEF Next, Cycle

\* TypeOK is an invariant; in particular the cycle never takes the last volume
\* for the source of a move.
THEOREM TypeCorrect == Spec => []TypeOK
<1>1. Init => TypeOK
  BY InitIInv DEF IInv
<1>2. TypeOK /\ [Next]_vars => TypeOK'
  BY TypeStep
<1> QED
  BY <1>1, <1>2, PTL DEF Spec
-----------------------------------------------------------------------------
(* Steps that leave the rows alone, and steps that end a move.              *)

Rest == CopyIntoEmpty /\ CopyInv /\ CountInv /\ NestInv

\* Nothing of a move is known at the beginning of one, so that only the rows
\* have to be accounted for.
LEMMA NoMoveRest ==
    ASSUME pc' \in {"idle", "select", "expire", "countSrc"},
           ~late' => Nested' /\ Kept'
    PROVE  Rest'
BY DEF Rest, CopyIntoEmpty, CopyInv, CountInv, NestInv

LEMMA SameRows ==
    ASSUME NestInv, UNCHANGED <<part, flushed, expired, late>>
    PROVE  ~late' => Nested' /\ Kept'
BY DEF NestInv, Nested, Kept

\* A flush into the hot partition.
LEMMA FlushStep ==
    ASSUME IInv, NEW r \in Rows, Flush(r)
    PROVE  Rest'
<1> USE DEF IInv
<1>1. /\ 1 \in Volumes /\ 2 \in Volumes
      /\ part' = [part EXCEPT ![1] = part[1] \cup {r}]
      /\ \A v \in Volumes : v # 1 => part'[v] = part[v]
      /\ part'[1] = part[1] \cup {r}
      /\ UNCHANGED <<pc, pair, srcCount, files, expired>>
      /\ flushed' = flushed \cup {r}
  BY TierMoveAssumption DEF Flush, cycleVars, TypeOK, Volumes
<1>2. pc # "expire" => /\ pair \in Volumes /\ pair + 1 \in Volumes
                       /\ Dst' = Dst /\ Src \subseteq Src'
  BY <1>1, PairHasDestination DEF Src, Dst, TypeOK
<1>3. CopyIntoEmpty' /\ CopyInv' /\ CountInv'
  BY <1>1, <1>2 DEF CopyIntoEmpty, CopyInv, CountInv
<1>4. ASSUME ~late' PROVE /\ ~late /\ Downstream \subseteq part[1]
                          /\ pair = 1 => pc # "delete"
                          /\ pair = 1 /\ pc = "countDst" => srcCount # Cardinality(part[2])
  BY <1>4 DEF Flush, TooLate, TypeOK
<1>5. ASSUME ~late' PROVE Nested' /\ Kept'
  <2>1. \A w \in Volumes : w # 1 => part[w] \subseteq part[1]
    BY <1>4, <1>5 DEF Downstream
  <2>2. Nested'
    <3> SUFFICES ASSUME NEW v \in Volumes, NEW w \in Volumes, v < w, part'[v] # {}
                 PROVE  part'[w] \subseteq part'[v]
      BY DEF Nested
    <3>1. w # 1
      BY DEF Volumes
    <3> QED
      BY <1>1, <1>4, <1>5, <2>1, <3>1 DEF NestInv, Nested
  <2>3. Kept'
    BY <1>1, <1>4, <1>5 DEF NestInv, Kept
  <2> QED
    BY <2>2, <2>3
<1>6. ASSUME ~late', pc \in {"copy", "register"}, NEW w \in Volumes, w > pair
      PROVE  part'[w] \subseteq files
  <2>1. w # 1
    BY <1>6 DEF TypeOK, Volumes
  <2> QED
    BY <1>1, <1>4, <1>6, <2>1 DEF NestInv
<1>7. ASSUME ~late', pc = "countDst", srcCount = Cardinality(Dst)
      PROVE  Src' = Src
  <2>1. pair # 1
    BY <1>4, <1>7 DEF Dst
  <2> QED
    BY <1>1, <1>2, <1>7, <2>1 DEF Src
<1>8. ASSUME ~late', pc = "delete" PROVE Src' = Src
  BY <1>1, <1>2, <1>4, <1>8 DEF Src
<1>9. NestInv'
  BY <1>1, <1>2, <1>4, <1>5, <1>6, <1>7, <1>8 DEF NestInv
<1> QED
  BY <1>3, <1>9 DEF Rest

\* The counts and the plan: when the counts are equal, so are the rows.
LEMMA CountStep ==
    ASSUME IInv, CountDestination
    PROVE  Rest'
<1> USE DEF IInv
<1> DEFINE p == PartitionMovePlan(srcCount, Cardinality(Dst))
<1>1. /\ Src \in SUBSET Rows /\ Dst \in SUBSET Rows
      /\ pair \in Volumes /\ pair + 1 \in Volumes /\ pair < pair + 1
  BY PairHasDestination DEF CountDestination, Sources, TypeOK, Volumes
<1>2. /\ pc = "countDst"
      /\ UNCHANGED <<part, flushed, expired, late>>
  BY DEF CountDestination, obsVars
<1>3. CASE p = "none"
  <2>1. pc' \in {"select", "expire"}
    BY <1>3 DEF CountDestination, NextPass
  <2> QED
    BY <1>2, <2>1, SameRows, NoMoveRest
<1>4. CASE p # "none"
  <2>1. UNCHANGED <<pair, srcCount, files>>
    BY <1>4 DEF CountDestination, Goto
  <2>2. Src' = Src /\ Dst' = Dst
    BY <1>2, <2>1 DEF Src, Dst
  <2>3. srcCount # 0
    BY <1>4 DEF PartitionMovePlan
  <2>4. CASE p = "copy"
    <3>1. Dst = {}
      BY <1>1, <2>4, Counting DEF PartitionMovePlan
    <3>2. pc' \in {"list", "insert"}
      BY <2>4 DEF CountDestination, Goto, CopyStep
    <3> QED
      BY <1>2, <2>2, <3>1, <3>2, SameRows
      DEF Rest, CopyIntoEmpty, CopyInv, CountInv, NestInv
  <2>5. CASE p = "deleteSourceOnly"
    <3>1. pc' = "delete"
      BY <2>5 DEF CountDestination, Goto
    <3>2. srcCount = Cardinality(Dst)
      BY <2>5 DEF PartitionMovePlan
    <3>3. ASSUME ~late PROVE Src = Dst
      <4>1. Cardinality(Src) = Cardinality(Dst) /\ Src # {}
        BY <1>2, <2>3, <3>2, <3>3 DEF NestInv, CountInv
      <4>2. Dst \subseteq Src
        BY <1>1, <3>3, <4>1 DEF NestInv, Nested, Src, Dst
      <4> QED
        BY <1>1, <4>1, <4>2, Counting
    <3> QED
      BY <1>2, <2>2, <3>1, <3>3, SameRows
      DEF Rest, CopyIntoEmpty, CopyInv, CountInv, NestInv
  <2>6. CASE p = "replaceDest"
    <3>1. pc' = "discard"
      BY <2>6 DEF CountDestination, Goto
    <3> QED
      BY <1>2, <2>2, <2>3, <3>1, SameRows
      DEF Rest, CopyIntoEmpty, CopyInv, CountInv, NestInv
  <2>7. p \in Plans
    BY DEF PartitionMovePlan, Plans
  <2> QED
    BY <1>4, <2>4, <2>5, <2>6, <2>7 DEF Plans
<1> QED
  BY <1>3, <1>4
-----------------------------------------------------------------------------
(* Steps that write to the destination.                                     *)

\* A new content D of the destination, when the volumes before it have all of
\* D, D has what the volumes behind it hold (or is empty), and the rows it
\* replaces are in the source.
LEMMA WriteDestination ==
    ASSUME IInv, pc # "expire", ~late, NEW D \in SUBSET Rows,
           Dst \subseteq Src, D \subseteq Src,
           D # {} => \A w \in Volumes : w > pair + 1 => part[w] \subseteq D,
           part' = [part EXCEPT ![pair + 1] = D],
           UNCHANGED <<flushed, expired>>
    PROVE  Nested' /\ Kept'
<1> USE DEF IInv
<1>1. /\ pair \in Volumes /\ pair + 1 \in Volumes /\ pair # pair + 1
      /\ Src \in SUBSET Rows
  BY PairHasDestination DEF Sources, TypeOK, Volumes
<1>2. /\ part'[pair + 1] = D
      /\ \A v \in Volumes : v # pair + 1 => part'[v] = part[v]
  BY <1>1 DEF TypeOK
<1>3. Nested'
  <2> SUFFICES ASSUME NEW v \in Volumes, NEW w \in Volumes, v < w, part'[v] # {}
               PROVE  part'[w] \subseteq part'[v]
    BY DEF Nested
  <2>1. CASE w = pair + 1
    <3>1. v = pair \/ v < pair
      BY <1>1, <2>1 DEF Volumes
    <3>2. v < pair => part[v] # {} /\ Src \subseteq part[v]
      BY <1>1, <1>2, <2>1 DEF NestInv, Nested, Src
    <3> QED
      BY <1>1, <1>2, <2>1, <3>1, <3>2 DEF Src
  <2>2. CASE v = pair + 1
    BY <1>2, <2>2
  <2>3. CASE w # pair + 1 /\ v # pair + 1
    BY <1>2, <2>3 DEF NestInv, Nested
  <2> QED
    BY <2>1, <2>2, <2>3
<1>4. Kept'
  <2> SUFFICES ASSUME NEW r \in flushed, r \notin expired
               PROVE  \E v \in Volumes : r \in part'[v]
    BY DEF Kept
  <2>1. PICK v \in Volumes : r \in part[v]
    BY DEF NestInv, Kept
  <2> QED
    BY <1>1, <1>2, <2>1 DEF Src, Dst
<1> QED
  BY <1>3, <1>4

LEMMA DiscardStep ==
    ASSUME IInv, DiscardIncompleteDestination
    PROVE  Rest'
<1> USE DEF IInv
<1>1. /\ pair \in Volumes /\ pair + 1 \in Volumes /\ pair < pair + 1
      /\ pc = "discard" /\ pc' \in {"list", "insert"}
      /\ part' = [part EXCEPT ![pair + 1] = {}]
      /\ UNCHANGED <<pair, flushed, expired, late>>
  BY PairHasDestination
  DEF DiscardIncompleteDestination, Goto, CopyStep, obsVars, Sources, TypeOK, Volumes
<1>2. Dst' = {}
  BY <1>1 DEF Dst, TypeOK
<1>3. ASSUME ~late PROVE Dst \subseteq Src
  BY <1>1, <1>3 DEF CountInv, NestInv, Nested, Src, Dst
<1>4. ASSUME ~late' PROVE Nested' /\ Kept'
  <2> DEFINE D == {}
  <2>1. /\ D \in SUBSET Rows /\ D \subseteq Src
        /\ part' = [part EXCEPT ![pair + 1] = D]
    BY <1>1
  <2>2. D # {} => \A w \in Volumes : w > pair + 1 => part[w] \subseteq D
    OBVIOUS
  <2>3. ~late /\ Dst \subseteq Src /\ pc # "expire" /\ UNCHANGED <<flushed, expired>>
    BY <1>1, <1>3, <1>4
  <2> HIDE DEF D
  <2> QED
    BY <2>1, <2>2, <2>3, WriteDestination
<1> QED
  BY <1>1, <1>2, <1>4 DEF Rest, CopyIntoEmpty, CopyInv, CountInv, NestInv

LEMMA ListStep ==
    ASSUME IInv, ListFiles
    PROVE  Rest'
<1> USE DEF IInv
<1>1. /\ pair \in Volumes /\ pc = "list" /\ pc' = "copy"
      /\ files' = Src /\ Src # {}
      /\ UNCHANGED <<part, pair, flushed, expired, late>>
  BY DEF ListFiles, Goto, obsVars, TypeOK
<1>2. Src' = Src /\ Dst' = Dst
  BY <1>1 DEF Src, Dst
<1>3. ASSUME ~late, NEW w \in Volumes, w > pair PROVE part'[w] \subseteq files'
  <2>1. pair < w
    BY <1>1, <1>3 DEF Volumes
  <2> QED
    BY <1>1, <1>3, <2>1 DEF NestInv, Nested, Src
<1>4. CopyIntoEmpty' /\ CopyInv' /\ CountInv'
  BY <1>1, <1>2 DEF CopyIntoEmpty, CopyInv, CountInv
<1>5. NestInv'
  BY <1>1, <1>3, SameRows DEF NestInv
<1> QED
  BY <1>4, <1>5 DEF Rest

LEMMA RegisterStep ==
    ASSUME IInv, RegisterCopiedFiles
    PROVE  Rest'
<1> USE DEF IInv
<1>1. /\ pair \in Volumes /\ pair + 1 \in Volumes /\ pair # pair + 1
      /\ pc = "register" /\ Dst = {}
      /\ files # {} /\ files \subseteq Src /\ files \in SUBSET Rows
  BY PairHasDestination
  DEF RegisterCopiedFiles, CopyIntoEmpty, CopyInv, Sources, TypeOK, Volumes
<1>2. /\ part' = [part EXCEPT ![pair + 1] = files]
      /\ pc' = "retire"
      /\ UNCHANGED <<pair, files, flushed, expired, late>>
  BY <1>1 DEF RegisterCopiedFiles, Goto, obsVars, Dst
<1>3. Src' = Src /\ Dst' = files
  BY <1>1, <1>2 DEF Src, Dst, TypeOK
<1>4. ASSUME ~late, NEW w \in Volumes, w > pair + 1 PROVE part[w] \subseteq files
  <2>1. w > pair
    BY <1>1, <1>4 DEF Volumes
  <2> QED
    BY <1>1, <1>4, <2>1 DEF NestInv
<1>5. ~late' => Nested' /\ Kept'
  BY <1>1, <1>2, <1>4, WriteDestination
<1> QED
  BY <1>1, <1>2, <1>3, <1>5 DEF Rest, CopyIntoEmpty, CopyInv, CountInv, NestInv

LEMMA InsertStep ==
    ASSUME IInv, InsertIntoDestination
    PROVE  Rest'
<1> USE DEF IInv
<1>1. /\ pair \in Volumes /\ pair + 1 \in Volumes /\ pair # pair + 1
      /\ pc = "insert" /\ Dst = {} /\ Src \in SUBSET Rows
  BY PairHasDestination DEF InsertIntoDestination, CopyIntoEmpty, Sources, TypeOK, Volumes
<1>2. /\ part' = [part EXCEPT ![pair + 1] = Src]
      /\ pc' = "delete"
      /\ UNCHANGED <<pair, flushed, expired, late>>
  <2>1. part[pair + 1] \cup Src = Src
    BY <1>1 DEF Dst
  <2> QED
    BY <2>1 DEF InsertIntoDestination, Goto, obsVars
<1>3. Src' = Src /\ Dst' = Src
  BY <1>1, <1>2 DEF Src, Dst, TypeOK
<1>4. ASSUME ~late, Src # {}, NEW w \in Volumes, w > pair + 1 PROVE part[w] \subseteq Src
  <2>1. pair < w
    BY <1>1, <1>4 DEF Volumes
  <2> QED
    BY <1>1, <1>4, <2>1 DEF NestInv, Nested, Src
<1>5. ~late' => Nested' /\ Kept'
  BY <1>1, <1>2, <1>4, WriteDestination
<1> QED
  BY <1>1, <1>2, <1>3, <1>5 DEF Rest, CopyIntoEmpty, CopyInv, CountInv, NestInv
-----------------------------------------------------------------------------
(* Steps that empty the source.                                             *)

\* A source whose rows are all on the destination may go.
LEMMA EmptySource ==
    ASSUME IInv, pc # "expire", ~late, Src \subseteq Dst,
           part' = [part EXCEPT ![pair] = {}],
           UNCHANGED <<flushed, expired>>
    PROVE  Nested' /\ Kept'
<1> USE DEF IInv
<1>1. pair \in Volumes /\ pair + 1 \in Volumes /\ pair # pair + 1
  BY PairHasDestination DEF Sources, TypeOK, Volumes
<1>2. /\ part'[pair] = {}
      /\ \A v \in Volumes : v # pair => part'[v] = part[v]
  BY <1>1 DEF TypeOK
<1>3. Nested'
  BY <1>1, <1>2 DEF NestInv, Nested
<1>4. Kept'
  <2> SUFFICES ASSUME NEW r \in flushed, r \notin expired
               PROVE  \E v \in Volumes : r \in part'[v]
    BY DEF Kept
  <2>1. PICK v \in Volumes : r \in part[v]
    BY DEF NestInv, Kept
  <2> QED
    BY <1>1, <1>2, <2>1 DEF Src, Dst
<1> QED
  BY <1>3, <1>4

\* At the native mover's DELETE the row count is unchanged only if no row has
\* been added since the files were listed.
LEMMA RetireCopied ==
    ASSUME IInv, pc = "retire", Cardinality(Src) = Cardinality(files)
    PROVE  Src = files /\ Dst = files
<1>1. Src \in SUBSET Rows /\ files \in SUBSET Src /\ Dst = files
  BY PairHasDestination DEF IInv, CopyInv
<1> QED
  BY <1>1, Counting

LEMMA RetireStep ==
    ASSUME IInv, RetireSource
    PROVE  Rest'
<1> USE DEF IInv
<1>1. /\ pair \in Volumes /\ pc = "retire" /\ pc' \in {"select", "expire"}
      /\ UNCHANGED <<flushed, expired, late>>
  BY DEF RetireSource, NextPass, obsVars, TypeOK
<1>2. CASE Cardinality(Src) = Cardinality(files)
  <2>1. part' = [part EXCEPT ![pair] = {}]
    BY <1>2 DEF RetireSource, Src
  <2>2. ~late' => Nested' /\ Kept'
    BY <1>1, <1>2, <2>1, RetireCopied, EmptySource
  <2> QED
    BY <1>1, <2>2, NoMoveRest
<1>3. CASE Cardinality(Src) # Cardinality(files)
  <2>1. part' = [part EXCEPT ![pair] = part[pair]]
    BY <1>3 DEF RetireSource, Src
  <2>2. part' = part
    BY <1>1, <2>1 DEF TypeOK
  <2> QED
    BY <1>1, <2>2, SameRows, NoMoveRest
<1> QED
  BY <1>2, <1>3

LEMMA DeleteStep ==
    ASSUME IInv, DeleteSource
    PROVE  Rest'
<1>1. /\ pc = "delete" /\ pc' \in {"select", "expire"}
      /\ part' = [part EXCEPT ![pair] = {}]
      /\ UNCHANGED <<flushed, expired, late>>
  BY DEF DeleteSource, NextPass, obsVars
<1>2. ~late => Src \subseteq Dst
  BY <1>1 DEF IInv, NestInv
<1>3. ~late' => Nested' /\ Kept'
  BY <1>1, <1>2, EmptySource
<1> QED
  BY <1>1, <1>3, NoMoveRest

LEMMA ExpireStep ==
    ASSUME IInv, ExpirePartition
    PROVE  Rest'
<1> USE DEF IInv
<1>1. pc' = "idle" /\ UNCHANGED <<flushed, late>> /\ NumVolumes \in Volumes
  BY TierMoveAssumption DEF ExpirePartition, Volumes
<1>2. CASE NumVolumes \in aged
  <2>1. /\ part'[NumVolumes] = {}
        /\ \A v \in Volumes : v # NumVolumes => part'[v] = part[v]
        /\ expired' = expired \cup part[NumVolumes]
    BY <1>1, <1>2 DEF ExpirePartition, DeletePartition, TypeOK
  <2>2. ASSUME ~late' PROVE Nested'
    BY <1>1, <2>1, <2>2 DEF NestInv, Nested
  <2>3. ASSUME ~late' PROVE Kept'
    BY <1>1, <2>1, <2>3 DEF NestInv, Kept
  <2> QED
    BY <1>1, <2>2, <2>3, NoMoveRest
<1>3. CASE NumVolumes \notin aged
  BY <1>1, <1>3, SameRows, NoMoveRest DEF ExpirePartition
<1> QED
  BY <1>2, <1>3
-----------------------------------------------------------------------------
(* The theorems.                                                            *)

LEMMA IInvStep ==
    ASSUME IInv, [Next]_vars
    PROVE  IInv'
<1>0. TypeOK'
  BY TypeStep DEF IInv
<1> SUFFICES Rest'
  BY <1>0 DEF IInv, Rest
<1> USE DEF IInv
<1>1. ASSUME NEW r \in Rows, Flush(r) PROVE Rest'
  BY <1>1, FlushStep
<1>2. ASSUME UNCHANGED <<part, cycleVars, obsVars>> PROVE Rest'
  <2>1. Src' = Src /\ Dst' = Dst /\ UNCHANGED <<pc, pair, srcCount, files, part>>
    BY <1>2 DEF cycleVars, Src, Dst
  <2>2. CopyIntoEmpty' /\ CopyInv' /\ CountInv'
    BY <2>1 DEF CopyIntoEmpty, CopyInv, CountInv
  <2>3. NestInv'
    BY <1>2, <2>1 DEF NestInv, Nested, Kept, obsVars
  <2> QED
    BY <2>2, <2>3 DEF Rest
<1>3. CASE StartCycle
  BY <1>3, SameRows, NoMoveRest DEF StartCycle, obsVars
<1>4. CASE SelectPartition
  BY <1>4, SameRows, NoMoveRest DEF SelectPartition, Goto, obsVars
<1>20. CASE SkipPartition
  <2>1. pc' \in {"select", "expire"} /\ UNCHANGED <<part, flushed, expired, late>>
    BY <1>20 DEF SkipPartition, NextPass, obsVars
  <2> QED
    BY <2>1, SameRows, NoMoveRest
<1>5. CASE ExpirePartition
  BY <1>5, ExpireStep
<1>6. CASE CountSource
  <2>1. /\ pc = "countSrc" /\ pc' = "countDst" /\ srcCount' = Cardinality(Src)
        /\ Src' = Src /\ Dst' = Dst /\ Src \in SUBSET Rows
        /\ UNCHANGED <<part, flushed, expired, late>>
    BY <1>6, PairHasDestination DEF CountSource, Goto, obsVars, Src, Dst
  <2>2. srcCount' # 0 => Src' # {}
    BY <2>1, Counting
  <2> QED
    BY <2>1, <2>2, SameRows DEF Rest, CopyIntoEmpty, CopyInv, CountInv, NestInv
<1>7. CASE CountDestination
  BY <1>7, CountStep
<1>8. CASE DiscardIncompleteDestination
  BY <1>8, DiscardStep
<1>9. CASE ListFiles
  BY <1>9, ListStep
<1>10. CASE Fallback
  <2>1. /\ pc \in {"list", "register"} /\ pc' = "insert"
        /\ Src' = Src /\ Dst' = Dst
        /\ UNCHANGED <<part, flushed, expired, late>>
    BY <1>10 DEF Fallback, Goto, obsVars, Src, Dst
  <2> QED
    BY <2>1, SameRows DEF Rest, CopyIntoEmpty, CopyInv, CountInv, NestInv
<1>11. CASE CopyFiles
  <2>1. /\ pc = "copy" /\ pc' = "register"
        /\ Src' = Src /\ Dst' = Dst
        /\ UNCHANGED <<part, files, pair, flushed, expired, late>>
    BY <1>11 DEF CopyFiles, Goto, obsVars, Src, Dst
  <2>2. CopyIntoEmpty' /\ CopyInv' /\ CountInv'
    BY <2>1 DEF CopyIntoEmpty, CopyInv, CountInv
  <2>3. NestInv'
    BY <2>1, SameRows DEF NestInv
  <2> QED
    BY <2>2, <2>3 DEF Rest
<1>12. CASE RegisterCopiedFiles
  BY <1>12, RegisterStep
<1>13. CASE RetireSource
  BY <1>13, RetireStep
<1>14. CASE InsertIntoDestination
  BY <1>14, InsertStep
<1>15. CASE DeleteSource
  BY <1>15, DeleteStep
<1>16. CASE FailMove
  <2>1. pc' \in {"select", "expire"} /\ UNCHANGED <<part, flushed, expired, late>>
    BY <1>16 DEF FailMove, NextPass, obsVars
  <2> QED
    BY <2>1, SameRows, NoMoveRest
<1>17. CASE Crash
  BY <1>17, SameRows, NoMoveRest DEF Crash, obsVars
<1>18. ASSUME NEW v \in Volumes, Age(v) PROVE Rest'
  BY <1>2, <1>18 DEF Age
<1>19. CASE UNCHANGED vars \/ DayEnds
  BY <1>2, <1>19 DEF vars, DayEnds
<1> QED
  BY <1>1, <1>3, <1>4, <1>5, <1>6, <1>7, <1>8, <1>9, <1>10, <1>11, <1>12,
     <1>13, <1>14, <1>15, <1>16, <1>17, <1>18, <1>19, <1>20 DEF Next, Cycle

LEMMA Invariance == Spec => []IInv
<1>1. IInv /\ [Next]_vars => IInv'
  BY IInvStep
<1> QED
  BY <1>1, InitIInv, PTL DEF Spec

\* No flushed row is missing from the volumes, whatever fails or crashes and
\* however many volumes there are, unless a flush came too late.
THEOREM LossNeedsLateFlushHolds == Spec => []LossNeedsLateFlush
<1>1. IInv => LossNeedsLateFlush
  <2> SUFFICES ASSUME IInv, ~late, NEW r \in flushed, r \notin expired
               PROVE  r \in UNION {part[v] : v \in Volumes}
    BY DEF LossNeedsLateFlush
  <2>1. PICK v \in Volumes : r \in part[v]
    BY DEF IInv, NestInv, Kept
  <2> QED
    BY <2>1
<1> QED
  BY <1>1, Invariance, PTL

\* A copy is only ever made to a destination that holds nothing of the
\* partition, so that no volume gets a row twice.
THEOREM CopyIntoEmptyHolds == Spec => []CopyIntoEmpty
<1>1. IInv => CopyIntoEmpty
  BY DEF IInv
<1> QED
  BY <1>1, Invariance, PTL

\* The native mover's DELETE takes no row the destination does not have, with
\* flushes at any time.
THEOREM NativeRetiresCopiedHolds == Spec => NativeRetiresCopied
<1>1. ASSUME IInv, [Next]_vars, pc = "retire", NEW v \in Sources
      PROVE  part[v] \ part'[v] \subseteq part[v + 1]
  <2>1. v \in Volumes /\ pair \in Volumes /\ 1 \in Volumes
    BY <1>1, TierMoveAssumption DEF Sources, Volumes, IInv, TypeOK
  <2>2. ASSUME NEW r \in Rows, Flush(r) PROVE part[v] \subseteq part'[v]
    BY <1>1, <2>1, <2>2 DEF Flush, IInv, TypeOK
  <2>3. CASE RetireSource
    <3>1. CASE v # pair
      BY <1>1, <2>1, <2>3, <3>1 DEF RetireSource, IInv, TypeOK
    <3>2. CASE v = pair /\ Cardinality(Src) = Cardinality(files)
      BY <1>1, <3>2, RetireCopied DEF Src, Dst
    <3>3. CASE v = pair /\ Cardinality(Src) # Cardinality(files)
      BY <1>1, <2>1, <2>3, <3>3 DEF RetireSource, Src, IInv, TypeOK
    <3> QED
      BY <3>1, <3>2, <3>3
  <2>4. CASE UNCHANGED part
    BY <2>4
  <2>5. \/ \E r \in Rows : Flush(r)
        \/ RetireSource
        \/ UNCHANGED part
    BY <1>1 DEF Next, Cycle, Age, DayEnds, StartCycle, SelectPartition, SkipPartition, ExpirePartition,
       CountSource, CountDestination, DiscardIncompleteDestination, ListFiles, Fallback,
       CopyFiles, RegisterCopiedFiles, InsertIntoDestination, DeleteSource, FailMove,
       Crash, vars
  <2> QED
    BY <2>2, <2>3, <2>4, <2>5
<1>2. IInv /\ [Next]_vars =>
        [pc = "retire" => \A v \in Sources : part[v] \ part'[v] \subseteq part[v + 1]]_vars
  BY <1>1
<1> QED
  BY <1>2, Invariance, PTL DEF Spec, NativeRetiresCopied
-----------------------------------------------------------------------------
(* The shutdown.                                                           *)

\* The steps of Stop from one module on.
WriterOn == {"writer", "done"}
DrainOn == {"drain", "drainWait"} \cup WriterOn
HttpOn == {"http", "httpWait"} \cup DrainOn
OtlpOn == {"otlp", "grpcWait"} \cup HttpOn
LpOn == {"lp", "lpWait"} \cup OtlpOn

OrderInv ==
    /\ sdProcess \in {"starting", "running", "reloading"} => step = "siprec"
    /\ sdProcess = "exit0" => step = "done"
    /\ db = "closed" <=> step = "done"
    /\ step \in {"vqWait"} \cup LpOn => vqClosed
    /\ step \in {"drain", "drainWait"} => async
    /\ step \in {"drainWait"} \cup WriterOn /\ async => otlpClosed

ListenInv ==
    /\ step \in {"lpWait"} \cup OtlpOn => "lp" \notin listening
    /\ step \in {"grpcWait"} \cup HttpOn => "grpc" \notin listening
    /\ step \in {"httpWait"} \cup DrainOn => "http" \notin listening

Queueing == IF async THEN {"vq"} \cup Otlp ELSE {"vq"}

PlaceInv ==
    \A r \in Requests :
        /\ place[r] = "queued" => kind[r] \in Queueing
        /\ place[r] = "writing" => kind[r] \in {"siprec"} \cup Queueing

JoinInv ==
    \A r \in Requests :
        /\ step \in LpOn /\ kind[r] = "vq" => place[r] \notin {"queued", "writing"}
        /\ step \in OtlpOn /\ kind[r] = "lp" /\ place[r] \in {"reading", "pushing"} => "lp" \in closed
        /\ step \in HttpOn /\ kind[r] = "grpc" => place[r] \notin {"reading", "pushing"}
        /\ step \in DrainOn /\ kind[r] = "http" /\ place[r] \in {"reading", "pushing"} => "http" \in closed
        /\ step \in WriterOn /\ kind[r] \in Otlp => place[r] \notin {"queued", "writing"}

AckInv ==
    \A r \in acked :
        kind[r] \in Otlp \cup {"lp"} =>
            \/ place[r] = "lake"
            \/ async /\ kind[r] \in Otlp /\ place[r] \in {"queued", "writing", "error"}

SdInv ==
    SdTypeOK /\ OrderInv /\ ListenInv /\ PlaceInv /\ JoinInv /\ AckInv /\ LateUseIsUnjoined
-----------------------------------------------------------------------------
\* The order in which ModuleManager.Stop visits the modules.
LEMMA StopOrder ==
    /\ ModuleAfter("siprec") = "vqrtcp" /\ ModuleAfter("vqrtcp") = "lp"
    /\ ModuleAfter("lp") = "otlp" /\ ModuleAfter("otlp") = "writer"
    /\ ModuleAfter("writer") = "done"
    /\ FirstModule = "siprec"
<1>0. /\ Len(Modules) = 5
      /\ Modules[1] = "writer" /\ Modules[2] = "otlp" /\ Modules[3] = "lp"
      /\ Modules[4] = "vqrtcp" /\ Modules[5] = "siprec"
  BY DEF Modules
<1>1. 1 .. Len(Modules) = {1, 2, 3, 4, 5}
  BY <1>0
<1>2. /\ (CHOOSE j \in 1 .. Len(Modules) : Modules[j] = "siprec") = 5
      /\ (CHOOSE j \in 1 .. Len(Modules) : Modules[j] = "vqrtcp") = 4
      /\ (CHOOSE j \in 1 .. Len(Modules) : Modules[j] = "lp") = 3
      /\ (CHOOSE j \in 1 .. Len(Modules) : Modules[j] = "otlp") = 2
      /\ (CHOOSE j \in 1 .. Len(Modules) : Modules[j] = "writer") = 1
  BY <1>0, <1>1
<1>3. /\ ModuleAfter("siprec") = "vqrtcp" /\ ModuleAfter("vqrtcp") = "lp"
      /\ ModuleAfter("lp") = "otlp" /\ ModuleAfter("otlp") = "writer"
      /\ ModuleAfter("writer") = "done"
  BY <1>0, <1>2 DEF ModuleAfter
<1>4. {Modules[i] : i \in 1 .. Len(Modules)} = {"writer", "otlp", "lp", "vqrtcp", "siprec"}
  BY <1>0, <1>1
<1>5. FirstModule = "siprec"
  <2> DEFINE S == {Modules[i] : i \in 1 .. Len(Modules)}
             First(m) == \A n \in S : ModuleAfter(n) # m
  <2>1. "siprec" \in S /\ First("siprec") /\ \A m \in S : First(m) => m = "siprec"
    BY <1>3, <1>4
  <2>2. FirstModule = CHOOSE m \in S : First(m)
    BY DEF FirstModule
  <2> HIDE DEF First, S
  <2> QED
    BY <2>1, <2>2
<1> QED
  BY <1>3, <1>5

LEMMA SdInitInv == SdInit => SdInv
<1> SUFFICES ASSUME SdInit PROVE SdInv
  OBVIOUS
<1>1. SdTypeOK
  <2>1. place \in [Requests -> SdPlaces] /\ started \in 0 .. Len(Modules)
    BY DEF SdInit, SdPlaces, Modules
  <2>2. elapsed \in 0 .. defaultShutdownTimeout /\ since \in 0 .. elapsed
    BY DEF SdInit, defaultShutdownTimeout
  <2> QED
    BY <2>1, <2>2 DEF SdInit, SdTypeOK, StopSteps
<1>2. OrderInv /\ ListenInv
  BY DEF SdInit, OrderInv, ListenInv, LpOn, OtlpOn, HttpOn, DrainOn, WriterOn
<1>3. PlaceInv /\ JoinInv /\ AckInv /\ LateUseIsUnjoined
  BY DEF SdInit, PlaceInv, JoinInv, AckInv, LateUseIsUnjoined
<1> QED
  BY <1>1, <1>2, <1>3 DEF SdInv

LEMMA SdTypeStep ==
    ASSUME SdTypeOK, [SdNext]_sdVars
    PROVE  SdTypeOK'
<1> USE DEF SdTypeOK, mainVars, requestVars, dbVars
<1>0. Len(Modules) = 5
  BY DEF Modules
<1>1. CASE ManagerStart
  <2>1. started' \in 0 .. Len(Modules) /\ sdProcess' \in {"starting", "running"}
    BY <1>0, <1>1 DEF ManagerStart
  <2>2. listening' \subseteq Kinds /\ db' \in {"none", "open", "closed"} /\ broken' \in BOOLEAN
    <3>1. \/ Modules[started + 1] = "writer" \/ Modules[started + 1] = "otlp" \/ Modules[started + 1] = "lp"
          \/ Modules[started + 1] = "vqrtcp" \/ Modules[started + 1] = "siprec"
      BY <1>0, <1>1 DEF ManagerStart, Modules
    <3> QED
      BY <1>1, <3>1 DEF ManagerStart, StartWriter, StartOtlp, StartLp, StartVqrtcp, StartSiprec, StartSip,
         Kinds, Otlp
  <2> QED
    BY <1>1, <2>1, <2>2 DEF ManagerStart
<1>2. CASE ManagerStartFails
  BY <1>2 DEF ManagerStartFails
<1>3. CASE Reload
  BY <1>3 DEF Reload
<1>4. CASE BeginStop
  BY <1>4, StopOrder DEF BeginStop, StopSteps
<1>5. CASE Tick
  BY <1>5 DEF Tick, defaultShutdownTimeout
<1>6. CASE ExitStopped
  BY <1>6 DEF ExitStopped
<1>7. CASE ExitTimeout
  BY <1>7 DEF ExitTimeout
<1>8. CASE SdStop
  <2>1. step' \in StopSteps /\ since' = 0 /\ UNCHANGED <<sdProcess, sigCh, started, code, elapsed>>
    BY <1>8, StopOrder DEF SdStop, StopSiprec, StopVqrtcp, StopLp, StopGrpc, StopHttp, Drain, StopWriter,
       HttpShutdown, Step, StopSteps
  <2>2. listening' \subseteq Kinds /\ closed' \subseteq {"http", "lp"}
    BY <1>8 DEF SdStop, StopSiprec, StopVqrtcp, StopLp, StopGrpc, StopHttp, Drain, StopWriter, HttpShutdown
  <2>3. otlpClosed' \in BOOLEAN /\ vqClosed' \in BOOLEAN /\ db' \in {"none", "open", "closed"}
    BY <1>8 DEF SdStop, StopSiprec, StopVqrtcp, StopLp, StopGrpc, StopHttp, Drain, StopWriter, HttpShutdown
  <2>4. UNCHANGED <<kind, place, async, acked, broken>>
    BY <1>8 DEF SdStop, StopSiprec, StopVqrtcp, StopLp, StopGrpc, StopHttp, Drain, StopWriter, HttpShutdown
  <2> QED
    BY <2>1, <2>2, <2>3, <2>4
<1>9. CASE Invalidate
  BY <1>9 DEF Invalidate
<1>10. ASSUME NEW s \in {"HUP", "TERM"}, Signal(s) PROVE SdTypeOK'
  BY <1>10 DEF Signal
<1>11. ASSUME NEW r \in Requests,
              \/ Arrive(r) \/ ReadBody(r) \/ PushAsync(r) \/ PushSync(r) \/ PushVq(r)
              \/ AnswerSiprec(r) \/ Take(r) \/ Write(r)
       PROVE  SdTypeOK'
  <2>1. place' \in [Requests -> SdPlaces]
    BY <1>11 DEF Arrive, ReadBody, PushAsync, PushSync, PushVq, AnswerSiprec, Take, Write, Written, Move, SdPlaces
  <2>2. acked' \subseteq Requests
    BY <1>11 DEF Arrive, ReadBody, PushAsync, PushSync, PushVq, AnswerSiprec, Take, Write, Ack
  <2>3. sdProcess' \in {sdProcess, "panicked"}
    BY <1>11 DEF Arrive, ReadBody, PushAsync, PushSync, PushVq, AnswerSiprec, Take, Write
  <2> QED
    BY ZenonT(60), <1>11, <2>1, <2>2, <2>3 DEF Arrive, ReadBody, PushAsync, PushSync, PushVq, AnswerSiprec, Take, Write
<1>12. CASE Exited \/ UNCHANGED sdVars
  BY <1>12 DEF Exited, sdVars
<1> QED
  BY <1>1, <1>2, <1>3, <1>4, <1>5, <1>6, <1>7, <1>8, <1>9, <1>10, <1>11, <1>12 DEF SdNext

SdSteps == OrderInv /\ ListenInv /\ PlaceInv /\ JoinInv /\ AckInv /\ LateUseIsUnjoined

\* Steps of main that stop no module, and failures of the database.
LEMMA MainStep ==
    ASSUME SdInv,
           \/ ManagerStartFails \/ Reload \/ BeginStop \/ Tick \/ ExitStopped \/ ExitTimeout
           \/ Invalidate \/ (\E s \in {"HUP", "TERM"} : Signal(s)) \/ Exited \/ UNCHANGED sdVars
    PROVE  SdSteps'
<1> USE DEF SdInv, mainVars, requestVars, dbVars
<1>1. UNCHANGED <<step, listening, requestVars, db>>
  BY StopOrder DEF OrderInv, ManagerStartFails, Reload, BeginStop, Tick, ExitStopped, ExitTimeout,
     Invalidate, Signal, Exited, sdVars
<1>2. /\ sdProcess' \in {"starting", "running", "reloading"} => step = "siprec"
      /\ sdProcess' = "exit0" => step = "done"
  BY DEF OrderInv, ManagerStartFails, Reload, BeginStop, Tick, ExitStopped, ExitTimeout,
     Invalidate, Signal, Exited, sdVars
<1>3. OrderInv'
  BY <1>1, <1>2 DEF OrderInv
<1>4. ListenInv'
  BY <1>1 DEF ListenInv
<1>5. PlaceInv' /\ AckInv' /\ LateUseIsUnjoined'
  BY <1>1 DEF PlaceInv, Queueing, AckInv, LateUseIsUnjoined
<1>6. JoinInv'
  BY <1>1 DEF JoinInv
<1> QED
  BY <1>3, <1>4, <1>5, <1>6 DEF SdSteps

\* While modules start, Stop has not begun.
LEMMA StartStep ==
    ASSUME SdInv, ManagerStart
    PROVE  SdSteps'
<1> USE DEF SdInv, requestVars
<1>1. step = "siprec" /\ UNCHANGED <<step, requestVars>> /\ sdProcess' # "exit0"
  BY DEF ManagerStart, OrderInv
<1>2. db' # "closed"
  <2>1. Len(Modules) = 5
    BY DEF Modules
  <2>2. \/ Modules[started + 1] = "writer" \/ Modules[started + 1] = "otlp" \/ Modules[started + 1] = "lp"
        \/ Modules[started + 1] = "vqrtcp" \/ Modules[started + 1] = "siprec"
    BY <2>1 DEF ManagerStart, Modules, SdTypeOK
  <2>3. db' = "open" \/ db' = db
    BY <2>2 DEF ManagerStart, StartWriter, StartOtlp, StartLp, StartVqrtcp, StartSiprec, StartSip, dbVars
  <2> QED
    BY <1>1, <2>3 DEF OrderInv
<1>3. OrderInv' /\ ListenInv'
  BY <1>1, <1>2 DEF OrderInv, ListenInv, LpOn, OtlpOn, HttpOn, DrainOn, WriterOn
<1>4. PlaceInv' /\ AckInv' /\ LateUseIsUnjoined' /\ JoinInv'
  BY <1>1 DEF PlaceInv, Queueing, AckInv, LateUseIsUnjoined, JoinInv, LpOn, OtlpOn, HttpOn, DrainOn, WriterOn
<1> QED
  BY <1>3, <1>4 DEF SdSteps

\* A step of Stop leaves requests alone: what it must show is that its wait is
\* over.  The drain's wait is not over by its own timeout: main's deadline
\* comes before.
LEMMA StopStep ==
    ASSUME SdInv, SdStop
    PROVE  SdSteps'
<1> USE DEF SdInv, requestVars, dbVars, LpOn, OtlpOn, HttpOn, DrainOn, WriterOn
<1>0. /\ UNCHANGED <<kind, place, async, acked, sdProcess>> /\ sdProcess = "stopping"
      /\ closed \subseteq closed' /\ listening' \subseteq listening
  BY DEF SdStop, StopSiprec, StopVqrtcp, StopLp, StopGrpc, StopHttp, Drain, StopWriter, HttpShutdown, Step
<1>1. PlaceInv' /\ AckInv' /\ LateUseIsUnjoined'
  BY <1>0 DEF PlaceInv, Queueing, AckInv, LateUseIsUnjoined
<1>2. CASE StopSiprec
  BY <1>0, <1>1, <1>2, StopOrder DEF StopSiprec, Step, SdSteps, OrderInv, ListenInv, JoinInv
<1>3. CASE StopVqrtcp
  <2>1. CASE Step("vqrtcp", "vqClose") /\ UNCHANGED <<requestVars, dbVars>>
    BY <1>0, <1>1, <2>1 DEF Step, SdSteps, OrderInv, ListenInv, JoinInv
  <2>2. CASE Step("vqClose", "vqWait") /\ vqClosed' = TRUE /\ UNCHANGED <<closed, otlpClosed, dbVars>>
    BY <1>0, <1>1, <2>2 DEF Step, SdSteps, OrderInv, ListenInv, JoinInv
  <2>3. CASE /\ Step("vqWait", ModuleAfter("vqrtcp")) /\ At({"vq"}, {"queued", "writing"}) = {}
             /\ UNCHANGED <<listening, requestVars, dbVars>>
    BY <1>0, <1>1, <2>3, StopOrder DEF Step, SdSteps, OrderInv, ListenInv, JoinInv, At
  <2> QED
    BY <1>3, <2>1, <2>2, <2>3 DEF StopVqrtcp
<1>4. CASE StopLp
  <2>1. CASE Step("lp", "lpWait") /\ listening' = listening \ {"lp"} /\ UNCHANGED <<requestVars, dbVars>>
    BY <1>0, <1>1, <2>1 DEF Step, SdSteps, OrderInv, ListenInv, JoinInv
  <2>2. CASE HttpShutdown("lp", "lpWait", ModuleAfter("lp"))
    <3>1. step = "lpWait" /\ step' = "otlp" /\ UNCHANGED <<otlpClosed, vqClosed, listening, dbVars>>
      BY <2>2, StopOrder DEF HttpShutdown, Step
    <3>2. \A r \in Requests : kind[r] = "lp" /\ place[r] \in {"reading", "pushing"} => "lp" \in closed'
      BY <2>2 DEF HttpShutdown, Handled, At
    <3> QED
      BY <1>0, <1>1, <3>1, <3>2 DEF SdSteps, OrderInv, ListenInv, JoinInv
  <2> QED
    BY <1>4, <2>1, <2>2 DEF StopLp
<1>5. CASE StopGrpc
  <2>1. CASE Step("otlp", "grpcWait") /\ listening' = listening \ {"grpc"} /\ UNCHANGED <<requestVars, dbVars>>
    BY <1>0, <1>1, <2>1 DEF Step, SdSteps, OrderInv, ListenInv, JoinInv
  <2>2. CASE /\ Step("grpcWait", "http") /\ Handled({"grpc"}) = {}
             /\ UNCHANGED <<listening, requestVars, dbVars>>
    BY <1>0, <1>1, <2>2 DEF Step, SdSteps, OrderInv, ListenInv, JoinInv, Handled, At
  <2> QED
    BY <1>5, <2>1, <2>2 DEF StopGrpc
<1>6. CASE StopHttp
  <2>1. CASE Step("http", "httpWait") /\ listening' = listening \ {"http"} /\ UNCHANGED <<requestVars, dbVars>>
    BY <1>0, <1>1, <2>1 DEF Step, SdSteps, OrderInv, ListenInv, JoinInv
  <2>2. CASE HttpShutdown("http", "httpWait", IF async THEN "drain" ELSE ModuleAfter("otlp"))
    <3>1. /\ step = "httpWait" /\ step' = (IF async THEN "drain" ELSE "writer")
          /\ UNCHANGED <<otlpClosed, vqClosed, listening, dbVars>>
      BY <2>2, StopOrder DEF HttpShutdown, Step
    <3>2. \A r \in Requests : kind[r] = "http" /\ place[r] \in {"reading", "pushing"} => "http" \in closed'
      BY <2>2 DEF HttpShutdown, Handled, At
    <3>3. ~async => \A r \in Requests : kind[r] \in Otlp => place[r] \notin {"queued", "writing"}
      BY DEF PlaceInv, Queueing, Otlp
    <3> QED
      BY <1>0, <1>1, <3>1, <3>2, <3>3 DEF SdSteps, OrderInv, ListenInv, JoinInv
  <2> QED
    BY <1>6, <2>1, <2>2 DEF StopHttp
<1>7. CASE Drain
  <2>1. CASE Step("drain", "drainWait") /\ otlpClosed' = TRUE /\ UNCHANGED <<listening, closed, vqClosed, dbVars>>
    BY <1>0, <1>1, <2>1 DEF Step, SdSteps, OrderInv, ListenInv, JoinInv
  <2>2. CASE /\ Step("drainWait", ModuleAfter("otlp"))
             /\ At(Otlp, {"queued", "writing"}) = {} \/ since >= asyncDrainTimeout
             /\ UNCHANGED <<listening, requestVars, dbVars>>
    <3>1. ~(since >= asyncDrainTimeout)
      BY DEF SdTypeOK, asyncDrainTimeout, defaultShutdownTimeout
    <3>2. \A r \in Requests : kind[r] \in Otlp => place[r] \notin {"queued", "writing"}
      BY <2>2, <3>1 DEF At
    <3> QED
      BY <1>0, <1>1, <2>2, <3>2, StopOrder DEF Step, SdSteps, OrderInv, ListenInv, JoinInv
  <2> QED
    BY <1>7, <2>1, <2>2 DEF Drain
<1>8. CASE StopWriter
  BY <1>0, <1>1, <1>8, StopOrder DEF StopWriter, Step, SdSteps, OrderInv, ListenInv, JoinInv
<1> QED
  BY <1>2, <1>3, <1>4, <1>5, <1>6, <1>7, <1>8 DEF SdStop

\* The step of one request: it moves alone, and only forward.
LEMMA RequestShape ==
    ASSUME SdInv, NEW r \in Requests,
           \/ Arrive(r) \/ ReadBody(r) \/ PushAsync(r) \/ PushSync(r) \/ PushVq(r)
           \/ AnswerSiprec(r) \/ Take(r) \/ Write(r)
    PROVE  /\ UNCHANGED <<step, listening, closed, kind, async, otlpClosed, vqClosed, dbVars>>
           /\ sdProcess' \in {sdProcess, "panicked"}
           /\ \A q \in Requests \ {r} : place'[q] = place[q]
           /\ acked' \subseteq acked \cup {r}
<1> USE DEF SdInv, mainVars, dbVars
<1>1. UNCHANGED <<step, listening, closed, kind, async, otlpClosed, vqClosed, dbVars>>
  BY DEF Arrive, ReadBody, PushAsync, PushSync, PushVq, AnswerSiprec, Take, Write
<1>2. sdProcess' \in {sdProcess, "panicked"} /\ acked' \subseteq acked \cup {r}
  BY DEF Arrive, ReadBody, PushAsync, PushSync, PushVq, AnswerSiprec, Take, Write, Ack
<1>3. \A q \in Requests \ {r} : place'[q] = place[q]
  BY DEF Arrive, ReadBody, PushAsync, PushSync, PushVq, AnswerSiprec, Take, Write, Written, Move, SdTypeOK
<1> QED
  BY <1>1, <1>2, <1>3

\* What has to be shown of the request itself.
RequestInv(r) ==
    /\ place[r] = "queued" => kind[r] \in Queueing
    /\ place[r] = "writing" => kind[r] \in {"siprec"} \cup Queueing
    /\ step \in LpOn /\ kind[r] = "vq" => place[r] \notin {"queued", "writing"}
    /\ step \in OtlpOn /\ kind[r] = "lp" /\ place[r] \in {"reading", "pushing"} => "lp" \in closed
    /\ step \in HttpOn /\ kind[r] = "grpc" => place[r] \notin {"reading", "pushing"}
    /\ step \in DrainOn /\ kind[r] = "http" /\ place[r] \in {"reading", "pushing"} => "http" \in closed
    /\ step \in WriterOn /\ kind[r] \in Otlp => place[r] \notin {"queued", "writing"}
    /\ place[r] = "late" => kind[r] = "siprec" \/ kind[r] \in closed
    /\ r \in acked /\ kind[r] \in Otlp \cup {"lp"} =>
         \/ place[r] = "lake"
         \/ async /\ kind[r] \in Otlp /\ place[r] \in {"queued", "writing", "error"}

\* A database is closed for requests that Stop has waited for, or whose
\* connections it has cut.
LEMMA ClosedIsLast ==
    ASSUME SdInv, NEW r \in Requests, db = "closed"
    PROVE  /\ place[r] = "pushing" /\ kind[r] \in Otlp \cup {"lp"} => kind[r] \in closed
           /\ place[r] = "writing" => kind[r] = "siprec"
<1>1. step = "done"
  BY DEF SdInv, OrderInv
<1> QED
  BY <1>1 DEF SdInv, JoinInv, PlaceInv, Queueing, LpOn, OtlpOn, HttpOn, DrainOn, WriterOn, Otlp

LEMMA RequestKept ==
    ASSUME SdInv, NEW r \in Requests,
           \/ Arrive(r) \/ ReadBody(r) \/ PushAsync(r) \/ PushSync(r) \/ PushVq(r)
           \/ AnswerSiprec(r) \/ Take(r) \/ Write(r)
    PROVE  RequestInv(r)'
<1> USE DEF SdInv
<1>0. /\ UNCHANGED <<step, listening, closed, kind, async, otlpClosed, vqClosed, dbVars>>
      /\ place \in [Requests -> SdPlaces] /\ kind[r] \in Kinds
  BY RequestShape DEF SdTypeOK
<1>1. RequestInv(r)
  BY DEF RequestInv, PlaceInv, JoinInv, LateUseIsUnjoined, AckInv
<1>2. CASE Arrive(r)
  <2>1. place[r] = "idle" /\ place'[r] = "reading" /\ acked' = acked /\ kind[r] \in listening
    BY <1>0, <1>2 DEF Arrive, Move
  <2>2. /\ step \in OtlpOn => kind[r] # "lp"
        /\ step \in HttpOn => kind[r] # "grpc"
        /\ step \in DrainOn => kind[r] # "http"
    BY <2>1 DEF ListenInv
  <2> QED
    BY <1>0, <1>1, <2>1, <2>2 DEF RequestInv
<1>3. CASE ReadBody(r)
  <2>1. place[r] = "reading" /\ place'[r] \in {"pushing", "refused"} /\ acked' = acked
    BY <1>0, <1>3 DEF ReadBody, Move
  <2> QED
    BY <1>0, <1>1, <2>1 DEF RequestInv
<1>4. CASE PushAsync(r)
  <2>1. /\ place[r] = "pushing" /\ kind[r] \in Otlp /\ async
        /\ \/ place'[r] = "queued" /\ ~otlpClosed
           \/ place'[r] = "refused" /\ acked' = acked
    BY <1>0, <1>4 DEF PushAsync, Move
  <2>2. step \in WriterOn => otlpClosed
    BY <2>1 DEF OrderInv
  <2> QED
    BY <1>0, <1>1, <2>1, <2>2 DEF RequestInv, Queueing, Otlp
<1>5. CASE PushSync(r)
  <2>1. /\ place[r] = "pushing" /\ kind[r] \in Otlp \cup {"lp"}
        /\ \/ place'[r] = "lake"
           \/ place'[r] = "refused" /\ acked' = acked
           \/ place'[r] = "late" /\ acked' = acked /\ db = "closed"
    BY <1>0, <1>5 DEF PushSync, Written, Move
  <2> QED
    BY <1>0, <1>1, <2>1, ClosedIsLast DEF RequestInv, Otlp
<1>6. CASE PushVq(r)
  <2>1. /\ place[r] = "pushing" /\ kind[r] = "vq"
        /\ \/ UNCHANGED <<place, acked>>
           \/ place'[r] \in {"queued", "dropped"} /\ ~vqClosed
    BY <1>0, <1>6 DEF PushVq, Move
  <2>2. step \in LpOn => vqClosed
    BY DEF OrderInv
  <2> QED
    BY <1>0, <1>1, <2>1, <2>2 DEF RequestInv, Queueing, Otlp
<1>7. CASE AnswerSiprec(r)
  <2>1. kind[r] = "siprec" /\ place'[r] = "writing"
    BY <1>0, <1>7 DEF AnswerSiprec, Move
  <2> QED
    BY <1>0, <2>1 DEF RequestInv, Otlp
<1>8. CASE Take(r)
  <2>1. place[r] = "queued" /\ place'[r] = "writing" /\ acked' = acked
    BY <1>0, <1>8 DEF Take, Move
  <2> QED
    BY <1>0, <1>1, <2>1 DEF RequestInv, Queueing
<1>9. CASE Write(r)
  <2>1. /\ place[r] = "writing" /\ acked' = acked
        /\ place'[r] \in {"lake", "error"} \/ (place'[r] = "late" /\ db = "closed")
    BY <1>0, <1>9 DEF Write, Written, Move
  <2> QED
    BY <1>0, <1>1, <2>1, ClosedIsLast DEF RequestInv, Otlp
<1> QED
  BY <1>2, <1>3, <1>4, <1>5, <1>6, <1>7, <1>8, <1>9

LEMMA RequestStep ==
    ASSUME SdInv, NEW r \in Requests,
           \/ Arrive(r) \/ ReadBody(r) \/ PushAsync(r) \/ PushSync(r) \/ PushVq(r)
           \/ AnswerSiprec(r) \/ Take(r) \/ Write(r)
    PROVE  SdSteps'
<1> USE DEF SdInv, dbVars
<1>0. /\ UNCHANGED <<step, listening, closed, kind, async, otlpClosed, vqClosed, dbVars>>
      /\ sdProcess' \in {sdProcess, "panicked"} /\ acked' \subseteq acked \cup {r}
      /\ acked \subseteq Requests
      /\ \A q \in Requests \ {r} : place'[q] = place[q]
  BY RequestShape DEF SdTypeOK
<1>1. RequestInv(r)'
  BY RequestKept
<1>2. OrderInv' /\ ListenInv'
  BY <1>0 DEF OrderInv, ListenInv
<1>3. ASSUME NEW q \in Requests \ {r} PROVE RequestInv(q)'
  <2>1. RequestInv(q)
    BY DEF RequestInv, PlaceInv, JoinInv, LateUseIsUnjoined, AckInv
  <2> QED
    BY <1>0, <2>1 DEF RequestInv, Queueing
<1>4. \A q \in Requests : RequestInv(q)'
  BY <1>1, <1>3
<1>5. PlaceInv' /\ JoinInv' /\ LateUseIsUnjoined'
  BY <1>4 DEF RequestInv, PlaceInv, JoinInv, LateUseIsUnjoined
<1>6. AckInv'
  BY <1>0, <1>4 DEF RequestInv, AckInv
<1> QED
  BY <1>2, <1>5, <1>6 DEF SdSteps

LEMMA InductiveSdInv == SdSpec => []SdInv
<1>1. ASSUME SdInv, [SdNext]_sdVars PROVE SdInv'
  <2>1. SdTypeOK'
    BY <1>1, SdTypeStep DEF SdInv
  <2>2. SdSteps'
    BY <1>1, MainStep, StartStep, StopStep, RequestStep DEF SdNext
  <2> QED
    BY <2>1, <2>2 DEF SdInv, SdSteps
<1> QED
  BY <1>1, SdInitInv, PTL DEF SdSpec

\* Type correctness of main's and the receivers' state; in particular no wait
\* of a module's Stop outlasts the deadline of ModuleManager.Stop (main.go).
THEOREM SdTypeCorrect == SdSpec => []SdTypeOK
<1>1. SdInv => SdTypeOK
  BY DEF SdInv
<1> QED
  BY <1>1, InductiveSdInv, PTL

\* Exit code 0 means that the queues of the OTLP and VQ-RTCPXR receivers were
\* written out before Writer.Stop closed DuckDB, and that nothing an OTLP or
\* line protocol client was told is stored is missing, however many requests
\* were in flight.
THEOREM CleanExit == SdSpec => []CleanExitStored
<1>1. ASSUME SdInv PROVE CleanExitStored
  <2> SUFFICES ASSUME sdProcess = "exit0", NEW r \in Requests
               PROVE  /\ kind[r] # "siprec" => place[r] \notin {"queued", "writing"}
                      /\ r \in acked /\ kind[r] \in Otlp \cup {"lp"} =>
                           place[r] = "lake" \/ (async /\ place[r] = "error")
    BY DEF CleanExitStored
  <2>1. step = "done"
    BY <1>1 DEF SdInv, OrderInv
  <2>2. kind[r] # "siprec" => place[r] \notin {"queued", "writing"}
    BY <1>1, <2>1 DEF SdInv, PlaceInv, JoinInv, Queueing, LpOn, OtlpOn, HttpOn, DrainOn, WriterOn, Otlp
  <2> QED
    BY <1>1, <2>2 DEF SdInv, AckInv, Otlp
<1> QED
  BY <1>1, InductiveSdInv, PTL

\* Whoever meets the closed DuckDB instance is an HTTP handler whose
\* connection was cut or a SIPREC handler, never an RPC or a queue's worker.
THEOREM LateUse == SdSpec => []LateUseIsUnjoined
<1>1. SdInv => LateUseIsUnjoined
  BY DEF SdInv
<1> QED
  BY <1>1, InductiveSdInv, PTL
=============================================================================
