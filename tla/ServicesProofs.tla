--------------------------- MODULE ServicesProofs ---------------------------
(***************************************************************************)
(* Proofs about the services that MCServices composes, for every value of  *)
(* their constants.                                                        *)
(*                                                                         *)
(* LakeSetup: its inductive invariant LsInv, with LsDuties(p) the shards   *)
(* that p still has to stop:                                               *)
(*                                                                         *)
(*   LsTypeInv      every variable has its type;                           *)
(*   LsLocks        which lock files a process has at which step;          *)
(*   LsWriters      a shard's instance has its lock, and its mark once     *)
(*                  something is attached;                                 *)
(*   LsServices     compaction and tiering are open only while all locks   *)
(*                  are held, each with marks of its own;                  *)
(*   LsMarked       without tiering no mark is left over;                  *)
(*   LsReports      a report has its cause;                                *)
(*   LsRepairAlone.                                                        *)
(*                                                                         *)
(* A step is a step of one process.  LsAside says what it may do to the    *)
(* others, and LsOthersKept that this leaves their invariant alone; what   *)
(* is left for each action is the invariant of the process that takes it.  *)
(*                                                                         *)
(* StreamFan: SfInv, with SfData, where an event of a source is, SfControl *)
(* for the source's forwarder and SfPhases for the handler.                *)
(*                                                                         *)
(* The other services have their invariants in ServicePartsProofs.         *)
(***************************************************************************)
EXTENDS MCServices, ServicePartsProofs, SequenceTheorems, TLAPS

LsStarting == {"lock", "open", "repair", "attach", "mark"}
LsServing == {"compaction", "tiering", "up", "stop"}
LsClosing == {"close", "release", "unlock"}

LsOwes(p, i) ==
    \/ lsPc[p] \in LsStarting /\ i <= lsAt[p]
    \/ lsPc[p] \in LsServing /\ i < lsShards
    \/ lsPc[p] \in LsClosing /\ \E k \in 1..Len(lsTodo[p]) : lsTodo[p][k] = i

LsDuties(p) == {i \in LsSuffixes : LsOwes(p, i)}

LsTypeInv ==
    /\ lsShards \in 1..LsMaxShards /\ lsTiered \in BOOLEAN
    /\ lsFiles \subseteq LsCatalogs
    /\ lsLock \in [LsCatalogs -> LsProcs \cup {LsNobody}]
    /\ DOMAIN lsAttached = LsProcs
    /\ \A p \in LsProcs : LsOpen(p) \subseteq LsInstances
    /\ lsMarks \in [LsProcs -> [LsCatalogs -> Nat]]
    /\ lsPc \in [LsProcs -> {"off", "stopped"} \cup LsStarting \cup LsServing \cup LsClosing]
    /\ lsAt \in [LsProcs -> 0..(lsShards - 1)]
    /\ lsTodo \in [LsProcs -> Seq(0..(lsShards - 1))]
    /\ \A p \in LsProcs : lsPc[p] \in {"release", "unlock"} => lsTodo[p] # << >>
    /\ lsFatal \in [LsProcs -> SUBSET LsSuffixes]
    /\ lsFailure \in [LsProcs -> {"none", "sent", "taken"}]
    /\ lsFaults \in Nat /\ lsStarts \in [LsProcs -> Nat]
    /\ lsDisturbed \in BOOLEAN
    /\ lsTorn \in [LsProcs -> SUBSET LsSuffixes]

LsLocks(p) ==
    /\ \A c \in LsCatalogs : lsLock[c] = p => \E i \in LsDuties(p) : c = shardCatalogPath(i)
    /\ lsPc[p] \in LsStarting => \A i \in LsSuffixes : i < lsAt[p] => lsLock[shardCatalogPath(i)] = p
    /\ lsPc[p] \in LsStarting \ {"lock"} => lsLock[shardCatalogPath(lsAt[p])] = p
    /\ lsPc[p] \in LsServing => \A i \in LsSuffixes : i < lsShards => lsLock[shardCatalogPath(i)] = p

LsWriter(p, i) ==
    /\ i \in LsDuties(p)
    /\ lsLock[shardCatalogPath(i)] = p
    /\ lsAttached[p][<<"writer", i>>] \subseteq {shardCatalogPath(i)}
    /\ lsPc[p] \in {"lock", "open"} => i # lsAt[p]
    /\ lsPc[p] \in {"repair", "attach"} /\ i = lsAt[p] => lsAttached[p][<<"writer", i>>] = {}
    /\ lsPc[p] \in {"release", "unlock"} => i # Head(lsTodo[p])
    /\ \/ lsAttached[p][<<"writer", i>>] = {}
       \/ lsMarks[p][shardCatalogPath(i)] > 0
       \/ lsPc[p] = "mark" /\ i = lsAt[p]

LsWriters(p) ==
    \A i \in LsSuffixes : <<"writer", i>> \in LsOpen(p) => LsWriter(p, i)

LsServices(p) ==
    /\ lsPc[p] \in LsStarting =>
          \A i \in LsSuffixes : i < lsAt[p] => lsMarks[p][shardCatalogPath(i)] > 0
    /\ lsPc[p] \in LsServing =>
          \A i \in LsSuffixes : i < lsShards => lsMarks[p][shardCatalogPath(i)] > 0
    /\ lsPc[p] \in {"mark", "compaction", "tiering"} /\ lsShards = 1 => <<"base">> \in lsFiles
    /\ lsPc[p] = "tiering" => lsTiered
    /\ <<"compaction">> \in LsOpen(p) =>
          /\ lsPc[p] \in {"tiering", "up", "stop"}
          /\ lsAttached[p][<<"compaction">>] = {shardCatalogPath(0)}
          /\ lsMarks[p][shardCatalogPath(0)] > 1
    /\ <<"tiering">> \in LsOpen(p) =>
          /\ lsTiered /\ lsPc[p] \in {"up", "stop"}
          /\ lsAttached[p][<<"tiering">>] \subseteq {<<"base">>, <<"hot">>, <<"cold">>}
          /\ (lsShards = 1) <=> (shardCatalogPath(0) \in lsAttached[p][<<"tiering">>])
          /\ \A c \in lsAttached[p][<<"tiering">>] : lsMarks[p][c] > 0
    /\ <<"cleanup">> \in LsOpen(p) =>
          /\ <<"tiering">> \in LsOpen(p)
          /\ lsAttached[p][<<"cleanup">>] \subseteq lsAttached[p][<<"tiering">>]

LsMarked(p) ==
    ~lsTiered =>
        /\ \A c \in LsCatalogs : lsMarks[p][c] > 0 => \E i \in LsDuties(p) : c = shardCatalogPath(i)
        /\ \A c \in LsCatalogs :
              lsMarks[p][c] > 1 => <<"compaction">> \in LsOpen(p) /\ c = shardCatalogPath(0)
        /\ \A c \in LsCatalogs : lsMarks[p][c] <= 2
        /\ lsPc[p] \in LsStarting => lsMarks[p][shardCatalogPath(lsAt[p])] = 0
        /\ lsPc[p] = "unlock" => lsMarks[p][shardCatalogPath(Head(lsTodo[p]))] = 0

LsReports(p) == lsFailure[p] # "none" => lsFatal[p] # {}

LsProcessInv(p) ==
    /\ LsLocks(p)
    /\ LsWriters(p)
    /\ LsServices(p)
    /\ LsMarked(p)
    /\ LsReports(p)

LsInv ==
    /\ LsTypeInv
    /\ LsRepairAlone
    /\ \A p \in LsProcs : LsProcessInv(p)

\* What a step of p leaves of the others.
LsAside(p) ==
    /\ UNCHANGED <<lsShards, lsTiered>>
    /\ lsFiles \subseteq lsFiles'
    /\ \A q \in LsProcs \ {p} :
          /\ lsPc'[q] = lsPc[q] /\ lsAt'[q] = lsAt[q] /\ lsTodo'[q] = lsTodo[q]
          /\ lsAttached'[q] = lsAttached[q] /\ lsMarks'[q] = lsMarks[q]
          /\ lsFatal'[q] = lsFatal[q] /\ lsFailure'[q] = lsFailure[q]
          /\ \A c \in LsCatalogs : lsLock'[c] = q <=> lsLock[c] = q

-----------------------------------------------------------------------------
(* Names: catalogs and instances. *)

LEMMA LsSuffixFacts ==
    /\ LsMaxShards \in Nat \ {0}
    /\ LsSuffixes = 0..(LsMaxShards - 1)
    /\ 0 \in LsSuffixes
    /\ LsNobody \notin LsProcs
BY LakeSetupAssumption DEF LsSuffixes

LEMMA LsInstancesApart ==
    /\ \A i, j : <<"writer", i>> = <<"writer", j>> => i = j
    /\ \A i : <<"writer", i>> \notin {<<"compaction">>, <<"tiering">>, <<"cleanup">>}
    /\ <<"compaction">> # <<"tiering">>
    /\ <<"compaction">> # <<"cleanup">>
    /\ <<"tiering">> # <<"cleanup">>
OBVIOUS

LEMMA LsPathFacts ==
    ASSUME lsShards \in 1..LsMaxShards
    PROVE  /\ \A i \in LsSuffixes : shardCatalogPath(i) \in LsCatalogs
           /\ \A i, j \in LsSuffixes :
                 i < lsShards /\ j < lsShards /\ shardCatalogPath(i) = shardCatalogPath(j) => i = j
           /\ lsShards = 1 => shardCatalogPath(0) = <<"base">>
           /\ lsShards # 1 => \A i \in LsSuffixes :
                 shardCatalogPath(i) \notin {<<"base">>, <<"hot">>, <<"cold">>}
           /\ {<<"base">>, <<"hot">>, <<"cold">>} \subseteq LsCatalogs
           /\ <<"base">> # <<"hot">> /\ <<"base">> # <<"cold">>
BY LsSuffixFacts DEF shardCatalogPath, LsCatalogs

LEMMA LsAtFacts ==
    ASSUME LsTypeInv, NEW p \in LsProcs
    PROVE  /\ lsShards \in Nat \ {0} /\ lsShards \in 1..LsMaxShards
           /\ lsAt[p] \in LsSuffixes /\ lsAt[p] \in Nat /\ lsAt[p] < lsShards
           /\ shardCatalogPath(lsAt[p]) \in LsCatalogs
           /\ shardCatalogPath(0) \in LsCatalogs
<1>1. lsShards \in 1..LsMaxShards /\ lsAt[p] \in 0..(lsShards - 1)
  BY DEF LsTypeInv
<1>2. QED
  BY <1>1, LsSuffixFacts, LsPathFacts

-----------------------------------------------------------------------------
(* The updates the actions are made of. *)

LEMMA LsGoesFacts ==
    ASSUME LsTypeInv, NEW p \in LsProcs, NEW pc, LsGoes(p, pc)
    PROVE  /\ lsPc'[p] = pc
           /\ \A q \in LsProcs \ {p} : lsPc'[q] = lsPc[q]
BY DEF LsTypeInv, LsGoes

LEMMA LsWithFacts ==
    ASSUME LsTypeInv, NEW p \in LsProcs, NEW x, NEW cats, LsWith(p, x, cats)
    PROVE  /\ DOMAIN lsAttached' = LsProcs
           /\ \A q \in LsProcs \ {p} : lsAttached'[q] = lsAttached[q]
           /\ LsOpen(p)' = LsOpen(p) \cup {x}
           /\ lsAttached'[p][x] = cats
           /\ \A y \in LsOpen(p) \ {x} : lsAttached'[p][y] = lsAttached[p][y]
<1>1. lsAttached'[p] = [y \in DOMAIN lsAttached[p] \cup {x} |-> IF y = x THEN cats ELSE lsAttached[p][y]]
  BY DEF LsTypeInv, LsWith
<1>2. DOMAIN lsAttached' = LsProcs /\ \A q \in LsProcs \ {p} : lsAttached'[q] = lsAttached[q]
  BY DEF LsTypeInv, LsWith
<1>3. QED
  BY <1>1, <1>2 DEF LsOpen

LEMMA LsWithoutFacts ==
    ASSUME LsTypeInv, NEW p \in LsProcs, NEW xs, LsWithout(p, xs)
    PROVE  /\ DOMAIN lsAttached' = LsProcs
           /\ \A q \in LsProcs \ {p} : lsAttached'[q] = lsAttached[q]
           /\ LsOpen(p)' = LsOpen(p) \ xs
           /\ \A y \in LsOpen(p) \ xs : lsAttached'[p][y] = lsAttached[p][y]
<1>1. lsAttached'[p] = [y \in DOMAIN lsAttached[p] \ xs |-> lsAttached[p][y]]
  BY DEF LsTypeInv, LsWithout
<1>2. DOMAIN lsAttached' = LsProcs /\ \A q \in LsProcs \ {p} : lsAttached'[q] = lsAttached[q]
  BY DEF LsTypeInv, LsWithout
<1>3. QED
  BY <1>1, <1>2 DEF LsOpen

LEMMA LsMarkFacts ==
    ASSUME LsTypeInv, NEW p \in LsProcs, NEW cats, MarkCatalogAttached(p, cats)
    PROVE  /\ lsMarks' \in [LsProcs -> [LsCatalogs -> Nat]]
           /\ \A q \in LsProcs \ {p} : lsMarks'[q] = lsMarks[q]
           /\ \A c \in LsCatalogs : c \in cats => lsMarks'[p][c] = lsMarks[p][c] + 1
           /\ \A c \in LsCatalogs : c \notin cats => lsMarks'[p][c] = lsMarks[p][c]
<1>1. lsMarks'[p] = [c \in LsCatalogs |-> lsMarks[p][c] + (IF c \in cats THEN 1 ELSE 0)]
  BY DEF LsTypeInv, MarkCatalogAttached
<1>2. DOMAIN lsMarks' = LsProcs /\ \A q \in LsProcs \ {p} : lsMarks'[q] = lsMarks[q]
  BY DEF LsTypeInv, MarkCatalogAttached
<1>3. lsMarks' = [lsMarks EXCEPT ![p] = lsMarks'[p]]
  BY <1>1 DEF LsTypeInv, MarkCatalogAttached
<1>4. lsMarks[p] \in [LsCatalogs -> Nat]
  BY DEF LsTypeInv
<1>5. lsMarks'[p] \in [LsCatalogs -> Nat]
  BY <1>1, <1>4
<1>6. lsMarks' \in [LsProcs -> [LsCatalogs -> Nat]]
  BY <1>3, <1>5 DEF LsTypeInv
<1>7. QED
  BY <1>1, <1>2, <1>4, <1>6

LEMMA LsReleaseFacts ==
    ASSUME LsTypeInv, NEW p \in LsProcs, NEW c \in LsCatalogs, LsRelease(p, c)
    PROVE  /\ lsMarks' \in [LsProcs -> [LsCatalogs -> Nat]]
           /\ \A q \in LsProcs \ {p} : lsMarks'[q] = lsMarks[q]
           /\ lsMarks[p][c] <= 1 => lsMarks'[p][c] = 0
           /\ lsMarks[p][c] > 1 => lsMarks'[p][c] = lsMarks[p][c] - 1
           /\ \A d \in LsCatalogs \ {c} : lsMarks'[p][d] = lsMarks[p][d]
BY DEF LsTypeInv, LsRelease, LsReleased

-----------------------------------------------------------------------------
(* The others of a step. *)

LEMMA LsOthersKept ==
    ASSUME LsTypeInv, NEW p \in LsProcs, LsAside(p), NEW q \in LsProcs \ {p}, LsProcessInv(q)
    PROVE  LsProcessInv(q)'
<1>1. /\ lsShards' = lsShards /\ lsTiered' = lsTiered /\ lsFiles \subseteq lsFiles'
      /\ lsPc'[q] = lsPc[q] /\ lsAt'[q] = lsAt[q] /\ lsTodo'[q] = lsTodo[q]
      /\ lsAttached'[q] = lsAttached[q] /\ lsMarks'[q] = lsMarks[q]
      /\ lsFatal'[q] = lsFatal[q] /\ lsFailure'[q] = lsFailure[q]
      /\ \A c \in LsCatalogs : lsLock'[c] = q <=> lsLock[c] = q
  BY DEF LsAside
<1>2. \A i : shardCatalogPath(i)' = shardCatalogPath(i)
  BY <1>1 DEF shardCatalogPath
<1>3. LsDuties(q)' = LsDuties(q) /\ LsOpen(q)' = LsOpen(q)
  BY <1>1 DEF LsDuties, LsOwes, LsOpen
<1>4. \A i \in LsSuffixes : shardCatalogPath(i) \in LsCatalogs
  BY LsPathFacts DEF LsTypeInv
<1>5. lsAt[q] \in LsSuffixes
  BY LsSuffixFacts DEF LsTypeInv
<1>6. LsLocks(q)'
  BY <1>1, <1>2, <1>3, <1>4, <1>5 DEF LsProcessInv, LsLocks
<1>7. LsWriters(q)'
  BY <1>1, <1>2, <1>3, <1>4 DEF LsProcessInv, LsWriters, LsWriter
<1>8. LsServices(q)'
  BY <1>1, <1>2, <1>3, <1>4 DEF LsProcessInv, LsServices
<1>9. LsMarked(q)'
  BY <1>1, <1>2, <1>3, <1>4 DEF LsProcessInv, LsMarked
<1>10. LsReports(q)'
  BY <1>1 DEF LsProcessInv, LsReports
<1>11. QED
  BY <1>6, <1>7, <1>8, <1>9, <1>10 DEF LsProcessInv

LEMMA LsStepKept ==
    ASSUME LsInv, NEW p \in LsProcs, LsAside(p), LsTypeInv', LsRepairAlone', LsProcessInv(p)'
    PROVE  LsInv'
<1>1. \A q \in LsProcs \ {p} : LsProcessInv(q)'
  BY LsOthersKept DEF LsInv
<1>2. QED
  BY <1>1 DEF LsInv

LEMMA LsUnwindFacts ==
    ASSUME LsTypeInv, NEW p \in LsProcs, LsUnwind(p)
    PROVE  /\ lsPc'[p] = "close"
           /\ \A q \in LsProcs \ {p} : lsPc'[q] = lsPc[q] /\ lsTodo'[q] = lsTodo[q]
           /\ lsTodo' \in [LsProcs -> Seq(0..(lsShards - 1))]
           /\ \A i \in LsSuffixes :
                 i <= lsAt[p] => \E k \in 1..Len(lsTodo'[p]) : lsTodo'[p][k] = i
<1> DEFINE a == lsAt[p]
           before == [j \in 1..a |-> j - 1]
<1>1. a \in 0..(lsShards - 1) /\ lsShards \in Nat \ {0}
  BY LsSuffixFacts DEF LsTypeInv
<1>2. before \in Seq(0..(lsShards - 1)) /\ Len(before) = a
  BY <1>1
<1>3. <<a>> \in Seq(0..(lsShards - 1)) /\ Len(<<a>>) = 1 /\ <<a>>[1] = a
  BY <1>1
<1> HIDE DEF a
<1>4. DEFINE all == <<a>> \o before
<1>5. /\ all \in Seq(0..(lsShards - 1)) /\ Len(all) = a + 1
      /\ all[1] = a /\ \A k \in 2..(a + 1) : all[k] = before[k - 1]
  <2> HIDE DEF before
  <2>1. QED
    BY <1>1, <1>2, <1>3, ConcatProperties
<1>6. lsTodo' = [lsTodo EXCEPT ![p] = all] /\ LsGoes(p, "close")
  BY DEF LsUnwind, LsFailedShard, a
<1>7. /\ lsTodo'[p] = all /\ \A q \in LsProcs \ {p} : lsTodo'[q] = lsTodo[q]
      /\ lsTodo' \in [LsProcs -> Seq(0..(lsShards - 1))]
  BY <1>5, <1>6 DEF LsTypeInv
<1>8. ASSUME NEW i \in LsSuffixes, i <= a
      PROVE  \E k \in 1..Len(all) : all[k] = i
  <2>1. CASE i = a
    BY <2>1, <1>1, <1>5
  <2>2. CASE i < a
    <3>1. i + 2 \in 2..(a + 1) /\ i + 2 \in 1..Len(all) /\ before[i + 1] = i
      BY <2>2, <1>1, <1>5, LsSuffixFacts
    <3>2. (i + 2) - 1 = i + 1
      BY LsSuffixFacts
    <3>3. all[i + 2] = before[i + 1]
      <4> HIDE DEF all, before
      <4>1. QED
        BY <3>1, <3>2, <1>5
    <3>4. all[i + 2] = i
      BY <3>1, <3>3
    <3>5. QED
      BY <3>1, <3>4
  <2>3. QED
    BY <2>1, <2>2, <1>8, <1>1, LsSuffixFacts
<1>9. QED
  BY <1>6, <1>7, <1>8, LsGoesFacts DEF a

-----------------------------------------------------------------------------
(* One action after the other: a process that starts. *)

LEMMA LsStartStep ==
    ASSUME LsInv, NEW p \in LsProcs, LsStart(p)
    PROVE  LsInv'
<1>1. LsTypeInv /\ LsProcessInv(p)
  BY DEF LsInv
<1>2. /\ lsPc[p] = "off" /\ lsPc'[p] = "lock" /\ lsAt'[p] = 0
      /\ UNCHANGED <<lsShards, lsTiered, lsFiles, lsLock, lsAttached, lsMarks, lsTodo, lsFatal,
                     lsFailure, lsFaults, lsDisturbed, lsTorn>>
  BY <1>1, LsGoesFacts DEF LsStart, LsTypeInv
<1>3. LsAside(p)
  BY <1>1, <1>2, LsGoesFacts DEF LsStart, LsAside, LsTypeInv
<1>4. LsTypeInv'
  BY <1>1, <1>2 DEF LsTypeInv, LsStart, LsGoes, LsOpen, LsStarting
<1>5. LsRepairAlone'
  BY <1>2 DEF LsInv, LsRepairAlone
<1>6. LsOpen(p) = {} /\ LsOpen(p)' = {} /\ \A c \in LsCatalogs : lsLock[c] # p
  <2>1. LsDuties(p) = {}
    BY <1>2 DEF LsDuties, LsOwes, LsStarting, LsServing, LsClosing
  <2>2. LsOpen(p) = {}
    <3>1. \A i \in LsSuffixes : <<"writer", i>> \notin LsOpen(p)
      BY <1>1, <2>1 DEF LsProcessInv, LsWriters, LsWriter
    <3>2. LsOpen(p) \cap {<<"compaction">>, <<"tiering">>, <<"cleanup">>} = {}
      BY <1>1, <1>2 DEF LsProcessInv, LsServices
    <3>3. LsOpen(p) \subseteq LsInstances
      BY <1>1 DEF LsTypeInv
    <3>4. QED
      BY <3>1, <3>2, <3>3 DEF LsInstances
  <2>3. QED
    BY <1>1, <1>2, <2>1, <2>2 DEF LsProcessInv, LsLocks, LsOpen
<1>7. \A i : shardCatalogPath(i)' = shardCatalogPath(i)
  BY <1>2 DEF shardCatalogPath
<1>8. LsLocks(p)'
  BY <1>2, <1>6, LsSuffixFacts DEF LsLocks, LsStarting, LsServing
<1>9. LsWriters(p)'
  BY <1>6 DEF LsWriters, LsWriter
<1>10. LsServices(p)'
  BY <1>2, <1>6, LsSuffixFacts DEF LsServices, LsStarting, LsServing
<1>11. LsMarked(p)'
  <2>1. ~lsTiered => \A c \in LsCatalogs : lsMarks[p][c] = 0
    <3>1. LsDuties(p) = {}
      BY <1>2 DEF LsDuties, LsOwes, LsStarting, LsServing, LsClosing
    <3>2. lsMarks[p] \in [LsCatalogs -> Nat]
      BY <1>1 DEF LsTypeInv
    <3>3. QED
      BY <1>1, <3>1, <3>2 DEF LsProcessInv, LsMarked
  <2>2. shardCatalogPath(0) \in LsCatalogs
    BY <1>1, LsPathFacts, LsSuffixFacts DEF LsTypeInv
  <2>3. QED
    BY <1>2, <1>7, <2>1, <2>2 DEF LsMarked
<1>12. LsReports(p)'
  BY <1>1, <1>2 DEF LsProcessInv, LsReports
<1>13. QED
  BY <1>3, <1>4, <1>5, <1>8, <1>9, <1>10, <1>11, <1>12, LsStepKept DEF LsProcessInv

LEMMA acquireCatalogWriterLockStep ==
    ASSUME LsInv, NEW p \in LsProcs, acquireCatalogWriterLock(p)
    PROVE  LsInv'
<1> DEFINE a == lsAt[p]
           c == shardCatalogPath(a)
<1>1. LsTypeInv /\ LsProcessInv(p) /\ a \in LsSuffixes /\ a < lsShards /\ c \in LsCatalogs
  BY LsAtFacts DEF LsInv
<1>2. /\ lsPc[p] = "lock"
      /\ UNCHANGED <<lsShards, lsTiered, lsFiles, lsAttached, lsMarks, lsAt, lsFatal, lsFailure,
                     lsFaults, lsStarts, lsDisturbed, lsTorn>>
  BY DEF acquireCatalogWriterLock
<1>3. \A i : shardCatalogPath(i)' = shardCatalogPath(i)
  BY <1>2 DEF shardCatalogPath
<1>4. LsRepairAlone' /\ LsReports(p)'
  BY <1>1, <1>2 DEF LsInv, LsProcessInv, LsReports, LsRepairAlone
<1>5. CASE lsLock[c] = LsNobody
  <2>1. /\ lsLock' = [lsLock EXCEPT ![c] = p] /\ lsPc'[p] = "open" /\ UNCHANGED lsTodo
        /\ LsGoes(p, "open")
    BY <1>1, <1>5, LsGoesFacts DEF acquireCatalogWriterLock
  <2>2. LsAside(p)
    BY SMTT(30), <1>1, <1>2, <1>5, <2>1, LsGoesFacts, LsSuffixFacts DEF LsAside, LsTypeInv
  <2>3. LsTypeInv'
    BY <1>1, <1>2, <2>1 DEF LsTypeInv, LsGoes, LsOpen, LsStarting
  <2>4. LsDuties(p)' = LsDuties(p) /\ LsOpen(p)' = LsOpen(p) /\ a \in LsDuties(p)
    BY <1>1, <1>2, <2>1, LsSuffixFacts DEF LsDuties, LsOwes, LsOpen, LsStarting, LsServing, LsClosing
  <2>5. lsLock'[c] = p /\ \A d \in LsCatalogs \ {c} : lsLock'[d] = lsLock[d]
    BY <1>1, <2>1 DEF LsTypeInv
  <2>6. \A i \in LsSuffixes : shardCatalogPath(i) \in LsCatalogs
    BY <1>1, LsPathFacts DEF LsTypeInv
  <2>7. LsLocks(p)'
    BY <1>1, <1>2, <1>3, <2>1, <2>4, <2>5, <2>6 DEF LsProcessInv, LsLocks, LsStarting, LsServing
  <2>8. LsWriters(p)'
    BY <1>1, <1>2, <1>3, <2>1, <2>4, <2>5, <2>6 DEF LsProcessInv, LsWriters, LsWriter
  <2>9. LsServices(p)'
    BY <1>1, <1>2, <1>3, <2>1, <2>4 DEF LsProcessInv, LsServices, LsStarting, LsServing
  <2>10. LsMarked(p)'
    BY <1>1, <1>2, <1>3, <2>1, <2>4 DEF LsProcessInv, LsMarked, LsStarting
  <2>11. QED
    BY <1>4, <2>2, <2>3, <2>7, <2>8, <2>9, <2>10, LsStepKept DEF LsProcessInv
<1>6. CASE lsLock[c] # LsNobody
  <2>1. LsUnwind(p) /\ UNCHANGED lsLock
    BY <1>6 DEF acquireCatalogWriterLock
  <2>2. LsAside(p)
    BY <1>1, <1>2, <2>1, LsUnwindFacts DEF LsAside
  <2>3. lsPc'[p] = "close" /\ LsOpen(p)' = LsOpen(p)
    BY <1>1, <1>2, <2>1, LsUnwindFacts DEF LsOpen
  <2>4. LsTypeInv'
    <3>1. lsPc' = [lsPc EXCEPT ![p] = "close"]
      BY <2>1 DEF LsUnwind, LsGoes
    <3>2. /\ lsTodo' \in [LsProcs -> Seq(0..(lsShards - 1))]
          /\ \A q \in LsProcs \ {p} : lsPc'[q] = lsPc[q] /\ lsTodo'[q] = lsTodo[q]
      BY <1>1, <2>1, LsUnwindFacts
    <3>3. \A q \in LsProcs : lsPc'[q] \in {"release", "unlock"} => lsTodo'[q] # << >>
      BY <1>1, <2>3, <3>2 DEF LsTypeInv
    <3>4. QED
      BY <1>1, <1>2, <2>1, <3>1, <3>2, <3>3 DEF LsTypeInv, LsOpen, LsClosing
  <2>5. LsDuties(p) \subseteq LsDuties(p)'
    BY <1>1, <1>2, <2>1, <2>3, LsUnwindFacts
       DEF LsDuties, LsOwes, LsStarting, LsServing, LsClosing
  <2>6. LsLocks(p)'
    BY <1>1, <1>2, <1>3, <2>1, <2>3, <2>5 DEF LsProcessInv, LsLocks, LsStarting, LsServing
  <2>7. LsWriters(p)'
    BY <1>1, <1>2, <1>3, <2>1, <2>3, <2>5 DEF LsProcessInv, LsWriters, LsWriter
  <2>8. LsServices(p)'
    BY <1>1, <1>2, <1>3, <2>3 DEF LsProcessInv, LsServices, LsStarting, LsServing
  <2>9. LsMarked(p)'
    BY <1>1, <1>2, <1>3, <2>3, <2>5 DEF LsProcessInv, LsMarked, LsStarting
  <2>10. QED
    BY <1>4, <2>2, <2>4, <2>6, <2>7, <2>8, <2>9, LsStepKept DEF LsProcessInv
<1>7. QED
  BY <1>5, <1>6

LEMMA LsOpenInstanceStep ==
    ASSUME LsInv, NEW p \in LsProcs, LsOpenInstance(p)
    PROVE  LsInv'
<1> DEFINE a == lsAt[p]
           x == <<"writer", a>>
<1>1. LsTypeInv /\ LsProcessInv(p) /\ a \in LsSuffixes /\ a < lsShards /\ x \in LsInstances
  BY LsAtFacts DEF LsInv, LsInstances
<1>2. /\ lsPc[p] = "open" /\ LsWith(p, x, {})
      /\ UNCHANGED <<lsShards, lsTiered, lsFiles, lsLock, lsMarks, lsAt, lsFatal, lsFailure,
                     lsStarts, lsDisturbed, lsTorn>>
  BY DEF LsOpenInstance
<1>3. \A i : shardCatalogPath(i)' = shardCatalogPath(i)
  BY <1>2 DEF shardCatalogPath
<1>4. LsRepairAlone' /\ LsReports(p)'
  BY <1>1, <1>2 DEF LsInv, LsProcessInv, LsReports, LsRepairAlone
<1>5. /\ DOMAIN lsAttached' = LsProcs
      /\ \A q \in LsProcs \ {p} : lsAttached'[q] = lsAttached[q]
      /\ LsOpen(p)' = LsOpen(p) \cup {x} /\ lsAttached'[p][x] = {}
      /\ \A y \in LsOpen(p) \ {x} : lsAttached'[p][y] = lsAttached[p][y]
  BY <1>1, <1>2, LsWithFacts
<1>6. \A q \in LsProcs : LsOpen(q)' \subseteq LsInstances
  BY ZenonT(60), <1>1, <1>5 DEF LsTypeInv, LsOpen
<1>7. /\ lsPc'[p] \in {"repair", "close"} /\ a \in LsDuties(p) /\ LsDuties(p) \subseteq LsDuties(p)'
      /\ LsAside(p) /\ LsTypeInv'
  <2>1. a \in LsDuties(p)
    BY <1>1, <1>2 DEF LsDuties, LsOwes, LsStarting, LsTypeInv
  <2>2. CASE LsGoes(p, "repair") /\ UNCHANGED <<lsTodo, lsFaults>>
    <3>1. lsPc'[p] = "repair" /\ LsDuties(p)' = LsDuties(p)
      BY <1>1, <1>2, <2>2, LsGoesFacts DEF LsDuties, LsOwes, LsStarting, LsServing, LsClosing
    <3>2. LsAside(p)
      BY <1>1, <1>2, <1>5, <2>2, LsGoesFacts DEF LsAside
    <3>3. LsTypeInv'
      BY <1>1, <1>2, <1>5, <1>6, <2>2 DEF LsTypeInv, LsGoes, LsStarting
    <3>4. QED
      BY <2>1, <3>1, <3>2, <3>3
  <2>3. CASE LsFault /\ LsUnwind(p)
    <3>1. /\ lsPc' = [lsPc EXCEPT ![p] = "close"] /\ lsFaults' \in Nat
          /\ lsTodo' \in [LsProcs -> Seq(0..(lsShards - 1))]
          /\ \A q \in LsProcs \ {p} : lsPc'[q] = lsPc[q] /\ lsTodo'[q] = lsTodo[q]
      <4>1. lsFaults' \in Nat
        BY <1>1, <2>3 DEF LsFault, LsTypeInv
      <4>2. lsPc' = [lsPc EXCEPT ![p] = "close"]
        BY <2>3 DEF LsUnwind, LsGoes
      <4>3. QED
        BY <1>1, <2>3, <4>1, <4>2, LsUnwindFacts
    <3>2. lsPc'[p] = "close" /\ LsDuties(p) \subseteq LsDuties(p)'
      BY <1>1, <1>2, <2>3, LsUnwindFacts DEF LsDuties, LsOwes, LsStarting, LsServing, LsClosing
    <3>3. LsAside(p)
      BY <1>1, <1>2, <1>5, <3>1 DEF LsAside
    <3>4. \A q \in LsProcs : lsPc'[q] \in {"release", "unlock"} => lsTodo'[q] # << >>
      BY <1>1, <3>1, <3>2 DEF LsTypeInv
    <3>5. LsTypeInv'
      BY <1>1, <1>2, <1>5, <1>6, <3>1, <3>4 DEF LsTypeInv, LsClosing
    <3>6. QED
      BY <2>1, <3>2, <3>3, <3>5
  <2>4. QED
    BY <2>2, <2>3 DEF LsOpenInstance
<1>8. LsLocks(p)'
  BY <1>1, <1>2, <1>3, <1>7 DEF LsProcessInv, LsLocks, LsStarting, LsServing
<1>9. LsWriters(p)'
  <2>1. ASSUME NEW i \in LsSuffixes, i # a, <<"writer", i>> \in LsOpen(p)'
        PROVE  /\ <<"writer", i>> \in LsOpen(p) /\ <<"writer", i>> # x
               /\ lsAttached'[p][<<"writer", i>>] = lsAttached[p][<<"writer", i>>]
    BY <1>5, <2>1, LsInstancesApart
  <2>2. lsLock[shardCatalogPath(a)] = p
    BY <1>1, <1>2 DEF LsProcessInv, LsLocks, LsStarting
  <2>3. QED
    BY <1>1, <1>2, <1>3, <1>5, <1>7, <2>1, <2>2 DEF LsProcessInv, LsWriters, LsWriter
<1>10. LsServices(p)'
  BY <1>1, <1>2, <1>3, <1>5, <1>7, LsInstancesApart DEF LsProcessInv, LsServices, LsStarting, LsServing
<1>11. LsMarked(p)'
  BY <1>1, <1>2, <1>3, <1>5, <1>7 DEF LsProcessInv, LsMarked, LsStarting
<1>12. QED
  BY <1>4, <1>7, <1>8, <1>9, <1>10, <1>11, LsStepKept DEF LsProcessInv

LEMMA LsRepairStep ==
    ASSUME LsInv, NEW p \in LsProcs, LsRepair(p)
    PROVE  LsInv'
<1> DEFINE a == lsAt[p]
           c == shardCatalogPath(a)
<1>1. /\ LsTypeInv /\ \A q \in LsProcs : LsProcessInv(q)
      /\ a \in LsSuffixes /\ a < lsShards /\ c \in LsCatalogs
  BY LsAtFacts DEF LsInv
<1>2. /\ lsPc[p] = "repair" /\ lsPc'[p] = "attach"
      /\ UNCHANGED <<lsShards, lsTiered, lsFiles, lsLock, lsAttached, lsMarks, lsAt, lsTodo,
                     lsFatal, lsFailure, lsFaults, lsStarts, lsTorn>>
  BY <1>1, LsGoesFacts DEF LsRepair
<1>3. /\ \A i : shardCatalogPath(i)' = shardCatalogPath(i)
      /\ LsDuties(p)' = LsDuties(p) /\ LsOpen(p)' = LsOpen(p)
  BY <1>2 DEF shardCatalogPath, LsDuties, LsOwes, LsOpen, LsStarting, LsServing, LsClosing
<1>4. lsLock[c] = p
  BY <1>1, <1>2 DEF LsProcessInv, LsLocks, LsStarting
<1>5. \A q \in LsProcs : c \notin LsHas(q)
  <2>1. SUFFICES ASSUME NEW q \in LsProcs, NEW x \in LsOpen(q), c \in lsAttached[q][x]
                 PROVE  FALSE
    BY DEF LsHas
  <2>2. x \in LsInstances
    BY <1>1 DEF LsTypeInv
  <2>3. ASSUME NEW i \in LsSuffixes, x = <<"writer", i>>
        PROVE  FALSE
    <3>1. lsLock[shardCatalogPath(i)] = q /\ c = shardCatalogPath(i) /\ i \in LsDuties(q)
      BY <1>1, <2>1, <2>3 DEF LsProcessInv, LsWriters, LsWriter
    <3>2. q = p /\ i \in LsDuties(p)
      BY <1>4, <3>1
    <3>3. i <= a
      BY <1>2, <3>2 DEF LsDuties, LsOwes, LsStarting, LsServing, LsClosing
    <3>4. i = a
      BY <1>1, <3>1, <3>3, LsPathFacts, LsAtFacts DEF LsSuffixes
    <3>5. lsAttached[q][x] = {}
      BY <1>1, <1>2, <2>1, <2>3, <3>2, <3>4 DEF LsProcessInv, LsWriters, LsWriter
    <3>6. QED
      BY <2>1, <3>5
  <2>4. CASE x \in {<<"compaction">>, <<"tiering">>, <<"cleanup">>}
    <3>1. lsPc[q] \in LsServing
      BY <1>1, <2>1, <2>4 DEF LsProcessInv, LsServices, LsServing
    <3>2. lsLock[c] = q
      BY <1>1, <3>1 DEF LsProcessInv, LsLocks
    <3>3. QED
      BY <1>2, <1>4, <3>1, <3>2 DEF LsServing
  <2>5. QED
    BY <2>2, <2>3, <2>4 DEF LsInstances
<1>6. LsRepairAlone'
  BY <1>5 DEF LsInv, LsRepairAlone, LsRepair
<1>7. LsAside(p)
  BY <1>1, <1>2, LsGoesFacts DEF LsAside, LsRepair
<1>8. LsTypeInv'
  BY <1>1, <1>2, <1>6 DEF LsTypeInv, LsRepair, LsGoes, LsOpen, LsStarting, LsRepairAlone
<1>9. LsLocks(p)'
  BY <1>1, <1>2, <1>3 DEF LsProcessInv, LsLocks, LsStarting, LsServing
<1>10. LsWriters(p)'
  <2>1. LsWriters(p)
    BY <1>1 DEF LsProcessInv
  <2>2. QED
    BY <1>2, <1>3, <2>1 DEF LsWriters, LsWriter
<1>11. LsServices(p)'
  BY <1>1, <1>2, <1>3 DEF LsProcessInv, LsServices, LsStarting, LsServing
<1>12. LsMarked(p)'
  BY <1>1, <1>2, <1>3 DEF LsProcessInv, LsMarked, LsStarting
<1>13. LsReports(p)'
  BY <1>1, <1>2 DEF LsProcessInv, LsReports
<1>14. QED
  BY <1>6, <1>7, <1>8, <1>9, <1>10, <1>11, <1>12, <1>13, LsStepKept DEF LsProcessInv

LEMMA LsAttachStep ==
    ASSUME LsInv, NEW p \in LsProcs, LsAttach(p)
    PROVE  LsInv'
<1> DEFINE a == lsAt[p]
           x == <<"writer", a>>
           c == shardCatalogPath(a)
<1>1. LsTypeInv /\ LsProcessInv(p) /\ a \in LsSuffixes /\ a < lsShards /\ x \in LsInstances /\ c \in LsCatalogs
  BY LsAtFacts DEF LsInv, LsInstances
<1>2. /\ lsPc[p] = "attach"
      /\ UNCHANGED <<lsShards, lsTiered, lsLock, lsMarks, lsAt, lsFatal, lsFailure, lsStarts,
                     lsDisturbed, lsTorn>>
  BY DEF LsAttach
<1>3. /\ \A i : shardCatalogPath(i)' = shardCatalogPath(i)
      /\ LsRepairAlone' /\ LsReports(p)' /\ a \in LsDuties(p) /\ lsLock[c] = p
  <2>1. \A i : shardCatalogPath(i)' = shardCatalogPath(i)
    BY <1>2 DEF shardCatalogPath
  <2>2. LsRepairAlone' /\ LsReports(p)'
    BY <1>1, <1>2 DEF LsInv, LsProcessInv, LsReports, LsRepairAlone
  <2>3. a \in LsDuties(p)
    BY <1>1, <1>2, LsAtFacts DEF LsDuties, LsOwes, LsStarting
  <2>4. lsLock[c] = p
    BY <1>1, <1>2 DEF LsProcessInv, LsLocks, LsStarting
  <2>5. QED
    BY <2>1, <2>2, <2>3, <2>4
<1>4. CASE /\ LsWith(p, x, {c}) /\ lsFiles' = lsFiles \cup {c}
           /\ LsGoes(p, "mark") /\ UNCHANGED <<lsTodo, lsFaults>>
  <2>1. /\ DOMAIN lsAttached' = LsProcs
        /\ \A q \in LsProcs \ {p} : lsAttached'[q] = lsAttached[q]
        /\ LsOpen(p)' = LsOpen(p) \cup {x} /\ lsAttached'[p][x] = {c}
        /\ \A y \in LsOpen(p) \ {x} : lsAttached'[p][y] = lsAttached[p][y]
    BY <1>1, <1>4, LsWithFacts
  <2>2. \A q \in LsProcs : LsOpen(q)' \subseteq LsInstances
    BY ZenonT(60), <1>1, <2>1 DEF LsTypeInv, LsOpen
  <2>3. /\ lsPc'[p] = "mark" /\ LsDuties(p)' = LsDuties(p)
        /\ lsPc' = [lsPc EXCEPT ![p] = "mark"]
    <3>1. lsPc'[p] = "mark" /\ lsPc' = [lsPc EXCEPT ![p] = "mark"]
      BY <1>1, <1>4, LsGoesFacts DEF LsGoes
    <3>2. QED
      BY <1>2, <1>4, <3>1 DEF LsDuties, LsOwes, LsStarting, LsServing, LsClosing
  <2>4. LsAside(p)
    BY <1>1, <1>2, <1>4, <2>1, LsGoesFacts DEF LsAside
  <2>5. LsTypeInv'
    BY <1>1, <1>2, <1>4, <2>1, <2>2, <2>3 DEF LsTypeInv, LsStarting
  <2>6. LsLocks(p)'
    BY <1>1, <1>2, <1>3, <2>3 DEF LsProcessInv, LsLocks, LsStarting, LsServing
  <2>7. ASSUME NEW i \in LsSuffixes, i # a, <<"writer", i>> \in LsOpen(p)'
        PROVE  /\ <<"writer", i>> \in LsOpen(p)
               /\ lsAttached'[p][<<"writer", i>>] = lsAttached[p][<<"writer", i>>]
    BY <2>1, <2>7, LsInstancesApart
  <2>8. LsWriters(p)'
    <3>1. LsWriters(p)
      BY <1>1 DEF LsProcessInv
    <3>2. ASSUME NEW i \in LsSuffixes, i # a, <<"writer", i>> \in LsOpen(p)'
          PROVE  LsWriter(p, i)'
      <4>1. LsWriter(p, i)
        BY <2>7, <3>1, <3>2 DEF LsWriters
      <4>2. QED
        BY <1>2, <1>3, <2>3, <2>7, <3>2, <4>1 DEF LsWriter
    <3>3. ASSUME NEW i \in LsSuffixes, i = a
          PROVE  LsWriter(p, i)'
      BY <1>1, <1>2, <1>3, <2>1, <2>3, <3>3 DEF LsWriter
    <3>4. QED
      BY <3>2, <3>3 DEF LsWriters
  <2>9. LsServices(p)'
    BY <1>1, <1>2, <1>3, <1>4, <2>1, <2>3, LsInstancesApart, LsPathFacts, LsAtFacts
       DEF LsProcessInv, LsServices, LsStarting, LsServing
  <2>10. LsMarked(p)'
    BY <1>1, <1>2, <1>3, <2>1, <2>3 DEF LsProcessInv, LsMarked, LsStarting
  <2>11. QED
    BY <1>3, <2>4, <2>5, <2>6, <2>8, <2>9, <2>10, LsStepKept DEF LsProcessInv
<1>5. CASE LsFault /\ LsUnwind(p) /\ UNCHANGED <<lsAttached, lsFiles>>
  <2>1. /\ lsPc' = [lsPc EXCEPT ![p] = "close"]
        /\ lsTodo' \in [LsProcs -> Seq(0..(lsShards - 1))]
        /\ \A q \in LsProcs \ {p} : lsPc'[q] = lsPc[q] /\ lsTodo'[q] = lsTodo[q]
    BY <1>1, <1>5, LsUnwindFacts DEF LsUnwind, LsGoes
  <2>2. lsFaults' \in Nat
    BY <1>1, <1>5 DEF LsFault, LsTypeInv
  <2>3. lsPc'[p] = "close" /\ LsDuties(p) \subseteq LsDuties(p)'
    BY <1>1, <1>2, <1>5, LsUnwindFacts DEF LsDuties, LsOwes, LsStarting, LsServing, LsClosing
  <2>4. LsAside(p) /\ LsOpen(p)' = LsOpen(p)
    BY <1>1, <1>2, <1>5, <2>1 DEF LsAside, LsOpen
  <2>5. \A q \in LsProcs : lsPc'[q] \in {"release", "unlock"} => lsTodo'[q] # << >>
    BY <1>1, <2>1, <2>3 DEF LsTypeInv
  <2>6. LsTypeInv'
    BY <1>1, <1>2, <1>5, <2>1, <2>2, <2>5 DEF LsTypeInv, LsOpen, LsClosing
  <2>7. LsLocks(p)'
    BY <1>1, <1>2, <1>3, <2>3 DEF LsProcessInv, LsLocks, LsStarting, LsServing
  <2>8. LsWriters(p)'
    BY <1>1, <1>2, <1>3, <1>5, <2>3, <2>4 DEF LsProcessInv, LsWriters, LsWriter
  <2>9. LsServices(p)'
    BY <1>1, <1>2, <1>3, <1>5, <2>3, <2>4 DEF LsProcessInv, LsServices, LsStarting, LsServing
  <2>10. LsMarked(p)'
    BY <1>1, <1>2, <1>3, <2>3, <2>4 DEF LsProcessInv, LsMarked, LsStarting
  <2>11. QED
    BY <1>3, <2>4, <2>6, <2>7, <2>8, <2>9, <2>10, LsStepKept DEF LsProcessInv
<1>6. QED
  BY <1>4, <1>5 DEF LsAttach

LEMMA LsMarkStep ==
    ASSUME LsInv, NEW p \in LsProcs, LsMark(p)
    PROVE  LsInv'
<1> DEFINE a == lsAt[p]
           c == shardCatalogPath(a)
<1>1. LsTypeInv /\ LsProcessInv(p) /\ a \in LsSuffixes /\ a < lsShards /\ c \in LsCatalogs
  BY LsAtFacts DEF LsInv
<1>2. /\ lsPc[p] = "mark" /\ MarkCatalogAttached(p, {c})
      /\ UNCHANGED <<lsShards, lsTiered, lsFiles, lsLock, lsAttached, lsTodo, lsFatal, lsFailure,
                     lsFaults, lsStarts, lsDisturbed, lsTorn>>
  BY DEF LsMark
<1>3. /\ \A i : shardCatalogPath(i)' = shardCatalogPath(i)
      /\ LsOpen(p)' = LsOpen(p)
  BY <1>2 DEF shardCatalogPath, LsOpen
<1>4. LsRepairAlone' /\ LsReports(p)'
  BY <1>1, <1>2 DEF LsInv, LsProcessInv, LsReports, LsRepairAlone
<1>5. /\ lsMarks' \in [LsProcs -> [LsCatalogs -> Nat]]
      /\ \A q \in LsProcs \ {p} : lsMarks'[q] = lsMarks[q]
      /\ lsMarks'[p][c] = lsMarks[p][c] + 1
      /\ \A d \in LsCatalogs \ {c} : lsMarks'[p][d] = lsMarks[p][d]
  BY <1>1, <1>2, LsMarkFacts
<1>6. lsMarks[p] \in [LsCatalogs -> Nat] /\ lsMarks'[p] \in [LsCatalogs -> Nat]
  BY <1>1, <1>5 DEF LsTypeInv
<1>7. \A i \in LsSuffixes : shardCatalogPath(i) \in LsCatalogs
  BY <1>1, LsPathFacts DEF LsTypeInv
<1>8. /\ lsLock[c] = p /\ \A i \in LsSuffixes : i < a => lsLock[shardCatalogPath(i)] = p
      /\ \A i \in LsSuffixes : i < a => lsMarks[p][shardCatalogPath(i)] > 0
      /\ LsOpen(p) \cap {<<"compaction">>, <<"tiering">>, <<"cleanup">>} = {}
  BY <1>1, <1>2 DEF LsProcessInv, LsLocks, LsServices, LsStarting
<1>9. \A i \in LsSuffixes : i <= a => lsMarks'[p][shardCatalogPath(i)] > 0
  <2>1. SUFFICES ASSUME NEW i \in LsSuffixes, i <= a
                 PROVE  lsMarks'[p][shardCatalogPath(i)] > 0
    OBVIOUS
  <2>2. CASE shardCatalogPath(i) = c
    BY <1>1, <1>5, <1>6, <2>2
  <2>3. CASE shardCatalogPath(i) # c
    <3>1. i < a
      BY <2>1, <2>3, LsSuffixFacts, LsAtFacts, <1>1
    <3>2. QED
      BY <1>5, <1>7, <1>8, <2>3, <3>1
  <2>4. QED
    BY <2>2, <2>3
<1>10. CASE a + 1 < lsShards /\ LsGoes(p, "lock") /\ lsAt' = [lsAt EXCEPT ![p] = a + 1]
  <2>1. lsPc'[p] = "lock" /\ lsAt'[p] = a + 1 /\ lsPc' = [lsPc EXCEPT ![p] = "lock"]
    BY <1>1, <1>10, LsGoesFacts DEF LsTypeInv, LsGoes
  <2>2. a + 1 \in 0..(lsShards - 1) /\ a + 1 \in LsSuffixes /\ a + 1 # a
    <3>1. a \in Nat /\ lsShards \in 1..LsMaxShards
      BY <1>1, LsAtFacts
    <3>2. QED
      BY <1>10, <3>1, LsSuffixFacts
  <2>3. LsAside(p)
    BY ZenonT(60), <1>1, <1>2, <1>5, <1>10, LsGoesFacts DEF LsAside, LsTypeInv
  <2>4. LsTypeInv'
    BY <1>1, <1>2, <1>5, <1>10, <2>1, <2>2 DEF LsTypeInv, LsStarting, LsOpen
  <2>5. \A i \in LsSuffixes : i <= a <=> i < a + 1
    BY <1>1, LsSuffixFacts
  <2>6. LsDuties(p) \subseteq LsDuties(p)'
    BY <1>1, <1>2, <2>1, LsSuffixFacts DEF LsDuties, LsOwes, LsStarting, LsServing, LsClosing
  <2>7. LsLocks(p)'
    <3>1. \A i \in LsSuffixes : i < a + 1 => lsLock[shardCatalogPath(i)] = p
      BY <1>1, <1>8, LsSuffixFacts
    <3>2. QED
      BY <1>1, <1>2, <1>3, <2>1, <2>6, <3>1 DEF LsProcessInv, LsLocks, LsStarting, LsServing
  <2>8. LsWriters(p)'
    <3>1. SUFFICES ASSUME NEW i \in LsSuffixes, <<"writer", i>> \in LsOpen(p)
                   PROVE  LsWriter(p, i)'
      BY <1>3 DEF LsWriters
    <3>2. LsWriter(p, i)
      BY <1>1, <3>1 DEF LsProcessInv, LsWriters
    <3>3. i <= a
      BY <1>2, <3>2 DEF LsWriter, LsDuties, LsOwes, LsStarting, LsServing, LsClosing
    <3>4. i # a + 1 /\ lsMarks'[p][shardCatalogPath(i)] > 0
      BY <1>1, <1>9, <3>3, LsSuffixFacts
    <3>5. QED
      BY <1>2, <1>3, <2>1, <2>6, <3>2, <3>4 DEF LsWriter
  <2>9. LsServices(p)'
    BY <1>2, <1>3, <1>8, <1>9, <2>1, <2>5 DEF LsServices, LsStarting, LsServing
  <2>10. LsMarked(p)'
    <3>1. SUFFICES ASSUME ~lsTiered
                   PROVE  LsMarked(p)'
      BY <1>2 DEF LsMarked
    <3>2. /\ lsMarks[p][c] = 0
          /\ \A d \in LsCatalogs : lsMarks[p][d] > 0 => \E i \in LsDuties(p) : d = shardCatalogPath(i)
          /\ \A d \in LsCatalogs : ~(lsMarks[p][d] > 1)
      BY <1>1, <1>2, <1>8, <3>1 DEF LsProcessInv, LsMarked, LsStarting
    <3>3. a \in LsDuties(p)
      BY <1>1, <1>2, LsSuffixFacts DEF LsDuties, LsOwes, LsStarting
    <3>4. \A d \in LsCatalogs : lsMarks'[p][d] > 0 => \E i \in LsDuties(p)' : d = shardCatalogPath(i)
      BY <1>5, <2>6, <3>2, <3>3
    <3>5. \A d \in LsCatalogs : ~(lsMarks'[p][d] > 1) /\ lsMarks'[p][d] <= 2
      BY <1>5, <1>6, <3>2
    <3>6. lsMarks[p][shardCatalogPath(a + 1)] = 0
      <4>1. ASSUME NEW i \in LsDuties(p), shardCatalogPath(a + 1) = shardCatalogPath(i)
            PROVE  FALSE
        <5>1. i \in LsSuffixes /\ i <= a
          BY <1>2 DEF LsDuties, LsOwes, LsStarting, LsServing, LsClosing
        <5>2. i < lsShards /\ i # a + 1
          BY <1>1, <5>1, LsSuffixFacts, LsAtFacts
        <5>3. QED
          BY <1>1, <1>10, <2>2, <4>1, <5>1, <5>2, LsPathFacts, LsAtFacts
      <4>2. QED
        BY <1>6, <1>7, <2>2, <3>2, <4>1
    <3>7. shardCatalogPath(a + 1) # c
      BY <1>1, <1>10, <2>2, LsPathFacts, LsAtFacts
    <3>8. lsMarks'[p][shardCatalogPath(a + 1)] = 0
      BY <1>5, <1>7, <2>2, <3>6, <3>7
    <3>9. QED
      BY <1>3, <2>1, <3>4, <3>5, <3>8 DEF LsMarked
  <2>11. QED
    BY <1>4, <2>3, <2>4, <2>7, <2>8, <2>9, <2>10, LsStepKept DEF LsProcessInv
<1>11. CASE ~(a + 1 < lsShards) /\ LsGoes(p, "compaction") /\ UNCHANGED lsAt
  <2>1. lsPc'[p] = "compaction" /\ lsPc' = [lsPc EXCEPT ![p] = "compaction"]
    BY <1>1, <1>11, LsGoesFacts DEF LsGoes
  <2>2. \A i \in LsSuffixes : i <= a <=> i < lsShards
    BY <1>1, <1>11, LsSuffixFacts, LsAtFacts
  <2>3. LsAside(p)
    BY <1>1, <1>2, <1>5, <1>11, LsGoesFacts DEF LsAside
  <2>4. LsTypeInv'
    BY <1>1, <1>2, <1>5, <1>11, <2>1 DEF LsTypeInv, LsServing, LsOpen
  <2>5. LsDuties(p)' = LsDuties(p)
    BY <1>2, <2>1, <2>2 DEF LsDuties, LsOwes, LsStarting, LsServing, LsClosing
  <2>6. LsLocks(p)'
    <3>1. \A i \in LsSuffixes : i < lsShards => lsLock[shardCatalogPath(i)] = p
      BY <1>1, <1>8, <2>2, LsSuffixFacts
    <3>2. QED
      BY <1>1, <1>2, <1>3, <2>1, <2>5, <3>1 DEF LsProcessInv, LsLocks, LsStarting, LsServing
  <2>7. LsWriters(p)'
    <3>1. SUFFICES ASSUME NEW i \in LsSuffixes, <<"writer", i>> \in LsOpen(p)
                   PROVE  LsWriter(p, i)'
      BY <1>3 DEF LsWriters
    <3>2. LsWriter(p, i)
      BY <1>1, <3>1 DEF LsProcessInv, LsWriters
    <3>3. lsMarks'[p][shardCatalogPath(i)] > 0
      BY <1>2, <1>9, <3>2 DEF LsWriter, LsDuties, LsOwes, LsStarting, LsServing, LsClosing
    <3>4. QED
      BY <1>2, <1>3, <2>1, <2>5, <3>2, <3>3 DEF LsWriter
  <2>8. LsServices(p)'
    <3>1. lsShards = 1 => <<"base">> \in lsFiles
      BY <1>1, <1>2 DEF LsProcessInv, LsServices
    <3>2. QED
      BY <1>2, <1>3, <1>8, <1>9, <2>1, <2>2, <3>1 DEF LsServices, LsStarting, LsServing
  <2>9. LsMarked(p)'
    <3>1. SUFFICES ASSUME ~lsTiered
                   PROVE  LsMarked(p)'
      BY <1>2 DEF LsMarked
    <3>2. /\ lsMarks[p][c] = 0
          /\ \A d \in LsCatalogs : lsMarks[p][d] > 0 => \E i \in LsDuties(p) : d = shardCatalogPath(i)
          /\ \A d \in LsCatalogs : ~(lsMarks[p][d] > 1)
      BY <1>1, <1>2, <1>8, <3>1 DEF LsProcessInv, LsMarked, LsStarting
    <3>3. a \in LsDuties(p)
      BY <1>1, <1>2, LsSuffixFacts DEF LsDuties, LsOwes, LsStarting
    <3>4. \A d \in LsCatalogs : lsMarks'[p][d] > 0 => \E i \in LsDuties(p)' : d = shardCatalogPath(i)
      BY <1>5, <2>5, <3>2, <3>3
    <3>5. \A d \in LsCatalogs : ~(lsMarks'[p][d] > 1) /\ lsMarks'[p][d] <= 2
      BY <1>5, <1>6, <3>2
    <3>6. QED
      BY <1>3, <2>1, <3>4, <3>5 DEF LsMarked, LsStarting
  <2>10. QED
    BY <1>4, <2>3, <2>4, <2>6, <2>7, <2>8, <2>9, LsStepKept DEF LsProcessInv
<1>12. QED
  BY <1>10, <1>11 DEF LsMark

-----------------------------------------------------------------------------
(* A process that runs. *)

LEMMA LsWritersKept ==
    ASSUME NEW p \in LsProcs, LsWriters(p), lsPc[p] # "mark",
           lsPc'[p] \notin {"lock", "open", "repair", "attach", "release", "unlock"},
           \A i : shardCatalogPath(i)' = shardCatalogPath(i),
           LsDuties(p) \subseteq LsDuties(p)',
           \A i \in LsSuffixes :
               /\ lsLock[shardCatalogPath(i)] = p => lsLock'[shardCatalogPath(i)] = p
               /\ lsMarks[p][shardCatalogPath(i)] > 0 => lsMarks'[p][shardCatalogPath(i)] > 0
               /\ <<"writer", i>> \in LsOpen(p)' =>
                     \/ lsAttached'[p][<<"writer", i>>] = {} /\ <<"writer", i>> \in LsOpen(p)
                     \/ /\ lsAttached'[p][<<"writer", i>>] = lsAttached[p][<<"writer", i>>]
                        /\ <<"writer", i>> \in LsOpen(p)
    PROVE  LsWriters(p)'
<1>1. SUFFICES ASSUME NEW i \in LsSuffixes, <<"writer", i>> \in LsOpen(p)'
               PROVE  LsWriter(p, i)'
  BY DEF LsWriters
<1>2. LsWriter(p, i)
  BY <1>1 DEF LsWriters
<1>3. i \in LsDuties(p)'
  BY <1>2 DEF LsWriter
<1>4. lsLock'[shardCatalogPath(i)] = p
  BY <1>2 DEF LsWriter
<1>5. /\ lsAttached'[p][<<"writer", i>>] \subseteq {shardCatalogPath(i)}
      /\ lsAttached'[p][<<"writer", i>>] = {} \/ lsMarks'[p][shardCatalogPath(i)] > 0
  BY <1>1, <1>2 DEF LsWriter
<1>6. QED
  BY <1>3, <1>4, <1>5 DEF LsWriter

LEMMA OpenMaintenanceDBStep ==
    ASSUME LsInv, NEW p \in LsProcs, OpenMaintenanceDB(p)
    PROVE  LsInv'
<1> DEFINE c == shardCatalogPath(0)
           next == IF lsTiered THEN "tiering" ELSE "up"
<1>1. LsTypeInv /\ LsProcessInv(p) /\ c \in LsCatalogs /\ 0 \in LsSuffixes /\ 0 < lsShards
  BY LsAtFacts, LsSuffixFacts DEF LsInv
<1>2. /\ lsPc[p] = "compaction" /\ LsGoes(p, next)
      /\ UNCHANGED <<lsShards, lsTiered, lsFiles, lsLock, lsAt, lsTodo, lsFatal, lsFailure,
                     lsStarts, lsDisturbed, lsTorn>>
  BY DEF OpenMaintenanceDB
<1>3. /\ lsPc'[p] = next /\ lsPc' = [lsPc EXCEPT ![p] = next]
      /\ \A i : shardCatalogPath(i)' = shardCatalogPath(i)
  BY <1>1, <1>2, LsGoesFacts DEF LsGoes, shardCatalogPath
<1>4. /\ LsDuties(p)' = LsDuties(p) /\ LsRepairAlone' /\ LsReports(p)'
  <2>1. LsDuties(p)' = LsDuties(p)
    BY <1>2, <1>3 DEF LsDuties, LsOwes, LsStarting, LsServing, LsClosing
  <2>2. LsRepairAlone' /\ LsReports(p)'
    BY <1>1, <1>2 DEF LsInv, LsProcessInv, LsReports, LsRepairAlone
  <2>3. QED
    BY <2>1, <2>2
<1>5. LsLocks(p)'
  BY <1>1, <1>2, <1>3, <1>4 DEF LsProcessInv, LsLocks, LsStarting, LsServing
<1>6. /\ lsTiered \in BOOLEAN
      /\ \A i \in LsSuffixes : shardCatalogPath(i) \in LsCatalogs
      /\ lsMarks[p] \in [LsCatalogs -> Nat]
      /\ \A i \in LsSuffixes : i < lsShards => lsMarks[p][shardCatalogPath(i)] > 0
      /\ LsOpen(p) \cap {<<"compaction">>, <<"tiering">>, <<"cleanup">>} = {}
      /\ lsShards = 1 => <<"base">> \in lsFiles
  <2>1. lsTiered \in BOOLEAN /\ lsMarks[p] \in [LsCatalogs -> Nat]
    BY <1>1 DEF LsTypeInv
  <2>2. \A i \in LsSuffixes : shardCatalogPath(i) \in LsCatalogs
    BY <1>1, LsPathFacts DEF LsTypeInv
  <2>3. QED
    BY <1>1, <1>2, <2>1, <2>2 DEF LsProcessInv, LsServices, LsServing
<1>7. CASE LsWith(p, <<"compaction">>, {c}) /\ MarkCatalogAttached(p, {c}) /\ UNCHANGED lsFaults
  <2>1. /\ DOMAIN lsAttached' = LsProcs
        /\ \A q \in LsProcs \ {p} : lsAttached'[q] = lsAttached[q]
        /\ LsOpen(p)' = LsOpen(p) \cup {<<"compaction">>} /\ lsAttached'[p][<<"compaction">>] = {c}
        /\ \A y \in LsOpen(p) \ {<<"compaction">>} : lsAttached'[p][y] = lsAttached[p][y]
    BY <1>1, <1>7, LsWithFacts
  <2>2. /\ lsMarks' \in [LsProcs -> [LsCatalogs -> Nat]]
        /\ \A q \in LsProcs \ {p} : lsMarks'[q] = lsMarks[q]
        /\ lsMarks'[p][c] = lsMarks[p][c] + 1
        /\ \A d \in LsCatalogs \ {c} : lsMarks'[p][d] = lsMarks[p][d]
    BY <1>1, <1>7, LsMarkFacts
  <2>3. \A q \in LsProcs : LsOpen(q)' \subseteq LsInstances
    BY <1>1, <2>1 DEF LsTypeInv, LsOpen, LsInstances
  <2>4. LsAside(p)
    BY <1>1, <1>2, <2>1, <2>2, LsGoesFacts DEF LsAside
  <2>5. LsTypeInv'
    BY <1>1, <1>2, <1>3, <1>7, <2>1, <2>2, <2>3 DEF LsTypeInv, LsServing
  <2>6. \A d \in LsCatalogs : lsMarks'[p][d] >= lsMarks[p][d] /\ lsMarks[p][d] \in Nat /\ lsMarks'[p][d] \in Nat
    BY <1>1, <1>6, <2>2
  <2>7. LsWriters(p)'
    <3>1. \A i \in LsSuffixes :
             /\ lsMarks[p][shardCatalogPath(i)] > 0 => lsMarks'[p][shardCatalogPath(i)] > 0
             /\ <<"writer", i>> \in LsOpen(p)' =>
                   /\ <<"writer", i>> \in LsOpen(p)
                   /\ lsAttached'[p][<<"writer", i>>] = lsAttached[p][<<"writer", i>>]
      BY <1>6, <2>1, <2>6, LsInstancesApart
    <3>2. QED
      BY <1>1, <1>2, <1>3, <1>4, <3>1, LsWritersKept DEF LsProcessInv
  <2>8. LsServices(p)'
    <3>1. lsMarks'[p][c] > 1
      BY <1>1, <1>6, <2>2
    <3>2. \A i \in LsSuffixes : i < lsShards => lsMarks'[p][shardCatalogPath(i)] > 0
      BY <1>6, <2>6
    <3>3. <<"tiering">> \notin LsOpen(p)' /\ <<"cleanup">> \notin LsOpen(p)'
      BY <1>6, <2>1, LsInstancesApart
    <3>4. QED
      BY <1>2, <1>3, <1>6, <2>1, <3>1, <3>2, <3>3 DEF LsServices, LsStarting, LsServing
  <2>9. LsMarked(p)'
    <3>1. SUFFICES ASSUME ~lsTiered
                   PROVE  LsMarked(p)'
      BY <1>2 DEF LsMarked
    <3>2. /\ \A d \in LsCatalogs : lsMarks[p][d] > 0 => \E i \in LsDuties(p) : d = shardCatalogPath(i)
          /\ \A d \in LsCatalogs : ~(lsMarks[p][d] > 1)
      BY <1>1, <1>6, <3>1 DEF LsProcessInv, LsMarked
    <3>3. 0 \in LsDuties(p)
      BY <1>1, <1>2 DEF LsDuties, LsOwes, LsServing
    <3>4. \A d \in LsCatalogs : lsMarks'[p][d] > 0 => \E i \in LsDuties(p)' : d = shardCatalogPath(i)
      BY <1>4, <2>2, <3>2, <3>3
    <3>5. \A d \in LsCatalogs : lsMarks'[p][d] <= 2 /\ (lsMarks'[p][d] > 1 => d = c)
      BY <1>6, <2>2, <3>2
    <3>6. QED
      BY <1>2, <1>3, <2>1, <3>4, <3>5 DEF LsMarked, LsStarting
  <2>10. QED
    BY <1>4, <1>5, <2>4, <2>5, <2>7, <2>8, <2>9, LsStepKept DEF LsProcessInv
<1>8. CASE LsFault /\ UNCHANGED <<lsAttached, lsMarks>>
  <2>1. lsFaults' \in Nat
    BY <1>1, <1>8 DEF LsFault, LsTypeInv
  <2>2. LsAside(p) /\ LsOpen(p)' = LsOpen(p)
    BY <1>1, <1>2, <1>8, LsGoesFacts DEF LsAside, LsOpen
  <2>3. LsTypeInv'
    BY <1>1, <1>2, <1>3, <1>8, <2>1 DEF LsTypeInv, LsServing, LsOpen
  <2>4. LsWriters(p)'
    BY <1>1, <1>2, <1>3, <1>4, <1>8, <2>2, LsWritersKept DEF LsProcessInv
  <2>5. LsServices(p)'
    BY <1>2, <1>3, <1>6, <1>8, <2>2 DEF LsServices, LsStarting, LsServing
  <2>6. LsMarked(p)'
    BY <1>1, <1>2, <1>3, <1>4, <1>8, <2>2 DEF LsProcessInv, LsMarked, LsStarting
  <2>7. QED
    BY <1>4, <1>5, <2>2, <2>3, <2>4, <2>5, <2>6, LsStepKept DEF LsProcessInv
<1>9. QED
  BY <1>7, <1>8 DEF OpenMaintenanceDB

\* Marks that only grow, of a process that serves.
LEMMA LsMoreMarks ==
    ASSUME LsTypeInv, NEW p \in LsProcs, NEW cats, MarkCatalogAttached(p, cats)
    PROVE  /\ \A c \in LsCatalogs : lsMarks[p][c] > 0 => lsMarks'[p][c] > 0
           /\ \A c \in LsCatalogs : lsMarks[p][c] > 1 => lsMarks'[p][c] > 1
           /\ \A c \in LsCatalogs : c \in cats => lsMarks'[p][c] > 0
<1>1. lsMarks[p] \in [LsCatalogs -> Nat]
  BY DEF LsTypeInv
<1>2. \A c \in LsCatalogs : lsMarks[p][c] \in Nat /\ (lsMarks'[p][c] = lsMarks[p][c] \/ lsMarks'[p][c] = lsMarks[p][c] + 1)
  BY <1>1, LsMarkFacts
<1>3. \A c \in LsCatalogs : c \in cats => lsMarks'[p][c] = lsMarks[p][c] + 1
  BY LsMarkFacts
<1>4. QED
  BY <1>2, <1>3

LEMMA LsStartTieringStep ==
    ASSUME LsInv, NEW p \in LsProcs, LsStartTiering(p)
    PROVE  LsInv'
<1> DEFINE hot == LsHotCatalog(lsFiles)
<1>1. LsTypeInv /\ LsProcessInv(p)
  BY DEF LsInv
<1>2. /\ lsPc[p] = "tiering" /\ LsGoes(p, "up")
      /\ UNCHANGED <<lsShards, lsTiered, lsLock, lsAt, lsTodo, lsFatal, lsFailure, lsStarts,
                     lsDisturbed, lsTorn>>
  BY DEF LsStartTiering
<1>3. /\ lsPc'[p] = "up" /\ lsPc' = [lsPc EXCEPT ![p] = "up"]
      /\ \A i : shardCatalogPath(i)' = shardCatalogPath(i)
  BY <1>1, <1>2, LsGoesFacts DEF LsGoes, shardCatalogPath
<1>4. LsDuties(p)' = LsDuties(p) /\ LsRepairAlone' /\ LsReports(p)'
  <2>1. LsDuties(p)' = LsDuties(p)
    BY <1>2, <1>3 DEF LsDuties, LsOwes, LsStarting, LsServing, LsClosing
  <2>2. LsRepairAlone' /\ LsReports(p)'
    BY <1>1, <1>2 DEF LsInv, LsProcessInv, LsReports, LsRepairAlone
  <2>3. QED
    BY <2>1, <2>2
<1>5. LsLocks(p)'
  BY <1>1, <1>2, <1>3, <1>4 DEF LsProcessInv, LsLocks, LsStarting, LsServing
<1>6. /\ \A i \in LsSuffixes : shardCatalogPath(i) \in LsCatalogs
      /\ hot \in LsCatalogs /\ <<"cold">> \in LsCatalogs
      /\ hot \in {<<"base">>, <<"hot">>}
  BY <1>1, LsPathFacts DEF LsTypeInv, LsHotCatalog
<1>7. PICK cats \in SUBSET {hot, <<"cold">>} :
        /\ MarkCatalogAttached(p, cats) /\ lsFiles' = lsFiles \cup cats
        /\ \/ LsWith(p, <<"tiering">>, {hot, <<"cold">>}) /\ cats = {hot, <<"cold">>}
           \/ UNCHANGED lsAttached
  <2>1. {hot} \in SUBSET {hot, <<"cold">>} /\ {} \in SUBSET {hot, <<"cold">>}
    OBVIOUS
  <2>2. QED
    BY <2>1 DEF LsStartTiering
<1>8. lsFaults' \in Nat
  BY <1>1 DEF LsStartTiering, LsFault, LsTypeInv
<1>9. /\ lsMarks' \in [LsProcs -> [LsCatalogs -> Nat]]
      /\ \A q \in LsProcs \ {p} : lsMarks'[q] = lsMarks[q]
      /\ \A c \in LsCatalogs : lsMarks[p][c] > 0 => lsMarks'[p][c] > 0
      /\ \A c \in LsCatalogs : lsMarks[p][c] > 1 => lsMarks'[p][c] > 1
      /\ \A c \in LsCatalogs : c \in cats => lsMarks'[p][c] > 0
  BY <1>1, <1>7, LsMarkFacts, LsMoreMarks
<1>10. /\ lsTiered
       /\ \A i \in LsSuffixes : i < lsShards => lsMarks'[p][shardCatalogPath(i)] > 0
       /\ LsOpen(p) \cap {<<"tiering">>, <<"cleanup">>} = {}
       /\ <<"compaction">> \in LsOpen(p) =>
             /\ lsAttached[p][<<"compaction">>] = {shardCatalogPath(0)}
             /\ lsMarks'[p][shardCatalogPath(0)] > 1
       /\ lsShards = 1 => <<"base">> \in lsFiles
  BY <1>1, <1>2, <1>6, <1>9, LsAtFacts DEF LsProcessInv, LsServices, LsServing
<1>11. LsMarked(p)'
  BY <1>2, <1>10 DEF LsMarked
<1>12. lsFiles' \subseteq LsCatalogs /\ lsFiles \subseteq lsFiles'
  BY <1>1, <1>6, <1>7 DEF LsTypeInv
<1>13. CASE LsWith(p, <<"tiering">>, {hot, <<"cold">>}) /\ cats = {hot, <<"cold">>}
  <2>1. /\ DOMAIN lsAttached' = LsProcs
        /\ \A q \in LsProcs \ {p} : lsAttached'[q] = lsAttached[q]
        /\ LsOpen(p)' = LsOpen(p) \cup {<<"tiering">>}
        /\ lsAttached'[p][<<"tiering">>] = {hot, <<"cold">>}
        /\ \A y \in LsOpen(p) \ {<<"tiering">>} : lsAttached'[p][y] = lsAttached[p][y]
    BY <1>1, <1>13, LsWithFacts
  <2>2. \A q \in LsProcs : LsOpen(q)' \subseteq LsInstances
    BY <1>1, <2>1 DEF LsTypeInv, LsOpen, LsInstances
  <2>3. LsAside(p)
    BY <1>1, <1>2, <1>9, <1>12, <2>1, LsGoesFacts DEF LsAside
  <2>4. LsTypeInv'
    BY <1>1, <1>2, <1>3, <1>8, <1>9, <1>12, <2>1, <2>2 DEF LsTypeInv, LsServing
  <2>5. LsWriters(p)'
    <3>1. \A i \in LsSuffixes :
             /\ lsMarks[p][shardCatalogPath(i)] > 0 => lsMarks'[p][shardCatalogPath(i)] > 0
             /\ <<"writer", i>> \in LsOpen(p)' =>
                   /\ <<"writer", i>> \in LsOpen(p)
                   /\ lsAttached'[p][<<"writer", i>>] = lsAttached[p][<<"writer", i>>]
      BY <1>6, <1>9, <2>1, LsInstancesApart
    <3>2. QED
      BY <1>1, <1>2, <1>3, <1>4, <3>1, LsWritersKept DEF LsProcessInv
  <2>6. LsServices(p)'
    <3>1. <<"cleanup">> \notin LsOpen(p)'
      BY <1>10, <2>1, LsInstancesApart
    <3>2. lsShards = 1 => hot = <<"base">> /\ shardCatalogPath(0) = <<"base">>
      BY <1>1, <1>10, LsPathFacts DEF LsHotCatalog, LsTypeInv
    <3>3. lsShards # 1 => shardCatalogPath(0) \notin {hot, <<"cold">>}
      BY <1>1, <1>6, LsPathFacts, LsSuffixFacts DEF LsTypeInv
    <3>4. <<"compaction">> \in LsOpen(p)' =>
             /\ lsAttached'[p][<<"compaction">>] = {shardCatalogPath(0)}
             /\ lsMarks'[p][shardCatalogPath(0)] > 1
      BY <1>10, <2>1, LsInstancesApart
    <3>5. \A d \in {hot, <<"cold">>} : lsMarks'[p][d] > 0
      BY <1>6, <1>9, <1>13
    <3>6. {hot, <<"cold">>} \subseteq {<<"base">>, <<"hot">>, <<"cold">>}
      BY <1>6
    <3>7. (lsShards = 1) <=> (shardCatalogPath(0) \in {hot, <<"cold">>})
      BY <3>2, <3>3
    <3> HIDE DEF hot
    <3>8. QED
      BY <1>2, <1>3, <1>10, <2>1, <3>1, <3>4, <3>5, <3>6, <3>7 DEF LsServices, LsStarting, LsServing
  <2>7. QED
    BY <1>4, <1>5, <1>11, <2>3, <2>4, <2>5, <2>6, LsStepKept DEF LsProcessInv
<1>14. CASE UNCHANGED lsAttached
  <2>1. LsAside(p) /\ LsOpen(p)' = LsOpen(p)
    BY <1>1, <1>2, <1>9, <1>12, <1>14, LsGoesFacts DEF LsAside, LsOpen
  <2>2. LsTypeInv'
    BY <1>1, <1>2, <1>3, <1>8, <1>9, <1>12, <1>14 DEF LsTypeInv, LsServing, LsOpen
  <2>3. LsWriters(p)'
    BY <1>1, <1>2, <1>3, <1>4, <1>6, <1>9, <1>14, <2>1, LsWritersKept DEF LsProcessInv
  <2>4. LsServices(p)'
    BY <1>2, <1>3, <1>10, <1>14, <2>1 DEF LsServices, LsStarting, LsServing
  <2>5. QED
    BY <1>4, <1>5, <1>11, <2>1, <2>2, <2>3, <2>4, LsStepKept DEF LsProcessInv
<1>15. QED
  BY <1>7, <1>13, <1>14

LEMMA LsFileCleanupStep ==
    ASSUME LsInv, NEW p \in LsProcs, NEW c \in LsCatalogs, LsFileCleanup(p, c)
    PROVE  LsInv'
<1> DEFINE before == IF <<"cleanup">> \in LsOpen(p) THEN lsAttached[p][<<"cleanup">>] ELSE {}
<1>1. LsTypeInv /\ LsProcessInv(p)
  BY DEF LsInv
<1>2. /\ lsPc[p] = "up" /\ <<"tiering">> \in LsOpen(p) /\ c \in lsAttached[p][<<"tiering">>]
      /\ LsWith(p, <<"cleanup">>, before \cup {c}) /\ MarkCatalogAttached(p, {c})
      /\ UNCHANGED <<lsShards, lsTiered, lsFiles, lsLock, lsPc, lsAt, lsTodo, lsFatal, lsFailure,
                     lsFaults, lsStarts, lsDisturbed, lsTorn>>
  BY DEF LsFileCleanup
<1>3. /\ \A i : shardCatalogPath(i)' = shardCatalogPath(i)
      /\ LsDuties(p)' = LsDuties(p)
  BY <1>2 DEF shardCatalogPath, LsDuties, LsOwes, LsStarting, LsServing, LsClosing
<1>4. LsRepairAlone' /\ LsReports(p)'
  BY <1>1, <1>2 DEF LsInv, LsProcessInv, LsReports, LsRepairAlone
<1>5. LsLocks(p)'
  BY <1>1, <1>2, <1>3 DEF LsProcessInv, LsLocks, LsStarting, LsServing
<1>6. \A i \in LsSuffixes : shardCatalogPath(i) \in LsCatalogs
  BY <1>1, LsPathFacts DEF LsTypeInv
<1>7. /\ lsMarks' \in [LsProcs -> [LsCatalogs -> Nat]]
      /\ \A q \in LsProcs \ {p} : lsMarks'[q] = lsMarks[q]
      /\ \A d \in LsCatalogs : lsMarks[p][d] > 0 => lsMarks'[p][d] > 0
      /\ \A d \in LsCatalogs : lsMarks[p][d] > 1 => lsMarks'[p][d] > 1
  BY <1>1, <1>2, LsMarkFacts, LsMoreMarks
<1>8. /\ DOMAIN lsAttached' = LsProcs
      /\ \A q \in LsProcs \ {p} : lsAttached'[q] = lsAttached[q]
      /\ LsOpen(p)' = LsOpen(p) \cup {<<"cleanup">>}
      /\ lsAttached'[p][<<"cleanup">>] = before \cup {c}
      /\ \A y \in LsOpen(p) \ {<<"cleanup">>} : lsAttached'[p][y] = lsAttached[p][y]
  <2> HIDE DEF before
  <2>1. QED
    BY <1>1, <1>2, LsWithFacts
<1>9. \A q \in LsProcs : LsOpen(q)' \subseteq LsInstances
  BY <1>1, <1>8 DEF LsTypeInv, LsOpen, LsInstances
<1>10. LsAside(p)
  BY <1>1, <1>2, <1>7, <1>8 DEF LsAside
<1>11. LsTypeInv'
  BY <1>1, <1>2, <1>7, <1>8, <1>9 DEF LsTypeInv
<1>12. LsWriters(p)'
  <2>1. \A i \in LsSuffixes :
           /\ lsMarks[p][shardCatalogPath(i)] > 0 => lsMarks'[p][shardCatalogPath(i)] > 0
           /\ <<"writer", i>> \in LsOpen(p)' =>
                 /\ <<"writer", i>> \in LsOpen(p)
                 /\ lsAttached'[p][<<"writer", i>>] = lsAttached[p][<<"writer", i>>]
    BY <1>6, <1>7, <1>8, LsInstancesApart
  <2>2. QED
    BY <1>1, <1>2, <1>3, <2>1, LsWritersKept DEF LsProcessInv
<1>13. /\ lsTiered
       /\ lsAttached[p][<<"tiering">>] \subseteq {<<"base">>, <<"hot">>, <<"cold">>}
       /\ (lsShards = 1) <=> (shardCatalogPath(0) \in lsAttached[p][<<"tiering">>])
       /\ \A d \in lsAttached[p][<<"tiering">>] : lsMarks[p][d] > 0
       /\ before \cup {c} \subseteq lsAttached[p][<<"tiering">>]
  BY <1>1, <1>2 DEF LsProcessInv, LsServices
<1>14. LsServices(p)'
  <2>1. <<"tiering">> \in LsOpen(p)' /\ lsAttached'[p][<<"tiering">>] = lsAttached[p][<<"tiering">>]
    BY <1>2, <1>8, LsInstancesApart
  <2>2. <<"compaction">> \in LsOpen(p)' =>
           /\ <<"compaction">> \in LsOpen(p)
           /\ lsAttached'[p][<<"compaction">>] = lsAttached[p][<<"compaction">>]
    BY <1>8, LsInstancesApart
  <2>3. \A d \in lsAttached[p][<<"tiering">>] : lsMarks'[p][d] > 0
    BY <1>1, <1>7, <1>13, LsPathFacts DEF LsTypeInv
  <2>4. \A i \in LsSuffixes : i < lsShards => lsMarks'[p][shardCatalogPath(i)] > 0
    BY <1>1, <1>2, <1>6, <1>7 DEF LsProcessInv, LsServices, LsServing
  <2>5. <<"compaction">> \in LsOpen(p)' =>
           /\ lsAttached'[p][<<"compaction">>] = {shardCatalogPath(0)}
           /\ lsMarks'[p][shardCatalogPath(0)] > 1
    BY <1>1, <1>7, <2>2, LsAtFacts DEF LsProcessInv, LsServices
  <2> HIDE DEF before
  <2>6. QED
    BY <1>2, <1>3, <1>8, <1>13, <2>1, <2>3, <2>4, <2>5 DEF LsServices, LsStarting, LsServing
<1>15. LsMarked(p)'
  BY <1>2, <1>13 DEF LsMarked
<1>16. QED
  BY <1>4, <1>5, <1>10, <1>11, <1>12, <1>14, <1>15, LsStepKept DEF LsProcessInv

LEMMA LsRefreshStep ==
    ASSUME LsInv, NEW p \in LsProcs, LsRefresh(p)
    PROVE  LsInv'
<1>1. LsTypeInv /\ LsProcessInv(p)
  BY DEF LsInv
<1>2. PICK i \in 0..(lsShards - 1) :
        /\ i \notin lsTorn[p]
        /\ LsWith(p, <<"writer", i>>, {})
        /\ lsTorn' = [lsTorn EXCEPT ![p] = @ \cup {i}]
  BY DEF LsRefresh
<1>3. /\ lsPc[p] = "up" /\ i \in LsSuffixes
      /\ UNCHANGED <<lsShards, lsTiered, lsFiles, lsLock, lsMarks, lsPc, lsAt, lsTodo, lsFatal,
                     lsFailure, lsStarts, lsDisturbed>>
  BY <1>1, LsAtFacts, LsSuffixFacts DEF LsRefresh
<1>4. lsFaults' \in Nat
  BY <1>1 DEF LsRefresh, LsFault, LsTypeInv
<1>5. /\ DOMAIN lsAttached' = LsProcs
      /\ \A q \in LsProcs \ {p} : lsAttached'[q] = lsAttached[q]
      /\ LsOpen(p)' = LsOpen(p) \cup {<<"writer", i>>} /\ lsAttached'[p][<<"writer", i>>] = {}
      /\ \A y \in LsOpen(p) \ {<<"writer", i>>} : lsAttached'[p][y] = lsAttached[p][y]
  BY <1>1, <1>2, LsWithFacts
<1>6. /\ \A j : shardCatalogPath(j)' = shardCatalogPath(j)
      /\ LsDuties(p)' = LsDuties(p)
  BY <1>3 DEF shardCatalogPath, LsDuties, LsOwes, LsStarting, LsServing, LsClosing
<1>7. LsRepairAlone' /\ LsReports(p)'
  BY <1>1, <1>3 DEF LsInv, LsProcessInv, LsReports, LsRepairAlone
<1>8. LsLocks(p)'
  BY <1>1, <1>3, <1>6 DEF LsProcessInv, LsLocks, LsStarting, LsServing
<1>9. LsAside(p)
  BY <1>1, <1>3, <1>5 DEF LsAside
<1>10. LsTypeInv'
  <2>1. \A q \in LsProcs : LsOpen(q)' \subseteq LsInstances
    <3>1. <<"writer", i>> \in LsInstances
      BY <1>3 DEF LsInstances
    <3>2. QED
      BY ZenonT(60), <1>1, <1>5, <3>1 DEF LsTypeInv, LsOpen
  <2>2. lsTorn' \in [LsProcs -> SUBSET LsSuffixes]
    BY <1>1, <1>2, <1>3 DEF LsTypeInv
  <2>3. QED
    BY <1>1, <1>3, <1>4, <1>5, <2>1, <2>2 DEF LsTypeInv
<1>11. i \in LsDuties(p) /\ lsLock[shardCatalogPath(i)] = p
  <2>1. i < lsShards
    BY <1>1, LsAtFacts
  <2>2. QED
    BY <1>1, <1>3, <2>1 DEF LsDuties, LsOwes, LsServing, LsProcessInv, LsLocks
<1>12. LsWriters(p)'
  <2>1. SUFFICES ASSUME NEW j \in LsSuffixes, <<"writer", j>> \in LsOpen(p)'
                 PROVE  LsWriter(p, j)'
    BY DEF LsWriters
  <2>2. CASE j = i
    BY <1>3, <1>5, <1>6, <1>11, <2>2 DEF LsWriter
  <2>3. CASE j # i
    <3>1. /\ <<"writer", j>> \in LsOpen(p)
          /\ lsAttached'[p][<<"writer", j>>] = lsAttached[p][<<"writer", j>>]
      BY <1>5, <2>1, <2>3, LsInstancesApart
    <3>2. LsWriter(p, j)
      BY <1>1, <3>1 DEF LsProcessInv, LsWriters
    <3>3. QED
      BY <1>3, <1>6, <3>1, <3>2 DEF LsWriter
  <2>4. QED
    BY <2>2, <2>3
<1>13. LsServices(p)'
  <2>1. \A y \in {<<"compaction">>, <<"tiering">>, <<"cleanup">>} :
           /\ y \in LsOpen(p)' <=> y \in LsOpen(p)
           /\ y \in LsOpen(p) => lsAttached'[p][y] = lsAttached[p][y]
    BY <1>5, LsInstancesApart
  <2>2. QED
    BY <1>1, <1>3, <1>6, <2>1 DEF LsProcessInv, LsServices
<1>14. LsMarked(p)'
  <2>1. <<"compaction">> \in LsOpen(p) => <<"compaction">> \in LsOpen(p)'
    BY <1>5
  <2>2. QED
    BY <1>1, <1>3, <1>6, <2>1 DEF LsProcessInv, LsMarked
<1>15. QED
  BY <1>7, <1>8, <1>9, <1>10, <1>12, <1>13, <1>14, LsStepKept DEF LsProcessInv

\* Steps that only say what DuckDB or main has noticed.
LEMMA LsNoticeStep ==
    ASSUME LsInv, NEW p \in LsProcs,
           \/ \E i \in LsSuffixes : LsInvalidate(p, i) \/ noteFlushError(p, i)
           \/ LsInvalidated(p)
           \/ LsSignal(p)
    PROVE  LsInv'
<1>1. LsTypeInv /\ LsProcessInv(p)
  BY DEF LsInv
<1>2. /\ lsPc[p] = "up" /\ lsPc'[p] \in {"up", "stop"}
      /\ lsPc' = [lsPc EXCEPT ![p] = lsPc'[p]]
  <2>1. CASE \E i \in LsSuffixes : LsInvalidate(p, i) \/ noteFlushError(p, i)
    BY <1>1, <2>1 DEF LsInvalidate, noteFlushError, LsTypeInv
  <2>2. CASE LsInvalidated(p) \/ LsSignal(p)
    BY <1>1, <2>2 DEF LsInvalidated, LsSignal, LsGoes, LsTypeInv
  <2>3. QED
    BY <2>1, <2>2
<1>3. UNCHANGED <<lsShards, lsTiered, lsFiles, lsLock, lsAttached, lsMarks, lsAt, lsTodo, lsStarts,
                  lsDisturbed, lsTorn>>
  BY DEF LsInvalidate, noteFlushError, LsInvalidated, LsSignal
<1>4. lsFaults' \in Nat
  BY <1>1 DEF LsInvalidate, noteFlushError, LsInvalidated, LsSignal, LsFault, LsTypeInv
<1>5. /\ lsFatal' \in [LsProcs -> SUBSET LsSuffixes]
      /\ \A q \in LsProcs \ {p} : lsFatal'[q] = lsFatal[q]
      /\ lsFatal[p] \subseteq lsFatal'[p]
  <2>1. ASSUME NEW i \in LsSuffixes, lsFatal' = [lsFatal EXCEPT ![p] = @ \cup {i}]
        PROVE  <1>5
    BY <1>1, <2>1 DEF LsTypeInv
  <2>2. CASE UNCHANGED lsFatal
    BY <1>1, <2>2 DEF LsTypeInv
  <2>3. QED
    BY <2>1, <2>2 DEF LsInvalidate, noteFlushError, LsInvalidated, LsSignal
<1>6. /\ lsFailure' \in [LsProcs -> {"none", "sent", "taken"}]
      /\ \A q \in LsProcs \ {p} : lsFailure'[q] = lsFailure[q]
      /\ lsFailure'[p] # "none" => lsFatal[p] # {}
  BY <1>1 DEF LsInvalidate, noteFlushError, instanceInvalidated, LsInvalidated, LsSignal, LsTypeInv,
              LsProcessInv, LsReports
<1>7. /\ \A i : shardCatalogPath(i)' = shardCatalogPath(i)
      /\ LsDuties(p)' = LsDuties(p) /\ LsOpen(p)' = LsOpen(p)
  BY <1>2, <1>3 DEF shardCatalogPath, LsDuties, LsOwes, LsOpen, LsStarting, LsServing, LsClosing
<1>8. LsAside(p)
  BY <1>1, <1>2, <1>3, <1>5, <1>6 DEF LsAside, LsTypeInv
<1>9. LsTypeInv'
  <2>1. \A q \in LsProcs : lsPc'[q] \in {"release", "unlock"} => lsTodo'[q] # << >>
    BY <1>1, <1>2, <1>3 DEF LsTypeInv
  <2>2. lsPc' \in [LsProcs -> {"off", "stopped"} \cup LsStarting \cup LsServing \cup LsClosing]
    BY <1>1, <1>2 DEF LsTypeInv, LsServing
  <2>3. QED
    BY <1>1, <1>3, <1>4, <1>5, <1>6, <2>1, <2>2 DEF LsTypeInv, LsOpen
<1>10. LsRepairAlone' /\ LsReports(p)'
  BY <1>3, <1>5, <1>6 DEF LsInv, LsRepairAlone, LsReports
<1>11. LsLocks(p)'
  BY <1>1, <1>2, <1>3, <1>7 DEF LsProcessInv, LsLocks, LsStarting, LsServing
<1>12. LsWriters(p)'
  BY <1>1, <1>2, <1>3, <1>7, LsWritersKept DEF LsProcessInv
<1>13. LsServices(p)'
  BY <1>1, <1>2, <1>3, <1>7 DEF LsProcessInv, LsServices, LsStarting, LsServing
<1>14. LsMarked(p)'
  BY <1>1, <1>2, <1>3, <1>7 DEF LsProcessInv, LsMarked, LsStarting
<1>15. QED
  BY <1>8, <1>9, <1>10, <1>11, <1>12, <1>13, <1>14, LsStepKept DEF LsProcessInv

-----------------------------------------------------------------------------
(* A process that stops. *)

LEMMA LsStopServicesStep ==
    ASSUME LsInv, NEW p \in LsProcs, LsStopServices(p)
    PROVE  LsInv'
<1> DEFINE c == shardCatalogPath(0)
           all == [j \in 1..lsShards |-> j - 1]
           services == {<<"compaction">>, <<"tiering">>, <<"cleanup">>}
<1>1. /\ LsTypeInv /\ LsProcessInv(p) /\ c \in LsCatalogs /\ 0 \in LsSuffixes
      /\ lsShards \in Nat \ {0}
  BY LsAtFacts, LsSuffixFacts DEF LsInv
<1>2. /\ lsPc[p] = "stop" /\ LsWithout(p, services) /\ LsGoes(p, "close")
      /\ lsTodo' = [lsTodo EXCEPT ![p] = all]
      /\ UNCHANGED <<lsShards, lsTiered, lsFiles, lsLock, lsAt, lsFatal, lsFailure, lsFaults, lsStarts,
                     lsDisturbed, lsTorn>>
  BY DEF LsStopServices
<1>3. /\ lsPc'[p] = "close" /\ lsPc' = [lsPc EXCEPT ![p] = "close"]
      /\ \A i : shardCatalogPath(i)' = shardCatalogPath(i)
  BY <1>1, <1>2, LsGoesFacts DEF LsGoes, shardCatalogPath
<1>4. /\ all \in Seq(0..(lsShards - 1)) /\ Len(all) = lsShards
      /\ \A i \in LsSuffixes : i < lsShards => i + 1 \in 1..Len(all) /\ all[i + 1] = i
  <2>1. all \in Seq(0..(lsShards - 1)) /\ Len(all) = lsShards
    BY <1>1
  <2>2. \A i \in LsSuffixes : i < lsShards => i + 1 \in 1..lsShards /\ all[i + 1] = i
    BY <1>1, LsSuffixFacts
  <2>3. QED
    BY <2>1, <2>2
<1>5. /\ lsTodo'[p] = all /\ lsTodo' \in [LsProcs -> Seq(0..(lsShards - 1))]
      /\ \A q \in LsProcs \ {p} : lsTodo'[q] = lsTodo[q]
  <2> HIDE DEF all
  <2>1. QED
    BY <1>1, <1>2, <1>4 DEF LsTypeInv
<1>6. LsDuties(p) \subseteq LsDuties(p)'
  <2>1. ASSUME NEW i \in LsDuties(p)
        PROVE  i \in LsDuties(p)'
    <3>1. i \in LsSuffixes /\ i < lsShards
      BY <1>2 DEF LsDuties, LsOwes, LsStarting, LsServing, LsClosing
    <3>2. \E k \in 1..Len(lsTodo'[p]) : lsTodo'[p][k] = i
      BY <1>4, <1>5, <3>1
    <3>3. QED
      BY <1>3, <3>1, <3>2 DEF LsDuties, LsOwes, LsClosing
  <2>2. QED
    BY <2>1
<1>7. /\ DOMAIN lsAttached' = LsProcs
      /\ \A q \in LsProcs \ {p} : lsAttached'[q] = lsAttached[q]
      /\ LsOpen(p)' = LsOpen(p) \ services
      /\ \A y \in LsOpen(p) \ services : lsAttached'[p][y] = lsAttached[p][y]
  <2> HIDE DEF services
  <2>1. QED
    BY <1>1, <1>2, LsWithoutFacts
<1>8. \A i \in LsSuffixes : shardCatalogPath(i) \in LsCatalogs
  BY <1>1, LsPathFacts DEF LsTypeInv
<1>9. lsMarks[p] \in [LsCatalogs -> Nat]
  BY <1>1 DEF LsTypeInv
<1>10. /\ lsMarks' \in [LsProcs -> [LsCatalogs -> Nat]]
       /\ \A q \in LsProcs \ {p} : lsMarks'[q] = lsMarks[q]
       /\ \A d \in LsCatalogs : lsMarks[p][d] > 0 => lsMarks'[p][d] > 0
       /\ \A d \in LsCatalogs : lsMarks'[p][d] <= lsMarks[p][d]
       /\ \A d \in LsCatalogs : lsMarks'[p][d] \in Nat
       /\ ~lsTiered => \A d \in LsCatalogs : ~(lsMarks'[p][d] > 1)
  <2>1. CASE <<"compaction">> \in LsOpen(p)
    <3>1. LsRelease(p, c)
      BY <2>1 DEF LsStopServices
    <3>2. lsMarks[p][c] > 1
      BY <1>1, <2>1 DEF LsProcessInv, LsServices
    <3>3. ~lsTiered => \A d \in LsCatalogs : (lsMarks[p][d] > 1 => d = c) /\ lsMarks[p][d] <= 2
      BY <1>1 DEF LsProcessInv, LsMarked
    <3>4. /\ lsMarks' \in [LsProcs -> [LsCatalogs -> Nat]]
          /\ \A q \in LsProcs \ {p} : lsMarks'[q] = lsMarks[q]
          /\ lsMarks'[p][c] = lsMarks[p][c] - 1
          /\ \A d \in LsCatalogs \ {c} : lsMarks'[p][d] = lsMarks[p][d]
      BY <1>1, <3>1, <3>2, LsReleaseFacts
    <3> HIDE DEF c
    <3>5. QED
      BY <1>1, <1>9, <3>2, <3>3, <3>4
  <2>2. CASE <<"compaction">> \notin LsOpen(p)
    <3>1. UNCHANGED lsMarks
      BY <2>2 DEF LsStopServices
    <3>2. ~lsTiered => \A d \in LsCatalogs : ~(lsMarks[p][d] > 1)
      BY <1>1, <2>2 DEF LsProcessInv, LsMarked
    <3>3. QED
      BY <1>1, <1>9, <3>1, <3>2 DEF LsTypeInv
  <2>3. QED
    BY <2>1, <2>2
<1>11. LsAside(p)
  BY <1>1, <1>2, <1>5, <1>7, <1>10, LsGoesFacts DEF LsAside
<1>12. LsTypeInv'
  <2>1. \A q \in LsProcs : lsPc'[q] \in {"release", "unlock"} => lsTodo'[q] # << >>
    BY <1>1, <1>3, <1>5 DEF LsTypeInv
  <2>2. \A q \in LsProcs : LsOpen(q)' \subseteq LsInstances
    BY <1>1, <1>7 DEF LsTypeInv, LsOpen
  <2>3. QED
    BY <1>1, <1>2, <1>3, <1>5, <1>7, <1>10, <2>1, <2>2 DEF LsTypeInv, LsClosing
<1>13. LsLocks(p)'
  BY <1>1, <1>2, <1>3, <1>6 DEF LsProcessInv, LsLocks, LsStarting, LsServing
<1>14. LsWriters(p)'
  BY <1>1, <1>2, <1>3, <1>6, <1>7, <1>8, <1>10, LsWritersKept DEF LsProcessInv
<1>15. LsServices(p)'
  BY <1>3, <1>7 DEF LsServices, LsStarting, LsServing
<1>16. LsMarked(p)'
  <2>1. SUFFICES ASSUME ~lsTiered
                 PROVE  LsMarked(p)'
    BY <1>2 DEF LsMarked
  <2>2. \A d \in LsCatalogs : lsMarks'[p][d] > 0 => \E i \in LsDuties(p)' : d = shardCatalogPath(i)
    BY <1>1, <1>6, <1>9, <1>10, <2>1 DEF LsProcessInv, LsMarked
  <2>3. \A d \in LsCatalogs : ~(lsMarks'[p][d] > 1) /\ lsMarks'[p][d] <= 2
    BY <1>10, <2>1
  <2>4. QED
    BY <1>3, <2>2, <2>3 DEF LsMarked, LsStarting
<1>17. LsRepairAlone' /\ LsReports(p)'
  BY <1>1, <1>2 DEF LsInv, LsProcessInv, LsReports, LsRepairAlone
<1>18. QED
  BY <1>11, <1>12, <1>13, <1>14, <1>15, <1>16, <1>17, LsStepKept DEF LsProcessInv

LEMMA LsCloseStep ==
    ASSUME LsInv, NEW p \in LsProcs, LsClose(p)
    PROVE  LsInv'
<1>1. LsTypeInv /\ LsProcessInv(p)
  BY DEF LsInv
<1>2. /\ lsPc[p] = "close"
      /\ UNCHANGED <<lsShards, lsTiered, lsFiles, lsLock, lsMarks, lsAt, lsTodo, lsFatal, lsFailure,
                     lsFaults, lsStarts, lsDisturbed, lsTorn>>
  BY DEF LsClose
<1>3. /\ \A i : shardCatalogPath(i)' = shardCatalogPath(i)
      /\ LsRepairAlone' /\ LsReports(p)'
  <2>1. \A i : shardCatalogPath(i)' = shardCatalogPath(i)
    BY <1>2 DEF shardCatalogPath
  <2>2. QED
    BY <1>1, <1>2, <2>1 DEF LsInv, LsProcessInv, LsReports, LsRepairAlone
<1>4. CASE lsTodo[p] = << >> /\ LsGoes(p, "stopped") /\ UNCHANGED lsAttached
  <2>1. lsPc'[p] = "stopped" /\ lsPc' = [lsPc EXCEPT ![p] = "stopped"]
    BY <1>1, <1>4, LsGoesFacts DEF LsGoes
  <2>2. LsDuties(p) = {} /\ LsOpen(p)' = LsOpen(p)
    BY <1>2, <1>4 DEF LsDuties, LsOwes, LsOpen, LsStarting, LsServing, LsClosing
  <2>3. LsAside(p)
    BY <1>1, <1>2, <1>4, LsGoesFacts DEF LsAside
  <2>4. LsTypeInv'
    BY <1>1, <1>2, <1>4, <2>1 DEF LsTypeInv, LsOpen
  <2>5. LsLocks(p)'
    BY <1>1, <1>2, <2>1, <2>2 DEF LsProcessInv, LsLocks, LsStarting, LsServing
  <2>6. LsWriters(p)'
    BY <1>1, <2>2 DEF LsProcessInv, LsWriters, LsWriter
  <2>7. LsServices(p)'
    BY <1>1, <1>2, <2>1, <2>2 DEF LsProcessInv, LsServices, LsStarting, LsServing
  <2>8. LsMarked(p)'
    <3>1. ~lsTiered => \A d \in LsCatalogs : ~(lsMarks[p][d] > 0)
      BY <1>1, <2>2 DEF LsProcessInv, LsMarked
    <3>2. lsMarks[p] \in [LsCatalogs -> Nat]
      BY <1>1 DEF LsTypeInv
    <3>3. QED
      BY <1>2, <2>1, <3>1, <3>2 DEF LsMarked, LsStarting
  <2>9. QED
    BY <1>3, <2>3, <2>4, <2>5, <2>6, <2>7, <2>8, LsStepKept DEF LsProcessInv
<1>5. CASE lsTodo[p] # << >> /\ LsWithout(p, {<<"writer", Head(lsTodo[p])>>}) /\ LsGoes(p, "release")
  <2> DEFINE xs == {<<"writer", Head(lsTodo[p])>>}
  <2>1. lsPc'[p] = "release" /\ lsPc' = [lsPc EXCEPT ![p] = "release"]
    BY <1>1, <1>5, LsGoesFacts DEF LsGoes
  <2>2. LsDuties(p)' = LsDuties(p)
    BY <1>2, <2>1 DEF LsDuties, LsOwes, LsStarting, LsServing, LsClosing
  <2>3. /\ DOMAIN lsAttached' = LsProcs
        /\ \A q \in LsProcs \ {p} : lsAttached'[q] = lsAttached[q]
        /\ LsOpen(p)' = LsOpen(p) \ xs
        /\ \A y \in LsOpen(p) \ xs : lsAttached'[p][y] = lsAttached[p][y]
    BY <1>1, <1>5, LsWithoutFacts
  <2>4. LsAside(p)
    BY <1>1, <1>2, <1>5, <2>3, LsGoesFacts DEF LsAside
  <2>5. LsTypeInv'
    <3>1. \A q \in LsProcs : LsOpen(q)' \subseteq LsInstances
      BY <1>1, <2>3 DEF LsTypeInv, LsOpen
    <3>2. \A q \in LsProcs : lsPc'[q] \in {"release", "unlock"} => lsTodo'[q] # << >>
      BY <1>1, <1>2, <1>5, <2>1 DEF LsTypeInv
    <3>3. QED
      BY <1>1, <1>2, <2>1, <2>3, <3>1, <3>2 DEF LsTypeInv, LsClosing
  <2>6. LsLocks(p)'
    BY <1>1, <1>2, <1>3, <2>1, <2>2 DEF LsProcessInv, LsLocks, LsStarting, LsServing
  <2>7. LsWriters(p)'
    <3>1. SUFFICES ASSUME NEW i \in LsSuffixes, <<"writer", i>> \in LsOpen(p)'
                   PROVE  LsWriter(p, i)'
      BY DEF LsWriters
    <3>2. /\ <<"writer", i>> \in LsOpen(p) /\ i # Head(lsTodo[p])
          /\ lsAttached'[p][<<"writer", i>>] = lsAttached[p][<<"writer", i>>]
      BY <2>3, <3>1
    <3>3. LsWriter(p, i)
      BY <1>1, <3>2 DEF LsProcessInv, LsWriters
    <3>4. QED
      BY <1>2, <1>3, <2>1, <2>2, <3>2, <3>3 DEF LsWriter
  <2>8. LsServices(p)'
    <3>1. LsOpen(p)' \subseteq LsOpen(p)
      BY <2>3
    <3>2. LsOpen(p) \cap {<<"compaction">>, <<"tiering">>, <<"cleanup">>} = {}
      BY <1>1, <1>2 DEF LsProcessInv, LsServices
    <3>3. QED
      BY <2>1, <3>1, <3>2 DEF LsServices, LsStarting, LsServing
  <2>9. LsMarked(p)'
    <3>1. <<"compaction">> \notin LsOpen(p)
      BY <1>1, <1>2 DEF LsProcessInv, LsServices
    <3>2. QED
      BY <1>1, <1>2, <1>3, <2>1, <2>2, <3>1 DEF LsProcessInv, LsMarked, LsStarting
  <2>10. QED
    BY <1>3, <2>4, <2>5, <2>6, <2>7, <2>8, <2>9, LsStepKept DEF LsProcessInv
<1>6. QED
  BY <1>4, <1>5 DEF LsClose

\* The shard at the head of what is left to stop.
LEMMA LsHeadFacts ==
    ASSUME LsTypeInv, NEW p \in LsProcs, lsPc[p] \in {"release", "unlock"}
    PROVE  /\ lsTodo[p] \in Seq(0..(lsShards - 1)) /\ lsTodo[p] # << >>
           /\ Head(lsTodo[p]) \in LsSuffixes /\ Head(lsTodo[p]) < lsShards
           /\ shardCatalogPath(Head(lsTodo[p])) \in LsCatalogs
           /\ \A i \in LsDuties(p) : i \in LsSuffixes /\ i < lsShards
<1>1. lsTodo[p] \in Seq(0..(lsShards - 1)) /\ lsTodo[p] # << >>
  BY DEF LsTypeInv
<1>2. lsShards \in Nat \ {0} /\ lsShards \in 1..LsMaxShards
  BY LsAtFacts
<1>3. Head(lsTodo[p]) \in 0..(lsShards - 1)
  BY <1>1, HeadTailProperties
<1>4. Head(lsTodo[p]) \in LsSuffixes /\ Head(lsTodo[p]) < lsShards
  BY <1>2, <1>3, LsSuffixFacts
<1>5. shardCatalogPath(Head(lsTodo[p])) \in LsCatalogs
  BY <1>2, <1>4, LsPathFacts
<1>6. ASSUME NEW i \in LsDuties(p)
      PROVE  i \in LsSuffixes /\ i < lsShards
  <2>1. i \in LsSuffixes /\ \E k \in 1..Len(lsTodo[p]) : lsTodo[p][k] = i
    BY DEF LsDuties, LsOwes, LsStarting, LsServing, LsClosing
  <2>2. QED
    BY <1>1, <1>2, <2>1
<1>7. QED
  BY <1>1, <1>4, <1>5, <1>6

LEMMA LsReleaseMarkStep ==
    ASSUME LsInv, NEW p \in LsProcs, LsReleaseMark(p)
    PROVE  LsInv'
<1> DEFINE h == Head(lsTodo[p])
           c == shardCatalogPath(h)
<1>1. LsTypeInv /\ LsProcessInv(p)
  BY DEF LsInv
<1>2. /\ lsPc[p] = "release" /\ LsGoes(p, "unlock")
      /\ IF lsMarks[p][c] > 0 THEN LsRelease(p, c) ELSE UNCHANGED lsMarks
      /\ UNCHANGED <<lsShards, lsTiered, lsFiles, lsLock, lsAttached, lsAt, lsTodo, lsFatal,
                     lsFailure, lsFaults, lsStarts, lsDisturbed, lsTorn>>
  BY DEF LsReleaseMark
<1>3. /\ h \in LsSuffixes /\ h < lsShards /\ c \in LsCatalogs
      /\ \A i \in LsDuties(p) : i \in LsSuffixes /\ i < lsShards
      /\ lsTodo[p] # << >>
  BY <1>1, <1>2, LsHeadFacts
<1>4. lsPc'[p] = "unlock" /\ lsPc' = [lsPc EXCEPT ![p] = "unlock"]
  BY <1>1, <1>2, LsGoesFacts DEF LsGoes
<1>5. /\ \A i : shardCatalogPath(i)' = shardCatalogPath(i)
      /\ LsDuties(p)' = LsDuties(p) /\ LsOpen(p)' = LsOpen(p)
  BY <1>2, <1>4 DEF shardCatalogPath, LsDuties, LsOwes, LsOpen, LsStarting, LsServing, LsClosing
<1>6. LsRepairAlone' /\ LsReports(p)'
  BY <1>1, <1>2 DEF LsInv, LsProcessInv, LsReports, LsRepairAlone
<1>7. lsMarks[p] \in [LsCatalogs -> Nat]
  BY <1>1 DEF LsTypeInv
<1>8. /\ lsMarks' \in [LsProcs -> [LsCatalogs -> Nat]]
      /\ \A q \in LsProcs \ {p} : lsMarks'[q] = lsMarks[q]
      /\ lsMarks[p][c] <= 1 => lsMarks'[p][c] = 0
      /\ \A d \in LsCatalogs \ {c} : lsMarks'[p][d] = lsMarks[p][d]
      /\ \A d \in LsCatalogs : lsMarks'[p][d] \in Nat /\ lsMarks'[p][d] <= lsMarks[p][d]
  <2>1. CASE lsMarks[p][c] > 0
    <3>1. LsRelease(p, c)
      BY <1>2, <2>1
    <3>2. /\ lsMarks' \in [LsProcs -> [LsCatalogs -> Nat]]
          /\ \A q \in LsProcs \ {p} : lsMarks'[q] = lsMarks[q]
          /\ lsMarks[p][c] <= 1 => lsMarks'[p][c] = 0
          /\ lsMarks[p][c] > 1 => lsMarks'[p][c] = lsMarks[p][c] - 1
          /\ \A d \in LsCatalogs \ {c} : lsMarks'[p][d] = lsMarks[p][d]
      BY <1>1, <1>3, <3>1, LsReleaseFacts
    <3> HIDE DEF c
    <3>3. lsMarks[p][c] \in Nat /\ \A d \in LsCatalogs : lsMarks[p][d] \in Nat
      BY <1>3, <1>7
    <3>4. lsMarks'[p][c] \in Nat /\ lsMarks'[p][c] <= lsMarks[p][c]
      BY <3>2, <3>3
    <3>5. \A d \in LsCatalogs : lsMarks'[p][d] \in Nat /\ lsMarks'[p][d] <= lsMarks[p][d]
      BY <3>2, <3>3, <3>4
    <3>6. QED
      BY <3>2, <3>5
  <2>2. CASE ~(lsMarks[p][c] > 0)
    BY <1>1, <1>2, <1>3, <1>7, <2>2 DEF LsTypeInv
  <2>3. QED
    BY <2>1, <2>2
<1>9. LsAside(p)
  BY <1>1, <1>2, <1>8, LsGoesFacts DEF LsAside
<1>10. LsTypeInv'
  <2>1. \A q \in LsProcs : lsPc'[q] \in {"release", "unlock"} => lsTodo'[q] # << >>
    BY <1>1, <1>2, <1>3, <1>4 DEF LsTypeInv
  <2>2. QED
    BY <1>1, <1>2, <1>4, <1>8, <2>1 DEF LsTypeInv, LsClosing, LsOpen
<1>11. LsLocks(p)'
  BY <1>1, <1>2, <1>4, <1>5 DEF LsProcessInv, LsLocks, LsStarting, LsServing
<1>12. LsWriters(p)'
  <2>1. SUFFICES ASSUME NEW i \in LsSuffixes, <<"writer", i>> \in LsOpen(p)
                 PROVE  LsWriter(p, i)'
    BY <1>5 DEF LsWriters
  <2>2. LsWriter(p, i)
    BY <1>1, <2>1 DEF LsProcessInv, LsWriters
  <2>3. i # h /\ i < lsShards
    BY <1>2, <1>3, <2>2 DEF LsWriter
  <2>4. shardCatalogPath(i) \in LsCatalogs \ {c}
    BY <1>1, <1>3, <2>3, LsPathFacts DEF LsTypeInv
  <2>5. QED
    BY <1>2, <1>4, <1>5, <1>8, <2>2, <2>3, <2>4 DEF LsWriter
<1>13. LsServices(p)'
  BY <1>1, <1>2, <1>4, <1>5 DEF LsProcessInv, LsServices, LsStarting, LsServing
<1>14. LsMarked(p)'
  <2>1. SUFFICES ASSUME ~lsTiered
                 PROVE  LsMarked(p)'
    BY <1>2 DEF LsMarked
  <2>2. <<"compaction">> \notin LsOpen(p)
    BY <1>1, <1>2 DEF LsProcessInv, LsServices
  <2>3. /\ \A d \in LsCatalogs : lsMarks[p][d] > 0 => \E i \in LsDuties(p) : d = shardCatalogPath(i)
        /\ \A d \in LsCatalogs : ~(lsMarks[p][d] > 1)
    BY <1>1, <2>1, <2>2 DEF LsProcessInv, LsMarked
  <2>4. \A d \in LsCatalogs : lsMarks'[p][d] > 0 => \E i \in LsDuties(p)' : d = shardCatalogPath(i)
    BY <1>5, <1>7, <1>8, <2>3
  <2>5. \A d \in LsCatalogs : ~(lsMarks'[p][d] > 1) /\ lsMarks'[p][d] <= 2
    BY <1>7, <1>8, <2>3
  <2>6. lsMarks'[p][c] = 0
    BY <1>3, <1>7, <1>8, <2>3
  <2>7. QED
    BY <1>2, <1>4, <1>5, <2>4, <2>5, <2>6 DEF LsMarked, LsStarting
<1>15. QED
  BY <1>6, <1>9, <1>10, <1>11, <1>12, <1>13, <1>14, LsStepKept DEF LsProcessInv

LEMMA releaseCatalogWriterLockStep ==
    ASSUME LsInv, NEW p \in LsProcs, releaseCatalogWriterLock(p)
    PROVE  LsInv'
<1> DEFINE h == Head(lsTodo[p])
           c == shardCatalogPath(h)
<1>1. LsTypeInv /\ LsProcessInv(p)
  BY DEF LsInv
<1>2. /\ lsPc[p] = "unlock" /\ LsGoes(p, "close")
      /\ lsLock' = [lsLock EXCEPT ![c] = IF @ = p THEN LsNobody ELSE @]
      /\ lsTodo' = [lsTodo EXCEPT ![p] = Tail(@)]
      /\ UNCHANGED <<lsShards, lsTiered, lsFiles, lsAttached, lsMarks, lsAt, lsFatal, lsFailure,
                     lsFaults, lsStarts, lsDisturbed, lsTorn>>
  BY DEF releaseCatalogWriterLock
<1>3. /\ h \in LsSuffixes /\ h < lsShards /\ c \in LsCatalogs
      /\ \A i \in LsDuties(p) : i \in LsSuffixes /\ i < lsShards
      /\ lsTodo[p] # << >> /\ lsTodo[p] \in Seq(0..(lsShards - 1))
  BY <1>1, <1>2, LsHeadFacts
<1>4. lsPc'[p] = "close" /\ lsPc' = [lsPc EXCEPT ![p] = "close"]
  BY <1>1, <1>2, LsGoesFacts DEF LsGoes
<1>5. /\ \A i : shardCatalogPath(i)' = shardCatalogPath(i)
      /\ LsOpen(p)' = LsOpen(p)
  BY <1>2 DEF shardCatalogPath, LsOpen
<1>6. LsRepairAlone' /\ LsReports(p)'
  BY <1>1, <1>2 DEF LsInv, LsProcessInv, LsReports, LsRepairAlone
<1>7. /\ lsTodo'[p] = Tail(lsTodo[p])
      /\ lsTodo' \in [LsProcs -> Seq(0..(lsShards - 1))]
      /\ \A q \in LsProcs \ {p} : lsTodo'[q] = lsTodo[q]
  <2>1. Tail(lsTodo[p]) \in Seq(0..(lsShards - 1))
    BY <1>3, HeadTailProperties
  <2>2. QED
    BY <1>1, <1>2, <2>1 DEF LsTypeInv
<1>8. \A i \in LsDuties(p) \ {h} : i \in LsDuties(p)'
  <2>1. SUFFICES ASSUME NEW i \in LsDuties(p), i # h
                 PROVE  i \in LsDuties(p)'
    OBVIOUS
  <2>2. i \in LsSuffixes /\ \E k \in 1..Len(lsTodo[p]) : lsTodo[p][k] = i
    BY <1>2 DEF LsDuties, LsOwes, LsStarting, LsServing, LsClosing
  <2>3. PICK k \in 1..Len(lsTodo[p]) : lsTodo[p][k] = i
    BY <2>2
  <2>4. k # 1
    BY <1>3, <2>1, <2>3
  <2>5. k - 1 \in 1..Len(Tail(lsTodo[p])) /\ Tail(lsTodo[p])[k - 1] = i
    BY <1>3, <2>3, <2>4
  <2>6. QED
    BY <1>4, <1>7, <2>2, <2>5 DEF LsDuties, LsOwes, LsClosing
<1>9. /\ lsLock' \in [LsCatalogs -> LsProcs \cup {LsNobody}]
      /\ lsLock'[c] # p
      /\ \A d \in LsCatalogs \ {c} : lsLock'[d] = lsLock[d]
      /\ \A q \in LsProcs \ {p} : \A d \in LsCatalogs : lsLock'[d] = q <=> lsLock[d] = q
  BY <1>1, <1>2, <1>3, LsSuffixFacts DEF LsTypeInv
<1>10. LsAside(p)
  BY <1>1, <1>2, <1>7, <1>9, LsGoesFacts DEF LsAside
<1>11. LsTypeInv'
  <2>1. \A q \in LsProcs : lsPc'[q] \in {"release", "unlock"} => lsTodo'[q] # << >>
    BY <1>1, <1>4, <1>7 DEF LsTypeInv
  <2>2. QED
    BY <1>1, <1>2, <1>4, <1>7, <1>9, <2>1 DEF LsTypeInv, LsClosing, LsOpen
<1>12. LsLocks(p)'
  <2>1. ASSUME NEW d \in LsCatalogs, lsLock'[d] = p
        PROVE  \E i \in LsDuties(p)' : d = shardCatalogPath(i)
    <3>1. d # c /\ lsLock[d] = p
      BY <1>9, <2>1
    <3>2. QED
      BY <1>1, <1>8, <3>1 DEF LsProcessInv, LsLocks
  <2>2. QED
    BY <1>4, <1>5, <2>1 DEF LsLocks, LsStarting, LsServing
<1>13. LsWriters(p)'
  <2>1. SUFFICES ASSUME NEW i \in LsSuffixes, <<"writer", i>> \in LsOpen(p)
                 PROVE  LsWriter(p, i)'
    BY <1>5 DEF LsWriters
  <2>2. LsWriter(p, i)
    BY <1>1, <2>1 DEF LsProcessInv, LsWriters
  <2>3. i # h /\ i < lsShards /\ i \in LsDuties(p)'
    BY <1>2, <1>3, <1>8, <2>2 DEF LsWriter
  <2>4. shardCatalogPath(i) \in LsCatalogs \ {c}
    BY <1>1, <1>3, <2>3, LsPathFacts DEF LsTypeInv
  <2>5. QED
    BY <1>2, <1>4, <1>5, <1>9, <2>2, <2>3, <2>4 DEF LsWriter
<1>14. LsServices(p)'
  BY <1>1, <1>2, <1>4, <1>5 DEF LsProcessInv, LsServices, LsStarting, LsServing
<1>15. LsMarked(p)'
  <2>1. SUFFICES ASSUME ~lsTiered
                 PROVE  LsMarked(p)'
    BY <1>2 DEF LsMarked
  <2>2. lsMarks[p][c] = 0
    BY <1>1, <1>2, <2>1 DEF LsProcessInv, LsMarked
  <2>3. \A d \in LsCatalogs : lsMarks[p][d] > 0 => \E i \in LsDuties(p)' : d = shardCatalogPath(i)
    <3>1. SUFFICES ASSUME NEW d \in LsCatalogs, lsMarks[p][d] > 0
                   PROVE  \E i \in LsDuties(p)' : d = shardCatalogPath(i)
      OBVIOUS
    <3>2. PICK i \in LsDuties(p) : d = shardCatalogPath(i)
      BY <1>1, <2>1, <3>1 DEF LsProcessInv, LsMarked
    <3>3. i # h
      BY <2>2, <3>1, <3>2
    <3>4. QED
      BY <1>8, <3>2, <3>3
  <2>4. QED
    BY <1>1, <1>2, <1>4, <1>5, <2>1, <2>3 DEF LsProcessInv, LsMarked, LsStarting
<1>16. QED
  BY <1>6, <1>10, <1>11, <1>12, <1>13, <1>14, <1>15, LsStepKept DEF LsProcessInv

LEMMA LsGoneStep ==
    ASSUME LsInv, NEW p \in LsProcs, LsExit(p) \/ LsCrash(p)
    PROVE  LsInv'
<1>1. LsTypeInv /\ LsGone(p) /\ lsFaults' \in Nat
  BY DEF LsInv, LsTypeInv, LsExit, LsCrash, LsFault
<1>2. /\ lsPc' = [lsPc EXCEPT ![p] = "off"] /\ lsPc'[p] = "off"
      /\ UNCHANGED <<lsShards, lsTiered, lsFiles, lsStarts, lsDisturbed>>
  BY <1>1, LsGoesFacts DEF LsGone, LsGoes
<1>3. /\ lsLock' \in [LsCatalogs -> LsProcs \cup {LsNobody}]
      /\ \A c \in LsCatalogs : lsLock'[c] # p
      /\ \A q \in LsProcs \ {p} : \A c \in LsCatalogs : lsLock'[c] = q <=> lsLock[c] = q
  BY <1>1, LsSuffixFacts DEF LsGone, LsTypeInv
<1>4. /\ DOMAIN lsAttached' = LsProcs /\ LsOpen(p)' = {}
      /\ \A q \in LsProcs \ {p} : lsAttached'[q] = lsAttached[q]
  BY <1>1 DEF LsGone, LsTypeInv, LsOpen
<1>5. /\ lsMarks' \in [LsProcs -> [LsCatalogs -> Nat]]
      /\ \A c \in LsCatalogs : lsMarks'[p][c] = 0
      /\ \A q \in LsProcs \ {p} : lsMarks'[q] = lsMarks[q]
  BY <1>1 DEF LsGone, LsTypeInv
<1>6. /\ lsTodo' \in [LsProcs -> Seq(0..(lsShards - 1))]
      /\ \A q \in LsProcs \ {p} : lsTodo'[q] = lsTodo[q]
  <2>1. << >> \in Seq(0..(lsShards - 1))
    OBVIOUS
  <2>2. QED
    BY <1>1, <2>1 DEF LsGone, LsTypeInv
<1>7. /\ lsAt' \in [LsProcs -> 0..(lsShards - 1)]
      /\ \A q \in LsProcs \ {p} : lsAt'[q] = lsAt[q]
  <2>1. 0 \in 0..(lsShards - 1)
    BY <1>1 DEF LsTypeInv
  <2>2. QED
    BY <1>1, <2>1 DEF LsGone, LsTypeInv
<1>8. /\ lsFatal' \in [LsProcs -> SUBSET LsSuffixes] /\ lsTorn' \in [LsProcs -> SUBSET LsSuffixes]
      /\ lsFailure' \in [LsProcs -> {"none", "sent", "taken"}] /\ lsFailure'[p] = "none"
      /\ \A q \in LsProcs \ {p} : lsFatal'[q] = lsFatal[q] /\ lsFailure'[q] = lsFailure[q]
  BY <1>1 DEF LsGone, LsTypeInv
<1>9. LsAside(p)
  BY <1>1, <1>2, <1>3, <1>4, <1>5, <1>6, <1>7, <1>8, LsGoesFacts DEF LsAside, LsGone
<1>10. LsTypeInv'
  <2>1. \A q \in LsProcs : lsPc'[q] \in {"release", "unlock"} => lsTodo'[q] # << >>
    BY <1>1, <1>2, <1>6 DEF LsTypeInv
  <2>2. \A q \in LsProcs : LsOpen(q)' \subseteq LsInstances
    BY <1>1, <1>4 DEF LsTypeInv, LsOpen
  <2>3. lsPc' \in [LsProcs -> {"off", "stopped"} \cup LsStarting \cup LsServing \cup LsClosing]
    BY <1>1, <1>2 DEF LsTypeInv
  <2>4. QED
    BY <1>1, <1>2, <1>3, <1>4, <1>5, <1>6, <1>7, <1>8, <2>1, <2>2, <2>3 DEF LsTypeInv
<1>11. LsRepairAlone'
  BY <1>2 DEF LsInv, LsRepairAlone
<1>12. LsLocks(p)'
  BY <1>2, <1>3 DEF LsLocks, LsStarting, LsServing
<1>13. LsWriters(p)'
  BY <1>4 DEF LsWriters
<1>14. LsServices(p)'
  BY <1>2, <1>4 DEF LsServices, LsStarting, LsServing
<1>15. LsMarked(p)'
  BY <1>2, <1>5 DEF LsMarked, LsStarting
<1>16. LsReports(p)'
  BY <1>8 DEF LsReports
<1>17. QED
  BY <1>9, <1>10, <1>11, <1>12, <1>13, <1>14, <1>15, <1>16, LsStepKept DEF LsProcessInv

-----------------------------------------------------------------------------
(* The invariant, and what it says. *)

LEMMA LsInitInv ==
    ASSUME LsInit
    PROVE  LsInv
<1>1. LsTypeInv
  <2>1. /\ lsShards \in 1..LsMaxShards /\ lsTiered \in BOOLEAN /\ 0 \in 0..(lsShards - 1)
        /\ \A S : << >> \in Seq(S)
    BY LsSuffixFacts DEF LsInit
  <2>2. lsFiles \subseteq LsCatalogs
    BY DEF LsInit, LsCatalogs
  <2>3. DOMAIN lsAttached = LsProcs /\ \A p \in LsProcs : LsOpen(p) \subseteq LsInstances
    BY DEF LsInit, LsOpen
  <2>4. /\ lsLock \in [LsCatalogs -> LsProcs \cup {LsNobody}]
        /\ lsMarks \in [LsProcs -> [LsCatalogs -> Nat]]
        /\ lsPc \in [LsProcs -> {"off", "stopped"} \cup LsStarting \cup LsServing \cup LsClosing]
        /\ lsAt \in [LsProcs -> 0..(lsShards - 1)]
        /\ lsTodo \in [LsProcs -> Seq(0..(lsShards - 1))]
        /\ \A p \in LsProcs : lsPc[p] \in {"release", "unlock"} => lsTodo[p] # << >>
    BY <2>1 DEF LsInit
  <2>5. /\ lsFatal \in [LsProcs -> SUBSET LsSuffixes] /\ lsTorn \in [LsProcs -> SUBSET LsSuffixes]
        /\ lsFailure \in [LsProcs -> {"none", "sent", "taken"}]
        /\ lsFaults \in Nat /\ lsStarts \in [LsProcs -> Nat] /\ lsDisturbed \in BOOLEAN
    BY DEF LsInit
  <2>6. QED
    BY <2>1, <2>2, <2>3, <2>4, <2>5 DEF LsTypeInv
<1>2. LsRepairAlone
  BY DEF LsInit, LsRepairAlone
<1>3. ASSUME NEW p \in LsProcs
      PROVE  LsProcessInv(p)
  <2>1. /\ lsPc[p] = "off" /\ LsOpen(p) = {} /\ lsFailure[p] = "none"
        /\ \A c \in LsCatalogs : lsLock[c] # p /\ lsMarks[p][c] = 0
    BY LsSuffixFacts DEF LsInit, LsOpen
  <2>2. QED
    BY <2>1 DEF LsProcessInv, LsLocks, LsWriters, LsServices, LsMarked, LsReports, LsStarting, LsServing
<1>4. QED
  BY <1>1, <1>2, <1>3 DEF LsInv

LEMMA LsInductive ==
    ASSUME LsInv, [LsNext]_lsVars
    PROVE  LsInv'
<1>1. CASE LsNext
  <2>1. PICK p \in LsProcs :
          \/ LsStart(p) \/ acquireCatalogWriterLock(p) \/ LsOpenInstance(p) \/ LsRepair(p)
          \/ LsAttach(p) \/ LsMark(p) \/ OpenMaintenanceDB(p) \/ LsStartTiering(p)
          \/ \E c \in LsCatalogs : LsFileCleanup(p, c)
          \/ LsRefresh(p) \/ LsInvalidated(p) \/ LsSignal(p) \/ LsStopServices(p)
          \/ \E i \in LsSuffixes : LsInvalidate(p, i) \/ noteFlushError(p, i)
          \/ LsClose(p) \/ LsReleaseMark(p) \/ releaseCatalogWriterLock(p) \/ LsExit(p) \/ LsCrash(p)
    BY <1>1 DEF LsNext
  <2>2. CASE LsStart(p)
    BY <2>2, LsStartStep
  <2>3. CASE acquireCatalogWriterLock(p)
    BY <2>3, acquireCatalogWriterLockStep
  <2>4. CASE LsOpenInstance(p)
    BY <2>4, LsOpenInstanceStep
  <2>5. CASE LsRepair(p)
    BY <2>5, LsRepairStep
  <2>6. CASE LsAttach(p)
    BY <2>6, LsAttachStep
  <2>7. CASE LsMark(p)
    BY <2>7, LsMarkStep
  <2>8. CASE OpenMaintenanceDB(p)
    BY <2>8, OpenMaintenanceDBStep
  <2>9. CASE LsStartTiering(p)
    BY <2>9, LsStartTieringStep
  <2>10. CASE \E c \in LsCatalogs : LsFileCleanup(p, c)
    BY <2>10, LsFileCleanupStep
  <2>11. CASE LsRefresh(p)
    BY <2>11, LsRefreshStep
  <2>12. CASE \/ \E i \in LsSuffixes : LsInvalidate(p, i) \/ noteFlushError(p, i)
              \/ LsInvalidated(p)
              \/ LsSignal(p)
    BY <2>12, LsNoticeStep
  <2>13. CASE LsStopServices(p)
    BY <2>13, LsStopServicesStep
  <2>14. CASE LsClose(p)
    BY <2>14, LsCloseStep
  <2>15. CASE LsReleaseMark(p)
    BY <2>15, LsReleaseMarkStep
  <2>16. CASE releaseCatalogWriterLock(p)
    BY <2>16, releaseCatalogWriterLockStep
  <2>17. CASE LsExit(p) \/ LsCrash(p)
    BY <2>17, LsGoneStep
  <2>18. QED
    BY <2>1, <2>2, <2>3, <2>4, <2>5, <2>6, <2>7, <2>8, <2>9, <2>10, <2>11, <2>12, <2>13, <2>14,
       <2>15, <2>16, <2>17
<1>2. CASE UNCHANGED lsVars
  <2>1. UNCHANGED <<lsShards, lsTiered, lsFiles, lsLock, lsAttached, lsMarks, lsPc, lsAt, lsTodo,
                    lsFatal, lsFailure, lsFaults, lsStarts, lsDisturbed, lsTorn>>
    BY <1>2 DEF lsVars
  <2>2. \A i : shardCatalogPath(i)' = shardCatalogPath(i)
    BY <2>1 DEF shardCatalogPath
  <2>3. LsTypeInv' /\ LsRepairAlone'
    BY <2>1 DEF LsInv, LsTypeInv, LsOpen, LsRepairAlone
  <2>4. ASSUME NEW p \in LsProcs
        PROVE  LsProcessInv(p)'
    <3>1. LsDuties(p)' = LsDuties(p) /\ LsOpen(p)' = LsOpen(p) /\ LsProcessInv(p)
      BY <2>1 DEF LsInv, LsDuties, LsOwes, LsOpen
    <3>2. LsLocks(p)' /\ LsReports(p)'
      BY <2>1, <2>2, <3>1 DEF LsProcessInv, LsLocks, LsReports
    <3>3. LsWriters(p)'
      BY ZenonT(60), <2>1, <2>2, <3>1 DEF LsProcessInv, LsWriters, LsWriter
    <3>4. LsServices(p)'
      BY <2>1, <2>2, <3>1 DEF LsProcessInv, LsServices
    <3>5. LsMarked(p)'
      BY <2>1, <2>2, <3>1 DEF LsProcessInv, LsMarked
    <3>6. QED
      BY <3>2, <3>3, <3>4, <3>5 DEF LsProcessInv
  <2>5. QED
    BY <2>3, <2>4 DEF LsInv
<1>3. QED
  BY <1>1, <1>2

\* Whatever a process has attached, it has the lock of a shard that keeps others out.
LEMMA LsAttachedLocked ==
    ASSUME LsInv, NEW p \in LsProcs, NEW x \in LsOpen(p)
    PROVE  \/ \E i \in LsSuffixes :
                 /\ x = <<"writer", i>> /\ i < lsShards /\ lsLock[shardCatalogPath(i)] = p
                 /\ lsAttached[p][x] \subseteq {shardCatalogPath(i)}
           \/ /\ x \in {<<"compaction">>, <<"tiering">>, <<"cleanup">>}
              /\ \A i \in LsSuffixes : i < lsShards => lsLock[shardCatalogPath(i)] = p
<1>1. LsTypeInv /\ LsProcessInv(p) /\ x \in LsInstances
  BY DEF LsInv, LsTypeInv
<1>2. ASSUME NEW i \in LsSuffixes, x = <<"writer", i>>
      PROVE  /\ i < lsShards /\ lsLock[shardCatalogPath(i)] = p
             /\ lsAttached[p][x] \subseteq {shardCatalogPath(i)}
  <2>1. LsWriter(p, i)
    BY <1>1, <1>2 DEF LsProcessInv, LsWriters
  <2>2. i < lsShards
    <3>1. CASE lsPc[p] \in LsStarting
      BY <1>1, <2>1, <3>1, LsAtFacts, LsSuffixFacts
         DEF LsWriter, LsDuties, LsOwes, LsStarting, LsServing, LsClosing
    <3>2. CASE lsPc[p] \in LsServing
      BY <2>1, <3>2 DEF LsWriter, LsDuties, LsOwes, LsStarting, LsServing, LsClosing
    <3>3. CASE lsPc[p] \in LsClosing
      <4>1. \E k \in 1..Len(lsTodo[p]) : lsTodo[p][k] = i
        BY <2>1, <3>3 DEF LsWriter, LsDuties, LsOwes, LsStarting, LsServing, LsClosing
      <4>2. lsTodo[p] \in Seq(0..(lsShards - 1)) /\ lsShards \in Nat
        BY <1>1, LsAtFacts DEF LsTypeInv
      <4>3. QED
        BY <4>1, <4>2
    <3>4. QED
      BY <2>1, <3>1, <3>2, <3>3 DEF LsWriter, LsDuties, LsOwes
  <2>3. QED
    BY <1>2, <2>1, <2>2 DEF LsWriter
<1>3. CASE x \in {<<"compaction">>, <<"tiering">>, <<"cleanup">>}
  <2>1. lsPc[p] \in LsServing
    BY <1>1, <1>3 DEF LsProcessInv, LsServices, LsServing
  <2>2. QED
    BY <1>1, <1>3, <2>1 DEF LsProcessInv, LsLocks
<1>4. QED
  BY <1>1, <1>2, <1>3 DEF LsInstances

LEMMA LsInvSafe ==
    ASSUME LsInv
    PROVE  LakeSetupSafe
<1>1. LsTypeInv /\ \A p \in LsProcs : LsProcessInv(p)
  BY DEF LsInv
<1>2. LsOneProcessPerCatalog
  <2>1. SUFFICES ASSUME NEW p \in LsProcs, NEW q \in LsProcs, p # q,
                        NEW x \in LsOpen(p), NEW y \in LsOpen(q), NEW c,
                        c \in lsAttached[p][x], c \in lsAttached[q][y]
                 PROVE  FALSE
    BY DEF LsOneProcessPerCatalog, LsHas
  <2>2. 0 \in LsSuffixes /\ 0 < lsShards
    BY <1>1, LsAtFacts, LsSuffixFacts
  <2>3. QED
    BY <2>1, <2>2, LsAttachedLocked
<1>3. LsRegistryCovers
  <2>1. SUFFICES ASSUME NEW p \in LsProcs, NEW x \in LsOpen(p), NEW c \in lsAttached[p][x]
                 PROVE  lsMarks[p][c] > 0 \/ (lsPc[p] = "mark" /\ c = shardCatalogPath(lsAt[p]))
    BY DEF LsRegistryCovers, LsHas
  <2>2. LsProcessInv(p) /\ x \in LsInstances
    BY <1>1 DEF LsTypeInv
  <2>3. ASSUME NEW i \in LsSuffixes, x = <<"writer", i>>
        PROVE  lsMarks[p][c] > 0 \/ (lsPc[p] = "mark" /\ c = shardCatalogPath(lsAt[p]))
    <3>1. LsWriter(p, i)
      BY <2>2, <2>3 DEF LsProcessInv, LsWriters
    <3>2. QED
      BY <2>1, <2>3, <3>1 DEF LsWriter
  <2>4. ASSUME x = <<"compaction">>
        PROVE  lsMarks[p][c] > 0
    <3>1. c = shardCatalogPath(0) /\ lsMarks[p][shardCatalogPath(0)] > 1
      BY <2>1, <2>2, <2>4 DEF LsProcessInv, LsServices
    <3>2. lsMarks[p][shardCatalogPath(0)] \in Nat
      BY <1>1, LsAtFacts DEF LsTypeInv
    <3>3. QED
      BY <3>1, <3>2
  <2>5. CASE x \in {<<"tiering">>, <<"cleanup">>}
    BY <2>1, <2>2, <2>5 DEF LsProcessInv, LsServices
  <2>6. QED
    BY <2>2, <2>3, <2>4, <2>5 DEF LsInstances
<1>4. LsNothingLeft
  <2>1. SUFFICES ASSUME NEW p \in LsProcs, lsPc[p] = "stopped"
                 PROVE  /\ LsOpen(p) = {}
                        /\ \A c \in LsCatalogs : lsLock[c] # p
                        /\ ~lsTiered => \A c \in LsCatalogs : lsMarks[p][c] = 0
    BY DEF LsNothingLeft
  <2>2. LsProcessInv(p) /\ LsDuties(p) = {}
    BY <1>1, <2>1 DEF LsDuties, LsOwes, LsStarting, LsServing, LsClosing
  <2>3. LsOpen(p) = {}
    <3>1. \A i \in LsSuffixes : <<"writer", i>> \notin LsOpen(p)
      BY <2>2 DEF LsProcessInv, LsWriters, LsWriter
    <3>2. LsOpen(p) \cap {<<"compaction">>, <<"tiering">>, <<"cleanup">>} = {}
      BY <2>1, <2>2 DEF LsProcessInv, LsServices
    <3>3. LsOpen(p) \subseteq LsInstances
      BY <1>1 DEF LsTypeInv
    <3>4. QED
      BY <3>1, <3>2, <3>3 DEF LsInstances
  <2>4. \A c \in LsCatalogs : lsLock[c] # p
    BY <2>2 DEF LsProcessInv, LsLocks
  <2>5. ASSUME ~lsTiered, NEW c \in LsCatalogs
        PROVE  lsMarks[p][c] = 0
    <3>1. ~(lsMarks[p][c] > 0)
      BY <2>2, <2>5 DEF LsProcessInv, LsMarked
    <3>2. lsMarks[p][c] \in Nat
      BY <1>1 DEF LsTypeInv
    <3>3. QED
      BY <3>1, <3>2
  <2>6. QED
    BY <2>3, <2>4, <2>5
<1>5. LsTieringFindsWriter
  BY <1>1 DEF LsTieringFindsWriter, LsProcessInv, LsServices
<1>6. LsReportTrue
  BY <1>1 DEF LsReportTrue, LsProcessInv, LsReports
<1>7. QED
  BY <1>2, <1>3, <1>4, <1>5, <1>6 DEF LakeSetupSafe, LsInv

\* Bring-up and shutdown of the storage on its own.  No catalog is attached by two
\* processes and none is repaired while somebody has it attached, although only the
\* shards take lock files; the registry of attached catalogs covers every instance; a
\* start that failed or a stop leaves nothing behind; tiering finds the writer's catalog
\* exactly when there is one shard; and an instance is reported only if it is invalidated.
THEOREM StorageSound == LsSpec => []LakeSetupSafe
<1>1. LsInit => LsInv
  BY LsInitInv
<1>2. LsInv /\ [LsNext]_lsVars => LsInv'
  BY LsInductive
<1>3. LsInv => LakeSetupSafe
  BY LsInvSafe
<1>4. QED
  BY <1>1, <1>2, <1>3, PTL DEF LsSpec

\* The same of the run, where the steps of other services come in between: StorageSafe.
THEOREM StorageAmongServices == PartSpec => []StorageSafe
<1> DEFINE v == <<part, lpVars, srVars, acVars, stVars, rlVars, sfVars, rgVars, trVars, hrVars, lsVars>>
<1>1. PartInit => LsInv
  BY LsInitInv DEF PartInit
<1>2. LsInv /\ [PartNext]_v => LsInv'
  <2>1. SUFFICES ASSUME LsInv, [PartNext]_v
                 PROVE  LsInv'
    OBVIOUS
  <2>2. [LsNext]_lsVars
    BY <2>1 DEF PartNext, Idle
  <2>3. QED
    BY <2>1, <2>2, LsInductive
<1>3. LsInv => StorageSafe
  BY LsInvSafe DEF StorageSafe, Of
<1>4. QED
  BY <1>1, <1>2, <1>3, PTL DEF PartSpec
-----------------------------------------------------------------------------
(* The live stream.  SfData(s) says where the events of a source are: in    *)
(* no two places unless they were replayed, and, while the client is        *)
(* served, in one of them unless they were missed.  SfControl(s) ties the   *)
(* forwarder of s to the handler and to the end of `out'; SfPhases is the   *)
(* handler's and the order of what `out' holds.                             *)

SfEvt == [src : SfSources, evt : Nat]
SfPcs == {"none", "dial", "wait", "next", "put", "returned"}

SfTypeInv ==
    /\ sfHandler \in {"idle", "subscribed", "history", "serve", "refused", "returned"}
    /\ {sfLocal, sfClosed, sfCtx, sfDrain} \subseteq BOOLEAN
    /\ sfPast \in Seq(SfEvt) /\ sfOut \in Seq(SfEvt)
    /\ sfPc \in [SfSources -> SfPcs]
    /\ sfLink \in [SfSources -> Seq(SfEvt)] /\ sfUp \in [SfSources -> BOOLEAN]
    /\ sfTaken \in [SfSources -> Nat] /\ sfLog \in [SfSources -> 0..SfMaxEvents]
    /\ sfShown \in [SfSources -> [SfEvents -> Nat]]
    /\ sfAgain \in [SfSources -> SUBSET Nat] /\ sfMissed \in [SfSources -> SUBSET Nat]

SfOrdered(q) == \A i, j \in 1..Len(q) : i < j => q[i].evt < q[j].evt
SfWithin(q, s, n) == \A i \in 1..Len(q) : q[i].src = s /\ q[i].evt \in 1..n

SfShownSet(s) == {e \in SfEvents : sfShown[s][e] > 0}
SfOutOf(q, s) == {q[i].evt : i \in {j \in 1..Len(q) : q[j].src = s}}
SfHand(s) == IF sfPc[s] = "put" THEN {sfTaken[s]} ELSE {}
SfPastSet(s) == IF s = SfBroker THEN SfSet(sfPast) ELSE {}

SfApart(X, A, B, C, D, E) ==
    /\ A \cap (B \cup C \cup D \cup E) \subseteq X
    /\ B \cap (C \cup D \cup E) \subseteq X
    /\ C \cap (D \cup E) \subseteq X
    /\ D \cap E \subseteq X

SfLive(s) == sfHandler \in {"history", "serve"} /\ ~sfCtx /\ sfUp[s]

SfData(s) ==
    /\ SfWithin(sfLink[s], s, sfLog[s]) /\ SfOrdered(sfLink[s])
    /\ sfTaken[s] <= sfLog[s]
    /\ SfShownSet(s) \subseteq 1..sfLog[s]
    /\ SfOutOf(sfOut, s) \subseteq 0..sfLog[s]
    /\ SfPastSet(s) \subseteq 1..sfLog[s]
    /\ \A e \in SfEvents : sfShown[s][e] > 1 => e \in sfAgain[s]
    /\ SfApart(sfAgain[s] \cup {0}, SfShownSet(s), SfOutOf(sfOut, s), SfHand(s), SfSet(sfLink[s]),
               SfPastSet(s))
    /\ SfLive(s) => 1..sfLog[s] \subseteq sfMissed[s] \cup SfShownSet(s) \cup SfOutOf(sfOut, s)
                        \cup SfHand(s) \cup SfSet(sfLink[s]) \cup SfPastSet(s)

SfControl(s) ==
    /\ sfUp[s] => sfPc[s] \in {"next", "put"} \/ s = SfBroker
    /\ sfPc[s] # "none" => s \in SfUsed
    /\ s = SfBroker => sfPc[s] \notin {"dial", "wait"}
    /\ sfClosed => sfPc[s] \in {"none", "returned"}
    /\ sfHandler \in {"idle", "subscribed", "history"} => sfPc[s] = "none"
    /\ sfHandler \in {"idle", "subscribed"} => SfShownSet(s) = {}
    /\ sfHandler = "idle" => ~sfUp[s]

SfOnceIn(q, again) ==
    \A i, j \in 1..Len(q) : q[i] = q[j] /\ i # j => q[i].evt \in again[q[i].src] \cup {0}

SfPhases ==
    /\ sfHandler \in {"idle", "subscribed"} => sfOut = <<>> /\ sfPast = <<>>
    /\ sfHandler \in {"subscribed", "history"} => sfLocal
    /\ sfHandler = "history" => Len(sfOut) + Len(sfPast) <= SfHistory
    /\ sfDrain => sfCtx
    /\ sfClosed => sfHandler \in {"refused", "serve", "returned"}
    /\ SfOrdered(sfPast) /\ \A i \in 1..Len(sfPast) : sfPast[i].src = SfBroker
    /\ SfOnceIn(sfOut, sfAgain)
    /\ ~sfPanicked

SfInv == SfTypeInv /\ SfPhases /\ \A s \in SfSources : SfData(s) /\ SfControl(s)

LEMMA SfHeadFacts ==
    ASSUME NEW q \in Seq(SfEvt), q # << >>
    PROVE  /\ Len(q) \in Nat /\ Len(q) > 0 /\ q[1] = Head(q) /\ Head(q) \in SfEvt
           /\ Tail(q) \in Seq(SfEvt) /\ Len(Tail(q)) = Len(q) - 1
           /\ \A i \in 1..Len(Tail(q)) : Tail(q)[i] = q[i + 1] /\ i + 1 \in 1..Len(q)
           /\ \A i \in 1..Len(q) : i = 1 \/ (i - 1 \in 1..Len(Tail(q)) /\ Tail(q)[i - 1] = q[i])
           /\ SfSet(q) = {Head(q).evt} \cup SfSet(Tail(q))
           /\ SfOrdered(q) => SfOrdered(Tail(q)) /\ Head(q).evt \notin SfSet(Tail(q))
<1>1. /\ Len(q) \in Nat /\ Len(q) > 0 /\ q[1] = Head(q) /\ Head(q) \in SfEvt
      /\ Tail(q) \in Seq(SfEvt) /\ Len(Tail(q)) = Len(q) - 1
      /\ \A i \in 1..Len(Tail(q)) : Tail(q)[i] = q[i + 1]
  OBVIOUS
<1>2. \A i \in 1..Len(Tail(q)) : i + 1 \in 1..Len(q)
  BY <1>1
<1>3. ASSUME NEW i \in 1..Len(q), i # 1
      PROVE  i - 1 \in 1..Len(Tail(q)) /\ Tail(q)[i - 1] = q[i]
  <2>1. i - 1 \in 1..Len(Tail(q)) /\ (i - 1) + 1 = i
    BY <1>1, <1>3
  <2>2. QED
    BY <1>1, <2>1
<1>4. SfSet(q) = {Head(q).evt} \cup SfSet(Tail(q))
  <2> DEFINE n == Len(q)
             t == Tail(q)
             m == Len(t)
  <2>1. 1 \in 1..n
    BY <1>1
  <2> HIDE DEF n, t, m
  <2>2. \A i \in 1..m : t[i] = q[i + 1] /\ i + 1 \in 1..n
    BY <1>1, <1>2 DEF n, t, m
  <2>3. \A i \in 1..n : i = 1 \/ (i - 1 \in 1..m /\ t[i - 1] = q[i])
    BY <1>3 DEF n, t, m
  <2>4. SfSet(q) = {q[i].evt : i \in 1..n} /\ SfSet(t) = {t[i].evt : i \in 1..m}
    BY DEF SfSet, n, m
  <2>5. SfSet(q) = {q[1].evt} \cup SfSet(t)
    BY <2>1, <2>2, <2>3, <2>4
  <2>6. QED
    BY <2>5, <1>1 DEF t
<1>5. ASSUME SfOrdered(q)
      PROVE  SfOrdered(Tail(q)) /\ Head(q).evt \notin SfSet(Tail(q))
  <2>1. \A i \in 1..Len(Tail(q)) : 1 < i + 1 /\ 1 \in 1..Len(q) /\ i + 1 \in 1..Len(q)
    BY <1>1, <1>2
  <2>2. \A x \in SfEvt : x.evt \in Nat
    BY DEF SfEvt
  <2>3. \A i \in 1..Len(Tail(q)) : Head(q).evt < Tail(q)[i].evt
    BY <1>1, <1>5, <2>1 DEF SfOrdered
  <2>4. SfOrdered(Tail(q))
    <3> SUFFICES ASSUME NEW i \in 1..Len(Tail(q)), NEW j \in 1..Len(Tail(q)), i < j
                 PROVE  Tail(q)[i].evt < Tail(q)[j].evt
      BY DEF SfOrdered
    <3>1. i + 1 \in 1..Len(q) /\ j + 1 \in 1..Len(q) /\ i + 1 < j + 1
      BY <1>2
    <3>2. q[i + 1].evt < q[j + 1].evt
      BY <1>5, <3>1 DEF SfOrdered
    <3>3. QED
      BY <1>1, <3>2
  <2>5. Head(q).evt \notin SfSet(Tail(q))
    <3>1. \A i \in 1..Len(Tail(q)) : Tail(q)[i] \in SfEvt
      BY <1>1
    <3>2. QED
      BY <1>1, <2>2, <2>3, <3>1 DEF SfSet
  <2>6. QED
    BY <2>4, <2>5
<1>6. QED
  BY <1>1, <1>2, <1>3, <1>4, <1>5

LEMMA SfTailWithin ==
    ASSUME NEW q \in Seq(SfEvt), q # << >>, NEW s, NEW n, SfWithin(q, s, n)
    PROVE  SfWithin(Tail(q), s, n) /\ Head(q).src = s /\ Head(q).evt \in 1..n
<1>1. /\ 1 \in 1..Len(q) /\ q[1] = Head(q)
      /\ \A i \in 1..Len(Tail(q)) : Tail(q)[i] = q[i + 1] /\ i + 1 \in 1..Len(q)
  <2>1. Len(q) \in Nat /\ Len(q) > 0 /\ q[1] = Head(q)
    BY SfHeadFacts
  <2>2. QED
    BY <2>1, SfHeadFacts
<1>2. QED
  BY <1>1 DEF SfWithin

LEMMA SfAppendFacts ==
    ASSUME NEW q \in Seq(SfEvt), NEW x \in SfEvt
    PROVE  /\ Append(q, x) \in Seq(SfEvt) /\ Len(q) \in Nat /\ Len(Append(q, x)) = Len(q) + 1
           /\ \A i \in 1..Len(q) : Append(q, x)[i] = q[i] /\ i \in 1..(Len(q) + 1)
           /\ Append(q, x)[Len(q) + 1] = x
           /\ \A i \in 1..(Len(q) + 1) : i = Len(q) + 1 \/ i \in 1..Len(q)
           /\ SfSet(Append(q, x)) = SfSet(q) \cup {x.evt}
<1>1. /\ Append(q, x) \in Seq(SfEvt) /\ Len(q) \in Nat /\ Len(Append(q, x)) = Len(q) + 1
      /\ \A i \in 1..Len(q) : Append(q, x)[i] = q[i]
      /\ Append(q, x)[Len(q) + 1] = x
  OBVIOUS
<1>2. /\ \A i \in 1..Len(q) : i \in 1..(Len(q) + 1)
      /\ \A i \in 1..(Len(q) + 1) : i = Len(q) + 1 \/ i \in 1..Len(q)
      /\ Len(q) + 1 \in 1..(Len(q) + 1)
  BY <1>1
<1>3. SfSet(Append(q, x)) = SfSet(q) \cup {x.evt}
  <2> DEFINE n == Len(q)
             a == Append(q, x)
  <2>1. /\ \A i \in 1..n : a[i] = q[i] /\ i \in 1..(n + 1)
        /\ \A i \in 1..(n + 1) : i = n + 1 \/ i \in 1..n
        /\ a[n + 1] = x /\ n + 1 \in 1..(n + 1) /\ Len(a) = n + 1
    BY <1>1, <1>2
  <2>2. SfSet(q) = {q[i].evt : i \in 1..n}
    BY DEF SfSet
  <2> HIDE DEF n, a
  <2>3. SfSet(a) = {a[i].evt : i \in 1..(n + 1)}
    BY <2>1 DEF SfSet
  <2>4. SfSet(a) = SfSet(q) \cup {x.evt}
    BY <2>1, <2>2, <2>3
  <2>5. QED
    BY <2>4 DEF a
<1>4. QED
  BY <1>1, <1>2, <1>3

LEMMA SfAppendOrdered ==
    ASSUME NEW q \in Seq(SfEvt), NEW x \in SfEvt, NEW s, NEW n \in Nat, NEW k \in Nat,
           SfWithin(q, s, n), SfOrdered(q), n < x.evt, x.evt <= k, x.src = s
    PROVE  SfWithin(Append(q, x), s, k) /\ SfOrdered(Append(q, x))
<1> DEFINE a == Append(q, x)
           l == Len(q)
<1>1. /\ \A i \in 1..l : a[i] = q[i] /\ i \in 1..(l + 1)
      /\ \A i \in 1..(l + 1) : i = l + 1 \/ i \in 1..l
      /\ a[l + 1] = x /\ Len(a) = l + 1 /\ l \in Nat
  BY SfAppendFacts
<1>2. x.evt \in Nat
  BY DEF SfEvt
<1> HIDE DEF a, l
<1>3. \A i \in 1..l : q[i].src = s /\ q[i].evt \in 1..n
  BY DEF SfWithin, l
<1>4. SfWithin(a, s, k)
  BY <1>1, <1>2, <1>3 DEF SfWithin
<1>5. SfOrdered(a)
  <2> SUFFICES ASSUME NEW i \in 1..(l + 1), NEW j \in 1..(l + 1), i < j
               PROVE  a[i].evt < a[j].evt
    BY <1>1 DEF SfOrdered
  <2>1. i \in 1..l
    BY <1>1
  <2>2. CASE j \in 1..l
    <3>1. q[i].evt < q[j].evt
      BY <2>1, <2>2 DEF SfOrdered, l
    <3>2. QED
      BY <3>1, <1>1, <2>1, <2>2
  <2>3. CASE j = l + 1
    BY <1>1, <1>2, <1>3, <2>1, <2>3
  <2>4. QED
    BY <1>1, <2>2, <2>3
<1>6. QED
  BY <1>4, <1>5 DEF a

\* The events of one source in `out'.
LEMMA SfOutFacts ==
    ASSUME NEW q \in Seq(SfEvt)
    PROVE  /\ q # << >> => \A s : SfOutOf(q, s) = SfOutOf(Tail(q), s)
                                     \cup (IF Head(q).src = s THEN {Head(q).evt} ELSE {})
           /\ \A x \in SfEvt : \A s : SfOutOf(Append(q, x), s) = SfOutOf(q, s)
                                     \cup (IF x.src = s THEN {x.evt} ELSE {})
<1>1. ASSUME q # << >>, NEW s
      PROVE  SfOutOf(q, s) = SfOutOf(Tail(q), s) \cup (IF Head(q).src = s THEN {Head(q).evt} ELSE {})
  <2> DEFINE n == Len(q)
             t == Tail(q)
             m == Len(t)
  <2>1. 1 \in 1..n
    <3>1. Len(q) \in Nat /\ Len(q) > 0
      BY <1>1, SfHeadFacts
    <3>2. QED
      BY <3>1
  <2>2. Head(q) = q[1]
    BY <1>1, SfHeadFacts
  <2>3. \A i \in 1..m : t[i] = q[i + 1] /\ i + 1 \in 1..n
    BY <1>1, SfHeadFacts
  <2>4. \A i \in 1..n : i = 1 \/ (i - 1 \in 1..m /\ t[i - 1] = q[i])
    BY <1>1, SfHeadFacts
  <2>5. \A e : e \in SfOutOf(q, s) <=> \E i \in 1..n : q[i].src = s /\ q[i].evt = e
    BY DEF SfOutOf
  <2>6. \A e : e \in SfOutOf(t, s) <=> \E i \in 1..m : t[i].src = s /\ t[i].evt = e
    BY DEF SfOutOf
  <2> HIDE DEF n, t, m
  <2>7. \A e : e \in SfOutOf(q, s) <=> e \in SfOutOf(t, s) \/ (q[1].src = s /\ q[1].evt = e)
    BY <2>1, <2>3, <2>4, <2>5, <2>6
  <2>8. QED
    BY <2>7, <2>2 DEF t
<1>2. ASSUME NEW x \in SfEvt, NEW s
      PROVE  SfOutOf(Append(q, x), s) = SfOutOf(q, s) \cup (IF x.src = s THEN {x.evt} ELSE {})
  <2> DEFINE l == Len(q)
             a == Append(q, x)
  <2>1. /\ \A i \in 1..l : a[i] = q[i] /\ i \in 1..(l + 1)
        /\ \A i \in 1..(l + 1) : i = l + 1 \/ i \in 1..l
        /\ a[l + 1] = x /\ Len(a) = l + 1 /\ l \in Nat
    BY SfAppendFacts
  <2>2. \A e : e \in SfOutOf(q, s) <=> \E i \in 1..l : q[i].src = s /\ q[i].evt = e
    BY DEF SfOutOf
  <2>3. \A e : e \in SfOutOf(a, s) <=> \E i \in 1..(l + 1) : a[i].src = s /\ a[i].evt = e
    BY <2>1 DEF SfOutOf
  <2>4. l + 1 \in 1..(l + 1)
    BY <2>1
  <2> HIDE DEF l, a
  <2>5. \A e : e \in SfOutOf(a, s) <=> e \in SfOutOf(q, s) \/ (x.src = s /\ x.evt = e)
    BY <2>1, <2>2, <2>3, <2>4
  <2>6. QED
    BY <2>5 DEF a
<1>3. QED
  BY <1>1, <1>2

LEMMA SfTailFacts ==
    ASSUME SfTypeInv, NEW s \in SfSources
    PROVE  /\ SfTail(s) \in Seq(SfEvt) /\ Len(SfTail(s)) <= SfHistory
           /\ SfWithin(SfTail(s), s, sfLog[s]) /\ SfOrdered(SfTail(s))
<1> DEFINE from == IF sfLog[s] > SfHistory THEN sfLog[s] - SfHistory ELSE 0
           n == sfLog[s] - from
           f == [i \in 1..n |-> [src |-> s, evt |-> from + i]]
<1>1. /\ SfHistory \in Nat /\ sfLog[s] \in Nat
  BY StreamFanAssumption DEF SfTypeInv
<1>2. from \in Nat /\ n \in Nat /\ n <= SfHistory /\ from + n = sfLog[s]
  <2>1. CASE sfLog[s] > SfHistory
    <3>1. from = sfLog[s] - SfHistory
      BY <2>1
    <3> HIDE DEF from
    <3>2. QED
      BY <1>1, <2>1, <3>1
  <2>2. CASE ~(sfLog[s] > SfHistory)
    <3>1. from = 0
      BY <2>2
    <3> HIDE DEF from
    <3>2. QED
      BY <1>1, <2>2, <3>1
  <2>3. QED
    BY <2>1, <2>2
<1>3. SfTail(s) = f
  BY DEF SfTail
<1> HIDE DEF from, n
<1>4. \A i \in 1..n : [src |-> s, evt |-> from + i] \in SfEvt
  BY <1>2 DEF SfEvt
<1>5. f \in [1..n -> SfEvt]
  BY <1>4
<1>6. f \in Seq(SfEvt) /\ Len(f) = n
  BY <1>2, <1>5
<1>7. \A i \in 1..n : f[i].src = s /\ f[i].evt = from + i
  OBVIOUS
<1> HIDE DEF f
<1>8. SfWithin(f, s, sfLog[s])
  BY <1>1, <1>2, <1>6, <1>7 DEF SfWithin
<1>9. SfOrdered(f)
  BY <1>2, <1>6, <1>7 DEF SfOrdered
<1>10. QED
  BY <1>2, <1>3, <1>6, <1>8, <1>9

\* The events of a source that a step leaves alone.
LEMMA SfDataKept ==
    ASSUME NEW s \in SfSources, SfData(s),
           UNCHANGED <<sfLink[s], sfLog[s], sfTaken[s], sfShown[s], SfOutOf(sfOut, s), SfPastSet(s),
                       sfAgain[s], sfMissed[s], SfHand(s)>>,
           SfLive(s)' => SfLive(s)
    PROVE  SfData(s)'
<1>1. UNCHANGED <<SfShownSet(s), SfSet(sfLink[s])>>
  BY DEF SfShownSet, SfSet
<1>2. SfWithin(sfLink[s], s, sfLog[s])' /\ SfOrdered(sfLink[s])'
  BY DEF SfData, SfWithin, SfOrdered
<1>3. QED
  BY <1>1, <1>2 DEF SfData

LEMMA SfInitInv == SfInit => SfInv
<1> SUFFICES ASSUME SfInit PROVE SfInv
  OBVIOUS
<1>1. SfTypeInv
  <2>1. << >> \in Seq(SfEvt) /\ {0, 1} \subseteq 0..SfMaxEvents
    BY StreamFanAssumption
  <2>2. sfShown \in [SfSources -> [SfEvents -> Nat]]
    BY DEF SfInit
  <2>3. QED
    BY <2>1, <2>2 DEF SfTypeInv, SfInit, SfPcs, SfNone
<1>2. SfPhases
  BY DEF SfPhases, SfInit, SfOrdered, SfOnceIn
<1>3. ASSUME NEW s \in SfSources
      PROVE  SfData(s) /\ SfControl(s)
  <2>1. /\ SfShownSet(s) = {} /\ SfOutOf(sfOut, s) = {} /\ SfHand(s) = {}
        /\ SfSet(sfLink[s]) = {} /\ SfPastSet(s) = {}
    BY DEF SfInit, SfShownSet, SfOutOf, SfHand, SfSet, SfPastSet
  <2>2. SfWithin(sfLink[s], s, sfLog[s]) /\ SfOrdered(sfLink[s])
    BY DEF SfInit, SfWithin, SfOrdered
  <2>3. sfTaken[s] <= sfLog[s] /\ \A e \in SfEvents : ~(sfShown[s][e] > 1)
    BY DEF SfInit
  <2>4. SfData(s)
    BY <2>1, <2>2, <2>3 DEF SfData, SfApart, SfLive, SfInit
  <2>5. SfControl(s)
    BY <2>1 DEF SfControl, SfInit
  <2>6. QED
    BY <2>4, <2>5
<1>4. QED
  BY <1>1, <1>2, <1>3 DEF SfInv

\* The handler's steps that move no event, and the end of `out'.
LEMMA SfHandlerStep ==
    ASSUME SfInv,
           \/ SfSubscribe \/ SfRefused \/ SfHistoryCancelled \/ SfHistoryDone
           \/ SfLeave \/ SfClientGone \/ SfCloseOut
    PROVE  SfInv'
<1>1. /\ UNCHANGED <<sfLocal, sfPast, sfOut, sfLink, sfTaken, sfLog, sfShown, sfAgain, sfMissed,
                     sfPanicked>>
      /\ sfCtx => sfCtx'
  BY DEF SfSubscribe, SfRefused, SfHistoryCancelled, SfHistoryDone, SfLeave, SfClientGone, SfCloseOut,
     sfSeen, sfWires, SfInv, SfTypeInv
<1>2. SfTypeInv'
  <2>1. /\ sfHandler' \in {"idle", "subscribed", "history", "serve", "refused", "returned"}
        /\ {sfClosed', sfCtx', sfDrain'} \subseteq BOOLEAN
    BY DEF SfSubscribe, SfRefused, SfHistoryCancelled, SfHistoryDone, SfLeave, SfClientGone, SfCloseOut,
       sfSeen, sfWires, SfInv, SfTypeInv
  <2>2. sfPc' \in [SfSources -> SfPcs] /\ sfUp' \in [SfSources -> BOOLEAN]
    BY DEF SfSubscribe, SfRefused, SfHistoryCancelled, SfHistoryDone, SfLeave, SfClientGone, SfCloseOut,
       sfSeen, sfWires, SfInv, SfTypeInv, SfPcs, SfSources
  <2>3. QED
    BY <1>1, <2>1, <2>2 DEF SfInv, SfTypeInv
<1>3. SfPhases'
  <2>1. SfPhases /\ SfOrdered(sfPast)'
    BY <1>1 DEF SfInv, SfPhases, SfOrdered
  <2>2. /\ sfHandler' \in {"idle", "subscribed"} => sfHandler \in {"idle", "subscribed"}
        /\ sfHandler' \in {"subscribed", "history"} => sfLocal
        /\ sfHandler' = "history" => sfHandler = "history"
    BY <2>1 DEF SfSubscribe, SfRefused, SfHistoryCancelled, SfHistoryDone, SfLeave, SfClientGone,
       SfCloseOut, SfPhases, sfSeen, sfWires
  <2>4. sfDrain' => sfCtx'
    BY <1>1, <2>1 DEF SfSubscribe, SfRefused, SfHistoryCancelled, SfHistoryDone, SfLeave, SfClientGone,
       SfCloseOut, SfPhases, sfSeen, sfWires
  <2>5. sfClosed' => sfHandler' \in {"refused", "serve", "returned"}
    BY <2>1 DEF SfSubscribe, SfRefused, SfHistoryCancelled, SfHistoryDone, SfLeave, SfClientGone,
       SfCloseOut, SfPhases, sfSeen, sfWires
  <2>3. QED
    BY <1>1, <2>1, <2>2, <2>4, <2>5 DEF SfPhases, SfOnceIn
<1>4. ASSUME NEW s \in SfSources
      PROVE  SfData(s)' /\ SfControl(s)'
  <2>1. SfTypeInv /\ SfData(s) /\ SfControl(s) /\ SfPhases
    BY DEF SfInv
  <2>2. SfLive(s)' => SfLive(s)
    BY <1>1, <2>1 DEF SfSubscribe, SfRefused, SfHistoryCancelled, SfHistoryDone, SfLeave, SfClientGone,
       SfCloseOut, SfLive, SfControl, sfWires, SfTypeInv, SfSources
  <2>3. UNCHANGED SfHand(s)
    BY <2>1 DEF SfSubscribe, SfRefused, SfHistoryCancelled, SfHistoryDone, SfLeave, SfClientGone,
       SfCloseOut, SfHand, SfControl, SfTypeInv, SfSources
  <2>4. UNCHANGED <<SfOutOf(sfOut, s), SfPastSet(s), SfShownSet(s)>>
    BY <1>1 DEF SfOutOf, SfPastSet, SfSet, SfShownSet
  <2>5. SfData(s)'
    BY <1>1, <2>1, <2>2, <2>3, <2>4, SfDataKept
  <2>6. SfControl(s)'
    <3>1. CASE SfSubscribe
      BY SMTT(30), <1>1, <2>1, <2>4, <3>1, StreamFanAssumption
      DEF SfSubscribe, SfControl, SfTypeInv, SfUsed, SfBroker, SfSources, SfPhases
    <3>2. CASE SfRefused \/ SfLeave \/ SfClientGone
      BY <1>1, <2>1, <2>4, <3>2 DEF SfRefused, SfLeave, SfClientGone, SfControl, SfUsed, sfWires
    <3>3. CASE SfHistoryCancelled
      BY <1>1, <2>1, <2>4, <3>3 DEF SfHistoryCancelled, SfControl, SfUsed, SfTypeInv
    <3>4. CASE SfHistoryDone
      <4>1. sfPc'[s] = sfPc[s] \/ (s = SfBroker /\ sfPc'[s] = "next" /\ sfLocal /\ s \in SfUsed')
        BY <1>1, <2>1, <3>4 DEF SfHistoryDone, SfTypeInv, SfPhases, SfUsed
      <4>2. QED
        BY <1>1, <2>1, <2>4, <3>4, <4>1 DEF SfHistoryDone, SfControl, SfUsed, sfWires, SfPhases
    <3>5. CASE SfCloseOut
      BY <1>1, <2>1, <2>4, <3>5 DEF SfCloseOut, SfMayClose, SfControl, SfUsed, sfWires, SfTypeInv, SfPcs
    <3>6. QED
      BY <3>1, <3>2, <3>3, <3>4, <3>5
  <2>7. QED
    BY <2>5, <2>6
<1>5. QED
  BY <1>2, <1>3, <1>4 DEF SfInv

\* What the sets of a source's events are bounded by.
LEMMA SfBounds ==
    ASSUME SfTypeInv, NEW s \in SfSources, SfData(s)
    PROVE  /\ sfLog[s] \in Nat /\ sfLog[s] <= SfMaxEvents /\ SfMaxEvents \in Nat
           /\ SfShownSet(s) \subseteq 1..sfLog[s]
           /\ SfOutOf(sfOut, s) \subseteq 0..sfLog[s]
           /\ SfHand(s) \subseteq 0..sfLog[s]
           /\ SfSet(sfLink[s]) \subseteq 1..sfLog[s]
           /\ SfPastSet(s) \subseteq 1..sfLog[s]
<1>1. sfLog[s] \in Nat /\ sfLog[s] <= SfMaxEvents /\ SfMaxEvents \in Nat /\ sfTaken[s] \in Nat
  BY StreamFanAssumption DEF SfTypeInv
<1>2. SfHand(s) \subseteq 0..sfLog[s]
  BY <1>1 DEF SfHand, SfData
<1>3. SfSet(sfLink[s]) \subseteq 1..sfLog[s]
  BY DEF SfSet, SfData, SfWithin
<1>4. QED
  BY <1>1, <1>2, <1>3 DEF SfData

LEMMA SfPublishStep ==
    ASSUME SfInv, NEW s \in SfSources, SfPublish(s)
    PROVE  SfInv'
<1> DEFINE e == sfLog[s] + 1
           x == [src |-> s, evt |-> e]
<1>1. /\ SfTypeInv /\ SfPhases /\ s \in SfUsed /\ sfHandler # "idle"
      /\ sfLog' = [sfLog EXCEPT ![s] = e] /\ sfLog[s] < SfMaxEvents
      /\ UNCHANGED <<sfLocal, sfHandler, sfPast, sfOut, sfClosed, sfPc, sfUp, sfTaken, sfCtx, sfDrain,
                     sfFaults, sfShown, sfAgain, sfPanicked>>
  BY DEF SfInv, SfPublish
<1>2. sfLog[s] \in Nat /\ e \in Nat /\ e \in 0..SfMaxEvents /\ x \in SfEvt /\ SfMaxEvents \in Nat
  BY <1>1, StreamFanAssumption DEF SfTypeInv, SfEvt
<1>3. \/ /\ sfUp[s] /\ sfLink' = [sfLink EXCEPT ![s] = Append(@, x)] /\ UNCHANGED sfMissed
      \/ /\ ~sfUp[s] /\ sfMissed' = [sfMissed EXCEPT ![s] = @ \cup {e}] /\ UNCHANGED sfLink
  BY DEF SfPublish
<1>4. sfLink[s] \in Seq(SfEvt) /\ Append(sfLink[s], x) \in Seq(SfEvt)
  BY <1>1, <1>2, SfAppendFacts DEF SfTypeInv
<1>5. SfTypeInv'
  <2>1. sfLink' \in [SfSources -> Seq(SfEvt)] /\ sfMissed' \in [SfSources -> SUBSET Nat]
    <3> HIDE DEF e, x
    <3>1. QED
      BY ZenonT(60), <1>1, <1>2, <1>3, <1>4 DEF SfTypeInv
  <2>2. sfLog' \in [SfSources -> 0..SfMaxEvents]
    <3> HIDE DEF e, x
    <3>1. QED
      BY <1>1, <1>2 DEF SfTypeInv
  <2>3. QED
    BY <1>1, <2>1, <2>2 DEF SfTypeInv
<1>6. SfPhases'
  BY <1>1 DEF SfPhases, SfOrdered, SfOnceIn
<1>7. ASSUME NEW t \in SfSources
      PROVE  SfData(t)' /\ SfControl(t)'
  <2>1. SfData(t) /\ SfControl(t)
    BY DEF SfInv
  <2>2. UNCHANGED <<SfOutOf(sfOut, t), SfPastSet(t), SfShownSet(t), SfHand(t), SfLive(t)>>
    BY <1>1 DEF SfOutOf, SfPastSet, SfSet, SfShownSet, SfHand, SfLive
  <2>3. SfControl(t)'
    BY <1>1, <2>1, <2>2 DEF SfControl, SfUsed
  <2>4. CASE t # s
    <3>1. sfLink'[t] = sfLink[t] /\ sfLog'[t] = sfLog[t] /\ sfMissed'[t] = sfMissed[t]
      <4> HIDE DEF e, x
      <4>1. QED
        BY <1>1, <1>3, <2>4 DEF SfTypeInv
    <3>2. SfData(t)'
      BY <1>1, <2>1, <2>2, <3>1, SfDataKept
    <3>3. QED
      BY <2>3, <3>2
  <2>5. CASE t = s
    <3>1. sfLog'[s] = e
      BY <1>1 DEF SfTypeInv
    <3>2. /\ SfShownSet(s) \subseteq 1..sfLog[s] /\ SfOutOf(sfOut, s) \subseteq 0..sfLog[s]
          /\ SfHand(s) \subseteq 0..sfLog[s] /\ SfSet(sfLink[s]) \subseteq 1..sfLog[s]
          /\ SfPastSet(s) \subseteq 1..sfLog[s]
      BY <1>1, <2>1, <2>5, SfBounds
    <3>3. /\ 1..e = 1..sfLog[s] \cup {e} /\ 0..sfLog[s] \subseteq 0..e
          /\ e \notin 1..sfLog[s] /\ e \notin 0..sfLog[s] /\ sfTaken'[s] <= e
      BY <1>1, <1>2, <2>1, <2>5 DEF SfData, SfTypeInv
    <3>4. /\ SfShownSet(s)' \subseteq 1..sfLog'[s]
          /\ SfOutOf(sfOut, s)' \subseteq 0..sfLog'[s]
          /\ SfPastSet(s)' \subseteq 1..sfLog'[s]
          /\ \A k \in SfEvents : sfShown'[s][k] > 1 => k \in sfAgain'[s]
      <4> HIDE DEF e
      <4>1. QED
        BY <1>1, <2>1, <2>2, <2>5, <3>1, <3>2, <3>3 DEF SfData
    <3>5. CASE sfUp[s] /\ sfLink' = [sfLink EXCEPT ![s] = Append(@, x)] /\ UNCHANGED sfMissed
      <4>1. sfLink'[s] = Append(sfLink[s], x)
        BY <1>1, <3>5 DEF SfTypeInv
      <4>2. SfSet(sfLink'[s]) = SfSet(sfLink[s]) \cup {e}
        BY <1>2, <1>4, <4>1, SfAppendFacts
      <4>3. SfWithin(sfLink'[s], s, e) /\ SfOrdered(sfLink'[s])
        <5>1. SfWithin(sfLink[s], s, sfLog[s]) /\ SfOrdered(sfLink[s]) /\ x.evt = e /\ x.src = s
          BY <2>1, <2>5 DEF SfData
        <5>2. sfLog[s] < x.evt /\ x.evt <= e
          BY <1>2, <5>1
        <5> HIDE DEF e, x
        <5>3. QED
          BY <1>2, <1>4, <4>1, <5>1, <5>2, SfAppendOrdered
      <4>4. SfSet(sfLink[s])' = SfSet(sfLink[s]) \cup {e}
        BY <4>2 DEF SfSet
      <4>5. SfWithin(sfLink[s], s, sfLog[s])' /\ SfOrdered(sfLink[s])'
        BY <3>1, <4>3 DEF SfWithin, SfOrdered
      <4>6. SfApart(sfAgain[s] \cup {0}, SfShownSet(s), SfOutOf(sfOut, s), SfHand(s), SfSet(sfLink[s]),
                    SfPastSet(s))'
        <5> HIDE DEF e
        <5>1. QED
          BY <1>1, <2>1, <2>2, <2>5, <3>2, <3>3, <4>4 DEF SfData, SfApart
      <4>7. SfLive(s)' => 1..sfLog'[s] \subseteq sfMissed'[s] \cup SfShownSet(s)' \cup SfOutOf(sfOut, s)'
                             \cup SfHand(s)' \cup SfSet(sfLink[s])' \cup SfPastSet(s)'
        <5> HIDE DEF e
        <5>1. QED
          BY <2>1, <2>2, <2>5, <3>1, <3>3, <3>5, <4>4 DEF SfData
      <4>8. SfData(s)'
        BY <3>1, <3>3, <3>4, <4>5, <4>6, <4>7 DEF SfData
      <4>9. QED
        BY <2>3, <2>5, <4>8
    <3>6. CASE ~sfUp[s] /\ UNCHANGED sfLink
      <4>1. ~SfLive(s)' /\ UNCHANGED SfSet(sfLink[s])
        BY <1>1, <3>6 DEF SfLive, SfSet
      <4>2. SfWithin(sfLink[s], s, sfLog[s])' /\ SfOrdered(sfLink[s])'
        <5> HIDE DEF e
        <5>1. QED
          BY <2>1, <2>5, <3>1, <3>3, <3>6 DEF SfData, SfWithin, SfOrdered
      <4>3. SfApart(sfAgain[s] \cup {0}, SfShownSet(s), SfOutOf(sfOut, s), SfHand(s), SfSet(sfLink[s]),
                    SfPastSet(s))'
        BY <1>1, <2>1, <2>2, <2>5, <4>1 DEF SfData
      <4>4. SfData(s)'
        BY <3>1, <3>3, <3>4, <4>1, <4>2, <4>3 DEF SfData
      <4>5. QED
        BY <2>3, <2>5, <4>4
    <3>7. QED
      BY <1>3, <3>5, <3>6
  <2>6. QED
    BY <2>4, <2>5
<1>8. QED
  BY <1>5, <1>6, <1>7 DEF SfInv

\* A connection that goes down, with what it carried.
LEMMA SfBreakStep ==
    ASSUME SfInv, NEW s \in SfSources, SfBreak(s)
    PROVE  SfInv'
<1>1. /\ SfTypeInv /\ SfPhases
      /\ sfUp' = [sfUp EXCEPT ![s] = FALSE] /\ sfLink' = [sfLink EXCEPT ![s] = << >>]
      /\ sfMissed' = [sfMissed EXCEPT ![s] = @ \cup SfSet(sfLink[s])]
      /\ UNCHANGED <<sfLocal, sfHandler, sfPast, sfOut, sfClosed, sfPc, sfTaken, sfLog, sfCtx,
                     sfDrain, sfShown, sfAgain, sfPanicked>>
  BY DEF SfInv, SfBreak
<1>2. SfSet(sfLink[s]) \subseteq Nat /\ << >> \in Seq(SfEvt)
  <2>1. SfSet(sfLink[s]) \subseteq 1..sfLog[s] /\ sfLog[s] \in Nat
    BY <1>1, SfBounds DEF SfInv
  <2>2. QED
    BY <2>1
<1>3. SfTypeInv'
  BY <1>1, <1>2 DEF SfTypeInv
<1>4. SfPhases'
  BY <1>1 DEF SfPhases, SfOrdered, SfOnceIn
<1>5. ASSUME NEW t \in SfSources
      PROVE  SfData(t)' /\ SfControl(t)'
  <2>1. SfData(t) /\ SfControl(t)
    BY DEF SfInv
  <2>2. UNCHANGED <<SfOutOf(sfOut, t), SfPastSet(t), SfShownSet(t), SfHand(t)>>
    BY <1>1 DEF SfOutOf, SfPastSet, SfSet, SfShownSet, SfHand
  <2>3. SfControl(t)'
    BY <1>1, <2>1, <2>2 DEF SfControl, SfUsed, SfTypeInv
  <2>4. CASE t # s
    <3>1. /\ sfLink'[t] = sfLink[t] /\ sfUp'[t] = sfUp[t] /\ sfMissed'[t] = sfMissed[t]
          /\ SfLive(t)' => SfLive(t)
      BY <1>1, <2>4 DEF SfTypeInv, SfLive
    <3>2. SfData(t)'
      BY <1>1, <2>1, <2>2, <3>1, SfDataKept
    <3>3. QED
      BY <2>3, <3>2
  <2>5. CASE t = s
    <3>1. sfLink'[s] = << >> /\ sfUp'[s] = FALSE
      BY <1>1 DEF SfTypeInv
    <3>2. SfSet(sfLink[s])' = {} /\ ~SfLive(s)'
      BY <3>1 DEF SfSet, SfLive
    <3>3. SfWithin(sfLink[s], s, sfLog[s])' /\ SfOrdered(sfLink[s])'
      BY <3>1 DEF SfWithin, SfOrdered
    <3>4. SfApart(sfAgain[s] \cup {0}, SfShownSet(s), SfOutOf(sfOut, s), SfHand(s), SfSet(sfLink[s]),
                  SfPastSet(s))'
      BY <1>1, <2>1, <2>2, <2>5, <3>2 DEF SfData, SfApart
    <3>5. SfData(s)'
      BY <1>1, <2>1, <2>2, <2>5, <3>2, <3>3, <3>4 DEF SfData
    <3>6. QED
      BY <2>3, <2>5, <3>5
  <2>6. QED
    BY <2>4, <2>5
<1>6. QED
  BY <1>3, <1>4, <1>5 DEF SfInv

\* An event that enters `out' and one that leaves it.
LEMMA SfOnceFacts ==
    ASSUME NEW q \in Seq(SfEvt), NEW again, SfOnceIn(q, again)
    PROVE  /\ \A x \in SfEvt : (x.evt \in SfOutOf(q, x.src) => x.evt \in again[x.src] \cup {0})
                                 => SfOnceIn(Append(q, x), again)
           /\ q # << >> => /\ SfOnceIn(Tail(q), again)
                           /\ Head(q).evt \in SfOutOf(Tail(q), Head(q).src)
                                 => Head(q).evt \in again[Head(q).src] \cup {0}
<1>1. ASSUME NEW x \in SfEvt, x.evt \in SfOutOf(q, x.src) => x.evt \in again[x.src] \cup {0}
      PROVE  SfOnceIn(Append(q, x), again)
  <2> DEFINE a == Append(q, x)
             l == Len(q)
  <2>1. /\ \A i \in 1..l : a[i] = q[i] /\ i \in 1..(l + 1)
        /\ \A i \in 1..(l + 1) : i = l + 1 \/ i \in 1..l
        /\ a[l + 1] = x /\ Len(a) = l + 1 /\ l \in Nat
    BY SfAppendFacts
  <2>2. \A i \in 1..l : q[i] = x => x.evt \in again[x.src] \cup {0}
    BY <1>1 DEF SfOutOf
  <2>3. \A i, j \in 1..l : q[i] = q[j] /\ i # j => q[i].evt \in again[q[i].src] \cup {0}
    BY DEF SfOnceIn
  <2> HIDE DEF a, l
  <2>4. SUFFICES ASSUME NEW i \in 1..(l + 1), NEW j \in 1..(l + 1), a[i] = a[j], i # j
                 PROVE  a[i].evt \in again[a[i].src] \cup {0}
    BY <2>1 DEF SfOnceIn, a
  <2>5. CASE i \in 1..l /\ j \in 1..l
    BY <2>1, <2>3, <2>4, <2>5
  <2>6. CASE i = l + 1 \/ j = l + 1
    BY <2>1, <2>2, <2>4, <2>6
  <2>7. QED
    BY <2>1, <2>5, <2>6
<1>2. ASSUME q # << >>
      PROVE  /\ SfOnceIn(Tail(q), again)
             /\ Head(q).evt \in SfOutOf(Tail(q), Head(q).src)
                   => Head(q).evt \in again[Head(q).src] \cup {0}
  <2>1. /\ Len(q) \in Nat /\ Len(q) > 0 /\ q[1] = Head(q) /\ Head(q) \in SfEvt
        /\ Tail(q) \in Seq(SfEvt)
        /\ \A i \in 1..Len(Tail(q)) : Tail(q)[i] = q[i + 1] /\ i + 1 \in 1..Len(q)
    BY <1>2, SfHeadFacts
  <2>2. \A i, j \in 1..Len(q) : q[i] = q[j] /\ i # j => q[i].evt \in again[q[i].src] \cup {0}
    BY DEF SfOnceIn
  <2>3. SfOnceIn(Tail(q), again)
    <3> SUFFICES ASSUME NEW i \in 1..Len(Tail(q)), NEW j \in 1..Len(Tail(q)),
                        Tail(q)[i] = Tail(q)[j], i # j
                 PROVE  Tail(q)[i].evt \in again[Tail(q)[i].src] \cup {0}
      BY DEF SfOnceIn
    <3>1. i + 1 # j + 1 /\ i + 1 \in 1..Len(q) /\ j + 1 \in 1..Len(q) /\ q[i + 1] = q[j + 1]
      BY <2>1
    <3>2. q[i + 1].evt \in again[q[i + 1].src] \cup {0}
      BY <2>2, <3>1
    <3>3. QED
      BY <2>1, <3>2
  <2>4. ASSUME Head(q).evt \in SfOutOf(Tail(q), Head(q).src)
        PROVE  Head(q).evt \in again[Head(q).src] \cup {0}
    <3>1. PICK i \in 1..Len(Tail(q)) : Tail(q)[i].src = Head(q).src /\ Tail(q)[i].evt = Head(q).evt
      BY <2>4 DEF SfOutOf
    <3>2. Tail(q)[i] \in SfEvt
      BY <2>1
    <3>3. Tail(q)[i] = Head(q)
      BY SMTT(30), <2>1, <3>1, <3>2 DEF SfEvt
    <3>4. i + 1 # 1 /\ i + 1 \in 1..Len(q) /\ 1 \in 1..Len(q) /\ q[i + 1] = q[1]
      BY <2>1, <3>3
    <3>5. QED
      BY <2>1, <2>2, <3>4
  <2>5. QED
    BY <2>3, <2>4
<1>3. QED
  BY <1>1, <1>2

LEMMA SfHistoryCopyStep ==
    ASSUME SfInv, SfHistoryCopy
    PROVE  SfInv'
<1> DEFINE b == SfBroker
           tl == SfTail(SfBroker)
<1>1. /\ SfTypeInv /\ SfPhases /\ b \in SfSources
      /\ sfHandler = "subscribed" /\ sfHandler' = "history" /\ sfPast' = tl
      /\ sfAgain' = [sfAgain EXCEPT ![b] = SfSet(tl) \cap SfSet(sfLink[b])]
      /\ sfMissed' = [sfMissed EXCEPT ![b] = (1..sfLog[b]) \ (SfSet(tl) \cup SfSet(sfLink[b]))]
      /\ UNCHANGED <<sfLocal, sfOut, sfClosed, sfPc, sfWires, sfTaken, sfCtx, sfDrain, sfFaults,
                     sfShown, sfPanicked>>
  BY DEF SfInv, SfHistoryCopy, SfSources
<1>2. /\ tl \in Seq(SfEvt) /\ Len(tl) <= SfHistory /\ SfWithin(tl, b, sfLog[b]) /\ SfOrdered(tl)
  BY <1>1, SfTailFacts
<1>3. SfSet(tl) \subseteq 1..sfLog[b] /\ sfLog[b] \in Nat /\ 1..sfLog[b] \subseteq Nat
  BY <1>1, <1>2 DEF SfSet, SfWithin, SfTypeInv
<1>4. sfOut = << >> /\ sfLocal
  BY <1>1 DEF SfPhases
<1> HIDE DEF tl
<1>5. SfTypeInv'
  BY <1>1, <1>2, <1>3 DEF SfTypeInv, sfWires
<1>6. SfPhases'
  <2>1. Len(sfOut) + Len(tl) <= SfHistory
    BY <1>2, <1>4
  <2>2. SfOnceIn(sfOut, sfAgain)' /\ SfOrdered(sfPast)'
    BY <1>1, <1>2, <1>4 DEF SfOnceIn, SfOrdered
  <2>3. \A i \in 1..Len(tl) : tl[i].src = b
    BY <1>2 DEF SfWithin
  <2>4. QED
    BY <1>1, <1>4, <2>1, <2>2, <2>3 DEF SfPhases
<1>7. ASSUME NEW t \in SfSources
      PROVE  SfData(t)' /\ SfControl(t)'
  <2>1. SfData(t) /\ SfControl(t)
    BY DEF SfInv
  <2>2. /\ UNCHANGED <<SfOutOf(sfOut, t), SfShownSet(t), SfHand(t), SfSet(sfLink[t])>>
        /\ SfShownSet(t) = {} /\ SfOutOf(sfOut, t) = {} /\ SfHand(t) = {}
        /\ (t = b) \/ ~sfUp[t]
    BY <1>1, <1>4, <2>1 DEF SfOutOf, SfSet, SfShownSet, SfHand, SfControl, sfWires
  <2>3. SfControl(t)'
    BY <1>1, <2>1, <2>2 DEF SfControl, SfUsed, sfWires
  <2>4. CASE t # b
    <3>1. /\ sfAgain'[t] = sfAgain[t] /\ sfMissed'[t] = sfMissed[t] /\ ~SfLive(t)'
          /\ UNCHANGED SfPastSet(t)
      BY <1>1, <2>2, <2>4 DEF SfTypeInv, SfLive, SfPastSet, sfWires
    <3>2. SfData(t)'
      BY <1>1, <2>1, <2>2, <3>1, SfDataKept DEF sfWires
    <3>3. QED
      BY <2>3, <3>2
  <2>5. CASE t = b
    <3>1. /\ sfAgain'[b] = SfSet(tl) \cap SfSet(sfLink[b])
          /\ sfMissed'[b] = (1..sfLog[b]) \ (SfSet(tl) \cup SfSet(sfLink[b]))
          /\ SfPastSet(b)' = SfSet(tl)
      BY <1>1 DEF SfTypeInv, SfPastSet, SfSet
    <3>2. /\ SfWithin(sfLink[b], b, sfLog[b])' /\ SfOrdered(sfLink[b])'
          /\ sfTaken'[b] <= sfLog'[b] /\ sfLog'[b] = sfLog[b]
      BY <1>1, <2>1, <2>5 DEF SfData, SfWithin, SfOrdered, sfWires
    <3>3. \A e \in SfEvents : ~(sfShown'[b][e] > 1)
      <4>1. \A e \in SfEvents : sfShown[b][e] \in Nat /\ ~(sfShown[b][e] > 0)
        BY <1>1, <2>2, <2>5 DEF SfShownSet, SfTypeInv
      <4>2. QED
        BY <1>1, <4>1
    <3>4. SfApart(sfAgain[b] \cup {0}, SfShownSet(b), SfOutOf(sfOut, b), SfHand(b), SfSet(sfLink[b]),
                  SfPastSet(b))'
      BY <2>2, <2>5, <3>1 DEF SfApart
    <3>5. SfData(b)'
      BY <1>1, <1>3, <2>2, <2>5, <3>1, <3>2, <3>3, <3>4 DEF SfData
    <3>6. QED
      BY <2>3, <2>5, <3>5
  <2>6. QED
    BY <2>4, <2>5
<1>8. QED
  BY <1>5, <1>6, <1>7 DEF SfInv

LEMMA SfHistoryPutStep ==
    ASSUME SfInv, SfHistoryPut
    PROVE  SfInv'
<1> DEFINE b == SfBroker
           x == Head(sfPast)
<1>1. /\ SfTypeInv /\ SfPhases /\ b \in SfSources
      /\ sfHandler = "history" /\ sfPast # << >>
      /\ sfOut' = Append(sfOut, x) /\ sfPast' = Tail(sfPast)
      /\ UNCHANGED <<sfLocal, sfHandler, sfClosed, sfPc, sfWires, sfTaken, sfCtx, sfDrain, sfFaults,
                     sfSeen>>
  BY DEF SfInv, SfHistoryPut, SfSources
<1>2. /\ sfPast \in Seq(SfEvt) /\ sfOut \in Seq(SfEvt) /\ x \in SfEvt /\ x = sfPast[1]
      /\ Len(sfPast) \in Nat /\ Len(sfPast) > 0 /\ Len(sfOut) \in Nat
      /\ Tail(sfPast) \in Seq(SfEvt) /\ Len(Tail(sfPast)) = Len(sfPast) - 1
      /\ Append(sfOut, x) \in Seq(SfEvt) /\ Len(Append(sfOut, x)) = Len(sfOut) + 1
      /\ SfSet(sfPast) = {x.evt} \cup SfSet(Tail(sfPast))
      /\ SfOrdered(Tail(sfPast)) /\ x.evt \notin SfSet(Tail(sfPast))
      /\ \A i \in 1..Len(Tail(sfPast)) : Tail(sfPast)[i] = sfPast[i + 1] /\ i + 1 \in 1..Len(sfPast)
  BY <1>1, SfHeadFacts, SfAppendFacts DEF SfTypeInv, SfPhases
<1>3. x.src = b /\ \A i \in 1..Len(Tail(sfPast)) : Tail(sfPast)[i].src = b
  <2>1. 1 \in 1..Len(sfPast)
    BY <1>2
  <2>2. QED
    BY <1>1, <1>2, <2>1 DEF SfPhases
<1>4. SfTypeInv'
  <2> HIDE DEF x
  <2>1. QED
    BY <1>1, <1>2 DEF SfTypeInv, sfWires, sfSeen
<1>5. SfData(b)
  BY <1>1 DEF SfInv
<1>6. /\ SfPastSet(b) = {x.evt} \cup SfPastSet(b)' /\ x.evt \notin SfPastSet(b)'
      /\ SfOutOf(sfOut, b)' = SfOutOf(sfOut, b) \cup {x.evt}
      /\ \A t : t # b => SfOutOf(sfOut, t)' = SfOutOf(sfOut, t)
  <2>1. \A s : SfOutOf(sfOut', s) = SfOutOf(sfOut, s) \cup (IF x.src = s THEN {x.evt} ELSE {})
    BY <1>1, <1>2, SfOutFacts
  <2> HIDE DEF x
  <2>2. SfSet(sfPast)' = SfSet(Tail(sfPast)) /\ \A s : SfOutOf(sfOut, s)' = SfOutOf(sfOut', s)
    BY <1>1 DEF SfSet, SfOutOf
  <2>3. QED
    BY ZenonT(60), <1>2, <1>3, <2>1, <2>2 DEF SfPastSet
<1>7. SfPhases'
  <2>1. x.evt \in SfOutOf(sfOut, b) => x.evt \in sfAgain[b] \cup {0}
    BY <1>5, <1>6 DEF SfData, SfApart
  <2>2. SfOnceIn(Append(sfOut, x), sfAgain)
    BY <1>1, <1>2, <1>3, <2>1, SfOnceFacts DEF SfPhases
  <2>3. SfOnceIn(sfOut, sfAgain)' /\ SfOrdered(sfPast)'
    BY <1>1, <1>2, <2>2 DEF SfOnceIn, SfOrdered, sfSeen
  <2>4. Len(sfOut') + Len(sfPast') <= SfHistory
    <3>1. Len(sfOut) + Len(sfPast) <= SfHistory /\ SfHistory \in Nat
      BY <1>1, StreamFanAssumption DEF SfPhases
    <3> HIDE DEF x
    <3>2. QED
      BY <1>1, <1>2, <3>1
  <2> HIDE DEF x
  <2>5. QED
    BY <1>1, <1>3, <2>3, <2>4 DEF SfPhases, sfSeen
<1>8. ASSUME NEW t \in SfSources
      PROVE  SfData(t)' /\ SfControl(t)'
  <2>1. SfData(t) /\ SfControl(t)
    BY DEF SfInv
  <2>2. UNCHANGED <<SfShownSet(t), SfHand(t), SfSet(sfLink[t]), SfLive(t)>>
    BY <1>1 DEF SfSet, SfShownSet, SfHand, SfLive, sfWires, sfSeen
  <2>3. SfControl(t)'
    BY <1>1, <2>1, <2>2 DEF SfControl, SfUsed, sfWires
  <2>4. CASE t # b
    <3>1. UNCHANGED <<SfPastSet(t), SfOutOf(sfOut, t)>>
      BY <1>6, <2>4 DEF SfPastSet
    <3>2. SfData(t)'
      BY <1>1, <2>1, <2>2, <3>1, SfDataKept DEF sfWires, sfSeen
    <3>3. QED
      BY <2>3, <3>2
  <2>5. CASE t = b
    <3>1. SfWithin(sfLink[b], b, sfLog[b])' /\ SfOrdered(sfLink[b])'
      BY <1>1, <2>1, <2>5 DEF SfData, SfWithin, SfOrdered, sfWires
    <3>2. SfApart(sfAgain[b] \cup {0}, SfShownSet(b), SfOutOf(sfOut, b), SfHand(b), SfSet(sfLink[b]),
                  SfPastSet(b))'
      <4> HIDE DEF x
      <4>1. QED
        BY <1>1, <1>5, <1>6, <2>2, <2>5 DEF SfData, SfApart, sfSeen
    <3>3. SfOutOf(sfOut, b)' \subseteq 0..sfLog[b]
      <4>1. 1..sfLog[b] \subseteq 0..sfLog[b]
        BY <1>1 DEF SfTypeInv
      <4>2. QED
        BY <1>5, <1>6, <4>1 DEF SfData
    <3>4. SfData(b)'
      <4> HIDE DEF x
      <4>1. QED
        BY <1>1, <1>5, <1>6, <2>2, <2>5, <3>1, <3>2, <3>3 DEF SfData, sfWires, sfSeen
    <3>5. QED
      BY <2>3, <2>5, <3>4
  <2>6. QED
    BY <2>4, <2>5
<1>9. QED
  BY <1>4, <1>7, <1>8 DEF SfInv

\* The first event leaves `out': the client sees it, or the drain takes it.
LEMMA SfServeStep ==
    ASSUME SfInv, SfServe \/ SfDrainStep
    PROVE  SfInv'
<1> DEFINE x == Head(sfOut)
           r == x.src
           e == x.evt
<1>1. /\ SfTypeInv /\ SfPhases /\ sfOut # << >> /\ sfOut' = Tail(sfOut)
      /\ UNCHANGED <<sfLocal, sfHandler, sfPast, sfClosed, sfPc, sfWires, sfTaken, sfCtx, sfDrain,
                     sfFaults, sfAgain, sfMissed, sfPanicked>>
      /\ \/ sfHandler = "serve" /\ e = 0 /\ sfShown' = sfShown
         \/ sfHandler = "serve" /\ e # 0 /\ sfShown' = [sfShown EXCEPT ![r][e] = @ + 1]
         \/ sfCtx /\ sfShown' = sfShown
  BY DEF SfInv, SfServe, SfDrainStep, sfSeen, SfPhases
<1>2. /\ sfOut \in Seq(SfEvt) /\ x \in SfEvt /\ Tail(sfOut) \in Seq(SfEvt)
      /\ \A s : SfOutOf(sfOut, s) = SfOutOf(sfOut', s) \cup (IF r = s THEN {e} ELSE {})
      /\ SfOnceIn(Tail(sfOut), sfAgain)
      /\ e \in SfOutOf(sfOut', r) => e \in sfAgain[r] \cup {0}
  BY <1>1, SfHeadFacts, SfOutFacts, SfOnceFacts DEF SfTypeInv, SfPhases
<1>3. r \in SfSources /\ e \in Nat
  BY <1>2 DEF SfEvt
<1>4. SfData(r) /\ e \in SfOutOf(sfOut, r)
  BY <1>2, <1>3 DEF SfInv
<1>5. e = 0 \/ e \in SfEvents
  <2>1. sfLog[r] <= SfMaxEvents /\ sfLog[r] \in Nat /\ SfMaxEvents \in Nat /\ e \in 0..sfLog[r]
    BY <1>1, <1>3, <1>4, SfBounds
  <2> HIDE DEF e, r
  <2>2. QED
    BY <2>1 DEF SfEvents
<1>6. \A s : SfOutOf(sfOut, s)' = SfOutOf(sfOut', s)
  BY DEF SfOutOf
<1> HIDE DEF x, r, e
<1>7. SfTypeInv'
  <2>1. sfShown' \in [SfSources -> [SfEvents -> Nat]]
    <3>1. CASE sfShown' = sfShown
      BY <1>1, <3>1 DEF SfTypeInv
    <3>2. CASE e # 0 /\ sfShown' = [sfShown EXCEPT ![r][e] = @ + 1]
      <4>1. sfShown[r][e] \in Nat /\ sfShown[r] \in [SfEvents -> Nat]
        BY <1>1, <1>3, <1>5, <3>2 DEF SfTypeInv
      <4>2. [sfShown[r] EXCEPT ![e] = @ + 1] \in [SfEvents -> Nat]
        <5> DEFINE g == sfShown[r]
        <5>1. g \in [SfEvents -> Nat] /\ g[e] + 1 \in Nat
          BY <4>1
        <5> HIDE DEF g
        <5>2. [g EXCEPT ![e] = g[e] + 1] \in [SfEvents -> Nat]
          BY <5>1
        <5>3. QED
          BY <5>2 DEF g
      <4>3. QED
        BY <1>1, <1>3, <3>2, <4>2 DEF SfTypeInv
    <3>3. QED
      BY <1>1, <3>1, <3>2
  <2>2. QED
    BY <1>1, <1>2, <2>1 DEF SfTypeInv, sfWires
<1>8. SfPhases'
  <2>1. SfOnceIn(sfOut, sfAgain)' /\ SfOrdered(sfPast)'
    BY <1>1, <1>2 DEF SfOnceIn, SfOrdered, SfPhases
  <2>2. sfHandler \in {"idle", "subscribed"} => sfOut' = << >>
    BY <1>1 DEF SfPhases
  <2>3. sfHandler = "history" => Len(sfOut') + Len(sfPast) <= SfHistory
    <3>1. Len(sfOut') = Len(sfOut) - 1 /\ Len(sfOut) \in Nat /\ Len(sfPast) \in Nat /\ SfHistory \in Nat
      BY <1>1, <1>2, SfHeadFacts, StreamFanAssumption DEF SfTypeInv
    <3>2. QED
      BY <1>1, <3>1 DEF SfPhases
  <2>4. QED
    BY <1>1, <2>1, <2>2, <2>3 DEF SfPhases
<1>9. ASSUME NEW t \in SfSources
      PROVE  SfData(t)' /\ SfControl(t)'
  <2>1. SfData(t) /\ SfControl(t)
    BY DEF SfInv
  <2>2. /\ UNCHANGED <<SfPastSet(t), SfHand(t), SfSet(sfLink[t]), SfLive(t), sfLog[t], sfTaken[t],
                       sfAgain[t], sfMissed[t]>>
        /\ SfWithin(sfLink[t], t, sfLog[t])' /\ SfOrdered(sfLink[t])'
        /\ SfOutOf(sfOut, t) = SfOutOf(sfOut, t)' \cup (IF r = t THEN {e} ELSE {})
    BY <1>1, <1>2, <1>6, <2>1 DEF SfSet, SfPastSet, SfHand, SfLive, sfWires, SfData, SfWithin, SfOrdered
  <2>3. CASE r # t \/ (sfShown' = sfShown /\ (e = 0 \/ sfCtx))
    <3>1. sfShown'[t] = sfShown[t] /\ (r # t \/ e = 0 \/ sfCtx)
      BY <1>1, <1>3, <2>3 DEF SfTypeInv
    <3>2. SfShownSet(t)' = SfShownSet(t)
      BY <3>1 DEF SfShownSet
    <3>3. SfControl(t)'
      BY <1>1, <2>1, <3>2 DEF SfControl, SfUsed, sfWires
    <3>4. SfApart(sfAgain[t] \cup {0}, SfShownSet(t), SfOutOf(sfOut, t), SfHand(t), SfSet(sfLink[t]),
                  SfPastSet(t))'
      BY <2>1, <2>2, <3>2 DEF SfData, SfApart
    <3>5. SfLive(t)' => 1..sfLog'[t] \subseteq sfMissed'[t] \cup SfShownSet(t)' \cup SfOutOf(sfOut, t)'
                           \cup SfHand(t)' \cup SfSet(sfLink[t])' \cup SfPastSet(t)'
      <4>1. SfLive(t)' => ~sfCtx
        BY <1>1 DEF SfLive
      <4>2. 0 \notin 1..sfLog[t]
        OBVIOUS
      <4>3. QED
        BY <2>1, <2>2, <3>1, <3>2, <4>1, <4>2 DEF SfData
    <3>6. SfData(t)'
      BY <2>1, <2>2, <3>1, <3>2, <3>4, <3>5 DEF SfData
    <3>7. QED
      BY <3>3, <3>6
  <2>4. CASE r = t /\ e # 0 /\ sfShown' = [sfShown EXCEPT ![r][e] = @ + 1] /\ sfHandler = "serve"
    <3>1. /\ \A k \in SfEvents : k # e => sfShown'[t][k] = sfShown[t][k]
          /\ e \in SfEvents /\ sfShown'[t][e] = sfShown[t][e] + 1 /\ sfShown[t][e] \in Nat
      BY <1>1, <1>3, <1>5, <2>4 DEF SfTypeInv
    <3>2. SfShownSet(t)' = SfShownSet(t) \cup {e}
      BY <3>1 DEF SfShownSet
    <3>3. SfControl(t)'
      BY <1>1, <2>1, <2>4 DEF SfControl, SfUsed, sfWires
    <3>4. /\ e \in SfOutOf(sfOut, t) /\ SfOutOf(sfOut, t) = SfOutOf(sfOut, t)' \cup {e}
          /\ e \in SfOutOf(sfOut, t)' => e \in sfAgain[t] \cup {0}
      BY <1>2, <1>4, <1>6, <2>2, <2>4
    <3>5. SfApart(sfAgain[t] \cup {0}, SfShownSet(t), SfOutOf(sfOut, t), SfHand(t), SfSet(sfLink[t]),
                  SfPastSet(t))'
      BY <2>1, <2>2, <3>2, <3>4 DEF SfData, SfApart
    <3>6. \A k \in SfEvents : sfShown'[t][k] > 1 => k \in sfAgain'[t]
      <4>1. ASSUME sfShown'[t][e] > 1
            PROVE  e \in sfAgain[t]
        <5>1. e \in SfShownSet(t)
          BY <3>1, <4>1 DEF SfShownSet
        <5>2. QED
          BY <2>1, <2>4, <3>4, <5>1 DEF SfData, SfApart
      <4>2. QED
        BY <2>1, <2>2, <3>1, <4>1 DEF SfData
    <3>7. e \in 1..sfLog[t]
      <4>1. e \in 0..sfLog[t] /\ sfLog[t] \in Nat
        BY <1>1, <2>1, <3>4 DEF SfData, SfTypeInv
      <4>2. QED
        BY <2>4, <4>1
    <3>8. SfData(t)'
      BY <2>1, <2>2, <3>2, <3>4, <3>5, <3>6, <3>7 DEF SfData
    <3>9. QED
      BY <3>3, <3>8
  <2>5. QED
    BY <1>1, <2>3, <2>4
<1>10. QED
  BY <1>7, <1>8, <1>9 DEF SfInv

LEMMA SfBackoffStep ==
    ASSUME SfInv, NEW s \in SfSources, SfBackoff(s)
    PROVE  SfInv'
<1>1. /\ SfTypeInv /\ SfPhases /\ sfPc[s] \in {"wait", "dial"}
      /\ \/ sfPc' = [sfPc EXCEPT ![s] = "returned"]
         \/ sfPc' = [sfPc EXCEPT ![s] = "dial"]
      /\ UNCHANGED <<sfLocal, sfHandler, sfPast, sfOut, sfClosed, sfWires, sfTaken, sfCtx, sfDrain,
                     sfFaults, sfSeen>>
  BY DEF SfInv, SfBackoff, SfGoto
<1>2. SfTypeInv'
  BY <1>1 DEF SfTypeInv, SfPcs, sfWires, sfSeen
<1>3. SfPhases'
  BY <1>1 DEF SfPhases, SfOrdered, SfOnceIn, sfSeen
<1>4. ASSUME NEW t \in SfSources
      PROVE  SfData(t)' /\ SfControl(t)'
  <2>1. SfData(t) /\ SfControl(t)
    BY DEF SfInv
  <2>2. UNCHANGED <<SfOutOf(sfOut, t), SfPastSet(t), SfShownSet(t), SfLive(t)>>
    BY <1>1 DEF SfOutOf, SfPastSet, SfSet, SfShownSet, SfLive, sfWires, sfSeen
  <2>3. UNCHANGED SfHand(t)
    BY <1>1 DEF SfHand, SfTypeInv
  <2>4. SfData(t)'
    BY <1>1, <2>1, <2>2, <2>3, SfDataKept DEF sfWires, sfSeen
  <2>5. SfControl(t)'
    BY <1>1, <2>1, <2>2 DEF SfControl, SfUsed, SfTypeInv, sfWires
  <2>6. QED
    BY <2>4, <2>5
<1>5. QED
  BY <1>2, <1>3, <1>4 DEF SfInv

\* A forwarder hands its event over, or gives it up with its source.
LEMMA SfPutStep ==
    ASSUME SfInv, NEW s \in SfSources, SfPut(s)
    PROVE  SfInv'
<1> DEFINE e == sfTaken[s]
           x == [src |-> s, evt |-> e]
<1>1. /\ SfTypeInv /\ SfPhases /\ SfData(s) /\ SfControl(s) /\ sfPc[s] = "put" /\ ~sfClosed
      /\ UNCHANGED <<sfLocal, sfHandler, sfPast, sfClosed, sfLink, sfTaken, sfLog, sfCtx, sfDrain,
                     sfFaults, sfShown, sfAgain>>
      /\ sfHandler \notin {"idle", "subscribed", "history"}
  BY DEF SfInv, SfPut, SfControl
<1>2. e \in Nat /\ x \in SfEvt /\ sfOut \in Seq(SfEvt) /\ SfHand(s) = {e} /\ e \in 0..sfLog[s]
      /\ sfLog[s] \in Nat
  BY <1>1 DEF SfTypeInv, SfEvt, SfHand, SfData
<1>3. \/ /\ ~sfPanicked' /\ sfOut' = Append(sfOut, x) /\ sfPc' = [sfPc EXCEPT ![s] = "next"]
         /\ UNCHANGED <<sfUp, sfMissed>>
      \/ /\ sfCtx /\ sfPc' = [sfPc EXCEPT ![s] = IF s = SfBroker THEN "returned" ELSE "dial"]
         /\ sfUp' = [sfUp EXCEPT ![s] = FALSE]
         /\ sfMissed' = [sfMissed EXCEPT ![s] = @ \cup {e} \cup SfSet(sfLink[s])]
         /\ UNCHANGED <<sfOut, sfPanicked>>
  BY <1>1 DEF SfPut, SfGoto
<1>4. SfSet(sfLink[s]) \subseteq Nat
  <2>1. SfSet(sfLink[s]) \subseteq 1..sfLog[s]
    BY <1>1, SfBounds
  <2>2. QED
    BY <1>2, <2>1
<1>5. Append(sfOut, x) \in Seq(SfEvt) /\ x.src = s /\ x.evt = e
  BY <1>2, SfAppendFacts
<1>6. \A t : SfOutOf(Append(sfOut, x), t) = SfOutOf(sfOut, t) \cup (IF s = t THEN {e} ELSE {})
  <2>1. \A t : SfOutOf(Append(sfOut, x), t) = SfOutOf(sfOut, t) \cup (IF x.src = t THEN {x.evt} ELSE {})
    BY <1>2, SfOutFacts
  <2>2. QED
    BY <1>5, <2>1
<1>7. SfOnceIn(Append(sfOut, x), sfAgain)
  <2>1. e \in SfOutOf(sfOut, s) => e \in sfAgain[s] \cup {0}
    BY <1>1, <1>2 DEF SfData, SfApart
  <2>2. QED
    BY <1>1, <1>2, <1>5, <2>1, SfOnceFacts DEF SfPhases
<1> HIDE DEF e, x
<1>8. SfTypeInv'
  <2>1. sfPc' \in [SfSources -> SfPcs] /\ sfOut' \in Seq(SfEvt)
    BY <1>1, <1>3, <1>5 DEF SfTypeInv, SfPcs
  <2>2. sfUp' \in [SfSources -> BOOLEAN] /\ sfMissed' \in [SfSources -> SUBSET Nat]
    BY ZenonT(60), <1>1, <1>2, <1>3, <1>4 DEF SfTypeInv
  <2>3. QED
    BY <1>1, <2>1, <2>2 DEF SfTypeInv
<1>9. SfPhases'
  <2>1. SfOnceIn(sfOut, sfAgain)' /\ SfOrdered(sfPast)' /\ ~sfPanicked'
    BY SMTT(30), <1>1, <1>3, <1>7 DEF SfPhases, SfOnceIn, SfOrdered
  <2>2. QED
    BY <1>1, <2>1 DEF SfPhases
<1>10. ASSUME NEW t \in SfSources
       PROVE  SfData(t)' /\ SfControl(t)'
  <2>1. SfData(t) /\ SfControl(t)
    BY DEF SfInv
  <2>2. /\ UNCHANGED <<SfPastSet(t), SfShownSet(t), SfSet(sfLink[t])>>
        /\ SfWithin(sfLink[t], t, sfLog[t])' /\ SfOrdered(sfLink[t])'
    BY <1>1, <2>1 DEF SfPastSet, SfSet, SfShownSet, SfData, SfWithin, SfOrdered
  <2>3. SfControl(t)'
    <3>1. CASE t = s
      BY <1>1, <1>3, <2>1, <2>2, <3>1 DEF SfControl, SfUsed, SfTypeInv
    <3>2. CASE t # s
      BY <1>1, <1>3, <2>1, <2>2, <3>2 DEF SfControl, SfUsed, SfTypeInv
    <3>3. QED
      BY <3>1, <3>2
  <2>4. CASE t # s
    <3>1. /\ UNCHANGED <<SfHand(t), SfOutOf(sfOut, t), sfMissed[t], sfUp[t]>>
      <4>1. sfOut' = sfOut \/ sfOut' = Append(sfOut, x)
        BY <1>3
      <4>2. SfOutOf(sfOut, t)' = SfOutOf(sfOut', t)
        BY DEF SfOutOf
      <4>3. UNCHANGED SfOutOf(sfOut, t)
        BY <1>6, <2>4, <4>1, <4>2
      <4>4. UNCHANGED <<SfHand(t), sfMissed[t], sfUp[t]>>
        BY <1>1, <1>3, <2>4 DEF SfHand, SfTypeInv
      <4>5. QED
        BY <4>3, <4>4
    <3>2. SfLive(t)' => SfLive(t)
      BY <1>1, <3>1 DEF SfLive
    <3>3. SfData(t)'
      BY <1>1, <2>1, <2>2, <3>1, <3>2, SfDataKept
    <3>4. QED
      BY <2>3, <3>3
  <2>5. CASE t = s /\ sfOut' = Append(sfOut, x) /\ UNCHANGED <<sfUp, sfMissed>>
                 /\ sfPc' = [sfPc EXCEPT ![s] = "next"]
    <3>1. /\ SfHand(s)' = {} /\ SfOutOf(sfOut, s)' = SfOutOf(sfOut, s) \cup {e} /\ UNCHANGED SfLive(s)
      <4>1. SfOutOf(sfOut, s)' = SfOutOf(sfOut', s)
        BY DEF SfOutOf
      <4>2. SfHand(s)' = {}
        BY <1>1, <2>5 DEF SfHand, SfTypeInv
      <4>3. QED
        BY <1>1, <1>6, <2>5, <4>1, <4>2 DEF SfLive
    <3>2. SfApart(sfAgain[s] \cup {0}, SfShownSet(s), SfOutOf(sfOut, s), SfHand(s), SfSet(sfLink[s]),
                  SfPastSet(s))'
      BY <1>1, <1>2, <2>2, <2>5, <3>1 DEF SfData, SfApart
    <3>3. SfData(s)'
      BY <1>1, <1>2, <2>2, <2>5, <3>1, <3>2 DEF SfData
    <3>4. QED
      BY <2>3, <2>5, <3>3
  <2>6. CASE t = s /\ sfUp' = [sfUp EXCEPT ![s] = FALSE] /\ UNCHANGED sfOut
                 /\ sfPc' = [sfPc EXCEPT ![s] = IF s = SfBroker THEN "returned" ELSE "dial"]
    <3>1. SfHand(s)' = {} /\ UNCHANGED SfOutOf(sfOut, s) /\ ~SfLive(s)'
      BY <1>1, <2>6 DEF SfHand, SfOutOf, SfLive, SfTypeInv
    <3>2. SfApart(sfAgain[s] \cup {0}, SfShownSet(s), SfOutOf(sfOut, s), SfHand(s), SfSet(sfLink[s]),
                  SfPastSet(s))'
      BY <1>1, <1>2, <2>2, <2>6, <3>1 DEF SfData, SfApart
    <3>3. SfData(s)'
      BY <1>1, <1>2, <2>2, <2>6, <3>1, <3>2 DEF SfData
    <3>4. QED
      BY <2>3, <2>6, <3>3
  <2>7. QED
    BY <1>3, <2>4, <2>5, <2>6
<1>11. QED
  BY <1>8, <1>9, <1>10 DEF SfInv

\* A forwarder takes the first event of its source: it hands it on or, garbled, loses it.
LEMMA SfTakeStep ==
    ASSUME SfInv, NEW s \in SfSources, sfPc[s] = "next", sfLink[s] # << >>,
           sfLink' = [sfLink EXCEPT ![s] = Tail(@)],
           sfPc' = [sfPc EXCEPT ![s] = "put"],
           \/ sfTaken' = [sfTaken EXCEPT ![s] = Head(sfLink[s]).evt] /\ UNCHANGED sfMissed
           \/ /\ sfTaken' = [sfTaken EXCEPT ![s] = 0]
              /\ sfMissed' = [sfMissed EXCEPT ![s] = @ \cup {Head(sfLink[s]).evt}],
           UNCHANGED <<sfLocal, sfHandler, sfPast, sfOut, sfClosed, sfUp, sfLog, sfCtx, sfDrain,
                       sfShown, sfAgain, sfPanicked>>
    PROVE  SfInv'
<1> DEFINE e == Head(sfLink[s]).evt
           tl == Tail(sfLink[s])
<1>1. SfTypeInv /\ SfPhases /\ SfData(s) /\ SfControl(s) /\ sfLink[s] \in Seq(SfEvt)
  BY DEF SfInv, SfTypeInv
<1>2. /\ tl \in Seq(SfEvt) /\ e \in Nat /\ SfSet(sfLink[s]) = {e} \cup SfSet(tl)
      /\ SfOrdered(tl) /\ e \notin SfSet(tl) /\ SfWithin(tl, s, sfLog[s])
      /\ sfLog[s] \in Nat /\ e \in 1..sfLog[s]
  BY <1>1, SfHeadFacts, SfTailWithin DEF SfData, SfTypeInv
<1> HIDE DEF e, tl
<1>3. /\ sfLink' = [sfLink EXCEPT ![s] = tl]
      /\ \/ sfTaken' = [sfTaken EXCEPT ![s] = e] /\ UNCHANGED sfMissed
         \/ sfTaken' = [sfTaken EXCEPT ![s] = 0] /\ sfMissed' = [sfMissed EXCEPT ![s] = @ \cup {e}]
  BY <1>1 DEF e, tl
<1>4. SfTypeInv'
  <2>1. sfPc' \in [SfSources -> SfPcs] /\ sfLink' \in [SfSources -> Seq(SfEvt)]
    BY <1>1, <1>2, <1>3 DEF SfTypeInv, SfPcs
  <2>2. sfTaken' \in [SfSources -> Nat] /\ sfMissed' \in [SfSources -> SUBSET Nat]
    <3>1. sfTaken' = [sfTaken EXCEPT ![s] = e] \/ sfTaken' = [sfTaken EXCEPT ![s] = 0]
      BY <1>3
    <3>2. UNCHANGED sfMissed \/ sfMissed' = [sfMissed EXCEPT ![s] = @ \cup {e}]
      BY <1>3
    <3>3. sfTaken \in [SfSources -> Nat] /\ sfMissed \in [SfSources -> SUBSET Nat]
      BY <1>1 DEF SfTypeInv
    <3>4. sfTaken' \in [SfSources -> Nat]
      <4>1. \E k \in Nat : sfTaken' = [sfTaken EXCEPT ![s] = k]
        BY <1>2, <3>1, Zenon
      <4>2. QED
        BY <3>3, <4>1
    <3>5. sfMissed' \in [SfSources -> SUBSET Nat]
      BY SMTT(30), <1>2, <3>2, <3>3
    <3>6. QED
      BY <3>4, <3>5
  <2>3. QED
    BY <1>1, <2>1, <2>2 DEF SfTypeInv
<1>5. SfPhases'
  BY <1>1 DEF SfPhases, SfOnceIn, SfOrdered
<1>6. ASSUME NEW t \in SfSources
      PROVE  SfData(t)' /\ SfControl(t)'
  <2>1. SfData(t) /\ SfControl(t)
    BY DEF SfInv
  <2>2. UNCHANGED <<SfOutOf(sfOut, t), SfPastSet(t), SfShownSet(t), SfLive(t)>>
    BY DEF SfPastSet, SfSet, SfShownSet, SfOutOf, SfLive
  <2>3. SfControl(t)'
    <3>1. CASE t = s
      BY <1>1, <2>1, <2>2, <3>1 DEF SfControl, SfUsed, SfTypeInv
    <3>2. CASE t # s
      BY <1>1, <2>1, <2>2, <3>2 DEF SfControl, SfUsed, SfTypeInv
    <3>3. QED
      BY <3>1, <3>2
  <2>4. CASE t # s
    <3>1. UNCHANGED <<SfHand(t), sfLink[t], sfTaken[t], sfMissed[t]>>
      BY <1>1, <1>3, <2>4 DEF SfHand, SfTypeInv
    <3>2. SfData(t)'
      BY <2>1, <2>2, <3>1, SfDataKept
    <3>3. QED
      BY <2>3, <3>2
  <2>5. CASE t = s
    <3>1. /\ SfHand(s) = {} /\ SfHand(s)' = {sfTaken'[s]} /\ sfLink'[s] = tl
          /\ SfSet(sfLink[s])' = SfSet(tl)
      <4>1. SfHand(s) = {} /\ sfPc'[s] = "put" /\ sfLink'[s] = tl
        BY <1>1, <1>3 DEF SfHand, SfTypeInv
      <4>2. QED
        BY <4>1 DEF SfHand, SfSet
    <3>2. \/ sfTaken'[s] = e /\ sfMissed'[s] = sfMissed[s]
          \/ sfTaken'[s] = 0 /\ sfMissed'[s] = sfMissed[s] \cup {e}
      BY <1>1, <1>3 DEF SfTypeInv
    <3>3. SfWithin(sfLink[s], s, sfLog[s])' /\ SfOrdered(sfLink[s])'
      BY <1>2, <3>1 DEF SfWithin, SfOrdered
    <3>4. sfTaken'[s] <= sfLog'[s]
      BY <1>2, <3>2
    <3>5. SfApart(sfAgain[s] \cup {0}, SfShownSet(s), SfOutOf(sfOut, s), SfHand(s), SfSet(sfLink[s]),
                  SfPastSet(s))'
      BY <1>1, <1>2, <2>2, <2>5, <3>1, <3>2 DEF SfData, SfApart
    <3>6. SfData(s)'
      BY <1>1, <1>2, <2>2, <2>5, <3>1, <3>2, <3>3, <3>4, <3>5 DEF SfData
    <3>7. QED
      BY <2>3, <2>5, <3>6
  <2>6. QED
    BY <2>4, <2>5
<1>7. QED
  BY <1>4, <1>5, <1>6 DEF SfInv

\* A forwarder turns away from its source, whose connection is down from now on.
LEMMA SfTurnStep ==
    ASSUME SfInv, NEW s \in SfSources, sfPc[s] = "next",
           \/ s # SfBroker /\ sfPc' = [sfPc EXCEPT ![s] = "dial"]
           \/ sfPc' = [sfPc EXCEPT ![s] = "returned"],
           \/ ~sfUp[s] /\ UNCHANGED sfUp
           \/ sfUp' = [sfUp EXCEPT ![s] = FALSE],
           \/ UNCHANGED <<sfLink, sfMissed>>
           \/ /\ sfLink' = [sfLink EXCEPT ![s] = << >>]
              /\ sfMissed' = [sfMissed EXCEPT ![s] = @ \cup SfSet(sfLink[s])],
           UNCHANGED <<sfLocal, sfHandler, sfPast, sfOut, sfClosed, sfTaken, sfLog, sfCtx, sfDrain,
                       sfShown, sfAgain, sfPanicked>>
    PROVE  SfInv'
<1>1. SfTypeInv /\ SfPhases /\ SfData(s) /\ SfControl(s) /\ << >> \in Seq(SfEvt)
  BY DEF SfInv
<1>2. SfSet(sfLink[s]) \subseteq Nat
  <2>1. SfSet(sfLink[s]) \subseteq 1..sfLog[s] /\ sfLog[s] \in Nat
    BY <1>1, SfBounds
  <2>2. QED
    BY <2>1
<1>3. SfTypeInv'
  <2>1. sfPc' \in [SfSources -> SfPcs] /\ sfUp' \in [SfSources -> BOOLEAN]
    BY <1>1 DEF SfTypeInv, SfPcs
  <2>2. sfLink \in [SfSources -> Seq(SfEvt)] /\ sfMissed \in [SfSources -> SUBSET Nat]
    BY <1>1 DEF SfTypeInv
  <2>3. sfLink' \in [SfSources -> Seq(SfEvt)]
    <3>1. [sfLink EXCEPT ![s] = << >>] \in [SfSources -> Seq(SfEvt)]
      BY <1>1, <2>2
    <3>2. QED
      BY <2>2, <3>1
  <2>4. sfMissed' \in [SfSources -> SUBSET Nat]
    <3>1. [sfMissed EXCEPT ![s] = @ \cup SfSet(sfLink[s])] \in [SfSources -> SUBSET Nat]
      BY <1>2, <2>2
    <3>2. QED
      BY <2>2, <3>1
  <2>5. QED
    BY <1>1, <2>1, <2>3, <2>4 DEF SfTypeInv
<1>4. SfPhases'
  BY <1>1 DEF SfPhases, SfOnceIn, SfOrdered
<1>5. ASSUME NEW t \in SfSources
      PROVE  SfData(t)' /\ SfControl(t)'
  <2>1. SfData(t) /\ SfControl(t)
    BY DEF SfInv
  <2>2. UNCHANGED <<SfOutOf(sfOut, t), SfPastSet(t), SfShownSet(t), SfHand(t)>>
    BY <1>1 DEF SfPastSet, SfSet, SfShownSet, SfOutOf, SfHand, SfTypeInv
  <2>3. SfControl(t)'
    <3>1. CASE t = s
      BY <1>1, <2>1, <2>2, <3>1 DEF SfControl, SfUsed, SfTypeInv
    <3>2. CASE t # s
      BY <1>1, <2>1, <2>2, <3>2 DEF SfControl, SfUsed, SfTypeInv
    <3>3. QED
      BY <3>1, <3>2
  <2>4. CASE t # s
    <3>1. UNCHANGED <<sfLink[t], sfMissed[t]>> /\ (SfLive(t)' => SfLive(t))
      BY <1>1, <2>4 DEF SfLive, SfTypeInv
    <3>2. SfData(t)'
      BY <2>1, <2>2, <3>1, SfDataKept
    <3>3. QED
      BY <2>3, <3>2
  <2>5. CASE t = s
    <3>1. ~SfLive(s)' /\ (sfLink'[s] = sfLink[s] \/ sfLink'[s] = << >>)
      BY <1>1 DEF SfLive, SfTypeInv
    <3>2. SfSet(sfLink[s])' \subseteq SfSet(sfLink[s]) /\ SfWithin(sfLink[s], s, sfLog[s])' /\ SfOrdered(sfLink[s])'
      BY <1>1, <3>1 DEF SfData, SfSet, SfWithin, SfOrdered
    <3>3. SfApart(sfAgain[s] \cup {0}, SfShownSet(s), SfOutOf(sfOut, s), SfHand(s), SfSet(sfLink[s]),
                  SfPastSet(s))'
      BY <1>1, <2>2, <2>5, <3>2 DEF SfData, SfApart
    <3>4. SfData(s)'
      BY <1>1, <2>2, <2>5, <3>1, <3>2, <3>3 DEF SfData
    <3>5. QED
      BY <2>3, <2>5, <3>4
  <2>6. QED
    BY <2>4, <2>5
<1>6. QED
  BY <1>3, <1>4, <1>5 DEF SfInv

LEMMA SfDialStep ==
    ASSUME SfInv, NEW s \in SfSources, SfDial(s)
    PROVE  SfInv'
<1> DEFINE tl == SfTail(s)
           replayed == SfSet(tl) \cap {e \in SfEvents : sfShown[s][e] > 0
                          \/ [src |-> s, evt |-> e] \in {sfOut[i] : i \in 1..Len(sfOut)}}
<1>1. /\ SfTypeInv /\ SfPhases /\ SfData(s) /\ SfControl(s) /\ sfPc[s] = "dial"
      /\ UNCHANGED <<sfLocal, sfHandler, sfPast, sfOut, sfClosed, sfTaken, sfLog, sfCtx, sfDrain,
                     sfShown, sfPanicked>>
  BY DEF SfInv, SfDial
<1>2. s # SfBroker /\ ~sfUp[s] /\ ~sfClosed /\ s \in SfUsed
      /\ sfHandler \notin {"idle", "subscribed", "history"}
  BY <1>1 DEF SfControl
<1>3. CASE SfFault /\ SfGoto(s, "wait") /\ UNCHANGED <<sfUp, sfLink, sfAgain, sfMissed>>
  <2>1. SfTypeInv'
    BY <1>1, <1>3 DEF SfTypeInv, SfPcs, SfGoto
  <2>2. SfPhases'
    BY <1>1, <1>3 DEF SfPhases, SfOnceIn, SfOrdered
  <2>3. ASSUME NEW t \in SfSources
        PROVE  SfData(t)' /\ SfControl(t)'
    <3>1. SfData(t) /\ SfControl(t)
      BY DEF SfInv
    <3>2. UNCHANGED <<SfOutOf(sfOut, t), SfPastSet(t), SfShownSet(t), SfHand(t), SfLive(t)>>
      BY <1>1, <1>3 DEF SfPastSet, SfSet, SfShownSet, SfOutOf, SfHand, SfTypeInv, SfGoto, SfLive
    <3>3. SfControl(t)'
      BY <1>1, <1>2, <1>3, <3>1, <3>2 DEF SfControl, SfUsed, SfTypeInv, SfGoto
    <3>4. SfData(t)'
      BY <1>1, <1>3, <3>1, <3>2, SfDataKept
    <3>5. QED
      BY <3>3, <3>4
  <2>4. QED
    BY <2>1, <2>2, <2>3 DEF SfInv
<1>4. CASE /\ sfUp' = [sfUp EXCEPT ![s] = TRUE]
           /\ sfLink' = [sfLink EXCEPT ![s] = tl]
           /\ sfAgain' = [sfAgain EXCEPT ![s] = @ \cup replayed]
           /\ sfMissed' = [sfMissed EXCEPT ![s] = (@ \cup 1..sfLog[s]) \ SfSet(tl)]
           /\ SfGoto(s, "next")
  <2>1. tl \in Seq(SfEvt) /\ SfWithin(tl, s, sfLog[s]) /\ SfOrdered(tl) /\ sfLog[s] \in Nat
    BY <1>1, SfTailFacts DEF SfTypeInv
  <2>2. SfSet(tl) \subseteq 1..sfLog[s] /\ 1..sfLog[s] \subseteq Nat /\ replayed \subseteq Nat
    BY <2>1 DEF SfSet, SfWithin
  <2>3. /\ SfSet(tl) \cap SfShownSet(s) \subseteq replayed
        /\ SfSet(tl) \cap SfOutOf(sfOut, s) \subseteq replayed
    <3>1. SfSet(tl) \cap SfShownSet(s) \subseteq replayed
      BY DEF SfShownSet
    <3>2. ASSUME NEW e \in SfSet(tl), e \in SfOutOf(sfOut, s)
          PROVE  e \in replayed
      <4>1. PICK i \in 1..Len(sfOut) : sfOut[i].src = s /\ sfOut[i].evt = e
        BY <3>2 DEF SfOutOf
      <4>2. sfOut[i] \in SfEvt
        BY <1>1 DEF SfTypeInv
      <4>3. sfOut[i] = [src |-> s, evt |-> e]
        BY <4>1, <4>2 DEF SfEvt
      <4>4. e \in SfEvents
        <5>1. sfLog[s] <= SfMaxEvents /\ SfMaxEvents \in Nat /\ e \in 1..sfLog[s]
          BY <1>1, <2>2, SfBounds
        <5>2. QED
          BY <2>1, <5>1 DEF SfEvents
      <4>5. QED
        BY <4>3, <4>4
    <3>3. QED
      BY <3>1, <3>2
  <2> HIDE DEF tl, replayed
  <2>4. SfTypeInv'
    <3>1. sfPc' \in [SfSources -> SfPcs] /\ sfUp' \in [SfSources -> BOOLEAN]
      BY <1>1, <1>4 DEF SfTypeInv, SfPcs, SfGoto
    <3>2. sfLink' \in [SfSources -> Seq(SfEvt)]
      BY <1>1, <1>4, <2>1 DEF SfTypeInv
    <3>3. sfMissed' \in [SfSources -> SUBSET Nat] /\ sfAgain' \in [SfSources -> SUBSET Nat]
      BY <1>1, <1>4, <2>2 DEF SfTypeInv
    <3>4. QED
      BY <1>1, <3>1, <3>2, <3>3 DEF SfTypeInv
  <2>5. SfPhases'
    <3>1. \A r \in SfSources : sfAgain[r] \subseteq sfAgain'[r]
      BY <1>1, <1>4 DEF SfTypeInv
    <3>2. SfOnceIn(sfOut, sfAgain)'
      <4> SUFFICES ASSUME NEW i \in 1..Len(sfOut), NEW j \in 1..Len(sfOut), sfOut[i] = sfOut[j], i # j
                   PROVE  sfOut[i].evt \in sfAgain'[sfOut[i].src] \cup {0}
        BY <1>1 DEF SfOnceIn
      <4>1. sfOut[i].evt \in sfAgain[sfOut[i].src] \cup {0}
        BY <1>1 DEF SfPhases, SfOnceIn
      <4>2. sfOut[i] \in SfEvt
        BY <1>1 DEF SfTypeInv
      <4>3. sfOut[i].src \in SfSources
        BY <4>2 DEF SfEvt
      <4>4. QED
        BY <3>1, <4>1, <4>3
    <3>3. QED
      BY <1>1, <3>2 DEF SfPhases, SfOrdered
  <2>6. ASSUME NEW t \in SfSources
        PROVE  SfData(t)' /\ SfControl(t)'
    <3>1. SfData(t) /\ SfControl(t)
      BY DEF SfInv
    <3>2. UNCHANGED <<SfOutOf(sfOut, t), SfPastSet(t), SfShownSet(t), SfHand(t)>>
      BY <1>1, <1>4 DEF SfPastSet, SfSet, SfShownSet, SfOutOf, SfHand, SfTypeInv, SfGoto
    <3>3. SfControl(t)'
      BY <1>1, <1>2, <1>4, <3>1, <3>2 DEF SfControl, SfUsed, SfTypeInv, SfGoto
    <3>4. CASE t # s
      <4>1. UNCHANGED <<sfLink[t], sfMissed[t], sfAgain[t], sfUp[t], SfLive(t)>>
        BY <1>1, <1>4, <3>4 DEF SfLive, SfTypeInv
      <4>2. SfData(t)'
        BY <1>1, <3>1, <3>2, <4>1, SfDataKept
      <4>3. QED
        BY <3>3, <4>2
    <3>5. CASE t = s
      <4>1. /\ sfLink'[s] = tl /\ sfAgain'[s] = sfAgain[s] \cup replayed
            /\ sfMissed'[s] = (sfMissed[s] \cup 1..sfLog[s]) \ SfSet(tl)
        BY <1>1, <1>4 DEF SfTypeInv
      <4>2. /\ SfSet(sfLink[s])' = SfSet(tl) /\ SfHand(s) = {} /\ SfPastSet(s) = {}
            /\ SfWithin(sfLink[s], s, sfLog[s])' /\ SfOrdered(sfLink[s])'
        BY <1>1, <1>2, <2>1, <4>1 DEF SfSet, SfHand, SfPastSet, SfWithin, SfOrdered
      <4>3. SfApart(sfAgain[s] \cup {0}, SfShownSet(s), SfOutOf(sfOut, s), SfHand(s), SfSet(sfLink[s]),
                    SfPastSet(s))'
        BY <1>1, <2>3, <3>2, <3>5, <4>1, <4>2 DEF SfData, SfApart
      <4>4. SfData(s)'
        BY <1>1, <2>2, <3>2, <3>5, <4>1, <4>2, <4>3 DEF SfData
      <4>5. QED
        BY <3>3, <3>5, <4>4
    <3>6. QED
      BY <3>4, <3>5
  <2>7. QED
    BY <2>4, <2>5, <2>6 DEF SfInv
<1>5. QED
  BY <1>3, <1>4 DEF SfDial

LEMMA SfInductive ==
    ASSUME SfInv, [SfStep]_sfVars
    PROVE  SfInv'
<1>1. ASSUME NEW s \in SfSources, SfNext(s)
      PROVE  SfInv'
  <2>1. /\ sfPc[s] = "next" /\ s # SfBroker
        /\ UNCHANGED <<sfLocal, sfHandler, sfPast, sfOut, sfClosed, sfLog, sfCtx, sfDrain, sfShown,
                       sfAgain, sfPanicked>>
    BY <1>1, StreamFanAssumption DEF SfNext, SfBroker
  <2>2. CASE ~sfUp[s]
    <3>1. UNCHANGED <<sfUp, sfLink, sfTaken, sfMissed>> /\ sfPc' = [sfPc EXCEPT ![s] = "dial"]
      BY <1>1, <2>2 DEF SfNext, SfGoto
    <3>2. QED
      BY <2>1, <2>2, <3>1, SfTurnStep
  <2>3. CASE sfUp[s] /\ sfCtx
    <3>1. /\ sfUp' = [sfUp EXCEPT ![s] = FALSE] /\ sfLink' = [sfLink EXCEPT ![s] = << >>]
          /\ sfMissed' = [sfMissed EXCEPT ![s] = @ \cup SfSet(sfLink[s])]
          /\ UNCHANGED sfTaken /\ sfPc' = [sfPc EXCEPT ![s] = "dial"]
      BY <1>1, <2>3 DEF SfNext, SfGoto
    <3>2. QED
      BY <2>1, <3>1, SfTurnStep
  <2>4. CASE sfUp[s] /\ ~sfCtx
    <3>1. /\ sfLink[s] # << >> /\ sfLink' = [sfLink EXCEPT ![s] = Tail(@)] /\ UNCHANGED sfUp
          /\ sfPc' = [sfPc EXCEPT ![s] = "put"]
          /\ \/ sfTaken' = [sfTaken EXCEPT ![s] = Head(sfLink[s]).evt] /\ UNCHANGED sfMissed
             \/ /\ sfTaken' = [sfTaken EXCEPT ![s] = 0]
                /\ sfMissed' = [sfMissed EXCEPT ![s] = @ \cup {Head(sfLink[s]).evt}]
      BY <1>1, <2>4 DEF SfNext, SfGoto
    <3>2. QED
      BY <2>1, <3>1, SfTakeStep
  <2>5. QED
    BY <2>2, <2>3, <2>4
<1>2. ASSUME SfTakeLocal
      PROVE  SfInv'
  <2>1. /\ SfBroker \in SfSources /\ sfPc[SfBroker] = "next"
        /\ UNCHANGED <<sfLocal, sfHandler, sfPast, sfOut, sfClosed, sfLog, sfCtx, sfDrain, sfFaults, sfSeen>>
    BY <1>2 DEF SfTakeLocal, SfSources
  <2>2. CASE /\ sfLink[SfBroker] # << >> /\ sfLink' = [sfLink EXCEPT ![SfBroker] = Tail(@)]
             /\ sfTaken' = [sfTaken EXCEPT ![SfBroker] = Head(sfLink[SfBroker]).evt]
             /\ SfGoto(SfBroker, "put") /\ UNCHANGED sfUp
    BY <2>1, <2>2, SfTakeStep DEF SfGoto, sfSeen
  <2>3. CASE /\ SfGoto(SfBroker, "returned") /\ sfUp' = [sfUp EXCEPT ![SfBroker] = FALSE]
             /\ UNCHANGED <<sfTaken, sfLink>>
    BY <2>1, <2>3, SfTurnStep DEF SfGoto, sfSeen
  <2>4. QED
    BY <1>2, <2>2, <2>3 DEF SfTakeLocal
<1>3. ASSUME UNCHANGED sfVars
      PROVE  SfInv'
  <2>1. SfTypeInv' /\ SfPhases'
    BY ZenonT(60), <1>3 DEF SfInv, SfTypeInv, SfPhases, SfOrdered, SfOnceIn, sfVars, sfWires, sfSeen
  <2>2. ASSUME NEW s \in SfSources
        PROVE  SfData(s)' /\ SfControl(s)'
    <3>1. SfData(s) /\ SfControl(s)
      BY DEF SfInv
    <3>2. UNCHANGED <<SfOutOf(sfOut, s), SfPastSet(s), SfShownSet(s), SfHand(s), SfLive(s)>>
      BY <1>3 DEF SfPastSet, SfSet, SfShownSet, SfOutOf, SfHand, SfLive, sfVars, sfWires, sfSeen
    <3>3. SfData(s)'
      BY <1>3, <3>1, <3>2, SfDataKept DEF sfVars, sfWires, sfSeen
    <3>4. SfControl(s)'
      BY <1>3, <3>1, <3>2 DEF SfControl, SfUsed, sfVars, sfWires, sfSeen
    <3>5. QED
      BY <3>3, <3>4
  <2>3. QED
    BY <2>1, <2>2 DEF SfInv
<1>4. QED
  BY <1>1, <1>2, <1>3, SfHandlerStep, SfPublishStep, SfBreakStep, SfHistoryCopyStep, SfHistoryPutStep,
     SfServeStep, SfBackoffStep, SfPutStep, SfDialStep
  DEF SfStep, SfWork, SfForwarder

LEMMA SfInvSafe ==
    ASSUME SfInv
    PROVE  StreamFanSafe
<1>1. SfTypeInv /\ SfPhases /\ SfUsed \subseteq SfSources /\ SfBroker \in SfSources
  BY DEF SfInv, SfUsed, SfSources
<1>2. ASSUME NEW s \in SfUsed, sfHandler = "serve", ~sfCtx, sfUp[s], NEW e \in 1..sfLog[s]
      PROVE  /\ sfShown[s][e] > 1 => e \in sfAgain[s]
             /\ e \in sfMissed[s] \/ sfShown[s][e] > 0 \/ e \in SfUnderWay(s)
  <2>1. s \in SfSources /\ SfData(s)
    BY <1>1 DEF SfInv
  <2>2. e \in SfEvents
    <3>1. sfLog[s] \in Nat /\ sfLog[s] <= SfMaxEvents /\ SfMaxEvents \in Nat
      BY <1>1, <2>1, SfBounds
    <3>2. QED
      BY <3>1 DEF SfEvents
  <2>3. SfUnderWay(s) = SfSet(sfLink[s]) \cup SfOutOf(sfOut, s) \cup SfHand(s) \cup SfPastSet(s)
    BY DEF SfUnderWay, SfOutOf, SfHand, SfPastSet
  <2>4. QED
    BY <1>2, <2>1, <2>2, <2>3 DEF SfData, SfLive, SfShownSet
<1>3. ASSUME sfCtx, ~SfMoving, NEW s \in SfUsed
      PROVE  \/ sfPc[s] \in {"none", "returned"}
             \/ s \in SfNodes /\ sfPc[s] = "next" /\ sfUp[s] /\ sfLink[s] = << >>
  <2>1. s \in SfSources /\ sfPc[s] \in SfPcs /\ (s \in SfNodes \/ s = SfBroker)
    BY <1>1 DEF SfTypeInv, SfSources
  <2>2. QED
    BY <1>3, <2>1 DEF SfMoving, SfPcs
<1>4. ASSUME sfHandler = "history", ~SfMoving
      PROVE  SfHistory > SfCap
  <2>1. sfPast # << >> /\ ~(Len(sfOut) < SfCap) /\ Len(sfOut) + Len(sfPast) <= SfHistory
    BY <1>1, <1>4 DEF SfMoving, SfPhases
  <2>2. Len(sfOut) \in Nat /\ Len(sfPast) \in Nat /\ Len(sfPast) > 0 /\ SfCap \in Nat /\ SfHistory \in Nat
    BY <1>1, <2>1, SfHeadFacts, StreamFanAssumption DEF SfTypeInv
  <2>3. QED
    BY <2>1, <2>2
<1>5. QED
  BY <1>1, <1>2, <1>3, <1>4 DEF StreamFanSafe, SfPhases

-----------------------------------------------------------------------------
(* The services together. *)

\* What the receivers that are not HEP promise, however their handlers overlap: a SIPREC
\* session always has the dialog that onInvite dereferences, and a dialog outlives its
\* session only after a BYE that was served during an INVITE of its call; no handler of
\* line protocol believes in a column that is not there, no row gets into a date
\* partitioned table without its date, and an answer of success means that every point
\* of the request is in the lake.
THEOREM ReceiversSound == PartSpec => []ReceiversSafe
<1> DEFINE v == <<part, lpVars, srVars, acVars, stVars, rlVars, sfVars, rgVars, trVars, hrVars, lsVars>>
<1>1. PartInit => SrInv /\ LpInv
  BY SrInitInv, LpInitInv DEF PartInit
<1>2. SrInv /\ LpInv /\ [PartNext]_v => SrInv' /\ LpInv'
  <2>1. SUFFICES ASSUME SrInv, LpInv, [PartNext]_v
                 PROVE  SrInv' /\ LpInv'
    OBVIOUS
  <2>2. [SrNext]_srVars /\ [LpNext]_lpVars
    BY <2>1 DEF PartNext, Idle
  <2>3. QED
    BY <2>1, <2>2, SrInductive, LpInductive
<1>3. SrInv /\ LpInv => ReceiversSafe
  BY LpInvSafe DEF ReceiversSafe, Of, SrInv
<1>4. QED
  BY <1>1, <1>2, <1>3, PTL DEF PartSpec

\* What becomes of a captured packet.  TableRoutingSafe: a key has one TableWriter
\* however many workers ask for it at once, a table has the columns of its rows unless
\* the key "1/" shares it, and a row is neither lost nor stored twice while its suffix
\* has one key.  HepRowSafe: a duplicate dropped has its twin within the window, a row
\* has the date of its day unless two days were dated at once or the zones differ, a
\* request and its responses share a table, and the import accounts for its file.
THEOREM IngestRowsSound == PartSpec => []IngestRowsSafe
<1> DEFINE v == <<part, lpVars, srVars, acVars, stVars, rlVars, sfVars, rgVars, trVars, hrVars, lsVars>>
<1>1. PartInit => TrInv /\ HrInv
  BY TrInitInv, HrInitInv DEF PartInit
<1>2. TrInv /\ HrInv /\ [PartNext]_v => TrInv' /\ HrInv'
  <2>1. SUFFICES ASSUME TrInv, HrInv, [PartNext]_v
                 PROVE  TrInv' /\ HrInv'
    OBVIOUS
  <2>2. [TrNext]_trVars /\ [HrNext]_hrVars
    BY <2>1 DEF PartNext, Idle
  <2>3. QED
    BY <2>1, <2>2, TrInductive, HrInductive
<1>3. TrInv /\ HrInv => IngestRowsSafe
  BY TrInvSafe, HrInvSafe DEF IngestRowsSafe, Of
<1>4. QED
  BY <1>1, <1>2, <1>3, PTL DEF PartSpec

\* What the coordinator's settings database keeps, however requests overlap.
\* AccountsSafe: the middleware serves no session that its owner ended and none with the
\* default password but to change it, no operation writes that password, one OAuth2 login
\* gives one session, and two rows of one name have their reason.  SettingsSafe: what
\* Settings promises of the alias cache, of dashboards, preferences, mappings, tokens and
\* scripts.  RegistrySafe: the reads find an agent's row as the last answered write of
\* its id says, and a second row only of an id that a client named.
THEOREM SettingsDBSound == PartSpec => []SettingsDBSafe
<1> DEFINE v == <<part, lpVars, srVars, acVars, stVars, rlVars, sfVars, rgVars, trVars, hrVars, lsVars>>
<1>1. PartInit => StInv /\ AcInv /\ RgInv
  BY StInitInv, AcInitInv, RgInitInv DEF PartInit, AccountsInit
<1>2. StInv /\ AcInv /\ RgInv /\ [PartNext]_v => StInv' /\ AcInv' /\ RgInv'
  <2>1. SUFFICES ASSUME StInv, AcInv, RgInv, [PartNext]_v
                 PROVE  StInv' /\ AcInv' /\ RgInv'
    OBVIOUS
  <2>2. [StNext]_stVars /\ [AcNext]_acVars /\ [RgNext]_rgVars
    BY <2>1 DEF PartNext, Idle
  <2>3. QED
    BY <2>1, <2>2, StInductive, AcInductive, RgInductive
<1>3. StInv /\ AcInv /\ RgInv => SettingsDBSafe
  BY StInvSafe, AcInvSafe, RgInvSafe DEF SettingsDBSafe, Of
<1>4. QED
  BY <1>1, <1>2, <1>3, PTL DEF PartSpec

\* What is passed on to others is passed on once and whole.  RemoteLogSafe: a packet
\* that a remote logging client accepted is in one place, so that Close and the
\* client's goroutine neither post it twice nor lose it between them, and what the
\* batch held at Close is posted but in the cases RemoteLogSafe names.  StreamFanSafe:
\* no forwarder sends on the closed channel, an event that reached a connection is
\* shown to the client or under way and twice only if it was replayed, and what stands
\* still when the client is gone is a forwarder reading from a silent node.
THEOREM DeliverySound == PartSpec => []DeliverySafe
<1> DEFINE v == <<part, lpVars, srVars, acVars, stVars, rlVars, sfVars, rgVars, trVars, hrVars, lsVars>>
<1>1. PartInit => RlInv /\ SfInv
  BY RlInitInv, SfInitInv DEF PartInit
<1>2. RlInv /\ SfInv /\ [PartNext]_v => RlInv' /\ SfInv'
  <2>1. SUFFICES ASSUME RlInv, SfInv, [PartNext]_v
                 PROVE  RlInv' /\ SfInv'
    OBVIOUS
  <2>2. [RlNext]_rlVars /\ [SfStep]_sfVars
    BY <2>1 DEF PartNext, Idle
  <2>3. QED
    BY <2>1, <2>2, RlInductive, SfInductive
<1>3. RlInv /\ SfInv => DeliverySafe
  BY RlInvSafe, SfInvSafe DEF DeliverySafe, Of
<1>4. QED
  BY <1>1, <1>2, <1>3, PTL DEF PartSpec
=============================================================================
