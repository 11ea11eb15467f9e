--------------------------- MODULE CompactorProofs ---------------------------
(***************************************************************************)
(* Proofs about Compactor, for every number of files, rows, faults and     *)
(* target size.  The inductive invariant has six parts:                    *)
(*                                                                         *)
(*   TypeOK     every variable has its type;                               *)
(*   RowInv     rows are numbered without a gap, and each file on its way  *)
(*              into the catalog has rows that no other file has;          *)
(*   NameInv    a merged file, or the file of an insert, has a name that   *)
(*              no file known to the catalog has, and a file is live, kept *)
(*              for an older snapshot or scheduled for deletion;           *)
(*   FileInv    the files of live and older snapshots are on disk, and     *)
(*              what has been merged was read from live files on disk;     *)
(*   CountInv   what the row count of the swap can tell: without additions *)
(*              since the plan no row is visible that was not planned, and *)
(*              without deletions every merged row is still visible;       *)
(*   SeenInv    a query sees the rows it should.                           *)
(***************************************************************************)
EXTENDS Compactor, FiniteSetTheorems, TLAPS

\* Rows of the plan, merged already or not.
PlannedRows == RowsIn(ToSet(outputs)) \cup RowsIn(Planned)

RowsApart(files) ==
    \A i, j \in DOMAIN files : i # j => files[i].rows \cap files[j].rows = {}

BatchesApart(batches) ==
    \A i, j \in DOMAIN batches :
        i # j => RowsIn(ToSet(batches[i])) \cap RowsIn(ToSet(batches[j])) = {}

RowInv ==
    /\ inserted = 1 .. Cardinality(inserted)
    /\ RowsIn(Active) \subseteq inserted /\ PlannedRows \subseteq inserted
    /\ expected \subseteq inserted /\ insert.rows \subseteq inserted
    /\ deleted \subseteq RowsIn(Active)
    /\ insert.rows \cap (RowsIn(Active) \cup PlannedRows) = {}
    /\ RowsApart(active) /\ RowsApart(outputs) /\ BatchesApart(plan)
    /\ RowsIn(ToSet(outputs)) \cap RowsIn(Planned) = {}
    /\ expectedRows = Cardinality(RowsIn(ToSet(outputs)))

NameInv ==
    /\ \A f \in Known, g \in ToSet(outputs) \cup {writing} : f.name # g.name
    /\ \A g \in Planned : g.name # writing.name
    /\ insert # None =>
          \A f \in Known \cup ToSet(outputs) \cup {writing} : f.name # insert.name
    /\ Active \cap retired = {} /\ Active \cap scheduled = {}
    /\ retired \cap scheduled = {}

FileInv ==
    /\ CatalogFilesOnDisk
    /\ \A f \in Active : f.rows \cap RowsIn(ToSet(outputs)) # {} => f \in disk
    /\ \A f \in Active, g \in Planned : f.rows \cap g.rows # {} => f = g

CountInv ==
    /\ writing # None => plan # <<>>
    /\ cycle = "swap" => plan = <<>>
    /\ Merging /\ ~addedSince => Visible \subseteq PlannedRows
    /\ Merging /\ ~deletedSince =>
          /\ deleted = {}
          /\ RowsIn(ToSet(outputs)) \subseteq Visible
          /\ \A g \in Planned : g.rows \subseteq Visible \/ g \notin disk

SeenInv == QuerySeesRows

CompactorInv == TypeOK /\ RowInv /\ NameInv /\ FileInv /\ CountInv /\ SeenInv
-------------------------------------------------------------------------------
(* Sequences of files. *)

Kept(files, S) == {i \in DOMAIN files : files[i] \notin S}

\* The kept places, counted off each once by place.
CountsOff(place, n, files, S) ==
    /\ n \in Nat
    /\ place \in [1 .. n -> Kept(files, S)]
    /\ Without(files, S) = [k \in 1 .. n |-> files[place[k]]]
    /\ \A i, j \in 1 .. n : i # j => place[i] # place[j]
    /\ \A i \in Kept(files, S) : \E k \in 1 .. n : place[k] = i

LEMMA WithoutPlaces ==
    ASSUME NEW T, NEW files \in Seq(T), NEW S
    PROVE  \E place, n : CountsOff(place, n, files, S)
<1> DEFINE kept == {i \in DOMAIN files : files[i] \notin S}
           n == Cardinality(kept)
           UpTo(i) == {j \in kept : j <= i}
           Rank(i) == Cardinality(UpTo(i))
           place == [k \in 1 .. n |-> CHOOSE i \in kept : Rank(i) = k]
<1>1. kept \subseteq 1 .. Len(files) /\ kept \subseteq Nat /\ Len(files) \in Nat
  OBVIOUS
<1>2. IsFiniteSet(kept) /\ n \in Nat
  <2>1. IsFiniteSet(1 .. Len(files))
    BY <1>1, FS_Interval
  <2> HIDE DEF kept
  <2>2. IsFiniteSet(kept)
    BY <1>1, <2>1, FS_Subset
  <2> QED
    BY <2>2, FS_CardinalityType
<1>3. \A i \in kept : /\ UpTo(i) \subseteq kept /\ i \in UpTo(i)
                     /\ IsFiniteSet(UpTo(i))
  BY <1>1, <1>2, FS_Subset
<1>4. \A i \in kept : Rank(i) \in 1 .. n
  <2> TAKE i \in kept
  <2>1. Rank(i) \in Nat /\ Rank(i) <= n /\ Rank(i) # 0
    BY <1>2, <1>3, FS_Subset, FS_CardinalityType, FS_EmptySet
  <2> HIDE DEF n, Rank
  <2> QED
    BY <1>2, <2>1
<1>5. \A i, j \in kept : Rank(i) = Rank(j) => i = j
  <2>1. ASSUME NEW i \in kept, NEW j \in kept, i < j PROVE Rank(i) # Rank(j)
    <3>1. UpTo(i) \in SUBSET UpTo(j) /\ j \notin UpTo(i) /\ j \in UpTo(j)
      BY <1>1, <2>1
    <3> QED
      BY <1>3, <3>1, FS_Subset
  <2> QED
    BY <1>1, <2>1
<1> HIDE DEF kept, n, Rank
<1>6. \A k \in 1 .. n : \E i \in kept : Rank(i) = k
  <2> DEFINE rank == [i \in kept |-> Rank(i)]
  <2>1. rank \in Injection(kept, 1 .. n)
    BY <1>4, <1>5 DEF Injection, IsInjective
  <2>2. IsFiniteSet(1 .. n) /\ Cardinality(1 .. n) = n
    BY <1>2, FS_Interval
  <2>3. rank \in Surjection(kept, 1 .. n)
    BY <2>1, <2>2, FS_Injection DEF n
  <2> QED
    BY <2>3 DEF Surjection
<1>7. \A k \in 1 .. n : place[k] \in kept /\ Rank(place[k]) = k
  <2> TAKE k \in 1 .. n
  <2>1. PICK i \in kept : Rank(i) = k
    BY <1>6
  <2>2. place[k] = CHOOSE j \in kept : Rank(j) = k
    OBVIOUS
  <2> QED
    BY <2>1, <2>2
<1>8. \A i \in kept : \E k \in 1 .. n : place[k] = i
  BY <1>4, <1>5, <1>7
<1>9. Without(files, S) = [k \in 1 .. n |-> files[place[k]]]
  BY DEF Without, kept, n, Rank
<1>10. place \in [1 .. n -> kept] /\ \A i, j \in 1 .. n : i # j => place[i] # place[j]
  BY <1>7
<1> QED
  <2>1. kept = Kept(files, S)
    BY DEF kept, Kept
  <2> HIDE DEF place
  <2>2. CountsOff(place, n, files, S)
    BY <1>2, <1>8, <1>9, <1>10, <2>1 DEF CountsOff
  <2> QED
    BY <2>2

LEMMA AppendFacts ==
    ASSUME NEW T, NEW s \in Seq(T), NEW x \in T
    PROVE  Append(s, x) \in Seq(T) /\ ToSet(Append(s, x)) = ToSet(s) \cup {x}
<1>1. /\ Append(s, x) \in Seq(T) /\ DOMAIN Append(s, x) = DOMAIN s \cup {Len(s) + 1}
      /\ \A i \in DOMAIN s : Append(s, x)[i] = s[i]
      /\ Append(s, x)[Len(s) + 1] = x
  OBVIOUS
<1> QED
  BY <1>1 DEF ToSet

LEMMA HeadTailFacts ==
    ASSUME NEW T, NEW s \in Seq(T), s # <<>>
    PROVE  /\ Head(s) \in T /\ Tail(s) \in Seq(T) /\ Head(s) = s[1]
           /\ 1 \in DOMAIN s
           /\ \A i \in DOMAIN Tail(s) : i + 1 \in DOMAIN s /\ Tail(s)[i] = s[i + 1]
                                       /\ i \in Nat /\ i # 0
           /\ \A i \in DOMAIN s \ {1} : i - 1 \in DOMAIN Tail(s) /\ s[i] = Tail(s)[i - 1]
<1>1. Len(s) \in Nat /\ Len(s) >= 1 /\ DOMAIN s = 1 .. Len(s)
  OBVIOUS
<1>2. Head(s) \in T /\ Head(s) = s[1] /\ Tail(s) \in Seq(T)
  OBVIOUS
<1>3. Len(Tail(s)) = Len(s) - 1 /\ DOMAIN Tail(s) = 1 .. Len(s) - 1
  OBVIOUS
<1>4. \A i \in 1 .. Len(s) - 1 : Tail(s)[i] = s[i + 1]
  OBVIOUS
<1>5. \A i \in DOMAIN Tail(s) : i + 1 \in DOMAIN s /\ i \in Nat /\ i # 0 /\ i \in 1 .. Len(s) - 1
  BY <1>1, <1>3
<1>6. \A i \in DOMAIN s \ {1} : i - 1 \in 1 .. Len(s) - 1 /\ (i - 1) + 1 = i
  BY <1>1
<1> QED
  BY <1>1, <1>2, <1>3, <1>4, <1>5, <1>6

\* Without removes the files of S and no others, and keeps rows apart.
LEMMA WithoutFacts ==
    ASSUME NEW T, NEW files \in Seq(T), NEW S
    PROVE  /\ Without(files, S) \in Seq(T)
           /\ ToSet(Without(files, S)) = ToSet(files) \ S
           /\ RowsApart(files) => RowsApart(Without(files, S))
<1>1. PICK place, n : CountsOff(place, n, files, S)
  BY WithoutPlaces
<1>2. /\ n \in Nat
      /\ place \in [1 .. n -> Kept(files, S)]
      /\ Without(files, S) = [k \in 1 .. n |-> files[place[k]]]
      /\ \A i, j \in 1 .. n : i # j => place[i] # place[j]
      /\ \A i \in Kept(files, S) : \E k \in 1 .. n : place[k] = i
  BY <1>1 DEF CountsOff
<1>3. \A i \in Kept(files, S) : i \in DOMAIN files /\ files[i] \in T /\ files[i] \notin S
  BY DEF Kept
<1>4. \A i \in DOMAIN files : files[i] \notin S => i \in Kept(files, S)
  BY DEF Kept
<1>5. Without(files, S) \in Seq(T)
  BY <1>1, <1>2, <1>3
<1>6. ToSet(Without(files, S)) = ToSet(files) \ S
  <2>1. ASSUME NEW f \in ToSet(Without(files, S)) PROVE f \in ToSet(files) \ S
    BY <1>2, <1>3, <2>1 DEF ToSet
  <2>2. ASSUME NEW f \in ToSet(files) \ S PROVE f \in ToSet(Without(files, S))
    <3>1. PICK i \in Kept(files, S) : f = files[i]
      BY <1>4, <2>2 DEF ToSet
    <3>2. PICK k \in 1 .. n : place[k] = i
      BY <1>2
    <3>3. Without(files, S)[k] = f /\ k \in DOMAIN Without(files, S)
      BY <1>2, <3>1, <3>2
    <3> QED
      BY <3>3 DEF ToSet
  <2> QED
    BY <2>1, <2>2
<1>7. RowsApart(files) => RowsApart(Without(files, S))
  BY <1>2, <1>3 DEF RowsApart
<1> QED
  BY <1>5, <1>6, <1>7

-------------------------------------------------------------------------------
(* planBatches.  The library's induction theorems take an operator, so       *)
(* induction is by a set: Upward.                                            *)

LEMMA Upward ==
    ASSUME NEW L \in Nat, NEW S, 0 \in S, \A n \in 1 .. L : n - 1 \in S => n \in S
    PROVE  0 .. L \subseteq S
<1> DEFINE T == {n \in 0 .. L : n \notin S}
<1> SUFFICES ASSUME T # {} PROVE FALSE
  OBVIOUS
<1>1. T \subseteq Nat
  OBVIOUS
<1> DEFINE R == OpToRel(<, Nat)
<1>2. \A x, y \in Nat : x < y => <<x, y>> \in R
  BY DEF OpToRel
<1>3. IsWellFoundedOn(R, Nat)
  BY NatLessThanWellFounded
<1> HIDE DEF R, T
<1>4. PICK x \in T : \A y \in T : ~(<<y, x>> \in R)
  BY <1>1, <1>3, WFMin
<1>5. x \in 0 .. L /\ x \notin S /\ x # 0
  BY DEF T
<1>6. x - 1 \in Nat /\ x - 1 < x /\ x - 1 \in 0 .. L /\ x \in 1 .. L /\ x \in Nat
  BY <1>5
<1>7. x - 1 \notin T
  BY <1>2, <1>4, <1>6
<1>8. x - 1 \in S
  BY <1>6, <1>7 DEF T
<1> QED
  BY <1>5, <1>6, <1>8

BatchLists == {b \in Seq(Seq(Files)) : Len(b) >= 1}

\* b are batches of the first n files.
BatchesOf(b, files, n) ==
    /\ FilesIn(b) = {files[k] : k \in 1 .. n}
    /\ RowsApart(files) => BatchesApart(b)

LEMMA JoinType ==
    ASSUME NEW b \in BatchLists, NEW f \in Files
    PROVE  /\ Join(b, f) \in BatchLists
           /\ \/ Join(b, f) = Append(b, <<f>>)
              \/ Join(b, f) = [b EXCEPT ![Len(b)] = Append(b[Len(b)], f)]
<1>1. Append(b, <<f>>) \in BatchLists
  BY DEF BatchLists
<1>2. b[Len(b)] \in Seq(Files) /\ Len(b) \in DOMAIN b
  BY DEF BatchLists
<1>3. [b EXCEPT ![Len(b)] = Append(b[Len(b)], f)] \in BatchLists
  <2>1. Append(b[Len(b)], f) \in Seq(Files)
    BY <1>2
  <2> QED
    BY <2>1 DEF BatchLists
<1> QED
  BY <1>1, <1>3 DEF Join

\* The recursion of Batches has a solution.
LEMMA BatchesDefined ==
    ASSUME NEW files \in Seq(Files)
    PROVE  \E upTo \in [0 .. Len(files) -> BatchLists] :
             /\ Batches(files) = upTo[Len(files)]
             /\ upTo[0] = << <<>> >>
             /\ \A n \in 1 .. Len(files) : upTo[n] = Join(upTo[n - 1], files[n])
<1> DEFINE L == Len(files)
           Solves(f, n) == /\ f[0] = << <<>> >>
                           /\ \A k \in 1 .. n : f[k] = Join(f[k - 1], files[k])
           S == {n \in 0 .. L : \E f \in [0 .. n -> BatchLists] : Solves(f, n)}
<1>1. L \in Nat /\ \A n \in 1 .. L : files[n] \in Files
  OBVIOUS
<1> HIDE DEF L
<1>2. 0 \in S
  <2>1. << <<>> >> \in BatchLists
    BY DEF BatchLists
  <2> DEFINE f == [k \in 0 .. 0 |-> << <<>> >>]
  <2>2. f \in [0 .. 0 -> BatchLists]
    BY <2>1
  <2>3. f[0] = << <<>> >> /\ 1 .. 0 = {} /\ 0 \in 0 .. L
    BY <1>1
  <2> HIDE DEF f
  <2> QED
    BY <2>2, <2>3
<1>3. ASSUME NEW n \in 1 .. L, n - 1 \in S PROVE n \in S
  <2>1. PICK f \in [0 .. n - 1 -> BatchLists] : Solves(f, n - 1)
    BY <1>3
  <2> DEFINE last == Join(f[n - 1], files[n])
             g == [k \in 0 .. n |-> IF k = n THEN last ELSE f[k]]
  <2>2. n \in Nat /\ n # 0 /\ n - 1 \in 0 .. n - 1 /\ n \in 0 .. L
    BY <1>1
  <2>3. last \in BatchLists
    BY <1>1, <2>2, JoinType
  <2>4. \A k \in 0 .. n - 1 : f[k] \in BatchLists /\ g[k] = f[k]
    BY <2>2
  <2>5. g[n] = last /\ g \in [0 .. n -> BatchLists]
    BY <2>2, <2>3, <2>4
  <2> HIDE DEF last, g
  <2>6. g[0] = << <<>> >>
    BY <2>1, <2>2, <2>4
  <2>7. ASSUME NEW k \in 1 .. n PROVE g[k] = Join(g[k - 1], files[k])
    <3>1. CASE k = n
      BY <2>2, <2>4, <2>5, <3>1 DEF last
    <3>2. CASE k # n
      <4>1. k \in 1 .. n - 1 /\ k \in 0 .. n - 1 /\ k - 1 \in 0 .. n - 1
        BY <2>2, <3>2
      <4> QED
        BY <2>1, <2>4, <4>1
    <3> QED
      BY <3>1, <3>2
  <2> QED
    BY <2>2, <2>5, <2>6, <2>7
<1>4. 0 .. L \subseteq S
  <2> HIDE DEF S
  <2> QED
    BY <1>1, <1>2, <1>3, Upward
<1>5. PICK f \in [0 .. L -> BatchLists] : Solves(f, L)
  BY <1>1, <1>4
<1> DEFINE Next1(h) == [n \in 0 .. L |-> IF n = 0 THEN << <<>> >> ELSE Join(h[n - 1], files[n])]
           upTo == CHOOSE h : h = Next1(h)
<1>6. f = Next1(f)
  <2>1. \A n \in 0 .. L : f[n] = IF n = 0 THEN << <<>> >> ELSE Join(f[n - 1], files[n])
    BY <1>1, <1>5
  <2> QED
    BY <2>1
<1>7. upTo = Next1(upTo)
  BY <1>6
<1>8. Batches(files) = upTo[L]
  BY DEF Batches, L
<1> HIDE DEF upTo
<1>9. upTo[0] = << <<>> >> /\ \A n \in 1 .. L : upTo[n] = Join(upTo[n - 1], files[n])
  BY <1>1, <1>7
<1>10. 0 .. L \subseteq {n \in 0 .. L : upTo[n] = f[n]}
  <2> DEFINE Same == {n \in 0 .. L : upTo[n] = f[n]}
  <2>1. 0 \in Same
    BY SMTT(30), <1>1, <1>5, <1>9
  <2>2. ASSUME NEW n \in 1 .. L, n - 1 \in Same PROVE n \in Same
    BY <1>1, <1>5, <1>9, <2>2
  <2> HIDE DEF Same
  <2>3. 0 .. L \subseteq Same
    BY <1>1, <2>1, <2>2, Upward
  <2> QED
    BY <2>3 DEF Same
<1>11. upTo = f
  BY <1>5, <1>6, <1>7, <1>10
<1> QED
  BY <1>5, <1>8, <1>9, <1>11 DEF L

\* One more file: it is in a batch, and batches stay apart.
LEMMA JoinStep ==
    ASSUME NEW files \in Seq(Files), NEW n \in 1 .. Len(files), NEW b \in BatchLists,
           BatchesOf(b, files, n - 1)
    PROVE  BatchesOf(Join(b, files[n]), files, n)
<1> DEFINE f == files[n]
           first == {files[k] : k \in 1 .. n - 1}
           J == Join(b, f)
<1>1. f \in Files /\ n \in Nat /\ n \in DOMAIN files
  OBVIOUS
<1>2. {files[k] : k \in 1 .. n} = first \cup {f}
  <2>1. 1 .. n = (1 .. n - 1) \cup {n}
    BY <1>1
  <2> QED
    BY <2>1
<1>3. RowsApart(files) => f.rows \cap RowsIn(first) = {}
  <2> SUFFICES ASSUME RowsApart(files), NEW k \in 1 .. n - 1
               PROVE  f.rows \cap files[k].rows = {}
    BY DEF RowsIn
  <2>1. k \in DOMAIN files /\ n \in DOMAIN files /\ k # n
    BY <1>1
  <2> QED
    BY <2>1 DEF RowsApart
<1>4. FilesIn(b) = first
  BY DEF BatchesOf
<1> HIDE DEF first
<1>5. \A i \in DOMAIN b : ToSet(b[i]) \subseteq first
  BY <1>4 DEF FilesIn
<1>6. \A i \in DOMAIN b : RowsIn(ToSet(b[i])) \subseteq RowsIn(first)
  BY <1>5 DEF RowsIn
<1>7. Len(b) \in DOMAIN b /\ Len(b) \in Nat /\ DOMAIN b = 1 .. Len(b) /\ b \in Seq(Seq(Files))
  BY DEF BatchLists
\* The new list, place by place: as before, and f somewhere.
<1>8. PICK at \in DOMAIN J :
         /\ DOMAIN b \subseteq DOMAIN J /\ DOMAIN J \subseteq DOMAIN b \cup {at}
         /\ \A i \in DOMAIN J \ {at} : J[i] = b[i]
         /\ \/ at \in DOMAIN b /\ ToSet(J[at]) = ToSet(b[at]) \cup {f}
            \/ at \notin DOMAIN b /\ ToSet(J[at]) = {f}
  <2>1. CASE J = Append(b, <<f>>)
    <3> DEFINE at == Len(b) + 1
    <3>1. at \in DOMAIN J /\ DOMAIN J = DOMAIN b \cup {at} /\ at \notin DOMAIN b
      BY <1>7, <2>1
    <3>2. \A i \in DOMAIN J \ {at} : J[i] = b[i]
      BY <1>7, <2>1
    <3>3. ToSet(J[at]) = {f}
      BY <1>7, <2>1 DEF ToSet
    <3> HIDE DEF at, J
    <3> QED
      BY <3>1, <3>2, <3>3
  <2>2. CASE J = [b EXCEPT ![Len(b)] = Append(b[Len(b)], f)]
    <3> DEFINE at == Len(b)
    <3>1. at \in DOMAIN J /\ DOMAIN J = DOMAIN b /\ at \in DOMAIN b
      BY <1>7, <2>2
    <3>2. \A i \in DOMAIN J \ {at} : J[i] = b[i]
      BY <1>7, <2>2
    <3>3. J[at] = Append(b[at], f) /\ b[at] \in Seq(Files)
      BY <1>7, <2>2
    <3>4. ToSet(J[at]) = ToSet(b[at]) \cup {f}
      BY <1>1, <3>3, AppendFacts
    <3> HIDE DEF at, J
    <3> QED
      BY <3>1, <3>2, <3>4
  <2> QED
    BY <1>1, <2>1, <2>2, JoinType
<1> HIDE DEF J
<1>9. FilesIn(J) = first \cup {f}
  <2>1. ASSUME NEW g \in FilesIn(J) PROVE g \in first \cup {f}
    <3>1. PICK i \in DOMAIN J : g \in ToSet(J[i])
      BY <2>1 DEF FilesIn
    <3> QED
      BY <1>5, <1>8, <3>1
  <2>2. ASSUME NEW g \in first PROVE g \in FilesIn(J)
    <3>1. PICK i \in DOMAIN b : g \in ToSet(b[i])
      BY <1>4, <2>2 DEF FilesIn
    <3>2. i \in DOMAIN J /\ g \in ToSet(J[i])
      BY <1>8, <3>1
    <3> QED
      BY <3>2 DEF FilesIn
  <2>3. f \in FilesIn(J)
    BY <1>8 DEF FilesIn
  <2> QED
    BY <2>1, <2>2, <2>3
<1>10. ASSUME RowsApart(files) PROVE BatchesApart(J)
  <2>1. BatchesApart(b)
    BY <1>10 DEF BatchesOf
  <2>2. f.rows \cap RowsIn(first) = {}
    BY <1>3, <1>10
  <2>3. RowsIn(ToSet(J[at])) \subseteq f.rows \cup
             (IF at \in DOMAIN b THEN RowsIn(ToSet(b[at])) ELSE {})
    BY <1>8 DEF RowsIn
  <2>4. ASSUME NEW i \in DOMAIN J \ {at}
        PROVE  RowsIn(ToSet(J[i])) \cap RowsIn(ToSet(J[at])) = {}
    <3>1. i \in DOMAIN b /\ J[i] = b[i]
      BY <1>8
    <3>2. RowsIn(ToSet(b[i])) \cap f.rows = {}
      BY <1>6, <2>2, <3>1
    <3>3. at \in DOMAIN b => RowsIn(ToSet(b[i])) \cap RowsIn(ToSet(b[at])) = {}
      BY <2>1, <3>1 DEF BatchesApart
    <3> QED
      BY <2>3, <3>1, <3>2, <3>3
  <2>5. ASSUME NEW i \in DOMAIN J \ {at}, NEW j \in DOMAIN J \ {at}, i # j
        PROVE  RowsIn(ToSet(J[i])) \cap RowsIn(ToSet(J[j])) = {}
    <3>1. i \in DOMAIN b /\ J[i] = b[i] /\ j \in DOMAIN b /\ J[j] = b[j]
      BY <1>8
    <3> QED
      BY <2>1, <2>5, <3>1 DEF BatchesApart
  <2> QED
    BY <2>4, <2>5 DEF BatchesApart
<1> QED
  BY <1>2, <1>9, <1>10 DEF BatchesOf, J, f

\* Every file is in one batch of planBatches, and no row is in two batches.
LEMMA BatchesFacts ==
    ASSUME NEW files \in Seq(Files)
    PROVE  /\ Batches(files) \in Seq(Seq(Files))
           /\ FilesIn(Batches(files)) = ToSet(files)
           /\ RowsApart(files) => BatchesApart(Batches(files))
<1> DEFINE L == Len(files)
<1>1. PICK upTo \in [0 .. L -> BatchLists] :
             /\ Batches(files) = upTo[L]
             /\ upTo[0] = << <<>> >>
             /\ \A n \in 1 .. L : upTo[n] = Join(upTo[n - 1], files[n])
  BY BatchesDefined
<1>2. L \in Nat /\ 1 .. 0 = {} /\ ToSet(files) = {files[k] : k \in 1 .. L}
  BY DEF ToSet
<1> DEFINE S == {n \in 0 .. L : BatchesOf(upTo[n], files, n)}
<1>3. 0 \in S
  <2>1. upTo[0] = << <<>> >>
    BY <1>1
  <2>2. FilesIn(<< <<>> >>) = {}
    BY DEF FilesIn, ToSet
  <2>3. BatchesApart(<< <<>> >>)
    BY DEF BatchesApart
  <2> QED
    BY <1>2, <2>1, <2>2, <2>3 DEF BatchesOf
<1>4. ASSUME NEW n \in 1 .. L, n - 1 \in S PROVE n \in S
  <2>1. upTo[n - 1] \in BatchLists /\ n \in 0 .. L
    BY <1>1, <1>2
  <2>2. upTo[n] = Join(upTo[n - 1], files[n]) /\ BatchesOf(upTo[n - 1], files, n - 1)
    BY <1>1, <1>4
  <2> QED
    BY <2>1, <2>2, JoinStep
<1> HIDE DEF S, L
<1>5. 0 .. L \subseteq S
  BY <1>2, <1>3, <1>4, Upward
<1>6. BatchesOf(upTo[L], files, L) /\ upTo[L] \in BatchLists
  BY <1>1, <1>2, <1>5 DEF S
<1> QED
  BY <1>1, <1>2, <1>6 DEF BatchesOf, BatchLists
-------------------------------------------------------------------------------
(* Files, names and rows. *)

LEMMA NoneFacts == /\ None.name = "none" /\ None.rows = {}
                   /\ \A f \in Files : f.name # "none" /\ f.name \in Names /\ f # None
                                    /\ f.rows \subseteq Rows
BY CompactorAssumption DEF None, Files

LEMMA NewFileFacts ==
    ASSUME Fresh # {}, NEW R \in SUBSET Rows
    PROVE  /\ NewFile(R) \in Files /\ NewFile(R).rows = R
           /\ NewFile(R) # None /\ NewFile(R).name # "none"
           /\ \A f \in InUse : f.name # NewFile(R).name
<1> DEFINE n == CHOOSE m \in Fresh : TRUE
<1>1. n \in Fresh
  OBVIOUS
<1> HIDE DEF n
<1>2. n \in Names /\ \A f \in InUse : f.name # n
  BY <1>1 DEF Fresh
<1>3. NewFile(R) = [name |-> n, rows |-> R]
  BY DEF NewFile, n
<1> QED
  BY <1>2, <1>3, CompactorAssumption DEF Files, None

LEMMA TypeFacts ==
    ASSUME TypeOK
    PROVE  /\ active \in Seq(Files) /\ outputs \in Seq(Files) /\ plan \in Seq(Seq(Files))
           /\ disk \subseteq Files /\ retired \subseteq Files /\ scheduled \subseteq Files
           /\ insert \in Files \cup {None} /\ writing \in Files \cup {None}
           /\ deleted \subseteq Rows /\ inserted \subseteq Rows
           /\ expected \subseteq Rows /\ exposed \subseteq Rows
           /\ insert.rows \subseteq Rows
           /\ expectedRows \in Nat
           /\ Active \subseteq Files /\ ToSet(outputs) \subseteq Files /\ Planned \subseteq Files
           /\ ~Merging => plan = <<>> /\ outputs = <<>> /\ writing = None
<1>1. {insert, writing} \subseteq Files \cup {None} /\ {deleted, inserted, expected, exposed} \subseteq SUBSET Rows
  BY DEF TypeOK
<1>2. Active \subseteq Files /\ ToSet(outputs) \subseteq Files
  BY DEF TypeOK, Active, ToSet
<1>3. Planned \subseteq Files
  <2>1. \A i \in DOMAIN plan : plan[i] \in Seq(Files)
    BY DEF TypeOK
  <2> QED
    BY <2>1 DEF Planned, FilesIn, ToSet
<1>4. insert.rows \subseteq Rows
  BY <1>1, NoneFacts
<1>5. insert \in Files \cup {None} /\ writing \in Files \cup {None}
  BY <1>1
<1>6. deleted \subseteq Rows /\ inserted \subseteq Rows /\ expected \subseteq Rows /\ exposed \subseteq Rows
  BY <1>1
<1>7. ~Merging => plan = <<>> /\ outputs = <<>> /\ writing = None
  BY DEF TypeOK
<1> QED
  BY <1>2, <1>3, <1>4, <1>5, <1>6, <1>7 DEF TypeOK

\* The next row.
LEMMA NewRowFacts ==
    ASSUME TypeOK, RowInv, Rows # inserted
    PROVE  /\ NewRows \subseteq Rows /\ NewRows \cap inserted = {}
           /\ inserted \cup NewRows = 1 .. Cardinality(inserted \cup NewRows)
<1> DEFINE k == Cardinality(inserted)
<1>1. inserted = 1 .. k /\ inserted \subseteq 1 .. MaxRows /\ MaxRows \in Nat
  BY TypeFacts, CompactorAssumption DEF RowInv, Rows
<1>2. k \in Nat /\ IsFiniteSet(inserted)
  <2>1. IsFiniteSet(1 .. MaxRows)
    BY <1>1, FS_Interval
  <2>2. IsFiniteSet(inserted)
    BY <1>1, <2>1, FS_Subset
  <2> QED
    BY <2>2, FS_CardinalityType
<1>3. k + 1 \notin inserted /\ k + 1 \in 1 .. MaxRows
  BY <1>1, <1>2 DEF Rows
<1>4. inserted \cup {k + 1} = 1 .. (k + 1)
  BY <1>1, <1>2
<1>5. Cardinality(inserted \cup {k + 1}) = k + 1
  BY <1>2, <1>3, FS_AddElement
<1> QED
  BY <1>3, <1>4, <1>5 DEF NewRows, Rows

\* What taking the first batch off the plan leaves.
LEMMA HeadTailSets ==
    ASSUME NEW b \in Seq(Seq(Files)), b # <<>>
    PROVE  /\ Head(b) \in Seq(Files) /\ Tail(b) \in Seq(Seq(Files))
           /\ FilesIn(b) = ToSet(Head(b)) \cup FilesIn(Tail(b))
           /\ BatchesApart(b) =>
                 /\ BatchesApart(Tail(b))
                 /\ RowsIn(ToSet(Head(b))) \cap RowsIn(FilesIn(Tail(b))) = {}
<1> DEFINE t == Tail(b)
           h == Head(b)
<1>1. /\ h \in Seq(Files) /\ t \in Seq(Seq(Files)) /\ h = b[1] /\ 1 \in DOMAIN b
      /\ \A i \in DOMAIN t : i + 1 \in DOMAIN b /\ t[i] = b[i + 1] /\ i \in Nat /\ i # 0
      /\ \A i \in DOMAIN b \ {1} : i - 1 \in DOMAIN t /\ b[i] = t[i - 1]
  <2> DEFINE S == Seq(Files)
  <2> HIDE DEF S
  <2>1. b \in Seq(S) /\ b # <<>>
    BY DEF S
  <2>2. h \in S /\ t \in Seq(S) /\ h = b[1] /\ 1 \in DOMAIN b
    BY <2>1, HeadTailFacts
  <2>3. \A i \in DOMAIN t : i + 1 \in DOMAIN b /\ t[i] = b[i + 1] /\ i \in Nat /\ i # 0
    BY <2>1, HeadTailFacts
  <2>4. \A i \in DOMAIN b \ {1} : i - 1 \in DOMAIN t /\ b[i] = t[i - 1]
    BY <2>1, HeadTailFacts
  <2> QED
    BY <2>2, <2>3, <2>4 DEF S
<1> HIDE DEF t, h
<1>2. FilesIn(b) = ToSet(h) \cup FilesIn(t)
  <2>1. ASSUME NEW f \in FilesIn(b) PROVE f \in ToSet(h) \cup FilesIn(t)
    <3>1. PICK i \in DOMAIN b : f \in ToSet(b[i])
      BY <2>1 DEF FilesIn
    <3>2. CASE i = 1
      BY <1>1, <3>1, <3>2
    <3>3. CASE i # 1
      <4>1. i - 1 \in DOMAIN t /\ f \in ToSet(t[i - 1])
        BY <1>1, <3>1, <3>3
      <4> QED
        BY <4>1 DEF FilesIn
    <3> QED
      BY <3>2, <3>3
  <2>2. ASSUME NEW f \in FilesIn(t) PROVE f \in FilesIn(b)
    <3>1. PICK i \in DOMAIN t : f \in ToSet(t[i])
      BY <2>2 DEF FilesIn
    <3> QED
      BY <1>1, <3>1 DEF FilesIn
  <2>3. ToSet(h) \subseteq FilesIn(b)
    BY <1>1 DEF FilesIn
  <2> QED
    BY <2>1, <2>2, <2>3
<1>3. ASSUME BatchesApart(b) PROVE BatchesApart(t)
  <2> SUFFICES ASSUME NEW i \in DOMAIN t, NEW j \in DOMAIN t, i # j
               PROVE  RowsIn(ToSet(t[i])) \cap RowsIn(ToSet(t[j])) = {}
    BY DEF BatchesApart
  <2>1. i + 1 \in DOMAIN b /\ j + 1 \in DOMAIN b /\ i + 1 # j + 1
        /\ t[i] = b[i + 1] /\ t[j] = b[j + 1]
    BY SMTT(30), <1>1
  <2> QED
    BY <1>3, <2>1 DEF BatchesApart
<1>4. ASSUME BatchesApart(b) PROVE RowsIn(ToSet(h)) \cap RowsIn(FilesIn(t)) = {}
  <2>1. ASSUME NEW r \in RowsIn(ToSet(h)), r \in RowsIn(FilesIn(t)) PROVE FALSE
    <3>1. PICK f \in FilesIn(t) : r \in f.rows
      BY <2>1 DEF RowsIn
    <3>2. PICK i \in DOMAIN t : f \in ToSet(t[i])
      BY <3>1 DEF FilesIn
    <3>3. r \in RowsIn(ToSet(b[i + 1])) /\ i + 1 \in DOMAIN b /\ i + 1 # 1
      BY <1>1, <3>1, <3>2 DEF RowsIn
    <3> QED
      BY <1>1, <1>4, <2>1, <3>3 DEF BatchesApart
  <2> QED
    BY <2>1
<1> QED
  BY <1>1, <1>2, <1>3, <1>4 DEF t, h

LEMMA RowsFinite ==
    ASSUME TypeOK, NEW S \in SUBSET Rows
    PROVE  IsFiniteSet(S) /\ Cardinality(S) \in Nat
<1>1. IsFiniteSet(1 .. MaxRows)
  BY CompactorAssumption, FS_Interval
<1>2. IsFiniteSet(S)
  BY <1>1, FS_Subset DEF Rows
<1> QED
  BY <1>2, FS_CardinalityType
-------------------------------------------------------------------------------
(* Types. *)

LEMMA CompactorTypeInit == Init => TypeOK
<1> SUFFICES ASSUME Init PROVE TypeOK
  OBVIOUS
<1>1. active \in Seq(Files) /\ outputs \in Seq(Files) /\ plan \in Seq(Seq(Files))
  BY DEF Init
<1>2. {insert, writing} \subseteq Files \cup {None}
      /\ {deleted, inserted, expected, exposed} \subseteq SUBSET Rows
      /\ {young, recovering, addedSince, deletedSince, collided} \subseteq BOOLEAN
  BY DEF Init
<1>3. faults \in 0 .. MaxFaults /\ tierings \in 0 .. MaxTierings
  BY CompactorAssumption DEF Init
<1> QED
  BY <1>1, <1>2, <1>3 DEF Init, TypeOK, CyclePlaces, TieringPlaces

-------------------------------------------------------------------------------
(* Writers. *)

\* A file joins the partition.
LEMMA AddFileFacts ==
    ASSUME TypeOK, NEW f \in Files, AddFile(f)
    PROVE  /\ active' \in Seq(Files) /\ Active' = Active \cup {f}
           /\ RowsIn(Active)' = RowsIn(Active) \cup f.rows
           /\ RowsApart(active) /\ f.rows \cap RowsIn(Active) = {} => RowsApart(active)'
<1>1. active' = Append(active, f) /\ active \in Seq(Files)
  BY TypeFacts DEF AddFile
<1>2. active' \in Seq(Files) /\ Active' = Active \cup {f}
  BY <1>1, AppendFacts DEF Active
<1>3. RowsIn(Active)' = RowsIn(Active) \cup f.rows
  BY <1>2 DEF RowsIn
<1>4. ASSUME RowsApart(active), f.rows \cap RowsIn(Active) = {} PROVE RowsApart(active)'
  <2>1. \A i \in DOMAIN active : active[i].rows \subseteq RowsIn(Active)
    BY DEF RowsIn, Active, ToSet
  <2>2. /\ DOMAIN active' = DOMAIN active \cup {Len(active) + 1}
        /\ \A i \in DOMAIN active : active'[i] = active[i]
        /\ active'[Len(active) + 1] = f
    BY <1>1
  <2> QED
    BY <1>4, <2>1, <2>2 DEF RowsApart
<1> QED
  BY <1>2, <1>3, <1>4

LEMMA FlushStep == CompactorInv /\ Flush => CompactorInv'
<1> SUFFICES ASSUME CompactorInv, Flush PROVE CompactorInv'
  OBVIOUS
<1> USE DEF CompactorInv
<1> DEFINE f == NewFile(NewRows)
<1>1. /\ NewRows \subseteq Rows /\ NewRows \cap inserted = {}
      /\ inserted \cup NewRows = 1 .. Cardinality(inserted \cup NewRows)
  BY NewRowFacts DEF Flush
<1>2. f \in Files /\ f.rows = NewRows /\ f # None /\ \A g \in InUse : g.name # f.name
  BY <1>1, NewFileFacts DEF Flush
<1>3. /\ AddFile(f) /\ disk' = disk \cup {f} /\ inserted' = inserted \cup NewRows
      /\ expected' = expected \cup NewRows
      /\ UNCHANGED <<recovering, retired, scheduled, deleted, insert, cycle, mergeVars, tiering,
                      faults, tierings, deletedSince, collided, exposed>>
  BY <1>2 DEF Flush, WriteFile, AddFile
<1> HIDE DEF f
<1>4. /\ active' \in Seq(Files) /\ Active' = Active \cup {f}
      /\ RowsIn(Active)' = RowsIn(Active) \cup NewRows
      /\ RowsApart(active)'
  <2>1. NewRows \cap RowsIn(Active) = {} /\ RowsApart(active)
    BY <1>1 DEF RowInv
  <2> QED
    BY <1>2, <1>3, <2>1, AddFileFacts
<1>5. UNCHANGED <<plan, outputs, writing, expectedRows, Planned, PlannedRows, Merging>>
  BY <1>3 DEF mergeVars, Planned, PlannedRows, Merging
<1>6. TypeOK'
  <2>1. (addedSince' \in BOOLEAN) /\ young' \in BOOLEAN
    BY <1>3 DEF AddFile
  <2>2. {young, recovering, addedSince, deletedSince, collided}' \subseteq BOOLEAN
    BY <1>3, <2>1 DEF TypeOK
  <2>3. {deleted, inserted, expected, exposed}' \subseteq SUBSET Rows
    BY <1>1, <1>3, TypeFacts
  <2>4. {insert, writing}' \subseteq Files \cup {None}
    BY <1>3, <1>5, TypeFacts
  <2>5. disk' \subseteq Files
    BY <1>2, <1>3, TypeFacts
  <2> QED
    BY <1>3, <1>4, <1>5, <2>2, <2>3, <2>4, <2>5 DEF TypeOK, mergeVars
<1>7. RowInv'
  <2>1. deleted' \subseteq RowsIn(Active)' /\ insert' = insert /\ outputs' = outputs /\ plan' = plan
    BY <1>3, <1>4, <1>5 DEF RowInv
  <2>2. insert.rows \cap (RowsIn(Active)' \cup PlannedRows') = {}
    BY <1>1, <1>4, <1>5 DEF RowInv
  <2> QED
    BY <1>1, <1>3, <1>4, <1>5, <2>1, <2>2 DEF RowInv
<1>8. NameInv'
  <2>1. Known' = Known \cup {f}
    BY <1>3, <1>4 DEF Known
  <2>2. f \notin retired /\ f \notin scheduled
    BY <1>2 DEF InUse, Known
  <2>3. \A g \in ToSet(outputs) \cup {writing, insert} : g.name # f.name
    BY <1>2 DEF InUse
  <2> QED
    BY <1>3, <1>4, <1>5, <2>1, <2>2, <2>3 DEF NameInv
<1>9. FileInv'
  <2>1. CatalogFilesOnDisk'
    BY <1>3, <1>4 DEF FileInv, CatalogFilesOnDisk
  <2>2. NewRows \cap RowsIn(ToSet(outputs)) = {} /\ NewRows \cap RowsIn(Planned) = {}
    BY <1>1 DEF RowInv, PlannedRows
  <2>3. \A g \in Planned : NewRows \cap g.rows = {}
    BY <2>2 DEF RowsIn
  <2> QED
    BY <1>2, <1>3, <1>4, <1>5, <2>1, <2>2, <2>3 DEF FileInv
<1>10. Visible' = Visible \cup NewRows
  BY <1>1, <1>3, <1>4 DEF Visible, RowInv
<1>11. CountInv'
  <2>1. Merging => addedSince'
    BY <1>3 DEF AddFile
  <2>2. \A g \in Planned : g \notin disk => g \notin disk'
    BY <1>2, <1>3 DEF InUse
  <2> QED
    BY <1>3, <1>5, <1>10, <2>1, <2>2 DEF CountInv
<1>12. SeenInv'
  BY <1>3, <1>10 DEF SeenInv, QuerySeesRows
<1> QED
  BY <1>6, <1>7, <1>8, <1>9, <1>11, <1>12

LEMMA InsertWritesStep == CompactorInv /\ InsertWrites => CompactorInv'
<1> SUFFICES ASSUME CompactorInv, InsertWrites PROVE CompactorInv'
  OBVIOUS
<1> USE DEF CompactorInv
<1> DEFINE f == NewFile(NewRows)
<1>1. /\ NewRows \subseteq Rows /\ NewRows \cap inserted = {}
      /\ inserted \cup NewRows = 1 .. Cardinality(inserted \cup NewRows)
  BY NewRowFacts DEF InsertWrites
<1>2. f \in Files /\ f.rows = NewRows /\ f # None /\ \A g \in InUse : g.name # f.name
  BY <1>1, NewFileFacts DEF InsertWrites
<1>3. /\ insert' = f /\ disk' = disk \cup {f} /\ inserted' = inserted \cup NewRows
      /\ UNCHANGED <<recovering, catalogVars, young, cycle, mergeVars, tiering, faults, tierings,
                      expected, addedSince, deletedSince, collided, exposed>>
  BY <1>2 DEF InsertWrites, WriteFile
<1> HIDE DEF f
<1>4. UNCHANGED <<active, Active, retired, scheduled, deleted, Known, plan, outputs, writing,
                  expectedRows, Planned, PlannedRows, Merging, Visible>>
  BY <1>3 DEF catalogVars, mergeVars, Active, Known, Planned, PlannedRows, Merging, Visible
<1>5. TypeOK'
  <2>1. {young, recovering, addedSince, deletedSince, collided}' \subseteq BOOLEAN
    BY <1>3 DEF TypeOK
  <2>2. {deleted, inserted, expected, exposed}' \subseteq SUBSET Rows
    BY <1>1, <1>3, <1>4, TypeFacts
  <2>3. {insert, writing}' \subseteq Files \cup {None}
    BY <1>2, <1>3, <1>4, TypeFacts
  <2>4. disk' \subseteq Files
    BY <1>2, <1>3, TypeFacts
  <2> QED
    BY <1>3, <1>4, <2>1, <2>2, <2>3, <2>4 DEF TypeOK
<1>6. RowInv'
  <2>1. f.rows \cap (RowsIn(Active) \cup PlannedRows) = {}
    BY <1>1, <1>2 DEF RowInv
  <2> QED
    BY <1>1, <1>2, <1>3, <1>4, <2>1 DEF RowInv
<1>7. NameInv'
  BY <1>2, <1>3, <1>4 DEF NameInv, InUse
<1>8. FileInv'
  BY <1>3, <1>4 DEF FileInv, CatalogFilesOnDisk
<1>9. CountInv'
  <2>1. \A g \in Planned : g \notin disk => g \notin disk'
    BY <1>2, <1>3 DEF InUse
  <2> QED
    BY <1>3, <1>4, <2>1 DEF CountInv
<1>10. SeenInv'
  BY <1>3, <1>4 DEF SeenInv, QuerySeesRows
<1> QED
  BY <1>5, <1>6, <1>7, <1>8, <1>9, <1>10

LEMMA InsertCommitsStep == CompactorInv /\ InsertCommits => CompactorInv'
<1> SUFFICES ASSUME CompactorInv, InsertCommits PROVE CompactorInv'
  OBVIOUS
<1> USE DEF CompactorInv
<1> DEFINE f == insert
<1>1. f \in Files /\ f # None
  BY TypeFacts DEF InsertCommits
<1>2. /\ AddFile(f) /\ insert' = None /\ exposed' = exposed \cup f.rows
      /\ expected' = expected \cup f.rows
      /\ UNCHANGED <<recovering, disk, retired, scheduled, deleted, cycle, mergeVars, tiering,
                      faults, tierings, inserted, deletedSince, collided>>
  BY DEF InsertCommits, AddFile
<1>3. /\ f.rows \subseteq inserted /\ f.rows \cap RowsIn(Active) = {}
      /\ f.rows \cap PlannedRows = {} /\ RowsApart(active) /\ f.rows \subseteq Rows
  BY TypeFacts DEF RowInv
<1>4. \A g \in Known \cup ToSet(outputs) \cup {writing} : g.name # f.name
  BY <1>1 DEF NameInv
<1> HIDE DEF f
<1>5. /\ active' \in Seq(Files) /\ Active' = Active \cup {f}
      /\ RowsIn(Active)' = RowsIn(Active) \cup f.rows
      /\ RowsApart(active)'
  BY <1>1, <1>2, <1>3, AddFileFacts
<1>6. UNCHANGED <<plan, outputs, writing, expectedRows, Planned, PlannedRows, Merging>>
  BY <1>2 DEF mergeVars, Planned, PlannedRows, Merging
<1>7. TypeOK'
  <2>1. (addedSince' \in BOOLEAN) /\ young' \in BOOLEAN
    BY <1>2 DEF AddFile
  <2>2. {young, recovering, addedSince, deletedSince, collided}' \subseteq BOOLEAN
    BY <1>2, <2>1 DEF TypeOK
  <2>3. {deleted, inserted, expected, exposed}' \subseteq SUBSET Rows
    BY <1>2, <1>3, TypeFacts
  <2>4. {insert, writing}' \subseteq Files \cup {None}
    BY <1>2, <1>6, TypeFacts
  <2> QED
    BY <1>2, <1>5, <1>6, <2>2, <2>3, <2>4 DEF TypeOK
<1>8. RowInv'
  <2>1. deleted' \subseteq RowsIn(Active)' /\ insert.rows' = {} /\ outputs' = outputs /\ plan' = plan
    BY <1>2, <1>5, <1>6, NoneFacts DEF RowInv
  <2> QED
    BY <1>2, <1>3, <1>5, <1>6, <2>1 DEF RowInv
<1>9. NameInv'
  <2>1. Known' = Known \cup {f}
    BY <1>2, <1>5 DEF Known
  <2>2. f \notin retired /\ f \notin scheduled
    BY <1>4 DEF Known
  <2> QED
    BY <1>2, <1>4, <1>5, <1>6, <2>1, <2>2 DEF NameInv
<1>10. FileInv'
  <2>1. CatalogFilesOnDisk'
    BY <1>2, <1>5 DEF FileInv, CatalogFilesOnDisk
  <2>2. f.rows \cap RowsIn(ToSet(outputs)) = {} /\ f.rows \cap RowsIn(Planned) = {}
    BY <1>3 DEF PlannedRows
  <2>3. \A g \in Planned : f.rows \cap g.rows = {}
    BY <2>2 DEF RowsIn
  <2> QED
    BY <1>2, <1>5, <1>6, <2>1, <2>2, <2>3 DEF FileInv
<1>11. Visible' = Visible \cup f.rows
  <2>1. deleted \cap f.rows = {}
    BY <1>3 DEF RowInv
  <2> QED
    BY <1>2, <1>5, <2>1 DEF Visible
<1>12. CountInv'
  <2>1. Merging => addedSince'
    BY <1>2 DEF AddFile
  <2> QED
    BY <1>2, <1>6, <1>11, <2>1 DEF CountInv
<1>13. SeenInv'
  BY <1>2, <1>11 DEF SeenInv, QuerySeesRows
<1> QED
  BY <1>7, <1>8, <1>9, <1>10, <1>12, <1>13

\* Steps that touch no file, no entry and no row.
LEMMA QuietStep ==
    ASSUME CompactorInv, TypeOK', Merging' = Merging, cycle' = "swap" => cycle = "swap",
           UNCHANGED <<disk, catalogVars, insert, mergeVars, obsVars>>
    PROVE  CompactorInv'
<1>1. UNCHANGED <<active, Active, retired, scheduled, deleted, Known, plan, outputs, writing,
                  expectedRows, Planned, PlannedRows, Visible, disk, insert, inserted, expected,
                  addedSince, deletedSince, collided, exposed>>
  BY DEF catalogVars, mergeVars, obsVars, Active, Known, Planned, PlannedRows, Visible
<1>2. RowInv' /\ NameInv'
  BY <1>1 DEF CompactorInv, RowInv, NameInv
<1>3. FileInv' /\ CountInv' /\ SeenInv'
  BY <1>1 DEF CompactorInv, FileInv, CatalogFilesOnDisk, CountInv, SeenInv, QuerySeesRows
<1> QED
  BY <1>2, <1>3 DEF CompactorInv

LEMMA SettleStep == CompactorInv /\ (Settle \/ StartTierMaintenance \/ StartCycle) => CompactorInv'
<1> SUFFICES ASSUME CompactorInv, Settle \/ StartTierMaintenance \/ StartCycle
             PROVE  CompactorInv'
  OBVIOUS
<1>1. /\ UNCHANGED <<disk, catalogVars, insert, mergeVars, obsVars, recovering, faults>>
      /\ Merging' = Merging
      /\ young' \in {young, FALSE}
      /\ tierings' \in {tierings, tierings + 1} /\ (tierings' # tierings => tierings < MaxTierings)
      /\ cycle' \in {cycle, "retention"}
      /\ tiering' \in {tiering, "expire"}
  <2>1. CASE Settle
    BY <2>1 DEF Settle, Merging
  <2>2. CASE StartTierMaintenance
    BY <2>2 DEF StartTierMaintenance, Merging
  <2>3. CASE StartCycle
    BY <2>3 DEF StartCycle, Merging
  <2> QED
    BY <2>1, <2>2, <2>3
<1>2. TypeOK'
  <2>1. {young, recovering, addedSince, deletedSince, collided}' \subseteq BOOLEAN
    BY <1>1 DEF CompactorInv, TypeOK, obsVars
  <2>2. tierings' \in 0 .. MaxTierings
    BY <1>1, CompactorAssumption DEF CompactorInv, TypeOK
  <2>3. cycle' \in CyclePlaces /\ tiering' \in TieringPlaces
    BY <1>1 DEF CompactorInv, TypeOK, CyclePlaces, TieringPlaces
  <2> QED
    BY <1>1, <2>1, <2>2, <2>3 DEF CompactorInv, TypeOK, catalogVars, mergeVars, obsVars
<1> QED
  BY <1>1, <1>2, QuietStep
-------------------------------------------------------------------------------
(* The maintenance calls, of the cycle and of tiering. *)

\* A file leaves the disk only when the catalog has no use for it.
LEMMA MaintenanceFacts ==
    ASSUME CompactorInv, NEW at, Maintenance(at) \/ MaintenanceFails
    PROVE  /\ disk' \subseteq disk
           /\ \A f \in Active \cup retired' : f \in disk => f \in disk'
           /\ retired' \subseteq retired /\ retired' \cap scheduled' = {}
           /\ retired' \cup scheduled' \subseteq retired \cup scheduled
           /\ Active \cap scheduled' = {}
<1>1. Active \cap retired = {} /\ Active \cap scheduled = {} /\ retired \cap scheduled = {}
  BY DEF CompactorInv, NameInv
<1>2. CASE at = "expire" /\ (\E S \in {{}, retired} : Expire(S)) /\ UNCHANGED disk
  BY <1>1, <1>2 DEF Expire
<1>3. CASE Cleanup /\ UNCHANGED retired
  BY <1>1, <1>3 DEF Cleanup
<1>4. CASE Orphans /\ UNCHANGED <<retired, scheduled>>
  BY <1>1, <1>4 DEF Orphans, Known
<1>5. CASE MaintenanceFails
  BY <1>1, <1>5 DEF MaintenanceFails
<1> QED
  BY <1>2, <1>3, <1>4, <1>5 DEF Maintenance

LEMMA MaintenanceStep == CompactorInv /\ (TierMaintenance \/ CycleMaintenance) => CompactorInv'
<1> SUFFICES ASSUME CompactorInv, TierMaintenance \/ CycleMaintenance PROVE CompactorInv'
  OBVIOUS
<1> USE DEF CompactorInv
<1>1. /\ UNCHANGED <<recovering, active, deleted, young, insert, mergeVars, tierings, obsVars>>
      /\ Merging' = Merging
      /\ cycle' \in {cycle, "cleanup", "orphans", "idle"}
      /\ tiering' \in {tiering, "cleanup", "orphans", "idle"}
      /\ faults' \in {faults, faults + 1} /\ (faults' # faults => faults < MaxFaults)
  BY DEF TierMaintenance, CycleMaintenance, MaintenanceFails, AfterMaintenance, Merging
<1>2. \E at : Maintenance(at) \/ MaintenanceFails
  BY DEF TierMaintenance, CycleMaintenance
<1>3. /\ disk' \subseteq disk
      /\ \A f \in Active \cup retired' : f \in disk => f \in disk'
      /\ retired' \subseteq retired /\ retired' \cap scheduled' = {}
      /\ retired' \cup scheduled' \subseteq retired \cup scheduled
      /\ Active \cap scheduled' = {}
  BY <1>2, MaintenanceFacts
<1>4. UNCHANGED <<Active, plan, outputs, writing, expectedRows, Planned, PlannedRows, Visible,
                  inserted, expected, addedSince, deletedSince, collided, exposed>>
  BY <1>1 DEF mergeVars, obsVars, Active, Planned, PlannedRows, Visible
<1>5. TypeOK'
  <2>1. {young, recovering, addedSince, deletedSince, collided}' \subseteq BOOLEAN
    BY <1>1 DEF TypeOK, obsVars
  <2>2. faults' \in 0 .. MaxFaults
    BY <1>1, CompactorAssumption DEF TypeOK
  <2>3. cycle' \in CyclePlaces /\ tiering' \in TieringPlaces
    BY <1>1 DEF TypeOK, CyclePlaces, TieringPlaces
  <2>4. disk' \subseteq Files /\ retired' \subseteq Files /\ scheduled' \subseteq Files
    BY <1>3, TypeFacts
  <2> QED
    BY <1>1, <1>4, <2>1, <2>2, <2>3, <2>4 DEF TypeOK
<1>6. RowInv'
  BY <1>1, <1>4 DEF RowInv
<1>7. NameInv'
  <2>1. Known' \subseteq Known
    BY <1>3, <1>4 DEF Known
  <2> QED
    BY <1>1, <1>3, <1>4, <2>1 DEF NameInv
<1>8. FileInv'
  BY <1>3, <1>4 DEF FileInv, CatalogFilesOnDisk
<1>9. CountInv'
  BY <1>1, <1>3, <1>4 DEF CountInv
<1>10. SeenInv'
  BY <1>4 DEF SeenInv, QuerySeesRows
<1> QED
  BY <1>5, <1>6, <1>7, <1>8, <1>9, <1>10
-------------------------------------------------------------------------------
(* DELETE: retention and tiering. *)

LEMMA FilesApart ==
    ASSUME RowsApart(active), NEW f \in Active, NEW g \in Active, f # g
    PROVE  f.rows \cap g.rows = {}
<1>1. PICK i \in DOMAIN active : f = active[i]
  BY DEF Active, ToSet
<1>2. PICK j \in DOMAIN active : g = active[j]
  BY DEF Active, ToSet
<1> QED
  BY <1>1, <1>2 DEF RowsApart

\* The rows R are gone, in whole files or behind a delete file, and no others.
LEMMA DeleteFacts ==
    ASSUME CompactorInv, NEW R \in SUBSET Visible, Delete(R)
    PROVE  /\ active' \in Seq(Files) /\ Active' \subseteq Active /\ RowsApart(active)'
           /\ retired' = retired \cup (Active \ Active')
           /\ deleted' \subseteq RowsIn(Active)' /\ RowsIn(Active)' \subseteq RowsIn(Active)
           /\ deleted' \subseteq deleted \cup R
           /\ Visible' = Visible \ R
           /\ expected' = expected \ R
           /\ deletedSince' = (deletedSince \/ (Merging /\ R # {}))
<1> USE DEF CompactorInv
<1> DEFINE gone == {f \in Active : f.rows \subseteq deleted \cup R}
<1>1. active' = Without(active, gone) /\ active \in Seq(Files)
  BY TypeFacts DEF Delete
<1>2. /\ retired' = retired \cup gone /\ deleted' = (deleted \cup R) \ RowsIn(gone)
      /\ expected' = expected \ R
      /\ deletedSince' = (deletedSince \/ (Merging /\ R # {}))
  BY DEF Delete
<1>3. \A f \in gone : f \in Active /\ f.rows \subseteq deleted \cup R
  OBVIOUS
<1> HIDE DEF gone
<1>4. active' \in Seq(Files) /\ Active' = Active \ gone /\ RowsApart(active)'
  BY <1>1, WithoutFacts DEF Active, RowInv
<1>5. RowsIn(Active)' \subseteq RowsIn(Active)
  BY <1>4 DEF RowsIn
<1>6. RowsIn(gone) \subseteq deleted \cup R
  BY <1>3 DEF RowsIn
<1>7. RowsIn(Active) = RowsIn(Active)' \cup RowsIn(gone)
  BY <1>3, <1>4 DEF RowsIn
<1>8. RowsIn(Active)' \cap RowsIn(gone) = {}
  <2>1. \A f \in Active', g \in gone : f.rows \cap g.rows = {}
    BY <1>3, <1>4, FilesApart DEF RowInv
  <2> QED
    BY <2>1 DEF RowsIn
<1>9. deleted \subseteq RowsIn(Active) /\ R \subseteq RowsIn(Active)
  BY DEF RowInv, Visible
<1>10. deleted' \subseteq RowsIn(Active)'
  BY <1>2, <1>7, <1>9
<1>11. Visible' = Visible \ R
  <2>1. Visible' = RowsIn(Active)' \ deleted' /\ Visible = RowsIn(Active) \ deleted
    BY DEF Visible
  <2> QED
    BY <1>2, <1>6, <1>7, <1>8, <2>1
<1>12. gone = Active \ Active'
  BY <1>3, <1>4
<1> QED
  BY <1>2, <1>4, <1>5, <1>10, <1>11, <1>12

LEMMA DeleteStep ==
    CompactorInv /\ (TierDelete \/ \E cutoff \in Rows : Retention(cutoff)) => CompactorInv'
<1> SUFFICES ASSUME CompactorInv, TierDelete \/ \E cutoff \in Rows : Retention(cutoff)
             PROVE  CompactorInv'
  OBVIOUS
<1> USE DEF CompactorInv
<1>1. PICK R \in SUBSET Visible : Delete(R)
  BY DEF TierDelete, Retention
<1>2. /\ UNCHANGED <<recovering, disk, scheduled, young, insert, mergeVars, tiering, faults,
                     inserted, addedSince, collided, exposed>>
      /\ Merging' = Merging /\ cycle' \in {cycle, "plan"}
      /\ tierings' \in {tierings, tierings + 1} /\ (tierings' # tierings => tierings < MaxTierings)
  <2>1. CASE TierDelete
    BY <2>1 DEF TierDelete, Merging
  <2>2. CASE \E cutoff \in Rows : Retention(cutoff)
    BY <2>2 DEF Retention, Merging
  <2> QED
    BY <2>1, <2>2
<1>3. /\ active' \in Seq(Files) /\ Active' \subseteq Active /\ RowsApart(active)'
      /\ retired' = retired \cup (Active \ Active')
      /\ deleted' \subseteq RowsIn(Active)' /\ RowsIn(Active)' \subseteq RowsIn(Active)
      /\ deleted' \subseteq deleted \cup R
      /\ Visible' = Visible \ R
      /\ expected' = expected \ R
      /\ deletedSince' = (deletedSince \/ (Merging /\ R # {}))
  BY <1>1, DeleteFacts
<1>4. UNCHANGED <<plan, outputs, writing, expectedRows, Planned, PlannedRows>>
  BY <1>2 DEF mergeVars, Planned, PlannedRows
<1>5. TypeOK'
  <2>1. {young, recovering, addedSince, deletedSince, collided}' \subseteq BOOLEAN
    BY <1>2, <1>3 DEF TypeOK
  <2>2. R \subseteq Rows
    <3>1. RowsIn(Active) \subseteq Rows
      BY TypeFacts DEF RowInv
    <3> QED
      BY <3>1 DEF Visible
  <2>3. {deleted, inserted, expected, exposed}' \subseteq SUBSET Rows
    BY <1>2, <1>3, <2>2, TypeFacts
  <2>4. retired' \subseteq Files
    BY <1>3, TypeFacts
  <2>5. tierings' \in 0 .. MaxTierings
    BY <1>2, CompactorAssumption DEF TypeOK
  <2> QED
    BY <1>2, <1>3, <1>4, <2>1, <2>3, <2>4, <2>5 DEF TypeOK, CyclePlaces
<1>6. RowInv'
  BY <1>2, <1>3, <1>4 DEF RowInv
<1>7. NameInv'
  <2>1. Known' = Known
    BY <1>2, <1>3 DEF Known
  <2>2. Active' \cap retired' = {} /\ Active' \cap scheduled = {} /\ retired' \cap scheduled = {}
    BY <1>3 DEF NameInv
  <2> QED
    BY <1>2, <1>3, <1>4, <2>1, <2>2 DEF NameInv
<1>8. FileInv'
  BY <1>2, <1>3, <1>4 DEF FileInv, CatalogFilesOnDisk
<1>9. CountInv'
  <2>1. CASE R = {}
    BY <1>2, <1>3, <1>4, <2>1 DEF CountInv
  <2>2. CASE R # {}
    <3>1. Visible' \subseteq Visible /\ (Merging => deletedSince')
      BY <1>3, <2>2
    <3> QED
      BY <1>2, <1>3, <1>4, <3>1 DEF CountInv
  <2> QED
    BY <2>1, <2>2
<1>10. SeenInv'
  BY <1>2, <1>3 DEF SeenInv, QuerySeesRows
<1> QED
  BY <1>5, <1>6, <1>7, <1>8, <1>9, <1>10
-------------------------------------------------------------------------------
(* The merge: the plan and the merged files. *)

LEMMA PlanStep == CompactorInv /\ PlanPartition => CompactorInv'
<1> SUFFICES ASSUME CompactorInv, PlanPartition PROVE CompactorInv'
  OBVIOUS
<1> USE DEF CompactorInv
<1>1. /\ UNCHANGED <<recovering, disk, catalogVars, young, insert, outputs, expectedRows, writing,
                     tiering, faults, tierings, obsVars>>
      /\ cycle = "plan" /\ ~Merging
      /\ \/ plan' = plan /\ cycle' = "expire"
         \/ deleted = {} /\ plan' = Batches(active) /\ cycle' = "merge"
  BY DEF PlanPartition, Mergeable, PlanBatches, Merging
<1>2. plan = <<>> /\ outputs = <<>> /\ writing = None
  BY <1>1, TypeFacts
<1>3. UNCHANGED <<active, retired, scheduled, deleted, Active, Known, Visible, outputs, writing,
                  inserted, expected, addedSince, deletedSince, collided, exposed>>
  BY <1>1 DEF catalogVars, obsVars, Active, Known, Visible
<1>4. plan' \in Seq(Seq(Files))
  BY <1>1, TypeFacts, BatchesFacts
<1>5. TypeOK'
  <2>1. {young, recovering, addedSince, deletedSince, collided}' \subseteq BOOLEAN
    BY <1>1, <1>3 DEF TypeOK
  <2>2. cycle' \in CyclePlaces /\ (~Merging' => plan' = <<>>)
    BY <1>1, <1>2 DEF CyclePlaces, Merging
  <2> QED
    BY <1>1, <1>2, <1>3, <1>4, <2>1, <2>2 DEF TypeOK
<1>6. CASE plan' = plan /\ cycle' = "expire"
  <2>1. Merging' = Merging
    BY <1>1, <1>6 DEF Merging
  <2>2. UNCHANGED <<disk, catalogVars, insert, mergeVars, obsVars>>
    BY <1>1, <1>6 DEF mergeVars
  <2> QED
    BY <1>5, <1>6, <2>1, <2>2, QuietStep
<1>7. CASE deleted = {} /\ plan' = Batches(active) /\ cycle' = "merge"
  <2>1. Planned' = Active /\ BatchesApart(plan)'
    <3>1. FilesIn(plan') = ToSet(active) /\ (RowsApart(active) => BatchesApart(plan'))
      BY <1>7, TypeFacts, BatchesFacts
    <3> QED
      BY <3>1 DEF Planned, Active, RowInv
  <2>2. ToSet(outputs) = {} /\ RowsIn({}) = {}
    BY <1>2 DEF ToSet, RowsIn
  <2>3. PlannedRows' = RowsIn(Active) /\ Planned' = Active
    BY <1>3, <2>1, <2>2 DEF PlannedRows
  <2>4. RowInv'
    BY <1>1, <1>3, <2>1, <2>2, <2>3 DEF RowInv
  <2>5. NameInv'
    <3>1. \A g \in Active : g.name # writing.name
      BY <1>2, NoneFacts, TypeFacts
    <3> QED
      BY <1>1, <1>3, <2>1, <3>1 DEF NameInv
  <2>6. FileInv'
    <3>1. \A f, g \in Active : f.rows \cap g.rows # {} => f = g
      BY FilesApart DEF RowInv
    <3> QED
      BY <1>1, <1>3, <2>1, <3>1 DEF FileInv, CatalogFilesOnDisk
  <2>7. CountInv'
    <3>1. Visible = RowsIn(Active)
      BY <1>7 DEF Visible
    <3>2. \A g \in Active : g.rows \subseteq RowsIn(Active)
      BY DEF RowsIn
    <3> QED
      BY <1>2, <1>3, <1>7, <2>1, <2>2, <2>3, <3>1, <3>2 DEF CountInv
  <2>8. SeenInv'
    BY <1>3 DEF SeenInv, QuerySeesRows
  <2> QED
    BY <1>5, <2>4, <2>5, <2>6, <2>7, <2>8
<1> QED
  BY <1>1, <1>6, <1>7

LEMMA CreateOutputStep == CompactorInv /\ CreateOutput => CompactorInv'
<1> SUFFICES ASSUME CompactorInv, CreateOutput PROVE CompactorInv'
  OBVIOUS
<1> USE DEF CompactorInv
<1> DEFINE f == NewFile({})
<1>1. f \in Files /\ f # None /\ \A g \in InUse : g.name # f.name
  BY NewFileFacts DEF CreateOutput
<1>2. /\ writing' = f /\ disk' = disk \cup {f}
      /\ UNCHANGED <<recovering, catalogVars, young, insert, cycle, plan, outputs, expectedRows,
                     tiering, faults, tierings, obsVars>>
      /\ Merging /\ cycle = "merge" /\ plan # <<>>
  BY DEF CreateOutput, Merging
<1> HIDE DEF f
<1>3. UNCHANGED <<active, retired, scheduled, deleted, Active, Known, Visible, Planned, PlannedRows,
                  Merging, inserted, expected, addedSince, deletedSince, collided, exposed>>
  BY <1>2 DEF catalogVars, obsVars, Active, Known, Visible, Planned, PlannedRows, Merging
<1>4. TypeOK'
  <2>1. {young, recovering, addedSince, deletedSince, collided}' \subseteq BOOLEAN
    BY <1>2, <1>3 DEF TypeOK
  <2>2. {insert, writing}' \subseteq Files \cup {None}
    BY <1>1, <1>2, TypeFacts
  <2>3. disk' \subseteq Files
    BY <1>1, <1>2, TypeFacts
  <2> QED
    BY <1>2, <1>3, <2>1, <2>2, <2>3 DEF TypeOK
<1>5. RowInv'
  BY <1>2, <1>3 DEF RowInv
<1>6. NameInv'
  <2>1. \A g \in Known \cup Planned \cup {insert} : g.name # f.name
    BY <1>1 DEF InUse
  <2> QED
    BY <1>2, <1>3, <2>1 DEF NameInv
<1>7. FileInv'
  BY <1>2, <1>3 DEF FileInv, CatalogFilesOnDisk
<1>8. CountInv'
  <2>1. \A g \in Planned : g \notin disk => g \notin disk'
    BY <1>1, <1>2 DEF InUse
  <2> QED
    BY <1>2, <1>3, <2>1 DEF CountInv
<1>9. SeenInv'
  BY <1>2, <1>3 DEF SeenInv, QuerySeesRows
<1> QED
  BY <1>4, <1>5, <1>6, <1>7, <1>8, <1>9

LEMMA FinishOutputStep == CompactorInv /\ FinishOutput => CompactorInv'
<1> SUFFICES ASSUME CompactorInv, FinishOutput PROVE CompactorInv'
  OBVIOUS
<1> USE DEF CompactorInv
<1> DEFINE H == ToSet(Head(plan))
           out == [writing EXCEPT !.rows = RowsIn(H)]
           O == ToSet(outputs)
<1>1. /\ writing # None /\ Merging /\ Merging' = Merging
      /\ H \cup {writing} \subseteq disk
      /\ disk' = (disk \ {writing}) \cup {out}
      /\ outputs' = Append(outputs, out)
      /\ expectedRows' = expectedRows + Size(out)
      /\ plan' = Tail(plan) /\ writing' = None
      /\ cycle' = IF Tail(plan) = <<>> THEN "swap" ELSE "merge"
      /\ UNCHANGED <<recovering, catalogVars, young, insert, tiering, faults, tierings, obsVars>>
  BY DEF FinishOutput, Merging
<1>2. plan \in Seq(Seq(Files)) /\ plan # <<>> /\ writing \in Files
  BY <1>1, TypeFacts DEF CountInv
<1>3. /\ Head(plan) \in Seq(Files) /\ plan' \in Seq(Seq(Files))
      /\ Planned = H \cup Planned' /\ BatchesApart(plan')
      /\ RowsIn(H) \cap RowsIn(Planned') = {}
  <2>1. BatchesApart(plan)
    BY DEF RowInv
  <2> QED
    BY <1>1, <1>2, <2>1, HeadTailSets DEF Planned
<1>4. H \subseteq Files /\ RowsIn(H) \subseteq Rows
  <2>1. H \subseteq Files
    BY <1>3, TypeFacts
  <2> QED
    BY <2>1, NoneFacts DEF RowsIn
<1>5. out \in Files /\ out.rows = RowsIn(H) /\ out.name = writing.name
  BY <1>2, <1>4 DEF Files
<1> HIDE DEF H, out
<1>6. outputs' \in Seq(Files) /\ ToSet(outputs)' = O \cup {out}
  BY <1>1, <1>5, TypeFacts, AppendFacts
<1>7. RowsIn(ToSet(outputs))' = RowsIn(O) \cup RowsIn(H)
  BY <1>5, <1>6 DEF RowsIn
<1>8. RowsIn(Planned) = RowsIn(H) \cup RowsIn(Planned')
  BY <1>3 DEF RowsIn
<1>9. PlannedRows' = PlannedRows
  BY <1>7, <1>8 DEF PlannedRows
<1>10. RowsIn(O) \cap RowsIn(H) = {} /\ RowsIn(O) \cap RowsIn(Planned') = {}
  BY <1>8 DEF RowInv
<1>11. RowsApart(outputs)'
  <2>1. /\ DOMAIN outputs' = DOMAIN outputs \cup {Len(outputs) + 1}
        /\ \A i \in DOMAIN outputs : outputs'[i] = outputs[i]
        /\ outputs'[Len(outputs) + 1] = out
    BY <1>1, TypeFacts
  <2>2. \A i \in DOMAIN outputs : outputs[i].rows \cap out.rows = {}
    <3>1. \A i \in DOMAIN outputs : outputs[i].rows \subseteq RowsIn(O)
      BY DEF RowsIn, ToSet
    <3> QED
      BY <1>5, <1>10, <3>1
  <2> QED
    BY <2>1, <2>2 DEF RowsApart, RowInv
<1>12. expectedRows' = Cardinality(RowsIn(ToSet(outputs)))' /\ expectedRows' \in Nat
  <2>1. RowsIn(O) \subseteq Rows
    BY TypeFacts DEF RowInv, PlannedRows
  <2>2. IsFiniteSet(RowsIn(O)) /\ IsFiniteSet(RowsIn(H))
        /\ Cardinality(RowsIn(O)) \in Nat /\ Cardinality(RowsIn(H)) \in Nat
    BY <1>4, <2>1, RowsFinite
  <2>3. Cardinality(RowsIn(O) \cup RowsIn(H)) = Cardinality(RowsIn(O)) + Cardinality(RowsIn(H))
    <3>1. Cardinality(RowsIn(O) \cap RowsIn(H)) = 0
      BY <1>10, FS_EmptySet
    <3>2. Cardinality(RowsIn(O) \cup RowsIn(H))
            = Cardinality(RowsIn(O)) + Cardinality(RowsIn(H)) - Cardinality(RowsIn(O) \cap RowsIn(H))
      BY <2>2, FS_Union
    <3> QED
      BY <2>2, <3>1, <3>2
  <2>4. expectedRows' = Cardinality(RowsIn(O)) + Cardinality(RowsIn(H))
    BY <1>1, <1>5 DEF Size, RowInv
  <2> QED
    BY <1>7, <2>2, <2>3, <2>4
<1>13. UNCHANGED <<active, retired, scheduled, deleted, Active, Known, Visible, insert,
                   inserted, expected, addedSince, deletedSince, collided, exposed>>
  BY <1>1 DEF catalogVars, obsVars, Active, Known, Visible
<1> HIDE DEF O
<1>14. TypeOK'
  <2>1. {young, recovering, addedSince, deletedSince, collided}' \subseteq BOOLEAN
    BY <1>1, <1>13 DEF TypeOK
  <2>2. {insert, writing}' \subseteq Files \cup {None}
    BY <1>1, TypeFacts
  <2>3. disk' \subseteq Files
    BY <1>1, <1>5, TypeFacts
  <2>4. cycle' \in CyclePlaces
    BY <1>1 DEF CyclePlaces
  <2> QED
    BY <1>1, <1>3, <1>6, <1>12, <1>13, <2>1, <2>2, <2>3, <2>4 DEF TypeOK
<1>15. RowInv'
  <2>1. RowsIn(ToSet(outputs))' \cap RowsIn(Planned)' = {}
    BY <1>3, <1>7, <1>10
  <2>2. insert.rows \cap (RowsIn(Active) \cup PlannedRows) = {}
    BY DEF RowInv
  <2> QED
    BY <1>3, <1>9, <1>11, <1>12, <1>13, <2>1, <2>2 DEF RowInv
<1>16. NameInv'
  <2>1. \A g \in Known : g.name # out.name /\ g.name # None.name
    <3>1. Known \subseteq Files
      BY TypeFacts DEF Known
    <3> QED
      BY <1>5, <3>1, NoneFacts DEF NameInv
  <2>2. \A g \in Planned' : g.name # None.name
    BY <1>3, NoneFacts, TypeFacts
  <2>3. insert # None => insert.name # out.name /\ insert.name # None.name
    BY <1>5, NoneFacts, TypeFacts DEF NameInv
  <2>4. ToSet(outputs)' \cup {writing'} = ToSet(outputs) \cup {out, None}
    BY <1>1, <1>6 DEF O
  <2>5. \A f \in Known, g \in ToSet(outputs) \cup {out, None} : f.name # g.name
    BY <2>1 DEF NameInv
  <2>6. insert # None => \A f \in Known \cup ToSet(outputs) \cup {out, None} : f.name # insert.name
    BY <2>3 DEF NameInv
  <2>7. Active \cap retired = {} /\ Active \cap scheduled = {} /\ retired \cap scheduled = {}
    BY DEF NameInv
  <2>8. Known' \cup ToSet(outputs)' \cup {writing'} = Known \cup ToSet(outputs) \cup {out, None}
    BY <1>13, <2>4
  <2>9. \A f \in Known', g \in ToSet(outputs)' \cup {writing'} : f.name # g.name
    BY <1>13, <2>4, <2>5
  <2>10. insert' # None =>
            \A f \in Known' \cup ToSet(outputs)' \cup {writing'} : f.name # insert'.name
    BY <1>13, <2>6, <2>8
  <2>11. \A g \in Planned' : g.name # writing'.name
    BY <1>1, <2>2
  <2> QED
    BY <1>13, <2>7, <2>9, <2>10, <2>11 DEF NameInv
<1>17. \A f \in Active \cup retired : f # writing
  BY DEF NameInv, Known
<1>18. FileInv'
  <2>1. CatalogFilesOnDisk'
    BY <1>1, <1>13, <1>17 DEF FileInv, CatalogFilesOnDisk
  <2>2. ASSUME NEW f \in Active, f.rows \cap RowsIn(ToSet(outputs))' # {} PROVE f \in disk'
    <3>1. CASE f.rows \cap RowsIn(O) # {}
      BY <1>1, <1>17, <3>1 DEF FileInv, O
    <3>2. CASE f.rows \cap RowsIn(H) # {}
      <4>1. PICK g \in H : f.rows \cap g.rows # {}
        BY <3>2 DEF RowsIn
      <4>2. f = g
        BY <1>3, <4>1 DEF FileInv
      <4> QED
        BY <1>1, <1>17, <4>2
    <3> QED
      BY <1>7, <2>2, <3>1, <3>2
  <2>3. \A f \in Active, g \in Planned' : f.rows \cap g.rows # {} => f = g
    BY <1>3 DEF FileInv
  <2> QED
    BY <1>13, <2>1, <2>2, <2>3 DEF FileInv
<1>19. CountInv'
  <2>1. writing' # None => plan' # <<>>
    BY <1>1
  <2>2. cycle' = "swap" => plan' = <<>>
    BY <1>1
  <2>3. ASSUME ~deletedSince
        PROVE  /\ deleted = {} /\ RowsIn(ToSet(outputs))' \subseteq Visible
               /\ \A g \in Planned' : g.rows \subseteq Visible \/ g \notin disk'
    <3>1. /\ deleted = {} /\ RowsIn(O) \subseteq Visible
          /\ \A g \in Planned : g.rows \subseteq Visible \/ g \notin disk
      BY <1>1, <2>3 DEF CountInv, O
    <3>2. \A g \in H : g.rows \subseteq Visible
      BY <1>1, <1>3, <3>1
    <3>3. RowsIn(H) \subseteq Visible
      BY <3>2 DEF RowsIn
    <3>4. \A g \in Planned' : g # out
      BY <1>3, <1>5 DEF NameInv
    <3> QED
      BY <1>1, <1>3, <1>7, <3>1, <3>3, <3>4
  <2>4. ~addedSince => Visible \subseteq PlannedRows
    BY <1>1 DEF CountInv
  <2> QED
    BY <1>1, <1>9, <1>13, <2>1, <2>2, <2>3, <2>4 DEF CountInv
<1>20. SeenInv'
  BY <1>13 DEF SeenInv, QuerySeesRows
<1> QED
  BY <1>14, <1>15, <1>16, <1>18, <1>19, <1>20
-------------------------------------------------------------------------------
(* The end of the merge: given up, or swapped in. *)

LEMMA EmptyPlan ==
    /\ ToSet(<<>>) = {} /\ FilesIn(<<>>) = {} /\ RowsIn({}) = {} /\ Cardinality(RowsIn({})) = 0
    /\ RowsApart(<<>>) /\ BatchesApart(<<>>)
<1>1. ToSet(<<>>) = {} /\ FilesIn(<<>>) = {} /\ RowsIn({}) = {}
  BY DEF ToSet, FilesIn, RowsIn
<1>2. Cardinality(RowsIn({})) = 0
  BY <1>1, FS_EmptySet
<1>3. RowsApart(<<>>) /\ BatchesApart(<<>>)
  BY DEF RowsApart, BatchesApart
<1> QED
  BY <1>1, <1>2, <1>3

LEMMA ClearedFacts ==
    ASSUME Clear
    PROVE  /\ plan' = <<>> /\ outputs' = <<>> /\ expectedRows' = 0 /\ writing' = None
           /\ addedSince' = FALSE /\ deletedSince' = FALSE
           /\ ToSet(outputs)' = {} /\ Planned' = {} /\ PlannedRows' = {}
           /\ RowsIn(ToSet(outputs))' = {}
<1>1. /\ plan' = <<>> /\ outputs' = <<>> /\ expectedRows' = 0 /\ writing' = None
      /\ addedSince' = FALSE /\ deletedSince' = FALSE
  BY DEF Clear
<1>2. ToSet(outputs)' = {} /\ Planned' = {} /\ RowsIn(ToSet(outputs))' = {}
  BY <1>1, EmptyPlan DEF Planned
<1>3. PlannedRows' = {}
  BY <1>2, EmptyPlan DEF PlannedRows
<1> QED
  BY <1>1, <1>2, <1>3

LEMMA ClearStep ==
    ASSUME CompactorInv, TypeOK', Clear, ~Merging',
           UNCHANGED <<catalogVars, inserted, expected, collided, exposed>>,
           insert' = insert \/ insert' = None,
           disk' \subseteq disk, \A f \in Active \cup retired : f \in disk => f \in disk'
    PROVE  CompactorInv'
<1> USE DEF CompactorInv
<1>1. UNCHANGED <<active, retired, scheduled, deleted, Active, Known, Visible,
                  inserted, expected, collided, exposed>>
  BY DEF catalogVars, Active, Known, Visible
<1>2. /\ plan' = <<>> /\ outputs' = <<>> /\ expectedRows' = 0 /\ writing' = None
      /\ ToSet(outputs)' = {} /\ Planned' = {} /\ PlannedRows' = {}
      /\ RowsIn(ToSet(outputs))' = {}
  BY ClearedFacts
<1>3. RowInv'
  <2>1. insert'.rows \subseteq insert.rows
    BY NoneFacts
  <2>2. insert'.rows \subseteq inserted' /\ insert'.rows \cap (RowsIn(Active)' \cup PlannedRows') = {}
    BY <1>1, <1>2, <2>1 DEF RowInv
  <2>3. RowsApart(outputs)' /\ BatchesApart(plan)' /\ expectedRows' = Cardinality(RowsIn(ToSet(outputs))')
    BY <1>2, EmptyPlan
  <2> QED
    BY <1>1, <1>2, <2>2, <2>3, EmptyPlan DEF RowInv
<1>4. NameInv'
  <2>1. Known \subseteq Files
    BY TypeFacts DEF Known
  <2>2. \A g \in Known : g.name # None.name
    BY <2>1, NoneFacts
  <2>3. insert # None => insert.name # None.name
    BY NoneFacts, TypeFacts
  <2> QED
    BY <1>1, <1>2, <2>2, <2>3 DEF NameInv
<1>5. FileInv'
  BY <1>1, <1>2 DEF FileInv, CatalogFilesOnDisk
<1>6. CountInv'
  <2>1. cycle' # "swap"
    BY DEF Merging
  <2> QED
    BY <1>2, <2>1 DEF CountInv
<1>7. SeenInv'
  BY <1>1 DEF SeenInv, QuerySeesRows
<1> QED
  BY <1>3, <1>4, <1>5, <1>6, <1>7

LEMMA AbortStep == CompactorInv /\ (MergeFails \/ SwapFails \/ Crash) => CompactorInv'
<1> SUFFICES ASSUME CompactorInv, MergeFails \/ SwapFails \/ Crash PROVE CompactorInv'
  OBVIOUS
<1>1. /\ Clear /\ UNCHANGED <<catalogVars, young, tierings, inserted, expected, collided, exposed>>
      /\ cycle' \in {"expire", "idle"} /\ tiering' \in {tiering, "idle"}
      /\ insert' = insert \/ insert' = None
      /\ recovering' \in {recovering, TRUE}
      /\ disk' = disk \/ disk' = disk \ (ToSet(outputs) \cup {writing})
      /\ faults' \in {faults, faults + 1} /\ (faults' # faults => faults < MaxFaults)
  <2>1. CASE MergeFails
    BY <2>1 DEF MergeFails, RemoveOutputs
  <2>2. CASE SwapFails
    BY <2>2 DEF SwapFails, RemoveOutputs
  <2>3. CASE Crash
    BY <2>3 DEF Crash
  <2> QED
    BY <2>1, <2>2, <2>3
<1>2. ~Merging'
  BY <1>1 DEF Merging
<1>3. /\ plan' = <<>> /\ outputs' = <<>> /\ expectedRows' = 0 /\ writing' = None
      /\ addedSince' = FALSE /\ deletedSince' = FALSE
  BY <1>1, ClearedFacts
<1>4. disk' \subseteq disk /\ \A f \in Active \cup retired : f \in disk => f \in disk'
  <2>1. \A f \in Active \cup retired : f \notin ToSet(outputs) \cup {writing}
    BY DEF CompactorInv, NameInv, Known
  <2> QED
    BY <1>1, <2>1
<1>5. TypeOK'
  <2>1. {young, recovering, addedSince, deletedSince, collided}' \subseteq BOOLEAN
    BY <1>1, <1>3 DEF CompactorInv, TypeOK
  <2>2. {insert, writing}' \subseteq Files \cup {None}
    BY <1>1, <1>3, TypeFacts DEF CompactorInv
  <2>3. faults' \in 0 .. MaxFaults
    BY <1>1, CompactorAssumption DEF CompactorInv, TypeOK
  <2>4. cycle' \in CyclePlaces /\ tiering' \in TieringPlaces
    BY <1>1 DEF CompactorInv, TypeOK, CyclePlaces, TieringPlaces
  <2>5. disk' \subseteq Files
    BY <1>4, TypeFacts DEF CompactorInv
  <2>6. outputs' \in Seq(Files) /\ plan' \in Seq(Seq(Files)) /\ expectedRows' \in Nat
    BY <1>3
  <2> QED
    BY <1>1, <1>3, <2>1, <2>2, <2>3, <2>4, <2>5, <2>6 DEF CompactorInv, TypeOK, catalogVars
<1> QED
  BY <1>1, <1>2, <1>4, <1>5, ClearStep

\* When the swap goes through and nobody has both added and deleted rows since
\* the plan, its row count is proof enough: the merged rows are the visible ones.
LEMMA CountsAgree ==
    ASSUME CompactorInv, Swap, ~(addedSince /\ deletedSince)
    PROVE  RowsIn(ToSet(outputs)) = Visible
<1> USE DEF CompactorInv
<1> DEFINE O == RowsIn(ToSet(outputs))
<1>1. cycle = "swap" /\ Merging /\ Cardinality(Visible) = Cardinality(O)
  BY DEF Swap, CountsMatch, Merging, RowInv
<1>2. Planned = {}
  BY <1>1, EmptyPlan DEF CountInv, Planned
<1>3. PlannedRows = O
  BY <1>2, EmptyPlan DEF PlannedRows
<1>4. O \subseteq Rows /\ Visible \subseteq Rows
  BY <1>3, TypeFacts DEF RowInv, Visible
<1>5. IsFiniteSet(O) /\ IsFiniteSet(Visible)
  BY <1>4, RowsFinite
<1>6. CASE ~addedSince
  <2>1. Visible \subseteq O
    BY <1>1, <1>3, <1>6 DEF CountInv
  <2> QED
    BY <1>1, <1>5, <2>1, FS_Subset
<1>7. CASE ~deletedSince
  <2>1. O \subseteq Visible
    BY <1>1, <1>7 DEF CountInv
  <2> QED
    BY <1>1, <1>5, <2>1, FS_Subset
<1> QED
  BY <1>6, <1>7

LEMMA SwapStep == CompactorInv /\ Swap => CompactorInv'
<1> SUFFICES ASSUME CompactorInv, Swap PROVE CompactorInv'
  OBVIOUS
<1> USE DEF CompactorInv
<1> DEFINE O == ToSet(outputs)
<1>1. /\ Clear /\ active' = outputs /\ retired' = retired \cup Active /\ deleted' = {}
      /\ young' = TRUE /\ cycle' = "expire" /\ O \subseteq disk
      /\ collided' = (collided \/ (addedSince /\ deletedSince))
      /\ UNCHANGED <<recovering, disk, scheduled, insert, tiering, faults, tierings,
                     inserted, expected, exposed>>
  BY DEF Swap, Swapped, CanRegister
<1>2. /\ plan' = <<>> /\ outputs' = <<>> /\ expectedRows' = 0 /\ writing' = None
      /\ addedSince' = FALSE /\ deletedSince' = FALSE
      /\ ToSet(outputs)' = {} /\ Planned' = {} /\ PlannedRows' = {}
      /\ RowsIn(ToSet(outputs))' = {}
  BY <1>1, ClearedFacts
<1>3. Active' = O /\ Known' = Known \cup O /\ ~Merging' /\ Visible' = RowsIn(O)
  BY <1>1 DEF Active, Known, Merging, Visible
<1> HIDE DEF O
<1>4. TypeOK'
  <2>1. {young, recovering, addedSince, deletedSince, collided}' \subseteq BOOLEAN
    BY <1>1, <1>2 DEF TypeOK
  <2>2. {deleted, inserted, expected, exposed}' \subseteq SUBSET Rows
    BY <1>1, TypeFacts
  <2>3. {insert, writing}' \subseteq Files \cup {None}
    BY <1>1, <1>2, TypeFacts
  <2>4. outputs' \in Seq(Files) /\ plan' \in Seq(Seq(Files)) /\ expectedRows' \in Nat
    BY <1>2
  <2>5. active' \in Seq(Files) /\ retired' \subseteq Files
    BY <1>1, TypeFacts
  <2> QED
    BY <1>1, <1>2, <2>1, <2>2, <2>3, <2>4, <2>5 DEF TypeOK, CyclePlaces
<1>5. RowInv'
  <2>1. RowsIn(Active)' = RowsIn(O) /\ RowsIn(O) \subseteq PlannedRows
    BY <1>3 DEF PlannedRows, O
  <2>2. RowsIn(Active)' \subseteq inserted' /\ insert'.rows \cap (RowsIn(Active)' \cup PlannedRows') = {}
    BY <1>1, <1>2, <2>1 DEF RowInv
  <2>3. RowsApart(outputs)' /\ BatchesApart(plan)' /\ expectedRows' = Cardinality(RowsIn(ToSet(outputs))')
    BY <1>2, EmptyPlan
  <2> QED
    BY <1>1, <1>2, <2>2, <2>3, EmptyPlan DEF RowInv
<1>6. NameInv'
  <2>1. Known \cup O \subseteq Files
    BY TypeFacts DEF Known, O
  <2>2. \A g \in Known \cup O : g.name # None.name
    BY <2>1, NoneFacts
  <2>3. insert # None => insert.name # None.name
    BY NoneFacts, TypeFacts
  <2>4. \A f \in Known : f \notin O
    BY DEF NameInv, O
  <2>5. O \cap retired' = {} /\ O \cap scheduled = {} /\ retired' \cap scheduled = {}
    BY <1>1, <2>4 DEF NameInv, Known
  <2>6. insert # None => \A f \in Known \cup O \cup {None} : f.name # insert.name
    BY <2>3 DEF NameInv, O
  <2> QED
    BY <1>1, <1>2, <1>3, <2>2, <2>5, <2>6 DEF NameInv
<1>7. FileInv'
  <2>1. CatalogFilesOnDisk'
    BY <1>1, <1>3 DEF FileInv, CatalogFilesOnDisk
  <2> QED
    BY <1>2, <2>1 DEF FileInv
<1>8. CountInv'
  BY <1>1, <1>2, <1>3 DEF CountInv
<1>9. SeenInv'
  <2>1. ~collided' => Visible' = Visible /\ ~collided
    BY <1>1, <1>3, CountsAgree DEF O
  <2> QED
    BY <1>1, <2>1 DEF SeenInv, QuerySeesRows
<1> QED
  BY <1>4, <1>5, <1>6, <1>7, <1>8, <1>9
-------------------------------------------------------------------------------
(* DuckLake's own merge, and catalog entries whose file is missing. *)

\* Entries without a file go: a query loses only rows it could not read, and no
\* row that a merge under way has read.
LEMMA ForgetStep ==
    ASSUME CompactorInv, NEW S \in SUBSET (Active \ disk),
           active' = Without(active, S),
           deleted' = deleted \cap RowsIn(ToSet(active')),
           UNCHANGED <<disk, retired, scheduled, insert, mergeVars, obsVars>>,
           Merging' = Merging, cycle' = "swap" => cycle = "swap"
    PROVE  /\ active' \in Seq(Files) /\ deleted' \subseteq Rows
           /\ TypeOK' => CompactorInv'
<1> USE DEF CompactorInv
<1>1. active' \in Seq(Files) /\ Active' = Active \ S /\ RowsApart(active)'
  BY TypeFacts, WithoutFacts DEF Active, RowInv
<1>2. deleted' = deleted \cap RowsIn(Active)' /\ deleted' \subseteq Rows
  BY TypeFacts DEF Active
<1>3. UNCHANGED <<plan, outputs, writing, expectedRows, Planned, PlannedRows,
                  inserted, expected, addedSince, deletedSince, collided, exposed>>
  BY DEF mergeVars, obsVars, Planned, PlannedRows
<1>4. RowsIn(Active)' \subseteq RowsIn(Active)
  BY <1>1 DEF RowsIn
<1>5. RowInv'
  <2>1. deleted' \subseteq RowsIn(Active)'
    BY <1>2
  <2> QED
    BY <1>1, <1>3, <1>4, <2>1 DEF RowInv
<1>6. NameInv'
  <2>1. Known' \subseteq Known
    BY <1>1 DEF Known
  <2> QED
    BY <1>1, <1>3, <2>1 DEF NameInv
<1>7. FileInv'
  BY <1>1, <1>3 DEF FileInv, CatalogFilesOnDisk
<1>8. Visible' \subseteq Visible
  BY <1>2, <1>4 DEF Visible
<1>9. ASSUME NEW f \in Active, f \in disk, NEW r \in f.rows, r \in Visible PROVE r \in Visible'
  <2>1. f \in Active' /\ r \notin deleted
    BY <1>1, <1>9 DEF Visible
  <2>2. r \in RowsIn(Active)' /\ r \notin deleted'
    BY <1>2, <2>1 DEF RowsIn
  <2> QED
    BY <2>2 DEF Visible
<1>10. ASSUME NEW r \in Visible PROVE \E f \in Active : r \in f.rows
  BY DEF Visible, RowsIn
<1>11. CountInv'
  <2>1. ASSUME Merging, ~deletedSince
        PROVE  /\ deleted' = {} /\ RowsIn(ToSet(outputs)) \subseteq Visible'
               /\ \A g \in Planned : g.rows \subseteq Visible' \/ g \notin disk
    <3>1. /\ deleted = {} /\ RowsIn(ToSet(outputs)) \subseteq Visible
          /\ \A g \in Planned : g.rows \subseteq Visible \/ g \notin disk
      BY <2>1 DEF CountInv
    <3>2. ASSUME NEW r \in RowsIn(ToSet(outputs)) PROVE r \in Visible'
      <4>1. PICK f \in Active : r \in f.rows
        BY <1>10, <3>1
      <4>2. f \in disk
        BY <4>1 DEF FileInv
      <4> QED
        BY <1>9, <3>1, <4>1, <4>2
    <3>3. ASSUME NEW g \in Planned, g \in disk, NEW r \in g.rows PROVE r \in Visible'
      <4>1. r \in Visible
        BY <3>1, <3>3
      <4>2. PICK f \in Active : r \in f.rows
        BY <1>10, <4>1
      <4>3. f = g
        BY <3>3, <4>2 DEF FileInv
      <4> QED
        BY <1>9, <3>3, <4>1, <4>2, <4>3
    <3> QED
      BY <1>2, <3>1, <3>2, <3>3
  <2> QED
    BY <1>3, <1>8, <2>1 DEF CountInv
<1>12. SeenInv'
  <2>1. ASSUME NEW r \in Visible, r \notin exposed PROVE r \in Visible'
    <3>1. PICK f \in Active : r \in f.rows
      BY <1>10
    <3>2. f \in disk
      BY <2>1, <3>1 DEF FileInv, CatalogFilesOnDisk
    <3> QED
      BY <1>9, <3>1, <3>2
  <2> QED
    BY <1>3, <1>8, <2>1 DEF SeenInv, QuerySeesRows
<1> QED
  BY <1>1, <1>2, <1>5, <1>6, <1>7, <1>11, <1>12

LEMMA RecoverStep == CompactorInv /\ RecoverGhostFiles => CompactorInv'
<1> SUFFICES ASSUME CompactorInv, RecoverGhostFiles PROVE CompactorInv'
  OBVIOUS
<1> USE DEF CompactorInv
<1>1. /\ recovering' = FALSE /\ deleted' = deleted \cap RowsIn(ToSet(active'))
      /\ active' = active \/ active' = Without(active, Active \ disk)
      /\ UNCHANGED <<disk, retired, scheduled, young, insert, cycle, mergeVars, tiering, faults,
                     tierings, obsVars>>
  BY DEF RecoverGhostFiles, Ghosts
<1>2. Merging' = Merging
  BY <1>1 DEF Merging
<1>3. ASSUME active' \in Seq(Files), deleted' \subseteq Rows PROVE TypeOK'
  <2>1. {young, recovering, addedSince, deletedSince, collided}' \subseteq BOOLEAN
    BY <1>1 DEF TypeOK, obsVars
  <2>2. {deleted, inserted, expected, exposed}' \subseteq SUBSET Rows
    BY <1>1, <1>3, TypeFacts DEF obsVars
  <2>3. {insert, writing}' \subseteq Files \cup {None}
    BY <1>1, TypeFacts DEF mergeVars
  <2> QED
    BY <1>1, <1>2, <1>3, <2>1, <2>2, <2>3 DEF TypeOK, mergeVars
<1>4. CASE active' = active
  <2>1. deleted' = deleted
    BY <1>1, <1>4 DEF RowInv, Active
  <2>2. TypeOK'
    BY <1>3, <1>4, <2>1, TypeFacts
  <2>3. UNCHANGED <<disk, catalogVars, insert, mergeVars, obsVars>>
    BY <1>1, <1>4, <2>1 DEF catalogVars
  <2> QED
    BY <1>1, <1>2, <2>2, <2>3, QuietStep
<1>5. CASE active' = Without(active, Active \ disk)
  BY <1>1, <1>2, <1>3, <1>5, ForgetStep
<1> QED
  BY <1>1, <1>4, <1>5

LEMMA MergeAdjacentStep ==
    ASSUME CompactorInv, TypeOK', MergeAdjacentFiles, deleted = {}, ~Merging, ~Merging',
           UNCHANGED <<retired, deleted, insert, mergeVars, obsVars>>
    PROVE  CompactorInv'
<1> USE DEF CompactorInv
<1> DEFINE f == NewFile(RowsIn(Active))
<1>1. RowsIn(Active) \subseteq Rows
  BY TypeFacts DEF RowInv
<1>2. f \in Files /\ f.rows = RowsIn(Active) /\ \A g \in InUse : g.name # f.name
  BY <1>1, NewFileFacts DEF MergeAdjacentFiles
<1>3. active' = <<f>> /\ disk' = disk \cup ToSet(active') /\ scheduled' = scheduled \cup Active
  BY DEF MergeAdjacentFiles
<1> HIDE DEF f
<1>4. Active' = {f} /\ disk' = disk \cup {f} /\ RowsApart(active)'
  BY <1>3 DEF Active, ToSet, RowsApart
<1>5. RowsIn(Active)' = RowsIn(Active)
  BY <1>2, <1>4 DEF RowsIn
<1>6. plan = <<>> /\ outputs = <<>> /\ writing = None
  BY TypeFacts
<1>7. UNCHANGED <<plan, outputs, writing, expectedRows, Planned, PlannedRows,
                  inserted, expected, addedSince, deletedSince, collided, exposed>>
  BY DEF mergeVars, obsVars, Planned, PlannedRows
<1>8. RowInv'
  BY <1>4, <1>5, <1>7 DEF RowInv
<1>9. NameInv'
  <2>1. Known' = Known \cup {f}
    BY <1>3, <1>4 DEF Known
  <2>2. f \notin retired /\ f \notin scheduled /\ f \notin Active /\ f.name # insert.name
    BY <1>2 DEF InUse, Known
  <2>3. ToSet(outputs) = {} /\ Planned = {} /\ f.name # None.name
    BY <1>2, <1>6, NoneFacts, EmptyPlan DEF Planned
  <2>4. retired \cap scheduled' = {} /\ Active' \cap scheduled' = {} /\ Active' \cap retired = {}
    BY <1>3, <1>4, <2>2 DEF NameInv
  <2> QED
    BY <1>6, <1>7, <2>1, <2>2, <2>3, <2>4 DEF NameInv
<1>10. FileInv'
  <2>1. ToSet(outputs) = {} /\ Planned = {} /\ RowsIn({}) = {}
    BY <1>6, EmptyPlan DEF Planned
  <2>2. CatalogFilesOnDisk'
    BY <1>4, <1>7 DEF FileInv, CatalogFilesOnDisk
  <2> QED
    BY <1>7, <2>1, <2>2 DEF FileInv
<1>11. CountInv'
  <2>1. cycle' # "swap"
    BY DEF Merging
  <2> QED
    BY <1>6, <1>7, <2>1 DEF CountInv
<1>12. SeenInv'
  <2>1. Visible' = Visible
    BY <1>5 DEF Visible
  <2> QED
    BY <1>7, <2>1 DEF SeenInv, QuerySeesRows
<1> QED
  BY <1>8, <1>9, <1>10, <1>11, <1>12

LEMMA DuckdbMergeStep == CompactorInv /\ DuckdbMerge => CompactorInv'
<1> SUFFICES ASSUME CompactorInv, DuckdbMerge PROVE CompactorInv'
  OBVIOUS
<1> USE DEF CompactorInv
<1>1. /\ cycle = "plan" /\ cycle' = "expire" /\ ~Merging /\ ~Merging'
      /\ UNCHANGED <<retired, deleted, insert, mergeVars, tiering, recovering, faults, tierings, obsVars>>
  BY DEF DuckdbMerge, Merging
<1>2. ASSUME active' \in Seq(Files), disk' \subseteq Files, scheduled' \subseteq Files, young' \in BOOLEAN
      PROVE  TypeOK'
  <2>1. {young, recovering, addedSince, deletedSince, collided}' \subseteq BOOLEAN
    BY <1>1, <1>2 DEF TypeOK, obsVars
  <2>2. {deleted, inserted, expected, exposed}' \subseteq SUBSET Rows
    BY <1>1, TypeFacts DEF obsVars
  <2>3. {insert, writing}' \subseteq Files \cup {None}
    BY <1>1, TypeFacts DEF mergeVars
  <2> QED
    BY <1>1, <1>2, <2>1, <2>2, <2>3 DEF TypeOK, mergeVars, CyclePlaces
<1>3. CASE UNCHANGED <<disk, active, scheduled, young>>
  <2>1. young \in BOOLEAN
    BY DEF TypeOK
  <2>2. TypeOK'
    BY <1>2, <1>3, <2>1, TypeFacts
  <2>3. UNCHANGED <<disk, catalogVars, insert, mergeVars, obsVars>>
    BY <1>1, <1>3 DEF catalogVars
  <2>4. Merging' = Merging
    BY <1>1 DEF Merging
  <2> QED
    BY <1>1, <2>2, <2>3, <2>4, QuietStep
<1>4. CASE deleted = {} /\ MergeAdjacentFiles
  <2> DEFINE f == NewFile(RowsIn(Active))
  <2>1. f \in Files
    <3>1. RowsIn(Active) \subseteq Rows
      BY TypeFacts DEF RowInv
    <3> QED
      BY <1>4, <3>1, NewFileFacts DEF MergeAdjacentFiles
  <2>2. active' = <<f>> /\ disk' = disk \cup ToSet(<<f>>) /\ young' = TRUE
        /\ scheduled' = scheduled \cup Active
    BY <1>4 DEF MergeAdjacentFiles
  <2> HIDE DEF f
  <2>3. <<f>> \in Seq(Files) /\ ToSet(<<f>>) = {f}
    BY <2>1 DEF ToSet
  <2>4. TypeOK'
    BY <1>2, <2>1, <2>2, <2>3, TypeFacts
  <2> QED
    BY <1>1, <1>4, <2>4, MergeAdjacentStep
<1>5. CASE deleted = {} /\ \E f \in Active \ disk : ClearBrokenParquet(f)
  <2>1. PICK f \in Active \ disk : ClearBrokenParquet(f)
    BY <1>5
  <2>2. active' = Without(active, {f}) /\ UNCHANGED <<disk, scheduled, young>>
    BY <2>1 DEF ClearBrokenParquet
  <2>3. deleted' = deleted \cap RowsIn(ToSet(active'))
    BY <1>1, <1>5
  <2>4. {f} \in SUBSET (Active \ disk) /\ Merging' = Merging /\ (cycle' = "swap" => cycle = "swap")
    BY <1>1 DEF Merging
  <2>5. UNCHANGED <<disk, retired, scheduled, insert, mergeVars, obsVars>>
    BY <1>1, <2>2
  <2>6. active' \in Seq(Files) /\ (TypeOK' => CompactorInv')
    BY <2>2, <2>3, <2>4, <2>5, ForgetStep
  <2>7. young \in BOOLEAN
    BY DEF TypeOK
  <2>8. TypeOK'
    BY <1>2, <2>2, <2>6, <2>7, TypeFacts
  <2> QED
    BY <2>6, <2>8
<1>6. \/ UNCHANGED <<disk, active, scheduled, young>>
      \/ deleted = {} /\ MergeAdjacentFiles
      \/ deleted = {} /\ \E f \in Active \ disk : ClearBrokenParquet(f)
  BY DEF DuckdbMerge
<1> QED
  BY <1>3, <1>4, <1>5, <1>6
-------------------------------------------------------------------------------
(* The inductive invariant, and what follows from it. *)

LEMMA CompactorInit == Init => CompactorInv
<1> SUFFICES ASSUME Init PROVE CompactorInv
  OBVIOUS
<1>1. TypeOK
  BY CompactorTypeInit
<1>2. /\ Active = {} /\ ToSet(outputs) = {} /\ Planned = {} /\ PlannedRows = {} /\ Known = {}
      /\ RowsIn({}) = {} /\ Visible = {} /\ ~Merging
  BY EmptyPlan DEF Init, Active, Planned, PlannedRows, Known, Visible, Merging
<1>3. RowInv
  <2>1. {} = 1 .. Cardinality({})
    BY FS_EmptySet
  <2>2. insert.rows = {} /\ active = <<>> /\ outputs = <<>> /\ plan = <<>>
    BY NoneFacts DEF Init
  <2> QED
    BY <1>2, <2>1, <2>2, EmptyPlan DEF Init, RowInv
<1>4. NameInv /\ FileInv /\ CountInv /\ SeenInv
  BY <1>2 DEF Init, NameInv, FileInv, CatalogFilesOnDisk, CountInv, SeenInv, QuerySeesRows, Merging
<1> QED
  BY <1>1, <1>3, <1>4 DEF CompactorInv

LEMMA CompactorInductive == CompactorInv /\ [Next]_vars => CompactorInv'
<1> SUFFICES ASSUME CompactorInv, [Next]_vars PROVE CompactorInv'
  OBVIOUS
<1>1. CASE Flush \/ InsertWrites \/ InsertCommits
  BY <1>1, FlushStep, InsertWritesStep, InsertCommitsStep
<1>2. CASE Settle \/ TierDelete \/ StartTierMaintenance \/ TierMaintenance
  BY <1>2, SettleStep, DeleteStep, MaintenanceStep
<1>3. CASE Cycle
  BY <1>3, SettleStep, DeleteStep, MaintenanceStep, PlanStep, CreateOutputStep, FinishOutputStep,
     AbortStep, SwapStep, DuckdbMergeStep
     DEF Cycle, Merge
<1>4. CASE Crash \/ RecoverGhostFiles
  BY <1>4, AbortStep, RecoverStep
<1>5. CASE UNCHANGED vars
  <2>1. TypeOK'
    BY <1>5 DEF vars, catalogVars, mergeVars, obsVars, CompactorInv, TypeOK, Merging
  <2>2. UNCHANGED <<disk, catalogVars, insert, mergeVars, obsVars, cycle>>
    BY <1>5 DEF vars
  <2>3. Merging' = Merging
    BY <2>2 DEF Merging
  <2> QED
    BY <2>1, <2>2, <2>3, QuietStep
<1> QED
  BY <1>1, <1>2, <1>3, <1>4, <1>5 DEF Next

LEMMA CompactorInvariant == Spec => []CompactorInv
BY CompactorInit, CompactorInductive, PTL DEF Spec

\* Every variable of the partition has its type, and outside of a merge nothing
\* of one is left.
THEOREM PartitionTypeCorrect == Spec => []TypeOK
<1>1. CompactorInv => TypeOK
  BY DEF CompactorInv
<1> QED
  BY <1>1, CompactorInvariant, PTL

\* No row is in two live files, however merges, crashes and unlocked inserts are
\* interleaved (planBatches, swapPartition).
THEOREM EveryRowOnce == Spec => []RowsOnce
<1>1. CompactorInv => RowsOnce
  BY DEF CompactorInv, RowInv, RowsApart, RowsOnce
<1> QED
  BY <1>1, CompactorInvariant, PTL

\* The clean-up of one actor never takes a file that a live or an older snapshot
\* still names, files of unlocked inserts excepted (removeOutputs,
\* ducklake_cleanup_old_files, ducklake_delete_orphaned_files).
THEOREM NamedFilesStay == Spec => []CatalogFilesOnDisk
<1>1. CompactorInv => CatalogFilesOnDisk
  BY DEF CompactorInv, FileInv
<1> QED
  BY <1>1, CompactorInvariant, PTL

\* A query sees what was written and not deleted, as long as no swap met its row
\* count by a deletion and an addition that cancel out (swapPartition).
THEOREM QueriesSeeTheRows == Spec => []QuerySeesRows
<1>1. CompactorInv => QuerySeesRows
  BY DEF CompactorInv, SeenInv
<1> QED
  BY <1>1, CompactorInvariant, PTL
=============================================================================
