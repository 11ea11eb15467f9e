-------------------------- MODULE QueryPartsProofs --------------------------
(***************************************************************************)
(* Proofs about a search and about what is told of a call, for every value *)
(* of the constants.  QueriesProofs takes them over for the composition.   *)
(*                                                                         *)
(* Search: SeInv is SeRanges, which rows the cached ranges and those of a  *)
(* running health check speak of, and SeReqOk for the request, whose parts *)
(* say of each point where it can be                                       *)
(*                                                                         *)
(*   SeReqT, SeShape  its type, and which fields go together;              *)
(*   SeAll            what the tables that are done have given: rows that  *)
(*                    are asked for, each once, and for every row that was *)
(*                    held all the while and is not there an excuse (its   *)
(*                    node was not asked, or failed, or the limit was      *)
(*                    reached without it);                                 *)
(*   SeFound          the same of what the present table has given, before *)
(*                    the second query of a lazy search and after it;      *)
(*   SeSlice          the same of a chunked search: above its slice,       *)
(*                    nothing is left out, and SeChain: the slices that    *)
(*                    wait go down to the start of the window without gap; *)
(*   SeWindow         which of them holds at the present query;            *)
(*   SeFan            the same of the answers to it so far, of the nodes   *)
(*                    that have been asked;                                *)
(*   SeAnswered       what the whole answer is then, and its order.        *)
(*                                                                         *)
(* SeExcused is what the parts share: it survives that rows are dropped,   *)
(* that more calls fail and that more rows are found.                      *)
(*                                                                         *)
(* CallInfo: CiInv, with CiTimely for the times of a leg whatever the      *)
(* order of its rows, CiCallInv for the call itself, and CiMedia, CiTimes  *)
(* and CiState, which relate the leg to the call where rows come in order. *)
(***************************************************************************)
EXTENDS Search, CallInfo, Integers, FiniteSetTheorems, SequenceTheorems, WellFoundedInduction, TLAPS

-----------------------------------------------------------------------------
(* Two elements, and the least of some numbers. *)

LEMMA CardTwo ==
    ASSUME NEW a, NEW b, a # b
    PROVE  Cardinality({a} \cup {b}) = 2
<1>1. IsFiniteSet({a}) /\ Cardinality({a}) = 1
  BY FS_Singleton
<1>2. Cardinality({a} \cup {b}) = Cardinality({a}) + 1
  BY <1>1, FS_AddElement
<1>3. QED
  BY <1>1, <1>2

LEMMA LeastOf ==
    ASSUME NEW S, S \subseteq Nat, S # {}
    PROVE  \E m \in S : \A n \in S : m <= n
<1> PICK k \in S : TRUE
  OBVIOUS
<1> DEFINE T == {0..n : n \in {n \in S : n <= k}}
<1>1. IsFiniteSet(0..k)
  BY FS_Interval
<1>2. IsWellFoundedOn(StrictSubsetOrdering(0..k), FiniteSubsetsOf(0..k))
  BY <1>1, FS_StrictSubsetOrderingWellFounded
<1>3. T \subseteq FiniteSubsetsOf(0..k)
  <2>1. ASSUME NEW n \in S, n <= k PROVE (0..n) \in SUBSET (0..k) /\ IsFiniteSet(0..n)
    BY <2>1, FS_Interval, FS_Subset, <1>1
  <2>2. QED
    BY <2>1 DEF FiniteSubsetsOf
<1>4. T # {}
  OBVIOUS
<1>5. PICK x \in T : \A y \in T : ~(<<y, x>> \in StrictSubsetOrdering(0..k))
  <2> HIDE DEF T
  <2> QED BY <1>2, <1>3, <1>4, WFMin
<1>6. PICK m \in S : m <= k /\ x = 0..m
  OBVIOUS
<1>7. ASSUME NEW n \in S, n < m PROVE FALSE
  <2>1. 0..n \in T /\ 0..n # 0..m /\ 0..n \subseteq 0..m /\ 0..m \subseteq 0..k
    BY <1>6, <1>7
  <2>2. <<0..n, x>> \in StrictSubsetOrdering(0..k)
    BY <2>1, <1>6, <1>3 DEF StrictSubsetOrdering, FiniteSubsetsOf
  <2>3. QED
    BY <2>1, <2>2, <1>5
<1>8. QED
  BY <1>7, <1>6

-----------------------------------------------------------------------------
SeNatPairs == Nat \X Nat
SeFors == {"rows", "full", "base", "again", "expand", "last"}

SeReqT ==
    [at : {"route", "fan", "done", "error"},
     kind : {"search", "messages", "message", "detail", "qos"},
     asked : SeNatPairs, strategy : {"full", "stream", "chunked"}, lazy : BOOLEAN,
     want : SUBSET SeTableNames, tables : Seq(SeTableNames), table : SeTableNames,
     chunks : Seq([win : SeNatPairs, incl : BOOLEAN]), win : SeNatPairs, incl : BOOLEAN,
     for : SeFors, ids : SUBSET {"own", "leg"}, wanted : SeRowSet \cup {0},
     left : SUBSET SeNodes, ok : BOOLEAN, err : BOOLEAN, rows : Seq(SeRowSet),
     got : Seq(SeRowSet), all : Seq(SeRowSet), full : SUBSET SeRowSet, served : Nat,
     failed : BOOLEAN]

\* Every row once; oldest first, newest first, newest first of each node.
SeOnce(s) == \A i, j \in DOMAIN s : s[i] = s[j] => i = j
SeAsc(s) == \A i, j \in DOMAIN s : i < j => s[i].t <= s[j].t
SeDesc(s) == \A i, j \in DOMAIN s : i < j => s[i].t >= s[j].t
SeDescEach(s) == \A i, j \in DOMAIN s : i < j /\ s[i].node = s[j].node => s[i].t >= s[j].t

\* What the request asks for, of any table and of the present one, and what the
\* present query selects.
SeAsk(q, r) ==
    /\ r.table \in q.want
    /\ r.sid \in q.ids
    /\ q.kind = "message" => r = q.wanted
    /\ q.asked = <<0, 0>> \/ (q.asked[1] <= r.t /\ r.t <= q.asked[2])
SeOf(q, r) == SeAsk(q, r) /\ r.table = q.table
SeIn(q, r) ==
    q.win = <<0, 0>> \/ (q.win[1] <= r.t /\ (r.t < q.win[2] \/ (r.t = q.win[2] /\ q.incl)))
SeSel(q, r) ==
    /\ r.table = q.table
    /\ r.sid \in q.ids
    /\ SeIn(q, r)
    /\ q.for = "full" => r \in Elems(q.got)
    /\ q.kind = "message" => r = q.wanted

\* Nothing older than r of its node and table is in s.
SeNoOlder(s, r) == \A x \in Elems(s) : x.node = r.node /\ x.table = r.table => x.t >= r.t

\* Why r is not in s.
SeLimited(q, s, r) ==
    /\ q.kind = "search" /\ Len(s) >= SeLimit
    /\ q.strategy = "stream" \/ SeNoOlder(s, r)
SeExcused(q, s, r, M) == <<r.node, r.table>> \in M \/ SeLimited(q, s, r)

\* The tables that are done.
SeRest(q) == Elems(q.tables) \cup (IF q.for = "expand" THEN {} ELSE {q.table})
SeAllSound(q, rest) ==
    /\ SeOnce(q.all)
    /\ \A r \in Elems(q.all) : SeAsk(q, r) /\ r.table \notin rest
SeAllComplete(q, rest, H, M) ==
    \A r \in H : SeAsk(q, r) /\ r.table \notin rest /\ r \notin Elems(q.all)
        => SeExcused(q, q.all, r, M)
SeBareOk(q, s, H, B) ==
    q.lazy => \A r \in Elems(s) : r \in H => r \in q.full \/ r.node \in B
SeAll(q, rest, H, M, B) ==
    /\ SeAllSound(q, rest)
    /\ SeAllComplete(q, rest, H, M)
    /\ SeBareOk(q, q.all, H, B)

\* What is found of the present table.
SeOrdered(q, s) ==
    /\ q.kind = "messages" => SeAsc(s)
    /\ q.strategy = "stream" => SeDesc(s)
    /\ q.strategy = "chunked" => SeDescEach(s)
SeFound(q, s, H, M) ==
    /\ SeOnce(s)
    /\ \A r \in Elems(s) : SeOf(q, r)
    /\ \A r \in H : SeOf(q, r) /\ r \notin Elems(s) => SeExcused(q, s, r, M)
    /\ SeOrdered(q, s)

\* The request while it runs.
SeShape(q) ==
    /\ q.for \in {"rows", "full"} <=> q.kind = "search"
    /\ q.for \in {"base", "again"} <=> q.kind = "messages"
    /\ q.lazy => q.kind = "search"
    /\ q.strategy # "full" => q.kind = "search"
    /\ q.for = "full" => q.lazy
    /\ SeOnce(q.tables) /\ Elems(q.tables) \subseteq q.want
    /\ IF q.for = "expand" THEN q.tables # <<>> /\ q.all = <<>> /\ q.want = Elems(q.tables)
       ELSE q.table \in q.want /\ q.table \notin Elems(q.tables)

\* A slice: the ones above it are done, those below it wait.
SeChain(q) ==
    LET low(i) == IF i = 0 THEN q.win[1] ELSE q.chunks[i].win[1]
    IN  /\ low(Len(q.chunks)) = q.asked[1]
        /\ \A i \in 1 .. Len(q.chunks) :
              /\ q.chunks[i].win[2] = low(i - 1)
              /\ q.chunks[i].win[1] < q.chunks[i].win[2]
              /\ q.asked[1] <= q.chunks[i].win[1]
              /\ ~q.chunks[i].incl
SeAbove(q, r) == q.win # <<0, 0>> /\ (r.t > q.win[2] \/ (r.t = q.win[2] /\ ~q.incl))
SeSlice(q, H, M) ==
    /\ SeChain(q)
    /\ q.asked = <<0, 0>> => q.win = <<0, 0>>
    /\ q.win = <<0, 0>> => q.asked = <<0, 0>>
    /\ q.chunks # <<>> \/ ~q.incl => q.win[1] <= q.win[2] /\ q.win # <<0, 0>>
    /\ q.win[2] <= q.asked[2] /\ q.win[1] >= q.asked[1]
    /\ q.incl => q.got = <<>> /\ q.win[2] = q.asked[2]
    /\ SeOnce(q.got) /\ SeDescEach(q.got) /\ Len(q.got) < SeLimit
    /\ \A r \in Elems(q.got) : SeOf(q, r) /\ r.t >= q.win[2]
    /\ \A r \in H : SeOf(q, r) /\ SeAbove(q, r) /\ r \notin Elems(q.got)
          => <<r.node, r.table>> \in M

SeWindow(q, H, M) ==
    /\ q.for = "rows" /\ q.strategy = "chunked" => SeSlice(q, H, M)
    /\ q.for # "full" /\ ~(q.for = "rows" /\ q.strategy = "chunked") => q.win = q.asked /\ q.incl
    /\ q.for = "full" =>
          /\ SeFound(q, q.got, H, M) /\ q.incl
          /\ \A r \in Elems(q.got) : q.win[1] <= r.t /\ r.t <= q.win[2]
    /\ q.for = "again" =>
          /\ ~Several(q) /\ SeOnce(q.got) /\ SeAsc(q.got)
          /\ \A r \in Elems(q.got) : SeOf(q, r)

SeQuery(q, H, M, B) ==
    SeShape(q) /\ SeWindow(q, H, M) /\ SeAll(q, SeRest(q), H, M, B)

\* The answers so far.
SePart(q, s, r) ==
    /\ q.for = "rows" /\ Len(s) >= SeLimit
    /\ q.strategy = "stream" \/ \A x \in Elems(s) : x.node = r.node => x.t >= r.t
SeFan(q, H, M, B) ==
    /\ SeOnce(q.rows)
    /\ \A r \in Elems(q.rows) : SeSel(q, r) /\ r.node \notin q.left
    /\ ~q.ok => q.rows = <<>>
    /\ ~q.ok /\ q.for # "full" => \A n \in SeNodes \ q.left : <<n, q.table>> \in M
    /\ \A r \in H : SeSel(q, r) /\ r.node \notin q.left /\ r \notin Elems(q.rows) =>
          IF q.for = "full" THEN r.node \in B
          ELSE <<r.node, r.table>> \in M \/ SePart(q, q.rows, r)
    /\ q.for = "rows" /\ q.strategy # "stream" => SeDescEach(q.rows)

SeAnswered(q, H, M, B) ==
    /\ SeOnce(q.all)
    /\ \A r \in Elems(q.all) : SeAsk(q, r)
    /\ \A r \in H : SeAsk(q, r) /\ r \notin Elems(q.all) => SeExcused(q, q.all, r, M)
    /\ q.kind = "messages" => SeAsc(q.all)
    /\ q.kind = "search" /\ (Several(q) \/ q.strategy = "stream") => SeDesc(q.all)
    /\ q.kind = "search" /\ q.strategy = "chunked" => SeDescEach(q.all)
    /\ SeBareOk(q, q.all, H, B)

SeReqOk(q, H, M, B) ==
    /\ q \in SeReqT
    /\ q.at \in {"route", "fan"} => SeQuery(q, H, M, B)
    /\ q.at = "fan" => SeFan(q, H, M, B)
    /\ q.at = "done" => SeAnswered(q, H, M, B)

\* The ranges in the cache and those the health check has read.
SeCovers(rg, t) == rg = Unknown \/ (rg[1] <= t /\ t <= rg[2])
SeRanges ==
    /\ seRows \subseteq SeRowSet /\ seLake \subseteq seRows
    /\ seUnseen \subseteq seRows /\ seHeld \subseteq seRows
    /\ seConnected \subseteq SeNodes
    /\ seRange \in [SeNodes -> SeNatPairs]
    /\ DOMAIN seProbe \subseteq SeNodes
    /\ \A n \in DOMAIN seProbe :
          /\ seProbe[n].range \in SeNatPairs
          /\ \A r \in seProbe[n].counted : SeCovers(seProbe[n].range, r.t)
    /\ \A r \in seRows \ seUnseen : SeCovers(seRange[r.node], r.t)
    /\ seWronged = {}

SeInv == SeRanges /\ (se = SeIdle \/ SeReqOk(se, seHeld, seMissed, seBare))

\* t is s sorted by time.
SeSorted(s, order, t) ==
    /\ t \in Seq(SeRowSet) /\ Len(t) = Len(s) /\ Elems(t) = Elems(s)
    /\ SeOnce(s) => SeOnce(t)
    /\ order = "DESC" => SeDesc(t)
    /\ order = "ASC" => SeAsc(t)

LEMMA SeElems ==
    ASSUME NEW s \in Seq(SeRowSet)
    PROVE  /\ Len(s) \in Nat /\ DOMAIN s = 1 .. Len(s)
           /\ Elems(s) = {s[i] : i \in 1 .. Len(s)} /\ Elems(s) \subseteq SeRowSet
           /\ s # <<>> <=> Len(s) > 0
<1>1. Len(s) \in Nat /\ DOMAIN s = 1 .. Len(s) /\ s \in [1 .. Len(s) -> SeRowSet]
  BY LenProperties
<1>2. Elems(s) = {s[i] : i \in 1 .. Len(s)} /\ Elems(s) \subseteq SeRowSet
  BY <1>1 DEF Elems
<1>3. s # <<>> <=> Len(s) > 0
  BY <1>1, EmptySeq
<1>4. QED
  BY <1>1, <1>2, <1>3

LEMMA SeRowT == \A r \in SeRowSet : r.t \in Nat /\ r.node \in SeNodes /\ r.table \in SeTableNames
BY SearchAssumption

LEMMA SeByTime ==
    ASSUME NEW s \in Seq(SeRowSet), NEW order \in {"DESC", "ASC"}
    PROVE  SeSorted(s, order, ByTime(s, order))
<1> DEFINE D == 1 .. Len(s)
           A(i) == {j \in D : Ahead(s, order, j, i)}
           place == [i \in D |-> Cardinality(A(i)) + 1]
           p == [k \in D |-> CHOOSE i \in D : place[i] = k]
<1>1. Len(s) \in Nat /\ DOMAIN s = D /\ \A i \in D : s[i] \in SeRowSet
  BY LenProperties, ElementOfSeq
<1>2. IsFiniteSet(D) /\ Cardinality(D) = Len(s)
  <2> HIDE DEF D
  <2>1. Len(s) \in Int /\ 1 \in Int /\ Len(s) >= 0
    BY <1>1
  <2>2. IsFiniteSet(1 .. Len(s)) /\ Cardinality(1 .. Len(s)) = IF 1 > Len(s) THEN 0 ELSE Len(s) - 1 + 1
    BY <2>1, FS_Interval
  <2>3. Cardinality(1 .. Len(s)) = Len(s)
    BY <2>1, <2>2
  <2>4. QED
    BY <2>2, <2>3 DEF D
<1>3. \A i \in D : s[i].t \in Nat
  BY <1>1, SeRowT
<1>4. ASSUME NEW i \in D, NEW j \in D, Ahead(s, order, i, j)
      PROVE  Cardinality(A(i)) < Cardinality(A(j))
  <2>1. A(i) \subseteq A(j)
    <3>1. ASSUME NEW k \in D, Ahead(s, order, k, i) PROVE Ahead(s, order, k, j)
      BY <3>1, <1>4, <1>3 DEF Ahead
    <3>2. QED
      BY <3>1
  <2>2. i \in A(j) /\ i \notin A(i)
    BY <1>4, <1>3 DEF Ahead
  <2>3. IsFiniteSet(A(j)) /\ IsFiniteSet(A(i))
    BY <1>2, FS_Subset
  <2>4. Cardinality(A(i)) <= Cardinality(A(j)) /\ Cardinality(A(i)) # Cardinality(A(j))
    BY <2>1, <2>2, <2>3, FS_Subset
  <2>5. Cardinality(A(i)) \in Nat /\ Cardinality(A(j)) \in Nat
    BY <2>3, FS_CardinalityType
  <2>6. QED
    BY <2>4, <2>5
<1>5. ASSUME NEW i \in D PROVE Cardinality(A(i)) \in Nat /\ Cardinality(A(i)) < Len(s)
  <2>1. A(i) \subseteq D \ {i}
    BY <1>3 DEF Ahead
  <2>2. IsFiniteSet(D \ {i}) /\ Cardinality(D \ {i}) = Len(s) - 1
    BY ZenonT(60), <1>2, FS_RemoveElement
  <2>3. IsFiniteSet(A(i)) /\ Cardinality(A(i)) <= Len(s) - 1
    BY <2>1, <2>2, FS_Subset
  <2>4. Cardinality(A(i)) \in Nat
    BY <2>3, FS_CardinalityType
  <2>5. QED
    BY <2>3, <2>4, <1>1
<1>6. \A i \in D : place[i] = Cardinality(A(i)) + 1 /\ place[i] \in D
  BY <1>5, <1>1
<1>7. ASSUME NEW i \in D, NEW j \in D, i # j PROVE Ahead(s, order, i, j) \/ Ahead(s, order, j, i)
  BY <1>7, <1>3, <1>1 DEF Ahead
<1>8. ASSUME NEW i \in D, NEW j \in D, Ahead(s, order, i, j) PROVE place[i] < place[j]
  <2> HIDE DEF A
  <2> QED BY <1>8, <1>4, <1>5, <1>6
<1>9. \A i, j \in D : place[i] = place[j] => i = j
  <2> HIDE DEF place
  <2>1. \A i \in D : place[i] \in Nat
    <3>1. \A i \in D : place[i] \in D
      BY <1>6
    <3>2. QED
      BY <3>1
  <2>2. QED
    BY <1>7, <1>8, <2>1
<1>10. place \in Injection(D, D)
  <2>1. place \in [D -> D]
    BY <1>6
  <2> HIDE DEF place
  <2>2. QED
    BY <2>1, <1>9 DEF Injection, IsInjective
<1>11. place \in Surjection(D, D)
  <2> HIDE DEF place
  <2> QED BY <1>10, <1>2, FS_Injection
<1>12. \A k \in D : p[k] \in D /\ place[p[k]] = k
  <2> HIDE DEF place
  <2>1. ASSUME NEW k \in D PROVE \E i \in D : place[i] = k
    BY <1>11 DEF Surjection
  <2>2. QED
    BY <2>1
<1>13. ByTime(s, order) = [k \in D |-> s[p[k]]]
  <2>1. place = [i \in DOMAIN s |-> Cardinality({j \in DOMAIN s : Ahead(s, order, j, i)}) + 1]
    BY <1>1
  <2>2. QED
    BY <2>1, <1>1 DEF ByTime
<1> HIDE DEF p, place, A
<1> DEFINE t == ByTime(s, order)
<1>14. t \in [D -> SeRowSet] /\ t \in Seq(SeRowSet) /\ \A k \in D : t[k] = s[p[k]]
  <2>1. t \in [D -> SeRowSet]
    BY <1>13, <1>12, <1>1
  <2>2. QED
    BY <2>1, <1>13, <1>1, SeqDef
<1>15. Len(t) = Len(s) /\ DOMAIN t = D
  BY <1>14, <1>1, LenProperties
<1> HIDE DEF t
<1>16. Elems(t) = Elems(s)
  <2>1. \A k \in D : t[k] \in Elems(s)
    BY <1>14, <1>12, <1>1 DEF Elems
  <2>2. \A i \in D : s[i] = t[place[i]]
    BY SMTT(30), <1>14, <1>12, <1>9, <1>6
  <2>3. \A i \in D : s[i] \in Elems(t)
    BY <2>2, <1>6, <1>15 DEF Elems
  <2>4. QED
    BY <2>1, <2>3, <1>1, <1>15 DEF Elems
<1>17. SeOnce(s) => SeOnce(t)
  <2>1. ASSUME SeOnce(s), NEW i \in D, NEW j \in D, t[i] = t[j] PROVE i = j
    <3>1. p[i] = p[j]
      BY <2>1, <1>14, <1>12, <1>1 DEF SeOnce
    <3>2. QED
      BY <3>1, <1>12
  <2>2. QED
    BY <2>1, <1>15 DEF SeOnce
<1>18. ASSUME NEW i \in D, NEW j \in D, i < j PROVE Ahead(s, order, p[i], p[j])
  <2>1. p[i] # p[j]
    BY <1>18, <1>12
  <2>2. ~Ahead(s, order, p[j], p[i])
    BY <1>8, <1>12, <1>18, <1>1
  <2>3. QED
    BY <2>1, <2>2, <1>7, <1>12
<1>19. order = "DESC" => SeDesc(t)
  <2>1. ASSUME order = "DESC", NEW i \in D, NEW j \in D, i < j PROVE t[i].t >= t[j].t
    <3>1. s[p[i]].t > s[p[j]].t \/ s[p[i]].t = s[p[j]].t
      BY <2>1, <1>18 DEF Ahead
    <3>2. QED
      BY SMTT(30), <3>1, <1>14, <1>12, <1>3
  <2>2. QED
    BY <2>1, <1>15 DEF SeDesc
<1>20. order = "ASC" => SeAsc(t)
  <2>1. ASSUME order = "ASC", NEW i \in D, NEW j \in D, i < j PROVE t[i].t <= t[j].t
    <3>1. s[p[i]].t < s[p[j]].t \/ s[p[i]].t = s[p[j]].t
      BY <2>1, <1>18 DEF Ahead
    <3>2. QED
      BY SMTT(30), <3>1, <1>14, <1>12, <1>3
  <2>2. QED
    BY <2>1, <1>15 DEF SeAsc
<1>21. SeSorted(s, order, t)
  BY <1>14, <1>15, <1>16, <1>17, <1>19, <1>20 DEF SeSorted
<1>22. QED
  BY <1>21 DEF t

\* t lists S.
SeLists(S, order, t) ==
    /\ t \in Seq(SeRowSet) /\ SeOnce(t) /\ Elems(t) = S /\ Len(t) = Cardinality(S)
    /\ order = "DESC" => SeDesc(t)
    /\ order = "ASC" => SeAsc(t)

LEMMA SeListed ==
    ASSUME NEW S, S \subseteq SeRowSet, NEW order \in {"DESC", "ASC"}
    PROVE  SeLists(S, order, ByTime(SetToSeq(S), order))
<1> DEFINE n == Cardinality(S)
           s == SetToSeq(S)
<1>1. IsFiniteSet(S) /\ n \in Nat
  BY SearchAssumption, FS_Subset, FS_CardinalityType
<1>2. PICK f \in Bijection(1 .. Cardinality(S), S) : TRUE
  BY <1>1, FS_CardinalityType DEF ExistsBijection
<1>3. f \in [1 .. n -> S] /\ \A i, j \in 1 .. n : f[i] = f[j] => i = j
  BY <1>2 DEF Bijection, Injection, IsInjective
<1>4. IsInjective(f)
  BY <1>3 DEF IsInjective
<1>5. s \in [1 .. n -> S] /\ IsInjective(s)
  BY <1>3, <1>4 DEF SetToSeq
<1>6. s \in Injection(1 .. n, S)
  BY <1>5 DEF Injection, IsInjective
<1>7. s \in Surjection(1 .. n, S)
  <2>1. IsFiniteSet(1 .. n) /\ Cardinality(1 .. n) = n
    <3> HIDE DEF n
    <3>1. n \in Int /\ 1 \in Int /\ n >= 0
      BY <1>1
    <3>2. IsFiniteSet(1 .. n) /\ Cardinality(1 .. n) = IF 1 > n THEN 0 ELSE n - 1 + 1
      BY <3>1, FS_Interval
    <3>3. QED
      BY <3>1, <3>2
  <2>2. QED
    BY <1>6, <2>1, <1>1, FS_Injection
<1> HIDE DEF s
<1>8. s \in Seq(SeRowSet) /\ Len(s) = n /\ DOMAIN s = 1 .. n
  <2>1. s \in [1 .. n -> SeRowSet]
    BY <1>5
  <2>2. s \in Seq(SeRowSet)
    BY <2>1, <1>1, SeqDef
  <2>3. DOMAIN s = 1 .. n /\ DOMAIN s = 1 .. Len(s) /\ Len(s) \in Nat
    BY <2>1, <2>2, LenProperties
  <2>4. QED
    BY <2>2, <2>3, <1>1
<1>9. SeOnce(s)
  BY <1>6, <1>8 DEF SeOnce, Injection, IsInjective
<1>10. Elems(s) = S
  <2>1. \A x \in S : \E i \in 1 .. n : s[i] = x
    BY <1>7 DEF Surjection
  <2>2. QED
    BY <2>1, <1>5, <1>8 DEF Elems
<1>11. SeSorted(s, order, ByTime(s, order))
  BY <1>8, SeByTime
<1>12. QED
  BY <1>8, <1>9, <1>10, <1>11 DEF SeSorted, SeLists, s

LEMMA SeNewest ==
    ASSUME NEW S, S \subseteq SeRowSet
    PROVE  SeLists(S, "DESC", Newest(S)) /\ SeLists(S, "ASC", Oldest(S))
BY SeListed DEF Newest, Oldest

\* c is the first n elements of s.
SeFirst(s, n, c) ==
    /\ c \in Seq(SeRowSet) /\ Elems(c) \subseteq Elems(s)
    /\ Len(c) = IF Len(s) > n THEN n ELSE Len(s)
    /\ Len(s) <= n => c = s
    /\ SeOnce(s) => SeOnce(c)
    /\ SeAsc(s) => SeAsc(c)
    /\ SeDesc(s) => SeDesc(c)
    /\ SeDescEach(s) => SeDescEach(c)
    /\ \A r \in Elems(s) : r \notin Elems(c) =>
          /\ Len(c) = n
          /\ SeDesc(s) => \A x \in Elems(c) : x.t >= r.t
          /\ SeDescEach(s) => \A x \in Elems(c) : x.node = r.node => x.t >= r.t

LEMMA SeCut ==
    ASSUME NEW s \in Seq(SeRowSet), NEW n \in Nat
    PROVE  SeFirst(s, n, Cut(s, n))
<1> DEFINE c == Cut(s, n)
           m == IF Len(s) > n THEN n ELSE Len(s)
<1>1. Len(s) \in Nat /\ DOMAIN s = 1 .. Len(s) /\ \A i \in 1 .. Len(s) : s[i] \in SeRowSet
  BY LenProperties, ElementOfSeq
<1>2. m \in Nat /\ m <= Len(s)
  BY <1>1
<1>3. c \in Seq(SeRowSet) /\ Len(c) = m /\ \A i \in 1 .. m : c[i] = s[i]
  <2>1. CASE Len(s) > n
    <3>1. \A i \in 1 .. n : s[i] \in SeRowSet
      BY <2>1, <1>1
    <3>2. /\ SubSeq(s, 1, n) \in Seq(SeRowSet)
          /\ Len(SubSeq(s, 1, n)) = IF 1 <= n THEN n - 1 + 1 ELSE 0
          /\ \A i \in 1 .. n - 1 + 1 : SubSeq(s, 1, n)[i] = s[1 + i - 1]
      <4>1. 1 \in Int /\ n \in Int
        OBVIOUS
      <4>2. QED
        BY <3>1, <4>1, SubSeqProperties
    <3>3. n - 1 + 1 = n /\ \A i \in 1 .. n : 1 + i - 1 = i
      OBVIOUS
    <3>4. Len(SubSeq(s, 1, n)) = n
      BY <3>2
    <3>5. \A i \in 1 .. n : SubSeq(s, 1, n)[i] = s[i]
      BY <3>2, <3>3
    <3>6. QED
      BY <3>2, <3>4, <3>5, <2>1 DEF Cut
  <2>2. CASE ~(Len(s) > n)
    BY <2>2, <1>1 DEF Cut
  <2>3. QED
    BY <2>1, <2>2
<1>4. ASSUME Len(s) <= n PROVE c = s
  <2>1. Len(s) \in Nat
    BY <1>1
  <2>2. ~(Len(s) > n)
    BY <1>4, <2>1
  <2>3. QED
    BY <2>2 DEF Cut
<1> HIDE DEF c
<1>5. DOMAIN c = 1 .. m /\ \A i \in DOMAIN c : i \in DOMAIN s /\ c[i] = s[i]
  <2>1. DOMAIN c = 1 .. m
    BY <1>3, <1>2, LenProperties
  <2>2. 1 .. m \subseteq 1 .. Len(s)
    BY <1>1, <1>2
  <2>3. QED
    BY <2>1, <2>2, <1>1, <1>3
<1>6. Elems(c) \subseteq Elems(s)
  BY <1>5 DEF Elems
<1>7. /\ SeOnce(s) => SeOnce(c)
      /\ SeAsc(s) => SeAsc(c)
      /\ SeDesc(s) => SeDesc(c)
      /\ SeDescEach(s) => SeDescEach(c)
  BY <1>5 DEF SeOnce, SeAsc, SeDesc, SeDescEach
<1>8. ASSUME NEW r \in Elems(s), r \notin Elems(c)
      PROVE  /\ Len(c) = n
             /\ SeDesc(s) => \A x \in Elems(c) : x.t >= r.t
             /\ SeDescEach(s) => \A x \in Elems(c) : x.node = r.node => x.t >= r.t
  <2>1. PICK k \in 1 .. Len(s) : r = s[k]
    BY <1>1 DEF Elems
  <2>2. k > m
    <3>1. SUFFICES ASSUME k <= m PROVE FALSE
      BY <1>2, <1>1
    <3>2. k \in 1 .. m
      BY <3>1, <1>2, <1>1
    <3>3. QED
      BY <3>2, <2>1, <1>3, <1>5, <1>8 DEF Elems
  <2>3. Len(c) = n
    <3>1. k \in Nat /\ k <= Len(s) /\ Len(s) \in Nat
      BY <1>1
    <3>2. Len(s) > n
      BY <3>1, <2>2
    <3>3. QED
      BY <3>2, <1>3
  <2>4. ASSUME NEW x \in Elems(c) PROVE \E i \in 1 .. Len(s) : x = s[i] /\ i < k
    <3>1. PICK i \in 1 .. m : x = s[i]
      BY <1>5 DEF Elems
    <3>2. i \in 1 .. Len(s) /\ i < k
      BY <2>2, <1>2, <1>1
    <3>3. QED
      BY <3>1, <3>2
  <2>5. ASSUME SeDesc(s), NEW x \in Elems(c) PROVE x.t >= r.t
    BY <2>5, <2>4, <2>1, <1>1 DEF SeDesc
  <2>6. ASSUME SeDescEach(s), NEW x \in Elems(c), x.node = r.node PROVE x.t >= r.t
    BY <2>6, <2>4, <2>1, <1>1 DEF SeDescEach
  <2>7. QED
    BY <2>3, <2>5, <2>6
<1>9. SeFirst(s, n, c)
  BY <1>3, <1>4, <1>6, <1>7, <1>8 DEF SeFirst
<1>10. QED
  BY <1>9 DEF c

\* c is a and then b.
SeJoined(a, b, c) ==
    /\ c \in Seq(SeRowSet) /\ Len(c) = Len(a) + Len(b) /\ Elems(c) = Elems(a) \cup Elems(b)
    /\ a = <<>> => c = b
    /\ SeOnce(a) /\ SeOnce(b) /\ Elems(a) \cap Elems(b) = {} => SeOnce(c)
    /\ /\ SeDescEach(a) /\ SeDescEach(b)
       /\ \A x \in Elems(a), y \in Elems(b) : x.node = y.node => x.t >= y.t
       => SeDescEach(c)

LEMMA SeJoin ==
    ASSUME NEW a \in Seq(SeRowSet), NEW b \in Seq(SeRowSet)
    PROVE  SeJoined(a, b, a \o b)
<1> DEFINE c == a \o b
<1>1. /\ Len(a) \in Nat /\ DOMAIN a = 1 .. Len(a)
      /\ Len(b) \in Nat /\ DOMAIN b = 1 .. Len(b)
  BY LenProperties
<1>2. /\ c \in Seq(SeRowSet) /\ Len(c) = Len(a) + Len(b)
      /\ \A i \in 1 .. Len(a) + Len(b) : c[i] = IF i <= Len(a) THEN a[i] ELSE b[i - Len(a)]
  BY ConcatProperties
<1>3. a = <<>> => c = b
  BY ConcatEmptySeq
<1> HIDE DEF c
<1>4. DOMAIN c = 1 .. Len(a) + Len(b)
  BY <1>2, LenProperties
<1>5. ASSUME NEW i \in DOMAIN c
      PROVE  \/ i \in DOMAIN a /\ c[i] = a[i]
             \/ i > Len(a) /\ i - Len(a) \in DOMAIN b /\ c[i] = b[i - Len(a)]
  <2>1. i \in 1 .. Len(a) + Len(b)
    BY <1>4
  <2>2. CASE i <= Len(a)
    BY <2>1, <2>2, <1>1, <1>2
  <2>3. CASE ~(i <= Len(a))
    <3>1. i - Len(a) \in 1 .. Len(b) /\ i > Len(a)
      BY <2>1, <2>3, <1>1
    <3>2. QED
      BY <3>1, <2>1, <2>3, <1>1, <1>2
  <2>4. QED
    BY <2>2, <2>3
<1>6. \A i \in DOMAIN a : i \in DOMAIN c /\ c[i] = a[i]
  BY <1>1, <1>2, <1>4
<1>7. \A j \in DOMAIN b : j + Len(a) \in DOMAIN c /\ c[j + Len(a)] = b[j]
  <2>1. ASSUME NEW j \in DOMAIN b PROVE j + Len(a) \in DOMAIN c /\ c[j + Len(a)] = b[j]
    <3>1. j \in 1 .. Len(b)
      BY <1>1
    <3>2. j + Len(a) \in 1 .. Len(a) + Len(b) /\ ~(j + Len(a) <= Len(a)) /\ j + Len(a) - Len(a) = j
      BY <3>1, <1>1
    <3>3. QED
      BY <3>2, <1>2, <1>4
  <2>2. QED
    BY <2>1
<1>8. Elems(c) = Elems(a) \cup Elems(b)
  <2>1. Elems(c) \subseteq Elems(a) \cup Elems(b)
    BY <1>5 DEF Elems
  <2>2. Elems(a) \subseteq Elems(c)
    BY <1>6 DEF Elems
  <2>3. Elems(b) \subseteq Elems(c)
    BY <1>7 DEF Elems
  <2>4. QED
    BY <2>1, <2>2, <2>3
<1>9. ASSUME SeOnce(a), SeOnce(b), Elems(a) \cap Elems(b) = {} PROVE SeOnce(c)
  <2>1. SUFFICES ASSUME NEW i \in DOMAIN c, NEW j \in DOMAIN c, c[i] = c[j] PROVE i = j
    BY DEF SeOnce
  <2>2. i \in Int /\ j \in Int
    BY <1>4
  <2>3. CASE i \in DOMAIN a /\ c[i] = a[i] /\ j \in DOMAIN a /\ c[j] = a[j]
    BY <2>1, <2>3, <1>9 DEF SeOnce
  <2>4. CASE i - Len(a) \in DOMAIN b /\ c[i] = b[i - Len(a)] /\ j - Len(a) \in DOMAIN b /\ c[j] = b[j - Len(a)]
    <3>1. i - Len(a) = j - Len(a)
      BY <2>1, <2>4, <1>9 DEF SeOnce
    <3>2. QED
      BY <3>1, <2>2, <1>1
  <2>5. CASE i \in DOMAIN a /\ c[i] = a[i] /\ j - Len(a) \in DOMAIN b /\ c[j] = b[j - Len(a)]
    BY <2>1, <2>5, <1>9 DEF Elems
  <2>6. CASE j \in DOMAIN a /\ c[j] = a[j] /\ i - Len(a) \in DOMAIN b /\ c[i] = b[i - Len(a)]
    BY <2>1, <2>6, <1>9 DEF Elems
  <2>7. QED
    BY <2>3, <2>4, <2>5, <2>6, <1>5
<1>10. ASSUME SeDescEach(a), SeDescEach(b),
              \A x \in Elems(a), y \in Elems(b) : x.node = y.node => x.t >= y.t
       PROVE  SeDescEach(c)
  <2>1. SUFFICES ASSUME NEW i \in DOMAIN c, NEW j \in DOMAIN c, i < j, c[i].node = c[j].node
                 PROVE  c[i].t >= c[j].t
    BY DEF SeDescEach
  <2>2. i \in Int /\ j \in Int
    BY <1>4
  <2>3. CASE i \in DOMAIN a /\ c[i] = a[i] /\ j \in DOMAIN a /\ c[j] = a[j]
    BY <2>1, <2>3, <1>10 DEF SeDescEach
  <2>4. CASE i - Len(a) \in DOMAIN b /\ c[i] = b[i - Len(a)] /\ j - Len(a) \in DOMAIN b /\ c[j] = b[j - Len(a)]
    <3>1. i - Len(a) < j - Len(a)
      BY <2>1, <2>2, <1>1
    <3>2. QED
      BY <3>1, <2>1, <2>4, <1>10 DEF SeDescEach
  <2>5. CASE i \in DOMAIN a /\ c[i] = a[i] /\ j - Len(a) \in DOMAIN b /\ c[j] = b[j - Len(a)]
    BY <2>1, <2>5, <1>10 DEF Elems
  <2>6. CASE j \in DOMAIN a /\ i > Len(a)
    BY <2>1, <2>2, <2>6, <1>1
  <2>7. QED
    BY <2>3, <2>4, <2>5, <2>6, <1>5
<1>11. SeJoined(a, b, c)
  BY <1>2, <1>3, <1>8, <1>9, <1>10 DEF SeJoined
<1>12. QED
  BY <1>11 DEF c

LEMMA SeCount ==
    ASSUME NEW s \in Seq(SeRowSet), SeOnce(s)
    PROVE  Cardinality(Elems(s)) = Len(s)
<1>1. Len(s) \in Nat /\ DOMAIN s = 1 .. Len(s) /\ s \in [1 .. Len(s) -> SeRowSet]
  BY LenProperties
<1>2. s \in [1 .. Len(s) -> Elems(s)]
  BY <1>1 DEF Elems
<1>3. s \in Injection(1 .. Len(s), Elems(s))
  BY <1>1, <1>2 DEF SeOnce, Injection, IsInjective
<1>4. s \in Surjection(1 .. Len(s), Elems(s))
  BY <1>1, <1>2 DEF Surjection, Elems
<1>5. ExistsBijection(1 .. Len(s), Elems(s))
  BY <1>3, <1>4 DEF ExistsBijection, Bijection
<1>6. QED
  BY <1>1, <1>5, FS_CountingElements

LEMMA SeMost ==
    ASSUME NEW T, T \subseteq Nat, IsFiniteSet(T), T # {}
    PROVE  \E m \in T : \A n \in T : m >= n
<1> DEFINE Up(n) == {k \in T : k > n}
           C == {Cardinality(Up(n)) : n \in T}
<1>1. \A n \in T : IsFiniteSet(Up(n)) /\ Cardinality(Up(n)) \in Nat
  BY FS_Subset, FS_CardinalityType
<1>2. C \subseteq Nat /\ C # {}
  BY <1>1
<1>3. PICK c \in C : \A d \in C : c <= d
  <2> HIDE DEF C
  <2> QED BY <1>2, LeastOf
<1>4. PICK m \in T : c = Cardinality(Up(m))
  OBVIOUS
<1>5. ASSUME NEW n \in T, ~(m >= n) PROVE FALSE
  <2>1. n > m /\ n \in Nat /\ m \in Nat
    BY <1>5
  <2>2. Up(n) \subseteq Up(m)
    <3>1. SUFFICES ASSUME NEW k \in T, k > n PROVE k > m
      OBVIOUS
    <3>2. k \in Nat
      OBVIOUS
    <3>3. QED
      BY <2>1, <3>1, <3>2
  <2>3. n \in Up(m) /\ n \notin Up(n)
    BY <2>1
  <2>4. Cardinality(Up(m)) <= Cardinality(Up(n))
    <3>1. Cardinality(Up(n)) \in C
      OBVIOUS
    <3> HIDE DEF C, Up
    <3>2. QED
      BY <3>1, <1>3, <1>4
  <2> HIDE DEF C, Up
  <2>5. IsFiniteSet(Up(m)) /\ IsFiniteSet(Up(n))
    BY <1>1
  <2>6. Cardinality(Up(n)) <= Cardinality(Up(m)) /\ Cardinality(Up(n)) # Cardinality(Up(m))
    BY <2>2, <2>3, <2>5, FS_Subset
  <2>7. Cardinality(Up(n)) \in Nat /\ Cardinality(Up(m)) \in Nat
    BY <1>1
  <2>8. QED
    BY <2>4, <2>6, <2>7
<1>6. QED
  BY <1>5

LEMMA SeMinMax ==
    ASSUME NEW T, T \subseteq Nat, IsFiniteSet(T), T # {}
    PROVE  /\ SeMin(T) \in T /\ \A n \in T : SeMin(T) <= n
           /\ SeMax(T) \in T /\ \A n \in T : SeMax(T) >= n
<1>1. \E m \in T : \A n \in T : m <= n
  BY LeastOf
<1>2. \E m \in T : \A n \in T : m >= n
  BY SeMost
<1>3. QED
  BY <1>1, <1>2 DEF SeMin, SeMax

LEMMA SeSelects == \A r : Selects(r) <=> SeSel(se, r)
BY DEF Selects, SeSel, SeIn

\* What a node answers when it has the rows `there'.
SeAnswer(q, n, there, s) ==
    /\ s \in Seq(SeRowSet) /\ SeOnce(s)
    /\ \A r \in Elems(s) : r \in there /\ r.node = n /\ SeSel(q, r)
    /\ \A r \in there : r.node = n /\ SeSel(q, r) /\ r \notin Elems(s) =>
          /\ q.for = "rows" /\ Len(s) >= SeLimit
          /\ q.strategy = "stream" \/ \A x \in Elems(s) : x.t >= r.t
    /\ q.for = "rows" /\ q.strategy # "stream" => SeDesc(s)

LEMMA SeNodeRows ==
    ASSUME seRows \subseteq SeRowSet, se.for \in SeFors, NEW n \in SeNodes, NEW s \in NodeRows(n)
    PROVE  SeAnswer(se, n, seRows, s)
<1> DEFINE all == {r \in seRows : r.node = n /\ Selects(r)}
<1>1. all \subseteq SeRowSet /\ \A r : r \in all <=> r \in seRows /\ r.node = n /\ SeSel(se, r)
  BY SeSelects
<1>2. SeLimit \in Nat
  BY SearchAssumption
<1>3. NodeRows(n) = CASE se.for = "full" -> {Newest(all)}
         [] se.for \in {"base", "again", "expand", "last"} -> {Oldest(all)}
         [] se.for = "rows" /\ se.strategy = "stream" ->
              {Newest(S) : S \in {T \in SUBSET all :
                 Cardinality(T) = IF Cardinality(all) < SeLimit THEN Cardinality(all) ELSE SeLimit}}
         [] OTHER -> {Cut(Newest(all), SeLimit)}
  BY DEF NodeRows
<1> HIDE DEF all
<1>4. SeLists(all, "DESC", Newest(all)) /\ SeLists(all, "ASC", Oldest(all))
  BY <1>1, SeNewest
<1>5. CASE se.for # "rows"
  <2>1. s = Newest(all) \/ s = Oldest(all)
    BY <1>5, <1>3 DEF SeFors
  <2>2. s \in Seq(SeRowSet) /\ SeOnce(s) /\ Elems(s) = all
    BY <2>1, <1>4 DEF SeLists
  <2>3. QED
    BY <2>2, <1>1, <1>5 DEF SeAnswer
<1>6. CASE se.for = "rows" /\ se.strategy = "stream"
  <2>1. PICK T \in SUBSET all :
           /\ s = Newest(T)
           /\ Cardinality(T) = IF Cardinality(all) < SeLimit THEN Cardinality(all) ELSE SeLimit
    BY <1>6, <1>3
  <2>2. SeLists(T, "DESC", s)
    BY <2>1, <1>1, SeNewest
  <2>3. s \in Seq(SeRowSet) /\ SeOnce(s) /\ Elems(s) = T /\ Len(s) = Cardinality(T)
    BY <2>2 DEF SeLists
  <2>4. IsFiniteSet(all) /\ Cardinality(all) \in Nat
    BY <1>1, SearchAssumption, FS_Subset, FS_CardinalityType
  <2>5. ASSUME NEW r \in all, r \notin T PROVE Len(s) >= SeLimit
    <3>1. Cardinality(T) # Cardinality(all)
      BY <2>4, <2>5, FS_Subset
    <3>2. QED
      BY <3>1, <2>1, <2>3, <2>4, <1>2
  <2>6. QED
    BY <2>3, <2>5, <1>1, <1>6 DEF SeAnswer
<1>7. CASE se.for = "rows" /\ se.strategy # "stream"
  <2>1. s = Cut(Newest(all), SeLimit)
    BY <1>7, <1>3
  <2>2. SeFirst(Newest(all), SeLimit, s)
    BY <2>1, <1>2, <1>4, SeCut DEF SeLists
  <2>3. SeDesc(s) /\ SeOnce(s) /\ s \in Seq(SeRowSet) /\ Elems(s) \subseteq all
    BY <2>2, <1>4 DEF SeLists, SeFirst
  <2>4. ASSUME NEW r \in all, r \notin Elems(s)
        PROVE  Len(s) = SeLimit /\ \A x \in Elems(s) : x.t >= r.t
    BY <2>2, <2>4, <1>4 DEF SeLists, SeFirst
  <2>5. \A r \in all : r \notin Elems(s) => Len(s) >= SeLimit
    BY <2>4, <1>2
  <2>6. QED
    BY <2>3, <2>4, <2>5, <1>1, <1>7 DEF SeAnswer
<1>8. QED
  BY <1>5, <1>6, <1>7

-----------------------------------------------------------------------------
(* The ranges of the nodes. *)

LEMMA SeReads ==
    ASSUME NEW n \in SeNodes, seLake \subseteq seRows, seRows \subseteq SeRowSet
    PROVE  /\ NodeTimeRange(n) \in SeNatPairs
           /\ \A r \in Counted(n) : SeCovers(NodeTimeRange(n), r.t)
<1> DEFINE ts == {r.t : r \in Counted(n)}
<1>1. Counted(n) \subseteq SeRowSet /\ IsFiniteSet(Counted(n))
  BY SearchAssumption, FS_Subset DEF Counted
<1>2. ts \subseteq Nat
  BY <1>1, SeRowT
<1>3. IsFiniteSet(ts)
  <2> DEFINE f == [r \in Counted(n) |-> r.t]
  <2>1. f \in Surjection(Counted(n), ts)
    BY DEF Surjection
  <2>2. QED
    BY <2>1, <1>1, FS_Surjection
<1>4. NodeTimeRange(n) = IF ts = {} THEN Unknown ELSE <<SeMin(ts), SeMax(ts)>>
  BY DEF NodeTimeRange
<1>5. CASE ts = {}
  BY <1>4, <1>5 DEF Unknown, SeNatPairs
<1>6. CASE ts # {}
  <2>1. \A r \in Counted(n) : r.t \in ts
    OBVIOUS
  <2> HIDE DEF ts
  <2>2. /\ SeMin(ts) \in ts /\ \A m \in ts : SeMin(ts) <= m
        /\ SeMax(ts) \in ts /\ \A m \in ts : SeMax(ts) >= m
    BY <1>2, <1>3, <1>6, SeMinMax
  <2>3. SeMin(ts) \in Nat /\ SeMax(ts) \in Nat
    BY <2>2, <1>2
  <2>4. NodeTimeRange(n)[1] = SeMin(ts) /\ NodeTimeRange(n)[2] = SeMax(ts) /\ NodeTimeRange(n) \in SeNatPairs
    BY <1>4, <1>6, <2>3 DEF SeNatPairs
  <2>5. ASSUME NEW t \in ts PROVE NodeTimeRange(n)[1] <= t /\ t <= NodeTimeRange(n)[2]
    BY <2>2, <2>3, <2>4, <1>2
  <2>6. QED
    BY <2>1, <2>4, <2>5 DEF SeCovers
<1>7. QED
  BY <1>5, <1>6

LEMMA SeStores ==
    ASSUME SeRanges, NEW r \in SeRowSet, SeStoreRow(r)
    PROVE  SeRanges'
<1>1. /\ seRows' = seRows \cup {r} /\ seUnseen' = seUnseen \cup {r}
      /\ UNCHANGED <<seLake, seConnected, seRange, seProbe, seHeld, seWronged>>
  BY DEF SeStoreRow, seSeen
<1>2. \A x \in seRows' \ seUnseen' : x \in seRows \ seUnseen
  BY <1>1
<1>3. QED
  BY <1>1, <1>2 DEF SeRanges

LEMMA SeFlushes ==
    ASSUME SeRanges, NEW n \in SeNodes, SeFlush(n)
    PROVE  SeRanges'
<1>1. /\ seLake' = seLake \cup {r \in seRows : r.node = n}
      /\ UNCHANGED <<seRows, seUnseen, seConnected, seRange, seProbe, seHeld, seWronged>>
  BY DEF SeFlush, seSeen
<1>2. QED
  BY <1>1 DEF SeRanges

LEMMA SeRetires ==
    ASSUME SeRanges, NEW n \in SeNodes, SeRetire(n)
    PROVE  SeRanges' /\ seHeld' \subseteq seHeld
<1>1. PICK old : /\ seRows' = seRows \ old /\ seLake' = seLake \ old
                 /\ seHeld' = seHeld \ old /\ seUnseen' = seUnseen \ old
  BY DEF SeRetire
<1>2. UNCHANGED <<seConnected, seRange, seProbe, seWronged>>
  BY DEF SeRetire, seSeen
<1>3. \A x \in seRows' \ seUnseen' : x \in seRows \ seUnseen
  BY <1>1
<1>4. QED
  BY <1>1, <1>2, <1>3 DEF SeRanges

LEMMA SeChecks ==
    ASSUME SeRanges, NEW n \in SeNodes, CheckNode(n)
    PROVE  SeRanges'
<1>1. UNCHANGED <<seRows, seLake, seUnseen, seConnected, seRange, seHeld, seWronged>>
  BY DEF CheckNode, seStore, seSeen
<1>2. PICK res : seProbe' = [m \in DOMAIN seProbe \cup {n} |->
                        IF m # n THEN seProbe[m]
                        ELSE [up |-> res.up, known |-> res.known,
                              range |-> NodeTimeRange(n), counted |-> Counted(n)]]
  BY DEF CheckNode
<1>3. DOMAIN seProbe' = DOMAIN seProbe \cup {n}
  BY <1>2
<1>4. ASSUME NEW m \in DOMAIN seProbe'
      PROVE  /\ seProbe'[m].range \in SeNatPairs
             /\ \A r \in seProbe'[m].counted : SeCovers(seProbe'[m].range, r.t)
  <2>1. CASE m = n
    <3>1. seProbe'[m].range = NodeTimeRange(n) /\ seProbe'[m].counted = Counted(n)
      BY <2>1, <1>2, <1>3
    <3>2. NodeTimeRange(n) \in SeNatPairs /\ \A r \in Counted(n) : SeCovers(NodeTimeRange(n), r.t)
      BY SeReads DEF SeRanges
    <3>3. QED
      BY <3>1, <3>2
  <2>2. CASE m # n
    <3>1. m \in DOMAIN seProbe /\ seProbe'[m] = seProbe[m]
      BY <2>2, <1>2, <1>3
    <3>2. QED
      BY <3>1 DEF SeRanges
  <2>3. QED
    BY <2>1, <2>2
<1>5. DOMAIN seProbe' \subseteq SeNodes
  BY <1>3 DEF SeRanges
<1>6. QED
  BY <1>1, <1>4, <1>5 DEF SeRanges

LEMMA SeApplies ==
    ASSUME SeRanges, ApplyHealth
    PROVE  SeRanges'
<1>1. /\ DOMAIN seProbe = SeNodes
      /\ seConnected' = {n \in SeNodes : seProbe[n].up}
      /\ seRange' = [n \in SeNodes |-> IF seProbe[n].up THEN ApplyRange(n) ELSE seRange[n]]
      /\ seUnseen' = {r \in seUnseen : ~seProbe[r.node].up \/ r \notin seProbe[r.node].counted}
                     \cup {r \in seRows : seProbe[r.node].up /\ r \notin seProbe[r.node].counted}
      /\ seProbe' = <<>>
      /\ UNCHANGED <<seRows, seLake, seHeld, seWronged>>
  BY DEF ApplyHealth
<1>2. \A n \in SeNodes : /\ seProbe[n].range \in SeNatPairs
                         /\ \A r \in seProbe[n].counted : SeCovers(seProbe[n].range, r.t)
  BY <1>1 DEF SeRanges
<1>3. \A n \in SeNodes : ApplyRange(n) \in SeNatPairs
  BY <1>2 DEF ApplyRange, Unknown, SeNatPairs
<1>4. seRange' \in [SeNodes -> SeNatPairs]
  <2>1. \A n \in SeNodes : seRange[n] \in SeNatPairs
    BY DEF SeRanges
  <2>2. QED
    BY <1>1, <1>3, <2>1
<1>5. ASSUME NEW r \in seRows' \ seUnseen' PROVE SeCovers(seRange'[r.node], r.t)
  <2>1. r \in seRows /\ r.node \in SeNodes
    BY <1>1, SeRowT DEF SeRanges
  <2>2. CASE seProbe[r.node].up
    <3>1. r \in seProbe[r.node].counted
      BY <2>1, <2>2, <1>1, <1>5
    <3>2. seRange'[r.node] = ApplyRange(r.node)
      BY <2>1, <2>2, <1>1
    <3>3. CASE seProbe[r.node].known
      BY <3>1, <3>2, <3>3, <2>1, <1>2 DEF ApplyRange
    <3>4. CASE ~seProbe[r.node].known
      BY <3>2, <3>4 DEF ApplyRange, SeCovers
    <3>5. QED
      BY <3>3, <3>4
  <2>3. CASE ~seProbe[r.node].up
    <3>1. r \notin seUnseen
      BY <2>1, <2>3, <1>1, <1>5
    <3>2. seRange'[r.node] = seRange[r.node]
      BY <2>1, <2>3, <1>1
    <3>3. QED
      BY <3>1, <3>2, <2>1 DEF SeRanges
  <2>4. QED
    BY <2>2, <2>3
<1>6. seUnseen' \subseteq seRows /\ seConnected' \subseteq SeNodes
  BY <1>1 DEF SeRanges
<1>7. DOMAIN seProbe' = {}
  BY <1>1
<1>8. QED
  BY <1>1, <1>4, <1>5, <1>6, <1>7 DEF SeRanges

LEMMA SeTargets ==
    ASSUME SeRanges, se \in SeReqT
    PROVE  /\ nodesForRange(se.win) \subseteq seConnected
           /\ \A r \in seRows : Selects(r) /\ r.node \in seConnected \ nodesForRange(se.win)
                 => r \in seUnseen
<1> DEFINE kept == {n \in seConnected : ~TooOld(n, se.win[1]) /\ ~TooNew(n, se.win[2])}
<1>1. nodesForRange(se.win) = IF se.win = <<0, 0>> \/ kept = {} THEN seConnected ELSE kept
  BY DEF nodesForRange
<1>2. ASSUME NEW r \in seRows, Selects(r), r.node \in seConnected \ nodesForRange(se.win), r \notin seUnseen
      PROVE  FALSE
  <2> DEFINE rg == seRange[r.node]
  <2>1. se.win # <<0, 0>> /\ (TooOld(r.node, se.win[1]) \/ TooNew(r.node, se.win[2]))
    BY <1>1, <1>2
  <2>2. SeCovers(rg, r.t) /\ r.t \in Nat /\ rg \in SeNatPairs
    BY <1>2, SeRowT DEF SeRanges
  <2>3. se.win[1] <= r.t /\ (r.t < se.win[2] \/ r.t = se.win[2])
    BY <2>1, <1>2 DEF Selects
  <2>4. se.win \in SeNatPairs
    BY DEF SeReqT
  <2>5. se.win[1] \in Nat /\ se.win[2] \in Nat /\ rg[1] \in Nat /\ rg[2] \in Nat /\ SeSlack \in Nat
    BY <2>2, <2>4, SearchAssumption DEF SeNatPairs
  <2>6. (rg[1] = 0 /\ rg[2] = 0) \/ (rg[1] <= r.t /\ r.t <= rg[2])
    BY <2>2 DEF SeCovers, Unknown
  <2>7. \/ rg[2] > 0 /\ rg[2] + SeSlack < se.win[1]
        \/ rg[1] > 0 /\ rg[1] > se.win[2]
    BY <2>1 DEF TooOld, TooNew
  <2> HIDE DEF rg
  <2>8. QED
    BY <2>2, <2>3, <2>5, <2>6, <2>7
<1>3. QED
  BY <1>1, <1>2

\* p is the request q at another point of the same query.
SeKeeps(q, p) ==
    /\ p.kind = q.kind /\ p.asked = q.asked /\ p.strategy = q.strategy /\ p.lazy = q.lazy
    /\ p.want = q.want /\ p.tables = q.tables /\ p.table = q.table /\ p.chunks = q.chunks
    /\ p.win = q.win /\ p.incl = q.incl /\ p.for = q.for /\ p.ids = q.ids
    /\ p.wanted = q.wanted /\ p.got = q.got /\ p.all = q.all /\ p.full = q.full

LEMMA SeKeptRows ==
    ASSUME NEW q, NEW p, SeKeeps(q, p)
    PROVE  /\ \A r : SeAsk(p, r) <=> SeAsk(q, r)
           /\ \A r : SeOf(p, r) <=> SeOf(q, r)
           /\ \A r : SeSel(p, r) <=> SeSel(q, r)
           /\ \A r : SeAbove(p, r) <=> SeAbove(q, r)
           /\ \A s, r : SeLimited(p, s, r) <=> SeLimited(q, s, r)
<1>1. \A r : SeAsk(p, r) <=> SeAsk(q, r)
  BY DEF SeKeeps, SeAsk
<1>2. \A r : SeOf(p, r) <=> SeOf(q, r)
  BY <1>1 DEF SeKeeps, SeOf
<1>3. \A r : SeSel(p, r) <=> SeSel(q, r)
  BY DEF SeKeeps, SeSel, SeIn
<1>4. \A r : SeAbove(p, r) <=> SeAbove(q, r)
  BY DEF SeKeeps, SeAbove
<1>5. \A s, r : SeLimited(p, s, r) <=> SeLimited(q, s, r)
  BY DEF SeKeeps, SeLimited
<1>6. QED
  BY <1>1, <1>2, <1>3, <1>4, <1>5

\* More is missed and less is held.
LEMMA SeFoundKept ==
    ASSUME NEW q, NEW p, SeKeeps(q, p), NEW s, NEW H, NEW H2, H2 \subseteq H,
           NEW M, NEW M2, M \subseteq M2, SeFound(q, s, H, M)
    PROVE  SeFound(p, s, H2, M2)
<1>1. /\ SeOnce(s)
      /\ \A r \in Elems(s) : SeOf(p, r)
  BY SeKeptRows DEF SeFound
<1>2. ASSUME NEW r \in H2, SeOf(p, r), r \notin Elems(s) PROVE SeExcused(p, s, r, M2)
  <2>1. SeExcused(q, s, r, M)
    BY <1>2, SeKeptRows DEF SeFound
  <2>2. QED
    BY <2>1, SeKeptRows DEF SeExcused
<1>3. SeOrdered(p, s)
  BY DEF SeFound, SeOrdered, SeKeeps
<1>4. QED
  BY <1>1, <1>2, <1>3 DEF SeFound

LEMMA SeAllKept ==
    ASSUME NEW q, NEW p, SeKeeps(q, p), NEW H, NEW H2, H2 \subseteq H,
           NEW M, NEW M2, M \subseteq M2, NEW B, NEW B2, B \subseteq B2, NEW rest,
           SeAll(q, rest, H, M, B)
    PROVE  SeAll(p, rest, H2, M2, B2)
<1>1. p.all = q.all /\ p.lazy = q.lazy /\ p.full = q.full
  BY DEF SeKeeps
<1>2. SeAllSound(p, rest)
  BY <1>1, SeKeptRows DEF SeAll, SeAllSound
<1>3. ASSUME NEW r \in H2, SeAsk(p, r), r.table \notin rest, r \notin Elems(p.all)
      PROVE  SeExcused(p, p.all, r, M2)
  <2>1. SeExcused(q, q.all, r, M)
    BY <1>3, <1>1, SeKeptRows DEF SeAll, SeAllComplete
  <2>2. QED
    BY <2>1, <1>1, SeKeptRows DEF SeExcused
<1>4. SeBareOk(p, p.all, H2, B2)
  BY <1>1 DEF SeAll, SeBareOk
<1>5. QED
  BY <1>2, <1>3, <1>4 DEF SeAll, SeAllComplete

LEMMA SeSliceKept ==
    ASSUME NEW q, NEW p, SeKeeps(q, p), NEW H, NEW H2, H2 \subseteq H,
           NEW M, NEW M2, M \subseteq M2, SeSlice(q, H, M)
    PROVE  SeSlice(p, H2, M2)
<1>1. p.win = q.win /\ p.chunks = q.chunks /\ p.asked = q.asked /\ p.incl = q.incl /\ p.got = q.got
  BY DEF SeKeeps
<1>2. SeChain(p)
  BY <1>1 DEF SeSlice, SeChain
<1>3. \A r \in Elems(p.got) : SeOf(p, r) /\ r.t >= p.win[2]
  BY <1>1, SeKeptRows DEF SeSlice
<1>4. \A r \in H2 : SeOf(p, r) /\ SeAbove(p, r) /\ r \notin Elems(p.got) => <<r.node, r.table>> \in M2
  BY <1>1, SeKeptRows DEF SeSlice
<1>5. /\ p.asked = <<0, 0>> => p.win = <<0, 0>>
      /\ p.win = <<0, 0>> => p.asked = <<0, 0>>
      /\ p.chunks # <<>> \/ ~p.incl => p.win[1] <= p.win[2] /\ p.win # <<0, 0>>
      /\ p.win[2] <= p.asked[2] /\ p.win[1] >= p.asked[1]
      /\ p.incl => p.got = <<>> /\ p.win[2] = p.asked[2]
      /\ SeOnce(p.got) /\ SeDescEach(p.got) /\ Len(p.got) < SeLimit
  BY <1>1 DEF SeSlice
<1>6. QED
  BY <1>2, <1>3, <1>4, <1>5 DEF SeSlice

LEMMA SeQueryKept ==
    ASSUME NEW q, NEW p, SeKeeps(q, p), NEW H, NEW H2, H2 \subseteq H,
           NEW M, NEW M2, M \subseteq M2, NEW B, NEW B2, B \subseteq B2, SeQuery(q, H, M, B)
    PROVE  SeQuery(p, H2, M2, B2)
<1>1. SeShape(p)
  BY DEF SeQuery, SeShape, SeKeeps
<1>2. SeRest(p) = SeRest(q)
  BY DEF SeRest, SeKeeps
<1>3. SeAll(p, SeRest(p), H2, M2, B2)
  BY <1>2, SeAllKept DEF SeQuery
<1>4. SeWindow(p, H2, M2)
  <2>1. /\ p.for = q.for /\ p.strategy = q.strategy /\ p.win = q.win /\ p.asked = q.asked
        /\ p.incl = q.incl /\ p.got = q.got /\ p.want = q.want
    BY DEF SeKeeps
  <2>2. p.for = "rows" /\ p.strategy = "chunked" => SeSlice(p, H2, M2)
    BY <2>1, SeSliceKept DEF SeQuery, SeWindow
  <2>3. p.for # "full" /\ ~(p.for = "rows" /\ p.strategy = "chunked") => p.win = p.asked /\ p.incl
    BY <2>1 DEF SeQuery, SeWindow
  <2>4. ASSUME p.for = "full"
        PROVE  /\ SeFound(p, p.got, H2, M2) /\ p.incl
               /\ \A r \in Elems(p.got) : p.win[1] <= r.t /\ r.t <= p.win[2]
    BY <2>1, <2>4, SeFoundKept DEF SeQuery, SeWindow
  <2>5. ASSUME p.for = "again"
        PROVE  /\ ~Several(p) /\ SeOnce(p.got) /\ SeAsc(p.got)
               /\ \A r \in Elems(p.got) : SeOf(p, r)
    BY <2>1, <2>5, SeKeptRows DEF SeQuery, SeWindow, Several
  <2>6. QED
    BY <2>2, <2>3, <2>4, <2>5 DEF SeWindow
<1>5. QED
  BY <1>1, <1>3, <1>4 DEF SeQuery

\* Rows that a node drops are no longer held.
LEMMA SeHeldLess ==
    ASSUME NEW q, NEW H, NEW H2, H2 \subseteq H, NEW M, NEW B, SeReqOk(q, H, M, B)
    PROVE  SeReqOk(q, H2, M, B)
<1>1. SeKeeps(q, q)
  BY DEF SeKeeps
<1>2. q.at \in {"route", "fan"} => SeQuery(q, H2, M, B)
  BY <1>1, SeQueryKept DEF SeReqOk
<1>3. q.at = "fan" => SeFan(q, H2, M, B)
  BY DEF SeReqOk, SeFan
<1>4. q.at = "done" => SeAnswered(q, H2, M, B)
  BY DEF SeReqOk, SeAnswered, SeBareOk
<1>5. QED
  BY <1>2, <1>3, <1>4 DEF SeReqOk

-----------------------------------------------------------------------------
(* A query goes to the nodes. *)

LEMMA SeRouteStep ==
    ASSUME SeRanges, SeReqOk(se, seHeld, seMissed, seBare), SeRoute
    PROVE  SeRanges' /\ SeReqOk(se', seHeld', seMissed', seBare')
<1> DEFINE targets == nodesForRange(se.win)
           others == SeNodes \ targets
<1>1. /\ se.at = "route"
      /\ se' = [se EXCEPT !.at = "fan", !.left = targets, !.ok = FALSE, !.err = FALSE, !.rows = <<>>]
      /\ seWronged' = seWronged \cup
            ({r \in seRows : Selects(r) /\ r.node \in seConnected \ targets} \ seUnseen)
      /\ IF se.for = "full"
         THEN seBare' = seBare \cup others /\ UNCHANGED seMissed
         ELSE seMissed' = seMissed \cup (others \X {se.table}) /\ UNCHANGED seBare
      /\ UNCHANGED <<seRows, seLake, seUnseen, seConnected, seRange, seProbe, seChanges, seHeld>>
  BY DEF SeRoute, seStore, seSeen
<1>2. se \in SeReqT
  BY DEF SeReqOk
<1>3. /\ targets \subseteq seConnected
      /\ \A r \in seRows : Selects(r) /\ r.node \in seConnected \ targets => r \in seUnseen
  BY <1>2, SeTargets
<1> HIDE DEF targets
<1>4. seWronged' = seWronged
  BY <1>1, <1>3
<1>5. SeRanges'
  BY <1>1, <1>4 DEF SeRanges
<1>6. targets \subseteq SeNodes
  BY <1>3 DEF SeRanges
<1>7. <<>> \in Seq(SeRowSet)
  BY EmptySeq
<1>8. se' \in SeReqT
  BY ZenonT(60), <1>1, <1>2, <1>6, <1>7 DEF SeReqT
<1>9. /\ se'.at = "fan" /\ se'.left = targets /\ se'.ok = FALSE /\ se'.rows = <<>>
      /\ SeKeeps(se, se')
  BY <1>1, <1>2 DEF SeReqT, SeKeeps
<1>10. seMissed \subseteq seMissed' /\ seBare \subseteq seBare' /\ seHeld' = seHeld
  BY <1>1
<1>11. SeQuery(se, seHeld, seMissed, seBare)
  BY <1>1 DEF SeReqOk
<1>12. SeQuery(se', seHeld', seMissed', seBare')
  BY <1>9, <1>10, <1>11, SeQueryKept
<1>13. se'.for = se.for /\ se'.table = se.table
  BY <1>9 DEF SeKeeps
<1>14. Elems(<<>>) = {} /\ SeOnce(<<>>) /\ SeDescEach(<<>>)
  BY DEF Elems, SeOnce, SeDescEach
<1>15. se.for # "full" => \A n \in SeNodes \ targets : <<n, se.table>> \in seMissed'
  BY <1>1
<1>16. se.for = "full" => SeNodes \ targets \subseteq seBare'
  BY <1>1
<1>17. ASSUME NEW r \in seHeld', SeSel(se', r), r.node \notin targets
       PROVE  IF se'.for = "full" THEN r.node \in seBare'
              ELSE <<r.node, r.table>> \in seMissed' \/ SePart(se', se'.rows, r)
  <2>1. r.table = se.table
    BY <1>13, <1>17 DEF SeSel
  <2>2. r.node \in SeNodes
    BY <1>10, SeRowT DEF SeRanges
  <2>3. QED
    BY <2>1, <2>2, <1>13, <1>15, <1>16, <1>17
<1>18. SeFan(se', seHeld', seMissed', seBare')
  BY <1>9, <1>13, <1>14, <1>15, <1>17 DEF SeFan
<1>19. QED
  BY <1>5, <1>8, <1>9, <1>12, <1>18 DEF SeReqOk

SeAppended(q, n, s) == [q EXCEPT !.left = @ \ {n}, !.ok = TRUE, !.rows = @ \o s]
SeFailedAt(n) ==
    /\ se' = [se EXCEPT !.left = @ \ {n}, !.err = TRUE]
    /\ IF se.for = "full"
       THEN seBare' = seBare \cup {n} /\ UNCHANGED seMissed
       ELSE seMissed' = seMissed \cup {<<n, se.table>>} /\ UNCHANGED seBare

LEMMA SeNodeStep ==
    ASSUME SeRanges, SeReqOk(se, seHeld, seMissed, seBare), NEW n \in SeNodes, QueryNode(n)
    PROVE  SeRanges' /\ SeReqOk(se', seHeld', seMissed', seBare')
<1>0. /\ se.at = "fan" /\ n \in se.left
      /\ \/ /\ \E s \in NodeRows(n) : se' = SeAppended(se, n, s)
            /\ UNCHANGED <<seMissed, seBare, seChanges>>
         \/ SeFailedAt(n)
      /\ UNCHANGED <<seStore, seSeen, seProbe, seHeld, seWronged>>
  BY Zenon DEF QueryNode, SeAppended, SeFailedAt
<1>1. /\ se.at = "fan" /\ n \in se.left
      /\ UNCHANGED <<seRows, seLake, seUnseen, seConnected, seRange, seProbe, seHeld, seWronged>>
  BY <1>0 DEF seStore, seSeen
<1>2. SeRanges'
  BY <1>1 DEF SeRanges
<1>3. se \in SeReqT /\ SeQuery(se, seHeld, seMissed, seBare) /\ SeFan(se, seHeld, seMissed, seBare)
  BY <1>1 DEF SeReqOk
<1>4. se.rows \in Seq(SeRowSet) /\ se.for \in SeFors /\ seRows \subseteq SeRowSet /\ seHeld \subseteq seRows
  BY <1>3 DEF SeReqT, SeRanges
<1>5. CASE /\ \E s \in NodeRows(n) : se' = SeAppended(se, n, s)
           /\ UNCHANGED <<seMissed, seBare, seChanges>>
  <2>1. PICK s \in NodeRows(n) : se' = SeAppended(se, n, s)
    BY <1>5
  <2>2. SeAnswer(se, n, seRows, s)
    BY <1>4, SeNodeRows
  <2>3. s \in Seq(SeRowSet)
    BY <2>2 DEF SeAnswer
  <2>4. PICK c : c = se.rows \o s
    OBVIOUS
  <2>5. SeJoined(se.rows, s, c)
    BY <2>3, <2>4, <1>4, SeJoin
  <2>6. c \in Seq(SeRowSet) /\ Elems(c) = Elems(se.rows) \cup Elems(s) /\ Len(c) = Len(se.rows) + Len(s)
    BY <2>5 DEF SeJoined
  <2>7. se' = [se EXCEPT !.left = @ \ {n}, !.ok = TRUE, !.rows = c]
    BY <2>1, <2>4 DEF SeAppended
  <2>8. se' \in SeReqT
    BY ZenonT(60), <2>7, <2>6, <1>3 DEF SeReqT
  <2>9. se'.at = "fan" /\ se'.left = se.left \ {n} /\ se'.ok = TRUE /\ se'.rows = c /\ SeKeeps(se, se')
    BY <2>7, <1>1, <1>3 DEF SeReqT, SeKeeps
  <2>10. SeQuery(se', seHeld', seMissed', seBare')
    BY <2>9, <1>3, <1>1, <1>5, SeQueryKept
  <2>11. se'.for = se.for /\ se'.strategy = se.strategy
    BY <2>9 DEF SeKeeps
  <2>12. \A x \in Elems(se.rows) : SeSel(se, x) /\ x.node \notin se.left
    BY <1>3 DEF SeFan
  <2>13. \A x \in Elems(s) : x \in seRows /\ x.node = n /\ SeSel(se, x)
    BY <2>2 DEF SeAnswer
  <2>14. \A x \in Elems(se.rows), y \in Elems(s) : x.node # y.node
    BY <2>12, <2>13, <1>1
  <2>15. SeOnce(c)
    BY <2>5, <2>14, <2>2, <1>3 DEF SeJoined, SeAnswer, SeFan
  <2>16. \A r \in Elems(c) : SeSel(se', r) /\ r.node \notin se.left \ {n}
    BY <2>6, <2>9, <2>12, <2>13, SeKeptRows
  <2>17. ASSUME NEW r \in seHeld, SeSel(se', r), r.node \notin se.left \ {n}, r \notin Elems(c)
         PROVE  IF se'.for = "full" THEN r.node \in seBare
                ELSE <<r.node, r.table>> \in seMissed \/ SePart(se', c, r)
    <3>1. SeSel(se, r) /\ r \notin Elems(se.rows) /\ r \notin Elems(s)
      BY <2>17, <2>9, <2>6, SeKeptRows
    <3>2. Len(se.rows) \in Nat /\ Len(s) \in Nat /\ SeLimit \in Nat
      BY <1>4, <2>3, LenProperties, SearchAssumption
    <3>3. CASE r.node = n
      <4>1. /\ se.for = "rows" /\ Len(s) >= SeLimit
            /\ se.strategy = "stream" \/ \A x \in Elems(s) : x.t >= r.t
        BY <3>1, <3>3, <2>2, <1>4 DEF SeAnswer
      <4>2. Len(c) >= SeLimit
        BY <4>1, <3>2, <2>6
      <4>3. \A x \in Elems(c) : x.node = r.node => x \in Elems(s)
        BY <3>3, <2>6, <2>12, <1>1
      <4>4. SePart(se', c, r)
        BY <4>1, <4>2, <4>3, <2>11 DEF SePart
      <4>5. QED
        BY <4>1, <4>4, <2>11
    <3>4. CASE r.node # n
      <4>1. IF se.for = "full" THEN r.node \in seBare
            ELSE <<r.node, r.table>> \in seMissed \/ SePart(se, se.rows, r)
        BY <3>1, <3>4, <2>17, <1>3 DEF SeFan
      <4>2. \A x \in Elems(c) : x.node = r.node => x \in Elems(se.rows)
        BY <3>4, <2>6, <2>13
      <4>3. ASSUME SePart(se, se.rows, r) PROVE SePart(se', c, r)
        <5>1. Len(se.rows) >= SeLimit
          BY <4>3 DEF SePart
        <5>2. Len(c) >= SeLimit
          BY <5>1, <3>2, <2>6
        <5>3. QED
          BY <4>2, <4>3, <5>2, <2>11 DEF SePart
      <4>4. QED
        BY <4>1, <4>3, <2>11
    <3>5. QED
      BY <3>3, <3>4
  <2>18. se'.for = "rows" /\ se'.strategy # "stream" => SeDescEach(c)
    <3>1. SUFFICES ASSUME se.for = "rows", se.strategy # "stream" PROVE SeDescEach(c)
      BY <2>11
    <3>2. SeDescEach(se.rows) /\ SeDesc(s)
      BY <3>1, <1>3, <2>2 DEF SeFan, SeAnswer
    <3>3. SeDescEach(s)
      BY <3>2 DEF SeDesc, SeDescEach
    <3>4. QED
      BY <3>2, <3>3, <2>5, <2>14 DEF SeJoined
  <2>19. SeFan(se', seHeld', seMissed', seBare')
    BY <2>9, <2>15, <2>16, <2>17, <2>18, <1>1, <1>5 DEF SeFan
  <2>20. QED
    BY <1>2, <2>8, <2>9, <2>10, <2>19 DEF SeReqOk
<1>6. CASE SeFailedAt(n)
  <2>0. /\ se' = [se EXCEPT !.left = @ \ {n}, !.err = TRUE]
        /\ IF se.for = "full"
           THEN seBare' = seBare \cup {n} /\ UNCHANGED seMissed
           ELSE seMissed' = seMissed \cup {<<n, se.table>>} /\ UNCHANGED seBare
    BY <1>6 DEF SeFailedAt
  <2>1. se' \in SeReqT
    BY <2>0, <1>3 DEF SeReqT
  <2>2. se'.at = "fan" /\ se'.left = se.left \ {n} /\ se'.ok = se.ok /\ se'.rows = se.rows /\ SeKeeps(se, se')
    BY <2>0, <1>1, <1>3 DEF SeReqT, SeKeeps
  <2>3. seMissed \subseteq seMissed' /\ seBare \subseteq seBare' /\ seHeld' = seHeld
    BY <1>1, <2>0
  <2>4. SeQuery(se', seHeld', seMissed', seBare')
    BY <2>2, <2>3, <1>3, SeQueryKept
  <2>5. se'.for = se.for /\ se'.strategy = se.strategy /\ se'.table = se.table
    BY <2>2 DEF SeKeeps
  <2>6. /\ SeOnce(se'.rows)
        /\ \A r \in Elems(se'.rows) : SeSel(se', r) /\ r.node \notin se'.left
        /\ ~se'.ok => se'.rows = <<>>
        /\ se'.for = "rows" /\ se'.strategy # "stream" => SeDescEach(se'.rows)
    BY <2>2, <2>5, <1>3, SeKeptRows DEF SeFan
  <2>7. ~se'.ok /\ se'.for # "full" => \A m \in SeNodes \ se'.left : <<m, se'.table>> \in seMissed'
    <3>1. SUFFICES ASSUME ~se.ok, se.for # "full", NEW m \in SeNodes, m \notin se.left \ {n}
                   PROVE  <<m, se.table>> \in seMissed'
      BY <2>2, <2>5
    <3>2. CASE m = n
      BY <3>1, <3>2, <2>0
    <3>3. CASE m # n
      BY <3>1, <3>3, <2>3, <1>3 DEF SeFan
    <3>4. QED
      BY <3>2, <3>3
  <2>8. ASSUME NEW r \in seHeld', SeSel(se', r), r.node \notin se'.left, r \notin Elems(se'.rows)
        PROVE  IF se'.for = "full" THEN r.node \in seBare'
               ELSE <<r.node, r.table>> \in seMissed' \/ SePart(se', se'.rows, r)
    <3>1. SeSel(se, r) /\ r \notin Elems(se.rows) /\ r.node \notin se.left \ {n} /\ r \in seHeld
      BY <2>8, <2>2, <2>3, SeKeptRows
    <3>2. r.table = se.table
      BY <3>1 DEF SeSel
    <3>3. CASE r.node = n
      BY <3>2, <3>3, <2>0, <2>5
    <3>4. CASE r.node # n
      <4>1. IF se.for = "full" THEN r.node \in seBare
            ELSE <<r.node, r.table>> \in seMissed \/ SePart(se, se.rows, r)
        BY <3>1, <3>4, <1>3 DEF SeFan
      <4>2. SePart(se, se.rows, r) => SePart(se', se'.rows, r)
        BY <2>2, <2>5 DEF SePart
      <4>3. QED
        BY <4>1, <4>2, <2>3, <2>5
    <3>5. QED
      BY <3>3, <3>4
  <2>9. SeFan(se', seHeld', seMissed', seBare')
    BY <2>6, <2>7, <2>8 DEF SeFan
  <2>10. QED
    BY <1>2, <2>1, <2>2, <2>4, <2>9 DEF SeReqOk
<1>7. QED
  BY <1>0, <1>5, <1>6

SeSliceT == [win : SeNatPairs, incl : BOOLEAN]

\* The slices of the window `asked', newest first.
SeSlices(asked, cs) ==
    /\ cs \in Seq(SeSliceT) /\ cs # <<>>
    /\ \/ Len(cs) = 1 /\ cs[1].win = asked /\ cs[1].incl
       \/ /\ cs[1].win[2] = asked[2] /\ cs[1].incl /\ cs[Len(cs)].win[1] = asked[1]
          /\ asked # <<0, 0>>
          /\ \A i \in 1 .. Len(cs) : cs[i].win[1] < cs[i].win[2] /\ asked[1] <= cs[i].win[1]
          /\ \A i \in 2 .. Len(cs) : ~cs[i].incl /\ cs[i].win[2] = cs[i - 1].win[1]

LEMMA SeQuotient ==
    ASSUME NEW x \in Nat, NEW y \in Nat, y > 0
    PROVE  x \div y \in Nat /\ y * (x \div y) <= x /\ x < y * (x \div y) + y
OBVIOUS

LEMMA SeSplit ==
    ASSUME NEW asked \in SeNatPairs
    PROVE  SeSlices(asked, splitSearchTimeRange(asked))
<1> DEFINE a == asked[1]
           b == asked[2]
           edge(i) == IF b > a + i * SeChunk THEN b - i * SeChunk ELSE a
           n == (b - a + SeChunk - 1) \div SeChunk
           cs == splitSearchTimeRange(asked)
<1>1. a \in Nat /\ b \in Nat /\ SeChunk \in Nat \ {0}
  BY SearchAssumption DEF SeNatPairs
<1>2. cs = IF asked = <<0, 0>> \/ b - a <= SeChunk THEN <<[win |-> asked, incl |-> TRUE]>>
           ELSE [i \in 1 .. n |-> [win |-> <<edge(i), edge(i - 1)>>, incl |-> i = 1]]
  BY DEF splitSearchTimeRange
<1>3. CASE asked = <<0, 0>> \/ b - a <= SeChunk
  <2>1. cs = <<[win |-> asked, incl |-> TRUE]>>
    BY <1>2, <1>3
  <2>2. [win |-> asked, incl |-> TRUE] \in SeSliceT
    BY DEF SeSliceT
  <2> HIDE DEF cs
  <2>3. cs \in Seq(SeSliceT) /\ Len(cs) = 1 /\ cs[1] = [win |-> asked, incl |-> TRUE] /\ cs # <<>>
    BY <2>1, <2>2
  <2>4. SeSlices(asked, cs)
    BY <2>3 DEF SeSlices
  <2>5. QED
    BY <2>4 DEF cs
<1>4. CASE ~(asked = <<0, 0>> \/ b - a <= SeChunk)
  <2>1. cs = [i \in 1 .. n |-> [win |-> <<edge(i), edge(i - 1)>>, incl |-> i = 1]]
    BY <1>2, <1>4
  <2> PICK C : C = SeChunk
    OBVIOUS
  <2> PICK d : d = b - a
    OBVIOUS
  <2>2. C \in Nat /\ C > 0 /\ d \in Nat /\ d > C /\ b = a + d
    BY <1>1, <1>4
  <2>3. n \in Nat /\ C * n <= d + C - 1 /\ d + C - 1 < C * n + C
    <3> PICK e \in Nat : e = d + C - 1
      BY <2>2
    <3>1. n = e \div C
      BY <2>2
    <3>2. e \div C \in Nat /\ C * (e \div C) <= e /\ e < C * (e \div C) + C
      BY <2>2, SeQuotient
    <3> HIDE DEF n
    <3>3. QED
      BY <3>1, <3>2
  <2> HIDE DEF n
  <2>4. n > 1 /\ C * n >= d
    <3>1. C * n >= d
      <4>1. C * n \in Nat
        BY <2>2, <2>3
      <4>2. QED
        BY <4>1, <2>2, <2>3
    <3>2. ASSUME n <= 1 PROVE FALSE
      <4>1. C * n <= C
        BY <3>2, <2>2, <2>3
      <4>2. QED
        BY <4>1, <3>1, <2>2, <2>3
    <3>3. QED
      BY <3>1, <3>2, <2>3
  <2>5. \A i \in 0 .. n - 1 : i * C < d
    <3>1. SUFFICES ASSUME NEW i \in 0 .. n - 1 PROVE i * C < d
      OBVIOUS
    <3>2. i \in Nat /\ i + 1 <= n
      BY <2>3
    <3>3. (i + 1) * C <= n * C
      BY <3>2, <2>2, <2>3
    <3>4. (i + 1) * C = i * C + C /\ i * C \in Nat /\ n * C = C * n /\ C * n \in Nat
      BY <3>2, <2>2, <2>3
    <3>5. QED
      BY <3>3, <3>4, <2>2, <2>3
  <2>6. \A i \in 0 .. n - 1 : edge(i) = b - i * C /\ edge(i) > a /\ edge(i) <= b
    <3>1. SUFFICES ASSUME NEW i \in 0 .. n - 1
                   PROVE edge(i) = b - i * C /\ edge(i) > a /\ edge(i) <= b
      OBVIOUS
    <3>2. i * C < d /\ i * C \in Nat
      BY <2>2, <2>5
    <3>3. b > a + i * C
      BY <3>2, <2>2, <1>1
    <3>4. edge(i) = b - i * C
      BY <3>3
    <3>5. QED
      BY <3>2, <3>3, <3>4, <1>1
  <2>7. edge(n) = a
    BY <2>4, <2>2, <2>3, <1>1
  <2>8. edge(0) = b
    <3>1. 0 \in 0 .. n - 1 /\ 0 * C = 0
      BY <2>4, <2>3, <2>2
    <3>2. QED
      BY <3>1, <2>6, <1>1
  <2>9. \A i \in 1 .. n : edge(i) < edge(i - 1) /\ a <= edge(i)
    <3>1. SUFFICES ASSUME NEW i \in 1 .. n PROVE edge(i) < edge(i - 1) /\ a <= edge(i)
      OBVIOUS
    <3>2. i \in Nat /\ i - 1 \in 0 .. n - 1
      BY <2>3
    <3>3. edge(i - 1) = b - (i - 1) * C /\ edge(i - 1) > a
      BY <3>2, <2>6
    <3>4. CASE i = n
      BY <3>3, <3>4, <2>7, <1>1
    <3>5. CASE i # n
      <4>1. i \in 0 .. n - 1
        BY <3>5, <3>2, <2>3
      <4>2. edge(i) = b - i * C /\ edge(i) > a
        BY <4>1, <2>6
      <4>3. i * C = (i - 1) * C + C /\ (i - 1) * C \in Nat
        BY <3>2, <2>2
      <4> HIDE DEF edge
      <4>4. QED
        BY <4>2, <4>3, <3>3, <2>2, <1>1
    <3>6. QED
      BY <3>4, <3>5
  <2>10. \A i \in 0 .. n : edge(i) \in Nat
    BY <2>6, <2>7, <1>1, <2>2, <2>3
  <2> HIDE DEF edge
  <2>11. \A i \in 1 .. n : /\ cs[i].win[1] = edge(i) /\ cs[i].win[2] = edge(i - 1)
                           /\ i = 1 => cs[i].incl
                           /\ i # 1 => ~cs[i].incl
    <3>1. SUFFICES ASSUME NEW i \in 1 .. n
                   PROVE  /\ cs[i].win[1] = edge(i) /\ cs[i].win[2] = edge(i - 1)
                          /\ i = 1 => cs[i].incl
                          /\ i # 1 => ~cs[i].incl
      OBVIOUS
    <3>2. cs[i] = [win |-> <<edge(i), edge(i - 1)>>, incl |-> i = 1]
      BY <2>1
    <3>8. cs[i].incl = (i = 1)
      BY <2>1
    <3> HIDE DEF cs
    <3>3. cs[i].win = <<edge(i), edge(i - 1)>>
      BY <3>2
    <3>4. cs[i].win[1] = edge(i) /\ cs[i].win[2] = edge(i - 1)
      BY <3>3
    <3>5. (i = 1 => cs[i].incl) /\ (i # 1 => ~cs[i].incl)
      BY <3>8, Zenon
    <3>6. QED
      BY <3>4, <3>5
  <2>12. \A i \in 1 .. n : cs[i] \in SeSliceT
    <3>1. SUFFICES ASSUME NEW i \in 1 .. n PROVE cs[i] \in SeSliceT
      OBVIOUS
    <3>2. i \in 0 .. n /\ i - 1 \in 0 .. n
      BY <2>3
    <3>3. edge(i) \in Nat /\ edge(i - 1) \in Nat
      BY <3>2, <2>10
    <3>4. <<edge(i), edge(i - 1)>> \in SeNatPairs /\ (i = 1) \in BOOLEAN
      BY <3>3 DEF SeNatPairs
    <3>5. QED
      BY <3>4, <2>1 DEF SeSliceT
  <2>13. DOMAIN cs = 1 .. n /\ cs \in [1 .. n -> SeSliceT]
    BY <2>1, <2>12
  <2> HIDE DEF cs
  <2>14. cs \in Seq(SeSliceT) /\ Len(cs) = n /\ cs # <<>>
    <3>1. cs \in Seq(SeSliceT)
      BY <2>13, <2>3, SeqDef
    <3>2. DOMAIN cs = 1 .. Len(cs) /\ Len(cs) \in Nat
      BY <3>1, LenProperties
    <3>3. Len(cs) = n
      <4>1. 1 .. n = 1 .. Len(cs)
        BY <3>2, <2>13
      <4> HIDE DEF cs
      <4> PICK l : l = Len(cs)
        OBVIOUS
      <4>0. l \in Nat
        BY <3>2
      <4>2. 1 .. n = 1 .. l
        BY <4>1
      <4>3. n \in 1 .. n /\ n \in Nat
        BY <2>3, <2>4
      <4>6. n \in 1 .. l /\ l >= n
        BY <4>0, <4>2, <4>3
      <4>4. l \in 1 .. n
        <5>1. l \in 1 .. l
          BY <4>0, <4>6, <2>3, <2>4
        <5>2. QED
          BY <5>1, <4>2
      <4>5. QED
        BY <4>0, <4>6, <4>4, <2>3
    <3>4. cs # <<>>
      <4>1. Len(cs) # 0
        BY <3>3, <2>4, <2>3
      <4>2. QED
        BY <4>1, EmptySeq
    <3>5. QED
      BY <3>1, <3>3, <3>4
  <2>15. cs[1].win[2] = b /\ cs[1].incl /\ cs[Len(cs)].win[1] = a
    <3>1. 1 \in 1 .. n /\ n \in 1 .. n /\ 1 - 1 = 0
      BY <2>4, <2>3
    <3>2. cs[1].win[2] = edge(1 - 1)
      BY <2>11, <3>1
    <3>3. cs[1].win[2] = edge(0) /\ cs[1].incl /\ cs[n].win[1] = edge(n)
      BY <2>11, <3>1, <3>2
    <3>4. QED
      BY <3>3, <2>14, <2>7, <2>8
  <2>16. \A i \in 1 .. Len(cs) : cs[i].win[1] < cs[i].win[2] /\ a <= cs[i].win[1]
    BY <2>11, <2>14, <2>9
  <2>17. \A i \in 2 .. Len(cs) : ~cs[i].incl /\ cs[i].win[2] = cs[i - 1].win[1]
    <3>1. SUFFICES ASSUME NEW i \in 2 .. n PROVE ~cs[i].incl /\ cs[i].win[2] = cs[i - 1].win[1]
      BY <2>14
    <3>2. i \in 1 .. n /\ i - 1 \in 1 .. n /\ i # 1
      BY <2>3
    <3>3. QED
      BY <3>2, <2>11
  <2>18. SeSlices(asked, cs)
    BY <2>14, <2>15, <2>16, <2>17, <1>4 DEF SeSlices
  <2>19. QED
    BY <2>18 DEF cs
<1>5. QED
  BY <1>3, <1>4

LEMMA SeHeadTail ==
    ASSUME NEW S, NEW s \in Seq(S), s # <<>>
    PROVE  /\ Len(s) \in Nat /\ Len(s) >= 1 /\ DOMAIN s = 1 .. Len(s)
           /\ Head(s) = s[1] /\ Head(s) \in S
           /\ Tail(s) \in Seq(S) /\ Len(Tail(s)) = Len(s) - 1
           /\ DOMAIN Tail(s) = 1 .. Len(s) - 1
           /\ \A i \in 1 .. Len(s) - 1 : Tail(s)[i] = s[i + 1] /\ i + 1 \in 1 .. Len(s)
<1>1. Len(s) \in Nat /\ Len(s) >= 1 /\ DOMAIN s = 1 .. Len(s)
  BY LenProperties, EmptySeq
<1>2. Head(s) = s[1]
  OBVIOUS
<1>3. /\ Head(s) \in S /\ Tail(s) \in Seq(S) /\ Len(Tail(s)) = Len(s) - 1
      /\ \A i \in 1 .. Len(Tail(s)) : Tail(s)[i] = s[i + 1]
  BY HeadTailProperties
<1>4. DOMAIN Tail(s) = 1 .. Len(s) - 1
  BY <1>3, LenProperties
<1>5. \A i \in 1 .. Len(s) - 1 : i + 1 \in 1 .. Len(s)
  BY <1>1
<1>6. QED
  BY <1>1, <1>2, <1>3, <1>4, <1>5

LEMMA SeTailTables ==
    ASSUME NEW s \in Seq(SeTableNames), s # <<>>, SeOnce(s)
    PROVE  /\ SeOnce(Tail(s)) /\ Head(s) \notin Elems(Tail(s))
           /\ Elems(s) = Elems(Tail(s)) \cup {Head(s)}
<1>1. /\ Len(s) \in Nat /\ Len(s) >= 1 /\ DOMAIN s = 1 .. Len(s)
      /\ Head(s) = s[1]
      /\ DOMAIN Tail(s) = 1 .. Len(s) - 1
      /\ \A i \in 1 .. Len(s) - 1 : Tail(s)[i] = s[i + 1] /\ i + 1 \in 1 .. Len(s)
  BY SeHeadTail
<1>2. ASSUME NEW i \in DOMAIN Tail(s), NEW j \in DOMAIN Tail(s), Tail(s)[i] = Tail(s)[j] PROVE i = j
  <2>1. i \in 1 .. Len(s) - 1 /\ j \in 1 .. Len(s) - 1
    BY <1>1
  <2>2. s[i + 1] = s[j + 1] /\ i + 1 \in DOMAIN s /\ j + 1 \in DOMAIN s
    BY <2>1, <1>1, <1>2
  <2>3. i + 1 = j + 1
    BY <2>2 DEF SeOnce
  <2>4. QED
    BY <2>1, <2>3, <1>1
<1>3. ASSUME NEW i \in DOMAIN Tail(s), Head(s) = Tail(s)[i] PROVE FALSE
  <2>1. i \in 1 .. Len(s) - 1
    BY <1>1
  <2>2. s[1] = s[i + 1] /\ i + 1 \in DOMAIN s /\ 1 \in DOMAIN s
    BY <2>1, <1>1, <1>3
  <2>3. 1 = i + 1
    BY <2>2 DEF SeOnce
  <2>4. QED
    BY <2>1, <2>3, <1>1
<1>4. Elems(Tail(s)) \subseteq Elems(s) /\ Head(s) \in Elems(s)
  BY <1>1 DEF Elems
<1>5. ASSUME NEW x \in Elems(s) PROVE x = Head(s) \/ x \in Elems(Tail(s))
  <2>1. PICK i \in 1 .. Len(s) : x = s[i]
    BY <1>1 DEF Elems
  <2>2. CASE i = 1
    BY <2>1, <2>2, <1>1
  <2>3. CASE i # 1
    <3>1. i - 1 \in 1 .. Len(s) - 1 /\ i - 1 + 1 = i
      BY <2>3, <1>1
    <3>2. Tail(s)[i - 1] = s[i]
      BY <3>1, <1>1
    <3>3. QED
      BY <3>1, <3>2, <2>1, <1>1 DEF Elems
  <2>4. QED
    BY <2>2, <2>3
<1>6. QED
  BY <1>2, <1>3, <1>4, <1>5 DEF SeOnce, Elems

-----------------------------------------------------------------------------
(* A table begins. *)

\* p asks for the same as q and has the same rows of the tables that are done.
SeSameAll(q, p) ==
    /\ p.kind = q.kind /\ p.asked = q.asked /\ p.strategy = q.strategy /\ p.lazy = q.lazy
    /\ p.want = q.want /\ p.ids = q.ids /\ p.wanted = q.wanted /\ p.all = q.all /\ p.full = q.full

LEMMA SeAllSame ==
    ASSUME NEW q, NEW p, SeSameAll(q, p), NEW H, NEW M, NEW B, NEW rest, SeAll(q, rest, H, M, B)
    PROVE  SeAll(p, rest, H, M, B)
<1>1. \A r : SeAsk(p, r) <=> SeAsk(q, r)
  BY DEF SeSameAll, SeAsk
<1>2. \A s, r : SeLimited(p, s, r) <=> SeLimited(q, s, r)
  BY DEF SeSameAll, SeLimited
<1>3. p.all = q.all /\ p.lazy = q.lazy /\ p.full = q.full
  BY DEF SeSameAll
<1>4. SeAllSound(p, rest)
  BY <1>1, <1>3 DEF SeAll, SeAllSound
<1>5. SeAllComplete(p, rest, H, M)
  BY <1>1, <1>2, <1>3 DEF SeAll, SeAllComplete, SeExcused
<1>6. SeBareOk(p, p.all, H, B)
  BY <1>3 DEF SeAll, SeBareOk
<1>7. QED
  BY <1>4, <1>5, <1>6 DEF SeAll

SeStarted(q, p) ==
    LET slices == splitSearchTimeRange(q.asked)
        sliced == q.kind = "search" /\ q.strategy = "chunked"
    IN  /\ p \in SeReqT /\ p.at = "route" /\ SeSameAll(q, p)
        /\ p.table = Head(q.tables) /\ p.tables = Tail(q.tables) /\ p.got = <<>>
        /\ p.for = CASE q.kind = "search" -> "rows" [] q.kind = "messages" -> "base" [] OTHER -> "last"
        /\ sliced => p.win = slices[1].win /\ p.incl = slices[1].incl /\ p.chunks = Tail(slices)
        /\ ~sliced => p.win = q.asked /\ p.incl /\ p.chunks = <<>>

LEMMA SeStarts ==
    ASSUME NEW q \in SeReqT, q.tables # <<>>
    PROVE  SeStarted(q, StartTable(q))
<1>1. PICK cs : cs = splitSearchTimeRange(q.asked)
  OBVIOUS
<1>2. PICK chunks : chunks = IF q.kind = "search" /\ q.strategy = "chunked"
                             THEN cs ELSE <<[win |-> q.asked, incl |-> TRUE]>>
  OBVIOUS
<1>3. PICK for : for = CASE q.kind = "search" -> "rows" [] q.kind = "messages" -> "base" [] OTHER -> "last"
  OBVIOUS
<1>4. PICK hd : hd = Head(q.tables)
  OBVIOUS
<1>5. PICK tl : tl = Tail(q.tables)
  OBVIOUS
<1>6. PICK w : w = chunks[1].win
  OBVIOUS
<1>7. PICK inc : inc = chunks[1].incl
  OBVIOUS
<1>8. PICK ch : ch = Tail(chunks)
  OBVIOUS
<1>9. PICK none : none = <<>>
  OBVIOUS
<1>10. StartTable(q) = [q EXCEPT !.at = "route", !.table = hd, !.tables = tl,
                                 !.win = w, !.incl = inc, !.chunks = ch, !.got = none, !.for = for]
  BY <1>1, <1>2, <1>3, <1>4, <1>5, <1>6, <1>7, <1>8, <1>9 DEF StartTable
<1>11. q.asked \in SeNatPairs /\ q.tables \in Seq(SeTableNames)
  BY DEF SeReqT
<1>12. [win |-> q.asked, incl |-> TRUE] \in SeSliceT
  BY <1>11 DEF SeSliceT
<1>13. chunks \in Seq(SeSliceT) /\ chunks # <<>>
  <2>1. cs \in Seq(SeSliceT) /\ cs # <<>>
    BY <1>1, <1>11, SeSplit DEF SeSlices
  <2>2. QED
    BY <2>1, <1>2, <1>12
<1>14. chunks[1] \in SeSliceT /\ ch \in Seq(SeSliceT)
  BY <1>8, <1>13, SeHeadTail
<1>15. w \in SeNatPairs /\ inc \in BOOLEAN
  BY <1>6, <1>7, <1>14 DEF SeSliceT
<1>16. hd \in SeTableNames /\ tl \in Seq(SeTableNames)
  BY <1>4, <1>5, <1>11, SeHeadTail
<1>17. for \in SeFors
  BY <1>3 DEF SeFors
<1>18. none \in Seq(SeRowSet)
  BY <1>9, EmptySeq
<1>19. PICK p : p = StartTable(q)
  OBVIOUS
<1>20. p \in SeReqT
  <2>1. PICK q1 : q1 = [q EXCEPT !.at = "route", !.table = hd, !.tables = tl]
    OBVIOUS
  <2>2. PICK q2 : q2 = [q1 EXCEPT !.win = w, !.incl = inc]
    OBVIOUS
  <2>3. PICK q3 : q3 = [q2 EXCEPT !.chunks = ch]
    OBVIOUS
  <2>4. q1 \in SeReqT
    BY ZenonT(60), <2>1, <1>16 DEF SeReqT
  <2>5. q2 \in SeReqT
    BY ZenonT(60), <2>2, <2>4, <1>15 DEF SeReqT
  <2>6. q3 \in SeReqT
    BY <2>3, <2>5, <1>14 DEF SeReqT, SeSliceT
  <2>7. p = [q3 EXCEPT !.got = none, !.for = for]
    BY <1>10, <1>19, <2>1, <2>2, <2>3
  <2>8. QED
    BY <2>6, <2>7, <1>17, <1>18 DEF SeReqT
<1>21. p.at = "route" /\ SeSameAll(q, p)
  BY <1>10, <1>19 DEF SeReqT, SeSameAll
<1>22. p.table = hd /\ p.tables = tl /\ p.got = none /\ p.for = for /\ p.win = w /\ p.incl = inc /\ p.chunks = ch
  BY <1>10, <1>19 DEF SeReqT
<1>23. ASSUME q.kind = "search" /\ q.strategy = "chunked"
       PROVE  p.win = cs[1].win /\ p.incl = cs[1].incl /\ p.chunks = Tail(cs)
  <2>1. chunks = cs
    BY <1>2, <1>23
  <2>2. QED
    BY <2>1, <1>6, <1>7, <1>8, <1>22
<1>24. ASSUME ~(q.kind = "search" /\ q.strategy = "chunked")
       PROVE  p.win = q.asked /\ p.incl /\ p.chunks = <<>>
  <2>1. chunks = <<[win |-> q.asked, incl |-> TRUE]>>
    BY <1>2, <1>24
  <2>2. chunks[1].win = q.asked /\ chunks[1].incl /\ Len(chunks) = 1
    BY <2>1
  <2>3. ch \in Seq(SeSliceT) /\ Len(ch) = 0
    BY <2>2, <1>8, <1>13, SeHeadTail
  <2>4. ch = <<>>
    BY <2>3, EmptySeq
  <2>5. QED
    BY <2>2, <2>4, <1>6, <1>7, <1>22
<1>25. SeStarted(q, p)
  BY <1>1, <1>3, <1>4, <1>5, <1>9, <1>20, <1>21, <1>22, <1>23, <1>24 DEF SeStarted
<1>26. QED
  BY <1>19, <1>25

\* What has to hold for a further table to be asked for.
SeReady(q) ==
    /\ q.tables # <<>> /\ SeOnce(q.tables) /\ Elems(q.tables) \subseteq q.want
    /\ q.lazy => q.kind = "search"
    /\ q.strategy # "full" => q.kind = "search"

LEMMA SeFirstSlice ==
    ASSUME NEW q \in SeReqT, q.tables # <<>>, NEW p, SeStarted(q, p),
           NEW H, H \subseteq SeRowSet, NEW M,
           q.kind = "search", q.strategy = "chunked"
    PROVE  SeSlice(p, H, M)
<1> PICK cs : cs = splitSearchTimeRange(q.asked)
  OBVIOUS
<1>1. p.win = cs[1].win /\ p.incl = cs[1].incl /\ p.chunks = Tail(cs) /\ p.got = <<>> /\ p.asked = q.asked
  BY DEF SeStarted, SeSameAll
<1>2. q.asked \in SeNatPairs
  BY DEF SeReqT
<1>3. SeSlices(p.asked, cs)
  BY <1>1, <1>2, SeSplit
<1>4. cs \in Seq(SeSliceT) /\ cs # <<>>
  BY <1>3 DEF SeSlices
<1>5. /\ Len(cs) \in Nat /\ Len(cs) >= 1 /\ p.chunks \in Seq(SeSliceT) /\ Len(p.chunks) = Len(cs) - 1
      /\ \A i \in 1 .. Len(cs) - 1 : p.chunks[i] = cs[i + 1] /\ i + 1 \in 1 .. Len(cs)
  BY <1>1, <1>4, SeHeadTail
<1>6. p.asked[1] \in Nat /\ p.asked[2] \in Nat
  BY <1>1, <1>2 DEF SeNatPairs
<1>7. \A i \in 1 .. Len(cs) : cs[i].win[1] \in Nat /\ cs[i].win[2] \in Nat /\ cs[i].win \in SeNatPairs
  <2>1. SUFFICES ASSUME NEW i \in 1 .. Len(cs)
                 PROVE  cs[i].win[1] \in Nat /\ cs[i].win[2] \in Nat /\ cs[i].win \in SeNatPairs
    OBVIOUS
  <2>2. cs[i] \in SeSliceT
    BY <1>4, ElementOfSeq
  <2>3. cs[i].win \in SeNatPairs
    BY <2>2 DEF SeSliceT
  <2>4. QED
    BY <2>3 DEF SeNatPairs
<1>8. p.win[1] \in Nat /\ p.win[2] \in Nat /\ p.win \in SeNatPairs
  BY <1>1, <1>5, <1>7
<1>9. Elems(p.got) = {} /\ SeOnce(p.got) /\ SeDescEach(p.got) /\ Len(p.got) < SeLimit
  <2>1. Elems(<<>>) = {} /\ SeOnce(<<>>) /\ SeDescEach(<<>>)
    BY DEF Elems, SeOnce, SeDescEach
  <2>2. Len(<<>>) = 0 /\ SeLimit \in Nat \ {0}
    BY EmptySeq, SearchAssumption
  <2>3. QED
    BY <2>1, <2>2, <1>1
<1>10. /\ p.incl /\ p.win[2] = p.asked[2] /\ p.win[1] >= p.asked[1]
       /\ p.asked = <<0, 0>> <=> p.win = <<0, 0>>
       /\ p.chunks # <<>> => p.win[1] <= p.win[2] /\ p.win # <<0, 0>>
  <2>1. CASE Len(cs) = 1 /\ cs[1].win = p.asked /\ cs[1].incl
    <3>1. Len(p.chunks) = 0
      BY <2>1, <1>5
    <3>2. p.chunks = <<>>
      BY <3>1, <1>5, EmptySeq
    <3>3. p.win = p.asked /\ p.incl
      BY <2>1, <1>1
    <3>4. QED
      BY <3>2, <3>3, <1>6
  <2>2. CASE /\ cs[1].win[2] = p.asked[2] /\ cs[1].incl
             /\ p.asked # <<0, 0>>
             /\ \A i \in 1 .. Len(cs) : cs[i].win[1] < cs[i].win[2] /\ p.asked[1] <= cs[i].win[1]
    <3>1. p.incl /\ p.win[2] = p.asked[2]
      BY <2>2, <1>1
    <3>2. p.win[1] < p.win[2] /\ p.asked[1] <= p.win[1]
      BY <2>2, <1>1, <1>5
    <3>3. p.win # <<0, 0>>
      BY <3>2
    <3>4. QED
      BY <2>2, <3>1, <3>2, <3>3, <1>6, <1>8
  <2>3. QED
    BY <2>1, <2>2, <1>3 DEF SeSlices
<1>11. SeChain(p)
  <2> DEFINE low(i) == IF i = 0 THEN p.win[1] ELSE p.chunks[i].win[1]
  <2>1. \A i \in 0 .. Len(cs) - 1 : low(i) = cs[i + 1].win[1]
    <3>1. SUFFICES ASSUME NEW i \in 0 .. Len(cs) - 1 PROVE low(i) = cs[i + 1].win[1]
      OBVIOUS
    <3>2. CASE i = 0
      BY <3>2, <1>1
    <3>3. CASE i # 0
      <4>1. i \in 1 .. Len(cs) - 1
        BY <3>3, <1>5
      <4>2. QED
        BY <4>1, <3>3, <1>5
    <3>4. QED
      BY <3>2, <3>3
  <2> HIDE DEF low
  <2>2. low(Len(p.chunks)) = cs[Len(cs)].win[1]
    <3>1. Len(cs) - 1 \in 0 .. Len(cs) - 1 /\ Len(cs) - 1 + 1 = Len(cs)
      BY <1>5
    <3>2. low(Len(cs) - 1) = cs[Len(cs) - 1 + 1].win[1]
      BY <2>1, <3>1
    <3>3. QED
      BY <3>1, <3>2, <1>5
  <2>3. cs[Len(cs)].win[1] = p.asked[1]
    BY <1>3 DEF SeSlices
  <2>4. ASSUME NEW i \in 1 .. Len(p.chunks)
        PROVE  /\ p.chunks[i].win[2] = low(i - 1)
               /\ p.chunks[i].win[1] < p.chunks[i].win[2]
               /\ p.asked[1] <= p.chunks[i].win[1]
               /\ ~p.chunks[i].incl
    <3>1. i \in 1 .. Len(cs) - 1 /\ i - 1 \in 0 .. Len(cs) - 1 /\ i + 1 \in 2 .. Len(cs) /\ i + 1 \in 1 .. Len(cs)
      BY <1>5
    <3>2. Len(cs) # 1 /\ i + 1 - 1 = i /\ i - 1 + 1 = i
      BY <3>1, <1>5
    <3>3. p.chunks[i] = cs[i + 1] /\ low(i - 1) = cs[i].win[1]
      <4>1. p.chunks[i] = cs[i + 1]
        BY <3>1, <1>5
      <4>2. low(i - 1) = cs[i - 1 + 1].win[1]
        BY SMTT(30), <3>1, <2>1
      <4>3. QED
        BY <4>1, <4>2, <3>2
    <3>4. /\ \A k \in 1 .. Len(cs) : cs[k].win[1] < cs[k].win[2] /\ p.asked[1] <= cs[k].win[1]
          /\ \A k \in 2 .. Len(cs) : ~cs[k].incl /\ cs[k].win[2] = cs[k - 1].win[1]
      BY <3>2, <1>3 DEF SeSlices
    <3>5. cs[i + 1].win[1] < cs[i + 1].win[2] /\ p.asked[1] <= cs[i + 1].win[1]
      BY <3>1, <3>4
    <3>6. ~cs[i + 1].incl /\ cs[i + 1].win[2] = cs[i + 1 - 1].win[1]
      BY <3>1, <3>4
    <3>7. QED
      BY <3>2, <3>3, <3>5, <3>6
  <2>5. QED
    BY <2>2, <2>3, <2>4 DEF SeChain, low
<1>12. ASSUME NEW r \in H, SeOf(p, r), SeAbove(p, r) PROVE FALSE
  <2>1. p.win # <<0, 0>> /\ r.t > p.win[2]
    BY <1>10, <1>12 DEF SeAbove
  <2>2. p.asked # <<0, 0>>
    BY <2>1, <1>10
  <2>3. r.t <= p.asked[2] /\ p.asked[1] <= r.t
    BY <2>2, <1>12 DEF SeOf, SeAsk
  <2>4. r.t \in Nat
    BY <1>12, SeRowT
  <2>5. QED
    BY <2>1, <2>3, <2>4, <1>10, <1>6
<1>13. QED
  BY <1>1, <1>6, <1>8, <1>9, <1>10, <1>11, <1>12 DEF SeSlice

LEMMA SeStartOk ==
    ASSUME NEW q \in SeReqT, SeReady(q), NEW H, H \subseteq SeRowSet, NEW M, NEW B,
           SeAll(q, Elems(q.tables), H, M, B)
    PROVE  SeReqOk(StartTable(q), H, M, B)
<1> PICK p : p = StartTable(q)
  OBVIOUS
<1>1. SeStarted(q, p) /\ q.tables # <<>> /\ q.tables \in Seq(SeTableNames)
  BY SeStarts DEF SeReady, SeReqT
<1>2. /\ SeOnce(Tail(q.tables)) /\ Head(q.tables) \notin Elems(Tail(q.tables))
      /\ Elems(q.tables) = Elems(Tail(q.tables)) \cup {Head(q.tables)}
  BY <1>1, SeTailTables DEF SeReady
<1>3. /\ p \in SeReqT /\ p.at = "route" /\ SeSameAll(q, p)
      /\ p.table = Head(q.tables) /\ p.tables = Tail(q.tables) /\ p.got = <<>>
  BY <1>1 DEF SeStarted
<1>4. p.kind = q.kind /\ p.lazy = q.lazy /\ p.strategy = q.strategy /\ p.want = q.want
      /\ p.asked = q.asked
  BY <1>3 DEF SeSameAll
<1>5. p.kind \in {"search", "messages", "message", "detail", "qos"}
  BY <1>3 DEF SeReqT
<1>6. p.for = CASE p.kind = "search" -> "rows" [] p.kind = "messages" -> "base" [] OTHER -> "last"
  BY <1>1, <1>4 DEF SeStarted
<1>7. /\ p.for = "rows" <=> p.kind = "search"
      /\ p.for = "base" <=> p.kind = "messages"
      /\ p.for \in {"rows", "base", "last"}
  BY <1>5, <1>6
<1>8. SeShape(p)
  <2>1. Elems(p.tables) \subseteq p.want /\ p.table \in p.want /\ p.table \notin Elems(p.tables) /\ SeOnce(p.tables)
    BY <1>2, <1>3, <1>4 DEF SeReady
  <2>2. QED
    BY <2>1, <1>4, <1>7 DEF SeShape, SeReady
<1>9. SeRest(p) = Elems(q.tables)
  BY <1>2, <1>3, <1>7 DEF SeRest
<1>10. SeAll(p, SeRest(p), H, M, B)
  BY <1>3, <1>9, SeAllSame
<1>11. SeWindow(p, H, M)
  <2>1. p.for = "rows" /\ p.strategy = "chunked" => SeSlice(p, H, M)
    BY <1>1, <1>4, <1>7, SeFirstSlice
  <2>2. ~(p.for = "rows" /\ p.strategy = "chunked") => p.win = p.asked /\ p.incl
    BY <1>1, <1>4, <1>7 DEF SeStarted
  <2>3. QED
    BY <2>1, <2>2, <1>7 DEF SeWindow
<1>12. SeReqOk(p, H, M, B)
  BY <1>3, <1>8, <1>10, <1>11 DEF SeReqOk, SeQuery
<1>13. QED
  BY <1>12

\* FinishTable in two parts: the rows are taken, and then the request goes on.
SeTake(q, s, good) ==
    [q EXCEPT !.all = @ \o s, !.served = IF good THEN @ + 1 ELSE @, !.failed = @ \/ ~good]
SeMerged(r) ==
    CASE r.kind = "search" /\ Several(r) -> Cut(ByTime(r.all, "DESC"), SeLimit)
      [] r.kind = "messages" /\ Several(r) -> ByTime(r.all, "ASC")
      [] r.kind = "message" -> Cut(r.all, 1)
      [] OTHER -> r.all
SeNothing(r) == IF r.kind = "search" THEN r.served = 0 ELSE r.all = <<>>
SeEnd(r) ==
    IF r.tables # <<>> /\ ~(r.kind = "message" /\ r.all # <<>>) THEN StartTable(r)
    ELSE IF r.failed /\ SeNothing(r) /\ r.kind # "qos" THEN [r EXCEPT !.at = "error"]
    ELSE [r EXCEPT !.at = "done", !.all = SeMerged(r)]

LEMMA SeFinishIs ==
    ASSUME NEW q, NEW s, NEW good
    PROVE  FinishTable(q, s, good) = SeEnd(SeTake(q, s, good))
BY Zenon DEF FinishTable, SeEnd, SeTake, SeMerged, SeNothing

\* m is what becomes of the rows of r.
SeMergeOk(r, m) ==
    /\ m \in Seq(SeRowSet) /\ SeOnce(m) /\ Elems(m) \subseteq Elems(r.all)
    /\ \A x \in Elems(r.all) : x \notin Elems(m) =>
          \/ r.kind = "message" /\ Elems(m) # {}
          \/ r.kind = "search" /\ Len(m) >= SeLimit /\ \A y \in Elems(m) : y.t >= x.t
    /\ r.kind = "search" /\ Len(r.all) >= SeLimit => Len(m) >= SeLimit
    /\ r.kind = "messages" => SeAsc(m)
    /\ r.kind = "search" /\ (Several(r) \/ r.strategy = "stream") => SeDesc(m)
    /\ r.kind = "search" /\ r.strategy = "chunked" => SeDescEach(m)

LEMMA SeMerges ==
    ASSUME NEW r \in SeReqT, SeOnce(r.all), ~Several(r) => SeOrdered(r, r.all)
    PROVE  SeMergeOk(r, SeMerged(r))
<1>1. PICK m : m = SeMerged(r)
  OBVIOUS
<1>2. r.all \in Seq(SeRowSet) /\ SeLimit \in Nat /\ Len(r.all) \in Nat
  <2>1. r.all \in Seq(SeRowSet)
    BY DEF SeReqT
  <2>2. QED
    BY <2>1, LenProperties, SearchAssumption
<1>3. CASE r.kind = "search" /\ Several(r)
  <2>1. PICK t : t = ByTime(r.all, "DESC")
    OBVIOUS
  <2>2. SeSorted(r.all, "DESC", t)
    BY <2>1, <1>2, SeByTime
  <2>3. t \in Seq(SeRowSet) /\ Len(t) = Len(r.all) /\ Elems(t) = Elems(r.all) /\ SeOnce(t) /\ SeDesc(t)
    BY <2>2 DEF SeSorted
  <2>4. m = Cut(t, SeLimit)
    BY <1>1, <1>3, <2>1 DEF SeMerged
  <2>5. SeFirst(t, SeLimit, m)
    BY <2>3, <2>4, <1>2, SeCut
  <2>6. m \in Seq(SeRowSet) /\ SeOnce(m) /\ Elems(m) \subseteq Elems(r.all) /\ SeDesc(m)
    BY <2>3, <2>5 DEF SeFirst
  <2>7. Len(m) = IF Len(t) > SeLimit THEN SeLimit ELSE Len(t)
    BY <2>5 DEF SeFirst
  <2>8. Len(r.all) >= SeLimit => Len(m) >= SeLimit
    BY <2>3, <2>7, <1>2
  <2>9. ASSUME NEW x \in Elems(r.all), x \notin Elems(m)
        PROVE  Len(m) >= SeLimit /\ \A y \in Elems(m) : y.t >= x.t
    <3>1. Len(m) = SeLimit /\ \A y \in Elems(m) : y.t >= x.t
      BY <2>3, <2>5, <2>9 DEF SeFirst
    <3>2. QED
      BY <3>1, <1>2
  <2>10. SeDescEach(m)
    BY <2>6 DEF SeDesc, SeDescEach
  <2>11. QED
    BY <1>1, <1>3, <2>6, <2>8, <2>9, <2>10 DEF SeMergeOk
<1>4. CASE r.kind = "messages" /\ Several(r)
  <2>1. m = ByTime(r.all, "ASC")
    BY <1>1, <1>4 DEF SeMerged
  <2>2. SeSorted(r.all, "ASC", m)
    BY <2>1, <1>2, SeByTime
  <2>3. m \in Seq(SeRowSet) /\ Elems(m) = Elems(r.all) /\ SeOnce(m) /\ SeAsc(m)
    BY <2>2 DEF SeSorted
  <2>4. QED
    BY <1>1, <1>4, <2>3 DEF SeMergeOk
<1>5. CASE r.kind = "message"
  <2>1. m = Cut(r.all, 1)
    BY <1>1, <1>5 DEF SeMerged
  <2>2. SeFirst(r.all, 1, m)
    BY <2>1, <1>2, SeCut
  <2>3. m \in Seq(SeRowSet) /\ Elems(m) \subseteq Elems(r.all) /\ SeOnce(m)
    BY <2>2 DEF SeFirst
  <2>4. ASSUME NEW x \in Elems(r.all), x \notin Elems(m) PROVE Elems(m) # {}
    <3>1. Len(m) = 1
      BY <2>2, <2>4 DEF SeFirst
    <3>2. m[1] \in Elems(m)
      BY <3>1, <2>3, SeElems
    <3>3. QED
      BY <3>2
  <2>5. QED
    BY <1>1, <1>5, <2>3, <2>4 DEF SeMergeOk
<1>6. CASE ~(r.kind = "search" /\ Several(r)) /\ ~(r.kind = "messages" /\ Several(r)) /\ r.kind # "message"
  <2>1. m = r.all
    BY <1>1, <1>6 DEF SeMerged
  <2>2. r.kind \in {"search", "messages"} => SeOrdered(r, r.all)
    BY <1>6
  <2>3. QED
    BY <1>1, <1>2, <1>6, <2>1, <2>2 DEF SeMergeOk, SeOrdered
<1>7. QED
  BY <1>3, <1>4, <1>5, <1>6

SeDone(r) == [r EXCEPT !.at = "done", !.all = SeMerged(r)]

LEMMA SeAnswers ==
    ASSUME NEW r \in SeReqT, NEW H, NEW M, NEW B, SeAll(r, Elems(r.tables), H, M, B),
           ~Several(r) => SeOrdered(r, r.all),
           r.tables = <<>> \/ (r.kind = "message" /\ r.all # <<>>)
    PROVE  SeReqOk(SeDone(r), H, M, B)
<1>1. PICK m : m = SeMerged(r)
  OBVIOUS
<1>2. PICK p : p = [r EXCEPT !.at = "done", !.all = m]
  OBVIOUS
<1>3. SeMergeOk(r, m)
  BY <1>1, SeMerges DEF SeAll, SeAllSound
<1>4. m \in Seq(SeRowSet) /\ Elems(m) \subseteq Elems(r.all) /\ SeOnce(m)
  BY <1>3 DEF SeMergeOk
<1>5. p \in SeReqT
  BY <1>2, <1>4 DEF SeReqT
<1>6. /\ p.at = "done" /\ p.all = m /\ p.kind = r.kind /\ p.asked = r.asked /\ p.strategy = r.strategy
      /\ p.lazy = r.lazy /\ p.want = r.want /\ p.ids = r.ids /\ p.wanted = r.wanted /\ p.full = r.full
  BY <1>2 DEF SeReqT
<1>7. \A x : SeAsk(p, x) <=> SeAsk(r, x)
  BY <1>6 DEF SeAsk
<1>8. Several(p) <=> Several(r)
  BY <1>6 DEF Several
<1>9. \A x \in Elems(m) : SeAsk(p, x)
  BY <1>4, <1>7 DEF SeAll, SeAllSound
<1>10. ASSUME NEW x \in H, SeAsk(p, x), x \notin Elems(m) PROVE SeExcused(p, m, x, M)
  <2>1. SeAsk(r, x)
    BY <1>7, <1>10
  <2>2. CASE r.kind = "message" /\ r.all # <<>>
    <3>1. \A y \in Elems(r.all) : y = r.wanted
      BY <2>2 DEF SeAll, SeAllSound, SeAsk
    <3>2. x = r.wanted
      BY <2>1, <2>2 DEF SeAsk
    <3>3. r.all[1] \in Elems(r.all)
      <4>1. r.all \in Seq(SeRowSet)
        BY DEF SeReqT
      <4>2. Len(r.all) > 0 /\ Len(r.all) \in Nat /\ Elems(r.all) = {r.all[i] : i \in 1 .. Len(r.all)}
        BY <4>1, <2>2, SeElems
      <4>3. 1 \in 1 .. Len(r.all)
        BY <4>2
      <4>4. QED
        BY <4>2, <4>3
    <3>4. x \in Elems(r.all)
      BY <3>1, <3>2, <3>3
    <3>5. Elems(m) # {}
      BY <3>4, <1>3, <1>10, <2>2 DEF SeMergeOk
    <3>6. QED
      BY <3>1, <3>2, <3>5, <1>4, <1>10
  <2>3. CASE r.tables = <<>> /\ ~(r.kind = "message" /\ r.all # <<>>)
    <3>1. Elems(r.tables) = {}
      BY <2>3 DEF Elems
    <3>2. CASE x \in Elems(r.all)
      <4>1. r.kind # "message"
        <5>1. ASSUME r.all = <<>> PROVE FALSE
          BY <5>1, <3>2 DEF Elems
        <5>2. QED
          BY <5>1, <2>3
      <4>2. r.kind = "search" /\ Len(m) >= SeLimit /\ \A y \in Elems(m) : y.t >= x.t
        BY <4>1, <3>2, <1>3, <1>10 DEF SeMergeOk
      <4>3. QED
        BY <4>2, <1>6 DEF SeExcused, SeLimited, SeNoOlder
    <3>3. CASE x \notin Elems(r.all)
      <4>1. SeExcused(r, r.all, x, M)
        BY <3>1, <3>3, <2>1, <1>10 DEF SeAll, SeAllComplete
      <4>2. ASSUME SeLimited(r, r.all, x) PROVE SeLimited(p, m, x)
        <5>1. r.kind = "search" /\ Len(m) >= SeLimit
          BY <4>2, <1>3 DEF SeLimited, SeMergeOk
        <5>2. SeNoOlder(r.all, x) => SeNoOlder(m, x)
          BY <1>4 DEF SeNoOlder
        <5>3. QED
          BY <5>1, <5>2, <4>2, <1>6 DEF SeLimited
      <4>3. QED
        BY <4>1, <4>2 DEF SeExcused
    <3>4. QED
      BY <3>2, <3>3
  <2>4. QED
    BY <2>2, <2>3
<1>11. SeBareOk(p, m, H, B)
  BY <1>4, <1>6 DEF SeAll, SeBareOk
<1>12. /\ p.kind = "messages" => SeAsc(m)
       /\ p.kind = "search" /\ (Several(p) \/ p.strategy = "stream") => SeDesc(m)
       /\ p.kind = "search" /\ p.strategy = "chunked" => SeDescEach(m)
  BY <1>3, <1>6, <1>8 DEF SeMergeOk
<1>13. SeAnswered(p, H, M, B)
  BY <1>4, <1>6, <1>9, <1>10, <1>11, <1>12 DEF SeAnswered
<1>14. SeReqOk(p, H, M, B)
  BY <1>5, <1>6, <1>13 DEF SeReqOk
<1>15. QED
  BY <1>1, <1>2, <1>14 DEF SeDone

LEMMA SeEnds ==
    ASSUME NEW r \in SeReqT, NEW H, H \subseteq SeRowSet, NEW M, NEW B,
           SeAll(r, Elems(r.tables), H, M, B),
           r.tables # <<>> => SeReady(r),
           ~Several(r) => SeOrdered(r, r.all)
    PROVE  SeReqOk(SeEnd(r), H, M, B)
<1>1. CASE r.tables # <<>> /\ ~(r.kind = "message" /\ r.all # <<>>)
  <2>1. SeEnd(r) = StartTable(r)
    BY <1>1 DEF SeEnd
  <2>2. QED
    BY <2>1, <1>1, SeStartOk
<1>2. CASE ~(r.tables # <<>> /\ ~(r.kind = "message" /\ r.all # <<>>))
  <2>1. CASE r.failed /\ SeNothing(r) /\ r.kind # "qos"
    <3>1. SeEnd(r) = [r EXCEPT !.at = "error"]
      BY <1>2, <2>1 DEF SeEnd
    <3>2. PICK p : p = [r EXCEPT !.at = "error"]
      OBVIOUS
    <3>3. p \in SeReqT
      BY <3>2 DEF SeReqT
    <3>6. p.at = "error"
      BY <3>2 DEF SeReqT
    <3>4. SeReqOk(p, H, M, B)
      BY <3>3, <3>6 DEF SeReqOk
    <3>5. QED
      BY <3>1, <3>2, <3>4
  <2>2. CASE ~(r.failed /\ SeNothing(r) /\ r.kind # "qos")
    <3>1. SeEnd(r) = SeDone(r)
      BY <1>2, <2>2 DEF SeEnd, SeDone
    <3>2. r.tables = <<>> \/ (r.kind = "message" /\ r.all # <<>>)
      BY <1>2
    <3>3. SeReqOk(SeDone(r), H, M, B)
      BY <3>2, SeAnswers
    <3>4. QED
      BY <3>1, <3>3
  <2>3. QED
    BY <2>1, <2>2
<1>3. QED
  BY <1>1, <1>2

LEMMA SeFewTables == \A S \in SUBSET SeTableNames : IsFiniteSet(S) /\ Cardinality(S) \in Nat
<1>1. IsFiniteSet({"call"}) /\ IsFiniteSet({"call", "registration"})
  <2>1. IsFiniteSet({"call"})
    BY FS_Singleton
  <2>2. {"call", "registration"} = {"call"} \cup {"registration"}
    OBVIOUS
  <2>3. QED
    BY <2>1, <2>2, FS_AddElement
<1>2. IsFiniteSet({"call", "registration", "rtcp"})
  <2>1. {"call", "registration", "rtcp"} = {"call", "registration"} \cup {"rtcp"}
    OBVIOUS
  <2>2. QED
    BY <1>1, <2>1, FS_AddElement
<1>3. IsFiniteSet(SeTableNames)
  <2>1. SeTableNames = {"call", "registration", "rtcp"} \cup {"otlp"}
    BY DEF SeTableNames
  <2>2. QED
    BY <1>2, <2>1, FS_AddElement
<1>4. QED
  BY <1>3, FS_Subset, FS_CardinalityType

LEMMA SeOneTable ==
    ASSUME NEW q \in SeReqT, SeShape(q), q.for # "expand", NEW rest, q.table \in rest,
           SeAllSound(q, rest), ~Several(q)
    PROVE  q.all = <<>> /\ q.want = {q.table}
<1>1. q.table \in q.want /\ q.want \in SUBSET SeTableNames
  BY DEF SeShape, SeReqT
<1>2. ASSUME NEW t \in q.want, t # q.table PROVE FALSE
  <2>1. {t} \cup {q.table} \subseteq q.want /\ Cardinality({t} \cup {q.table}) = 2
    BY <1>1, <1>2, CardTwo
  <2>2. IsFiniteSet(q.want) /\ Cardinality(q.want) \in Nat
    BY <1>1, SeFewTables
  <2>3. Cardinality({t} \cup {q.table}) <= Cardinality(q.want)
    BY <2>1, <2>2, FS_Subset
  <2>4. ~(Cardinality(q.want) > 1)
    BY DEF Several
  <2>5. QED
    BY <2>1, <2>2, <2>3, <2>4
<1>3. Elems(q.all) = {}
  BY <1>2 DEF SeAllSound, SeAsk
<1>4. q.all \in Seq(SeRowSet)
  BY DEF SeReqT
<1>5. q.all = <<>>
  <2>1. Len(q.all) \in Nat /\ Elems(q.all) = {q.all[i] : i \in 1 .. Len(q.all)} /\ (q.all # <<>> => Len(q.all) > 0)
    BY <1>4, SeElems
  <2>2. ASSUME Len(q.all) > 0 PROVE FALSE
    <3>1. 1 \in 1 .. Len(q.all)
      BY <2>1, <2>2
    <3>2. QED
      BY <3>1, <2>1, <1>3
  <2>3. QED
    BY <2>1, <2>2
<1>6. QED
  BY <1>1, <1>2, <1>5

SeTaken(q, c, r) ==
    /\ r \in SeReqT /\ r.all = c
    /\ r.kind = q.kind /\ r.asked = q.asked /\ r.strategy = q.strategy /\ r.lazy = q.lazy
    /\ r.want = q.want /\ r.ids = q.ids /\ r.wanted = q.wanted /\ r.full = q.full
    /\ r.tables = q.tables

LEMMA SeTakes ==
    ASSUME NEW q \in SeReqT, NEW s \in Seq(SeRowSet), NEW good \in BOOLEAN
    PROVE  SeTaken(q, q.all \o s, SeTake(q, s, good))
<1>1. PICK c : c = q.all \o s
  OBVIOUS
<1>2. PICK sv : sv = IF good THEN q.served + 1 ELSE q.served
  OBVIOUS
<1>3. PICK fl : fl = (q.failed \/ ~good)
  OBVIOUS
<1>4. c \in Seq(SeRowSet)
  <2>1. q.all \in Seq(SeRowSet)
    BY DEF SeReqT
  <2>2. QED
    BY <1>1, <2>1, SeJoin DEF SeJoined
<1>5. sv \in Nat
  BY <1>2 DEF SeReqT
<1>6. fl \in BOOLEAN
  BY <1>3
<1>7. PICK r : r = SeTake(q, s, good)
  OBVIOUS
<1>8. r = [q EXCEPT !.all = c, !.served = sv, !.failed = fl]
  BY <1>1, <1>2, <1>3, <1>7, Zenon DEF SeTake
<1>9. r \in SeReqT
  BY ZenonT(60), <1>4, <1>5, <1>6, <1>8 DEF SeReqT
<1>10. SeTaken(q, c, r)
  BY SMTT(30), <1>8, <1>9 DEF SeReqT, SeTaken
<1>11. QED
  BY <1>1, <1>7, <1>10

LEMMA SeFinishOk ==
    ASSUME NEW q \in SeReqT, NEW s \in Seq(SeRowSet), NEW good \in BOOLEAN,
           NEW H, H \subseteq SeRowSet, NEW M, NEW B,
           SeShape(q), q.for # "expand", SeAll(q, SeRest(q), H, M, B),
           SeFound(q, s, H, M), SeBareOk(q, s, H, B)
    PROVE  SeReqOk(FinishTable(q, s, good), H, M, B)
<1>1. PICK c : c = q.all \o s
  OBVIOUS
<1>2. PICK r : r = SeTake(q, s, good)
  OBVIOUS
<1>3. SeTaken(q, c, r)
  BY <1>1, <1>2, SeTakes
<1>4. q.all \in Seq(SeRowSet) /\ q.tables \in Seq(SeTableNames) /\ q.table \in SeTableNames
  BY DEF SeReqT
<1>5. SeJoined(q.all, s, c)
  BY <1>1, <1>4, SeJoin
<1>6. Elems(c) = Elems(q.all) \cup Elems(s) /\ Len(c) = Len(q.all) + Len(s) /\ c \in Seq(SeRowSet)
  BY <1>5 DEF SeJoined
<1>7. SeRest(q) = Elems(q.tables) \cup {q.table} /\ q.table \notin Elems(q.tables)
  BY DEF SeRest, SeShape
<1>8. \A x : SeAsk(r, x) <=> SeAsk(q, x)
  BY <1>3 DEF SeTaken, SeAsk
<1>9. \A z, x : SeLimited(r, z, x) <=> SeLimited(q, z, x)
  BY <1>3 DEF SeTaken, SeLimited
<1>10. \A x \in Elems(q.all) : SeAsk(q, x) /\ x.table # q.table /\ x.table \notin Elems(q.tables)
  BY <1>7 DEF SeAll, SeAllSound
<1>11. \A x \in Elems(s) : SeAsk(q, x) /\ x.table = q.table
  BY DEF SeFound, SeOf
<1>12. r.all = c /\ r.tables = q.tables /\ r \in SeReqT
  BY <1>3 DEF SeTaken
<1>13. SeAllSound(r, Elems(r.tables))
  <2>1. SeOnce(q.all) /\ SeOnce(s)
    BY DEF SeAll, SeAllSound, SeFound
  <2>2. Elems(q.all) \cap Elems(s) = {}
    BY <1>10, <1>11
  <2>3. SeOnce(c)
    BY <2>1, <2>2, <1>5 DEF SeJoined
  <2>4. \A x \in Elems(c) : SeAsk(r, x) /\ x.table \notin Elems(q.tables)
    BY <1>6, <1>7, <1>8, <1>10, <1>11
  <2>5. QED
    BY <2>3, <2>4, <1>12 DEF SeAllSound
<1>14. Len(q.all) \in Nat /\ Len(s) \in Nat /\ SeLimit \in Nat
  BY <1>4, LenProperties, SearchAssumption
<1>15. ASSUME NEW x \in H, SeAsk(r, x), x.table \notin Elems(r.tables), x \notin Elems(c)
       PROVE  SeExcused(r, c, x, M)
  <2>1. SeAsk(q, x) /\ x \notin Elems(q.all) /\ x \notin Elems(s)
    BY <1>6, <1>8, <1>15
  <2>2. CASE x.table = q.table
    <3>1. SeExcused(q, s, x, M)
      BY <2>1, <2>2 DEF SeFound, SeOf
    <3>2. ASSUME SeLimited(q, s, x) PROVE SeLimited(q, c, x)
      <4>1. Len(s) >= SeLimit
        BY <3>2 DEF SeLimited
      <4>2. Len(c) >= SeLimit
        BY <4>1, <1>6, <1>14
      <4>3. \A y \in Elems(c) : y.table = x.table => y \in Elems(s)
        BY <1>6, <1>10, <2>2
      <4>4. SeNoOlder(s, x) => SeNoOlder(c, x)
        BY <4>3 DEF SeNoOlder
      <4>5. QED
        BY <4>2, <4>4, <3>2 DEF SeLimited
    <3>3. QED
      BY <3>1, <3>2, <1>9 DEF SeExcused
  <2>3. CASE x.table # q.table
    <3>1. x.table \notin SeRest(q)
      BY <2>3, <1>7, <1>12, <1>15
    <3>2. SeExcused(q, q.all, x, M)
      BY <3>1, <2>1 DEF SeAll, SeAllComplete
    <3>3. ASSUME SeLimited(q, q.all, x) PROVE SeLimited(q, c, x)
      <4>1. Len(q.all) >= SeLimit
        BY <3>3 DEF SeLimited
      <4>2. Len(c) >= SeLimit
        BY <4>1, <1>6, <1>14
      <4>3. \A y \in Elems(c) : y.table = x.table => y \in Elems(q.all)
        BY <1>6, <1>11, <2>3
      <4>4. SeNoOlder(q.all, x) => SeNoOlder(c, x)
        BY <4>3 DEF SeNoOlder
      <4>5. QED
        BY <4>2, <4>4, <3>3 DEF SeLimited
    <3>4. QED
      BY <3>2, <3>3, <1>9 DEF SeExcused
  <2>4. QED
    BY <2>2, <2>3
<1>16. SeBareOk(r, c, H, B)
  <2>1. r.lazy = q.lazy /\ r.full = q.full
    BY <1>3 DEF SeTaken
  <2>2. SeBareOk(q, q.all, H, B)
    BY DEF SeAll
  <2>3. QED
    BY <2>1, <2>2, <1>6 DEF SeBareOk
<1>17. SeAll(r, Elems(r.tables), H, M, B)
  BY <1>12, <1>13, <1>15, <1>16 DEF SeAll, SeAllComplete
<1>18. r.tables # <<>> => SeReady(r)
  BY <1>3 DEF SeTaken, SeReady, SeShape
<1>19. ASSUME ~Several(r) PROVE SeOrdered(r, r.all)
  <2>1. ~Several(q)
    BY <1>3, <1>19 DEF SeTaken, Several
  <2>2. q.table \in SeRest(q) /\ SeAllSound(q, SeRest(q))
    BY <1>7 DEF SeAll
  <2>3. q.all = <<>>
    BY <2>1, <2>2, SeOneTable
  <2>4. c = s
    BY <2>3, <1>5 DEF SeJoined
  <2>5. QED
    BY <2>4, <1>3 DEF SeTaken, SeFound, SeOrdered
<1>20. SeReqOk(SeEnd(r), H, M, B)
  BY <1>12, <1>17, <1>18, <1>19, SeEnds
<1>21. QED
  BY <1>2, <1>20, SeFinishIs

LEMMA SeEnough == \A m, n, limit \in Nat : n >= limit => m + n >= limit
OBVIOUS

LEMMA SeFoundSame ==
    ASSUME NEW q, NEW p, SeSameAll(q, p), p.table = q.table, NEW s, NEW H, NEW M, SeFound(q, s, H, M)
    PROVE  SeFound(p, s, H, M)
<1>1. \A r : SeAsk(p, r) <=> SeAsk(q, r)
  BY DEF SeSameAll, SeAsk
<1>2. \A r : SeOf(p, r) <=> SeOf(q, r)
  BY <1>1 DEF SeOf
<1>3. \A z, r : SeLimited(p, z, r) <=> SeLimited(q, z, r)
  BY DEF SeSameAll, SeLimited
<1>4. SeOrdered(p, s)
  BY DEF SeFound, SeOrdered, SeSameAll
<1>5. SeOnce(s) /\ \A r \in Elems(s) : SeOf(p, r)
  BY <1>2 DEF SeFound
<1>6. \A r \in H : SeOf(p, r) /\ r \notin Elems(s) => SeExcused(p, s, r, M)
  BY <1>2, <1>3 DEF SeFound, SeExcused
<1>7. QED
  BY <1>4, <1>5, <1>6 DEF SeFound

\* A query of the whole window selects what is asked of the table.
LEMMA SeWhole ==
    ASSUME NEW q \in SeReqT, q.win = q.asked, q.incl, q.for # "full", q.table \in q.want,
           NEW r \in SeRowSet
    PROVE  SeOf(q, r) <=> SeSel(q, r)
<1>1. r.t \in Nat /\ q.asked \in SeNatPairs
  BY SeRowT DEF SeReqT
<1>2. q.asked[1] \in Nat /\ q.asked[2] \in Nat
  BY <1>1 DEF SeNatPairs
<1>3. r.t <= q.asked[2] <=> (r.t < q.asked[2] \/ r.t = q.asked[2])
  BY <1>1, <1>2
<1>4. SeIn(q, r) <=> (q.asked = <<0, 0>> \/ (q.asked[1] <= r.t /\ r.t <= q.asked[2]))
  BY <1>3 DEF SeIn
<1>5. QED
  BY <1>4 DEF SeOf, SeAsk, SeSel

\* All nodes have answered a query of the whole window.
LEMMA SePlainFound ==
    ASSUME NEW q \in SeReqT, SeShape(q), q.win = q.asked, q.incl, q.for \notin {"full", "expand"},
           NEW H, H \subseteq SeRowSet, NEW M, NEW B, SeFan(q, H, M, B), q.left = {},
           NEW s \in Seq(SeRowSet), Elems(s) = Elems(q.rows), Len(s) = Len(q.rows),
           SeOnce(s), SeOrdered(q, s)
    PROVE  SeFound(q, s, H, M)
<1>1. q.table \in q.want
  BY DEF SeShape
<1>2. \A r \in SeRowSet : SeOf(q, r) <=> SeSel(q, r)
  BY <1>1, SeWhole
<1>3. ASSUME NEW r \in Elems(s) PROVE SeOf(q, r)
  <2>1. r \in SeRowSet
    BY SeElems
  <2>2. SeSel(q, r)
    BY DEF SeFan
  <2>3. QED
    BY <2>1, <2>2, <1>2
<1>4. ASSUME NEW r \in H, SeOf(q, r), r \notin Elems(s) PROVE SeExcused(q, s, r, M)
  <2>1. SeSel(q, r) /\ r \notin Elems(q.rows) /\ r.node \notin q.left
    BY <1>2, <1>4
  <2>2. <<r.node, r.table>> \in M \/ SePart(q, q.rows, r)
    BY <2>1 DEF SeFan
  <2>3. ASSUME SePart(q, q.rows, r) PROVE SeLimited(q, s, r)
    <3>1. q.kind = "search"
      BY <2>3 DEF SePart, SeShape
    <3>2. QED
      BY <3>1, <2>3 DEF SePart, SeLimited, SeNoOlder
  <2>4. QED
    BY <2>2, <2>3 DEF SeExcused
<1>5. QED
  BY <1>3, <1>4 DEF SeFound

\* No node has answered.
LEMMA SeNoneFound ==
    ASSUME NEW q \in SeReqT, q.for \notin {"full", "expand"}, ~q.ok,
           NEW H, H \subseteq SeRowSet, NEW M, NEW B, SeFan(q, H, M, B), q.left = {}
    PROVE  /\ \A r \in H : SeOf(q, r) => <<r.node, r.table>> \in M
           /\ SeFound(q, <<>>, H, M)
<1>1. \A n \in SeNodes : <<n, q.table>> \in M
  BY DEF SeFan
<1>2. \A r \in H : SeOf(q, r) => <<r.node, r.table>> \in M
  BY <1>1, SeRowT DEF SeOf
<1>3. Elems(<<>>) = {} /\ SeOnce(<<>>) /\ SeOrdered(q, <<>>)
  BY DEF Elems, SeOnce, SeOrdered, SeAsc, SeDesc, SeDescEach
<1>4. QED
  BY <1>2, <1>3 DEF SeFound, SeExcused

LEMMA SeStreamCut ==
    ASSUME NEW q \in SeReqT, q.kind = "search", q.strategy = "stream", NEW H, NEW M,
           NEW s \in Seq(SeRowSet), SeFound(q, s, H, M)
    PROVE  SeFound(q, Cut(s, SeLimit), H, M)
<1>1. PICK c : c = Cut(s, SeLimit)
  OBVIOUS
<1>2. SeLimit \in Nat /\ Len(s) \in Nat
  BY SearchAssumption, LenProperties
<1>3. SeFirst(s, SeLimit, c)
  BY <1>1, <1>2, SeCut
<1>4. SeOnce(c) /\ Elems(c) \subseteq Elems(s) /\ SeOrdered(q, c)
  BY <1>3 DEF SeFirst, SeFound, SeOrdered
<1>5. ASSUME NEW r \in H, SeOf(q, r), r \notin Elems(c) PROVE SeExcused(q, c, r, M)
  <2>1. CASE r \in Elems(s)
    <3>1. Len(c) = SeLimit
      BY <2>1, <1>3, <1>5 DEF SeFirst
    <3>2. QED
      BY <3>1, <1>2 DEF SeExcused, SeLimited
  <2>2. CASE r \notin Elems(s)
    <3>1. SeExcused(q, s, r, M)
      BY <2>2, <1>5 DEF SeFound
    <3>2. Len(s) >= SeLimit => Len(c) >= SeLimit
      BY <1>2, <1>3 DEF SeFirst
    <3>3. QED
      BY <3>1, <3>2 DEF SeExcused, SeLimited
  <2>3. QED
    BY <2>1, <2>2
<1>6. SeFound(q, c, H, M)
  BY <1>4, <1>5 DEF SeFound
<1>7. QED
  BY <1>1, <1>6

-----------------------------------------------------------------------------
(* Slices. *)

\* What the slices so far have found.
SeSofar(q, c, H, M) ==
    /\ c \in Seq(SeRowSet) /\ SeOnce(c) /\ SeDescEach(c)
    /\ Len(c) = Len(q.got) + Len(q.rows)
    /\ \A x \in Elems(c) : SeOf(q, x) /\ (q.win # <<0, 0>> => x.t >= q.win[1])
    /\ \A r \in H : SeOf(q, r) /\ r \notin Elems(c) =>
          \/ <<r.node, r.table>> \in M
          \/ q.win # <<0, 0>> /\ r.t < q.win[1]
          \/ Len(q.rows) >= SeLimit /\ \A x \in Elems(c) : x.node = r.node => x.t >= r.t

LEMMA SeSlicesSofar ==
    ASSUME NEW q \in SeReqT, SeShape(q), q.for = "rows", q.strategy = "chunked",
           NEW H, H \subseteq SeRowSet, NEW M, NEW B, SeSlice(q, H, M), SeFan(q, H, M, B), q.left = {}
    PROVE  SeSofar(q, q.got \o q.rows, H, M)
<1>1. PICK c : c = q.got \o q.rows
  OBVIOUS
<1>2. q.got \in Seq(SeRowSet) /\ q.rows \in Seq(SeRowSet) /\ q.win \in SeNatPairs /\ q.asked \in SeNatPairs
  BY DEF SeReqT
<1>3. q.win[1] \in Nat /\ q.win[2] \in Nat /\ q.asked[1] \in Nat /\ q.asked[2] \in Nat
  BY <1>2 DEF SeNatPairs
<1>4. SeJoined(q.got, q.rows, c)
  BY <1>1, <1>2, SeJoin
<1>5. c \in Seq(SeRowSet) /\ Elems(c) = Elems(q.got) \cup Elems(q.rows) /\ Len(c) = Len(q.got) + Len(q.rows)
  BY <1>4 DEF SeJoined
<1>6. Elems(c) \subseteq SeRowSet
  BY <1>5, SeElems
<1>7. q.kind = "search" /\ q.table \in q.want
  BY DEF SeShape
<1>8. \A x \in Elems(q.got) : SeOf(q, x) /\ x.t >= q.win[2] /\ ~q.incl
  <2>1. q.incl => Elems(q.got) = {}
    BY DEF SeSlice, Elems
  <2>2. QED
    BY <2>1 DEF SeSlice
<1>9. ~q.incl => q.win[1] <= q.win[2] /\ q.win # <<0, 0>>
  BY DEF SeSlice
<1>10. \A y \in Elems(q.rows) : SeSel(q, y) /\ SeIn(q, y) /\ y \in SeRowSet
  BY <1>5, <1>6 DEF SeFan, SeSel
<1>11. ASSUME NEW y \in Elems(q.rows) PROVE SeOf(q, y) /\ (q.win # <<0, 0>> => y.t >= q.win[1])
  <2>1. y.table = q.table /\ y.sid \in q.ids
    BY <1>10 DEF SeSel
  <2>2. y.t \in Nat
    BY <1>10, SeRowT
  <2>3. CASE q.win = <<0, 0>>
    <3>1. q.asked = <<0, 0>>
      BY <2>3 DEF SeSlice
    <3>2. QED
      BY <3>1, <2>1, <2>3, <1>7 DEF SeOf, SeAsk
  <2>4. CASE q.win # <<0, 0>>
    <3>1. q.win[1] <= y.t /\ (y.t < q.win[2] \/ y.t = q.win[2])
      BY <2>4, <1>10 DEF SeIn
    <3>2. q.win[2] <= q.asked[2] /\ q.win[1] >= q.asked[1]
      BY DEF SeSlice
    <3>3. q.asked[1] <= y.t /\ y.t <= q.asked[2]
      BY <3>1, <3>2, <2>2, <1>3
    <3>4. y.t >= q.win[1]
      BY <3>1, <2>2, <1>3
    <3>5. QED
      BY <3>3, <3>4, <2>1, <1>7 DEF SeOf, SeAsk
  <2>5. QED
    BY <2>3, <2>4
<1>12. ASSUME NEW x \in Elems(q.got), NEW y \in Elems(q.rows) PROVE x.t > y.t
  <2>1. x.t \in Nat /\ y.t \in Nat
    BY <1>5, <1>6, SeRowT
  <2>2. ~q.incl /\ x.t >= q.win[2] /\ q.win # <<0, 0>>
    BY <1>8, <1>9
  <2>3. y.t < q.win[2]
    BY <2>2, <1>10 DEF SeIn
  <2>4. QED
    BY <2>1, <2>2, <2>3, <1>3
<1>13. SeOnce(c)
  <2>1. Elems(q.got) \cap Elems(q.rows) = {}
    <3>1. ASSUME NEW x \in Elems(q.got), x \in Elems(q.rows) PROVE FALSE
      <4>1. x.t > x.t /\ x.t \in Nat
        BY <3>1, <1>5, <1>6, <1>12, SeRowT
      <4>2. QED
        BY <4>1
    <3>2. QED
      BY <3>1
  <2>2. QED
    BY <2>1, <1>4 DEF SeJoined, SeSlice, SeFan
<1>14. SeDescEach(c)
  <2>1. \A x \in Elems(q.got), y \in Elems(q.rows) : x.node = y.node => x.t >= y.t
    <3>1. ASSUME NEW x \in Elems(q.got), NEW y \in Elems(q.rows) PROVE x.t >= y.t
      <4>1. x.t > y.t /\ x.t \in Nat /\ y.t \in Nat
        BY <1>5, <1>6, <1>12, SeRowT
      <4>2. QED
        BY <4>1
    <3>2. QED
      BY <3>1
  <2>2. SeDescEach(q.got) /\ SeDescEach(q.rows)
    BY DEF SeSlice, SeFan
  <2>3. QED
    BY <2>1, <2>2, <1>4 DEF SeJoined
<1>15. ASSUME NEW x \in Elems(c) PROVE SeOf(q, x) /\ (q.win # <<0, 0>> => x.t >= q.win[1])
  <2>1. CASE x \in Elems(q.got)
    <3>1. SeOf(q, x) /\ x.t >= q.win[2] /\ q.win[1] <= q.win[2] /\ x.t \in Nat
      BY <2>1, <1>6, <1>8, <1>9, <1>15, SeRowT
    <3>2. x.t >= q.win[1]
      BY <3>1, <1>3
    <3>3. QED
      BY <3>1, <3>2
  <2>2. CASE x \in Elems(q.rows)
    BY <2>2, <1>11
  <2>3. QED
    BY <2>1, <2>2, <1>5, <1>15
<1>16. ASSUME NEW r \in H, SeOf(q, r), r \notin Elems(c)
       PROVE  \/ <<r.node, r.table>> \in M
              \/ q.win # <<0, 0>> /\ r.t < q.win[1]
              \/ Len(q.rows) >= SeLimit /\ \A x \in Elems(c) : x.node = r.node => x.t >= r.t
  <2>1. r.t \in Nat /\ r \notin Elems(q.got) /\ r \notin Elems(q.rows)
    BY <1>5, <1>16, SeRowT
  <2>2. CASE SeAbove(q, r)
    BY <2>1, <2>2, <1>16 DEF SeSlice
  <2>3. CASE q.win # <<0, 0>> /\ r.t < q.win[1]
    BY <2>3
  <2>4. CASE ~SeAbove(q, r) /\ ~(q.win # <<0, 0>> /\ r.t < q.win[1])
    <3>1. SeIn(q, r)
      <4>1. CASE q.win = <<0, 0>>
        BY <4>1 DEF SeIn
      <4>2. CASE q.win # <<0, 0>>
        <5>1. ~(r.t > q.win[2]) /\ (r.t = q.win[2] => q.incl) /\ ~(r.t < q.win[1])
          BY <2>4, <4>2 DEF SeAbove
        <5>2. q.win[1] <= r.t /\ (r.t < q.win[2] \/ r.t = q.win[2])
          BY <5>1, <2>1, <1>3
        <5>3. QED
          BY <5>1, <5>2 DEF SeIn
      <4>3. QED
        BY <4>1, <4>2
    <3>2. SeSel(q, r)
      BY <3>1, <1>7, <1>16 DEF SeSel, SeOf, SeAsk
    <3>3. <<r.node, r.table>> \in M \/ SePart(q, q.rows, r)
      BY <3>2, <2>1 DEF SeFan
    <3>4. ASSUME SePart(q, q.rows, r), NEW x \in Elems(c), x.node = r.node PROVE x.t >= r.t
      <4>1. CASE x \in Elems(q.rows)
        BY <3>4, <4>1 DEF SePart
      <4>2. CASE x \in Elems(q.got)
        <5>1. x.t >= q.win[2] /\ ~q.incl /\ q.win # <<0, 0>>
          BY <4>2, <1>8, <1>9
        <5>2. r.t < q.win[2]
          BY <5>1, <3>1 DEF SeIn
        <5>3. x.t \in Nat
          BY <1>6, <3>4, SeRowT
        <5>4. QED
          BY <5>1, <5>2, <5>3, <2>1, <1>3
      <4>3. QED
        BY <4>1, <4>2, <3>4, <1>5
    <3>5. SePart(q, q.rows, r) => Len(q.rows) >= SeLimit
      BY DEF SePart
    <3>6. QED
      BY <3>3, <3>4, <3>5
  <2>5. QED
    BY <2>2, <2>3, <2>4
<1>17. SeSofar(q, c, H, M)
  BY <1>5, <1>13, <1>14, <1>15, <1>16 DEF SeSofar
<1>18. QED
  BY <1>1, <1>17

LEMMA SeSlicesFound ==
    ASSUME NEW q \in SeReqT, SeShape(q), q.for = "rows", q.strategy = "chunked",
           NEW H, H \subseteq SeRowSet, NEW M, SeSlice(q, H, M),
           NEW c, SeSofar(q, c, H, M), q.chunks = <<>> \/ Len(c) >= SeLimit
    PROVE  SeFound(q, Cut(c, SeLimit), H, M)
<1>1. PICK s : s = Cut(c, SeLimit)
  OBVIOUS
<1>2. c \in Seq(SeRowSet) /\ SeOnce(c) /\ SeDescEach(c)
  BY DEF SeSofar
<1>3. SeLimit \in Nat /\ Len(c) \in Nat /\ Len(q.rows) \in Nat /\ Len(q.got) \in Nat
  <2>1. q.got \in Seq(SeRowSet) /\ q.rows \in Seq(SeRowSet)
    BY DEF SeReqT
  <2>2. QED
    BY <2>1, <1>2, LenProperties, SearchAssumption
<1>4. SeFirst(c, SeLimit, s)
  BY <1>1, <1>2, <1>3, SeCut
<1>5. SeOnce(s) /\ Elems(s) \subseteq Elems(c) /\ SeDescEach(s)
  BY <1>2, <1>4 DEF SeFirst
<1>6. q.kind = "search"
  BY DEF SeShape
<1>7. SeOrdered(q, s)
  BY <1>5, <1>6 DEF SeOrdered
<1>8. \A x \in Elems(s) : SeOf(q, x)
  BY <1>5 DEF SeSofar
<1>9. Len(c) >= SeLimit => Len(s) >= SeLimit
  BY <1>3, <1>4 DEF SeFirst
<1>10. ASSUME NEW r \in H, SeOf(q, r), r \notin Elems(s) PROVE SeExcused(q, s, r, M)
  <2>1. ASSUME Len(s) >= SeLimit, \A x \in Elems(s) : x.node = r.node => x.t >= r.t
        PROVE  SeExcused(q, s, r, M)
    BY <2>1, <1>6 DEF SeExcused, SeLimited, SeNoOlder
  <2>2. CASE r \in Elems(c)
    <3>1. Len(s) = SeLimit /\ \A x \in Elems(s) : x.node = r.node => x.t >= r.t
      BY <2>2, <1>2, <1>4, <1>10 DEF SeFirst
    <3>2. QED
      BY <3>1, <2>1, <1>3
  <2>3. CASE r \notin Elems(c) /\ <<r.node, r.table>> \in M
    BY <2>3 DEF SeExcused
  <2>4. CASE r \notin Elems(c) /\ q.win # <<0, 0>> /\ r.t < q.win[1]
    <3>1. r.t \in Nat /\ q.win[1] \in Nat
      <4>1. q.win \in SeNatPairs
        BY DEF SeReqT
      <4>2. q.win[1] \in Nat
        BY <4>1 DEF SeNatPairs
      <4>3. QED
        BY <4>2, <1>10, SeRowT
    <3>2. CASE Len(c) >= SeLimit
      <4>1. ASSUME NEW x \in Elems(s) PROVE x.t >= r.t
        <5>1. x.t >= q.win[1]
          BY <1>5, <2>4 DEF SeSofar
        <5>2. x \in SeRowSet
          BY <1>2, <1>5, SeElems
        <5>3. x.t \in Nat
          BY <5>2, SeRowT
        <5>4. QED
          BY <5>1, <5>3, <3>1, <2>4
      <4>2. QED
        BY <4>1, <3>2, <2>1, <1>9
    <3>3. CASE q.chunks = <<>>
      <4>1. q.win[1] = q.asked[1]
        BY <3>3 DEF SeSlice, SeChain
      <4>2. q.asked # <<0, 0>>
        BY <2>4 DEF SeSlice
      <4>3. SeAsk(q, r)
        BY <1>10 DEF SeOf
      <4>4. q.asked[1] <= r.t
        BY <4>2, <4>3 DEF SeAsk
      <4>5. ~(r.t < q.asked[1])
        BY <4>4, <4>1, <3>1
      <4>6. QED
        BY <4>1, <4>5, <2>4
    <3>4. QED
      BY <3>2, <3>3
  <2>5. CASE Len(q.rows) >= SeLimit /\ \A x \in Elems(c) : x.node = r.node => x.t >= r.t
    <3>1. Len(c) >= SeLimit
      <4>1. Len(c) = Len(q.got) + Len(q.rows)
        BY DEF SeSofar
      <4>2. QED
        BY <4>1, <2>5, <1>3, SeEnough
    <3>2. QED
      BY <3>1, <2>5, <2>1, <1>5, <1>9
  <2>6. QED
    BY <2>2, <2>3, <2>4, <2>5, <1>10 DEF SeSofar
<1>11. SeFound(q, s, H, M)
  BY <1>5, <1>7, <1>8, <1>10 DEF SeFound
<1>12. QED
  BY <1>1, <1>11

\* The next slice, and the query for the full rows.
SeDown(q, c) == [q EXCEPT !.at = "route", !.got = c, !.chunks = Tail(@),
                          !.win = Head(q.chunks).win, !.incl = Head(q.chunks).incl]

LEMMA SeDownIs ==
    ASSUME NEW q \in SeReqT, NEW c \in Seq(SeRowSet), q.chunks # <<>>
    PROVE  /\ SeDown(q, c) \in SeReqT /\ SeDown(q, c).at = "route" /\ SeSameAll(q, SeDown(q, c))
           /\ SeDown(q, c).tables = q.tables /\ SeDown(q, c).table = q.table /\ SeDown(q, c).for = q.for
           /\ SeDown(q, c).got = c /\ SeDown(q, c).chunks = Tail(q.chunks)
           /\ SeDown(q, c).win = q.chunks[1].win /\ SeDown(q, c).incl = q.chunks[1].incl
<1>1. PICK h : h = q.chunks[1]
  OBVIOUS
<1>2. PICK tl : tl = Tail(q.chunks)
  OBVIOUS
<1>3. q.chunks \in Seq(SeSliceT)
  BY DEF SeReqT, SeSliceT
<1>4. Head(q.chunks) = h /\ h \in SeSliceT /\ tl \in Seq(SeSliceT)
  BY <1>1, <1>2, <1>3, SeHeadTail
<1>5. PICK w : w = h.win
  OBVIOUS
<1>6. PICK inc : inc = h.incl
  OBVIOUS
<1>7. w \in SeNatPairs /\ inc \in BOOLEAN
  BY <1>4, <1>5, <1>6 DEF SeSliceT
<1>8. PICK p : p = SeDown(q, c)
  OBVIOUS
<1>9. p = [q EXCEPT !.at = "route", !.got = c, !.chunks = tl, !.win = w, !.incl = inc]
  BY <1>2, <1>4, <1>5, <1>6, <1>8 DEF SeDown
<1>10. p \in SeReqT
  <2>1. PICK q1 : q1 = [q EXCEPT !.at = "route", !.got = c]
    OBVIOUS
  <2>2. PICK q2 : q2 = [q1 EXCEPT !.chunks = tl]
    OBVIOUS
  <2>3. q1 \in SeReqT
    BY ZenonT(60), <2>1 DEF SeReqT
  <2>4. q2 \in SeReqT
    BY ZenonT(60), <2>2, <2>3, <1>4 DEF SeReqT, SeSliceT
  <2>5. p = [q2 EXCEPT !.win = w, !.incl = inc]
    BY <1>9, <2>1, <2>2
  <2>6. QED
    BY <2>4, <2>5, <1>7 DEF SeReqT
<1>11. p.at = "route" /\ SeSameAll(q, p)
  BY <1>9 DEF SeReqT, SeSameAll
<1>12. p.tables = q.tables /\ p.table = q.table /\ p.for = q.for /\ p.got = c /\ p.chunks = tl
       /\ p.win = w /\ p.incl = inc
  BY <1>9 DEF SeReqT
<1>13. QED
  BY <1>1, <1>2, <1>5, <1>6, <1>8, <1>10, <1>11, <1>12

LEMMA SeNextSlice ==
    ASSUME NEW q \in SeReqT, NEW H, H \subseteq SeRowSet, NEW M, NEW B, SeQuery(q, H, M, B),
           q.for = "rows", q.strategy = "chunked", q.chunks # <<>>,
           NEW c, SeSofar(q, c, H, M), Len(c) < SeLimit
    PROVE  SeReqOk(SeDown(q, c), H, M, B)
<1>1. PICK p : p = SeDown(q, c)
  OBVIOUS
<1>2. c \in Seq(SeRowSet) /\ SeOnce(c) /\ SeDescEach(c) /\ Len(c) = Len(q.got) + Len(q.rows)
  BY DEF SeSofar
<1>3. /\ p \in SeReqT /\ p.at = "route" /\ SeSameAll(q, p)
      /\ p.tables = q.tables /\ p.table = q.table /\ p.for = q.for
      /\ p.got = c /\ p.chunks = Tail(q.chunks)
      /\ p.win = q.chunks[1].win /\ p.incl = q.chunks[1].incl
  BY <1>1, <1>2, SeDownIs
<1>4. SeShape(q) /\ SeWindow(q, H, M) /\ SeAll(q, SeRest(q), H, M, B) /\ SeSlice(q, H, M)
  BY DEF SeQuery, SeWindow
<1>5. /\ p.kind = q.kind /\ p.asked = q.asked /\ p.strategy = q.strategy /\ p.lazy = q.lazy
      /\ p.want = q.want /\ p.ids = q.ids /\ p.wanted = q.wanted /\ p.all = q.all
  BY <1>3 DEF SeSameAll
<1>6. SeShape(p)
  BY <1>3, <1>4, <1>5 DEF SeShape
<1>7. SeRest(p) = SeRest(q)
  BY <1>3 DEF SeRest
<1>8. SeAll(p, SeRest(p), H, M, B)
  BY <1>3, <1>4, <1>7, SeAllSame
<1>9. q.chunks \in Seq(SeSliceT) /\ q.win \in SeNatPairs /\ q.asked \in SeNatPairs /\ p.win \in SeNatPairs
  BY <1>3 DEF SeReqT, SeSliceT
<1>10. /\ q.win[1] \in Nat /\ q.win[2] \in Nat /\ q.asked[1] \in Nat /\ q.asked[2] \in Nat
       /\ p.win[1] \in Nat /\ p.win[2] \in Nat
  BY <1>9 DEF SeNatPairs
<1>11. /\ Len(q.chunks) \in Nat /\ Len(q.chunks) >= 1
       /\ Len(p.chunks) = Len(q.chunks) - 1
       /\ \A i \in 1 .. Len(q.chunks) - 1 : p.chunks[i] = q.chunks[i + 1] /\ i + 1 \in 1 .. Len(q.chunks)
  BY <1>3, <1>9, SeHeadTail
<1>12. SeChain(q)
  BY <1>4 DEF SeSlice
<1>13. p.win[2] = q.win[1] /\ p.win[1] < p.win[2] /\ p.asked[1] <= p.win[1] /\ ~p.incl
  <2>1. 1 \in 1 .. Len(q.chunks) /\ 1 - 1 = 0
    BY <1>11
  <2>2. q.chunks[1].win[2] = (IF 1 - 1 = 0 THEN q.win[1] ELSE q.chunks[1 - 1].win[1])
    BY <2>1, <1>12 DEF SeChain
  <2>3. q.chunks[1].win[1] < q.chunks[1].win[2] /\ q.asked[1] <= q.chunks[1].win[1] /\ ~q.chunks[1].incl
    BY <2>1, <1>12 DEF SeChain
  <2>4. QED
    BY <2>1, <2>2, <2>3, <1>3, <1>5
<1>14. q.win[1] <= q.win[2] /\ q.win # <<0, 0>> /\ q.win[2] <= q.asked[2]
  BY <1>4 DEF SeSlice
<1>15. p.asked # <<0, 0>>
  BY <1>4, <1>5, <1>14 DEF SeSlice
<1>16. p.win # <<0, 0>>
  BY <1>13
<1>17. p.win[2] <= p.asked[2]
  BY <1>5, <1>10, <1>13, <1>14
<1>18. SeChain(p)
  <2> DEFINE lowq(i) == IF i = 0 THEN q.win[1] ELSE q.chunks[i].win[1]
             low(i) == IF i = 0 THEN p.win[1] ELSE p.chunks[i].win[1]
  <2>1. \A i \in 0 .. Len(q.chunks) - 1 : low(i) = lowq(i + 1)
    <3>1. SUFFICES ASSUME NEW i \in 0 .. Len(q.chunks) - 1 PROVE low(i) = lowq(i + 1)
      OBVIOUS
    <3>2. i + 1 # 0
      BY <3>1
    <3>3. CASE i = 0
      BY <3>2, <3>3, <1>3
    <3>4. CASE i # 0
      <4>1. i \in 1 .. Len(q.chunks) - 1
        BY <3>4, <1>11
      <4>2. p.chunks[i] = q.chunks[i + 1]
        BY <4>1, <1>11
      <4>3. QED
        BY <4>2, <3>2, <3>4
    <3>5. QED
      BY <3>3, <3>4
  <2>2. lowq(Len(q.chunks)) = q.asked[1]
    BY <1>12 DEF SeChain
  <2>3. \A i \in 1 .. Len(q.chunks) :
           /\ q.chunks[i].win[2] = lowq(i - 1)
           /\ q.chunks[i].win[1] < q.chunks[i].win[2]
           /\ q.asked[1] <= q.chunks[i].win[1]
           /\ ~q.chunks[i].incl
    BY <1>12 DEF SeChain
  <2> HIDE DEF low, lowq
  <2>4. low(Len(p.chunks)) = p.asked[1]
    <3>1. Len(q.chunks) - 1 \in 0 .. Len(q.chunks) - 1 /\ Len(q.chunks) - 1 + 1 = Len(q.chunks)
      BY <1>11
    <3>2. low(Len(q.chunks) - 1) = lowq(Len(q.chunks) - 1 + 1)
      BY <2>1, <3>1
    <3>3. QED
      BY <3>1, <3>2, <2>2, <1>5, <1>11
  <2>5. ASSUME NEW i \in 1 .. Len(p.chunks)
        PROVE  /\ p.chunks[i].win[2] = low(i - 1)
               /\ p.chunks[i].win[1] < p.chunks[i].win[2]
               /\ p.asked[1] <= p.chunks[i].win[1]
               /\ ~p.chunks[i].incl
    <3>1. /\ i \in 1 .. Len(q.chunks) - 1 /\ i - 1 \in 0 .. Len(q.chunks) - 1
          /\ i + 1 \in 1 .. Len(q.chunks) /\ i + 1 - 1 = i /\ i - 1 + 1 = i
      BY <1>11
    <3>2. p.chunks[i] = q.chunks[i + 1]
      BY <3>1, <1>11
    <3>3. low(i - 1) = lowq(i - 1 + 1)
      BY <3>1, <2>1
    <3>4. q.chunks[i + 1].win[2] = lowq(i + 1 - 1)
      BY <3>1, <2>3
    <3>5. /\ q.chunks[i + 1].win[1] < q.chunks[i + 1].win[2]
          /\ q.asked[1] <= q.chunks[i + 1].win[1]
          /\ ~q.chunks[i + 1].incl
      BY <3>1, <2>3
    <3>6. QED
      BY <3>1, <3>2, <3>3, <3>4, <3>5, <1>5
  <2>6. QED
    BY <2>4, <2>5 DEF SeChain, low
<1>19. \A r : SeOf(p, r) <=> SeOf(q, r)
  BY <1>3, <1>5 DEF SeOf, SeAsk
<1>20. \A x \in Elems(p.got) : SeOf(p, x) /\ x.t >= p.win[2]
  BY <1>3, <1>13, <1>14, <1>19 DEF SeSofar
<1>21. ASSUME NEW r \in H, SeOf(p, r), SeAbove(p, r), r \notin Elems(p.got)
       PROVE  <<r.node, r.table>> \in M
  <2>1. r.t \in Nat
    BY <1>21, SeRowT
  <2>2. ~(r.t < q.win[1])
    BY <2>1, <1>10, <1>13, <1>21 DEF SeAbove
  <2>3. ~(Len(q.rows) >= SeLimit)
    <3>1. q.got \in Seq(SeRowSet) /\ q.rows \in Seq(SeRowSet)
      BY DEF SeReqT
    <3>2. Len(q.got) \in Nat /\ Len(q.rows) \in Nat
      BY <3>1, LenProperties
    <3>3. SeLimit \in Nat
      BY SearchAssumption
    <3>4. Len(q.rows) >= SeLimit => Len(c) >= SeLimit
      BY <1>2, <3>2, <3>3, SeEnough
    <3>5. Len(c) \in Nat
      BY <1>2, LenProperties
    <3>6. QED
      BY <3>3, <3>4, <3>5
  <2>4. SeOf(q, r) /\ r \notin Elems(c)
    BY <1>3, <1>19, <1>21
  <2>5. QED
    BY <2>2, <2>3, <2>4 DEF SeSofar
<1>22. SeSlice(p, H, M)
  <2>1. p.win[1] <= p.win[2] /\ p.win[1] >= p.asked[1]
    BY <1>5, <1>10, <1>13
  <2>2. SeOnce(p.got) /\ SeDescEach(p.got) /\ Len(p.got) < SeLimit
    BY <1>2, <1>3
  <2>3. QED
    BY <2>1, <2>2, <1>13, <1>15, <1>16, <1>17, <1>18, <1>20, <1>21 DEF SeSlice
<1>23. SeWindow(p, H, M)
  BY <1>3, <1>5, <1>22 DEF SeWindow
<1>24. SeReqOk(p, H, M, B)
  BY <1>3, <1>6, <1>8, <1>23 DEF SeReqOk, SeQuery
<1>25. QED
  BY <1>1, <1>24

\* Times of the rows.
SeTimes(s) == {s[i].t : i \in DOMAIN s}
SeHydrate(q, s) == [q EXCEPT !.at = "route", !.for = "full", !.got = s,
                             !.win = <<SeMin(SeTimes(s)), SeMax(SeTimes(s))>>, !.incl = TRUE]

LEMMA SeTimesT ==
    ASSUME NEW s \in Seq(SeRowSet), s # <<>>
    PROVE  /\ SeMin(SeTimes(s)) \in Nat /\ SeMax(SeTimes(s)) \in Nat
           /\ \A r \in Elems(s) : SeMin(SeTimes(s)) <= r.t /\ r.t <= SeMax(SeTimes(s))
<1>1. Len(s) \in Nat /\ Len(s) > 0 /\ DOMAIN s = 1 .. Len(s) /\ Elems(s) \subseteq SeRowSet
  BY SeElems
<1>2. SeTimes(s) = {r.t : r \in Elems(s)}
  BY DEF SeTimes, Elems
<1>3. SeTimes(s) \subseteq Nat
  BY <1>1, <1>2, SeRowT
<1>4. IsFiniteSet(SeTimes(s))
  <2>1. PICK f : f = [r \in Elems(s) |-> r.t]
    OBVIOUS
  <2>2. f \in Surjection(Elems(s), SeTimes(s))
    BY <2>1, <1>2 DEF Surjection
  <2>3. IsFiniteSet(Elems(s))
    BY <1>1, FS_Subset, SearchAssumption
  <2>4. QED
    BY <2>2, <2>3, FS_Surjection
<1>5. SeTimes(s) # {}
  <2>1. 1 \in DOMAIN s
    BY <1>1
  <2>2. QED
    BY <2>1 DEF SeTimes
<1>6. /\ SeMin(SeTimes(s)) \in SeTimes(s) /\ \A n \in SeTimes(s) : SeMin(SeTimes(s)) <= n
      /\ SeMax(SeTimes(s)) \in SeTimes(s) /\ \A n \in SeTimes(s) : SeMax(SeTimes(s)) >= n
  BY <1>3, <1>4, <1>5, SeMinMax
<1>7. ASSUME NEW r \in Elems(s) PROVE SeMin(SeTimes(s)) <= r.t /\ r.t <= SeMax(SeTimes(s))
  <2>1. r.t \in SeTimes(s)
    BY <1>2
  <2>2. SeMax(SeTimes(s)) >= r.t
    BY <2>1, <1>6
  <2>3. r.t \in Nat /\ SeMax(SeTimes(s)) \in Nat
    BY <2>1, <1>3, <1>6
  <2>4. QED
    BY <2>1, <2>2, <2>3, <1>6
<1>8. QED
  BY <1>3, <1>6, <1>7

LEMMA SeHydrates ==
    ASSUME NEW q \in SeReqT, NEW H, H \subseteq SeRowSet, NEW M, NEW B, SeQuery(q, H, M, B),
           q.for = "rows", q.lazy, NEW s \in Seq(SeRowSet), s # <<>>, SeFound(q, s, H, M)
    PROVE  SeReqOk(SeHydrate(q, s), H, M, B)
<1>1. PICK a : a = SeMin(SeTimes(s))
  OBVIOUS
<1>2. PICK b : b = SeMax(SeTimes(s))
  OBVIOUS
<1>3. a \in Nat /\ b \in Nat /\ \A r \in Elems(s) : a <= r.t /\ r.t <= b
  BY <1>1, <1>2, SeTimesT
<1>4. PICK w : w = <<a, b>>
  OBVIOUS
<1>5. w \in SeNatPairs /\ w[1] = a /\ w[2] = b
  BY <1>3, <1>4 DEF SeNatPairs
<1>6. PICK p : p = SeHydrate(q, s)
  OBVIOUS
<1>7. p = [q EXCEPT !.at = "route", !.for = "full", !.got = s, !.win = w, !.incl = TRUE]
  BY <1>1, <1>2, <1>4, <1>6 DEF SeHydrate
<1>8. p \in SeReqT
  <2>1. PICK q1 : q1 = [q EXCEPT !.at = "route", !.for = "full", !.got = s]
    OBVIOUS
  <2>2. q1 \in SeReqT
    BY ZenonT(60), <2>1 DEF SeReqT, SeFors
  <2>3. p = [q1 EXCEPT !.win = w, !.incl = TRUE]
    BY <1>7, <2>1
  <2>4. QED
    BY ZenonT(60), <2>2, <2>3, <1>5 DEF SeReqT
<1>9. p.at = "route" /\ SeSameAll(q, p)
  BY <1>7 DEF SeReqT, SeSameAll
<1>10. p.tables = q.tables /\ p.table = q.table /\ p.for = "full" /\ p.got = s /\ p.win = w /\ p.incl
  BY <1>7 DEF SeReqT
<1>11. SeShape(q) /\ SeAll(q, SeRest(q), H, M, B)
  BY DEF SeQuery
<1>12. SeShape(p)
  BY <1>9, <1>10, <1>11 DEF SeShape, SeSameAll
<1>13. SeRest(p) = SeRest(q)
  BY <1>10 DEF SeRest
<1>14. SeAll(p, SeRest(p), H, M, B)
  BY <1>9, <1>11, <1>13, SeAllSame
<1>15. SeFound(p, s, H, M)
  BY <1>9, <1>10, SeFoundSame
<1>16. SeWindow(p, H, M)
  BY <1>3, <1>5, <1>10, <1>15 DEF SeWindow
<1>17. SeReqOk(p, H, M, B)
  BY <1>8, <1>9, <1>12, <1>14, <1>16 DEF SeReqOk, SeQuery
<1>18. QED
  BY <1>6, <1>17

-----------------------------------------------------------------------------
(* All nodes have answered. *)

\* The rows that a search goes on with.
SePicked(q) ==
    CASE q.strategy = "chunked" -> Cut(q.got \o q.rows, SeLimit)
      [] q.strategy = "stream" -> Cut(ByTime(q.rows, "DESC"), SeLimit)
      [] OTHER -> q.rows

LEMMA SeGatheredIs ==
    ASSUME NEW q
    PROVE  SearchGathered(q) =
             IF ~q.ok /\ q.err THEN FinishTable(q, <<>>, FALSE)
             ELSE IF q.strategy = "chunked" /\ q.chunks # <<>> /\ Len(q.got \o q.rows) < SeLimit
             THEN SeDown(q, q.got \o q.rows)
             ELSE IF q.lazy /\ SePicked(q) # <<>> THEN SeHydrate(q, SePicked(q))
             ELSE FinishTable(q, SePicked(q), TRUE)
BY Zenon DEF SearchGathered, SeDown, SeHydrate, SeTimes, SePicked

LEMMA SeNothingBare ==
    ASSUME NEW q, NEW s, s = <<>> \/ ~q.lazy, NEW H, NEW B
    PROVE  SeBareOk(q, s, H, B)
<1>1. Elems(<<>>) = {}
  BY DEF Elems
<1>2. QED
  BY <1>1 DEF SeBareOk

\* A query of the whole window for rows.
LEMMA SePickedFound ==
    ASSUME NEW q \in SeReqT, NEW H, H \subseteq SeRowSet, NEW M, NEW B,
           SeQuery(q, H, M, B), SeFan(q, H, M, B), q.left = {}, q.for = "rows",
           q.strategy # "chunked"
    PROVE  SePicked(q) \in Seq(SeRowSet) /\ SeFound(q, SePicked(q), H, M)
<1>1. SeShape(q) /\ q.win = q.asked /\ q.incl /\ q.kind = "search"
  BY DEF SeQuery, SeWindow, SeShape
<1>2. q.rows \in Seq(SeRowSet) /\ q.strategy \in {"full", "stream", "chunked"}
  BY DEF SeReqT
<1>3. SeOnce(q.rows)
  BY DEF SeFan
<1>4. CASE q.strategy = "stream"
  <2>1. PICK s : s = ByTime(q.rows, "DESC")
    OBVIOUS
  <2>2. SeSorted(q.rows, "DESC", s)
    BY <2>1, <1>2, SeByTime
  <2>3. s \in Seq(SeRowSet) /\ Len(s) = Len(q.rows) /\ Elems(s) = Elems(q.rows) /\ SeOnce(s) /\ SeDesc(s)
    BY <2>2, <1>3 DEF SeSorted
  <2>4. SeOrdered(q, s)
    BY <2>3, <1>1, <1>4 DEF SeOrdered
  <2>5. SeFound(q, s, H, M)
    BY <2>3, <2>4, <1>1, SePlainFound
  <2>6. SeFound(q, Cut(s, SeLimit), H, M)
    BY <2>3, <2>5, <1>1, <1>4, SeStreamCut
  <2>7. Cut(s, SeLimit) \in Seq(SeRowSet)
    <3>1. SeLimit \in Nat
      BY SearchAssumption
    <3>2. QED
      BY <3>1, <2>3, SeCut DEF SeFirst
  <2>8. SePicked(q) = Cut(s, SeLimit)
    BY <2>1, <1>4 DEF SePicked
  <2>9. QED
    BY <2>6, <2>7, <2>8
<1>5. CASE q.strategy = "full"
  <2>1. SePicked(q) = q.rows
    BY <1>5 DEF SePicked
  <2>2. SeOrdered(q, q.rows)
    BY <1>1, <1>5 DEF SeOrdered
  <2>3. SeFound(q, q.rows, H, M)
    BY <2>2, <1>1, <1>2, <1>3, SePlainFound
  <2>4. QED
    BY <2>1, <2>3, <1>2
<1>6. QED
  BY <1>2, <1>4, <1>5

LEMMA SeSearchOk ==
    ASSUME NEW q \in SeReqT, NEW H, H \subseteq SeRowSet, NEW M, NEW B,
           SeQuery(q, H, M, B), SeFan(q, H, M, B), q.left = {}, q.for = "rows"
    PROVE  SeReqOk(SearchGathered(q), H, M, B)
<1>1. SeShape(q) /\ SeAll(q, SeRest(q), H, M, B) /\ SeWindow(q, H, M)
  BY DEF SeQuery
<1>2. <<>> \in Seq(SeRowSet)
  BY EmptySeq
<1>3. PICK c : c = q.got \o q.rows
  OBVIOUS
<1>4. PICK s : s = SePicked(q)
  OBVIOUS
<1>5. SearchGathered(q) =
        IF ~q.ok /\ q.err THEN FinishTable(q, <<>>, FALSE)
        ELSE IF q.strategy = "chunked" /\ q.chunks # <<>> /\ Len(c) < SeLimit THEN SeDown(q, c)
        ELSE IF q.lazy /\ s # <<>> THEN SeHydrate(q, s)
        ELSE FinishTable(q, s, TRUE)
  BY <1>3, <1>4, SeGatheredIs, Zenon
<1>6. CASE ~q.ok /\ q.err
  <2>1. SeFound(q, <<>>, H, M)
    BY <1>6, SeNoneFound
  <2>2. SeBareOk(q, <<>>, H, B)
    BY SeNothingBare
  <2>3. SeReqOk(FinishTable(q, <<>>, FALSE), H, M, B)
    BY <2>1, <2>2, <1>1, <1>2, SeFinishOk
  <2>4. QED
    BY <2>3, <1>5, <1>6
<1>7. ASSUME q.strategy = "chunked" PROVE SeSofar(q, c, H, M)
  <2>1. SeSlice(q, H, M)
    BY <1>1, <1>7 DEF SeWindow
  <2>2. QED
    BY <2>1, <1>1, <1>3, <1>7, SeSlicesSofar
<1>8. CASE ~(~q.ok /\ q.err) /\ q.strategy = "chunked" /\ q.chunks # <<>> /\ Len(c) < SeLimit
  <2>1. SeReqOk(SeDown(q, c), H, M, B)
    BY <1>7, <1>8, SeNextSlice
  <2>2. QED
    BY <2>1, <1>5, <1>8
<1>9. CASE ~(~q.ok /\ q.err) /\ ~(q.strategy = "chunked" /\ q.chunks # <<>> /\ Len(c) < SeLimit)
  <2>1. s \in Seq(SeRowSet) /\ SeFound(q, s, H, M)
    <3>1. CASE q.strategy = "chunked"
      <4>1. s = Cut(c, SeLimit)
        BY <3>1, <1>3, <1>4 DEF SePicked
      <4>2. SeSofar(q, c, H, M)
        BY <3>1, <1>7
      <4>3. c \in Seq(SeRowSet)
        BY <4>2 DEF SeSofar
      <4>4. SeLimit \in Nat
        BY SearchAssumption
      <4>5. Len(c) \in Nat
        BY <4>3, LenProperties
      <4>6. q.chunks = <<>> \/ Len(c) >= SeLimit
        BY <3>1, <4>4, <4>5, <1>9
      <4>7. SeSlice(q, H, M)
        BY <3>1, <1>1 DEF SeWindow
      <4>8. SeFound(q, Cut(c, SeLimit), H, M)
        BY <3>1, <4>2, <4>6, <4>7, <1>1, SeSlicesFound
      <4>9. Cut(c, SeLimit) \in Seq(SeRowSet)
        BY <4>3, <4>4, SeCut DEF SeFirst
      <4>10. QED
        BY <4>1, <4>8, <4>9
    <3>2. CASE q.strategy # "chunked"
      BY <3>2, <1>4, SePickedFound
    <3>3. QED
      BY <3>1, <3>2
  <2>2. CASE q.lazy /\ s # <<>>
    <3>1. SeReqOk(SeHydrate(q, s), H, M, B)
      BY <2>1, <2>2, SeHydrates
    <3>2. QED
      BY <3>1, <2>2, <1>5, <1>9
  <2>3. CASE ~(q.lazy /\ s # <<>>)
    <3>1. SeBareOk(q, s, H, B)
      BY <2>3, SeNothingBare
    <3>2. SeReqOk(FinishTable(q, s, TRUE), H, M, B)
      BY <3>1, <2>1, <1>1, SeFinishOk
    <3>3. QED
      BY <3>2, <2>3, <1>5, <1>9
  <2>4. QED
    BY <2>2, <2>3
<1>10. QED
  BY <1>6, <1>8, <1>9

\* The rows that are found, with the full form of those in f.
SeFilled(q, f) == [q EXCEPT !.full = f]

LEMMA SeFillOk ==
    ASSUME NEW q \in SeReqT, NEW H, H \subseteq SeRowSet, NEW M, NEW B,
           SeQuery(q, H, M, B), SeFan(q, H, M, B), q.left = {}, q.for = "full",
           NEW f, f = q.full \cup Elems(q.rows)
    PROVE  SeReqOk(FinishTable(SeFilled(q, f), q.got, TRUE), H, M, B)
<1>1. q.rows \in Seq(SeRowSet) /\ q.got \in Seq(SeRowSet) /\ q.full \subseteq SeRowSet /\ q.win \in SeNatPairs
  BY DEF SeReqT
<1>2. q.win[1] \in Nat /\ q.win[2] \in Nat
  BY <1>1 DEF SeNatPairs
<1>3. f \in SUBSET SeRowSet
  BY <1>1, SeElems
<1>4. PICK p : p = SeFilled(q, f)
  OBVIOUS
<1>5. p \in SeReqT
  BY <1>3, <1>4 DEF SeFilled, SeReqT
<1>6. /\ p.kind = q.kind /\ p.asked = q.asked /\ p.strategy = q.strategy /\ p.lazy = q.lazy
      /\ p.want = q.want /\ p.tables = q.tables /\ p.table = q.table /\ p.for = q.for /\ p.ids = q.ids
      /\ p.wanted = q.wanted /\ p.got = q.got /\ p.all = q.all /\ p.full = f
  BY <1>4 DEF SeFilled, SeReqT
<1>7. SeShape(q) /\ SeAll(q, SeRest(q), H, M, B) /\ SeFound(q, q.got, H, M) /\ q.incl
      /\ \A r \in Elems(q.got) : q.win[1] <= r.t /\ r.t <= q.win[2]
  BY DEF SeQuery, SeWindow
<1>8. SeShape(p)
  BY <1>6, <1>7 DEF SeShape
<1>9. SeRest(p) = SeRest(q)
  BY <1>6 DEF SeRest
<1>10. \A r : SeAsk(p, r) <=> SeAsk(q, r)
  BY <1>6 DEF SeAsk
<1>11. \A r : SeOf(p, r) <=> SeOf(q, r)
  BY <1>6, <1>10 DEF SeOf
<1>12. \A s, r : SeLimited(p, s, r) <=> SeLimited(q, s, r)
  BY <1>6 DEF SeLimited
<1>13. SeAll(p, SeRest(p), H, M, B)
  <2>1. SeAllSound(p, SeRest(p))
    BY <1>6, <1>7, <1>9, <1>10 DEF SeAll, SeAllSound
  <2>2. SeAllComplete(p, SeRest(p), H, M)
    BY <1>6, <1>7, <1>9, <1>10, <1>12 DEF SeAll, SeAllComplete, SeExcused
  <2>3. SeBareOk(p, p.all, H, B)
    BY <1>6, <1>7 DEF SeAll, SeBareOk
  <2>4. QED
    BY <2>1, <2>2, <2>3 DEF SeAll
<1>14. SeFound(p, q.got, H, M)
  <2>1. SeOnce(q.got) /\ SeOrdered(p, q.got)
    BY <1>6, <1>7 DEF SeFound, SeOrdered
  <2>2. \A r \in Elems(q.got) : SeOf(p, r)
    BY <1>7, <1>11 DEF SeFound
  <2>3. \A r \in H : SeOf(p, r) /\ r \notin Elems(q.got) => SeExcused(p, q.got, r, M)
    BY <1>7, <1>11, <1>12 DEF SeFound, SeExcused
  <2>4. QED
    BY <2>1, <2>2, <2>3 DEF SeFound
<1>15. ASSUME NEW r \in Elems(q.got), r \in H PROVE r \in f \/ r.node \in B
  <2>1. SeAsk(q, r) /\ r.table = q.table
    BY <1>7 DEF SeFound, SeOf
  <2>2. r.t \in Nat
    BY <1>15, SeRowT
  <2>3. q.win[1] <= r.t /\ r.t <= q.win[2]
    BY <1>7
  <2>4. r.t < q.win[2] \/ r.t = q.win[2]
    BY <2>2, <2>3, <1>2
  <2>5. SeIn(q, r)
    BY <2>3, <2>4, <1>7 DEF SeIn
  <2>6. SeSel(q, r)
    BY <2>1, <2>5, <1>15 DEF SeSel, SeAsk
  <2>7. r \notin Elems(q.rows) => r.node \in B
    BY <2>6, <1>15 DEF SeFan
  <2>8. QED
    BY <2>7
<1>16. SeBareOk(p, q.got, H, B)
  BY <1>6, <1>15 DEF SeBareOk
<1>17. p.for # "expand"
  BY <1>6
<1>18. SeReqOk(FinishTable(p, q.got, TRUE), H, M, B)
  BY <1>1, <1>5, <1>8, <1>13, <1>14, <1>16, <1>17, SeFinishOk
<1>19. QED
  BY <1>4, <1>18

-----------------------------------------------------------------------------
(* Transactions. *)

\* The rows of a query of the whole window, oldest first.
LEMMA SeOldestFound ==
    ASSUME NEW q \in SeReqT, NEW H, H \subseteq SeRowSet, NEW M, NEW B,
           SeQuery(q, H, M, B), SeFan(q, H, M, B), q.left = {}, q.for \in {"base", "again"},
           NEW s, s = ByTime(q.rows, "ASC")
    PROVE  s \in Seq(SeRowSet) /\ SeFound(q, s, H, M) /\ SeOnce(s) /\ SeAsc(s) /\ Elems(s) = Elems(q.rows)
<1>1. SeShape(q) /\ q.win = q.asked /\ q.incl /\ q.kind = "messages"
  BY DEF SeQuery, SeWindow, SeShape
<1>2. q.rows \in Seq(SeRowSet)
  BY DEF SeReqT
<1>3. SeSorted(q.rows, "ASC", s)
  BY <1>2, SeByTime
<1>4. s \in Seq(SeRowSet) /\ Len(s) = Len(q.rows) /\ Elems(s) = Elems(q.rows) /\ SeOnce(s) /\ SeAsc(s)
  BY <1>3 DEF SeSorted, SeFan
<1>5. SeOrdered(q, s)
  BY <1>1, <1>4 DEF SeOrdered, SeShape
<1>6. SeFound(q, s, H, M)
  BY <1>1, <1>4, <1>5, SePlainFound
<1>7. QED
  BY <1>4, <1>6

LEMMA SeMessagesIs ==
    ASSUME NEW q, NEW s, s = ByTime(q.rows, "ASC"), NEW t, t = IF q.for = "again" /\ ~q.ok /\ q.err THEN q.got ELSE s,
           NEW good, good = (q.for = "again" \/ q.ok \/ ~q.err)
    PROVE  MessagesGathered(q) = FinishTable(q, t, good)
<1>1. (q.for = "again" \/ ~(~q.ok /\ q.err)) = good
  OBVIOUS
<1>2. (IF q.for = "again" /\ (~q.ok /\ q.err) THEN q.got ELSE s) = t
  OBVIOUS
<1>3. MessagesGathered(q) = FinishTable(q, IF q.for = "again" /\ (~q.ok /\ q.err) THEN q.got ELSE s,
                                        q.for = "again" \/ ~(~q.ok /\ q.err))
  BY Zenon DEF MessagesGathered
<1>4. QED
  BY <1>1, <1>2, <1>3, Zenon

LEMMA SeMessagesOk ==
    ASSUME NEW q \in SeReqT, NEW H, H \subseteq SeRowSet, NEW M, NEW B,
           SeQuery(q, H, M, B), SeFan(q, H, M, B), q.left = {}, q.for \in {"base", "again"}
    PROVE  SeReqOk(MessagesGathered(q), H, M, B)
<1>1. PICK s : s = ByTime(q.rows, "ASC")
  OBVIOUS
<1>2. PICK t : t = IF q.for = "again" /\ ~q.ok /\ q.err THEN q.got ELSE s
  OBVIOUS
<1>3. PICK good \in BOOLEAN : good = (q.for = "again" \/ q.ok \/ ~q.err)
  OBVIOUS
<1>4. MessagesGathered(q) = FinishTable(q, t, good)
  BY <1>1, <1>2, <1>3, SeMessagesIs, Zenon
<1>5. SeShape(q) /\ SeAll(q, SeRest(q), H, M, B) /\ SeWindow(q, H, M)
  BY DEF SeQuery
<1>6. q.kind = "messages" /\ ~q.lazy /\ q.strategy = "full"
  BY <1>5 DEF SeShape
<1>7. q.got \in Seq(SeRowSet)
  BY DEF SeReqT
<1>8. t \in Seq(SeRowSet) /\ SeFound(q, t, H, M)
  <2>1. CASE q.for = "again" /\ ~q.ok /\ q.err
    <3>1. t = q.got
      BY <2>1, <1>2
    <3>2. \A r \in H : SeOf(q, r) => <<r.node, r.table>> \in M
      BY <2>1, SeNoneFound
    <3>3. SeOnce(q.got) /\ SeAsc(q.got) /\ \A r \in Elems(q.got) : SeOf(q, r)
      BY <2>1, <1>5 DEF SeWindow
    <3>4. SeOrdered(q, q.got)
      BY <3>3, <1>6 DEF SeOrdered
    <3>5. SeFound(q, q.got, H, M)
      BY <3>2, <3>3, <3>4 DEF SeFound, SeExcused
    <3>6. QED
      BY <3>1, <3>5, <1>7
  <2>2. CASE ~(q.for = "again" /\ ~q.ok /\ q.err)
    <3>1. t = s
      BY <2>2, <1>2
    <3>2. QED
      BY <3>1, <1>1, SeOldestFound
  <2>3. QED
    BY <2>1, <2>2
<1>9. SeBareOk(q, t, H, B)
  BY <1>6, SeNothingBare
<1>10. SeReqOk(FinishTable(q, t, good), H, M, B)
  BY <1>5, <1>8, <1>9, SeFinishOk
<1>11. QED
  BY <1>4, <1>10

LEMMA SeLastOk ==
    ASSUME NEW q \in SeReqT, NEW H, H \subseteq SeRowSet, NEW M, NEW B,
           SeQuery(q, H, M, B), SeFan(q, H, M, B), q.left = {}, q.for = "last", NEW good \in BOOLEAN
    PROVE  SeReqOk(FinishTable(q, q.rows, good), H, M, B)
<1>1. SeShape(q) /\ SeAll(q, SeRest(q), H, M, B) /\ q.win = q.asked /\ q.incl
  BY DEF SeQuery, SeWindow
<1>2. q.kind # "search" /\ q.kind # "messages" /\ ~q.lazy /\ q.strategy = "full"
  BY <1>1 DEF SeShape
<1>3. q.rows \in Seq(SeRowSet) /\ SeOnce(q.rows)
  BY DEF SeReqT, SeFan
<1>4. SeOrdered(q, q.rows)
  BY <1>2 DEF SeOrdered
<1>5. SeFound(q, q.rows, H, M)
  BY <1>1, <1>3, <1>4, SePlainFound
<1>6. SeBareOk(q, q.rows, H, B)
  BY <1>2, SeNothingBare
<1>7. QED
  BY <1>1, <1>3, <1>5, <1>6, SeFinishOk

\* The sessions that the script adds.
SeBoth == {"own", "leg"}
SeWiden(q) == [q EXCEPT !.ids = SeBoth]
SeAgain(q, s) == [q EXCEPT !.at = "route", !.for = "again", !.ids = SeBoth, !.got = s]

\* Nothing is done yet.
LEMMA SeNoneYet ==
    ASSUME NEW q, q.all = <<>>, NEW rest, q.want \subseteq rest, NEW H, NEW M, NEW B
    PROVE  SeAll(q, rest, H, M, B)
<1>1. Elems(q.all) = {} /\ SeOnce(q.all)
  BY DEF Elems, SeOnce
<1>2. QED
  BY <1>1 DEF SeAll, SeAllSound, SeAllComplete, SeBareOk, SeAsk

LEMMA SeExpandOk ==
    ASSUME NEW q \in SeReqT, NEW H, H \subseteq SeRowSet, NEW M, NEW B,
           SeQuery(q, H, M, B), q.for = "expand"
    PROVE  SeReqOk(StartTable(q), H, M, B) /\ SeReqOk(StartTable(SeWiden(q)), H, M, B)
<1>1. SeShape(q) /\ q.tables # <<>> /\ q.all = <<>> /\ q.want = Elems(q.tables)
  BY DEF SeQuery, SeShape
<1>2. SeReady(q)
  BY <1>1 DEF SeShape, SeReady
<1>3. SeAll(q, Elems(q.tables), H, M, B)
  BY <1>1, SeNoneYet
<1>4. SeReqOk(StartTable(q), H, M, B)
  BY <1>2, <1>3, SeStartOk
<1>5. PICK p : p = SeWiden(q)
  OBVIOUS
<1>6. p \in SeReqT
  BY <1>5 DEF SeWiden, SeBoth, SeReqT
<1>7. p.tables = q.tables /\ p.want = q.want /\ p.all = q.all /\ p.lazy = q.lazy /\ p.kind = q.kind
      /\ p.strategy = q.strategy
  BY <1>5 DEF SeWiden, SeReqT
<1>8. SeReady(p)
  BY <1>2, <1>7 DEF SeReady
<1>9. SeAll(p, Elems(p.tables), H, M, B)
  BY <1>1, <1>7, SeNoneYet
<1>10. SeReqOk(StartTable(p), H, M, B)
  BY <1>6, <1>8, <1>9, SeStartOk
<1>11. QED
  BY <1>4, <1>5, <1>10

LEMMA SeAgainOk ==
    ASSUME NEW q \in SeReqT, NEW H, H \subseteq SeRowSet, NEW M, NEW B,
           SeQuery(q, H, M, B), SeFan(q, H, M, B), q.left = {}, q.for = "base", ~Several(q),
           NEW s, s = ByTime(q.rows, "ASC")
    PROVE  SeReqOk(SeAgain(q, s), H, M, B)
<1>1. SeShape(q) /\ SeAll(q, SeRest(q), H, M, B) /\ q.win = q.asked /\ q.incl
  BY DEF SeQuery, SeWindow
<1>2. q.kind = "messages" /\ ~q.lazy /\ q.strategy = "full" /\ q.table \in q.want
  BY <1>1 DEF SeShape
<1>3. s \in Seq(SeRowSet) /\ SeFound(q, s, H, M) /\ SeOnce(s) /\ SeAsc(s)
  BY SeOldestFound
<1>4. PICK p : p = SeAgain(q, s)
  OBVIOUS
<1>5. p \in SeReqT
  <2>1. PICK q1 : q1 = [q EXCEPT !.at = "route", !.for = "again"]
    OBVIOUS
  <2>2. q1 \in SeReqT
    BY ZenonT(60), <2>1 DEF SeReqT, SeFors
  <2>3. p = [q1 EXCEPT !.ids = SeBoth, !.got = s]
    BY <1>4, <2>1 DEF SeAgain
  <2>4. QED
    BY ZenonT(60), <2>2, <2>3, <1>3 DEF SeReqT, SeBoth
<1>6. /\ p.at = "route" /\ p.for = "again" /\ p.ids = SeBoth /\ p.got = s
      /\ p.kind = q.kind /\ p.asked = q.asked /\ p.strategy = q.strategy /\ p.lazy = q.lazy
      /\ p.want = q.want /\ p.wanted = q.wanted /\ p.all = q.all
      /\ p.tables = q.tables /\ p.table = q.table /\ p.win = q.win /\ p.incl = q.incl
  BY <1>4 DEF SeAgain, SeReqT
<1>7. SeShape(p)
  BY <1>1, <1>2, <1>6 DEF SeShape
<1>8. SeRest(q) = Elems(q.tables) \cup {q.table} /\ SeRest(p) = SeRest(q)
  BY <1>6 DEF SeRest
<1>9. q.all = <<>> /\ q.want = {q.table}
  <2>1. q.table \in SeRest(q) /\ SeAllSound(q, SeRest(q))
    BY <1>1, <1>8 DEF SeAll
  <2>2. QED
    BY <2>1, <1>1, SeOneTable
<1>10. SeAll(p, SeRest(p), H, M, B)
  BY <1>6, <1>8, <1>9, SeNoneYet
<1>11. q.ids \subseteq SeBoth
  BY DEF SeReqT, SeBoth
<1>12. \A r \in Elems(s) : SeOf(p, r)
  BY <1>3, <1>6, <1>11 DEF SeFound, SeOf, SeAsk
<1>13. ~Several(p)
  BY <1>6 DEF Several
<1>14. SeWindow(p, H, M)
  BY <1>1, <1>3, <1>6, <1>12, <1>13 DEF SeWindow
<1>15. SeReqOk(p, H, M, B)
  BY <1>5, <1>6, <1>7, <1>10, <1>14 DEF SeReqOk, SeQuery
<1>16. QED
  BY <1>4, <1>15

LEMMA SeGatheredOk ==
    ASSUME NEW q \in SeReqT, NEW H, H \subseteq SeRowSet, NEW M, NEW B,
           SeQuery(q, H, M, B), SeFan(q, H, M, B), q.left = {}
    PROVE  SeReqOk(Gathered(q), H, M, B)
<1>1. q.for \in {"rows", "full", "base", "again", "expand", "last"}
  BY DEF SeReqT, SeFors
<1>2. CASE q.for = "rows"
  <2>1. Gathered(q) = SearchGathered(q)
    BY <1>2 DEF Gathered
  <2>2. QED
    BY <2>1, <1>2, SeSearchOk
<1>3. CASE q.for = "full"
  <2>1. PICK f : f = q.full \cup Elems(q.rows)
    OBVIOUS
  <2>2. Gathered(q) = FinishTable([q EXCEPT !.full = @ \cup Elems(q.rows)], hydrateHeavyColumns(q), TRUE)
    BY <1>3 DEF Gathered
  <2>3. [q EXCEPT !.full = @ \cup Elems(q.rows)] = SeFilled(q, f)
    BY <2>1 DEF SeFilled
  <2>4. hydrateHeavyColumns(q) = q.got
    BY DEF hydrateHeavyColumns
  <2>5. Gathered(q) = FinishTable(SeFilled(q, f), q.got, TRUE)
    BY <2>2, <2>3, <2>4, Zenon
  <2>6. QED
    BY <2>1, <2>5, <1>3, SeFillOk
<1>4. CASE q.for \in {"base", "again"}
  <2>1. Gathered(q) = MessagesGathered(q)
    BY <1>4 DEF Gathered
  <2>2. QED
    BY <2>1, <1>4, SeMessagesOk
<1>5. CASE q.for = "expand"
  <2>1. Gathered(q) = StartTable(q)
    BY <1>5 DEF Gathered
  <2>2. QED
    BY <2>1, <1>5, SeExpandOk
<1>6. CASE q.for = "last"
  <2>1. PICK good \in BOOLEAN : good = (q.ok \/ ~q.err)
    OBVIOUS
  <2>2. Gathered(q) = FinishTable(q, q.rows, q.ok \/ ~q.err)
    BY <1>6 DEF Gathered
  <2>3. Gathered(q) = FinishTable(q, q.rows, good)
    BY <2>1, <2>2, Zenon
  <2>4. QED
    BY <2>3, <1>6, SeLastOk
<1>7. QED
  BY <1>1, <1>2, <1>3, <1>4, <1>5, <1>6

LEMMA SeGatherStep ==
    ASSUME SeRanges, SeReqOk(se, seHeld, seMissed, seBare), SeGather
    PROVE  SeRanges' /\ SeReqOk(se', seHeld', seMissed', seBare')
<1>1. /\ se.at = "fan" /\ se.left = {}
      /\ \/ se' = Gathered(se)
         \/ se.for = "base" /\ ~Several(se) /\ se' = SeAgain(se, ByTime(se.rows, "ASC"))
         \/ se.for = "expand" /\ se' = StartTable(SeWiden(se))
      /\ UNCHANGED <<seStore, seSeen, seProbe, seChanges, seHeld, seMissed, seBare, seWronged>>
  BY Zenon DEF SeGather, SeAgain, SeWiden, SeBoth
<1>2. UNCHANGED <<seRows, seLake, seUnseen, seConnected, seRange, seProbe, seHeld, seMissed, seBare, seWronged>>
  BY <1>1 DEF seStore, seSeen
<1>3. SeRanges'
  BY <1>2 DEF SeRanges
<1>4. /\ se \in SeReqT /\ SeQuery(se, seHeld, seMissed, seBare) /\ SeFan(se, seHeld, seMissed, seBare)
      /\ seHeld \subseteq SeRowSet
  BY <1>1 DEF SeReqOk, SeRanges
<1>5. CASE se' = Gathered(se)
  <2>1. SeReqOk(Gathered(se), seHeld, seMissed, seBare)
    BY <1>1, <1>4, SeGatheredOk
  <2>2. QED
    BY <2>1, <1>2, <1>3, <1>5
<1>6. CASE se.for = "base" /\ ~Several(se) /\ se' = SeAgain(se, ByTime(se.rows, "ASC"))
  <2>1. SeReqOk(SeAgain(se, ByTime(se.rows, "ASC")), seHeld, seMissed, seBare)
    BY <1>1, <1>4, <1>6, SeAgainOk
  <2>2. QED
    BY <2>1, <1>2, <1>3, <1>6
<1>7. CASE se.for = "expand" /\ se' = StartTable(SeWiden(se))
  <2>1. SeReqOk(StartTable(SeWiden(se)), seHeld, seMissed, seBare)
    BY <1>4, <1>7, SeExpandOk
  <2>2. QED
    BY <2>1, <1>2, <1>3, <1>7
<1>8. QED
  BY <1>1, <1>5, <1>6, <1>7

-----------------------------------------------------------------------------
(* The requests. *)

SeLists4 == {<<"call">>, <<"call", "registration">>, <<"otlp">>, <<"rtcp", "otlp">>}

LEMMA SeTableLists ==
    ASSUME NEW s \in SeLists4
    PROVE  s \in Seq(SeTableNames) /\ SeOnce(s) /\ s # <<>> /\ Elems(s) \in SUBSET SeTableNames
<1>1. "call" \in SeTableNames /\ "registration" \in SeTableNames /\ "otlp" \in SeTableNames
      /\ "rtcp" \in SeTableNames
  BY DEF SeTableNames
<1>2. s \in Seq(SeTableNames) /\ s # <<>>
  <2>1. CASE s = <<"call">>
    BY <2>1, <1>1
  <2>2. CASE s = <<"call", "registration">>
    BY <2>2, <1>1
  <2>3. CASE s = <<"otlp">>
    BY <2>3, <1>1
  <2>4. CASE s = <<"rtcp", "otlp">>
    BY <2>4, <1>1
  <2>5. QED
    BY <2>1, <2>2, <2>3, <2>4 DEF SeLists4
<1>3. SeOnce(s)
  <2>1. (Len(s) = 1 \/ (Len(s) = 2 /\ s[1] # s[2])) /\ DOMAIN s = 1 .. Len(s)
    <3>1. CASE s = <<"call">>
      BY <3>1
    <3>2. CASE s = <<"call", "registration">>
      BY <3>2
    <3>3. CASE s = <<"otlp">>
      BY <3>3
    <3>4. CASE s = <<"rtcp", "otlp">>
      BY <3>4
    <3>5. QED
      BY <3>1, <3>2, <3>3, <3>4 DEF SeLists4
  <2>2. CASE Len(s) = 1
    <3>1. \A i \in DOMAIN s : i = 1
      BY <2>1, <2>2
    <3>2. QED
      BY <3>1 DEF SeOnce
  <2>3. CASE Len(s) = 2 /\ s[1] # s[2]
    <3>1. \A i \in DOMAIN s : i = 1 \/ i = 2
      BY <2>1, <2>3
    <3>2. QED
      BY <3>1, <2>3 DEF SeOnce
  <2>4. QED
    BY <2>1, <2>2, <2>3
<1>4. DOMAIN s = 1 .. Len(s) /\ \A i \in 1 .. Len(s) : s[i] \in SeTableNames
  BY <1>2, LenProperties, ElementOfSeq
<1>5. Elems(s) \in SUBSET SeTableNames
  BY <1>4 DEF Elems
<1>6. QED
  BY <1>2, <1>3, <1>5

\* A request before its first query.
SeFresh(q) ==
    /\ q \in SeReqT /\ q.at = "route" /\ q.for = "last" /\ q.all = <<>>
    /\ q.want = Elems(q.tables) /\ SeOnce(q.tables) /\ q.tables # <<>>
    /\ q.win = q.asked /\ q.incl
    /\ q.lazy => q.kind = "search"
    /\ q.strategy # "full" => q.kind = "search"

LEMMA SeFreshRequest ==
    ASSUME NEW kind \in {"search", "messages", "message", "detail", "qos"},
           NEW win \in SeNatPairs, NEW tables \in SeLists4, NEW ids \in SUBSET SeBoth
    PROVE  /\ SeFresh(SeRequest(kind, win, tables, ids))
           /\ SeRequest(kind, win, tables, ids).kind = kind
<1>1. tables \in Seq(SeTableNames) /\ SeOnce(tables) /\ tables # <<>> /\ Elems(tables) \in SUBSET SeTableNames
  BY SeTableLists
<1>2. PICK hd : hd = Head(tables)
  OBVIOUS
<1>3. hd \in SeTableNames
  BY <1>1, <1>2, SeHeadTail
<1>4. PICK none : none = <<>>
  OBVIOUS
<1>5. none \in Seq(SeRowSet) /\ none \in Seq([win : SeNatPairs, incl : BOOLEAN])
  BY <1>4, EmptySeq
<1>6. PICK want : want = Elems(tables)
  OBVIOUS
<1>7. PICK q : q = SeRequest(kind, win, tables, ids)
  OBVIOUS
<1>8. q = [at |-> "route", kind |-> kind, asked |-> win, strategy |-> "full", lazy |-> FALSE,
           want |-> want, tables |-> tables, table |-> hd, chunks |-> none,
           win |-> win, incl |-> TRUE, for |-> "last", ids |-> ids, wanted |-> 0,
           left |-> {}, ok |-> FALSE, err |-> FALSE, rows |-> none,
           got |-> none, all |-> none, full |-> {}, served |-> 0, failed |-> FALSE]
  BY <1>2, <1>4, <1>6, <1>7 DEF SeRequest
<1>9. want \in SUBSET SeTableNames /\ "last" \in SeFors /\ 0 \in SeRowSet \cup {0} /\ 0 \in Nat
      /\ {} \in SUBSET SeNodes /\ {} \in SUBSET SeRowSet /\ ids \in SUBSET {"own", "leg"}
  BY <1>1, <1>6 DEF SeFors, SeBoth
<1>10. q \in SeReqT
  BY <1>1, <1>3, <1>5, <1>8, <1>9 DEF SeReqT
<1>11. /\ q.at = "route" /\ q.for = "last" /\ q.all = <<>> /\ q.want = Elems(q.tables)
       /\ q.tables = tables /\ q.win = q.asked /\ q.incl /\ q.kind = kind /\ ~q.lazy /\ q.strategy = "full"
  BY <1>4, <1>6, <1>8
<1>12. SeFresh(q) /\ q.kind = kind
  BY <1>1, <1>10, <1>11 DEF SeFresh
<1>13. QED
  BY <1>7, <1>12

LEMMA SeFreshSearch ==
    ASSUME NEW win \in SeNatPairs, NEW tables \in SeLists4,
           NEW strategy \in {"full", "stream", "chunked"}, NEW lazy \in BOOLEAN
    PROVE  SeFresh(SearchRequest(win, tables, strategy, lazy))
<1>1. PICK q : q = SeRequest("search", win, tables, {"own", "leg"})
  OBVIOUS
<1>2. SeFresh(q) /\ q.kind = "search"
  BY <1>1, SeFreshRequest DEF SeBoth
<1>3. PICK st : st = IF tables = <<"otlp">> THEN "full" ELSE strategy
  OBVIOUS
<1>4. PICK lz \in BOOLEAN : lz = (lazy /\ tables # <<"otlp">>)
  OBVIOUS
<1>5. PICK p : p = SearchRequest(win, tables, strategy, lazy)
  OBVIOUS
<1>6. p = [q EXCEPT !.strategy = st, !.lazy = lz]
  BY <1>1, <1>3, <1>4, <1>5, Zenon DEF SearchRequest
<1>7. st \in {"full", "stream", "chunked"}
  BY <1>3
<1>8. q \in SeReqT
  BY <1>2 DEF SeFresh
<1>9. p \in SeReqT
  BY <1>6, <1>7, <1>8 DEF SeReqT
<1>10. /\ p.at = q.at /\ p.for = q.for /\ p.all = q.all /\ p.want = q.want /\ p.tables = q.tables
       /\ p.win = q.win /\ p.asked = q.asked /\ p.incl = q.incl /\ p.kind = q.kind
  BY <1>6, <1>8 DEF SeReqT
<1>11. SeFresh(p)
  BY <1>2, <1>9, <1>10 DEF SeFresh
<1>12. QED
  BY <1>5, <1>11

\* A request that looks for further sessions first.
SeExpanding(q) ==
    \E p : SeFresh(p) /\ p.kind \in {"detail", "qos"} /\ q = Expanding(p)

LEMMA SeExpandingOk ==
    ASSUME NEW q, SeExpanding(q), NEW H, NEW M, NEW B
    PROVE  q.for = "expand" /\ SeReqOk(q, H, M, B)
<1>1. PICK p : SeFresh(p) /\ p.kind \in {"detail", "qos"} /\ q = Expanding(p)
  BY DEF SeExpanding
<1>2. p \in SeReqT
  BY <1>1 DEF SeFresh
<1>3. q = [p EXCEPT !.for = "expand", !.table = "call"]
  BY <1>1 DEF Expanding
<1>4. q \in SeReqT
  <2>1. "expand" \in SeFors /\ "call" \in SeTableNames
    BY DEF SeFors, SeTableNames
  <2>2. QED
    BY <2>1, <1>2, <1>3 DEF SeReqT
<1>5. /\ q.at = p.at /\ q.for = "expand" /\ q.all = p.all /\ q.want = p.want /\ q.tables = p.tables
      /\ q.win = p.win /\ q.asked = p.asked /\ q.incl = p.incl /\ q.kind = p.kind
      /\ q.lazy = p.lazy /\ q.strategy = p.strategy
  BY <1>2, <1>3 DEF SeReqT
<1>6. SeShape(q)
  BY <1>1, <1>5 DEF SeShape, SeFresh
<1>7. SeWindow(q, H, M)
  BY <1>1, <1>5 DEF SeWindow, SeFresh
<1>8. SeAll(q, SeRest(q), H, M, B)
  <2>1. q.all = <<>> /\ q.want \subseteq SeRest(q)
    BY <1>1, <1>5 DEF SeFresh, SeRest
  <2>2. QED
    BY <2>1, SeNoneYet
<1>9. QED
  BY <1>1, <1>4, <1>5, <1>6, <1>7, <1>8 DEF SeReqOk, SeQuery, SeFresh

SeErrs(q) == \E p : SeFresh(p) /\ q = [p EXCEPT !.at = "error"]

LEMMA SeFreshWanted ==
    ASSUME NEW q, SeFresh(q), NEW r \in SeRowSet
    PROVE  SeFresh([q EXCEPT !.wanted = r])
<1>1. PICK p : p = [q EXCEPT !.wanted = r]
  OBVIOUS
<1>2. q \in SeReqT
  BY DEF SeFresh
<1>3. p \in SeReqT
  BY <1>1, <1>2 DEF SeReqT
<1>4. /\ p.at = q.at /\ p.for = q.for /\ p.all = q.all /\ p.want = q.want /\ p.tables = q.tables
      /\ p.win = q.win /\ p.asked = q.asked /\ p.incl = q.incl /\ p.kind = q.kind
      /\ p.lazy = q.lazy /\ p.strategy = q.strategy
  BY <1>1, <1>2 DEF SeReqT
<1>5. SeFresh(p)
  BY <1>3, <1>4 DEF SeFresh
<1>6. QED
  BY <1>1, <1>5

LEMMA SeRequestsAre ==
    ASSUME NEW q \in Requests
    PROVE  SeFresh(q) \/ SeExpanding(q) \/ SeErrs(q)
<1>1. PICK win \in SeWindows :
        q \in {SearchRequest(win, tables, strategy, lazy) :
                 tables \in resolveSearchTables \cup {<<"otlp">>},
                 strategy \in {"full", "stream", "chunked"}, lazy \in BOOLEAN}
              \cup {MessagesRequest(win, tables) : tables \in resolveSearchTables \cup {<<"otlp">>}}
              \cup {MessageRequest(win, tables, r) : tables \in resolveSearchTables, r \in SeRowSet}
              \cup {ListRequest(win), DetailRequest(win, <<"otlp">>), CorrelatedRequest(win),
                    QosRequest(win)}
              \cup MCPRequests(win)
  BY DEF Requests
<1>2. win \in SeNatPairs
  BY SearchAssumption DEF SeNatPairs
<1>3. <<0, 0>> \in SeNatPairs
  BY DEF SeNatPairs
<1>4. <<"call">> \in SeLists4 /\ <<"otlp">> \in SeLists4 /\ <<"rtcp", "otlp">> \in SeLists4
      /\ resolveSearchTables \subseteq SeLists4
  BY DEF SeLists4, resolveSearchTables
<1>5. {"own"} \in SUBSET SeBoth /\ {"own", "leg"} \in SUBSET SeBoth
  BY DEF SeBoth
<1>6. \A w \in SeNatPairs : SeFresh(ListRequest(w))
  BY <1>4, SeFreshSearch DEF ListRequest
<1>7. CASE q \in {SearchRequest(win, tables, strategy, lazy) :
                    tables \in resolveSearchTables \cup {<<"otlp">>},
                    strategy \in {"full", "stream", "chunked"}, lazy \in BOOLEAN}
  BY <1>2, <1>4, <1>7, SeFreshSearch
<1>8. CASE q \in {MessagesRequest(win, tables) : tables \in resolveSearchTables \cup {<<"otlp">>}}
  BY <1>2, <1>4, <1>5, <1>8, SeFreshRequest DEF MessagesRequest
<1>9. CASE q \in {MessageRequest(win, tables, r) : tables \in resolveSearchTables, r \in SeRowSet}
  <2>1. PICK tables \in resolveSearchTables, r \in SeRowSet : q = MessageRequest(win, tables, r)
    BY <1>9
  <2>2. SeFresh(SeRequest("message", win, tables, {"own", "leg"}))
    BY <1>2, <1>4, <1>5, SeFreshRequest
  <2>3. QED
    BY <2>1, <2>2, SeFreshWanted DEF MessageRequest
<1>10. CASE q = ListRequest(win)
  BY <1>2, <1>6, <1>10
<1>11. CASE q = DetailRequest(win, <<"otlp">>)
  BY <1>2, <1>4, <1>5, <1>11, SeFreshRequest DEF DetailRequest
<1>12. CASE q = CorrelatedRequest(win)
  <2>1. PICK p : p = SeRequest("detail", win, <<"call">>, {"own"})
    OBVIOUS
  <2>2. SeFresh(p) /\ p.kind = "detail"
    BY <2>1, <1>2, <1>4, <1>5, SeFreshRequest
  <2>3. q = Expanding(p)
    BY <2>1, <1>12 DEF CorrelatedRequest, DetailRequest
  <2>4. QED
    BY <2>2, <2>3 DEF SeExpanding
<1>13. CASE q = QosRequest(win)
  <2>1. PICK p : p = SeRequest("qos", win, <<"rtcp", "otlp">>, {"own"})
    OBVIOUS
  <2>2. SeFresh(p) /\ p.kind = "qos"
    BY <2>1, <1>2, <1>4, <1>5, SeFreshRequest
  <2>3. q = Expanding(p)
    BY <2>1, <1>13 DEF QosRequest
  <2>4. QED
    BY <2>2, <2>3 DEF SeExpanding
<1>14. CASE q \in MCPRequests(win)
  <2>1. CASE q = SearchRequest(win, <<"call">>, "chunked", FALSE)
    BY <2>1, <1>2, <1>4, SeFreshSearch
  <2>2. CASE q = RawRequest
    BY <2>2, <1>3, <1>6 DEF RawRequest
  <2>3. CASE q = [ListRequest(win) EXCEPT !.at = "error"]
    BY <2>3, <1>2, <1>6 DEF SeErrs
  <2>4. QED
    BY <2>1, <2>2, <2>3, <1>14 DEF MCPRequests
<1>15. QED
  BY <1>1, <1>7, <1>8, <1>9, <1>10, <1>11, <1>12, <1>13, <1>14

LEMMA SeBeginStep ==
    ASSUME SeRanges, NEW req \in Requests, SeBegin(req)
    PROVE  SeRanges' /\ SeReqOk(se', seHeld', seMissed', seBare')
<1>1. /\ se' = IF req.at = "error" \/ req.for = "expand" THEN req ELSE StartTable(req)
      /\ seHeld' = seRows
      /\ UNCHANGED <<seRows, seLake, seUnseen, seConnected, seRange, seProbe, seMissed, seBare, seWronged>>
  BY DEF SeBegin, seStore, seSeen
<1>2. SeRanges'
  BY <1>1 DEF SeRanges
<1>3. seHeld' \subseteq SeRowSet
  BY <1>1 DEF SeRanges
<1>4. CASE SeFresh(req)
  <2>1. se' = StartTable(req)
    BY <1>1, <1>4 DEF SeFresh
  <2>2. req \in SeReqT /\ SeReady(req) /\ req.all = <<>> /\ req.want \subseteq Elems(req.tables)
    BY <1>4 DEF SeFresh, SeReady
  <2>3. SeAll(req, Elems(req.tables), seHeld', seMissed', seBare')
    BY <2>2, SeNoneYet
  <2>4. SeReqOk(StartTable(req), seHeld', seMissed', seBare')
    BY <2>2, <2>3, <1>3, SeStartOk
  <2>5. QED
    BY <2>1, <2>4, <1>2
<1>5. CASE SeExpanding(req)
  <2>1. req.for = "expand" /\ SeReqOk(req, seHeld', seMissed', seBare')
    BY <1>5, SeExpandingOk
  <2>2. QED
    BY <2>1, <1>1, <1>2
<1>6. CASE SeErrs(req)
  <2>1. PICK p : SeFresh(p) /\ req = [p EXCEPT !.at = "error"]
    BY <1>6 DEF SeErrs
  <2>2. p \in SeReqT
    BY <2>1 DEF SeFresh
  <2>3. req \in SeReqT /\ req.at = "error"
    BY <2>1, <2>2 DEF SeReqT
  <2>4. SeReqOk(req, seHeld', seMissed', seBare')
    BY <2>3 DEF SeReqOk
  <2>5. QED
    BY <2>3, <2>4, <1>1, <1>2
<1>7. QED
  BY <1>4, <1>5, <1>6, SeRequestsAre

-----------------------------------------------------------------------------
(* SeInv is inductive. *)

LEMMA SeInitInv ==
    ASSUME SeInit
    PROVE  SeInv
<1>1. /\ seRows \subseteq SeRowSet /\ seLake \subseteq seRows /\ seUnseen \subseteq seRows /\ seHeld = {}
      /\ seConnected = SeNodes /\ seProbe = <<>> /\ se = SeIdle /\ seWronged = {}
      /\ seUnseen = seRows \ UNION {Counted(n) : n \in SeNodes}
      /\ seRange \in {[n \in SeNodes |-> Unknown], [n \in SeNodes |-> NodeTimeRange(n)]}
  BY DEF SeInit
<1>2. \A n \in SeNodes : /\ NodeTimeRange(n) \in SeNatPairs
                         /\ \A r \in Counted(n) : SeCovers(NodeTimeRange(n), r.t)
  BY <1>1, SeReads
<1>3. Unknown \in SeNatPairs /\ \A t : SeCovers(Unknown, t)
  BY DEF Unknown, SeNatPairs, SeCovers
<1>4. seRange \in [SeNodes -> SeNatPairs]
  BY <1>1, <1>2, <1>3
<1>5. ASSUME NEW r \in seRows \ seUnseen PROVE SeCovers(seRange[r.node], r.t)
  <2>1. PICK n \in SeNodes : r \in Counted(n)
    BY <1>1, <1>5
  <2>2. r.node = n
    BY <2>1 DEF Counted
  <2>3. seRange[n] = Unknown \/ seRange[n] = NodeTimeRange(n)
    BY <1>1
  <2>4. QED
    BY <2>1, <2>2, <2>3, <1>2, <1>3
<1>6. DOMAIN seProbe = {}
  BY <1>1
<1>7. SeRanges
  BY <1>1, <1>4, <1>5, <1>6 DEF SeRanges
<1>8. QED
  BY <1>1, <1>7 DEF SeInv

\* A step that leaves the request alone.
LEMMA SeApart ==
    ASSUME SeInv, SeRanges', UNCHANGED <<se, seMissed, seBare>>, seHeld' \subseteq seHeld
    PROVE  SeInv'
<1>1. CASE se = SeIdle
  BY <1>1 DEF SeInv, SeIdle
<1>2. CASE SeReqOk(se, seHeld, seMissed, seBare)
  <2>1. SeReqOk(se, seHeld', seMissed, seBare)
    BY <1>2, SeHeldLess
  <2>2. SeReqOk(se', seHeld', seMissed', seBare')
    BY <2>1
  <2>3. QED
    BY <2>2 DEF SeInv
<1>3. QED
  BY <1>1, <1>2 DEF SeInv

LEMMA SeInductive ==
    ASSUME SeInv, [SeNext]_seVars
    PROVE  SeInv'
<1>1. SeRanges /\ (se = SeIdle \/ SeReqOk(se, seHeld, seMissed, seBare))
  BY DEF SeInv
<1>2. CASE UNCHANGED seVars
  <2>1. UNCHANGED <<seRows, seLake, seUnseen, seConnected, seRange, seProbe, se, seHeld, seMissed, seBare,
                    seWronged>>
    BY <1>2 DEF seVars, seStore, seSeen
  <2>2. SeRanges'
    BY <2>1, <1>1 DEF SeRanges
  <2>3. QED
    BY <2>1, <2>2, SeApart
<1>3. ASSUME NEW r \in SeRowSet, SeStoreRow(r) PROVE SeInv'
  <2>1. UNCHANGED <<se, seMissed, seBare, seHeld>>
    BY <1>3 DEF SeStoreRow
  <2>2. QED
    BY <2>1, <1>1, <1>3, SeStores, SeApart
<1>4. ASSUME NEW n \in SeNodes, SeFlush(n) PROVE SeInv'
  <2>1. UNCHANGED <<se, seMissed, seBare, seHeld>>
    BY <1>4 DEF SeFlush
  <2>2. QED
    BY <2>1, <1>1, <1>4, SeFlushes, SeApart
<1>5. ASSUME NEW n \in SeNodes, SeRetire(n) PROVE SeInv'
  <2>1. UNCHANGED <<se, seMissed, seBare>>
    BY <1>5 DEF SeRetire
  <2>2. QED
    BY <2>1, <1>1, <1>5, SeRetires, SeApart
<1>6. ASSUME NEW n \in SeNodes, CheckNode(n) PROVE SeInv'
  <2>1. UNCHANGED <<se, seMissed, seBare, seHeld>>
    BY <1>6 DEF CheckNode
  <2>2. QED
    BY <2>1, <1>1, <1>6, SeChecks, SeApart
<1>7. CASE ApplyHealth
  <2>1. UNCHANGED <<se, seMissed, seBare, seHeld>>
    BY <1>7 DEF ApplyHealth
  <2>2. QED
    BY <2>1, <1>1, <1>7, SeApplies, SeApart
<1>8. ASSUME se.at \in {"route", "fan"} PROVE SeReqOk(se, seHeld, seMissed, seBare)
  BY <1>1, <1>8 DEF SeIdle
<1>9. ASSUME NEW n \in SeNodes, QueryNode(n) PROVE SeInv'
  <2>1. se.at = "fan"
    BY <1>9, Zenon DEF QueryNode
  <2>2. QED
    BY <2>1, <1>1, <1>8, <1>9, SeNodeStep DEF SeInv
<1>10. CASE SeRoute
  <2>1. se.at = "route"
    BY <1>10 DEF SeRoute
  <2>2. QED
    BY <2>1, <1>1, <1>8, <1>10, SeRouteStep DEF SeInv
<1>11. CASE SeGather
  <2>1. se.at = "fan"
    BY <1>11 DEF SeGather
  <2>2. QED
    BY <2>1, <1>1, <1>8, <1>11, SeGatherStep DEF SeInv
<1>12. ASSUME NEW req \in Requests, SeBegin(req) PROVE SeInv'
  BY <1>1, <1>12, SeBeginStep DEF SeInv
<1>13. ASSUME NEW r \in SeRowSet, InsertFirstConnected(r) PROVE SeInv'
  BY <1>3, <1>13 DEF InsertFirstConnected
<1>14. QED
  BY <1>2, <1>3, <1>4, <1>5, <1>6, <1>7, <1>9, <1>10, <1>11, <1>12, <1>13 DEF SeNext

LEMMA SeInvSafe ==
    ASSUME SeInv
    PROVE  SearchSafe
<1>1. RoutingSafe
  BY DEF SeInv, SeRanges, RoutingSafe
<1>2. CASE se.at # "done"
  BY <1>1, <1>2 DEF SearchSafe, AnswerSound, AnswerComplete, AnswerOrdered, BareRowsExplained
<1>3. CASE se.at = "done"
  <2>1. se \in SeReqT /\ SeAnswered(se, seHeld, seMissed, seBare)
    BY <1>3 DEF SeInv, SeReqOk, SeIdle
  <2>2. se.all \in Seq(SeRowSet)
    BY <2>1 DEF SeReqT
  <2>3. \A r : Asked(r) <=> SeAsk(se, r)
    BY DEF Asked, SeAsk
  <2>4. AnswerSound
    <3>1. Cardinality(Elems(se.all)) = Len(se.all)
      BY <2>1, <2>2, SeCount DEF SeAnswered
    <3>2. \A r \in Elems(se.all) : Asked(r)
      BY <2>1, <2>3 DEF SeAnswered
    <3>3. QED
      BY <3>1, <3>2 DEF AnswerSound, InAnswer
  <2>5. AnswerComplete
    <3>1. SUFFICES ASSUME NEW r \in seHeld, Asked(r), r \notin Elems(se.all)
                   PROVE  \/ <<r.node, r.table>> \in seMissed
                          \/ /\ se.kind = "search" /\ Len(se.all) >= SeLimit
                             /\ se.strategy = "stream" \/ \A x \in Elems(se.all) :
                                   x.node = r.node /\ x.table = r.table => x.t >= r.t
      BY DEF AnswerComplete, InAnswer
    <3>2. SeExcused(se, se.all, r, seMissed)
      BY <3>1, <2>1, <2>3 DEF SeAnswered
    <3>3. QED
      BY <3>2 DEF SeExcused, SeLimited, SeNoOlder
  <2>6. AnswerOrdered
    <3>1. SUFFICES ASSUME NEW i \in DOMAIN se.all, NEW j \in DOMAIN se.all, i < j
                   PROVE  /\ se.kind = "messages" => se.all[i].t <= se.all[j].t
                          /\ se.kind = "search" /\ (Several(se) \/ se.strategy = "stream"
                                \/ (se.strategy = "chunked" /\ se.all[i].node = se.all[j].node))
                               => se.all[i].t >= se.all[j].t
      BY DEF AnswerOrdered
    <3>2. se.kind = "messages" => se.all[i].t <= se.all[j].t
      BY <3>1, <2>1 DEF SeAnswered, SeAsc
    <3>3. se.kind = "search" /\ (Several(se) \/ se.strategy = "stream") => se.all[i].t >= se.all[j].t
      BY <3>1, <2>1 DEF SeAnswered, SeDesc
    <3>4. se.kind = "search" /\ se.strategy = "chunked" /\ se.all[i].node = se.all[j].node
            => se.all[i].t >= se.all[j].t
      BY <3>1, <2>1 DEF SeAnswered, SeDescEach
    <3>5. QED
      BY <3>2, <3>3, <3>4
  <2>7. BareRowsExplained
    BY <2>1 DEF BareRowsExplained, InAnswer, SeAnswered, SeBareOk
  <2>8. QED
    BY <1>1, <2>4, <2>5, <2>6, <2>7 DEF SearchSafe
<1>4. QED
  BY <1>2, <1>3
-----------------------------------------------------------------------------
(* What is told of a call. *)

CiMethods == {"INVITE", "ACK", "CANCEL", "BYE", "UPDATE"}
CiSdps == CiCodecs \cup {CiNone}
CiRowT == [code : Nat, method : CiMethods, n : Nat, sdp : CiSdps]
CiOkT == [n : Nat, sdp : CiSdps, ack : CiSdps]
CiTxnT == CiMethods \X Nat

CiLegT ==
    [invite : Nat, bye : Nat, cancel : Nat, ringing : Nat, connect : Nat, stop : Nat,
     first : Nat, last : Nat, RingingTime : Nat, Duration : Nat, SRD : Nat, SSS : Nat, FSSD : Nat,
     SDD : Nat, Status : Nat, LastBadReply : Nat, offered : CiSdps, negotiated : CiSdps,
     sdpOfferTxn : SUBSET CiTxnT, sdpAnsweredTxn : SUBSET CiTxnT, delayed : BOOLEAN, delayedSeq : Nat]

CiTruthT ==
    [invite : Nat, connect : Nat, bye : Nat, agreed : CiSdps, refused : BOOLEAN, shared : BOOLEAN,
     outcome : {"none", "finished", "cancelled", "refused", "unshown"}]

CiPhases == {"idle", "calling", "cancelling", "answered", "up", "updating", "ending", "over"}

CiTypeInv ==
    /\ ciPhase \in CiPhases /\ ciSeq \in Nat /\ ciSdp \in CiSdps
    /\ ciOks \in SUBSET CiOkT
    /\ ciNow \in Nat \ {0} /\ ciCount \in Nat
    /\ ciBatch \in Seq(CiRowT)
    /\ ciTruth \in CiTruthT

\* A leg whose rows are those of some milliseconds up to now.
CiTimely(st, now) ==
    /\ st \in CiLegT
    /\ st.first <= st.last /\ st.last <= now
    /\ st.first = 0 => st = CiEmptyLeg
    /\ st.invite = 0 \/ (st.first <= st.invite /\ st.invite <= st.last)
    /\ st.bye = 0 \/ (st.first <= st.bye /\ st.bye <= st.last)
    /\ st.ringing = 0 \/ (st.first <= st.ringing /\ st.ringing <= st.last)
    /\ st.connect = 0 \/ (st.first <= st.connect /\ st.connect <= st.last)
    /\ st.RingingTime <= st.last - st.first /\ st.Duration <= st.last - st.first
    /\ st.SRD <= st.last - st.first /\ st.SSS <= st.last - st.first
    /\ st.FSSD <= st.last - st.first /\ st.SDD <= st.last - st.first

\* The leg with the row that has not been looked at, when there is one at most.
CiSeen == IF ciBatch = << >> THEN ciLeg ELSE computeSIPCallLeg(ciLeg, ciBatch[1], ciNow)

CiKey == <<"INVITE", ciSeq>>
CiOksAnswered(st) == \A ok \in ciOks : <<"INVITE", ok.n>> \in st.sdpAnsweredTxn

\* Where the call is.
CiCallInv ==
    /\ CiUp => ciPhase \notin {"idle", "cancelling"}
    /\ ciPhase \in {"answered", "up", "updating", "ending"} => CiUp
    /\ ciPhase # "idle" => ciTruth.invite # 0
    /\ ciTruth.invite <= ciNow /\ ciTruth.connect <= ciNow /\ ciTruth.bye <= ciNow
    /\ ciBatch = << >> => ciTruth.invite < ciNow /\ ciTruth.connect < ciNow /\ ciTruth.bye < ciNow
    /\ ciTruth.outcome = "none" <=> ciPhase \notin {"ending", "over"}
    /\ ciPhase = "ending" => ciTruth.outcome = "finished"
    /\ ciTruth.bye # 0 <=> ciTruth.outcome = "finished"
    /\ CiUp => ciTruth.invite <= ciTruth.connect
    /\ ciOks # {} => CiUp
    /\ \A ok \in ciOks : ok.n <= ciSeq

CiAlone == ~ciTruth.shared => Len(ciBatch) <= 1

\* The codecs of the leg, and the exchange that is under way.
CiMedia(st) ==
    /\ st.negotiated = ciTruth.agreed
    /\ ciPhase \in {"calling", "cancelling"} =>
          CiKey \notin st.sdpAnsweredTxn /\ (ciSdp # CiNone <=> CiKey \in st.sdpOfferTxn)
    /\ CiOksAnswered(st)
    /\ st.delayed <=> ciPhase = "answered" /\ ciSdp # CiNone
    /\ st.delayed => st.delayedSeq = ciSeq
    /\ ciPhase = "updating" =>
          <<"UPDATE", ciSeq>> \in st.sdpOfferTxn /\ <<"UPDATE", ciSeq>> \notin st.sdpAnsweredTxn

\* The times of the leg.
CiTimes(st) ==
    /\ st.invite = ciTruth.invite /\ st.connect = ciTruth.connect /\ st.bye = ciTruth.bye
    /\ st.Duration = IF ciTruth.bye # 0 THEN ciTruth.bye - ciTruth.connect ELSE 0
    /\ st.ringing # 0 =>
          /\ ciTruth.invite # 0 /\ ciTruth.invite <= st.ringing /\ st.ringing <= ciNow
          /\ ciBatch = << >> => st.ringing < ciNow
          /\ CiUp => st.RingingTime # 0
    /\ st.ringing = 0 => st.RingingTime = 0
    /\ ~CiUp => st.RingingTime = 0 \/ st.RingingTime <= ciNow - ciTruth.invite
    /\ CiUp => st.RingingTime <= ciTruth.connect - ciTruth.invite

\* The state of the leg.
CiState(st) ==
    /\ ~CiUp /\ ciPhase \in {"idle", "calling"} => st.cancel = 0
    /\ ~CiUp /\ ciPhase \in {"idle", "calling", "cancelling"} => st.FSSD = 0
    /\ ciPhase = "cancelling" => st.Status = 11
    /\ ciTruth.outcome = "finished" => st.Status = 10
    /\ ciTruth.outcome = "cancelled" => st.Status = 11
    /\ ciTruth.outcome = "refused" => st.Status \in {6, 7, 8, 9, 12, 14}
    /\ ciTruth.outcome = "none" /\ CiUp /\ ~ciTruth.refused => st.Status = 5
    /\ ~CiUp => st.Status # 5

CiLegInv(st) == CiMedia(st) /\ CiTimes(st) /\ CiState(st)

CiInv ==
    /\ CiTypeInv /\ CiCallInv /\ CiAlone
    /\ ciLeg \in CiLegT /\ CiTimely(ciLeg, ciNow)
    /\ CiInOrder => CiLegInv(CiSeen)

\* Two legs with the same times and state, two with the same codecs and exchanges.
CiSameTimes(a, b) ==
    /\ b.invite = a.invite /\ b.bye = a.bye /\ b.cancel = a.cancel /\ b.ringing = a.ringing
    /\ b.connect = a.connect /\ b.stop = a.stop /\ b.first = a.first /\ b.last = a.last
    /\ b.RingingTime = a.RingingTime /\ b.Duration = a.Duration /\ b.SRD = a.SRD /\ b.SSS = a.SSS
    /\ b.FSSD = a.FSSD /\ b.SDD = a.SDD /\ b.Status = a.Status

CiSameMedia(a, b) ==
    /\ b.offered = a.offered /\ b.negotiated = a.negotiated
    /\ b.sdpOfferTxn = a.sdpOfferTxn /\ b.sdpAnsweredTxn = a.sdpAnsweredTxn
    /\ b.delayed = a.delayed /\ b.delayedSeq = a.delayedSeq

LEMMA CiNotes ==
    ASSUME NEW st \in CiLegT, NEW c \in CiSdps
    PROVE  /\ noteOffer(st, c) \in CiLegT /\ CiSameTimes(st, noteOffer(st, c))
           /\ noteOffer(st, c).negotiated = st.negotiated
           /\ noteOffer(st, c).sdpOfferTxn = st.sdpOfferTxn
           /\ noteOffer(st, c).sdpAnsweredTxn = st.sdpAnsweredTxn
           /\ noteOffer(st, c).delayed = st.delayed /\ noteOffer(st, c).delayedSeq = st.delayedSeq
           /\ noteAnswer(st, c) \in CiLegT /\ CiSameTimes(st, noteAnswer(st, c))
           /\ noteAnswer(st, c).negotiated = IF c # CiNone THEN c ELSE st.negotiated
           /\ noteAnswer(st, c).sdpOfferTxn = st.sdpOfferTxn
           /\ noteAnswer(st, c).sdpAnsweredTxn = st.sdpAnsweredTxn
           /\ noteAnswer(st, c).delayed = st.delayed /\ noteAnswer(st, c).delayedSeq = st.delayedSeq
<1>1. CASE c = CiNone
  BY <1>1 DEF noteOffer, noteAnswer, CiSameTimes
<1>2. CASE c # CiNone
  BY <1>2 DEF noteOffer, noteAnswer, CiSameTimes, CiLegT, CiSdps
<1>3. QED
  BY <1>1, <1>2

\* What an SDP changes.
CiTxn(r) == <<r.method, r.n>>

CiRequestMedia(st, r, b) ==
    /\ b.negotiated = st.negotiated /\ b.delayed = st.delayed /\ b.delayedSeq = st.delayedSeq
    /\ b.sdpAnsweredTxn = st.sdpAnsweredTxn \ {CiTxn(r)}
    /\ b.sdpOfferTxn = IF r.sdp # CiNone THEN st.sdpOfferTxn \cup {CiTxn(r)}
                       ELSE st.sdpOfferTxn \ {CiTxn(r)}

CiAckMedia(st, r, b) ==
    /\ b.sdpOfferTxn = st.sdpOfferTxn /\ b.sdpAnsweredTxn = st.sdpAnsweredTxn
    /\ b.delayedSeq = st.delayedSeq
    /\ st.delayed /\ r.n = st.delayedSeq =>
          ~b.delayed /\ b.negotiated = IF r.sdp # CiNone THEN r.sdp ELSE st.negotiated
    /\ ~(st.delayed /\ r.n = st.delayedSeq) => CiSameMedia(st, b)

CiAnswerMedia(st, r, b) ==
    /\ CiTxn(r) \in st.sdpAnsweredTxn => CiSameMedia(st, b)
    /\ CiTxn(r) \notin st.sdpAnsweredTxn /\ CiTxn(r) \in st.sdpOfferTxn =>
          /\ b.negotiated = IF r.sdp # CiNone THEN r.sdp ELSE st.negotiated
          /\ b.delayed = st.delayed /\ b.delayedSeq = st.delayedSeq
          /\ b.sdpAnsweredTxn = st.sdpAnsweredTxn \cup {CiTxn(r)}
          /\ b.sdpOfferTxn = st.sdpOfferTxn \ {CiTxn(r)}
    /\ CiTxn(r) \notin st.sdpAnsweredTxn /\ CiTxn(r) \notin st.sdpOfferTxn /\ r.sdp # CiNone =>
          /\ b.negotiated = st.negotiated /\ b.delayed = TRUE /\ b.delayedSeq = r.n
          /\ b.sdpAnsweredTxn = st.sdpAnsweredTxn \cup {CiTxn(r)}
          /\ b.sdpOfferTxn = st.sdpOfferTxn

LEMMA CiRequestNoted ==
    ASSUME NEW st \in CiLegT, NEW r \in CiRowT, NEW b, b = CiSdpRequest(st, r)
    PROVE  b \in CiLegT /\ CiSameTimes(st, b) /\ CiRequestMedia(st, r, b)
<1> DEFINE key == <<r.method, r.n>>
           a == [st EXCEPT !.sdpAnsweredTxn = @ \ {key}]
           c == noteOffer(a, r.sdp)
<1>1. key \in CiTxnT /\ r.sdp \in CiSdps
  BY DEF CiRowT, CiTxnT
<1>2. /\ a \in CiLegT /\ CiSameTimes(st, a) /\ a.negotiated = st.negotiated
      /\ a.delayed = st.delayed /\ a.delayedSeq = st.delayedSeq
      /\ a.sdpOfferTxn = st.sdpOfferTxn /\ a.sdpAnsweredTxn = st.sdpAnsweredTxn \ {key}
  BY <1>1 DEF CiLegT, CiSameTimes
<1>3. b = IF r.sdp # CiNone THEN [c EXCEPT !.sdpOfferTxn = @ \cup {key}]
          ELSE [a EXCEPT !.sdpOfferTxn = @ \ {key}]
  BY DEF CiSdpRequest
<1>. HIDE DEF a
<1>4. /\ c \in CiLegT /\ CiSameTimes(a, c) /\ c.negotiated = a.negotiated
      /\ c.delayed = a.delayed /\ c.delayedSeq = a.delayedSeq
      /\ c.sdpOfferTxn = a.sdpOfferTxn /\ c.sdpAnsweredTxn = a.sdpAnsweredTxn
  BY <1>1, <1>2, CiNotes
<1>. HIDE DEF c, key
<1>5. CASE r.sdp # CiNone
  <2>1. b = [c EXCEPT !.sdpOfferTxn = @ \cup {key}]
    BY <1>3, <1>5
  <2>2. b \in CiLegT /\ CiSameTimes(c, b) /\ b.sdpOfferTxn = st.sdpOfferTxn \cup {key}
        /\ b.sdpAnsweredTxn = c.sdpAnsweredTxn
        /\ b.negotiated = c.negotiated /\ b.delayed = c.delayed /\ b.delayedSeq = c.delayedSeq
    BY <2>1, <1>1, <1>2, <1>4 DEF CiLegT, CiSameTimes
  <2>3. QED
    BY <2>2, <1>2, <1>4, <1>5 DEF CiSameTimes, CiRequestMedia, CiTxn, key
<1>6. CASE r.sdp = CiNone
  <2>1. b = [a EXCEPT !.sdpOfferTxn = @ \ {key}]
    BY <1>3, <1>6
  <2>2. b \in CiLegT /\ CiSameTimes(a, b) /\ b.sdpOfferTxn = st.sdpOfferTxn \ {key}
        /\ b.sdpAnsweredTxn = a.sdpAnsweredTxn
        /\ b.negotiated = a.negotiated /\ b.delayed = a.delayed /\ b.delayedSeq = a.delayedSeq
    BY <2>1, <1>1, <1>2 DEF CiLegT, CiSameTimes
  <2>3. QED
    BY <2>2, <1>2, <1>6 DEF CiSameTimes, CiRequestMedia, CiTxn, key
<1>7. QED
  BY <1>5, <1>6

LEMMA CiAckNoted ==
    ASSUME NEW st \in CiLegT, NEW r \in CiRowT, NEW b, b = CiSdpAck(st, r)
    PROVE  b \in CiLegT /\ CiSameTimes(st, b) /\ CiAckMedia(st, r, b)
<1> DEFINE c == noteAnswer(st, r.sdp)
<1>1. /\ c \in CiLegT /\ CiSameTimes(st, c)
      /\ c.negotiated = IF r.sdp # CiNone THEN r.sdp ELSE st.negotiated
      /\ c.delayed = st.delayed /\ c.delayedSeq = st.delayedSeq
      /\ c.sdpOfferTxn = st.sdpOfferTxn /\ c.sdpAnsweredTxn = st.sdpAnsweredTxn
  BY CiNotes DEF CiRowT
<1>2. b = IF st.delayed /\ r.n = st.delayedSeq THEN [c EXCEPT !.delayed = FALSE] ELSE st
  BY DEF CiSdpAck
<1>. HIDE DEF c
<1>3. CASE st.delayed /\ r.n = st.delayedSeq
  <2>1. b = [c EXCEPT !.delayed = FALSE]
    BY <1>2, <1>3
  <2>2. b \in CiLegT
    BY ZenonT(60), <2>1, <1>1 DEF CiLegT
  <2>3. /\ CiSameTimes(c, b) /\ b.delayed = FALSE /\ b.negotiated = c.negotiated
        /\ b.delayedSeq = c.delayedSeq
        /\ b.sdpOfferTxn = c.sdpOfferTxn /\ b.sdpAnsweredTxn = c.sdpAnsweredTxn
    BY <2>1, <1>1 DEF CiLegT, CiSameTimes
  <2>4. CiSameTimes(st, b)
    BY <2>3, <1>1 DEF CiSameTimes
  <2>5. QED
    BY <2>2, <2>3, <2>4, <1>1, <1>3 DEF CiAckMedia
<1>4. CASE ~(st.delayed /\ r.n = st.delayedSeq)
  BY <1>2, <1>4 DEF CiSameTimes, CiSameMedia, CiAckMedia
<1>5. QED
  BY <1>3, <1>4

LEMMA CiAnswerNoted ==
    ASSUME NEW st \in CiLegT, NEW r \in CiRowT, NEW b, b = CiSdpAnswer(st, r)
    PROVE  b \in CiLegT /\ CiSameTimes(st, b) /\ CiAnswerMedia(st, r, b)
<1> DEFINE key == CiTxn(r)
<1> DEFINE c == noteAnswer(st, r.sdp)
           d == noteOffer(st, r.sdp)
<1>0. key \in CiTxnT /\ r.n \in Nat
  BY DEF CiRowT, CiTxnT, CiTxn
<1>1. /\ c \in CiLegT /\ CiSameTimes(st, c)
      /\ c.negotiated = IF r.sdp # CiNone THEN r.sdp ELSE st.negotiated
      /\ c.delayed = st.delayed /\ c.delayedSeq = st.delayedSeq
      /\ c.sdpOfferTxn = st.sdpOfferTxn /\ c.sdpAnsweredTxn = st.sdpAnsweredTxn
      /\ d \in CiLegT /\ CiSameTimes(st, d) /\ d.negotiated = st.negotiated
      /\ d.sdpOfferTxn = st.sdpOfferTxn /\ d.sdpAnsweredTxn = st.sdpAnsweredTxn
  BY CiNotes DEF CiRowT
<1>2. b = IF key \in st.sdpAnsweredTxn THEN st
          ELSE IF key \in st.sdpOfferTxn
               THEN [c EXCEPT !.sdpOfferTxn = @ \ {key}, !.sdpAnsweredTxn = @ \cup {key}]
               ELSE IF r.sdp = CiNone THEN st
                    ELSE [d EXCEPT !.delayed = TRUE, !.delayedSeq = r.n,
                                   !.sdpAnsweredTxn = @ \cup {key}]
  BY DEF CiSdpAnswer, CiAnswered, takeOffer, CiTxn
<1>. HIDE DEF c, d, key
<1>3. CASE key \in st.sdpAnsweredTxn
  BY <1>2, <1>3 DEF CiSameTimes, CiSameMedia, CiAnswerMedia, key
<1>4. CASE key \notin st.sdpAnsweredTxn /\ key \in st.sdpOfferTxn
  <2>1. b = [c EXCEPT !.sdpOfferTxn = @ \ {key}, !.sdpAnsweredTxn = @ \cup {key}]
    BY <1>2, <1>4
  <2>5. c.sdpAnsweredTxn \cup {key} \in SUBSET CiTxnT /\ c.sdpOfferTxn \ {key} \in SUBSET CiTxnT
    BY <1>0, <1>1 DEF CiLegT
  <2>6. b \in CiLegT
    BY ZenonT(60), <2>1, <2>5, <1>1 DEF CiLegT
  <2>2. CiSameTimes(c, b) /\ b.negotiated = c.negotiated
        /\ b.delayed = c.delayed /\ b.delayedSeq = c.delayedSeq
        /\ b.sdpAnsweredTxn = c.sdpAnsweredTxn \cup {key} /\ b.sdpOfferTxn = c.sdpOfferTxn \ {key}
    BY <2>1, <1>1 DEF CiLegT, CiSameTimes
  <2>3. CiSameTimes(st, b)
    BY <2>2, <1>1 DEF CiSameTimes
  <2>4. QED
    BY <2>6, <2>2, <2>3, <1>1, <1>4 DEF CiAnswerMedia, key
<1>5. CASE key \notin st.sdpAnsweredTxn /\ key \notin st.sdpOfferTxn /\ r.sdp # CiNone
  <2>1. b = [d EXCEPT !.delayed = TRUE, !.delayedSeq = r.n, !.sdpAnsweredTxn = @ \cup {key}]
    BY <1>2, <1>5
  <2>5. d.sdpAnsweredTxn \cup {key} \in SUBSET CiTxnT /\ r.n \in Nat
    BY <1>0, <1>1 DEF CiLegT
  <2> DEFINE e == [d EXCEPT !.delayed = TRUE, !.delayedSeq = r.n]
  <2>7. e \in CiLegT /\ e.sdpAnsweredTxn = d.sdpAnsweredTxn /\ b = [e EXCEPT !.sdpAnsweredTxn = @ \cup {key}]
    BY <2>1, <2>5, <1>1 DEF CiLegT
  <2> HIDE DEF e
  <2>6. b \in CiLegT
    BY <2>7, <2>5 DEF CiLegT
  <2>2. CiSameTimes(d, b) /\ b.negotiated = d.negotiated
        /\ b.delayed = TRUE /\ b.delayedSeq = r.n
        /\ b.sdpAnsweredTxn = d.sdpAnsweredTxn \cup {key} /\ b.sdpOfferTxn = d.sdpOfferTxn
    BY <2>1, <1>1 DEF CiLegT, CiSameTimes
  <2>3. CiSameTimes(st, b)
    BY <2>2, <1>1 DEF CiSameTimes
  <2>4. QED
    BY <2>6, <2>2, <2>3, <1>1, <1>5 DEF CiAnswerMedia, key
<1>6. CASE key \notin st.sdpAnsweredTxn /\ key \notin st.sdpOfferTxn /\ r.sdp = CiNone
  BY <1>2, <1>6 DEF CiSameTimes, CiAnswerMedia, key
<1>7. QED
  BY <1>3, <1>4, <1>5, <1>6

LEMMA CiObserves ==
    ASSUME NEW st \in CiLegT, NEW r \in CiRowT
    PROVE  observeSDP(st, r) \in CiLegT /\ CiSameTimes(st, observeSDP(st, r))
<1>1. CASE r.code = 0 /\ r.method \in {"INVITE", "UPDATE"}
  <2> DEFINE b == CiSdpRequest(st, r)
  <2>1. observeSDP(st, r) = b
    BY <1>1 DEF observeSDP
  <2>2. b = CiSdpRequest(st, r)
    OBVIOUS
  <2> HIDE DEF b
  <2>3. b \in CiLegT /\ CiSameTimes(st, b)
    BY <2>2, CiRequestNoted
  <2>4. QED
    BY <2>1, <2>3
<1>2. CASE r.code = 0 /\ r.method = "ACK"
  <2> DEFINE b == CiSdpAck(st, r)
  <2>1. observeSDP(st, r) = b
    BY <1>2 DEF observeSDP
  <2>2. b = CiSdpAck(st, r)
    OBVIOUS
  <2> HIDE DEF b
  <2>3. b \in CiLegT /\ CiSameTimes(st, b)
    BY <2>2, CiAckNoted
  <2>4. QED
    BY <2>1, <2>3
<1>3. CASE r.code = 200 /\ r.method \in {"INVITE", "UPDATE"}
  <2> DEFINE b == CiSdpAnswer(st, r)
  <2>1. observeSDP(st, r) = b
    BY <1>3 DEF observeSDP
  <2>2. b = CiSdpAnswer(st, r)
    OBVIOUS
  <2> HIDE DEF b
  <2>3. b \in CiLegT /\ CiSameTimes(st, b)
    BY <2>2, CiAnswerNoted
  <2>4. QED
    BY <2>1, <2>3
<1>4. CASE ~(\/ r.code = 0 /\ r.method \in {"INVITE", "UPDATE", "ACK"}
             \/ r.code = 200 /\ r.method \in {"INVITE", "UPDATE"})
  <2>1. observeSDP(st, r) = st
    BY <1>4 DEF observeSDP
  <2>2. QED
    BY <2>1 DEF CiSameTimes
<1>5. QED
  BY <1>1, <1>2, <1>3, <1>4

-----------------------------------------------------------------------------
(* A leg at the row of time ts. *)

CiCurrent(st, ts) == CiTimely(st, ts) /\ st.last = ts /\ st.first # 0

\* What a row may do to the times.
CiMoved(st, b, ts) ==
    /\ b.first = st.first /\ b.last = st.last
    /\ b.invite = st.invite \/ b.invite = ts
    /\ b.bye = st.bye \/ b.bye = ts
    /\ b.ringing = st.ringing \/ b.ringing = ts
    /\ b.connect = st.connect \/ b.connect = ts
    /\ b.RingingTime = st.RingingTime \/ b.RingingTime <= ts - st.first
    /\ b.Duration = st.Duration \/ b.Duration <= ts - st.first
    /\ b.SRD = st.SRD \/ b.SRD <= ts - st.first
    /\ b.SSS = st.SSS \/ b.SSS <= ts - st.first
    /\ b.FSSD = st.FSSD \/ b.FSSD <= ts - st.first
    /\ b.SDD = st.SDD \/ b.SDD <= ts - st.first

LEMMA CiMovedOn ==
    ASSUME NEW ts \in Nat \ {0}, NEW st, CiCurrent(st, ts), NEW b \in CiLegT, CiMoved(st, b, ts)
    PROVE  CiCurrent(b, ts)
<1>1. /\ st.first \in Nat /\ st.last \in Nat /\ st.first # 0 /\ st.last = ts /\ st.first <= ts
      /\ b.first = st.first /\ b.last = ts
  BY DEF CiCurrent, CiTimely, CiMoved, CiLegT
<1>2. b.first <= b.last /\ b.last <= ts /\ b.first # 0
  BY <1>1
<1>3. /\ b.invite = 0 \/ (b.first <= b.invite /\ b.invite <= b.last)
      /\ b.bye = 0 \/ (b.first <= b.bye /\ b.bye <= b.last)
      /\ b.ringing = 0 \/ (b.first <= b.ringing /\ b.ringing <= b.last)
      /\ b.connect = 0 \/ (b.first <= b.connect /\ b.connect <= b.last)
  BY <1>1 DEF CiCurrent, CiTimely, CiMoved
<1>4. /\ b.RingingTime <= b.last - b.first /\ b.Duration <= b.last - b.first
      /\ b.SRD <= b.last - b.first /\ b.SSS <= b.last - b.first
      /\ b.FSSD <= b.last - b.first /\ b.SDD <= b.last - b.first
  BY <1>1 DEF CiCurrent, CiTimely, CiMoved
<1>5. QED
  BY <1>1, <1>2, <1>3, <1>4 DEF CiCurrent, CiTimely

\* What the properties are about but the codecs.
CiSameState(a, b) ==
    /\ b.invite = a.invite /\ b.connect = a.connect /\ b.bye = a.bye /\ b.cancel = a.cancel
    /\ b.ringing = a.ringing /\ b.RingingTime = a.RingingTime
    /\ b.Duration = a.Duration /\ b.FSSD = a.FSSD /\ b.Status = a.Status

\* The session's own fields, and the row's time.
CiTouch(st, ts) == [st EXCEPT !.first = IF @ = 0 THEN ts ELSE @, !.last = ts]

LEMMA CiTouched ==
    ASSUME NEW ts \in Nat \ {0}, NEW st, CiTimely(st, ts), NEW b, b = CiTouch(st, ts)
    PROVE  b \in CiLegT /\ CiCurrent(b, ts) /\ CiSameMedia(st, b) /\ CiSameState(st, b)
<1> USE DEF CiTouch
<1>1. st \in CiLegT
  BY DEF CiTimely
<1>2. b \in CiLegT
  BY <1>1 DEF CiLegT
<1>3. /\ b.invite = st.invite /\ b.bye = st.bye /\ b.cancel = st.cancel
      /\ b.ringing = st.ringing /\ b.connect = st.connect /\ b.RingingTime = st.RingingTime
      /\ b.Duration = st.Duration /\ b.FSSD = st.FSSD /\ b.Status = st.Status
      /\ b.SRD = st.SRD /\ b.SSS = st.SSS /\ b.SDD = st.SDD
      /\ b.last = ts /\ b.first = IF st.first = 0 THEN ts ELSE st.first
  BY <1>1 DEF CiLegT
<1>4. CiSameMedia(st, b)
  BY <1>1 DEF CiLegT, CiSameMedia
<1>5. CiCurrent(b, ts)
  <2>1. CASE st.first = 0
    BY <1>2, <1>3, <2>1 DEF CiCurrent, CiTimely, CiEmptyLeg
  <2>2. CASE st.first # 0
    <3>1. st.first \in Nat /\ st.first <= st.last /\ st.last <= ts /\ st.last \in Nat
      BY <1>1 DEF CiTimely, CiLegT
    <3>2. b.first = st.first /\ b.last = ts
      BY <1>3, <2>2
    <3>3. /\ b.invite = 0 \/ (b.first <= b.invite /\ b.invite <= b.last)
          /\ b.bye = 0 \/ (b.first <= b.bye /\ b.bye <= b.last)
          /\ b.ringing = 0 \/ (b.first <= b.ringing /\ b.ringing <= b.last)
          /\ b.connect = 0 \/ (b.first <= b.connect /\ b.connect <= b.last)
      <4>1. {st.invite, st.bye, st.ringing, st.connect} \subseteq Nat
        BY <1>1 DEF CiLegT
      <4>2. QED
        BY <1>3, <3>1, <3>2, <4>1 DEF CiTimely
    <3>4. /\ b.RingingTime <= b.last - b.first /\ b.Duration <= b.last - b.first
          /\ b.SRD <= b.last - b.first /\ b.SSS <= b.last - b.first
          /\ b.FSSD <= b.last - b.first /\ b.SDD <= b.last - b.first
      <4>1. {st.RingingTime, st.Duration, st.SRD, st.SSS, st.FSSD, st.SDD} \subseteq Nat
        BY <1>1 DEF CiLegT
      <4>2. QED
        BY <1>3, <3>1, <3>2, <4>1 DEF CiTimely
    <3>5. QED
      BY <1>2, <2>2, <3>1, <3>2, <3>3, <3>4 DEF CiCurrent, CiTimely
  <2>3. QED
    BY <2>1, <2>2
<1>6. QED
  BY <1>2, <1>3, <1>4, <1>5 DEF CiSameState

LEMMA CiRungTime ==
    ASSUME NEW ts \in Nat \ {0}, NEW st, CiCurrent(st, ts)
    PROVE  /\ CiRung(st, ts) \in Nat
           /\ CiRung(st, ts) = st.RingingTime \/ CiRung(st, ts) <= ts - st.first
  BY DEF CiRung, CiRings, CiCurrent, CiTimely, CiLegT

LEMMA CiInviteSeen ==
    ASSUME NEW ts \in Nat \ {0}, NEW st, CiCurrent(st, ts), NEW b, b = CiSeesInvite(st, ts)
    PROVE  /\ b \in CiLegT /\ CiSameMedia(st, b) /\ CiCurrent(b, ts)
           /\ b.invite = ts /\ b.Status = 1
           /\ b.bye = st.bye /\ b.cancel = st.cancel
           /\ b.ringing = st.ringing /\ b.connect = st.connect /\ b.RingingTime = st.RingingTime
           /\ b.Duration = st.Duration /\ b.FSSD = st.FSSD
<1>1. st \in CiLegT
  BY DEF CiCurrent, CiTimely
<1>2. b \in CiLegT
  BY <1>1 DEF CiLegT, CiSeesInvite
<1>3. CiSameMedia(st, b)
  BY <1>1 DEF CiLegT, CiSeesInvite, CiSameMedia
<1>4. /\ b.invite = ts /\ b.Status = 1
      /\ b.bye = st.bye /\ b.cancel = st.cancel
      /\ b.ringing = st.ringing /\ b.connect = st.connect /\ b.RingingTime = st.RingingTime
      /\ b.Duration = st.Duration /\ b.FSSD = st.FSSD
      /\ b.SRD = st.SRD /\ b.SSS = st.SSS /\ b.SDD = st.SDD /\ b.first = st.first /\ b.last = st.last
  BY <1>1 DEF CiLegT, CiSeesInvite
<1>5. CiMoved(st, b, ts)
  BY <1>4 DEF CiMoved
<1>6. QED
  BY <1>2, <1>3, <1>4, <1>5, CiMovedOn

LEMMA CiByeSeen ==
    ASSUME NEW ts \in Nat \ {0}, NEW st, CiCurrent(st, ts), NEW b, b = CiSeesBye(st, ts)
    PROVE  /\ b \in CiLegT /\ CiSameMedia(st, b) /\ CiCurrent(b, ts)
           /\ b.bye = ts /\ b.Status = 10 /\ b.RingingTime = CiRung(st, ts)
           /\ b.Duration = IF st.connect # 0 /\ st.connect < ts THEN ts - st.connect ELSE st.Duration
           /\ b.invite = st.invite /\ b.cancel = st.cancel
           /\ b.ringing = st.ringing /\ b.connect = st.connect /\ b.FSSD = st.FSSD
<1> DEFINE rung == CiRung(st, ts)
           lasted == IF st.connect # 0 /\ st.connect < ts THEN ts - st.connect ELSE st.Duration
<1>1. st \in CiLegT
  BY DEF CiCurrent, CiTimely
<1>2. /\ rung \in Nat /\ lasted \in Nat
      /\ rung = st.RingingTime \/ rung <= ts - st.first
      /\ lasted = st.Duration \/ lasted <= ts - st.first
  <2>1. st.connect = 0 \/ st.first <= st.connect
    BY DEF CiCurrent, CiTimely
  <2>2. QED
    BY <1>1, <2>1, CiRungTime DEF CiLegT
<1>3. b = [st EXCEPT !.bye = ts, !.stop = ts, !.Status = 10, !.RingingTime = rung, !.Duration = lasted]
  BY DEF CiSeesBye
<1> HIDE DEF rung, lasted
<1>4. b \in CiLegT
  <2> DEFINE c == [st EXCEPT !.bye = ts, !.stop = ts, !.Status = 10]
  <2>1. c \in CiLegT
    BY <1>1 DEF CiLegT
  <2>2. b = [c EXCEPT !.RingingTime = rung, !.Duration = lasted]
    BY <1>1, <1>3 DEF CiLegT
  <2> HIDE DEF c
  <2>3. QED
    BY ZenonT(60), <2>1, <2>2, <1>2 DEF CiLegT
<1>5. CiSameMedia(st, b)
  BY <1>1, <1>3 DEF CiLegT, CiSameMedia
<1>6. /\ b.bye = ts /\ b.Status = 10 /\ b.RingingTime = rung /\ b.Duration = lasted
      /\ b.invite = st.invite /\ b.cancel = st.cancel
      /\ b.ringing = st.ringing /\ b.connect = st.connect /\ b.FSSD = st.FSSD
      /\ b.SRD = st.SRD /\ b.SSS = st.SSS /\ b.SDD = st.SDD /\ b.first = st.first /\ b.last = st.last
  BY <1>1, <1>3 DEF CiLegT
<1>7. CiMoved(st, b, ts)
  BY <1>2, <1>6 DEF CiMoved
<1>8. QED
  BY <1>4, <1>5, <1>6, <1>7, CiMovedOn DEF rung, lasted

LEMMA CiCancelSeen ==
    ASSUME NEW ts \in Nat \ {0}, NEW st, CiCurrent(st, ts), NEW b, b = CiSeesCancel(st, ts)
    PROVE  /\ b \in CiLegT /\ CiSameMedia(st, b) /\ CiCurrent(b, ts)
           /\ b.cancel = ts /\ b.Status = 11 /\ b.RingingTime = CiRung(st, ts)
           /\ b.invite = st.invite /\ b.bye = st.bye /\ b.Duration = st.Duration
           /\ b.ringing = st.ringing /\ b.connect = st.connect /\ b.FSSD = st.FSSD
<1> DEFINE rung == CiRung(st, ts)
<1>1. st \in CiLegT
  BY DEF CiCurrent, CiTimely
<1>2. rung \in Nat /\ (rung = st.RingingTime \/ rung <= ts - st.first)
  BY CiRungTime
<1>3. b = [st EXCEPT !.cancel = ts, !.stop = ts, !.Status = 11, !.RingingTime = rung]
  BY DEF CiSeesCancel
<1> HIDE DEF rung
<1>4. b \in CiLegT
  <2> DEFINE c == [st EXCEPT !.cancel = ts, !.stop = ts, !.Status = 11]
  <2>1. c \in CiLegT
    BY <1>1 DEF CiLegT
  <2>2. b = [c EXCEPT !.RingingTime = rung]
    BY <1>1, <1>3 DEF CiLegT
  <2> HIDE DEF c
  <2>3. QED
    BY <2>1, <2>2, <1>2 DEF CiLegT
<1>5. CiSameMedia(st, b)
  BY <1>1, <1>3 DEF CiLegT, CiSameMedia
<1>6. /\ b.cancel = ts /\ b.Status = 11 /\ b.RingingTime = rung /\ b.Duration = st.Duration
      /\ b.invite = st.invite /\ b.bye = st.bye
      /\ b.ringing = st.ringing /\ b.connect = st.connect /\ b.FSSD = st.FSSD
      /\ b.SRD = st.SRD /\ b.SSS = st.SSS /\ b.SDD = st.SDD /\ b.first = st.first /\ b.last = st.last
  BY <1>1, <1>3 DEF CiLegT
<1>7. CiMoved(st, b, ts)
  BY <1>2, <1>6 DEF CiMoved
<1>8. QED
  BY <1>4, <1>5, <1>6, <1>7, CiMovedOn DEF rung

LEMMA CiDelaysSeen ==
    ASSUME NEW ts \in Nat \ {0}, NEW st, CiCurrent(st, ts), NEW code \in Nat,
           NEW b, b = CiDelays(st, code, ts)
    PROVE  b \in CiLegT /\ CiSameMedia(st, b) /\ CiCurrent(b, ts) /\ CiSameState(st, b)
<1> DEFINE srd == IF st.invite # 0 /\ st.SRD = 0 THEN ts - st.invite ELSE st.SRD
           sss == IF code \in 101..199 /\ st.SSS = 0 /\ st.invite # 0 THEN ts - st.invite ELSE st.SSS
<1>1. st \in CiLegT
  BY DEF CiCurrent, CiTimely
<1>2. /\ srd \in Nat /\ sss \in Nat
      /\ srd = st.SRD \/ srd <= ts - st.first
      /\ sss = st.SSS \/ sss <= ts - st.first
  <2>1. /\ st.invite = 0 \/ (st.first <= st.invite /\ st.invite <= ts)
        /\ st.invite \in Nat /\ st.first \in Nat /\ st.SRD \in Nat /\ st.SSS \in Nat
    BY <1>1 DEF CiCurrent, CiTimely, CiLegT
  <2>2. QED
    BY <2>1
<1>3. b = [st EXCEPT !.SRD = srd, !.SSS = sss]
  BY <1>1 DEF CiDelays, CiLegT
<1> HIDE DEF srd, sss
<1>4. b \in CiLegT
  <2> DEFINE c == [st EXCEPT !.SRD = srd]
  <2>1. c \in CiLegT
    BY <1>1, <1>2 DEF CiLegT
  <2>2. b = [c EXCEPT !.SSS = sss]
    BY <1>1, <1>3 DEF CiLegT
  <2> HIDE DEF c
  <2>3. QED
    BY <2>1, <2>2, <1>2 DEF CiLegT
<1>5. CiSameMedia(st, b)
  BY <1>1, <1>3 DEF CiLegT, CiSameMedia
<1>6. /\ CiSameState(st, b)
      /\ b.SRD = srd /\ b.SSS = sss /\ b.SDD = st.SDD /\ b.first = st.first /\ b.last = st.last
  BY <1>1, <1>3 DEF CiLegT, CiSameState
<1>7. CiMoved(st, b, ts)
  BY <1>2, <1>6 DEF CiMoved, CiSameState
<1>8. QED
  BY <1>4, <1>5, <1>6, <1>7, CiMovedOn

CiStarts(st, r) ==
    \/ r.code = 183 /\ st.ringing = 0
    \/ r.code = 180 /\ (st.ringing = 0 \/ st.Status = 3)
CiFails(st, r) ==
    r.code \in (401..699) \ {401, 402, 407, 487} /\ st.FSSD = 0 /\ r.method = "INVITE"

LEMMA CiProgressSeen ==
    ASSUME NEW ts \in Nat \ {0}, NEW st, CiCurrent(st, ts), NEW r \in CiRowT,
           NEW b, b = CiProgress(st, r, ts)
    PROVE  /\ b \in CiLegT /\ CiSameMedia(st, b) /\ CiCurrent(b, ts)
           /\ b.invite = st.invite /\ b.bye = st.bye /\ b.cancel = st.cancel /\ b.Duration = st.Duration
           /\ b.connect = IF CiConnects(st, r) THEN ts ELSE st.connect
           /\ b.ringing = IF CiStarts(st, r) THEN ts ELSE st.ringing
           /\ ~CiFails(st, r) => b.FSSD = st.FSSD
           /\ b.RingingTime = IF CiConnects(st, r) \/ CiFails(st, r) THEN CiRung(st, ts) ELSE st.RingingTime
           /\ CiStarts(st, r) => b.Status \in {3, 4}
           /\ CiConnects(st, r) => b.Status = 5
           /\ CiFails(st, r) => b.Status \in {7, 8, 9, 12, 14}
           /\ ~CiStarts(st, r) /\ ~CiConnects(st, r) /\ ~CiFails(st, r) => b.Status = st.Status
<1> DEFINE rung == CiRung(st, ts)
           fssd == IF ts > st.invite /\ st.invite # 0 THEN ts - st.invite ELSE st.FSSD
           failure == CiFailure(r.code)
<1>1. st \in CiLegT /\ r.code \in Nat
  BY DEF CiCurrent, CiTimely, CiRowT
<1>2. rung \in Nat /\ (rung = st.RingingTime \/ rung <= ts - st.first)
  BY CiRungTime
<1>3. fssd \in Nat /\ (fssd = st.FSSD \/ fssd <= ts - st.first)
  <2>1. /\ st.invite = 0 \/ (st.first <= st.invite /\ st.invite <= ts)
        /\ st.invite \in Nat /\ st.first \in Nat /\ st.FSSD \in Nat
    BY <1>1 DEF CiCurrent, CiTimely, CiLegT
  <2>2. QED
    BY <2>1
<1>4. failure \in {7, 8, 9, 12, 14}
  BY <1>1 DEF CiFailure
<1>5. CASE CiStarts(st, r)
  <2>0. \E s \in {3, 4} : b = [st EXCEPT !.Status = s, !.ringing = ts]
    <3>1. CASE r.code = 183
      <4>1. b = [st EXCEPT !.Status = 3, !.ringing = ts]
        BY <1>1, <1>5, <3>1 DEF CiProgress, CiStarts, CiConnects
      <4>2. QED
        BY <4>1
    <3>2. CASE r.code = 180
      <4>1. b = [st EXCEPT !.Status = 4, !.ringing = ts]
        BY <1>1, <1>5, <3>2 DEF CiProgress, CiStarts, CiConnects
      <4>2. QED
        BY <4>1
    <3>3. QED
      BY <1>5, <3>1, <3>2 DEF CiStarts
  <2>1. PICK s \in {3, 4} : b = [st EXCEPT !.Status = s, !.ringing = ts]
    BY <2>0
  <2>2. b \in CiLegT
    <3> DEFINE c == [st EXCEPT !.Status = s]
    <3>1. s \in Nat
      OBVIOUS
    <3>2. c \in CiLegT
      BY <1>1, <3>1 DEF CiLegT
    <3>3. b = [c EXCEPT !.ringing = ts]
      BY <1>1, <2>1 DEF CiLegT
    <3> HIDE DEF c
    <3>4. QED
      BY <3>2, <3>3 DEF CiLegT
  <2>3. CiSameMedia(st, b)
    BY <2>1, <1>1 DEF CiLegT, CiSameMedia
  <2>4. /\ b.invite = st.invite /\ b.bye = st.bye /\ b.cancel = st.cancel /\ b.Duration = st.Duration
        /\ b.connect = st.connect /\ b.ringing = ts /\ b.FSSD = st.FSSD
        /\ b.RingingTime = st.RingingTime /\ b.Status = s
        /\ b.SRD = st.SRD /\ b.SSS = st.SSS /\ b.SDD = st.SDD /\ b.first = st.first /\ b.last = st.last
    BY <2>1, <1>1 DEF CiLegT
  <2>5. CiMoved(st, b, ts)
    BY <2>4 DEF CiMoved
  <2>6. ~CiConnects(st, r) /\ ~CiFails(st, r)
    BY <1>5 DEF CiStarts, CiConnects, CiFails
  <2>7. QED
    BY <1>5, <2>1, <2>2, <2>3, <2>4, <2>5, <2>6, CiMovedOn
<1>6. CASE CiConnects(st, r)
  <2>1. b = [st EXCEPT !.connect = ts, !.stop = 0, !.Status = 5, !.RingingTime = rung]
    BY <1>6, <1>1 DEF CiProgress, CiConnects
  <2> HIDE DEF rung
  <2>2. b \in CiLegT
    <3> DEFINE c == [st EXCEPT !.connect = ts, !.stop = 0, !.Status = 5]
    <3>1. c \in CiLegT
      BY <1>1 DEF CiLegT
    <3>2. b = [c EXCEPT !.RingingTime = rung]
      BY <1>1, <2>1 DEF CiLegT
    <3> HIDE DEF c
    <3>3. QED
      BY <3>1, <3>2, <1>2 DEF CiLegT
  <2>3. CiSameMedia(st, b)
    BY <2>1, <1>1 DEF CiLegT, CiSameMedia
  <2>4. /\ b.invite = st.invite /\ b.bye = st.bye /\ b.cancel = st.cancel /\ b.Duration = st.Duration
        /\ b.connect = ts /\ b.ringing = st.ringing /\ b.FSSD = st.FSSD
        /\ b.RingingTime = rung /\ b.Status = 5
        /\ b.SRD = st.SRD /\ b.SSS = st.SSS /\ b.SDD = st.SDD /\ b.first = st.first /\ b.last = st.last
    BY <2>1, <1>1 DEF CiLegT
  <2>5. CiMoved(st, b, ts)
    BY <2>4, <1>2 DEF CiMoved
  <2>6. ~CiStarts(st, r) /\ ~CiFails(st, r)
    BY <1>6 DEF CiStarts, CiConnects, CiFails
  <2>7. QED
    BY <1>6, <2>2, <2>3, <2>4, <2>5, <2>6, CiMovedOn DEF rung
<1>7. CASE CiFails(st, r)
  <2>1. b = [st EXCEPT !.Status = failure, !.stop = ts, !.RingingTime = rung, !.FSSD = fssd]
    <3>1. ~(r.code = 183) /\ ~(r.code = 180) /\ ~CiConnects(st, r)
      BY <1>7 DEF CiFails, CiConnects
    <3>2. QED
      BY <1>7, <1>1, <3>1 DEF CiProgress, CiFails
  <2> HIDE DEF rung, failure, fssd
  <2>2. b \in CiLegT
    <3> DEFINE c == [st EXCEPT !.Status = failure]
               d == [c EXCEPT !.stop = ts, !.RingingTime = rung]
    <3>1. failure \in Nat
      BY <1>4
    <3>2. c \in CiLegT
      BY <1>1, <3>1 DEF CiLegT
    <3>3. b = [d EXCEPT !.FSSD = fssd]
      BY <1>1, <2>1 DEF CiLegT
    <3> HIDE DEF c
    <3>4. d \in CiLegT
      BY <3>2, <1>2 DEF CiLegT
    <3> HIDE DEF d
    <3>5. QED
      BY <3>3, <3>4, <1>3 DEF CiLegT
  <2>3. CiSameMedia(st, b)
    BY <2>1, <1>1 DEF CiLegT, CiSameMedia
  <2>4. /\ b.invite = st.invite /\ b.bye = st.bye /\ b.cancel = st.cancel /\ b.Duration = st.Duration
        /\ b.connect = st.connect /\ b.ringing = st.ringing /\ b.FSSD = fssd
        /\ b.RingingTime = rung /\ b.Status = failure
        /\ b.SRD = st.SRD /\ b.SSS = st.SSS /\ b.SDD = st.SDD /\ b.first = st.first /\ b.last = st.last
    BY <2>1, <1>1 DEF CiLegT
  <2>5. CiMoved(st, b, ts)
    BY <2>4, <1>2, <1>3 DEF CiMoved
  <2>6. ~CiStarts(st, r) /\ ~CiConnects(st, r)
    BY <1>7 DEF CiStarts, CiConnects, CiFails
  <2>7. QED
    BY <1>4, <1>7, <2>2, <2>3, <2>4, <2>5, <2>6, CiMovedOn DEF rung
<1>8. CASE ~CiStarts(st, r) /\ ~CiConnects(st, r) /\ ~CiFails(st, r)
  <2>1. b = st
    BY <1>8 DEF CiProgress, CiStarts, CiConnects, CiFails
  <2>2. QED
    BY <2>1, <1>8, <1>1 DEF CiSameMedia
<1>9. QED
  BY <1>5, <1>6, <1>7, <1>8

CiRedirects(r) == r.code \in 301..399 /\ r.method = "INVITE"
CiChallenged(r) == r.code = 401 \/ (r.code = 407 /\ r.method = "INVITE")
CiByeDone(r) == r.code = 200 /\ r.method = "BYE"

LEMMA CiSameTests ==
    ASSUME NEW a, NEW b, CiSameState(a, b), NEW r \in CiRowT, NEW ts
    PROVE  /\ CiStarts(b, r) <=> CiStarts(a, r)
           /\ CiConnects(b, r) <=> CiConnects(a, r)
           /\ CiFails(b, r) <=> CiFails(a, r)
           /\ CiRung(b, ts) = CiRung(a, ts)
  BY DEF CiSameState, CiStarts, CiConnects, CiFails, CiRung, CiRings

LEMMA CiAnswerSeen ==
    ASSUME NEW ts \in Nat \ {0}, NEW st, CiCurrent(st, ts), NEW r \in CiRowT,
           NEW b, b = CiSeesAnswer(st, r, ts)
    PROVE  /\ b \in CiLegT /\ CiSameMedia(st, b) /\ CiCurrent(b, ts)
           /\ b.invite = st.invite /\ b.bye = st.bye /\ b.cancel = st.cancel /\ b.Duration = st.Duration
           /\ b.connect = IF CiConnects(st, r) THEN ts ELSE st.connect
           /\ b.ringing = IF CiStarts(st, r) THEN ts ELSE st.ringing
           /\ ~CiFails(st, r) => b.FSSD = st.FSSD
           /\ b.RingingTime = IF CiConnects(st, r) \/ CiFails(st, r) \/ CiRedirects(r)
                              THEN CiRung(st, ts) ELSE st.RingingTime
           /\ CiStarts(st, r) => b.Status \in {3, 4}
           /\ CiConnects(st, r) => b.Status = 5
           /\ CiFails(st, r) => b.Status \in {7, 8, 9, 12, 14}
           /\ CiRedirects(r) => b.Status = 6
           /\ CiChallenged(r) => b.Status = 2
           /\ CiByeDone(r) => b.Status \in {10, st.Status}
           /\ ~CiStarts(st, r) /\ ~CiConnects(st, r) /\ ~CiFails(st, r) /\ ~CiRedirects(r)
              /\ ~CiChallenged(r) /\ ~CiByeDone(r) => b.Status = st.Status
<1> DEFINE d == CiDelays(st, r.code, ts)
           p == CiProgress(d, r, ts)
           s2 == [p EXCEPT !.Status = IF CiChallenged(r) THEN 2 ELSE @]
           rung == CiRung(s2, ts)
           s3 == IF CiRedirects(r) THEN [s2 EXCEPT !.Status = 6, !.stop = ts, !.RingingTime = rung] ELSE s2
           s4 == [s3 EXCEPT !.LastBadReply = IF r.code \in 401..699 THEN r.code ELSE @]
           sdd == IF s4.bye # 0 /\ s4.bye < ts THEN ts - s4.bye ELSE s4.SDD
<1>0. r.code \in Nat
  BY SMTT(30) DEF CiRowT
<1>1. b = IF CiByeDone(r) /\ s4.SDD = 0 THEN [s4 EXCEPT !.Status = 10, !.SDD = sdd] ELSE s4
  BY DEF CiSeesAnswer, CiChallenged, CiRedirects, CiByeDone
<1>2. d \in CiLegT /\ CiSameMedia(st, d) /\ CiCurrent(d, ts) /\ CiSameState(st, d)
  BY <1>0, CiDelaysSeen
<1>3. p = CiProgress(d, r, ts)
  OBVIOUS
<1> HIDE DEF d, p
<1>4. /\ p \in CiLegT /\ CiSameMedia(d, p) /\ CiCurrent(p, ts)
      /\ p.invite = d.invite /\ p.bye = d.bye /\ p.cancel = d.cancel /\ p.Duration = d.Duration
      /\ p.connect = IF CiConnects(d, r) THEN ts ELSE d.connect
      /\ p.ringing = IF CiStarts(d, r) THEN ts ELSE d.ringing
      /\ ~CiFails(d, r) => p.FSSD = d.FSSD
      /\ p.RingingTime = IF CiConnects(d, r) \/ CiFails(d, r) THEN CiRung(d, ts) ELSE d.RingingTime
      /\ CiStarts(d, r) => p.Status \in {3, 4}
      /\ CiConnects(d, r) => p.Status = 5
      /\ CiFails(d, r) => p.Status \in {7, 8, 9, 12, 14}
      /\ ~CiStarts(d, r) /\ ~CiConnects(d, r) /\ ~CiFails(d, r) => p.Status = d.Status
  BY <1>2, <1>3, CiProgressSeen
<1>5. /\ CiStarts(d, r) <=> CiStarts(st, r)
      /\ CiConnects(d, r) <=> CiConnects(st, r)
      /\ CiFails(d, r) <=> CiFails(st, r)
      /\ CiRung(d, ts) = CiRung(st, ts)
  BY <1>2, CiSameTests
<1>6. /\ p.invite = st.invite /\ p.bye = st.bye /\ p.cancel = st.cancel /\ p.Duration = st.Duration
      /\ p.connect = IF CiConnects(st, r) THEN ts ELSE st.connect
      /\ p.ringing = IF CiStarts(st, r) THEN ts ELSE st.ringing
      /\ ~CiFails(st, r) => p.FSSD = st.FSSD
      /\ p.RingingTime = IF CiConnects(st, r) \/ CiFails(st, r) THEN CiRung(st, ts) ELSE st.RingingTime
      /\ CiStarts(st, r) => p.Status \in {3, 4}
      /\ CiConnects(st, r) => p.Status = 5
      /\ CiFails(st, r) => p.Status \in {7, 8, 9, 12, 14}
      /\ ~CiStarts(st, r) /\ ~CiConnects(st, r) /\ ~CiFails(st, r) => p.Status = st.Status
  BY <1>2, <1>4, <1>5 DEF CiSameState
<1>7. CiSameMedia(st, p)
  BY <1>2, <1>4 DEF CiSameMedia
<1>8. /\ s2 \in CiLegT /\ CiSameMedia(p, s2) /\ CiCurrent(s2, ts)
      /\ s2.invite = p.invite /\ s2.bye = p.bye /\ s2.cancel = p.cancel /\ s2.Duration = p.Duration
      /\ s2.connect = p.connect /\ s2.ringing = p.ringing /\ s2.FSSD = p.FSSD
      /\ s2.RingingTime = p.RingingTime
      /\ s2.Status = IF CiChallenged(r) THEN 2 ELSE p.Status
  <2>1. s2 \in CiLegT
    BY <1>4 DEF CiLegT
  <2>2. CiSameMedia(p, s2)
    BY <1>4 DEF CiLegT, CiSameMedia
  <2>3. /\ s2.invite = p.invite /\ s2.bye = p.bye /\ s2.cancel = p.cancel /\ s2.Duration = p.Duration
        /\ s2.connect = p.connect /\ s2.ringing = p.ringing /\ s2.FSSD = p.FSSD
        /\ s2.RingingTime = p.RingingTime
        /\ s2.Status = IF CiChallenged(r) THEN 2 ELSE p.Status
        /\ s2.SRD = p.SRD /\ s2.SSS = p.SSS /\ s2.SDD = p.SDD /\ s2.first = p.first /\ s2.last = p.last
    BY <1>4 DEF CiLegT
  <2> HIDE DEF s2
  <2>4. CiMoved(p, s2, ts)
    BY <2>3 DEF CiMoved
  <2>5. QED
    BY <2>1, <2>2, <2>3, <2>4, <1>4, CiMovedOn
<1>9. rung = IF p.ringing # 0 /\ p.RingingTime = 0 /\ p.ringing < ts THEN ts - p.ringing ELSE p.RingingTime
  <2> HIDE DEF s2
  <2>1. QED
    BY <1>8 DEF CiRung, CiRings
<1>10. rung \in Nat /\ (rung = s2.RingingTime \/ rung <= ts - s2.first)
  <2> HIDE DEF s2
  <2>1. QED
    BY <1>8, CiRungTime
<1> HIDE DEF s2, rung
<1>11. /\ s3 \in CiLegT /\ CiSameMedia(s2, s3) /\ CiCurrent(s3, ts)
       /\ s3.invite = s2.invite /\ s3.bye = s2.bye /\ s3.cancel = s2.cancel /\ s3.Duration = s2.Duration
       /\ s3.connect = s2.connect /\ s3.ringing = s2.ringing /\ s3.FSSD = s2.FSSD
       /\ s3.RingingTime = IF CiRedirects(r) THEN rung ELSE s2.RingingTime
       /\ s3.Status = IF CiRedirects(r) THEN 6 ELSE s2.Status
  <2>1. CASE CiRedirects(r)
    <3>1. s3 = [s2 EXCEPT !.Status = 6, !.stop = ts, !.RingingTime = rung]
      BY <2>1
    <3> HIDE DEF s3
    <3>2. s3 \in CiLegT
      <4> DEFINE c == [s2 EXCEPT !.Status = 6, !.stop = ts]
      <4>1. c \in CiLegT
        BY <1>8 DEF CiLegT
      <4>2. s3 = [c EXCEPT !.RingingTime = rung]
        BY <1>8, <3>1 DEF CiLegT
      <4> HIDE DEF c
      <4>3. QED
        BY <4>1, <4>2, <1>10 DEF CiLegT
    <3>3. CiSameMedia(s2, s3)
      BY <3>1, <1>8 DEF CiLegT, CiSameMedia
    <3>4. /\ s3.invite = s2.invite /\ s3.bye = s2.bye /\ s3.cancel = s2.cancel /\ s3.Duration = s2.Duration
          /\ s3.connect = s2.connect /\ s3.ringing = s2.ringing /\ s3.FSSD = s2.FSSD
          /\ s3.RingingTime = rung /\ s3.Status = 6
          /\ s3.SRD = s2.SRD /\ s3.SSS = s2.SSS /\ s3.SDD = s2.SDD /\ s3.first = s2.first /\ s3.last = s2.last
      BY <3>1, <1>8 DEF CiLegT
    <3>5. CiMoved(s2, s3, ts)
      BY <3>4, <1>10 DEF CiMoved
    <3>6. QED
      BY <2>1, <3>2, <3>3, <3>4, <3>5, <1>8, CiMovedOn
  <2>2. CASE ~CiRedirects(r)
    <3>1. s3 = s2
      BY <2>2
    <3> HIDE DEF s3
    <3>2. QED
      BY <2>2, <3>1, <1>8 DEF CiSameMedia
  <2>3. QED
    BY <2>1, <2>2
<1> HIDE DEF s3
<1>12. /\ s4 \in CiLegT /\ CiSameMedia(s3, s4) /\ CiCurrent(s4, ts)
       /\ s4.invite = s3.invite /\ s4.bye = s3.bye /\ s4.cancel = s3.cancel /\ s4.Duration = s3.Duration
       /\ s4.connect = s3.connect /\ s4.ringing = s3.ringing /\ s4.FSSD = s3.FSSD
       /\ s4.RingingTime = s3.RingingTime /\ s4.Status = s3.Status
  <2>1. s4 \in CiLegT
    BY <1>0, <1>11 DEF CiLegT
  <2>2. CiSameMedia(s3, s4)
    BY <1>11 DEF CiLegT, CiSameMedia
  <2>3. /\ s4.invite = s3.invite /\ s4.bye = s3.bye /\ s4.cancel = s3.cancel /\ s4.Duration = s3.Duration
        /\ s4.connect = s3.connect /\ s4.ringing = s3.ringing /\ s4.FSSD = s3.FSSD
        /\ s4.RingingTime = s3.RingingTime /\ s4.Status = s3.Status
        /\ s4.SRD = s3.SRD /\ s4.SSS = s3.SSS /\ s4.SDD = s3.SDD /\ s4.first = s3.first /\ s4.last = s3.last
    BY <1>11 DEF CiLegT
  <2> HIDE DEF s4
  <2>4. CiMoved(s3, s4, ts)
    BY <2>3 DEF CiMoved
  <2>5. QED
    BY SMTT(30), <2>1, <2>2, <2>3, <2>4, <1>11, CiMovedOn
<1>13. sdd \in Nat /\ (sdd = s4.SDD \/ sdd <= ts - s4.first)
  <2> HIDE DEF s4
  <2>1. s4.bye \in Nat /\ s4.SDD \in Nat /\ s4.first \in Nat /\ (s4.bye = 0 \/ s4.first <= s4.bye)
    BY <1>12 DEF CiLegT, CiCurrent, CiTimely
  <2>2. QED
    BY <2>1
<1> HIDE DEF s4, sdd
<1>14. /\ b \in CiLegT /\ CiSameMedia(s4, b) /\ CiCurrent(b, ts)
       /\ b.invite = s4.invite /\ b.bye = s4.bye /\ b.cancel = s4.cancel /\ b.Duration = s4.Duration
       /\ b.connect = s4.connect /\ b.ringing = s4.ringing /\ b.FSSD = s4.FSSD
       /\ b.RingingTime = s4.RingingTime
       /\ b.Status = IF CiByeDone(r) /\ s4.SDD = 0 THEN 10 ELSE s4.Status
  <2>1. CASE CiByeDone(r) /\ s4.SDD = 0
    <3>1. b = [s4 EXCEPT !.Status = 10, !.SDD = sdd]
      BY <1>1, <2>1
    <3>2. b \in CiLegT
      <4> DEFINE c == [s4 EXCEPT !.Status = 10]
      <4>1. c \in CiLegT
        BY <1>12 DEF CiLegT
      <4>2. b = [c EXCEPT !.SDD = sdd]
        BY <1>12, <3>1 DEF CiLegT
      <4> HIDE DEF c
      <4>3. QED
        BY <4>1, <4>2, <1>13 DEF CiLegT
    <3>3. CiSameMedia(s4, b)
      BY <3>1, <1>12 DEF CiLegT, CiSameMedia
    <3>4. /\ b.invite = s4.invite /\ b.bye = s4.bye /\ b.cancel = s4.cancel /\ b.Duration = s4.Duration
          /\ b.connect = s4.connect /\ b.ringing = s4.ringing /\ b.FSSD = s4.FSSD
          /\ b.RingingTime = s4.RingingTime /\ b.Status = 10 /\ b.SDD = sdd
          /\ b.SRD = s4.SRD /\ b.SSS = s4.SSS /\ b.first = s4.first /\ b.last = s4.last
      BY <3>1, <1>12 DEF CiLegT
    <3>5. CiMoved(s4, b, ts)
      BY <3>4, <1>13 DEF CiMoved
    <3>6. QED
      BY <2>1, <3>2, <3>3, <3>4, <3>5, <1>12, CiMovedOn
  <2>2. CASE ~(CiByeDone(r) /\ s4.SDD = 0)
    <3>1. b = s4
      BY <1>1, <2>2
    <3>2. QED
      BY <2>2, <3>1, <1>12 DEF CiSameMedia
  <2>3. QED
    BY <2>1, <2>2
<1>15. /\ b \in CiLegT /\ CiCurrent(b, ts) /\ CiSameMedia(st, b)
  BY <1>7, <1>8, <1>11, <1>12, <1>14 DEF CiSameMedia
<1>16. /\ CiRedirects(r) => ~CiChallenged(r) /\ ~CiByeDone(r) /\ ~CiStarts(st, r) /\ ~CiConnects(st, r) /\ ~CiFails(st, r)
       /\ CiChallenged(r) => ~CiByeDone(r) /\ ~CiStarts(st, r) /\ ~CiConnects(st, r) /\ ~CiFails(st, r)
       /\ CiByeDone(r) => ~CiStarts(st, r) /\ ~CiConnects(st, r) /\ ~CiFails(st, r)
  <2>1. CASE CiRedirects(r)
    <3>1. r.code \in 301..399
      BY <2>1 DEF CiRedirects
    <3>4. 301 <= r.code /\ r.code <= 399
      BY <3>1
    <3>5. ~(401 <= r.code)
      BY <1>0, <3>4
    <3>6. r.code \notin 401..699
      BY <3>5
    <3>2. r.code \notin {180, 183, 200, 401, 407} /\ r.code \notin 401..699
      BY <1>0, <3>4, <3>6
    <3>3. QED
      BY <3>2 DEF CiChallenged, CiByeDone, CiStarts, CiConnects, CiFails
  <2>2. CASE CiChallenged(r)
    <3>1. r.code = 401 \/ r.code = 407
      BY <2>2 DEF CiChallenged
    <3>2. QED
      BY <3>1 DEF CiRedirects, CiByeDone, CiStarts, CiConnects, CiFails
  <2>3. CASE CiByeDone(r)
    BY <2>3 DEF CiRedirects, CiChallenged, CiByeDone, CiStarts, CiConnects, CiFails
  <2>4. QED
    BY <2>1, <2>2, <2>3
<1>17. /\ b.invite = p.invite /\ b.bye = p.bye /\ b.cancel = p.cancel /\ b.Duration = p.Duration
       /\ b.connect = p.connect /\ b.ringing = p.ringing /\ b.FSSD = p.FSSD
       /\ b.RingingTime = IF CiRedirects(r) THEN rung ELSE p.RingingTime
       /\ CiRedirects(r) => b.Status = 6
       /\ CiChallenged(r) => b.Status = 2
       /\ CiByeDone(r) => b.Status \in {10, p.Status}
       /\ ~CiRedirects(r) /\ ~CiChallenged(r) /\ ~CiByeDone(r) => b.Status = p.Status
  BY <1>8, <1>11, <1>12, <1>14, <1>16
<1>18. CiRedirects(r) => rung = CiRung(st, ts)
  BY <1>6, <1>9, <1>16 DEF CiRung, CiRings
<1>19. b.RingingTime = IF CiConnects(st, r) \/ CiFails(st, r) \/ CiRedirects(r)
                       THEN CiRung(st, ts) ELSE st.RingingTime
  BY <1>6, <1>16, <1>17, <1>18
<1>20. QED
  BY <1>6, <1>15, <1>16, <1>17, <1>19

-----------------------------------------------------------------------------
(* One row: what it does to the codecs, and what to the rest. *)

CiAsks(r, method, at) == r.code = 0 /\ r.method = method /\ at = 0

LEMMA CiSameCurrent ==
    ASSUME NEW ts \in Nat \ {0}, NEW st, CiCurrent(st, ts), NEW b \in CiLegT, CiSameTimes(st, b)
    PROVE  CiCurrent(b, ts) /\ CiSameState(st, b)
<1>1. CiMoved(st, b, ts)
  BY DEF CiMoved, CiSameTimes
<1>2. QED
  BY <1>1, CiMovedOn DEF CiSameTimes, CiSameState

\* What row r, seen at ts, makes of the times and the state of leg st.
CiRowTimes(st, r, b, ts) ==
    /\ b.invite = IF CiAsks(r, "INVITE", st.invite) THEN ts ELSE st.invite
    /\ b.bye = IF CiAsks(r, "BYE", st.bye) THEN ts ELSE st.bye
    /\ b.cancel = IF CiAsks(r, "CANCEL", st.cancel) THEN ts ELSE st.cancel
    /\ b.connect = IF CiConnects(st, r) THEN ts ELSE st.connect
    /\ b.ringing = IF CiStarts(st, r) THEN ts ELSE st.ringing
    /\ CiFails(st, r) \/ b.FSSD = st.FSSD
    /\ b.RingingTime = IF \/ CiAsks(r, "BYE", st.bye) \/ CiAsks(r, "CANCEL", st.cancel)
                          \/ CiConnects(st, r) \/ CiFails(st, r) \/ CiRedirects(r)
                       THEN CiRung(st, ts) ELSE st.RingingTime
    /\ b.Duration = IF CiAsks(r, "BYE", st.bye) /\ st.connect # 0 /\ st.connect < ts
                    THEN ts - st.connect ELSE st.Duration

CiTells(st, r) ==
    \/ CiAsks(r, "INVITE", st.invite) \/ CiAsks(r, "BYE", st.bye) \/ CiAsks(r, "CANCEL", st.cancel)
    \/ CiStarts(st, r) \/ CiConnects(st, r) \/ CiFails(st, r)
    \/ CiRedirects(r) \/ CiChallenged(r) \/ CiByeDone(r)

CiRowState(st, r, b) ==
    /\ CiAsks(r, "INVITE", st.invite) => b.Status = 1
    /\ CiAsks(r, "BYE", st.bye) => b.Status = 10
    /\ CiAsks(r, "CANCEL", st.cancel) => b.Status = 11
    /\ CiStarts(st, r) => b.Status \in {3, 4}
    /\ CiConnects(st, r) => b.Status = 5
    /\ CiFails(st, r) => b.Status \in {7, 8, 9, 12, 14}
    /\ CiRedirects(r) => b.Status = 6
    /\ CiChallenged(r) => b.Status = 2
    /\ CiByeDone(r) => b.Status \in {10, st.Status}
    /\ ~CiTells(st, r) => b.Status = st.Status

LEMMA CiRowSeen ==
    ASSUME NEW ts \in Nat \ {0}, NEW st, CiTimely(st, ts), NEW r \in CiRowT,
           NEW b, b = computeSIPCallLeg(st, r, ts)
    PROVE  /\ CiCurrent(b, ts)
           /\ \E a \in CiLegT : CiSameMedia(st, a) /\ CiSameMedia(observeSDP(a, r), b)
           /\ CiRowTimes(st, r, b, ts) /\ CiRowState(st, r, b)
<1> DEFINE a == CiTouch(st, ts)
           o == observeSDP(a, r)
<1>0. r.code \in Nat
  BY DEF CiRowT
<1>1. b = CASE r.code = 0 /\ r.method = "INVITE" /\ o.invite = 0 -> CiSeesInvite(o, ts)
            [] r.code = 0 /\ r.method = "BYE" /\ o.bye = 0 -> CiSeesBye(o, ts)
            [] r.code = 0 /\ r.method = "CANCEL" /\ o.cancel = 0 -> CiSeesCancel(o, ts)
            [] r.code # 0 -> CiSeesAnswer(o, r, ts)
            [] OTHER -> o
  BY DEF computeSIPCallLeg, CiTouch
<1>2. a = CiTouch(st, ts) /\ o = observeSDP(a, r)
  OBVIOUS
<1> HIDE DEF a, o
<1>3. a \in CiLegT /\ CiCurrent(a, ts) /\ CiSameMedia(st, a) /\ CiSameState(st, a)
  BY <1>2, CiTouched
<1>4. o \in CiLegT /\ CiSameTimes(a, o)
  BY <1>2, <1>3, CiObserves
<1>5. CiCurrent(o, ts) /\ CiSameState(a, o)
  BY <1>3, <1>4, CiSameCurrent
<1>6. CiSameState(st, o)
  BY <1>3, <1>5 DEF CiSameState
<1>7. /\ CiStarts(o, r) <=> CiStarts(st, r)
      /\ CiConnects(o, r) <=> CiConnects(st, r)
      /\ CiFails(o, r) <=> CiFails(st, r)
      /\ CiRung(o, ts) = CiRung(st, ts)
  BY <1>6, CiSameTests
<1>15. SUFFICES CiCurrent(b, ts) /\ CiSameMedia(o, b) /\ CiRowTimes(st, r, b, ts) /\ CiRowState(st, r, b)
  BY <1>2, <1>3
<1>8. r.code = 0 => ~CiStarts(st, r) /\ ~CiConnects(st, r) /\ ~CiFails(st, r) /\ ~CiRedirects(r)
                    /\ ~CiChallenged(r) /\ ~CiByeDone(r)
  BY DEF CiStarts, CiConnects, CiFails, CiRedirects, CiChallenged, CiByeDone
<1>9. CASE CiAsks(r, "INVITE", st.invite)
  <2>1. b = CiSeesInvite(o, ts)
    BY <1>1, <1>6, <1>9 DEF CiAsks, CiSameState
  <2>2. /\ b \in CiLegT /\ CiSameMedia(o, b) /\ CiCurrent(b, ts)
        /\ b.invite = ts /\ b.Status = 1
        /\ b.bye = o.bye /\ b.cancel = o.cancel
        /\ b.ringing = o.ringing /\ b.connect = o.connect /\ b.RingingTime = o.RingingTime
        /\ b.Duration = o.Duration /\ b.FSSD = o.FSSD
    BY <2>1, <1>5, CiInviteSeen
  <2>3. ~CiAsks(r, "BYE", st.bye) /\ ~CiAsks(r, "CANCEL", st.cancel) /\ r.code = 0
    BY <1>9 DEF CiAsks
  <2>4. CiRowTimes(st, r, b, ts)
    BY <2>2, <2>3, <1>6, <1>8, <1>9 DEF CiSameState, CiRowTimes
  <2>5. CiRowState(st, r, b)
    BY <2>2, <2>3, <1>6, <1>8, <1>9 DEF CiSameState, CiRowState, CiTells
  <2>6. QED
    BY <2>2, <2>4, <2>5
<1>10. CASE CiAsks(r, "BYE", st.bye)
  <2>1. b = CiSeesBye(o, ts)
    BY <1>1, <1>6, <1>10 DEF CiAsks, CiSameState
  <2>2. /\ b \in CiLegT /\ CiSameMedia(o, b) /\ CiCurrent(b, ts)
        /\ b.bye = ts /\ b.Status = 10 /\ b.RingingTime = CiRung(o, ts)
        /\ b.Duration = IF o.connect # 0 /\ o.connect < ts THEN ts - o.connect ELSE o.Duration
        /\ b.invite = o.invite /\ b.cancel = o.cancel
        /\ b.ringing = o.ringing /\ b.connect = o.connect /\ b.FSSD = o.FSSD
    BY <2>1, <1>5, CiByeSeen
  <2>3. ~CiAsks(r, "INVITE", st.invite) /\ ~CiAsks(r, "CANCEL", st.cancel) /\ r.code = 0
    BY <1>10 DEF CiAsks
  <2>4. CiRowTimes(st, r, b, ts)
    BY <2>2, <2>3, <1>6, <1>7, <1>8, <1>10 DEF CiSameState, CiRowTimes
  <2>5. CiRowState(st, r, b)
    BY <2>2, <2>3, <1>6, <1>7, <1>8, <1>10 DEF CiSameState, CiRowState, CiTells
  <2>6. QED
    BY <2>2, <2>4, <2>5
<1>11. CASE CiAsks(r, "CANCEL", st.cancel)
  <2>1. b = CiSeesCancel(o, ts)
    BY <1>1, <1>6, <1>11 DEF CiAsks, CiSameState
  <2>2. /\ b \in CiLegT /\ CiSameMedia(o, b) /\ CiCurrent(b, ts)
        /\ b.cancel = ts /\ b.Status = 11 /\ b.RingingTime = CiRung(o, ts)
        /\ b.invite = o.invite /\ b.bye = o.bye /\ b.Duration = o.Duration
        /\ b.ringing = o.ringing /\ b.connect = o.connect /\ b.FSSD = o.FSSD
    BY <2>1, <1>5, CiCancelSeen
  <2>3. ~CiAsks(r, "INVITE", st.invite) /\ ~CiAsks(r, "BYE", st.bye) /\ r.code = 0
    BY <1>11 DEF CiAsks
  <2>4. CiRowTimes(st, r, b, ts)
    BY <2>2, <2>3, <1>6, <1>7, <1>8, <1>11 DEF CiSameState, CiRowTimes
  <2>5. CiRowState(st, r, b)
    BY <2>2, <2>3, <1>6, <1>7, <1>8, <1>11 DEF CiSameState, CiRowState, CiTells
  <2>6. QED
    BY <2>2, <2>4, <2>5
<1>12. CASE r.code # 0
  <2>1. b = CiSeesAnswer(o, r, ts)
    BY <1>1, <1>12
  <2>2. /\ b \in CiLegT /\ CiSameMedia(o, b) /\ CiCurrent(b, ts)
        /\ b.invite = o.invite /\ b.bye = o.bye /\ b.cancel = o.cancel /\ b.Duration = o.Duration
        /\ b.connect = IF CiConnects(o, r) THEN ts ELSE o.connect
        /\ b.ringing = IF CiStarts(o, r) THEN ts ELSE o.ringing
        /\ ~CiFails(o, r) => b.FSSD = o.FSSD
        /\ b.RingingTime = IF CiConnects(o, r) \/ CiFails(o, r) \/ CiRedirects(r)
                           THEN CiRung(o, ts) ELSE o.RingingTime
        /\ CiStarts(o, r) => b.Status \in {3, 4}
        /\ CiConnects(o, r) => b.Status = 5
        /\ CiFails(o, r) => b.Status \in {7, 8, 9, 12, 14}
        /\ CiRedirects(r) => b.Status = 6
        /\ CiChallenged(r) => b.Status = 2
        /\ CiByeDone(r) => b.Status \in {10, o.Status}
        /\ ~CiStarts(o, r) /\ ~CiConnects(o, r) /\ ~CiFails(o, r) /\ ~CiRedirects(r)
           /\ ~CiChallenged(r) /\ ~CiByeDone(r) => b.Status = o.Status
    BY <2>1, <1>5, CiAnswerSeen
  <2>3. /\ ~CiAsks(r, "INVITE", st.invite) /\ ~CiAsks(r, "BYE", st.bye)
        /\ ~CiAsks(r, "CANCEL", st.cancel)
    BY <1>12 DEF CiAsks
  <2>4. CiRowTimes(st, r, b, ts)
    BY <2>2, <2>3, <1>6, <1>7 DEF CiSameState, CiRowTimes
  <2>5. CiRowState(st, r, b)
    BY <2>2, <2>3, <1>6, <1>7 DEF CiSameState, CiRowState, CiTells
  <2>6. QED
    BY <2>2, <2>4, <2>5
<1>13. CASE /\ r.code = 0 /\ ~CiAsks(r, "INVITE", st.invite) /\ ~CiAsks(r, "BYE", st.bye)
            /\ ~CiAsks(r, "CANCEL", st.cancel)
  <2>1. b = o
    BY <1>1, <1>6, <1>13 DEF CiAsks, CiSameState
  <2>2. CiSameMedia(o, b) /\ CiSameState(st, b)
    BY <2>1, <1>6 DEF CiSameMedia
  <2>3. CiRowTimes(st, r, b, ts)
    BY <2>2, <1>8, <1>13 DEF CiSameState, CiRowTimes
  <2>4. CiRowState(st, r, b)
    BY <2>2, <1>8, <1>13 DEF CiSameState, CiRowState, CiTells
  <2>5. QED
    BY <2>1, <2>2, <2>3, <2>4, <1>5
<1>14. QED
  BY <1>9, <1>10, <1>11, <1>12, <1>13

-----------------------------------------------------------------------------
(* The rows of a millisecond, in any order. *)

CiNextLeg(o, st, k) == computeSIPCallLeg(st, ciBatch[o[k]], ciNow)
CiLegsTo(o, n, f) == f = [k \in 0..n |-> IF k = 0 THEN ciLeg ELSE CiNextLeg(o, f[k - 1], k)]

\* The recursion of CiLegs has a solution.
LEMMA CiLegsExist ==
    ASSUME NEW o, NEW n \in Nat
    PROVE  \E f : CiLegsTo(o, n, f)
<1> DEFINE Bad == {m \in Nat : ~\E f : CiLegsTo(o, m, f)}
<1>1. SUFFICES ASSUME Bad # {} PROVE FALSE
  OBVIOUS
<1>2. PICK m \in Bad : \A j \in Bad : m <= j
  <2>1. Bad \subseteq Nat
    OBVIOUS
  <2> HIDE DEF Bad
  <2>2. QED
    BY <1>1, <2>1, LeastOf
<1>3. CASE m = 0
  <2> DEFINE f == [k \in 0..0 |-> ciLeg]
  <2>1. CiLegsTo(o, 0, f)
    BY DEF CiLegsTo
  <2>2. QED
    BY <1>2, <1>3, <2>1
<1>4. CASE m # 0
  <2>1. m \in Nat /\ m - 1 \in Nat /\ m - 1 \notin Bad
    BY <1>2, <1>4
  <2>2. PICK g : CiLegsTo(o, m - 1, g)
    BY <2>1
  <2> DEFINE f == [k \in 0..m |-> IF k = m THEN CiNextLeg(o, g[m - 1], m) ELSE g[k]]
  <2>3. ASSUME NEW k \in 0..m
        PROVE  f[k] = IF k = 0 THEN ciLeg ELSE CiNextLeg(o, f[k - 1], k)
    <3>1. CASE k = m
      <4>1. m - 1 \in 0..m /\ m - 1 # m
        BY <2>1
      <4>2. f[k - 1] = g[m - 1]
        BY <3>1, <4>1
      <4>3. QED
        BY <3>1, <4>2, <1>4
    <3>2. CASE k # m /\ k # 0
      <4>1. k - 1 \in 0..m /\ k - 1 # m /\ k \in 0..(m - 1)
        BY <2>1, <3>2
      <4>2. f[k] = g[k] /\ f[k - 1] = g[k - 1]
        BY <3>2, <4>1
      <4>3. g[k] = CiNextLeg(o, g[k - 1], k)
        BY <2>2, <3>2, <4>1 DEF CiLegsTo
      <4>4. QED
        BY <3>2, <4>2, <4>3
    <3>3. CASE k # m /\ k = 0
      <4>1. 0 \in 0..(m - 1)
        BY <2>1
      <4>2. g[0] = ciLeg
        BY <2>2, <4>1 DEF CiLegsTo
      <4>3. QED
        BY <3>3, <4>2
    <3>4. QED
      BY <3>1, <3>2, <3>3
  <2>4. f = [k \in 0..m |-> IF k = 0 THEN ciLeg ELSE CiNextLeg(o, f[k - 1], k)]
    <3>1. f = [k \in 0..m |-> f[k]]
      OBVIOUS
    <3> HIDE DEF f
    <3>2. QED
      BY <2>3, <3>1
  <2>5. CiLegsTo(o, m, f)
    BY <2>4 DEF CiLegsTo
  <2>6. QED
    BY <1>2, <2>1, <2>5
<1>5. QED
  BY <1>3, <1>4

LEMMA CiLegsSolve ==
    ASSUME NEW o, Len(ciBatch) \in Nat
    PROVE  CiLegsTo(o, Len(ciBatch), CiLegs(o))
<1>1. PICK f : CiLegsTo(o, Len(ciBatch), f)
  BY CiLegsExist
<1>2. QED
  BY <1>1 DEF CiLegs, CiLegsTo, CiNextLeg

LEMMA CiLegsTimely ==
    ASSUME CiTypeInv, CiTimely(ciLeg, ciNow), NEW o \in CiOrders
    PROVE  CiTimely(CiLegs(o)[Len(ciBatch)], ciNow)
<1> DEFINE n == Len(ciBatch)
           leg == CiLegs(o)
           Bad == {k \in 0..n : ~CiTimely(leg[k], ciNow)}
<1>1. n \in Nat /\ \A i \in 1..n : ciBatch[i] \in CiRowT
  BY DEF CiTypeInv
<1>2. \A k \in 0..n : leg[k] = IF k = 0 THEN ciLeg ELSE CiNextLeg(o, leg[k - 1], k)
  <2>1. CiLegsTo(o, n, leg)
    BY <1>1, CiLegsSolve
  <2> HIDE DEF leg, n
  <2>2. QED
    BY <2>1 DEF CiLegsTo
<1>3. \A k \in 1..n : o[k] \in 1..n
  BY DEF CiOrders
<1> HIDE DEF leg, n
<1>4. SUFFICES ASSUME Bad # {} PROVE FALSE
  BY <1>1 DEF leg, n
<1>5. PICK k \in Bad : \A j \in Bad : k <= j
  <2>1. Bad \subseteq Nat
    BY <1>1
  <2> HIDE DEF Bad
  <2>2. QED
    BY <1>4, <2>1, LeastOf
<1>6. CASE k = 0
  BY <1>2, <1>5, <1>6
<1>7. CASE k # 0
  <2>1. k \in 1..n /\ k - 1 \in 0..n /\ k - 1 \notin Bad
    BY <1>1, <1>5, <1>7
  <2>2. CiTimely(leg[k - 1], ciNow)
    BY <2>1
  <2>3. leg[k] = computeSIPCallLeg(leg[k - 1], ciBatch[o[k]], ciNow) /\ ciBatch[o[k]] \in CiRowT
    BY <1>1, <1>2, <1>3, <1>7, <2>1 DEF CiNextLeg
  <2>4. CiTimely(leg[k], ciNow)
    BY <2>2, <2>3, CiRowSeen DEF CiTypeInv, CiCurrent
  <2>5. QED
    BY <1>5, <2>4
<1>8. QED
  BY <1>6, <1>7

-----------------------------------------------------------------------------
(* The call, with its rows in order. *)

CiRowMedia(st, r, b) ==
    /\ r.code = 0 /\ r.method \in {"INVITE", "UPDATE"} => CiRequestMedia(st, r, b)
    /\ r.code = 0 /\ r.method = "ACK" => CiAckMedia(st, r, b)
    /\ r.code = 200 /\ r.method \in {"INVITE", "UPDATE"} => CiAnswerMedia(st, r, b)
    /\ r.code = 0 /\ r.method \notin {"INVITE", "UPDATE", "ACK"} => CiSameMedia(st, b)
    /\ r.code = 200 /\ r.method \notin {"INVITE", "UPDATE"} => CiSameMedia(st, b)
    /\ r.code \notin {0, 200} => CiSameMedia(st, b)

LEMMA CiObservedMedia ==
    ASSUME NEW a \in CiLegT, NEW r \in CiRowT, NEW o, o = observeSDP(a, r)
    PROVE  CiRowMedia(a, r, o)
<1>1. CASE r.code = 0 /\ r.method \in {"INVITE", "UPDATE"}
  <2>1. o = CiSdpRequest(a, r)
    BY <1>1 DEF observeSDP
  <2>2. CiRequestMedia(a, r, o)
    BY <2>1, CiRequestNoted
  <2>3. QED
    BY <1>1, <2>2 DEF CiRowMedia
<1>2. CASE r.code = 0 /\ r.method = "ACK"
  <2>1. o = CiSdpAck(a, r)
    BY <1>2 DEF observeSDP
  <2>2. CiAckMedia(a, r, o)
    BY <2>1, CiAckNoted
  <2>3. QED
    BY <1>2, <2>2 DEF CiRowMedia
<1>3. CASE r.code = 200 /\ r.method \in {"INVITE", "UPDATE"}
  <2>1. o = CiSdpAnswer(a, r)
    BY <1>3 DEF observeSDP
  <2>4. CiAnswerMedia(a, r, o)
    BY <2>1, CiAnswerNoted
  <2>5. QED
    BY <1>3, <2>4 DEF CiRowMedia
<1>4. CASE ~(\/ r.code = 0 /\ r.method \in {"INVITE", "UPDATE", "ACK"}
             \/ r.code = 200 /\ r.method \in {"INVITE", "UPDATE"})
  <2>1. o = a
    BY <1>4 DEF observeSDP
  <2>2. CiSameMedia(a, o)
    BY <2>1 DEF CiSameMedia
  <2>3. QED
    BY <1>4, <2>2 DEF CiRowMedia
<1>5. QED
  BY <1>1, <1>2, <1>3, <1>4

LEMMA CiMediaThrough ==
    ASSUME NEW st, NEW a, CiSameMedia(st, a), NEW o, NEW b, CiSameMedia(o, b), NEW r, CiRowMedia(a, r, o)
    PROVE  CiRowMedia(st, r, b)
<1>1. CiSameMedia(a, o) => CiSameMedia(st, b)
  BY DEF CiSameMedia
<1>2. CiRequestMedia(a, r, o) => CiRequestMedia(st, r, b)
  BY DEF CiSameMedia, CiRequestMedia
<1>3. CiAckMedia(a, r, o) => CiAckMedia(st, r, b)
  BY <1>1 DEF CiSameMedia, CiAckMedia
<1>4. CiAnswerMedia(a, r, o) => CiAnswerMedia(st, r, b)
  <2>1. CiTxn(r) \in a.sdpAnsweredTxn <=> CiTxn(r) \in st.sdpAnsweredTxn
    BY DEF CiSameMedia
  <2>2. CiTxn(r) \in a.sdpOfferTxn <=> CiTxn(r) \in st.sdpOfferTxn
    BY DEF CiSameMedia
  <2> HIDE <1>2, <1>3
  <2>3. QED
    BY <1>1, <2>1, <2>2 DEF CiSameMedia, CiAnswerMedia
<1>5. QED
  BY <1>1, <1>2, <1>3, <1>4 DEF CiRowMedia

\* One row, all in all.
CiRowDone(st, r, b, ts) ==
    /\ CiCurrent(b, ts) /\ CiRowMedia(st, r, b)
    /\ CiRowTimes(st, r, b, ts) /\ CiRowState(st, r, b)

LEMMA CiRowIsDone ==
    ASSUME NEW ts \in Nat \ {0}, NEW st, CiTimely(st, ts), NEW r \in CiRowT,
           NEW b, b = computeSIPCallLeg(st, r, ts)
    PROVE  CiRowDone(st, r, b, ts)
<1>1. PICK a \in CiLegT : CiSameMedia(st, a) /\ CiSameMedia(observeSDP(a, r), b)
  BY CiRowSeen
<1>2. CiRowMedia(a, r, observeSDP(a, r))
  BY CiObservedMedia
<1>3. CiRowMedia(st, r, b)
  BY <1>1, <1>2, CiMediaThrough
<1>4. QED
  BY <1>3, CiRowSeen DEF CiRowDone

LEMMA CiTypes ==
    ASSUME CiTypeInv
    PROVE  /\ ciNow \in Nat \ {0} /\ ciNow \in Nat /\ ciSeq \in Nat /\ ciSdp \in CiSdps
           /\ \A ok \in ciOks : ok.n \in Nat /\ ok.sdp \in CiSdps /\ ok.ack \in CiSdps
           /\ ciTruth.invite \in Nat /\ ciTruth.connect \in Nat /\ ciTruth.bye \in Nat
           /\ ciTruth.agreed \in CiSdps /\ ciTruth.refused \in BOOLEAN /\ ciTruth.shared \in BOOLEAN
           /\ Len(ciBatch) \in Nat /\ \A i \in 1..Len(ciBatch) : ciBatch[i] \in CiRowT
           /\ ciBatch = << >> <=> Len(ciBatch) = 0
<1>1. /\ ciNow \in Nat \ {0} /\ ciSeq \in Nat /\ ciSdp \in CiSdps /\ ciBatch \in Seq(CiRowT)
      /\ ciOks \in SUBSET CiOkT /\ ciTruth \in CiTruthT
  BY DEF CiTypeInv
<1>2. \A ok \in ciOks : ok.n \in Nat /\ ok.sdp \in CiSdps /\ ok.ack \in CiSdps
  BY <1>1 DEF CiOkT
<1>3. /\ ciTruth.invite \in Nat /\ ciTruth.connect \in Nat /\ ciTruth.bye \in Nat
      /\ ciTruth.agreed \in CiSdps /\ ciTruth.refused \in BOOLEAN /\ ciTruth.shared \in BOOLEAN
  BY <1>1 DEF CiTruthT
<1>4. Len(ciBatch) \in Nat /\ (\A i \in 1..Len(ciBatch) : ciBatch[i] \in CiRowT)
      /\ (ciBatch = << >> <=> Len(ciBatch) = 0)
  BY <1>1, EmptySeq
<1>5. QED
  BY <1>1, <1>2, <1>3, <1>4

\* Rows and what is said of them.
LEMMA CiRows ==
    ASSUME NEW code \in Nat, NEW method \in CiMethods, NEW n \in Nat, NEW sdp \in CiSdps
    PROVE  /\ CiAnswer(code, method, n, sdp) \in CiRowT /\ CiRequest(method, n, sdp) \in CiRowT
           /\ CiAnswer(code, method, n, sdp).code = code /\ CiRequest(method, n, sdp).code = 0
           /\ CiAnswer(code, method, n, sdp).method = method /\ CiRequest(method, n, sdp).method = method
           /\ CiAnswer(code, method, n, sdp).n = n /\ CiRequest(method, n, sdp).n = n
           /\ CiAnswer(code, method, n, sdp).sdp = sdp /\ CiRequest(method, n, sdp).sdp = sdp
  BY DEF CiAnswer, CiRequest, CiRowT

\* What becomes of the leg, of which the row is the only one of its millisecond.
CiLegGoesOn(r) ==
    \A b : CiRowDone(ciLeg, r, b, ciNow) => CiMedia(b)' /\ CiTimes(b)' /\ CiState(b)'

\* Everything else of a message.
CiGoesOn(r, phase, truth) ==
    /\ ciBatch' # << >> /\ ciNow' = ciNow /\ ciLeg' = ciLeg /\ ciPhase' = phase
    /\ ciTruth'.invite = truth.invite /\ ciTruth'.connect = truth.connect /\ ciTruth'.bye = truth.bye
    /\ ciTruth'.agreed = truth.agreed /\ ciTruth'.refused = truth.refused
    /\ ciTruth'.outcome = truth.outcome
    /\ ciTruth' \in CiTruthT
    /\ ciTruth'.shared \/ (ciBatch = << >> /\ Len(ciBatch') = 1 /\ ~truth.shared)

LEMMA CiSaid ==
    ASSUME CiTypeInv, NEW r \in CiRowT, NEW phase, NEW truth \in CiTruthT, CiSays(r, phase, truth)
    PROVE  /\ CiGoesOn(r, phase, truth)
           /\ ciBatch' \in Seq(CiRowT) /\ ciCount' \in Nat
           /\ ~ciTruth'.shared => ciBatch'[1] = r
<1>1. ciBatch \in Seq(CiRowT) /\ ciCount \in Nat
  BY DEF CiTypeInv
<1>2. /\ ciBatch' = Append(ciBatch, r) /\ ciCount' = ciCount + 1
      /\ ciNow' = ciNow /\ ciLeg' = ciLeg /\ ciPhase' = phase
      /\ ciTruth' = [truth EXCEPT !.shared = @ \/ ciBatch # << >>]
  BY DEF CiSays, CiEmit
<1>3. ciBatch' \in Seq(CiRowT) /\ ciBatch' # << >> /\ Len(ciBatch') = Len(ciBatch) + 1
      /\ ciBatch'[Len(ciBatch) + 1] = r
  BY <1>1, <1>2
<1>4. /\ ciTruth'.invite = truth.invite /\ ciTruth'.connect = truth.connect /\ ciTruth'.bye = truth.bye
      /\ ciTruth'.agreed = truth.agreed /\ ciTruth'.refused = truth.refused
      /\ ciTruth'.outcome = truth.outcome
      /\ ciTruth' \in CiTruthT
  BY <1>2 DEF CiTruthT
<1>5. CASE ciBatch = << >>
  <2>1. Len(ciBatch) = 0
    BY <1>5
  <2>2. ciTruth'.shared = truth.shared /\ truth.shared \in BOOLEAN
    BY <1>2, <1>5 DEF CiTruthT
  <2>3. ciTruth'.shared \/ ~truth.shared
    BY <2>2
  <2>4. QED
    BY <1>1, <1>2, <1>3, <1>4, <1>5, <2>1, <2>3 DEF CiGoesOn
<1>6. CASE ciBatch # << >>
  <2>1. ciTruth'.shared = TRUE
    BY <1>2, <1>6 DEF CiTruthT
  <2>2. QED
    BY <1>1, <1>2, <1>3, <1>4, <2>1 DEF CiGoesOn
<1>7. QED
  BY <1>5, <1>6

LEMMA CiTold ==
    ASSUME CiInv, NEW r \in CiRowT, NEW phase \in CiPhases, NEW truth \in CiTruthT,
           CiSays(r, phase, truth), truth.shared = ciTruth.shared,
           ciSeq' \in Nat, ciSdp' \in CiSdps, ciOks' \in SUBSET CiOkT,
           CiGoesOn(r, phase, truth) => CiCallInv',
           CiGoesOn(r, phase, truth) /\ ciBatch = << >> /\ CiMedia(ciLeg) /\ CiTimes(ciLeg) /\ CiState(ciLeg)
              => CiLegGoesOn(r)
    PROVE  CiInv'
<1>1. /\ CiTypeInv /\ CiCallInv /\ ciLeg \in CiLegT /\ CiTimely(ciLeg, ciNow)
      /\ ~ciTruth.shared => CiLegInv(CiSeen)
  BY DEF CiInv, CiInOrder
<1>2. /\ CiGoesOn(r, phase, truth) /\ ciBatch' \in Seq(CiRowT) /\ ciCount' \in Nat
      /\ ~ciTruth'.shared => ciBatch'[1] = r
  BY <1>1, CiSaid
<1>3. CiTypeInv'
  BY <1>1, <1>2 DEF CiTypeInv, CiGoesOn
<1>4. CiCallInv'
  BY <1>2
<1>5. ciLeg' \in CiLegT /\ CiTimely(ciLeg, ciNow)'
  BY <1>1, <1>2 DEF CiGoesOn, CiTimely
<1>6. ASSUME ~ciTruth'.shared PROVE CiLegInv(CiSeen)'
  <2>1. ciBatch = << >> /\ ~ciTruth.shared /\ ciBatch' # << >> /\ ciLeg' = ciLeg /\ ciNow' = ciNow
        /\ ciBatch'[1] = r
    BY <1>2, <1>6 DEF CiGoesOn
  <2>2. CiMedia(ciLeg) /\ CiTimes(ciLeg) /\ CiState(ciLeg)
    <3>1. CiSeen = ciLeg
      BY <2>1 DEF CiSeen
    <3>2. QED
      BY <1>1, <2>1, <3>1 DEF CiLegInv
  <2>3. CiLegGoesOn(r)
    BY <1>2, <2>1, <2>2
  <2>4. PICK b : b = computeSIPCallLeg(ciLeg, r, ciNow)
    OBVIOUS
  <2>5. CiSeen' = b
    BY <2>1, <2>4 DEF CiSeen
  <2>6. CiRowDone(ciLeg, r, b, ciNow)
    BY <1>1, <2>4, CiTypes, CiRowIsDone
  <2>7. CiMedia(b)' /\ CiTimes(b)' /\ CiState(b)'
    BY <2>3, <2>6 DEF CiLegGoesOn
  <2>8. QED
    BY <2>5, <2>7 DEF CiLegInv, CiMedia, CiTimes, CiState
<1>7. CiAlone'
  <2>1. ciTruth'.shared \/ Len(ciBatch') = 1
    BY <1>2 DEF CiGoesOn
  <2>2. CASE ciTruth'.shared
    BY <2>2 DEF CiAlone
  <2>3. CASE Len(ciBatch') = 1
    <3>1. Len(ciBatch') <= 1
      BY <2>3
    <3>2. QED
      BY <3>1 DEF CiAlone
  <2>4. QED
    BY <2>1, <2>2, <2>3
<1>8. QED
  BY <1>3, <1>4, <1>5, <1>6, <1>7 DEF CiInv, CiInOrder

LEMMA CiComputes ==
    ASSUME CiInv, CiCompute
    PROVE  CiInv'
<1>1. /\ CiTypeInv /\ CiCallInv /\ CiAlone /\ ciLeg \in CiLegT /\ CiTimely(ciLeg, ciNow)
      /\ ~ciTruth.shared => CiLegInv(CiSeen)
  BY DEF CiInv, CiInOrder
<1>2. PICK o \in CiOrders : ciLeg' = CiLegs(o)[Len(ciBatch)]
  BY DEF CiCompute
<1>3. /\ ciBatch # << >> /\ ciBatch' = << >> /\ ciNow' = ciNow + 1
      /\ UNCHANGED <<ciPhase, ciSeq, ciSdp, ciOks, ciCount, ciTruth>>
  BY DEF CiCompute
<1>4. /\ ciNow \in Nat \ {0} /\ ciNow' \in Nat \ {0} /\ Len(ciBatch) \in Nat /\ Len(ciBatch) # 0
      /\ ciTruth.invite \in Nat /\ ciTruth.connect \in Nat /\ ciTruth.bye \in Nat
  BY <1>1, <1>3, CiTypes
<1>5. CiTypeInv'
  <2>1. << >> \in Seq(CiRowT)
    OBVIOUS
  <2>2. QED
    BY <1>1, <1>3, <1>4, <2>1 DEF CiTypeInv
<1>6. CiCallInv'
  BY <1>1, <1>3, <1>4 DEF CiCallInv, CiUp
<1>7. ciLeg' \in CiLegT /\ CiTimely(ciLeg, ciNow)'
  <2>1. CiTimely(ciLeg', ciNow)
    BY <1>1, <1>2, CiLegsTimely
  <2>2. ciLeg'.last <= ciNow + 1
    <3>1. ciLeg' \in CiLegT /\ ciLeg'.last <= ciNow
      BY <2>1 DEF CiTimely
    <3>2. ciLeg'.last \in Nat
      BY <3>1 DEF CiLegT
    <3>3. QED
      BY <1>4, <3>1, <3>2
  <2>3. QED
    BY <1>3, <2>1, <2>2 DEF CiTimely
<1>8. ASSUME ~ciTruth'.shared PROVE CiLegInv(CiSeen)'
  <2>0. ~ciTruth.shared
    BY <1>3, <1>8
  <2>1. ~ciTruth.shared /\ Len(ciBatch) = 1
    <3>1. Len(ciBatch) <= 1
      BY <1>1, <2>0 DEF CiAlone
    <3> DEFINE n == Len(ciBatch)
    <3>4. n \in Nat /\ n # 0 /\ n <= 1
      BY <1>4, <3>1
    <3> HIDE DEF n
    <3>5. n = 1
      BY <3>4
    <3>2. Len(ciBatch) = 1
      BY <3>5 DEF n
    <3>3. QED
      BY <2>0, <3>2
  <2>2. o[1] = 1
    BY <2>1 DEF CiOrders
  <2>3. CiLegsTo(o, 1, CiLegs(o))
    BY <1>4, <2>1, CiLegsSolve
  <2>4. CiLegs(o)[0] = ciLeg /\ CiLegs(o)[1] = CiNextLeg(o, CiLegs(o)[0], 1)
    <3> DEFINE f == CiLegs(o)
    <3>1. CiLegsTo(o, 1, f)
      BY <2>3
    <3> HIDE DEF f
    <3>2. f[0] = ciLeg /\ f[1] = CiNextLeg(o, f[0], 1)
      BY <3>1 DEF CiLegsTo
    <3>3. QED
      BY <3>2 DEF f
  <2>5. ciLeg' = computeSIPCallLeg(ciLeg, ciBatch[1], ciNow)
    BY <1>2, <2>1, <2>2, <2>4 DEF CiNextLeg
  <2>6. CiSeen' = CiSeen
    BY <1>3, <2>5 DEF CiSeen
  <2>7. PICK b : b = CiSeen
    OBVIOUS
  <2>8. CiMedia(b) /\ CiTimes(b) /\ CiState(b)
    BY <1>1, <2>1, <2>7 DEF CiLegInv
  <2>9. CiMedia(b)' /\ CiState(b)'
    BY <1>3, <2>8 DEF CiMedia, CiState, CiUp, CiKey, CiOksAnswered
  <2>10. CiTimes(b)'
    <3>1. CiCurrent(b, ciNow)
      <4>1. ciBatch[1] \in CiRowT
        BY <1>1, <2>1, CiTypes
      <4>2. QED
        BY <1>1, <1>3, <1>4, <2>7, <4>1, CiRowSeen DEF CiSeen
    <3>2. b.ringing \in Nat /\ b.RingingTime \in Nat
      BY <3>1 DEF CiCurrent, CiTimely, CiLegT
    <3>3. QED
      BY <1>3, <1>4, <2>8, <3>2 DEF CiTimes, CiUp
  <2>11. QED
    BY <2>6, <2>7, <2>9, <2>10 DEF CiLegInv, CiMedia, CiTimes, CiState
<1>9. CiAlone'
  BY <1>3 DEF CiAlone
<1>10. QED
  BY <1>5, <1>6, <1>7, <1>8, <1>9 DEF CiInv, CiInOrder

-----------------------------------------------------------------------------
(* What the messages do to the times. *)

\* The first INVITE, the first 200 and the BYE apart, a message leaves the times alone but
\* for the ringing, which it may begin before the call is up.
LEMMA CiTimesKept ==
    ASSUME CiTypeInv, CiCallInv, ciLeg \in CiLegT, CiTimes(ciLeg), NEW r, NEW b, b \in CiLegT,
           CiRowTimes(ciLeg, r, b, ciNow),
           ciBatch = << >>, ciBatch' # << >>, ciNow' = ciNow,
           ciTruth'.invite = ciTruth.invite, ciTruth'.connect = ciTruth.connect,
           ciTruth'.bye = ciTruth.bye,
           ~CiAsks(r, "INVITE", ciLeg.invite), ~CiAsks(r, "BYE", ciLeg.bye), ~CiConnects(ciLeg, r),
           CiStarts(ciLeg, r) => ~CiUp /\ ciTruth.invite # 0
    PROVE  CiTimes(b)'
<1>1. /\ ciNow \in Nat /\ ciTruth.invite \in Nat /\ ciTruth.connect \in Nat /\ ciTruth.bye \in Nat
      /\ ciLeg.ringing \in Nat /\ ciLeg.RingingTime \in Nat
      /\ ciTruth.invite <= ciNow
  BY CiTypes DEF CiLegT, CiCallInv
<1>2. /\ b.invite = ciLeg.invite /\ b.connect = ciLeg.connect /\ b.bye = ciLeg.bye
      /\ b.Duration = ciLeg.Duration
      /\ b.ringing = IF CiStarts(ciLeg, r) THEN ciNow ELSE ciLeg.ringing
      /\ b.RingingTime = ciLeg.RingingTime \/ b.RingingTime = CiRung(ciLeg, ciNow)
  BY DEF CiRowTimes
<1>3. /\ CiRung(ciLeg, ciNow) = ciLeg.RingingTime
         \/ (ciLeg.ringing # 0 /\ ciLeg.RingingTime = 0 /\ CiRung(ciLeg, ciNow) = ciNow - ciLeg.ringing)
  BY DEF CiRung, CiRings
<1>4. CiUp' <=> CiUp
  BY DEF CiUp
<1>5. CASE CiUp
  BY <1>1, <1>2, <1>3, <1>4, <1>5 DEF CiTimes
<1>6. CASE ~CiUp
  BY <1>1, <1>2, <1>3, <1>4, <1>6 DEF CiTimes
<1>7. QED
  BY <1>5, <1>6

\* A message without an SDP that counts, and with no exchange under way after it.
LEMMA CiMediaKept ==
    ASSUME CiMedia(ciLeg), NEW b, CiSameMedia(ciLeg, b), ciOks' = ciOks,
           ciTruth'.agreed = ciTruth.agreed, ciTruth'.connect = ciTruth.connect,
           \/ /\ ciSeq' = ciSeq /\ ciSdp' = ciSdp
              /\ \/ ciPhase' = ciPhase
                 \/ ciPhase' = "cancelling" /\ ciPhase = "calling"
           \/ ciPhase' \in {"idle", "up", "ending", "over"} /\ ciPhase # "answered"
    PROVE  CiMedia(b)'
<1>1. CiUp' <=> CiUp
  BY DEF CiUp
<1>2. CASE ciSeq' = ciSeq /\ ciSdp' = ciSdp /\ ciPhase' = ciPhase
  BY <1>1, <1>2 DEF CiMedia, CiSameMedia, CiKey, CiOksAnswered
<1>3. CASE ciSeq' = ciSeq /\ ciSdp' = ciSdp /\ ciPhase' = "cancelling" /\ ciPhase = "calling"
  BY <1>1, <1>3 DEF CiMedia, CiSameMedia, CiKey, CiOksAnswered
<1>4. CASE ciPhase' \in {"idle", "up", "ending", "over"} /\ ciPhase # "answered"
  BY <1>1, <1>4 DEF CiMedia, CiSameMedia, CiKey, CiOksAnswered
<1>5. QED
  BY <1>2, <1>3, <1>4

\* A message that tells nothing of the state.
LEMMA CiStateKept ==
    ASSUME CiState(ciLeg), NEW r, NEW b, CiRowTimes(ciLeg, r, b, ciNow), CiRowState(ciLeg, r, b),
           ~CiTells(ciLeg, r),
           ciTruth'.connect = ciTruth.connect, ciTruth'.refused = ciTruth.refused,
           ciTruth'.outcome = ciTruth.outcome,
           \/ ciPhase' = ciPhase
           \/ ciPhase' \notin {"idle", "calling", "cancelling"}
           \/ ciPhase' = "calling" /\ (CiUp \/ ciPhase = "idle")
    PROVE  CiState(b)'
<1>1. b.cancel = ciLeg.cancel /\ b.FSSD = ciLeg.FSSD /\ b.Status = ciLeg.Status
  BY DEF CiRowTimes, CiRowState, CiTells
<1>2. CiUp' <=> CiUp
  BY DEF CiUp
<1>3. QED
  BY <1>1, <1>2 DEF CiState

CiParts ==
    CiTypeInv /\ CiCallInv /\ ciLeg \in CiLegT

LEMMA CiPartsOf == CiInv => CiParts
  BY DEF CiInv, CiParts

\* A message of which the truth says nothing new.
LEMMA CiProvisionals ==
    ASSUME CiInv, NEW code \in {100, 180, 183}, CiProvisional(code)
    PROVE  CiInv'
<1> DEFINE say == CiAnswer(code, "INVITE", ciSeq, CiNone)
<1>1. CiTypeInv /\ CiCallInv /\ ciLeg \in CiLegT
  BY CiPartsOf DEF CiParts
<1>2. PICK r : r = say
  OBVIOUS
<1>3. r \in CiRowT /\ r.code = code /\ r.method = "INVITE"
  <2>1. code \in Nat /\ "INVITE" \in CiMethods /\ CiNone \in CiSdps /\ ciSeq \in Nat
    BY <1>1, CiTypes DEF CiMethods, CiSdps
  <2>2. QED
    BY <1>2, <2>1, CiRows
<1>4. /\ ciPhase = "calling" /\ (CiUp => code = 100) /\ CiSays(r, ciPhase, ciTruth)
      /\ UNCHANGED <<ciSeq, ciSdp, ciOks>>
  BY <1>2 DEF CiProvisional
<1>5. ASSUME CiGoesOn(r, ciPhase, ciTruth) PROVE CiCallInv'
  BY <1>1, <1>4, <1>5, CiTypes DEF CiCallInv, CiGoesOn, CiUp
<1>6. ASSUME CiGoesOn(r, ciPhase, ciTruth), ciBatch = << >>,
             CiMedia(ciLeg), CiTimes(ciLeg), CiState(ciLeg),
             NEW b, CiRowDone(ciLeg, r, b, ciNow)
      PROVE  CiMedia(b)' /\ CiTimes(b)' /\ CiState(b)'
  <2>1. /\ b \in CiLegT /\ CiRowMedia(ciLeg, r, b) /\ CiRowTimes(ciLeg, r, b, ciNow)
        /\ CiRowState(ciLeg, r, b)
    BY <1>6 DEF CiRowDone, CiCurrent, CiTimely
  <2>2. /\ ~CiAsks(r, "INVITE", ciLeg.invite) /\ ~CiAsks(r, "BYE", ciLeg.bye)
        /\ ~CiAsks(r, "CANCEL", ciLeg.cancel) /\ ~CiConnects(ciLeg, r)
        /\ ~CiFails(ciLeg, r) /\ ~CiRedirects(r) /\ ~CiChallenged(r) /\ ~CiByeDone(r)
    BY <1>3 DEF CiAsks, CiConnects, CiFails, CiRedirects, CiChallenged, CiByeDone
  <2>3. CiStarts(ciLeg, r) => ~CiUp /\ ciTruth.invite # 0
    BY <1>1, <1>3, <1>4 DEF CiStarts, CiCallInv
  <2>4. CiMedia(b)'
    <3>1. CiSameMedia(ciLeg, b)
      BY <1>3, <2>1 DEF CiRowMedia
    <3>2. QED
      BY <1>4, <1>6, <3>1, CiMediaKept DEF CiGoesOn
  <2>5. CiTimes(b)'
    BY <1>1, <1>6, <2>1, <2>2, <2>3, CiTimesKept DEF CiGoesOn
  <2>6. CiState(b)'
    <3>1. CASE CiStarts(ciLeg, r)
      <4>1. b.Status \in {3, 4} /\ b.cancel = ciLeg.cancel /\ b.FSSD = ciLeg.FSSD
        BY <2>1, <2>2, <3>1 DEF CiRowState, CiRowTimes
      <4>2. ~CiUp /\ ~CiUp' /\ ciPhase' = "calling" /\ ciTruth'.outcome = "none"
        BY <1>1, <1>4, <1>6, <2>3, <3>1 DEF CiGoesOn, CiUp, CiCallInv
      <4>3. QED
        BY <1>4, <1>6, <4>1, <4>2 DEF CiState
    <3>2. CASE ~CiStarts(ciLeg, r)
      <4>1. ~CiTells(ciLeg, r)
        BY <2>2, <3>2 DEF CiTells
      <4>2. QED
        BY <1>4, <1>6, <2>1, <4>1, CiStateKept DEF CiGoesOn
    <3>3. QED
      BY <3>1, <3>2
  <2>7. QED
    BY <2>4, <2>5, <2>6
<1>7. QED
  <2>1. ciPhase \in CiPhases /\ ciTruth \in CiTruthT /\ ciSeq' \in Nat /\ ciSdp' \in CiSdps
        /\ ciOks' \in SUBSET CiOkT
    BY <1>1, <1>4 DEF CiTypeInv
  <2>2. CiGoesOn(r, ciPhase, ciTruth) /\ ciBatch = << >> /\ CiMedia(ciLeg) /\ CiTimes(ciLeg) /\ CiState(ciLeg)
           => CiLegGoesOn(r)
    BY <1>6 DEF CiLegGoesOn
  <2>3. QED
    BY <1>3, <1>4, <1>5, <2>1, <2>2, CiTold

\* The messages of the call, one by one.
LEMMA CiChallenges ==
    ASSUME CiInv, NEW code \in {401, 407}, CiChallenge(code)
    PROVE  CiInv'
<1>1. CiTypeInv /\ CiCallInv /\ ciLeg \in CiLegT
  BY CiPartsOf DEF CiParts
<1>2. PICK r : r = CiAnswer(code, "INVITE", ciSeq, CiNone)
  OBVIOUS
<1>3. r \in CiRowT /\ r.code = code /\ r.method = "INVITE" /\ r.n = ciSeq /\ r.sdp = CiNone
  <2>1. code \in Nat /\ "INVITE" \in CiMethods /\ CiNone \in CiSdps /\ ciSeq \in Nat
    BY <1>1, CiTypes DEF CiMethods, CiSdps
  <2>2. QED
    BY <1>2, <2>1, CiRows
<1>4. /\ CiSays(r, "idle", ciTruth)
      /\ ciPhase = "calling" /\ ~CiUp /\ UNCHANGED <<ciSeq, ciSdp, ciOks>>
  BY <1>2 DEF CiChallenge
<1>5. ASSUME CiGoesOn(r, "idle", ciTruth) PROVE CiCallInv'
  BY <1>1, <1>4, <1>5, CiTypes DEF CiCallInv, CiGoesOn, CiUp
<1>6. ASSUME CiGoesOn(r, "idle", ciTruth), ciBatch = << >>,
             CiMedia(ciLeg), CiTimes(ciLeg), CiState(ciLeg),
             NEW b, CiRowDone(ciLeg, r, b, ciNow)
      PROVE  CiMedia(b)' /\ CiTimes(b)' /\ CiState(b)'
  <2>1. /\ b \in CiLegT /\ CiRowMedia(ciLeg, r, b) /\ CiRowTimes(ciLeg, r, b, ciNow)
        /\ CiRowState(ciLeg, r, b)
    BY <1>6 DEF CiRowDone, CiCurrent, CiTimely
  <2>2. /\ ~CiAsks(r, "INVITE", ciLeg.invite) /\ ~CiAsks(r, "BYE", ciLeg.bye) /\ ~CiAsks(r, "CANCEL", ciLeg.cancel)
        /\ ~CiConnects(ciLeg, r) /\ ~CiStarts(ciLeg, r) /\ ~CiFails(ciLeg, r)
        /\ ~CiRedirects(r) /\ ~CiByeDone(r)
    BY <1>3 DEF CiAsks, CiConnects, CiStarts, CiFails, CiRedirects, CiChallenged, CiByeDone
  <2>4. CiMedia(b)'
    <3>1. CiSameMedia(ciLeg, b)
      BY <1>3, <2>1 DEF CiRowMedia
    <3>2. QED
      BY <1>4, <1>6, <3>1, CiMediaKept DEF CiGoesOn
  <2>5. CiTimes(b)'
    BY <1>1, <1>4, <1>6, <2>1, <2>2, CiTimesKept DEF CiGoesOn
  <2>6. CiState(b)'
    <3>1. b.Status = 2 /\ b.cancel = ciLeg.cancel /\ b.FSSD = ciLeg.FSSD
      BY <1>3, <2>1, <2>2 DEF CiRowState, CiRowTimes, CiChallenged
    <3>2. ~CiUp' /\ ciPhase' = "idle" /\ ciTruth'.outcome = "none"
      BY <1>1, <1>4, <1>6 DEF CiGoesOn, CiUp, CiCallInv
    <3>3. QED
      BY <1>4, <1>6, <3>1, <3>2 DEF CiState
  <2>7. QED
    BY <2>4, <2>5, <2>6
<1>7. QED
  <2>1. "idle" \in CiPhases /\ ciTruth \in CiTruthT /\ ciTruth.shared = ciTruth.shared
        /\ ciSeq' \in Nat /\ ciSdp' \in CiSdps /\ ciOks' \in SUBSET CiOkT
    BY <1>1, <1>4, CiTypes DEF CiTypeInv, CiPhases, CiSdps
  <2>2. CiGoesOn(r, "idle", ciTruth) /\ ciBatch = << >> /\ CiMedia(ciLeg) /\ CiTimes(ciLeg) /\ CiState(ciLeg)
           => CiLegGoesOn(r)
    BY <1>6 DEF CiLegGoesOn
  <2>3. QED
    BY <1>3, <1>4, <1>5, <2>1, <2>2, CiTold

LEMMA CiAcceptsAgain ==
    ASSUME CiInv, NEW ok \in ciOks, CiAcceptAgain(ok)
    PROVE  CiInv'
<1>1. CiTypeInv /\ CiCallInv /\ ciLeg \in CiLegT
  BY CiPartsOf DEF CiParts
<1>2. PICK r : r = CiAnswer(200, "INVITE", ok.n, ok.sdp)
  OBVIOUS
<1>3. r \in CiRowT /\ r.code = 200 /\ r.method = "INVITE" /\ r.n = ok.n /\ r.sdp = ok.sdp
  <2>1. 200 \in Nat /\ "INVITE" \in CiMethods /\ ok.sdp \in CiSdps /\ ok.n \in Nat
    BY <1>1, CiTypes DEF CiMethods, CiSdps
  <2>2. QED
    BY <1>2, <2>1, CiRows
<1>4. /\ CiSays(r, ciPhase, ciTruth)
      /\ ciPhase \in {"calling", "answered", "up", "updating", "ending"} /\ UNCHANGED <<ciSeq, ciSdp, ciOks>>
  BY <1>2 DEF CiAcceptAgain
<1>5. ASSUME CiGoesOn(r, ciPhase, ciTruth) PROVE CiCallInv'
  BY <1>1, <1>4, <1>5, CiTypes DEF CiCallInv, CiGoesOn, CiUp
<1>6. ASSUME CiGoesOn(r, ciPhase, ciTruth), ciBatch = << >>,
             CiMedia(ciLeg), CiTimes(ciLeg), CiState(ciLeg),
             NEW b, CiRowDone(ciLeg, r, b, ciNow)
      PROVE  CiMedia(b)' /\ CiTimes(b)' /\ CiState(b)'
  <2>1. /\ b \in CiLegT /\ CiRowMedia(ciLeg, r, b) /\ CiRowTimes(ciLeg, r, b, ciNow)
        /\ CiRowState(ciLeg, r, b)
    BY <1>6 DEF CiRowDone, CiCurrent, CiTimely
  <2>0. CiUp /\ ciLeg.connect # 0
    BY <1>1, <1>4, <1>6 DEF CiCallInv, CiTimes, CiUp
  <2>2. /\ ~CiAsks(r, "INVITE", ciLeg.invite) /\ ~CiAsks(r, "BYE", ciLeg.bye) /\ ~CiAsks(r, "CANCEL", ciLeg.cancel)
        /\ ~CiConnects(ciLeg, r) /\ ~CiStarts(ciLeg, r) /\ ~CiFails(ciLeg, r)
        /\ ~CiRedirects(r) /\ ~CiChallenged(r) /\ ~CiByeDone(r)
    BY <1>3, <2>0 DEF CiAsks, CiConnects, CiStarts, CiFails, CiRedirects, CiChallenged, CiByeDone
  <2>4. CiMedia(b)'
    <3>1. CiTxn(r) \in ciLeg.sdpAnsweredTxn
      BY <1>3, <1>6 DEF CiTxn, CiMedia, CiOksAnswered
    <3>2. CiSameMedia(ciLeg, b)
      BY <1>3, <2>1, <3>1 DEF CiRowMedia, CiAnswerMedia
    <3>3. QED
      BY <1>4, <1>6, <3>2, CiMediaKept DEF CiGoesOn
  <2>5. CiTimes(b)'
    BY <1>1, <1>4, <1>6, <2>1, <2>2, CiTimesKept DEF CiGoesOn
  <2>6. CiState(b)'
    <3>1. ~CiTells(ciLeg, r)
      BY <2>2 DEF CiTells
    <3>2. QED
      BY <1>1, <1>4, <1>6, <2>1, <3>1, CiStateKept DEF CiGoesOn, CiCallInv
  <2>7. QED
    BY <2>4, <2>5, <2>6
<1>7. QED
  <2>1. ciPhase \in CiPhases /\ ciTruth \in CiTruthT /\ ciTruth.shared = ciTruth.shared
        /\ ciSeq' \in Nat /\ ciSdp' \in CiSdps /\ ciOks' \in SUBSET CiOkT
    BY <1>1, <1>4, CiTypes DEF CiTypeInv, CiPhases, CiSdps
  <2>2. CiGoesOn(r, ciPhase, ciTruth) /\ ciBatch = << >> /\ CiMedia(ciLeg) /\ CiTimes(ciLeg) /\ CiState(ciLeg)
           => CiLegGoesOn(r)
    BY <1>6 DEF CiLegGoesOn
  <2>3. QED
    BY <1>3, <1>4, <1>5, <2>1, <2>2, CiTold

LEMMA CiAcksAgain ==
    ASSUME CiInv, NEW ok \in ciOks, CiAckAgain(ok)
    PROVE  CiInv'
<1>1. CiTypeInv /\ CiCallInv /\ ciLeg \in CiLegT
  BY CiPartsOf DEF CiParts
<1>2. PICK r : r = CiRequest("ACK", ok.n, ok.ack)
  OBVIOUS
<1>3. r \in CiRowT /\ r.code = 0 /\ r.method = "ACK" /\ r.n = ok.n /\ r.sdp = ok.ack
  <2>1. 0 \in Nat /\ "ACK" \in CiMethods /\ ok.ack \in CiSdps /\ ok.n \in Nat
    BY <1>1, CiTypes DEF CiMethods, CiSdps
  <2>2. QED
    BY <1>2, <2>1, CiRows
<1>4. /\ CiSays(r, ciPhase, ciTruth)
      /\ ciPhase \in {"calling", "answered", "up", "updating", "ending"}
      /\ ciPhase = "answered" => ok.n # ciSeq
      /\ UNCHANGED <<ciSeq, ciSdp, ciOks>>
  BY <1>2 DEF CiAckAgain
<1>5. ASSUME CiGoesOn(r, ciPhase, ciTruth) PROVE CiCallInv'
  BY <1>1, <1>4, <1>5, CiTypes DEF CiCallInv, CiGoesOn, CiUp
<1>6. ASSUME CiGoesOn(r, ciPhase, ciTruth), ciBatch = << >>,
             CiMedia(ciLeg), CiTimes(ciLeg), CiState(ciLeg),
             NEW b, CiRowDone(ciLeg, r, b, ciNow)
      PROVE  CiMedia(b)' /\ CiTimes(b)' /\ CiState(b)'
  <2>1. /\ b \in CiLegT /\ CiRowMedia(ciLeg, r, b) /\ CiRowTimes(ciLeg, r, b, ciNow)
        /\ CiRowState(ciLeg, r, b)
    BY <1>6 DEF CiRowDone, CiCurrent, CiTimely
  <2>2. /\ ~CiAsks(r, "INVITE", ciLeg.invite) /\ ~CiAsks(r, "BYE", ciLeg.bye)
        /\ ~CiAsks(r, "CANCEL", ciLeg.cancel) /\ ~CiConnects(ciLeg, r) /\ ~CiStarts(ciLeg, r)
        /\ ~CiFails(ciLeg, r) /\ ~CiRedirects(r) /\ ~CiChallenged(r) /\ ~CiByeDone(r)
    BY <1>3 DEF CiAsks, CiConnects, CiStarts, CiFails, CiRedirects, CiChallenged, CiByeDone
  <2>4. CiMedia(b)'
    <3>1. ~(ciLeg.delayed /\ r.n = ciLeg.delayedSeq)
      BY <1>3, <1>4, <1>6 DEF CiMedia
    <3>2. CiSameMedia(ciLeg, b)
      BY <1>3, <2>1, <3>1 DEF CiRowMedia, CiAckMedia
    <3>3. QED
      BY <1>4, <1>6, <3>2, CiMediaKept DEF CiGoesOn
  <2>5. CiTimes(b)'
    BY <1>1, <1>4, <1>6, <2>1, <2>2, CiTimesKept DEF CiGoesOn
  <2>6. CiState(b)'
    <3>1. ~CiTells(ciLeg, r)
      BY <2>2 DEF CiTells
    <3>2. QED
      BY <1>1, <1>4, <1>6, <2>1, <3>1, CiStateKept DEF CiGoesOn, CiCallInv
  <2>7. QED
    BY <2>4, <2>5, <2>6
<1>7. QED
  <2>1. ciPhase \in CiPhases /\ ciTruth \in CiTruthT /\ ciTruth.shared = ciTruth.shared
        /\ ciSeq' \in Nat /\ ciSdp' \in CiSdps /\ ciOks' \in SUBSET CiOkT
    BY <1>1, <1>4, CiTypes DEF CiTypeInv, CiPhases, CiSdps
  <2>2. CiGoesOn(r, ciPhase, ciTruth) /\ ciBatch = << >> /\ CiMedia(ciLeg) /\ CiTimes(ciLeg) /\ CiState(ciLeg)
           => CiLegGoesOn(r)
    BY <1>6 DEF CiLegGoesOn
  <2>3. QED
    BY <1>3, <1>4, <1>5, <2>1, <2>2, CiTold

LEMMA CiCancels ==
    ASSUME CiInv, CiCancel
    PROVE  CiInv'
<1>1. CiTypeInv /\ CiCallInv /\ ciLeg \in CiLegT
  BY CiPartsOf DEF CiParts
<1>2. PICK r : r = CiRequest("CANCEL", ciSeq, CiNone)
  OBVIOUS
<1>3. r \in CiRowT /\ r.code = 0 /\ r.method = "CANCEL" /\ r.n = ciSeq /\ r.sdp = CiNone
  <2>1. 0 \in Nat /\ "CANCEL" \in CiMethods /\ CiNone \in CiSdps /\ ciSeq \in Nat
    BY <1>1, CiTypes DEF CiMethods, CiSdps
  <2>2. QED
    BY <1>2, <2>1, CiRows
<1>4. /\ CiSays(r, "cancelling", ciTruth)
      /\ ciPhase = "calling" /\ ~CiUp /\ UNCHANGED <<ciSeq, ciSdp, ciOks>>
  BY <1>2 DEF CiCancel
<1>5. ASSUME CiGoesOn(r, "cancelling", ciTruth) PROVE CiCallInv'
  BY <1>1, <1>4, <1>5, CiTypes DEF CiCallInv, CiGoesOn, CiUp
<1>6. ASSUME CiGoesOn(r, "cancelling", ciTruth), ciBatch = << >>,
             CiMedia(ciLeg), CiTimes(ciLeg), CiState(ciLeg),
             NEW b, CiRowDone(ciLeg, r, b, ciNow)
      PROVE  CiMedia(b)' /\ CiTimes(b)' /\ CiState(b)'
  <2>1. /\ b \in CiLegT /\ CiRowMedia(ciLeg, r, b) /\ CiRowTimes(ciLeg, r, b, ciNow)
        /\ CiRowState(ciLeg, r, b)
    BY <1>6 DEF CiRowDone, CiCurrent, CiTimely
  <2>2. /\ ~CiAsks(r, "INVITE", ciLeg.invite) /\ ~CiAsks(r, "BYE", ciLeg.bye) /\ ~CiConnects(ciLeg, r)
        /\ ~CiStarts(ciLeg, r) /\ ~CiFails(ciLeg, r) /\ ~CiRedirects(r)
        /\ ~CiChallenged(r) /\ ~CiByeDone(r)
    BY <1>3 DEF CiAsks, CiConnects, CiStarts, CiFails, CiRedirects, CiChallenged, CiByeDone
  <2>4. CiMedia(b)'
    <3>1. CiSameMedia(ciLeg, b)
      BY <1>3, <2>1 DEF CiRowMedia
    <3>2. QED
      BY <1>4, <1>6, <3>1, CiMediaKept DEF CiGoesOn
  <2>5. CiTimes(b)'
    BY <1>1, <1>4, <1>6, <2>1, <2>2, CiTimesKept DEF CiGoesOn
  <2>6. CiState(b)'
    <3>1. ciLeg.cancel = 0
      BY <1>4, <1>6 DEF CiState
    <3>2. b.Status = 11 /\ b.FSSD = ciLeg.FSSD
      BY <1>3, <2>1, <2>2, <3>1 DEF CiRowState, CiRowTimes, CiAsks
    <3>3. ~CiUp' /\ ciPhase' = "cancelling" /\ ciTruth'.outcome = "none"
      BY <1>1, <1>4, <1>6 DEF CiGoesOn, CiUp, CiCallInv
    <3>4. QED
      BY <1>4, <1>6, <3>2, <3>3 DEF CiState
  <2>7. QED
    BY <2>4, <2>5, <2>6
<1>7. QED
  <2>1. "cancelling" \in CiPhases /\ ciTruth \in CiTruthT /\ ciTruth.shared = ciTruth.shared
        /\ ciSeq' \in Nat /\ ciSdp' \in CiSdps /\ ciOks' \in SUBSET CiOkT
    BY <1>1, <1>4, CiTypes DEF CiTypeInv, CiPhases, CiSdps
  <2>2. CiGoesOn(r, "cancelling", ciTruth) /\ ciBatch = << >> /\ CiMedia(ciLeg) /\ CiTimes(ciLeg) /\ CiState(ciLeg)
           => CiLegGoesOn(r)
    BY <1>6 DEF CiLegGoesOn
  <2>3. QED
    BY <1>3, <1>4, <1>5, <2>1, <2>2, CiTold

LEMMA CiCancelsAnswered ==
    ASSUME CiInv, CiCancelAnswered
    PROVE  CiInv'
<1>1. CiTypeInv /\ CiCallInv /\ ciLeg \in CiLegT
  BY CiPartsOf DEF CiParts
<1>2. PICK r : r = CiAnswer(200, "CANCEL", ciSeq, CiNone)
  OBVIOUS
<1>3. r \in CiRowT /\ r.code = 200 /\ r.method = "CANCEL" /\ r.n = ciSeq /\ r.sdp = CiNone
  <2>1. 200 \in Nat /\ "CANCEL" \in CiMethods /\ CiNone \in CiSdps /\ ciSeq \in Nat
    BY <1>1, CiTypes DEF CiMethods, CiSdps
  <2>2. QED
    BY <1>2, <2>1, CiRows
<1>4. /\ CiSays(r, ciPhase, ciTruth)
      /\ ciPhase = "cancelling" /\ UNCHANGED <<ciSeq, ciSdp, ciOks>>
  BY <1>2 DEF CiCancelAnswered
<1>5. ASSUME CiGoesOn(r, ciPhase, ciTruth) PROVE CiCallInv'
  BY <1>1, <1>4, <1>5, CiTypes DEF CiCallInv, CiGoesOn, CiUp
<1>6. ASSUME CiGoesOn(r, ciPhase, ciTruth), ciBatch = << >>,
             CiMedia(ciLeg), CiTimes(ciLeg), CiState(ciLeg),
             NEW b, CiRowDone(ciLeg, r, b, ciNow)
      PROVE  CiMedia(b)' /\ CiTimes(b)' /\ CiState(b)'
  <2>1. /\ b \in CiLegT /\ CiRowMedia(ciLeg, r, b) /\ CiRowTimes(ciLeg, r, b, ciNow)
        /\ CiRowState(ciLeg, r, b)
    BY <1>6 DEF CiRowDone, CiCurrent, CiTimely
  <2>2. /\ ~CiAsks(r, "INVITE", ciLeg.invite) /\ ~CiAsks(r, "BYE", ciLeg.bye)
        /\ ~CiAsks(r, "CANCEL", ciLeg.cancel) /\ ~CiConnects(ciLeg, r) /\ ~CiStarts(ciLeg, r)
        /\ ~CiFails(ciLeg, r) /\ ~CiRedirects(r) /\ ~CiChallenged(r) /\ ~CiByeDone(r)
    BY <1>3 DEF CiAsks, CiConnects, CiStarts, CiFails, CiRedirects, CiChallenged, CiByeDone
  <2>4. CiMedia(b)'
    <3>1. CiSameMedia(ciLeg, b)
      BY <1>3, <2>1 DEF CiRowMedia
    <3>2. QED
      BY <1>4, <1>6, <3>1, CiMediaKept DEF CiGoesOn
  <2>5. CiTimes(b)'
    BY <1>1, <1>4, <1>6, <2>1, <2>2, CiTimesKept DEF CiGoesOn
  <2>6. CiState(b)'
    <3>1. ~CiTells(ciLeg, r)
      BY <2>2 DEF CiTells
    <3>2. QED
      BY <1>1, <1>4, <1>6, <2>1, <3>1, CiStateKept DEF CiGoesOn, CiCallInv
  <2>7. QED
    BY <2>4, <2>5, <2>6
<1>7. QED
  <2>1. ciPhase \in CiPhases /\ ciTruth \in CiTruthT /\ ciTruth.shared = ciTruth.shared
        /\ ciSeq' \in Nat /\ ciSdp' \in CiSdps /\ ciOks' \in SUBSET CiOkT
    BY <1>1, <1>4, CiTypes DEF CiTypeInv, CiPhases, CiSdps
  <2>2. CiGoesOn(r, ciPhase, ciTruth) /\ ciBatch = << >> /\ CiMedia(ciLeg) /\ CiTimes(ciLeg) /\ CiState(ciLeg)
           => CiLegGoesOn(r)
    BY <1>6 DEF CiLegGoesOn
  <2>3. QED
    BY <1>3, <1>4, <1>5, <2>1, <2>2, CiTold

LEMMA CiCancelsDone ==
    ASSUME CiInv, CiCancelled
    PROVE  CiInv'
<1>1. CiTypeInv /\ CiCallInv /\ ciLeg \in CiLegT
  BY CiPartsOf DEF CiParts
<1>2. PICK r : r = CiAnswer(487, "INVITE", ciSeq, CiNone)
  OBVIOUS
<1>3. r \in CiRowT /\ r.code = 487 /\ r.method = "INVITE" /\ r.n = ciSeq /\ r.sdp = CiNone
  <2>1. 487 \in Nat /\ "INVITE" \in CiMethods /\ CiNone \in CiSdps /\ ciSeq \in Nat
    BY <1>1, CiTypes DEF CiMethods, CiSdps
  <2>2. QED
    BY <1>2, <2>1, CiRows
<1>4. PICK t : t = [ciTruth EXCEPT !.outcome = "cancelled"]
  OBVIOUS
<1>5. t \in CiTruthT /\ t = [ciTruth EXCEPT !.outcome = "cancelled"] /\ t.invite = ciTruth.invite /\ t.connect = ciTruth.connect /\ t.bye = ciTruth.bye
       /\ t.agreed = ciTruth.agreed /\ t.refused = ciTruth.refused /\ t.shared = ciTruth.shared
       /\ t.outcome = "cancelled"
  BY <1>1, <1>4, CiTypes DEF CiTypeInv, CiTruthT
<1>6. /\ CiSays(r, "over", t)
      /\ ciPhase = "cancelling" /\ UNCHANGED <<ciSeq, ciSdp, ciOks>>
  BY <1>2, <1>4 DEF CiCancelled
<1>7. ASSUME CiGoesOn(r, "over", t) PROVE CiCallInv'
  BY <1>1, <1>6, <1>5, <1>7, CiTypes DEF CiCallInv, CiGoesOn, CiUp
<1>8. ASSUME CiGoesOn(r, "over", t), ciBatch = << >>,
             CiMedia(ciLeg), CiTimes(ciLeg), CiState(ciLeg),
             NEW b, CiRowDone(ciLeg, r, b, ciNow)
      PROVE  CiMedia(b)' /\ CiTimes(b)' /\ CiState(b)'
  <2>1. /\ b \in CiLegT /\ CiRowMedia(ciLeg, r, b) /\ CiRowTimes(ciLeg, r, b, ciNow)
        /\ CiRowState(ciLeg, r, b)
    BY <1>8 DEF CiRowDone, CiCurrent, CiTimely
  <2>2. /\ ~CiAsks(r, "INVITE", ciLeg.invite) /\ ~CiAsks(r, "BYE", ciLeg.bye)
        /\ ~CiAsks(r, "CANCEL", ciLeg.cancel) /\ ~CiConnects(ciLeg, r) /\ ~CiStarts(ciLeg, r)
        /\ ~CiFails(ciLeg, r) /\ ~CiRedirects(r) /\ ~CiChallenged(r) /\ ~CiByeDone(r)
    BY <1>3 DEF CiAsks, CiConnects, CiStarts, CiFails, CiRedirects, CiChallenged, CiByeDone
  <2>4. CiMedia(b)'
    <3>1. CiSameMedia(ciLeg, b)
      BY <1>3, <2>1 DEF CiRowMedia
    <3>2. QED
      BY <1>6, <1>5, <1>8, <3>1, CiMediaKept DEF CiGoesOn
  <2>5. CiTimes(b)'
    BY <1>1, <1>6, <1>5, <1>8, <2>1, <2>2, CiTimesKept DEF CiGoesOn
  <2>6. CiState(b)'
    <3>1. ~CiTells(ciLeg, r)
      BY <2>2 DEF CiTells
    <3>2. b.Status = 11
      BY <1>6, <1>5, <1>8, <2>1, <3>1 DEF CiRowState, CiState
    <3>3. ~CiUp' /\ ciPhase' = "over" /\ ciTruth'.outcome = "cancelled"
      BY <1>1, <1>6, <1>5, <1>8 DEF CiGoesOn, CiUp, CiCallInv
    <3>4. QED
      BY <3>2, <3>3 DEF CiState
  <2>7. QED
    BY <2>4, <2>5, <2>6
<1>9. QED
  <2>1. "over" \in CiPhases /\ t \in CiTruthT /\ t.shared = ciTruth.shared
        /\ ciSeq' \in Nat /\ ciSdp' \in CiSdps /\ ciOks' \in SUBSET CiOkT
    BY <1>1, <1>6, <1>5, CiTypes DEF CiTypeInv, CiPhases, CiSdps
  <2>2. CiGoesOn(r, "over", t) /\ ciBatch = << >> /\ CiMedia(ciLeg) /\ CiTimes(ciLeg) /\ CiState(ciLeg)
           => CiLegGoesOn(r)
    BY <1>8 DEF CiLegGoesOn
  <2>3. QED
    BY <1>3, <1>6, <1>7, <2>1, <2>2, CiTold

LEMMA CiByes ==
    ASSUME CiInv, CiBye
    PROVE  CiInv'
<1>1. CiTypeInv /\ CiCallInv /\ ciLeg \in CiLegT
  BY CiPartsOf DEF CiParts
<1>2. PICK r : r = CiRequest("BYE", ciSeq + 1, CiNone)
  OBVIOUS
<1>3. r \in CiRowT /\ r.code = 0 /\ r.method = "BYE" /\ r.n = ciSeq + 1 /\ r.sdp = CiNone
  <2>1. 0 \in Nat /\ "BYE" \in CiMethods /\ CiNone \in CiSdps /\ ciSeq + 1 \in Nat
    BY <1>1, CiTypes DEF CiMethods, CiSdps
  <2>2. QED
    BY <1>2, <2>1, CiRows
<1>4. PICK t : t = [ciTruth EXCEPT !.bye = ciNow, !.outcome = "finished"]
  OBVIOUS
<1>5. t \in CiTruthT /\ t.invite = ciTruth.invite /\ t.connect = ciTruth.connect /\ t.bye = ciNow
       /\ t.agreed = ciTruth.agreed /\ t.refused = ciTruth.refused /\ t.shared = ciTruth.shared
       /\ t.outcome = "finished"
  BY <1>1, <1>4, CiTypes DEF CiTypeInv, CiTruthT
<1>6. /\ CiSays(r, "ending", t)
      /\ ciPhase = "up" /\ ciSeq' = ciSeq + 1 /\ UNCHANGED <<ciSdp, ciOks>>
  BY <1>2, <1>4 DEF CiBye
<1>7. ASSUME CiGoesOn(r, "ending", t) PROVE CiCallInv'
  BY <1>1, <1>6, <1>5, <1>7, CiTypes DEF CiCallInv, CiGoesOn, CiUp
<1>8. ASSUME CiGoesOn(r, "ending", t), ciBatch = << >>,
             CiMedia(ciLeg), CiTimes(ciLeg), CiState(ciLeg),
             NEW b, CiRowDone(ciLeg, r, b, ciNow)
      PROVE  CiMedia(b)' /\ CiTimes(b)' /\ CiState(b)'
  <2>1. /\ b \in CiLegT /\ CiRowMedia(ciLeg, r, b) /\ CiRowTimes(ciLeg, r, b, ciNow)
        /\ CiRowState(ciLeg, r, b)
    BY <1>8 DEF CiRowDone, CiCurrent, CiTimely
  <2>2. /\ ~CiAsks(r, "INVITE", ciLeg.invite) /\ ~CiAsks(r, "CANCEL", ciLeg.cancel) /\ ~CiConnects(ciLeg, r)
        /\ ~CiStarts(ciLeg, r) /\ ~CiFails(ciLeg, r) /\ ~CiRedirects(r)
        /\ ~CiChallenged(r) /\ ~CiByeDone(r)
    BY <1>3 DEF CiAsks, CiConnects, CiStarts, CiFails, CiRedirects, CiChallenged, CiByeDone
  <2>4. CiMedia(b)'
    <3>1. CiSameMedia(ciLeg, b)
      BY <1>3, <2>1 DEF CiRowMedia
    <3>2. QED
      BY <1>6, <1>5, <1>8, <3>1, CiMediaKept DEF CiGoesOn
  <2>5. CiTimes(b)'
    <3>1. /\ ciNow \in Nat /\ ciNow # 0 /\ ciTruth.connect \in Nat /\ ciTruth.invite \in Nat
          /\ ciTruth.bye \in Nat /\ ciLeg.RingingTime \in Nat /\ ciLeg.ringing \in Nat
      BY <1>1, CiTypes DEF CiLegT
    <3>2. /\ CiUp /\ ciTruth.bye = 0 /\ ciTruth.connect < ciNow /\ ciTruth.invite <= ciTruth.connect
      BY <1>1, <1>6, <1>5, <1>8 DEF CiCallInv
    <3>3. CiAsks(r, "BYE", ciLeg.bye) /\ ciLeg.connect = ciTruth.connect /\ ciLeg.connect # 0
      BY <1>3, <1>8, <3>2 DEF CiAsks, CiTimes, CiUp
    <3>4. /\ b.invite = ciTruth.invite /\ b.connect = ciTruth.connect /\ b.bye = ciNow
          /\ b.ringing = ciLeg.ringing
      BY <1>8, <2>1, <2>2, <3>3 DEF CiRowTimes, CiTimes
    <3>5. b.Duration = ciNow - ciTruth.connect
      BY <2>1, <3>2, <3>3 DEF CiRowTimes
    <3>6. b.RingingTime = ciLeg.RingingTime
      BY <1>8, <2>1, <3>2 DEF CiRowTimes, CiTimes, CiRung, CiRings
    <3>7. ciNow' = ciNow /\ ciBatch' # << >> /\ CiUp' /\ ciTruth'.invite = ciTruth.invite
          /\ ciTruth'.connect = ciTruth.connect /\ ciTruth'.bye = ciNow
      BY <1>6, <1>5, <1>8, <3>2 DEF CiGoesOn, CiUp
    <3>8. QED
      BY <1>8, <3>1, <3>2, <3>4, <3>5, <3>6, <3>7 DEF CiTimes
  <2>6. CiState(b)'
    <3>1. ciLeg.bye = 0
      BY <1>1, <1>6, <1>5, <1>8 DEF CiCallInv, CiTimes
    <3>2. b.Status = 10
      BY <1>3, <2>1, <3>1 DEF CiRowState, CiAsks
    <3>3. CiUp' /\ ciPhase' = "ending" /\ ciTruth'.outcome = "finished"
      BY <1>1, <1>6, <1>5, <1>8 DEF CiGoesOn, CiUp, CiCallInv
    <3>4. QED
      BY <3>2, <3>3 DEF CiState
  <2>7. QED
    BY <2>4, <2>5, <2>6
<1>9. QED
  <2>1. "ending" \in CiPhases /\ t \in CiTruthT /\ t.shared = ciTruth.shared
        /\ ciSeq' \in Nat /\ ciSdp' \in CiSdps /\ ciOks' \in SUBSET CiOkT
    BY <1>1, <1>6, <1>5, CiTypes DEF CiTypeInv, CiPhases, CiSdps
  <2>2. CiGoesOn(r, "ending", t) /\ ciBatch = << >> /\ CiMedia(ciLeg) /\ CiTimes(ciLeg) /\ CiState(ciLeg)
           => CiLegGoesOn(r)
    BY <1>8 DEF CiLegGoesOn
  <2>3. QED
    BY <1>3, <1>6, <1>7, <2>1, <2>2, CiTold

LEMMA CiByesAnswered ==
    ASSUME CiInv, CiByeAnswered
    PROVE  CiInv'
<1>1. CiTypeInv /\ CiCallInv /\ ciLeg \in CiLegT
  BY CiPartsOf DEF CiParts
<1>2. PICK r : r = CiAnswer(200, "BYE", ciSeq, CiNone)
  OBVIOUS
<1>3. r \in CiRowT /\ r.code = 200 /\ r.method = "BYE" /\ r.n = ciSeq /\ r.sdp = CiNone
  <2>1. 200 \in Nat /\ "BYE" \in CiMethods /\ CiNone \in CiSdps /\ ciSeq \in Nat
    BY <1>1, CiTypes DEF CiMethods, CiSdps
  <2>2. QED
    BY <1>2, <2>1, CiRows
<1>4. /\ CiSays(r, "over", ciTruth)
      /\ ciPhase = "ending" /\ UNCHANGED <<ciSeq, ciSdp, ciOks>>
  BY <1>2 DEF CiByeAnswered
<1>5. ASSUME CiGoesOn(r, "over", ciTruth) PROVE CiCallInv'
  BY <1>1, <1>4, <1>5, CiTypes DEF CiCallInv, CiGoesOn, CiUp
<1>6. ASSUME CiGoesOn(r, "over", ciTruth), ciBatch = << >>,
             CiMedia(ciLeg), CiTimes(ciLeg), CiState(ciLeg),
             NEW b, CiRowDone(ciLeg, r, b, ciNow)
      PROVE  CiMedia(b)' /\ CiTimes(b)' /\ CiState(b)'
  <2>1. /\ b \in CiLegT /\ CiRowMedia(ciLeg, r, b) /\ CiRowTimes(ciLeg, r, b, ciNow)
        /\ CiRowState(ciLeg, r, b)
    BY <1>6 DEF CiRowDone, CiCurrent, CiTimely
  <2>2. /\ ~CiAsks(r, "INVITE", ciLeg.invite) /\ ~CiAsks(r, "BYE", ciLeg.bye) /\ ~CiAsks(r, "CANCEL", ciLeg.cancel)
        /\ ~CiConnects(ciLeg, r) /\ ~CiStarts(ciLeg, r) /\ ~CiFails(ciLeg, r)
        /\ ~CiRedirects(r) /\ ~CiChallenged(r)
    BY <1>3 DEF CiAsks, CiConnects, CiStarts, CiFails, CiRedirects, CiChallenged, CiByeDone
  <2>4. CiMedia(b)'
    <3>1. CiSameMedia(ciLeg, b)
      BY <1>3, <2>1 DEF CiRowMedia
    <3>2. QED
      BY <1>4, <1>6, <3>1, CiMediaKept DEF CiGoesOn
  <2>5. CiTimes(b)'
    BY <1>1, <1>4, <1>6, <2>1, <2>2, CiTimesKept DEF CiGoesOn
  <2>6. CiState(b)'
    <3>1. b.Status \in {10, ciLeg.Status} /\ ciTruth.outcome = "finished" /\ CiUp
      BY <1>1, <1>3, <1>4, <2>1 DEF CiRowState, CiByeDone, CiCallInv
    <3>2. b.Status = 10
      BY <1>6, <3>1 DEF CiState
    <3>3. CiUp' /\ ciPhase' = "over" /\ ciTruth'.outcome = "finished"
      BY <1>4, <1>6, <3>1 DEF CiGoesOn, CiUp
    <3>4. QED
      BY <3>2, <3>3 DEF CiState
  <2>7. QED
    BY <2>4, <2>5, <2>6
<1>7. QED
  <2>1. "over" \in CiPhases /\ ciTruth \in CiTruthT /\ ciTruth.shared = ciTruth.shared
        /\ ciSeq' \in Nat /\ ciSdp' \in CiSdps /\ ciOks' \in SUBSET CiOkT
    BY <1>1, <1>4, CiTypes DEF CiTypeInv, CiPhases, CiSdps
  <2>2. CiGoesOn(r, "over", ciTruth) /\ ciBatch = << >> /\ CiMedia(ciLeg) /\ CiTimes(ciLeg) /\ CiState(ciLeg)
           => CiLegGoesOn(r)
    BY <1>6 DEF CiLegGoesOn
  <2>3. QED
    BY <1>3, <1>4, <1>5, <2>1, <2>2, CiTold

LEMMA CiInvites ==
    ASSUME CiInv, NEW sdp \in CiCodecs \cup {CiNone}, CiInvite(sdp)
    PROVE  CiInv'
<1>1. CiTypeInv /\ CiCallInv /\ ciLeg \in CiLegT
  BY CiPartsOf DEF CiParts
<1>2. PICK r : r = CiRequest("INVITE", ciSeq + 1, sdp)
  OBVIOUS
<1>3. r \in CiRowT /\ r.code = 0 /\ r.method = "INVITE" /\ r.n = ciSeq + 1 /\ r.sdp = sdp
  <2>1. 0 \in Nat /\ "INVITE" \in CiMethods /\ sdp \in CiSdps /\ ciSeq + 1 \in Nat
    BY <1>1, CiTypes DEF CiMethods, CiSdps
  <2>2. QED
    BY <1>2, <2>1, CiRows
<1>4. PICK t : t = [ciTruth EXCEPT !.invite = IF @ = 0 THEN ciNow ELSE @]
  OBVIOUS
<1>5. t \in CiTruthT /\ t.invite = (IF ciTruth.invite = 0 THEN ciNow ELSE ciTruth.invite) /\ t.connect = ciTruth.connect /\ t.bye = ciTruth.bye
       /\ t.agreed = ciTruth.agreed /\ t.refused = ciTruth.refused /\ t.shared = ciTruth.shared
       /\ t.outcome = ciTruth.outcome
  BY <1>1, <1>4, CiTypes DEF CiTypeInv, CiTruthT
<1>6. /\ CiSays(r, "calling", t)
      /\ ciPhase \in {"idle", "up"} /\ ciSeq' = ciSeq + 1 /\ ciSdp' = sdp /\ UNCHANGED ciOks
  BY <1>2, <1>4 DEF CiInvite
<1>7. ASSUME CiGoesOn(r, "calling", t) PROVE CiCallInv'
  BY <1>1, <1>6, <1>5, <1>7, CiTypes DEF CiCallInv, CiGoesOn, CiUp
<1>8. ASSUME CiGoesOn(r, "calling", t), ciBatch = << >>,
             CiMedia(ciLeg), CiTimes(ciLeg), CiState(ciLeg),
             NEW b, CiRowDone(ciLeg, r, b, ciNow)
      PROVE  CiMedia(b)' /\ CiTimes(b)' /\ CiState(b)'
  <2>1. /\ b \in CiLegT /\ CiRowMedia(ciLeg, r, b) /\ CiRowTimes(ciLeg, r, b, ciNow)
        /\ CiRowState(ciLeg, r, b)
    BY <1>8 DEF CiRowDone, CiCurrent, CiTimely
  <2>2. /\ ~CiAsks(r, "BYE", ciLeg.bye) /\ ~CiAsks(r, "CANCEL", ciLeg.cancel) /\ ~CiConnects(ciLeg, r)
        /\ ~CiStarts(ciLeg, r) /\ ~CiFails(ciLeg, r) /\ ~CiRedirects(r)
        /\ ~CiChallenged(r) /\ ~CiByeDone(r)
    BY <1>3 DEF CiAsks, CiConnects, CiStarts, CiFails, CiRedirects, CiChallenged, CiByeDone
  <2>4. CiMedia(b)'
    <3>1. CiRequestMedia(ciLeg, r, b) /\ CiTxn(r) = <<"INVITE", ciSeq + 1>> /\ CiKey' = <<"INVITE", ciSeq + 1>>
      BY <1>3, <1>6, <1>5, <2>1 DEF CiRowMedia, CiTxn, CiKey
    <3>2. \A ok \in ciOks : <<"INVITE", ok.n>> # <<"INVITE", ciSeq + 1>>
      <4>1. ASSUME NEW ok \in ciOks PROVE ok.n # ciSeq + 1
        <5>1. ok.n <= ciSeq /\ ok.n \in Nat /\ ciSeq \in Nat
          BY <1>1, CiTypes DEF CiCallInv
        <5>2. QED
          BY <5>1
      <4>2. QED
        BY <4>1
    <3>3. /\ ciPhase' = "calling" /\ ciTruth'.agreed = ciTruth.agreed /\ (CiUp' <=> CiUp)
          /\ ciOks' = ciOks /\ ciSdp' = sdp
      BY <1>6, <1>5, <1>8 DEF CiGoesOn, CiUp
    <3>4. ~ciLeg.delayed /\ ciLeg.negotiated = ciTruth.agreed
      BY <1>6, <1>5, <1>8 DEF CiMedia
    <3>5. CiOksAnswered(ciLeg)
      BY <1>8 DEF CiMedia
    <3> DEFINE key == <<"INVITE", ciSeq + 1>>
    <3>6. /\ key \notin b.sdpAnsweredTxn /\ (sdp # CiNone <=> key \in b.sdpOfferTxn)
          /\ ~b.delayed /\ b.negotiated = ciTruth.agreed
          /\ CiOksAnswered(b)
      BY <1>3, <3>1, <3>2, <3>4, <3>5 DEF CiRequestMedia, CiOksAnswered
    <3>7. QED
      BY <3>1, <3>3, <3>6 DEF CiMedia, CiOksAnswered
  <2>5. CiTimes(b)'
    <3>1. CASE ciTruth.invite # 0
      <4>1. ~CiAsks(r, "INVITE", ciLeg.invite)
        BY <1>8, <3>1 DEF CiAsks, CiTimes
      <4>2. ciTruth'.invite = ciTruth.invite /\ ciTruth'.connect = ciTruth.connect /\ ciTruth'.bye = ciTruth.bye
        BY <1>8, <1>5, <3>1 DEF CiGoesOn
      <4>3. QED
        BY <1>1, <1>6, <1>5, <1>8, <2>1, <2>2, <4>1, <4>2, CiTimesKept DEF CiGoesOn
    <3>2. CASE ciTruth.invite = 0
      <4>1. ~CiUp /\ ciTruth.connect = 0
        BY <1>1, <1>6, <1>5, <3>2 DEF CiCallInv, CiUp
      <4>2. ciTruth'.invite = ciNow /\ ciTruth'.connect = 0 /\ ciTruth'.bye = ciTruth.bye /\ ciNow' = ciNow
        BY <1>8, <1>5, <3>2, <4>1 DEF CiGoesOn
      <4>3. CiAsks(r, "INVITE", ciLeg.invite)
        BY <1>3, <1>8, <3>2 DEF CiAsks, CiTimes
      <4>4. ciLeg.ringing = 0 /\ ciLeg.RingingTime = 0 /\ ciLeg.connect = 0 /\ ciLeg.bye = ciTruth.bye
            /\ ciLeg.Duration = IF ciTruth.bye # 0 THEN ciTruth.bye - ciTruth.connect ELSE 0
        BY <1>8, <3>2, <4>1 DEF CiTimes
      <4>5. /\ b.invite = ciNow /\ b.connect = 0 /\ b.bye = ciTruth.bye /\ b.ringing = 0
            /\ b.RingingTime = 0 /\ b.Duration = ciLeg.Duration
        BY <2>1, <2>2, <4>3, <4>4 DEF CiRowTimes
      <4>6. ~CiUp'
        BY <4>2 DEF CiUp
      <4>7. QED
        BY <4>1, <4>2, <4>4, <4>5, <4>6 DEF CiTimes
    <3>3. QED
      BY <3>1, <3>2
  <2>6. CiState(b)'
    <3>1. CASE ciTruth.invite # 0
      <4>1. ~CiAsks(r, "INVITE", ciLeg.invite)
        BY <1>8, <3>1 DEF CiAsks, CiTimes
      <4>2. ~CiTells(ciLeg, r)
        BY <2>2, <4>1 DEF CiTells
      <4>3. ciPhase' = "calling" /\ (CiUp \/ ciPhase = "idle") /\ ciTruth'.connect = ciTruth.connect
            /\ ciTruth'.refused = ciTruth.refused /\ ciTruth'.outcome = ciTruth.outcome
        BY <1>1, <1>6, <1>5, <1>8, <1>5 DEF CiGoesOn, CiCallInv
      <4>4. QED
        BY <1>8, <2>1, <4>2, <4>3, CiStateKept
    <3>2. CASE ciTruth.invite = 0
      <4>1. ~CiUp /\ ciPhase = "idle" /\ ciTruth.outcome = "none"
        BY <1>1, <1>6, <1>5, <3>2 DEF CiCallInv
      <4>2. CiAsks(r, "INVITE", ciLeg.invite)
        BY <1>3, <1>8, <3>2 DEF CiAsks, CiTimes
      <4>3. b.Status = 1 /\ b.cancel = ciLeg.cancel /\ b.FSSD = ciLeg.FSSD
        BY <2>1, <2>2, <4>2 DEF CiRowState, CiRowTimes
      <4>4. ~CiUp' /\ ciPhase' = "calling" /\ ciTruth'.outcome = "none"
        BY <1>8, <1>5, <4>1 DEF CiGoesOn, CiUp
      <4>5. QED
        BY <1>8, <4>1, <4>3, <4>4 DEF CiState
    <3>3. QED
      BY <3>1, <3>2
  <2>7. QED
    BY <2>4, <2>5, <2>6
<1>9. QED
  <2>1. "calling" \in CiPhases /\ t \in CiTruthT /\ t.shared = ciTruth.shared
        /\ ciSeq' \in Nat /\ ciSdp' \in CiSdps /\ ciOks' \in SUBSET CiOkT
    BY <1>1, <1>6, <1>5, CiTypes DEF CiTypeInv, CiPhases, CiSdps
  <2>2. CiGoesOn(r, "calling", t) /\ ciBatch = << >> /\ CiMedia(ciLeg) /\ CiTimes(ciLeg) /\ CiState(ciLeg)
           => CiLegGoesOn(r)
    BY <1>8 DEF CiLegGoesOn
  <2>3. QED
    BY <1>3, <1>6, <1>7, <2>1, <2>2, CiTold

LEMMA CiAccepts ==
    ASSUME CiInv, NEW sdp \in CiCodecs, CiAccept(sdp)
    PROVE  CiInv'
<1>1. CiTypeInv /\ CiCallInv /\ ciLeg \in CiLegT
  BY CiPartsOf DEF CiParts
<1>2. PICK r : r = CiAnswer(200, "INVITE", ciSeq, sdp)
  OBVIOUS
<1>3. r \in CiRowT /\ r.code = 200 /\ r.method = "INVITE" /\ r.n = ciSeq /\ r.sdp = sdp
  <2>1. 200 \in Nat /\ "INVITE" \in CiMethods /\ sdp \in CiSdps /\ ciSeq \in Nat
    BY <1>1, CiTypes DEF CiMethods, CiSdps
  <2>2. QED
    BY <1>2, <2>1, CiRows
<1>4. PICK t : t = [ciTruth EXCEPT !.connect = IF @ = 0 THEN ciNow ELSE @,
                                           !.agreed = IF ciSdp # CiNone THEN sdp ELSE @]
  OBVIOUS
<1>5. t \in CiTruthT /\ t.invite = ciTruth.invite /\ t.connect = (IF ciTruth.connect = 0 THEN ciNow ELSE ciTruth.connect) /\ t.bye = ciTruth.bye
       /\ t.agreed = (IF ciSdp # CiNone THEN sdp ELSE ciTruth.agreed) /\ t.refused = ciTruth.refused /\ t.shared = ciTruth.shared
       /\ t.outcome = ciTruth.outcome
  BY <1>1, <1>4, CiTypes DEF CiTypeInv, CiTruthT, CiSdps
<1>6. /\ CiSays(r, "answered", t)
      /\ ciPhase \in {"calling", "cancelling"} /\ ciSdp' = (IF ciSdp = CiNone THEN sdp ELSE CiNone)
      /\ ciOks' = ciOks \cup {[n |-> ciSeq, sdp |-> sdp, ack |-> CiNone]} /\ UNCHANGED ciSeq
  BY <1>2, <1>4 DEF CiAccept
<1>7. ASSUME CiGoesOn(r, "answered", t) PROVE CiCallInv'
  BY <1>1, <1>6, <1>5, <1>7, CiTypes DEF CiCallInv, CiGoesOn, CiUp
<1>8. ASSUME CiGoesOn(r, "answered", t), ciBatch = << >>,
             CiMedia(ciLeg), CiTimes(ciLeg), CiState(ciLeg),
             NEW b, CiRowDone(ciLeg, r, b, ciNow)
      PROVE  CiMedia(b)' /\ CiTimes(b)' /\ CiState(b)'
  <2>1. /\ b \in CiLegT /\ CiRowMedia(ciLeg, r, b) /\ CiRowTimes(ciLeg, r, b, ciNow)
        /\ CiRowState(ciLeg, r, b)
    BY <1>8 DEF CiRowDone, CiCurrent, CiTimely
  <2>0. sdp # CiNone
    BY CallInfoAssumption
  <2>2. /\ ~CiAsks(r, "INVITE", ciLeg.invite) /\ ~CiAsks(r, "BYE", ciLeg.bye) /\ ~CiAsks(r, "CANCEL", ciLeg.cancel)
        /\ ~CiStarts(ciLeg, r) /\ ~CiFails(ciLeg, r) /\ ~CiRedirects(r)
        /\ ~CiChallenged(r) /\ ~CiByeDone(r)
    BY <1>3 DEF CiAsks, CiConnects, CiStarts, CiFails, CiRedirects, CiChallenged, CiByeDone
  <2>4. CiMedia(b)'
    <3>1. CiAnswerMedia(ciLeg, r, b) /\ CiTxn(r) = CiKey /\ r.sdp = sdp
      BY <1>3, <2>1 DEF CiRowMedia, CiTxn, CiKey
    <3>2. /\ CiKey \notin ciLeg.sdpAnsweredTxn /\ (ciSdp # CiNone <=> CiKey \in ciLeg.sdpOfferTxn)
          /\ ~ciLeg.delayed /\ ciLeg.negotiated = ciTruth.agreed /\ CiOksAnswered(ciLeg)
      BY <1>6, <1>5, <1>8 DEF CiMedia
    <3>3. /\ ciPhase' = "answered" /\ CiKey' = CiKey /\ ciSeq' = ciSeq
          /\ \A ok \in ciOks' : ok \in ciOks \/ ok.n = ciSeq
          /\ ciSdp' = (IF ciSdp = CiNone THEN sdp ELSE CiNone)
          /\ ciTruth'.agreed = (IF ciSdp # CiNone THEN sdp ELSE ciTruth.agreed)
      BY <1>6, <1>5, <1>8 DEF CiGoesOn, CiKey
    <3>4. CASE ciSdp # CiNone
      <4>1. b.negotiated = sdp /\ ~b.delayed /\ CiKey \in b.sdpAnsweredTxn /\ CiOksAnswered(b)
        BY <2>0, <3>1, <3>2, <3>4 DEF CiAnswerMedia, CiOksAnswered
      <4>2. CiOksAnswered(b)'
        BY <3>3, <4>1 DEF CiOksAnswered, CiKey
      <4>3. QED
        BY <3>3, <3>4, <4>1, <4>2 DEF CiMedia
    <3>5. CASE ciSdp = CiNone
      <4>1. b.negotiated = ciTruth.agreed /\ b.delayed = TRUE /\ b.delayedSeq = ciSeq
            /\ CiKey \in b.sdpAnsweredTxn /\ CiOksAnswered(b)
        BY <1>3, <2>0, <3>1, <3>2, <3>5 DEF CiAnswerMedia, CiOksAnswered
      <4>2. CiOksAnswered(b)'
        BY <3>3, <4>1 DEF CiOksAnswered, CiKey
      <4>3. QED
        BY <2>0, <3>3, <3>5, <4>1, <4>2 DEF CiMedia
    <3>6. QED
      BY <3>4, <3>5
  <2>5. CiTimes(b)'
    <3>1. CASE CiUp
      <4>1. ~CiConnects(ciLeg, r)
        BY <1>8, <3>1 DEF CiConnects, CiTimes, CiUp
      <4>2. ciTruth'.invite = ciTruth.invite /\ ciTruth'.connect = ciTruth.connect /\ ciTruth'.bye = ciTruth.bye
        BY <1>8, <1>5, <3>1 DEF CiGoesOn, CiUp
      <4>3. QED
        BY <1>1, <1>8, <2>1, <2>2, <4>1, <4>2, CiTimesKept DEF CiGoesOn
    <3>2. CASE ~CiUp
      <4>1. /\ ciNow \in Nat /\ ciNow # 0 /\ ciTruth.invite \in Nat /\ ciLeg.ringing \in Nat
            /\ ciLeg.RingingTime \in Nat
        BY <1>1, CiTypes DEF CiLegT
      <4>2. ciTruth.connect = 0 /\ ciTruth.bye = 0 /\ ciTruth.invite <= ciNow
        BY <1>1, <1>6, <1>5, <3>2 DEF CiCallInv, CiUp
      <4>3. ciTruth'.invite = ciTruth.invite /\ ciTruth'.connect = ciNow /\ ciTruth'.bye = 0
            /\ ciNow' = ciNow /\ ciBatch' # << >>
        BY <1>8, <1>5, <4>2 DEF CiGoesOn
      <4>4. CiConnects(ciLeg, r)
        BY <1>3, <1>8, <4>2 DEF CiConnects, CiTimes
      <4>5. /\ ciLeg.invite = ciTruth.invite /\ ciLeg.bye = 0 /\ ciLeg.Duration = 0
            /\ ciLeg.ringing # 0 => ciTruth.invite # 0 /\ ciTruth.invite <= ciLeg.ringing /\ ciLeg.ringing < ciNow
            /\ ciLeg.ringing = 0 => ciLeg.RingingTime = 0
            /\ ciLeg.RingingTime = 0 \/ ciLeg.RingingTime <= ciNow - ciTruth.invite
        BY <1>8, <3>2, <4>2 DEF CiTimes
      <4>6. /\ b.invite = ciTruth.invite /\ b.connect = ciNow /\ b.bye = 0 /\ b.Duration = 0
            /\ b.ringing = ciLeg.ringing /\ b.RingingTime = CiRung(ciLeg, ciNow)
        BY <2>1, <2>2, <4>4, <4>5 DEF CiRowTimes
      <4>7. /\ b.ringing # 0 => b.RingingTime # 0
            /\ b.ringing = 0 => b.RingingTime = 0
            /\ b.RingingTime <= ciNow - ciTruth.invite
        BY <4>1, <4>2, <4>5, <4>6 DEF CiRung, CiRings
      <4>8. CiUp'
        BY <4>1, <4>3 DEF CiUp
      <4>9. QED
        BY <4>1, <4>3, <4>5, <4>6, <4>7, <4>8 DEF CiTimes
    <3>3. QED
      BY <3>1, <3>2
  <2>6. CiState(b)'
    <3>1. CASE CiUp
      <4>1. ~CiConnects(ciLeg, r)
        BY <1>8, <3>1 DEF CiConnects, CiTimes, CiUp
      <4>2. ~CiTells(ciLeg, r)
        BY <2>2, <4>1 DEF CiTells
      <4>3. ciPhase' = "answered" /\ ciTruth'.connect = ciTruth.connect
            /\ ciTruth'.refused = ciTruth.refused /\ ciTruth'.outcome = ciTruth.outcome
        BY <1>8, <1>5, <3>1 DEF CiGoesOn, CiUp
      <4>4. QED
        BY <1>8, <2>1, <4>2, <4>3, CiStateKept
    <3>2. CASE ~CiUp
      <4>1. ciTruth.connect = 0 /\ ciTruth.outcome = "none" /\ ciNow # 0
        BY <1>1, <1>6, <1>5, <3>2, CiTypes DEF CiCallInv, CiUp
      <4>2. CiConnects(ciLeg, r)
        BY <1>3, <1>8, <4>1 DEF CiConnects, CiTimes
      <4>3. b.Status = 5
        BY <2>1, <4>2 DEF CiRowState
      <4>4. CiUp' /\ ciPhase' = "answered" /\ ciTruth'.outcome = "none"
        BY <1>8, <1>5, <4>1 DEF CiGoesOn, CiUp
      <4>5. QED
        BY <4>3, <4>4 DEF CiState
    <3>3. QED
      BY <3>1, <3>2
  <2>7. QED
    BY <2>4, <2>5, <2>6
<1>9. QED
  <2>1. "answered" \in CiPhases /\ t \in CiTruthT /\ t.shared = ciTruth.shared
        /\ ciSeq' \in Nat /\ ciSdp' \in CiSdps /\ ciOks' \in SUBSET CiOkT
    BY <1>1, <1>6, <1>5, CiTypes DEF CiTypeInv, CiPhases, CiSdps, CiOkT
  <2>2. CiGoesOn(r, "answered", t) /\ ciBatch = << >> /\ CiMedia(ciLeg) /\ CiTimes(ciLeg) /\ CiState(ciLeg)
           => CiLegGoesOn(r)
    BY <1>8 DEF CiLegGoesOn
  <2>3. QED
    BY <1>3, <1>6, <1>7, <2>1, <2>2, CiTold

LEMMA CiAcks ==
    ASSUME CiInv, NEW sdp \in CiCodecs \cup {CiNone}, CiAck(sdp)
    PROVE  CiInv'
<1>1. CiTypeInv /\ CiCallInv /\ ciLeg \in CiLegT
  BY CiPartsOf DEF CiParts
<1>2. PICK r : r = CiRequest("ACK", ciSeq, sdp)
  OBVIOUS
<1>3. r \in CiRowT /\ r.code = 0 /\ r.method = "ACK" /\ r.n = ciSeq /\ r.sdp = sdp
  <2>1. 0 \in Nat /\ "ACK" \in CiMethods /\ sdp \in CiSdps /\ ciSeq \in Nat
    BY <1>1, CiTypes DEF CiMethods, CiSdps
  <2>2. QED
    BY <1>2, <2>1, CiRows
<1>4. PICK t : t = [ciTruth EXCEPT !.agreed = IF sdp # CiNone THEN sdp ELSE @]
  OBVIOUS
<1>5. t \in CiTruthT /\ t.invite = ciTruth.invite /\ t.connect = ciTruth.connect /\ t.bye = ciTruth.bye
       /\ t.agreed = (IF sdp # CiNone THEN sdp ELSE ciTruth.agreed) /\ t.refused = ciTruth.refused /\ t.shared = ciTruth.shared
       /\ t.outcome = ciTruth.outcome
  BY <1>1, <1>4, CiTypes DEF CiTypeInv, CiTruthT, CiSdps
<1>6. /\ CiSays(r, "up", t)
      /\ ciPhase = "answered" /\ (IF ciSdp = CiNone THEN sdp = CiNone ELSE sdp \in CiCodecs)
      /\ ciSdp' = CiNone /\ UNCHANGED ciSeq
      /\ ciOks' = {IF ok.n = ciSeq THEN [ok EXCEPT !.ack = sdp] ELSE ok : ok \in ciOks}
  BY <1>2, <1>4 DEF CiAck
<1>oks. ciOks' \in SUBSET CiOkT /\ \A ok \in ciOks' : \E was \in ciOks : ok.n = was.n
  <2>1. ciOks \in SUBSET CiOkT /\ sdp \in CiSdps
    BY <1>1 DEF CiTypeInv, CiSdps
  <2>2. ASSUME NEW was \in ciOks, NEW ok, ok = IF was.n = ciSeq THEN [was EXCEPT !.ack = sdp] ELSE was
        PROVE  ok \in CiOkT /\ ok.n = was.n
    BY <2>1, <2>2 DEF CiOkT
  <2>3. QED
    BY <1>6, <2>2
<1>7. ASSUME CiGoesOn(r, "up", t) PROVE CiCallInv'
  BY <1>1, <1>6, <1>5, <1>7, <1>oks, CiTypes DEF CiCallInv, CiGoesOn, CiUp
<1>8. ASSUME CiGoesOn(r, "up", t), ciBatch = << >>,
             CiMedia(ciLeg), CiTimes(ciLeg), CiState(ciLeg),
             NEW b, CiRowDone(ciLeg, r, b, ciNow)
      PROVE  CiMedia(b)' /\ CiTimes(b)' /\ CiState(b)'
  <2>1. /\ b \in CiLegT /\ CiRowMedia(ciLeg, r, b) /\ CiRowTimes(ciLeg, r, b, ciNow)
        /\ CiRowState(ciLeg, r, b)
    BY <1>8 DEF CiRowDone, CiCurrent, CiTimely
  <2>2. /\ ~CiAsks(r, "INVITE", ciLeg.invite) /\ ~CiAsks(r, "BYE", ciLeg.bye)
        /\ ~CiAsks(r, "CANCEL", ciLeg.cancel) /\ ~CiConnects(ciLeg, r) /\ ~CiStarts(ciLeg, r)
        /\ ~CiFails(ciLeg, r) /\ ~CiRedirects(r) /\ ~CiChallenged(r) /\ ~CiByeDone(r)
    BY <1>3 DEF CiAsks, CiConnects, CiStarts, CiFails, CiRedirects, CiChallenged, CiByeDone
  <2>4. CiMedia(b)'
    <3>1. CiAckMedia(ciLeg, r, b) /\ r.n = ciSeq /\ r.sdp = sdp
      BY <1>3, <2>1 DEF CiRowMedia
    <3>2. /\ ciLeg.delayed <=> ciSdp # CiNone
          /\ ciLeg.delayed => ciLeg.delayedSeq = ciSeq
          /\ ciLeg.negotiated = ciTruth.agreed
          /\ CiOksAnswered(ciLeg)
      BY <1>6, <1>5, <1>8 DEF CiMedia
    <3>3. CiOksAnswered(ciLeg)'
      BY <1>8, <1>oks, <3>2 DEF CiOksAnswered, CiGoesOn
    <3>4. /\ ciPhase' = "up"
          /\ ciTruth'.agreed = (IF sdp # CiNone THEN sdp ELSE ciTruth.agreed)
          /\ b.sdpAnsweredTxn = ciLeg.sdpAnsweredTxn => CiOksAnswered(b)'
      BY <1>8, <1>5, <3>3 DEF CiGoesOn, CiOksAnswered
    <3>5. CASE ciSdp # CiNone
      <4>1. sdp # CiNone
        BY <1>6, <1>5, <3>5, CallInfoAssumption
      <4>2. b.negotiated = sdp /\ ~b.delayed /\ b.sdpAnsweredTxn = ciLeg.sdpAnsweredTxn
        BY <3>1, <3>2, <3>5, <4>1 DEF CiAckMedia
      <4>3. QED
        BY <3>2, <3>4, <4>1, <4>2 DEF CiMedia
    <3>6. CASE ciSdp = CiNone
      <4>1. sdp = CiNone /\ CiSameMedia(ciLeg, b)
        BY <1>6, <1>5, <3>1, <3>2, <3>6 DEF CiAckMedia
      <4>2. QED
        BY <3>2, <3>4, <3>6, <4>1 DEF CiMedia, CiSameMedia
    <3>7. QED
      BY <3>5, <3>6
  <2>5. CiTimes(b)'
    BY <1>1, <1>6, <1>5, <1>8, <2>1, <2>2, CiTimesKept DEF CiGoesOn
  <2>6. CiState(b)'
    <3>1. ~CiTells(ciLeg, r)
      BY <2>2 DEF CiTells
    <3>2. QED
      BY <1>1, <1>6, <1>5, <1>8, <2>1, <3>1, CiStateKept DEF CiGoesOn, CiCallInv
  <2>7. QED
    BY <2>4, <2>5, <2>6
<1>9. QED
  <2>1. "up" \in CiPhases /\ t \in CiTruthT /\ t.shared = ciTruth.shared
        /\ ciSeq' \in Nat /\ ciSdp' \in CiSdps /\ ciOks' \in SUBSET CiOkT
    BY <1>1, <1>6, <1>5, <1>oks, CiTypes DEF CiTypeInv, CiPhases, CiSdps
  <2>2. CiGoesOn(r, "up", t) /\ ciBatch = << >> /\ CiMedia(ciLeg) /\ CiTimes(ciLeg) /\ CiState(ciLeg)
           => CiLegGoesOn(r)
    BY <1>8 DEF CiLegGoesOn
  <2>3. QED
    BY <1>3, <1>6, <1>7, <2>1, <2>2, CiTold

LEMMA CiUpdates ==
    ASSUME CiInv, NEW sdp \in CiCodecs, CiUpdate(sdp)
    PROVE  CiInv'
<1>1. CiTypeInv /\ CiCallInv /\ ciLeg \in CiLegT
  BY CiPartsOf DEF CiParts
<1>2. PICK r : r = CiRequest("UPDATE", ciSeq + 1, sdp)
  OBVIOUS
<1>3. r \in CiRowT /\ r.code = 0 /\ r.method = "UPDATE" /\ r.n = ciSeq + 1 /\ r.sdp = sdp
  <2>1. 0 \in Nat /\ "UPDATE" \in CiMethods /\ sdp \in CiSdps /\ ciSeq + 1 \in Nat
    BY <1>1, CiTypes DEF CiMethods, CiSdps
  <2>2. QED
    BY <1>2, <2>1, CiRows
<1>4. /\ CiSays(r, "updating", ciTruth)
      /\ ciPhase = "up" /\ ciSeq' = ciSeq + 1 /\ ciSdp' = sdp /\ UNCHANGED ciOks
  BY <1>2 DEF CiUpdate
<1>5. ASSUME CiGoesOn(r, "updating", ciTruth) PROVE CiCallInv'
  BY <1>1, <1>4, <1>5, CiTypes DEF CiCallInv, CiGoesOn, CiUp
<1>6. ASSUME CiGoesOn(r, "updating", ciTruth), ciBatch = << >>,
             CiMedia(ciLeg), CiTimes(ciLeg), CiState(ciLeg),
             NEW b, CiRowDone(ciLeg, r, b, ciNow)
      PROVE  CiMedia(b)' /\ CiTimes(b)' /\ CiState(b)'
  <2>1. /\ b \in CiLegT /\ CiRowMedia(ciLeg, r, b) /\ CiRowTimes(ciLeg, r, b, ciNow)
        /\ CiRowState(ciLeg, r, b)
    BY <1>6 DEF CiRowDone, CiCurrent, CiTimely
  <2>0. sdp # CiNone
    BY CallInfoAssumption
  <2>2. /\ ~CiAsks(r, "INVITE", ciLeg.invite) /\ ~CiAsks(r, "BYE", ciLeg.bye) /\ ~CiAsks(r, "CANCEL", ciLeg.cancel)
        /\ ~CiConnects(ciLeg, r) /\ ~CiStarts(ciLeg, r) /\ ~CiFails(ciLeg, r)
        /\ ~CiRedirects(r) /\ ~CiChallenged(r) /\ ~CiByeDone(r)
    BY <1>3 DEF CiAsks, CiConnects, CiStarts, CiFails, CiRedirects, CiChallenged, CiByeDone
  <2>4. CiMedia(b)'
    <3> DEFINE key == <<"UPDATE", ciSeq + 1>>
    <3>1. CiRequestMedia(ciLeg, r, b) /\ CiTxn(r) = key /\ r.sdp # CiNone
      BY <1>3, <2>0, <2>1 DEF CiRowMedia, CiTxn
    <3>2. ~ciLeg.delayed /\ ciLeg.negotiated = ciTruth.agreed /\ CiOksAnswered(ciLeg)
      BY <1>4, <1>6 DEF CiMedia
    <3>3. \A ok \in ciOks : <<"INVITE", ok.n>> # key
      OBVIOUS
    <3>4. /\ b.negotiated = ciTruth.agreed /\ ~b.delayed /\ CiOksAnswered(b)
          /\ key \in b.sdpOfferTxn /\ key \notin b.sdpAnsweredTxn
      BY <3>1, <3>2, <3>3 DEF CiRequestMedia, CiOksAnswered
    <3>5. /\ ciPhase' = "updating" /\ ciTruth'.agreed = ciTruth.agreed /\ (CiUp' <=> CiUp)
          /\ ciOks' = ciOks /\ ciSeq' = ciSeq + 1
      BY <1>4, <1>6 DEF CiGoesOn, CiUp
    <3>6. QED
      BY <3>4, <3>5 DEF CiMedia, CiOksAnswered
  <2>5. CiTimes(b)'
    BY <1>1, <1>4, <1>6, <2>1, <2>2, CiTimesKept DEF CiGoesOn
  <2>6. CiState(b)'
    <3>1. ~CiTells(ciLeg, r)
      BY <2>2 DEF CiTells
    <3>2. QED
      BY <1>1, <1>4, <1>6, <2>1, <3>1, CiStateKept DEF CiGoesOn, CiCallInv
  <2>7. QED
    BY <2>4, <2>5, <2>6
<1>7. QED
  <2>1. "updating" \in CiPhases /\ ciTruth \in CiTruthT /\ ciTruth.shared = ciTruth.shared
        /\ ciSeq' \in Nat /\ ciSdp' \in CiSdps /\ ciOks' \in SUBSET CiOkT
    BY <1>1, <1>4, CiTypes DEF CiTypeInv, CiPhases, CiSdps
  <2>2. CiGoesOn(r, "updating", ciTruth) /\ ciBatch = << >> /\ CiMedia(ciLeg) /\ CiTimes(ciLeg) /\ CiState(ciLeg)
           => CiLegGoesOn(r)
    BY <1>6 DEF CiLegGoesOn
  <2>3. QED
    BY <1>3, <1>4, <1>5, <2>1, <2>2, CiTold

LEMMA CiUpdatesDone ==
    ASSUME CiInv, NEW sdp \in CiCodecs, CiUpdated(sdp)
    PROVE  CiInv'
<1>1. CiTypeInv /\ CiCallInv /\ ciLeg \in CiLegT
  BY CiPartsOf DEF CiParts
<1>2. PICK r : r = CiAnswer(200, "UPDATE", ciSeq, sdp)
  OBVIOUS
<1>3. r \in CiRowT /\ r.code = 200 /\ r.method = "UPDATE" /\ r.n = ciSeq /\ r.sdp = sdp
  <2>1. 200 \in Nat /\ "UPDATE" \in CiMethods /\ sdp \in CiSdps /\ ciSeq \in Nat
    BY <1>1, CiTypes DEF CiMethods, CiSdps
  <2>2. QED
    BY <1>2, <2>1, CiRows
<1>4. PICK t : t = [ciTruth EXCEPT !.agreed = sdp]
  OBVIOUS
<1>5. t \in CiTruthT /\ t.invite = ciTruth.invite /\ t.connect = ciTruth.connect /\ t.bye = ciTruth.bye
       /\ t.agreed = sdp /\ t.refused = ciTruth.refused /\ t.shared = ciTruth.shared
       /\ t.outcome = ciTruth.outcome
  BY <1>1, <1>4, CiTypes DEF CiTypeInv, CiTruthT, CiSdps
<1>6. /\ CiSays(r, "up", t)
      /\ ciPhase = "updating" /\ ciSdp' = CiNone /\ UNCHANGED <<ciSeq, ciOks>>
  BY <1>2, <1>4 DEF CiUpdated
<1>7. ASSUME CiGoesOn(r, "up", t) PROVE CiCallInv'
  BY <1>1, <1>6, <1>5, <1>7, CiTypes DEF CiCallInv, CiGoesOn, CiUp
<1>8. ASSUME CiGoesOn(r, "up", t), ciBatch = << >>,
             CiMedia(ciLeg), CiTimes(ciLeg), CiState(ciLeg),
             NEW b, CiRowDone(ciLeg, r, b, ciNow)
      PROVE  CiMedia(b)' /\ CiTimes(b)' /\ CiState(b)'
  <2>1. /\ b \in CiLegT /\ CiRowMedia(ciLeg, r, b) /\ CiRowTimes(ciLeg, r, b, ciNow)
        /\ CiRowState(ciLeg, r, b)
    BY <1>8 DEF CiRowDone, CiCurrent, CiTimely
  <2>0. sdp # CiNone
    BY CallInfoAssumption
  <2>2. /\ ~CiAsks(r, "INVITE", ciLeg.invite) /\ ~CiAsks(r, "BYE", ciLeg.bye) /\ ~CiAsks(r, "CANCEL", ciLeg.cancel)
        /\ ~CiConnects(ciLeg, r) /\ ~CiStarts(ciLeg, r) /\ ~CiFails(ciLeg, r)
        /\ ~CiRedirects(r) /\ ~CiChallenged(r) /\ ~CiByeDone(r)
    BY <1>3 DEF CiAsks, CiConnects, CiStarts, CiFails, CiRedirects, CiChallenged, CiByeDone
  <2>4. CiMedia(b)'
    <3>1. CiAnswerMedia(ciLeg, r, b) /\ CiTxn(r) = <<"UPDATE", ciSeq>> /\ r.sdp = sdp
      BY <1>3, <2>1 DEF CiRowMedia, CiTxn
    <3>2. /\ <<"UPDATE", ciSeq>> \in ciLeg.sdpOfferTxn /\ <<"UPDATE", ciSeq>> \notin ciLeg.sdpAnsweredTxn
          /\ ~ciLeg.delayed /\ CiOksAnswered(ciLeg)
      BY <1>6, <1>5, <1>8 DEF CiMedia
    <3>3. b.negotiated = sdp /\ ~b.delayed /\ CiOksAnswered(b)
      BY <2>0, <3>1, <3>2 DEF CiAnswerMedia, CiOksAnswered
    <3>4. ciPhase' = "up" /\ ciTruth'.agreed = sdp /\ ciOks' = ciOks
      BY <1>6, <1>5, <1>8 DEF CiGoesOn
    <3>5. QED
      BY <3>3, <3>4 DEF CiMedia, CiOksAnswered
  <2>5. CiTimes(b)'
    BY <1>1, <1>6, <1>5, <1>8, <2>1, <2>2, CiTimesKept DEF CiGoesOn
  <2>6. CiState(b)'
    <3>1. ~CiTells(ciLeg, r)
      BY <2>2 DEF CiTells
    <3>2. QED
      BY <1>1, <1>6, <1>5, <1>8, <2>1, <3>1, CiStateKept DEF CiGoesOn, CiCallInv
  <2>7. QED
    BY <2>4, <2>5, <2>6
<1>9. QED
  <2>1. "up" \in CiPhases /\ t \in CiTruthT /\ t.shared = ciTruth.shared
        /\ ciSeq' \in Nat /\ ciSdp' \in CiSdps /\ ciOks' \in SUBSET CiOkT
    BY <1>1, <1>6, <1>5, CiTypes DEF CiTypeInv, CiPhases, CiSdps
  <2>2. CiGoesOn(r, "up", t) /\ ciBatch = << >> /\ CiMedia(ciLeg) /\ CiTimes(ciLeg) /\ CiState(ciLeg)
           => CiLegGoesOn(r)
    BY <1>8 DEF CiLegGoesOn
  <2>3. QED
    BY <1>3, <1>6, <1>7, <2>1, <2>2, CiTold

LEMMA CiRefuses ==
    ASSUME CiInv, NEW code \in CiFinals, CiRefuse(code)
    PROVE  CiInv'
<1>1. CiTypeInv /\ CiCallInv /\ ciLeg \in CiLegT
  BY CiPartsOf DEF CiParts
<1>2. PICK r : r = CiAnswer(code, "INVITE", ciSeq, CiNone)
  OBVIOUS
<1>3. r \in CiRowT /\ r.code = code /\ r.method = "INVITE" /\ r.n = ciSeq /\ r.sdp = CiNone
  <2>1. code \in Nat /\ "INVITE" \in CiMethods /\ CiNone \in CiSdps /\ ciSeq \in Nat
    <3>1. code \in Nat
      BY CallInfoAssumption
    <3>2. QED
      BY <1>1, <3>1, CiTypes DEF CiMethods, CiSdps
  <2>2. QED
    BY <1>2, <2>1, CiRows
<1>4. PICK t : t = IF CiUp THEN [ciTruth EXCEPT !.refused = TRUE]
                    ELSE [ciTruth EXCEPT !.outcome = IF code \in CiUnshown THEN "unshown" ELSE "refused"]
  OBVIOUS
<1>5. t \in CiTruthT /\ t.invite = ciTruth.invite /\ t.connect = ciTruth.connect /\ t.bye = ciTruth.bye
       /\ t.agreed = ciTruth.agreed /\ t.refused = (IF CiUp THEN TRUE ELSE ciTruth.refused) /\ t.shared = ciTruth.shared
       /\ t.outcome = (IF CiUp THEN ciTruth.outcome ELSE IF code \in CiUnshown THEN "unshown" ELSE "refused")
  BY <1>1, <1>4, CiTypes DEF CiTypeInv, CiTruthT
<1>6. /\ CiSays(r, (IF CiUp THEN "up" ELSE "over"), t)
      /\ ciPhase = "calling" /\ ciSdp' = CiNone /\ UNCHANGED <<ciSeq, ciOks>>
  BY <1>2, <1>4 DEF CiRefuse
<1>7. ASSUME CiGoesOn(r, (IF CiUp THEN "up" ELSE "over"), t) PROVE CiCallInv'
  BY <1>1, <1>6, <1>5, <1>7, CiTypes DEF CiCallInv, CiGoesOn, CiUp
<1>8. ASSUME CiGoesOn(r, (IF CiUp THEN "up" ELSE "over"), t), ciBatch = << >>,
             CiMedia(ciLeg), CiTimes(ciLeg), CiState(ciLeg),
             NEW b, CiRowDone(ciLeg, r, b, ciNow)
      PROVE  CiMedia(b)' /\ CiTimes(b)' /\ CiState(b)'
  <2>1. /\ b \in CiLegT /\ CiRowMedia(ciLeg, r, b) /\ CiRowTimes(ciLeg, r, b, ciNow)
        /\ CiRowState(ciLeg, r, b)
    BY <1>8 DEF CiRowDone, CiCurrent, CiTimely
  <2>0. code \in Nat /\ code >= 300 /\ code <= 699
    BY CallInfoAssumption
  <2>2. /\ ~CiAsks(r, "INVITE", ciLeg.invite) /\ ~CiAsks(r, "BYE", ciLeg.bye) /\ ~CiAsks(r, "CANCEL", ciLeg.cancel)
        /\ ~CiConnects(ciLeg, r) /\ ~CiStarts(ciLeg, r) /\ ~CiByeDone(r)
    BY <1>3, <2>0 DEF CiAsks, CiConnects, CiStarts, CiFails, CiRedirects, CiChallenged, CiByeDone
  <2>4. CiMedia(b)'
    <3>1. CiSameMedia(ciLeg, b)
      BY <1>3, <2>0, <2>1 DEF CiRowMedia
    <3>2. ciTruth'.agreed = ciTruth.agreed /\ ciTruth'.connect = ciTruth.connect /\ ciOks' = ciOks
          /\ ciPhase' \in {"up", "over"} /\ ciPhase # "answered"
      BY <1>6, <1>5, <1>8, <1>5 DEF CiGoesOn
    <3>3. QED
      BY <1>8, <3>1, <3>2, CiMediaKept
  <2>5. CiTimes(b)'
    <3>1. ciTruth'.invite = ciTruth.invite /\ ciTruth'.connect = ciTruth.connect /\ ciTruth'.bye = ciTruth.bye
      BY <1>8, <1>5 DEF CiGoesOn
    <3>2. QED
      BY <1>1, <1>8, <2>1, <2>2, <3>1, CiTimesKept DEF CiGoesOn
  <2>6. CiState(b)'
    <3>1. CASE CiUp
      <4>1. ciTruth.outcome = "none"
        BY <1>1, <1>6 DEF CiCallInv
      <4>2. CiUp' /\ ciPhase' = "up" /\ ciTruth'.outcome = "none" /\ ciTruth'.refused = TRUE
        BY <1>8, <1>5, <3>1, <4>1 DEF CiGoesOn, CiUp
      <4>3. QED
        BY <4>2 DEF CiState
    <3>2. CASE ~CiUp
      <4>1. ~CiUp' /\ ciPhase' = "over"
            /\ ciTruth'.outcome = (IF code \in CiUnshown THEN "unshown" ELSE "refused")
        BY <1>8, <1>5, <3>2 DEF CiGoesOn, CiUp
      <4>2. ciLeg.FSSD = 0 /\ ciLeg.Status # 5
        BY <1>6, <1>5, <1>8, <3>2 DEF CiState
      <4>3. CASE code \in CiUnshown
        <5>1. ~CiRedirects(r) /\ ~CiFails(ciLeg, r)
          BY <1>3, <4>3 DEF CiUnshown, CiRedirects, CiFails
        <5>2. b.Status # 5
          <6>1. CASE CiChallenged(r)
            BY <2>1, <6>1 DEF CiRowState
          <6>2. CASE ~CiChallenged(r)
            <7>1. ~CiTells(ciLeg, r)
              BY <2>2, <5>1, <6>2 DEF CiTells
            <7>2. QED
              BY <2>1, <4>2, <7>1 DEF CiRowState
          <6>3. QED
            BY <6>1, <6>2
        <5>3. ciTruth'.outcome = "unshown"
          BY <4>1, <4>3
        <5>4. QED
          BY <4>1, <5>2, <5>3 DEF CiState
      <4>4. CASE code \notin CiUnshown
        <5>1. CiRedirects(r) \/ CiFails(ciLeg, r)
          BY <1>3, <2>0, <4>2, <4>4 DEF CiUnshown, CiRedirects, CiFails
        <5>2. b.Status \in {6, 7, 8, 9, 12, 14}
          BY <2>1, <5>1 DEF CiRowState
        <5>3. ciTruth'.outcome = "refused"
          BY <4>1, <4>4
        <5>4. QED
          BY <4>1, <5>2, <5>3 DEF CiState
      <4>5. QED
        BY <4>3, <4>4
    <3>3. QED
      BY <3>1, <3>2
  <2>7. QED
    BY <2>4, <2>5, <2>6
<1>9. QED
  <2>1. (IF CiUp THEN "up" ELSE "over") \in CiPhases /\ t \in CiTruthT /\ t.shared = ciTruth.shared
        /\ ciSeq' \in Nat /\ ciSdp' \in CiSdps /\ ciOks' \in SUBSET CiOkT
    BY <1>1, <1>6, <1>5, CiTypes DEF CiTypeInv, CiPhases, CiSdps
  <2>2. CiGoesOn(r, (IF CiUp THEN "up" ELSE "over"), t) /\ ciBatch = << >> /\ CiMedia(ciLeg) /\ CiTimes(ciLeg) /\ CiState(ciLeg)
           => CiLegGoesOn(r)
    BY <1>8 DEF CiLegGoesOn
  <2>3. QED
    BY <1>3, <1>6, <1>7, <2>1, <2>2, CiTold

\* The call stands still.
LEMMA CiStands ==
    ASSUME CiInv, UNCHANGED ciVars
    PROVE  CiInv'
<1>1. /\ CiTypeInv /\ CiCallInv /\ CiAlone /\ ciLeg \in CiLegT /\ CiTimely(ciLeg, ciNow)
      /\ ~ciTruth.shared => CiLegInv(CiSeen)
  BY DEF CiInv, CiInOrder
<1>2. /\ ciPhase' = ciPhase /\ ciSeq' = ciSeq /\ ciSdp' = ciSdp /\ ciOks' = ciOks /\ ciNow' = ciNow
      /\ ciBatch' = ciBatch /\ ciCount' = ciCount /\ ciLeg' = ciLeg /\ ciTruth' = ciTruth
  BY DEF ciVars
<1>3. CiTypeInv' /\ CiCallInv' /\ CiAlone'
  BY <1>1, <1>2 DEF CiTypeInv, CiCallInv, CiAlone, CiUp
<1>4. ciLeg' \in CiLegT /\ CiTimely(ciLeg, ciNow)'
  BY <1>1, <1>2 DEF CiTimely
<1>5. CiSeen' = CiSeen
  BY <1>2 DEF CiSeen
<1>6. PICK b : b = CiSeen
  OBVIOUS
<1>7. ASSUME ~ciTruth'.shared PROVE CiLegInv(CiSeen)'
  <2>1. CiMedia(b) /\ CiTimes(b) /\ CiState(b)
    BY <1>1, <1>2, <1>6, <1>7 DEF CiLegInv
  <2>2. CiMedia(b)' /\ CiTimes(b)' /\ CiState(b)'
    BY <1>2, <2>1 DEF CiMedia, CiTimes, CiState, CiUp, CiKey, CiOksAnswered
  <2>3. QED
    BY <1>5, <1>6, <2>2 DEF CiLegInv, CiMedia, CiTimes, CiState
<1>8. QED
  BY <1>3, <1>4, <1>7 DEF CiInv, CiInOrder

LEMMA CiInductive ==
    ASSUME CiInv, [CiNext]_ciVars
    PROVE  CiInv'
<1>1. CASE CiCompute \/ CiCancel \/ CiCancelAnswered \/ CiCancelled \/ CiBye \/ CiByeAnswered
  BY <1>1, CiComputes, CiCancels, CiCancelsAnswered, CiCancelsDone, CiByes, CiByesAnswered
<1>2. ASSUME NEW ok \in ciOks, CiAcceptAgain(ok) \/ CiAckAgain(ok)
      PROVE  CiInv'
  BY <1>2, CiAcceptsAgain, CiAcksAgain
<1>3. ASSUME NEW sdp \in CiCodecs \cup {CiNone}, CiInvite(sdp) \/ CiAck(sdp)
      PROVE  CiInv'
  BY <1>3, CiInvites, CiAcks
<1>4. ASSUME NEW sdp \in CiCodecs, CiAccept(sdp) \/ CiUpdate(sdp) \/ CiUpdated(sdp)
      PROVE  CiInv'
  BY <1>4, CiAccepts, CiUpdates, CiUpdatesDone
<1>5. ASSUME NEW code \in {100, 180, 183}, CiProvisional(code)
      PROVE  CiInv'
  BY <1>5, CiProvisionals
<1>6. ASSUME NEW code \in {401, 407}, CiChallenge(code)
      PROVE  CiInv'
  BY <1>6, CiChallenges
<1>7. ASSUME NEW code \in CiFinals, CiRefuse(code)
      PROVE  CiInv'
  BY <1>7, CiRefuses
<1>8. CASE UNCHANGED ciVars
  BY <1>8, CiStands
<1>9. QED
  BY <1>1, <1>2, <1>3, <1>4, <1>5, <1>6, <1>7, <1>8 DEF CiNext

LEMMA CiInitInv == CiInit => CiInv
<1> SUFFICES ASSUME CiInit PROVE CiInv
  OBVIOUS
<1>1. /\ ciPhase = "idle" /\ ciSeq = 0 /\ ciSdp = CiNone
      /\ ciOks = {}
      /\ ciNow = 1 /\ ciBatch = << >> /\ ciCount = 0 /\ ciLeg = CiEmptyLeg /\ ciTruth = CiNoTruth
  BY DEF CiInit
<1>2. CiTypeInv
  <2>1. ciBatch \in Seq(CiRowT)
    BY <1>1
  <2>2. ciTruth \in CiTruthT
    BY <1>1 DEF CiNoTruth, CiTruthT, CiSdps
  <2>3. ciOks \in SUBSET CiOkT /\ ciSdp \in CiSdps
    BY <1>1 DEF CiSdps
  <2>4. QED
    BY <1>1, <2>1, <2>2, <2>3 DEF CiTypeInv, CiPhases
<1>3. /\ ~CiUp /\ ciTruth.invite = 0 /\ ciTruth.connect = 0 /\ ciTruth.bye = 0
      /\ ciTruth.agreed = CiNone /\ ciTruth.outcome = "none"
  BY <1>1 DEF CiUp, CiNoTruth
<1>4. CiCallInv
  BY <1>1, <1>3 DEF CiCallInv
<1>5. CiAlone
  BY <1>1 DEF CiAlone
<1>6. /\ ciLeg \in CiLegT
      /\ ciLeg.first = 0 /\ ciLeg.last = 0 /\ ciLeg.invite = 0 /\ ciLeg.bye = 0 /\ ciLeg.cancel = 0
      /\ ciLeg.ringing = 0 /\ ciLeg.connect = 0 /\ ciLeg.RingingTime = 0 /\ ciLeg.Duration = 0
      /\ ciLeg.SRD = 0 /\ ciLeg.SSS = 0 /\ ciLeg.FSSD = 0 /\ ciLeg.SDD = 0 /\ ciLeg.Status = 0
      /\ ciLeg.negotiated = CiNone /\ ciLeg.delayed = FALSE
  BY <1>1 DEF CiEmptyLeg, CiLegT, CiSdps
<1>7. CiTimely(ciLeg, ciNow)
  BY <1>1, <1>6 DEF CiTimely
<1>8. CiMedia(ciLeg) /\ CiTimes(ciLeg) /\ CiState(ciLeg)
  <2>1. CiMedia(ciLeg)
    BY <1>1, <1>3, <1>6 DEF CiMedia, CiOksAnswered
  <2>2. CiTimes(ciLeg)
    BY <1>1, <1>3, <1>6 DEF CiTimes
  <2>3. CiState(ciLeg)
    BY <1>1, <1>3, <1>6 DEF CiState
  <2>4. QED
    BY <2>1, <2>2, <2>3
<1>9. CiLegInv(CiSeen)
  BY <1>1, <1>8 DEF CiSeen, CiLegInv
<1>10. QED
  BY <1>2, <1>4, <1>5, <1>6, <1>7, <1>9 DEF CiInv

LEMMA CiInvSafe == CiInv => CallInfoSafe
<1> SUFFICES ASSUME CiInv PROVE CallInfoSafe
  OBVIOUS
<1>1. /\ CiTypeInv /\ CiCallInv /\ ciLeg \in CiLegT /\ CiTimely(ciLeg, ciNow)
      /\ CiInOrder => CiLegInv(CiSeen)
  BY DEF CiInv
<1>2. CiTimesWithinSession
  BY <1>1 DEF CiTimely, CiTimesWithinSession
<1>3. CiAtRest /\ CiInOrder => CiMedia(ciLeg) /\ CiTimes(ciLeg) /\ CiState(ciLeg)
  BY <1>1 DEF CiAtRest, CiSeen, CiLegInv
<1>4. CiCodecsAgreed
  BY <1>3 DEF CiCodecsAgreed, CiMedia
<1>5. CiDurationRight
  BY <1>3 DEF CiDurationRight, CiTimes, CiUp
<1>6. CiStateRight
  BY <1>3 DEF CiStateRight, CiState
<1>7. QED
  BY <1>2, <1>4, <1>5, <1>6 DEF CallInfoSafe
=============================================================================
