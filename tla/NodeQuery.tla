----------------------------- MODULE NodeQuery -----------------------------
(***************************************************************************)
(* A node answers one query over the rows of one table.  A row is in the   *)
(* writer's memory buffers, in the hot lake or in the cold one, and while  *)
(* the query runs it moves on: a flush copies it into the hot lake and     *)
(* then truncates the buffer, the tiering cycle copies it into the cold    *)
(* lake and then deletes it from the hot one.                              *)
(*                                                                         *)
(* The node reads these places with one statement or several, each of      *)
(* them a snapshot, and merges the results.  Which statements it runs      *)
(* depends on the query's shape, on where it comes from and on the         *)
(* configuration.  External: DuckDB executes a statement over the rows as  *)
(* they are at that moment; flush and tiering (see TableWriter, TierMove). *)
(***************************************************************************)
EXTENDS Naturals, FiniteSets

CONSTANTS
    NqRows,         \* [id, t]; the id is the uuid
    NqWindow,       \* <<from, to>> of the query, both included
    NqLimit,        \* LIMIT of a top-N query
    NqChunk,        \* lakeChunkMs
    NqMaxMoves,     \* steps of flush and tiering while a query runs
    NqMaxFaults     \* statements that fail

ASSUME NodeQueryAssumption ==
    /\ NqRows \subseteq [id : Nat, t : Nat] /\ IsFiniteSet(NqRows)
    /\ \A a, b \in NqRows : a.id = b.id => a = b
    /\ NqWindow \in Nat \X Nat
    /\ {NqLimit, NqChunk} \subseteq Nat \ {0} /\ {NqMaxMoves, NqMaxFaults} \subseteq Nat

NqPlaces == {"mem", "hot", "cold"}

VARIABLES
    nqAt,           \* row -> the places it is in
    nq,             \* the query
    nqMoves, nqFaults,
    \* Observers.
    nqHeld,         \* rows that were stored when the query began
    nqPassed,       \* rows that moved from a place still to be read to one already read
    nqTwice         \* rows that were in two places when a statement read both

nqVars == <<nqAt, nq, nqMoves, nqFaults, nqHeld, nqPassed, nqTwice>>

NqIdle == [at |-> "idle"]

\* The writer shares its database with the node in the same process; a node of
\* its own reads the lakes only.
NqSetups == [shared : BOOLEAN, buffer : BOOLEAN, tiered : BOOLEAN]

NqInit ==
    /\ nqAt \in [NqRows -> {{}, {"mem"}, {"hot"}, {"cold"}}]
    /\ nq = NqIdle
    /\ nqMoves = 0 /\ nqFaults = 0
    /\ nqHeld = {} /\ nqPassed = {} /\ nqTwice = {}

-----------------------------------------------------------------------------
(* Where the rows are. *)

\* A row that comes to place p; the query has read p but not all it will read.
Arrive(r, p) ==
    nqPassed' = IF nq.at \in {"lake", "mem", "tiered"} /\ p \in nq.read
                THEN nqPassed \cup {r} ELSE nqPassed

NqMove(r, places, p) ==
    /\ nq.at \in {"lake", "mem", "tiered"} /\ nqMoves < NqMaxMoves
    /\ nqMoves' = nqMoves + 1
    /\ nqAt' = [nqAt EXCEPT ![r] = places]
    /\ Arrive(r, p)
    /\ UNCHANGED <<nq, nqFaults, nqHeld, nqTwice>>

NqReceive(r) == nqAt[r] = {} /\ NqMove(r, {"mem"}, "mem")
NqFlushCopy(r) == nqAt[r] = {"mem"} /\ NqMove(r, {"mem", "hot"}, "hot")
NqTruncate(r) == nqAt[r] = {"mem", "hot"} /\ NqMove(r, {"hot"}, "hot")
NqTierCopy(r) == nqAt[r] = {"hot"} /\ NqMove(r, {"hot", "cold"}, "cold")
NqTierDelete(r) == nqAt[r] = {"hot", "cold"} /\ NqMove(r, {"cold"}, "cold")

-----------------------------------------------------------------------------
(* Statements. *)

\* A result is a set of copies: a row and the place it was read from.
InWindow(r, lo, hi, incl) == lo <= r.t /\ (r.t < hi \/ (incl /\ r.t = hi))

Copies(places, lo, hi, incl) ==
    {c \in [row : NqRows, place : places] :
        c.place \in nqAt[c.row] /\ InWindow(c.row, lo, hi, incl)}

NqMin(a, b) == IF a < b THEN a ELSE b

AnyN(S) == {T \in SUBSET S : Cardinality(T) = NqMin(NqLimit, Cardinality(S))}
TopN(S) == {T \in AnyN(S) : \A c \in T, d \in S \ T : c.row.t >= d.row.t}

\* LIMIT and ORDER BY of the query, in one statement.
Limited(S, order) ==
    CASE order = "topn" -> TopN(S)
      [] order = "stream" -> AnyN(S)
      [] OTHER -> {S}

\* Mutant: a row of the buffers stands in for any row of the same time.
RowDedupKeyTime(q, c) == c.row.t

\* rowDedupKey: the uuid, or session and time when it was not selected; session
\* is the same for all rows of a transaction.
rowDedupKey(q, c) == IF q.uuid THEN c.row.id ELSE c.row.t

\* mergeSelectResults: one row of each key, newest first, at most LIMIT.
Merged(q, a, b, limit) ==
    LET keys == {rowDedupKey(q, c) : c \in a \cup b}
        of(S, k) == {c \in S : rowDedupKey(q, c) = k}
        one(k) == CHOOSE c \in (IF of(a, k) # {} THEN of(a, k) ELSE of(b, k)) : TRUE
        all == {one(k) : k \in keys}
    IN IF limit THEN TopN(all) ELSE {all}

\* runSelectQuery: an error other than a parquet file cached before it was
\* complete; on that one the cache is dropped and the statement run again.
runSelectQueryFails(at) ==
    /\ nqFaults < NqMaxFaults
    /\ nqFaults' = nqFaults + 1
    /\ nq' = [nq EXCEPT !.at = at]
    /\ UNCHANGED nqTwice

\* Rows that a statement over several places sees twice.
Doubled(places) == {r \in NqRows : Cardinality(nqAt[r] \cap places) > 1}

-----------------------------------------------------------------------------
(* planSharedSelect. *)

\* The places of the first statement.
FirstPlaces(q) ==
    CASE ~q.setup.shared -> {"hot", "cold"}     \* rewriteQueryForVolumes, buildUnionQuery
      [] q.setup.shared /\ q.setup.buffer /\ q.order \in {"asc", "agg"} -> {"hot", "mem"}
      [] OTHER -> {"hot"}

\* The lake with its own LIMIT, and then the buffers.  (prepareFlightSQLDataSQL
\* has but one statement.)
mergeSeparately(q) ==
    q.setup.shared /\ q.setup.buffer /\ q.order \in {"topn", "stream"} /\ q.via = "http"

\* shouldSplitLakeAndMem: a long window and no other filter.
timeSlice(q) == mergeSeparately(q) /\ q.order = "topn" /\ q.long

\* handleQuery, DoGetStatement, DuckLakeTable.Scan.
NqBegin(setup, via, order, uuid, long, strategy) ==
    /\ nq = NqIdle
    /\ via = "airport" => ~setup.shared /\ order = "stream"
    /\ ~setup.shared => ~setup.buffer /\ ~setup.tiered
    /\ long => order = "topn"
    /\ strategy # "full" => long
    /\ nq' = [at |-> "lake", setup |-> setup, via |-> via, order |-> order, uuid |-> uuid,
              long |-> long, strategy |-> strategy, hi |-> NqWindow[2], read |-> {},
              rows |-> {}]
    /\ nqHeld' = {r \in NqRows : nqAt[r] # {}}
    /\ UNCHANGED <<nqAt, nqMoves, nqFaults, nqPassed, nqTwice>>

\* The statements that are still to come.
AfterLake(q) == IF mergeSeparately(q) THEN "mem"
                ELSE IF q.setup.tiered /\ q.via = "http" THEN "tiered" ELSE "done"
AfterMem(q) == IF q.setup.tiered THEN "tiered" ELSE "done"

LakeStatement ==
    /\ nq.at = "lake" /\ ~(timeSlice(nq) /\ nq.strategy = "chunked")
    /\ \/ /\ \E S \in Limited(Copies(FirstPlaces(nq), NqWindow[1], NqWindow[2], TRUE),
                              IF timeSlice(nq) /\ nq.strategy = "stream" THEN "stream"
                              ELSE nq.order) :
                nq' = [nq EXCEPT !.at = AfterLake(nq), !.rows = S, !.read = FirstPlaces(nq)]
          /\ nqTwice' = nqTwice \cup Doubled(FirstPlaces(nq))
          /\ UNCHANGED nqFaults
       \/ runSelectQueryFails("failed")
    /\ UNCHANGED <<nqAt, nqMoves, nqHeld, nqPassed>>

\* The part of the window before the chunks already read.
NextChunk(q) == [lo |-> IF q.hi > NqChunk + NqWindow[1] THEN q.hi - NqChunk ELSE NqWindow[1],
                 hi |-> q.hi]

\* runLakeSplitByTime: the newest chunk first, until there are LIMIT rows.  The
\* rewritten bounds leave out the upper one.
LakeChunk ==
    /\ nq.at = "lake" /\ timeSlice(nq) /\ nq.strategy = "chunked"
    /\ \/ LET chunk == NextChunk(nq)
          IN /\ \E S \in TopN(Copies({"hot"}, chunk.lo, chunk.hi, FALSE)) :
                  LET all == nq.rows \cup S
                      last == chunk.lo <= NqWindow[1] \/ Cardinality(all) >= NqLimit
                  IN \E T \in IF last THEN Merged(nq, all, {}, TRUE) ELSE {all} :
                        nq' = [nq EXCEPT !.at = IF last THEN "mem" ELSE "lake", !.rows = T,
                                         !.hi = chunk.lo, !.read = {"hot"}]
             /\ UNCHANGED <<nqFaults, nqTwice>>
       \/ runSelectQueryFails("failed")
    /\ UNCHANGED <<nqAt, nqMoves, nqHeld, nqPassed>>

MemStatement ==
    /\ nq.at = "mem"
    /\ \/ /\ \E S \in Limited(Copies({"mem"}, NqWindow[1], NqWindow[2], TRUE), nq.order) :
                \E T \in Merged(nq, nq.rows, S, TRUE) :
                   nq' = [nq EXCEPT !.at = AfterMem(nq), !.rows = T, !.read = @ \cup {"mem"}]
          /\ UNCHANGED <<nqFaults, nqTwice>>
       \/ runSelectQueryFails("failed")
    /\ UNCHANGED <<nqAt, nqMoves, nqHeld, nqPassed>>

\* The hot and the cold lake on the tiered manager's database; if that fails the
\* rows at hand are the answer.
TieredStatement ==
    /\ nq.at = "tiered"
    /\ \/ /\ \E S \in Limited(Copies({"hot", "cold"}, NqWindow[1], NqWindow[2], TRUE), nq.order) :
                \E T \in IF nq.order = "agg" \/ nq.rows = {} THEN {S}
                         ELSE Merged(nq, nq.rows, S, nq.order \in {"topn", "stream"}) :
                   nq' = [nq EXCEPT !.at = "done", !.rows = T, !.read = @ \cup {"hot", "cold"}]
          /\ nqTwice' = nqTwice \cup Doubled({"hot", "cold"})
          /\ UNCHANGED nqFaults
       \/ runSelectQueryFails("done")     \* warnColdTieredQuery
    /\ UNCHANGED <<nqAt, nqMoves, nqHeld, nqPassed>>

NqNext ==
    \/ \E r \in NqRows : NqReceive(r) \/ NqFlushCopy(r) \/ NqTruncate(r)
                         \/ NqTierCopy(r) \/ NqTierDelete(r)
    \/ \E setup \in NqSetups, via \in {"http", "flightsql", "airport"},
          order \in {"topn", "stream", "asc", "agg"}, uuid \in BOOLEAN, long \in BOOLEAN,
          strategy \in {"full", "stream", "chunked"} :
          NqBegin(setup, via, order, uuid, long, strategy)
    \/ LakeStatement \/ LakeChunk \/ MemStatement \/ TieredStatement
-----------------------------------------------------------------------------
(* Properties. *)

\* The answer leaves row r out and the code accepts it: r moved behind the
\* statements (runSharedSelectWithMemoryPolicy reads the lake and then the
\* buffers); it is where the query does not look (no buffer_query, FlightSQL
\* top-N, cold volume unreachable, aggregates over the tiers); no uuid is
\* selected and rows share session and time; a row seen twice took its place
\* below LIMIT; or it lies on the upper bound
\* that runLakeSplitByTime rewrites from <= to <.
Excused(r) ==
    \/ r \in nqPassed
    \/ nqAt[r] \cap nq.read = {}
    \/ nq.order = "agg" /\ "cold" \in nq.read /\ nqAt[r] \subseteq {"mem"}
    \/ ~nq.uuid /\ \E a, b \in {c \in NqRows : nqAt[c] # {}} : a # b /\ a.t = b.t
    \/ nq.order \in {"topn", "stream"} /\ nqTwice # {}
    \/ timeSlice(nq) /\ nq.strategy = "chunked" /\ r.t = NqWindow[2]

\* What a query returns although the rows move while its statements run.  Every
\* row stored before it began and inside its window is returned, excused, or cut
\* off by LIMIT; a cut of a newest-first query only loses rows that are no newer
\* than the ones returned, except with the stream strategy; and a row is returned
\* twice only if one statement saw it in the middle of a flush or of a move, and
\* never by a query that merges its results by uuid.
NodeQuerySafe ==
    nq.at = "done" =>
        /\ \A r \in nqHeld : InWindow(r, NqWindow[1], NqWindow[2], TRUE) =>
              \/ \E c \in nq.rows : c.row = r
              \/ Excused(r)
              \/ nq.order \in {"topn", "stream"} /\ Cardinality(nq.rows) >= NqLimit
                 /\ \/ nq.order = "stream" \/ (timeSlice(nq) /\ nq.strategy = "stream")
                    \/ \A c \in nq.rows : c.row.t >= r.t
        /\ \A c, d \in nq.rows : c.row = d.row /\ c # d =>
              c.row \in nqTwice /\ ~(mergeSeparately(nq) /\ ~nq.setup.tiered)
=============================================================================
