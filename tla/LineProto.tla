----------------------------- MODULE LineProto -----------------------------
(***************************************************************************)
(* The line protocol receiver (lineprotoreceiver/): HTTP handlers that     *)
(* call Ingester.Ingest concurrently.  Ingest creates and widens tables on *)
(* the fly, from a cache of the columns it believes each table has, and    *)
(* inserts a request's points table by table, signature by signature.      *)
(*                                                                         *)
(* A point is its table and its set of columns; values and types are left  *)
(* out, and so are measurements that send a `date` field of their own and  *)
(* a catalog that is not DuckLake (the tests' in-memory database).         *)
(* External: DuckDB runs each statement atomically and refuses an INSERT   *)
(* that names a column the table does not have.                            *)
(***************************************************************************)
EXTENDS Naturals, FiniteSets

CONSTANTS
    Writers,        \* handlers
    Tables,         \* of ordinary measurements
    HepTables,      \* of measurements in the hep_proto_ namespace
    Cols,           \* tags and fields
    MaxPoints,      \* bound on the points of a request
    MaxRestarts     \* bound on restarts of the process

NoOne == "nobody"
date == "date"

ASSUME LineProtoAssumption ==
    /\ IsFiniteSet(Tables \cup HepTables) /\ IsFiniteSet(Cols) /\ IsFiniteSet(Writers)
    /\ Tables \cap HepTables = {}
    /\ NoOne \notin Writers
    /\ date \notin Cols
    /\ MaxPoints \in Nat \ {0}
    /\ MaxRestarts \in Nat

Points == [table : Tables, cols : (SUBSET Cols) \ {{}}] \cup [table : HepTables, cols : {Cols}]
Requested == {b \in SUBSET Points : Cardinality(b) \in 1..MaxPoints}

VARIABLES
    lpPc,           \* where each handler is
    lpTodo,         \* points of each handler's request at tables still to come
    lpRows,         \* points at the table it is at, still to be inserted
    tablesMu,       \* who holds the lock
    tablesState,    \* table -> the columns believed, or {} for a table not met
    dateFill,
    lpTables,       \* the lake: table -> columns, {} for no table
    lpPartitioned,  \* tables partitioned by date
    hepLines,       \* what becomes of HEP measurement names, see Accepted
    lpRestarts      \* what is used up of the bound

(* Observers. *)
VARIABLES
    lpMissing,      \* points of each handler's request that are not in the lake
    shortAnswer,    \* some request was answered 204 with points missing
    metBefore,      \* tables that were there when this process first met them
    unchecked       \* tables whose EnsureDatePartition failed in this process

lakeVars == <<lpTables, lpPartitioned>>
cacheVars == <<tablesMu, tablesState, dateFill>>
lpVars == <<lpPc, lpTodo, lpRows, cacheVars, lakeVars, hepLines, lpRestarts,
            lpMissing, shortAnswer, metBefore, unchecked>>

AllTables == Tables \cup HepTables
AllCols == Cols \cup {"ts", date}

LpTypeOK ==
    /\ lpPc \in [Writers -> {"idle", "schema", "next", "ensure", "partition",
                            "alter", "insert", "hep"}]
    /\ lpTodo \in [Writers -> SUBSET Points]
    /\ lpRows \in [Writers -> SUBSET Points]
    /\ tablesMu \in Writers \cup {NoOne}
    /\ tablesState \in [AllTables -> SUBSET AllCols]
    /\ lpTables \in [AllTables -> SUBSET AllCols]
    /\ {dateFill, lpPartitioned, metBefore, unchecked}
         \subseteq SUBSET AllTables
    /\ hepLines \in {"structured", "prefixed"}
    /\ lpRestarts \in 0..MaxRestarts
    /\ lpMissing \in [Writers -> SUBSET Points]
    /\ shortAnswer \in BOOLEAN

LpInit ==
    /\ lpPc = [w \in Writers |-> "idle"]
    /\ lpTodo = [w \in Writers |-> {}]
    /\ lpRows = [w \in Writers |-> {}]
    /\ tablesMu = NoOne
    /\ tablesState = [t \in AllTables |-> {}]
    /\ dateFill = {}
    /\ lpTables = [t \in AllTables |-> {}]
    /\ lpPartitioned = {}
    /\ hepLines \in {"structured", "prefixed"}
    /\ lpRestarts \in 0..MaxRestarts
    /\ lpMissing = [w \in Writers |-> {}]
    /\ shortAnswer = FALSE
    /\ metBefore = {}
    /\ unchecked = {}

-----------------------------------------------------------------------------
Hep(b) == {p \in b : p.table \in HepTables}

\* With allow_hep_sip_call ("structured") a request names one HEP table and
\* nothing else, or none; without it such names are ordinary under a table
\* prefix ("prefixed"), and with neither they are refused, which is "structured"
\* without its HEP requests.
Accepted(b) ==
    \/ Hep(b) = {}
    \/ hepLines = "structured" /\ Hep(b) = b /\ Cardinality({p.table : p \in b}) = 1
    \/ hepLines = "prefixed"

\* handleWrite, the parser, and the checks at the head of Ingest.  A request
\* with a line that does not parse is refused like one that is not Accepted,
\* and leaves no trace.
LpReceive(w, b) ==
    /\ lpPc[w] = "idle"
    /\ Accepted(b)
    /\ lpMissing' = [lpMissing EXCEPT ![w] = b]
    /\ lpTodo' = [lpTodo EXCEPT ![w] = b]
    /\ lpPc' = [lpPc EXCEPT ![w] = IF hepLines = "structured" /\ Hep(b) # {}
                                   THEN "hep" ELSE "schema"]
    /\ UNCHANGED <<lpRows, cacheVars, lakeVars, hepLines, lpRestarts,
                   shortAnswer, metBefore, unchecked>>

\* The request ends; what was inserted before stays.
Finish(w, answer, missing) ==
    /\ lpPc' = [lpPc EXCEPT ![w] = "idle"]
    /\ lpTodo' = [lpTodo EXCEPT ![w] = {}]
    /\ lpRows' = [lpRows EXCEPT ![w] = {}]
    /\ lpMissing' = [lpMissing EXCEPT ![w] = {}]
    /\ shortAnswer' = (shortAnswer \/ (answer = "ok" /\ missing # {}))

\* One multi-row INSERT with the fixed HEP columns.
LpHep(w) ==
    /\ lpPc[w] = "hep"
    /\ \/ Finish(w, "ok", {})
       \/ Finish(w, "failed", lpMissing[w])
    /\ UNCHANGED <<cacheVars, lakeVars, hepLines, lpRestarts, metBefore, unchecked>>

\* CREATE SCHEMA IF NOT EXISTS for a request that names a database.
LpEnsureSchema(w) ==
    /\ lpPc[w] = "schema"
    /\ \/ /\ lpPc' = [lpPc EXCEPT ![w] = "next"]
          /\ UNCHANGED <<lpTodo, lpRows, lpMissing, shortAnswer>>
       \/ Finish(w, "failed", lpMissing[w])
    /\ UNCHANGED <<cacheVars, lakeVars, hepLines, lpRestarts, metBefore, unchecked>>

\* The next table in the map's order.
LpNextTable(w) ==
    /\ lpPc[w] = "next"
    /\ \/ /\ lpTodo[w] = {}
          /\ Finish(w, "ok", lpMissing[w])
       \/ \E p \in lpTodo[w] :
             /\ lpRows' = [lpRows EXCEPT ![w] = {q \in lpTodo[w] : q.table = p.table}]
             /\ lpTodo' = [lpTodo EXCEPT ![w] = @ \ lpRows'[w]]
             /\ lpPc' = [lpPc EXCEPT ![w] = "ensure"]
             /\ UNCHANGED <<lpMissing, shortAnswer>>
    /\ UNCHANGED <<cacheVars, lakeVars, hepLines, lpRestarts, metBefore, unchecked>>

tableOf(w) == (CHOOSE p \in lpRows[w] : TRUE).table
colTypes(w) == {"ts"} \cup UNION {p.cols : p \in lpRows[w]}

-----------------------------------------------------------------------------
(* ensureTable, under tablesMu. *)

\* CREATE TABLE IF NOT EXISTS with the columns of this batch; the cache then
\* holds these, whatever table was there.
CreateTable(w) ==
    LET t == tableOf(w)
        cols == colTypes(w) \cup {date}
    IN  /\ tablesState[t] = {}
        /\ \/ /\ lpTables' = IF lpTables[t] = {} THEN [lpTables EXCEPT ![t] = cols]
                             ELSE lpTables
              /\ tablesState' = [tablesState EXCEPT ![t] = cols]
              /\ metBefore' = IF lpTables[t] = {} THEN metBefore ELSE metBefore \cup {t}
              /\ tablesMu' = w
              /\ lpPc' = [lpPc EXCEPT ![w] = "partition"]
              /\ UNCHANGED <<lpTodo, lpRows, lpMissing, shortAnswer>>
           \/ /\ Finish(w, "failed", lpMissing[w])
              /\ UNCHANGED <<lpTables, tablesState, metBefore, tablesMu>>

LpEnsureTable(w) ==
    /\ lpPc[w] = "ensure"
    /\ tablesMu = NoOne
    /\ \/ CreateTable(w)
       \/ /\ tablesState[tableOf(w)] # {}
          /\ IF colTypes(w) \subseteq tablesState[tableOf(w)]
             THEN lpPc' = [lpPc EXCEPT ![w] = "insert"] /\ UNCHANGED tablesMu
             ELSE lpPc' = [lpPc EXCEPT ![w] = "alter"] /\ tablesMu' = w
          /\ UNCHANGED <<lpTables, tablesState, metBefore, lpTodo,
                         lpRows, lpMissing, shortAnswer>>
    /\ UNCHANGED <<dateFill, lpPartitioned, hepLines, lpRestarts,
                   unchecked>>

\* Mutant: a table that has its partitions is not looked at again.
EnsureDatePartitionOnce(t) ==
    \/ /\ t \notin lpPartitioned
       /\ lpTables' = [lpTables EXCEPT ![t] = @ \cup {date}]
       /\ lpPartitioned' = lpPartitioned \cup {t}
       /\ dateFill' = dateFill \cup {t}
       /\ UNCHANGED unchecked
    \/ /\ t \in lpPartitioned
       /\ UNCHANGED <<lpTables, lpPartitioned, dateFill, unchecked>>

\* A failure is logged: before the column is there nothing fills it, after that
\* the rows get a date although the table has no partitions.
EnsureDatePartition(t) ==
    \/ /\ lpTables' = [lpTables EXCEPT ![t] = @ \cup {date}]
       /\ lpPartitioned' = lpPartitioned \cup {t}
       /\ dateFill' = dateFill \cup {t}
       /\ UNCHANGED unchecked
    \/ /\ t \notin lpPartitioned
       /\ lpTables' = [lpTables EXCEPT ![t] = @ \cup {date}]
       /\ dateFill' = dateFill \cup {t}
       /\ unchecked' = unchecked \cup {t}
       /\ UNCHANGED lpPartitioned
    \/ /\ unchecked' = unchecked \cup {t}
       /\ UNCHANGED <<lpTables, lpPartitioned, dateFill>>

LpPartition(w) ==
    /\ lpPc[w] = "partition"
    /\ EnsureDatePartition(tableOf(w))
    /\ tablesMu' = NoOne
    /\ lpPc' = [lpPc EXCEPT ![w] = "insert"]
    /\ UNCHANGED <<lpTodo, lpRows, tablesState, hepLines, lpRestarts, lpMissing, shortAnswer, metBefore>>

\* Mutant: a column counts as added whatever the ALTER answers.
AddColumnUnasked(t, n) ==
    /\ tablesState' = [tablesState EXCEPT ![t] = @ \cup {n}]
    /\ lpTables' \in {lpTables, [lpTables EXCEPT ![t] = @ \cup {n}]}
AddColumn(t, n) ==
    /\ tablesState' = [tablesState EXCEPT ![t] = @ \cup {n}]
    /\ lpTables' = [lpTables EXCEPT ![t] = @ \cup {n}]

\* ALTER TABLE ADD COLUMN IF NOT EXISTS, one column at a time.
LpAlter(w) ==
    LET missing == colTypes(w) \ tablesState[tableOf(w)]
    IN  /\ lpPc[w] = "alter"
        /\ \/ /\ missing = {}
              /\ tablesMu' = NoOne
              /\ lpPc' = [lpPc EXCEPT ![w] = "insert"]
              /\ UNCHANGED <<tablesState, lpTables, lpTodo, lpRows, lpMissing, shortAnswer>>
           \/ /\ \E n \in missing : AddColumn(tableOf(w), n)
              /\ UNCHANGED <<lpPc, tablesMu, lpTodo, lpRows, lpMissing,
                             shortAnswer>>
           \/ /\ missing # {}
              /\ tablesMu' = NoOne
              /\ Finish(w, "failed", lpMissing[w])
              /\ UNCHANGED <<tablesState, lpTables>>
        /\ UNCHANGED <<dateFill, lpPartitioned, hepLines, lpRestarts,
                       metBefore, unchecked>>

-----------------------------------------------------------------------------
\* Mutant: a bucket that fails is passed over.
AfterFailedBucketGoOn(w, bucket) ==
    /\ lpRows' = [lpRows EXCEPT ![w] = @ \ bucket]
    /\ lpPc' = [lpPc EXCEPT ![w] = IF lpRows[w] = bucket THEN "next" ELSE "insert"]
    /\ UNCHANGED <<lpTodo, lpMissing, shortAnswer>>
AfterFailedBucket(w, bucket) == Finish(w, "failed", lpMissing[w])

\* insertBucket: the rows with one set of columns, which gets a date if the
\* table is one that writeRows fills.
LpInsert(w) ==
    /\ lpPc[w] = "insert"
    /\ \E p \in lpRows[w] :
          LET t == p.table
              bucket == {q \in lpRows[w] : q.cols = p.cols}
              cols == p.cols \cup {"ts"} \cup (IF t \in dateFill THEN {date} ELSE {})
          IN  \/ /\ cols \subseteq lpTables[t]
                 /\ lpMissing' = [lpMissing EXCEPT ![w] = @ \ bucket]
                 /\ lpRows' = [lpRows EXCEPT ![w] = @ \ bucket]
                 /\ lpPc' = [lpPc EXCEPT ![w] = IF lpRows[w] = bucket THEN "next" ELSE "insert"]
                 /\ UNCHANGED <<lpTodo, shortAnswer>>
              \/ AfterFailedBucket(w, bucket)
    /\ UNCHANGED <<cacheVars, lakeVars, hepLines, lpRestarts, metBefore, unchecked>>

\* The process ends and starts again: the caches are empty, the lake is not.
LpRestart ==
    /\ lpRestarts < MaxRestarts
    /\ lpRestarts' = lpRestarts + 1
    /\ lpPc' = [w \in Writers |-> "idle"]
    /\ lpTodo' = [w \in Writers |-> {}]
    /\ lpRows' = [w \in Writers |-> {}]
    /\ shortAnswer' = FALSE
    /\ lpMissing' = [w \in Writers |-> {}]
    /\ tablesMu' = NoOne
    /\ tablesState' = [t \in AllTables |-> {}]
    /\ dateFill' = {}
    /\ metBefore' = {}
    /\ unchecked' = {}
    /\ UNCHANGED <<lakeVars, hepLines>>

LpNext ==
    \/ \E w \in Writers :
          \/ \E b \in Requested : LpReceive(w, b)
          \/ LpHep(w) \/ LpEnsureSchema(w) \/ LpNextTable(w)
          \/ LpEnsureTable(w) \/ LpPartition(w) \/ LpAlter(w) \/ LpInsert(w)
    \/ LpRestart

-----------------------------------------------------------------------------
(* Properties. *)

\* The points that are about to be inserted.
Inserting == UNION {lpRows[w] : w \in {v \in Writers : lpPc[v] = "insert"}}

\* Concurrent handlers never believe in a column the table has not got, so that
\* an INSERT is refused for want of a column only at a table that was there
\* before this process met it: ensureTable then takes the first batch's columns
\* for the table's.
ColumnsBelieved ==
    /\ \A t \in AllTables \ metBefore : tablesState[t] \subseteq lpTables[t]
    /\ \A p \in Inserting : p.cols \subseteq lpTables[p.table] \/ p.table \in metBefore

\* A row without a date gets into a table partitioned by date only after
\* EnsureDatePartition failed there: the fill is known before the first insert,
\* also after a restart.
PartitionedRowsDated ==
    \A p \in Inserting :
        p.table \in lpPartitioned => p.table \in dateFill \cup unchecked

\* A request answered with 204 has all its points in the lake.
AnsweredPointsStored == ~shortAnswer

\* What the line protocol handlers promise the lake and their clients, however
\* they overlap and whenever the process restarts.
LineProtoSafe ==
    /\ ColumnsBelieved
    /\ PartitionedRowsDated
    /\ AnsweredPointsStored

\* docs/LINE_PROTOCOL.md: new columns are added on the fly.  No INSERT is refused
\* for want of a column.
NewColumnsAdded == \A p \in Inserting : p.cols \subseteq lpTables[p.table]
=============================================================================
