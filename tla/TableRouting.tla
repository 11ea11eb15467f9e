---------------------------- MODULE TableRouting ----------------------------
(***************************************************************************)
(* From a decoded HEP packet to the table its row goes to: the adapter's   *)
(* TableKey and row, getOrCreateTable, and the TableWriters behind the     *)
(* keys, each with its own active index and slot locks.  The batch of a    *)
(* TableWriter and its locking in detail are in TableWriter: here a row is *)
(* appended by itself and lockActiveMem is one step.                       *)
(*                                                                         *)
(* The names of a TableWriter's memory tables come from the TableSuffix of *)
(* its schema, so two keys with one suffix share lake and memory tables,   *)
(* but neither slot locks nor the active index.                            *)
(***************************************************************************)
EXTENDS Naturals, FiniteSets

CONSTANTS
    TrRows,         \* rows, numbered; one packet each
    TrKinds,        \* kinds of packets that arrive
    TrWorkers,      \* ingest workers
    TrMaxSwaps      \* bound on the swaps of a table's buffers

ASSUME TableRoutingAssumption ==
    /\ TrRows \subseteq Nat /\ TrMaxSwaps \in Nat
    /\ TrKinds \subseteq {"call", "register", "options", "ping", "rtcp", "dns", "log", "other"}

VARIABLES
    trQueue,        \* the central flush queue is on
    trTables,       \* keys in mtw.tables
    trActive,       \* key -> activeIdx
    trMem,          \* suffix -> slot -> rows in the memory table
    trLake,         \* suffix -> rows, with the number of copies
    trWidth,        \* suffix -> columns of its tables, 0 when they are not there
    trPc, trRow, trKind, \* what each worker does, its row and packet
    trSlot,         \* the slot it holds for reading
    trFlush,        \* key -> the flush of its TableWriter: idle, insert, truncate
    trJob,          \* key -> slot of that flush
    trSwaps,
    \* Observers.
    trUsed,         \* rows so far
    trMade,         \* key -> TableWriters made
    trRejected,     \* rows whose append failed
    trLost          \* rows truncated without having been copied

trWork == <<trPc, trRow, trKind, trSlot>>
trVars == <<trQueue, trTables, trActive, trMem, trLake, trWidth, trWork, trFlush, trJob, trSwaps,
            trUsed, trMade, trRejected, trLost>>

-----------------------------------------------------------------------------
(* Keys, schemas and rows. *)

\* A packet of proto type 1 whose payload is longer than 32 bytes is parsed, and the
\* method decides; a shorter one ("ping") has no SipMsg, and its key no SubType.
getTableKey(kind) ==
    CASE kind = "call" -> "1/call"
      [] kind = "register" -> "1/registration"
      [] kind = "options" -> "1/default"
      [] kind = "ping" -> "1/"
      [] kind = "rtcp" -> "5/"
      [] kind = "dns" -> "53/"
      [] kind = "log" -> "100/"
      [] OTHER -> "56/"

TrKeys == {getTableKey(k) : k \in TrKinds}

\* Keys of GetTableSchemas: the others get GetDefaultSchema.
TrKnown == {"1/call", "1/registration", "1/default", "5/", "53/", "100/"}

\* TableSuffix; TableKey.String writes a missing SubType as "default".
TableSuffix(key) ==
    CASE key = "1/call" -> "1_call"
      [] key = "1/registration" -> "1_registration"
      [] key \in {"1/default", "1/"} -> "1_default"
      [] key = "5/" -> "5_default"
      [] key = "53/" -> "53_default"
      [] key = "100/" -> "100_default"
      [] OTHER -> "56_default"

TrSuffixes == {TableSuffix(k) : k \in TrKeys}

\* Columns of CreateSQL.
SchemaWidth(key) ==
    CASE key \in {"1/call", "1/registration"} -> 19
      [] key = "1/default" -> 16
      [] key = "53/" -> 11
      [] key = "100/" -> 9
      [] OTHER -> 13

\* Cells of the row that convertHEPToValuesWithSIPSubtype builds.
RowWidth(kind) ==
    CASE kind \in {"call", "register"} -> 19
      [] kind \in {"options", "ping"} -> 16
      [] kind = "dns" -> 11
      [] kind = "log" -> 9
      [] OTHER -> 13

TrIsupBody(key) == key \in {"1/call", "1/registration", "1/default"}

\* CREATE TABLE IF NOT EXISTS, and ADD COLUMN IF NOT EXISTS isup_body for the
\* schemas that have it: only the default schema of "1/" leaves it out.
TrCreated(width, key) ==
    IF width = 0 THEN SchemaWidth(key)
    ELSE IF TrIsupBody(key) /\ width = 13 THEN 14
    ELSE width

-----------------------------------------------------------------------------
\* A TableWriter for key: the tables as they are then, and the map.
TrMake(key) ==
    /\ trWidth' = [trWidth EXCEPT ![TableSuffix(key)] = TrCreated(@, key)]
    /\ trTables' = trTables \cup {key}
    /\ trMade' = [trMade EXCEPT ![key] = @ + 1]

\* NewMultiTableWriter creates the known tables; one that fails is logged and left
\* for the first packet.
TrInit ==
    /\ trQueue \in BOOLEAN
    /\ trTables \in {TrKeys \cap TrKnown, (TrKeys \cap TrKnown) \ {"1/default"}}
    /\ trActive = [k \in TrKeys |-> 0]
    /\ trMem = [s \in TrSuffixes |-> [i \in {0, 1} |-> {}]]
    /\ trLake = [s \in TrSuffixes |-> [r \in TrRows |-> 0]]
    /\ trWidth = [s \in TrSuffixes |->
                    IF \E k \in trTables : TableSuffix(k) = s
                    THEN SchemaWidth(CHOOSE k \in trTables : TableSuffix(k) = s) ELSE 0]
    /\ trPc = [w \in TrWorkers |-> "idle"]
    /\ trRow = [w \in TrWorkers |-> 0] /\ trKind = [w \in TrWorkers |-> "none"]
    /\ trSlot = [w \in TrWorkers |-> 0]
    /\ trFlush = [k \in TrKeys |-> "idle"] /\ trJob = [k \in TrKeys |-> 0]
    /\ trSwaps = 0
    /\ trUsed = {} /\ trRejected = {} /\ trLost = {}
    /\ trMade = [k \in TrKeys |-> IF k \in trTables THEN 1 ELSE 0]

TrGoes(w, pc) == trPc' = [trPc EXCEPT ![w] = pc]

\* WriteHEP: the row, and the look into the map under mu.RLock.
TrWrite(w, r, kind) ==
    /\ trPc[w] = "idle"
    /\ r \in TrRows \ trUsed
    /\ trUsed' = trUsed \cup {r}
    /\ trRow' = [trRow EXCEPT ![w] = r]
    /\ trKind' = [trKind EXCEPT ![w] = kind]
    /\ TrGoes(w, IF getTableKey(kind) \in trTables THEN "lock" ELSE "create")
    /\ UNCHANGED <<trQueue, trTables, trActive, trMem, trLake, trWidth, trSlot, trFlush, trJob,
                   trSwaps, trMade, trRejected, trLost>>

\* Mutant: the map is not looked at again.
TrMissingStill(key) == TRUE
TrMissing(key) == key \notin trTables

\* The slow path, under mu.
TrGetOrCreate(w) ==
    LET key == getTableKey(trKind[w])
    IN  /\ trPc[w] = "create"
        /\ IF TrMissing(key) THEN TrMake(key) ELSE UNCHANGED <<trTables, trWidth, trMade>>
        /\ TrGoes(w, "lock")
        /\ UNCHANGED <<trQueue, trActive, trMem, trLake, trRow, trKind, trSlot, trFlush, trJob,
                       trSwaps, trUsed, trRejected, trLost>>

\* The flush of key holds slot i for writing.
TrWriteLocked(key, i) == trFlush[key] # "idle" /\ trJob[key] = i

TrLockActive(w) ==
    LET key == getTableKey(trKind[w])
        i == trActive[key]
    IN  /\ trPc[w] = "lock"
        /\ ~TrWriteLocked(key, i)
        /\ trSlot' = [trSlot EXCEPT ![w] = i]
        /\ TrGoes(w, "append")
        /\ UNCHANGED <<trQueue, trTables, trActive, trMem, trLake, trWidth, trRow, trKind, trFlush,
                       trJob, trSwaps, trUsed, trMade, trRejected, trLost>>

\* AppendRow takes as many values as the table has columns.
TrAppend(w) ==
    LET s == TableSuffix(getTableKey(trKind[w]))
        fits == trWidth[s] = RowWidth(trKind[w])
    IN  /\ trPc[w] = "append"
        /\ trMem' = IF fits THEN [trMem EXCEPT ![s][trSlot[w]] = @ \cup {trRow[w]}] ELSE trMem
        /\ trRejected' = IF fits THEN trRejected ELSE trRejected \cup {trRow[w]}
        /\ TrGoes(w, "idle")
        /\ UNCHANGED <<trQueue, trTables, trActive, trLake, trWidth, trRow, trKind, trSlot, trFlush,
                       trJob, trSwaps, trUsed, trMade, trLost>>

-----------------------------------------------------------------------------
(* Flushes.  With the queue they run one after the other, without it each  *)
(* TableWriter has a goroutine of its own.                                 *)

TrReading(key, i) ==
    \E w \in TrWorkers : trPc[w] = "append" /\ getTableKey(trKind[w]) = key /\ trSlot[w] = i

\* flushAll or SwapAndFlush, and the wait for the slot's write lock.
TrSwap(key) ==
    /\ key \in trTables /\ trFlush[key] = "idle" /\ trSwaps < TrMaxSwaps
    /\ trQueue => \A k \in TrKeys : trFlush[k] = "idle"
    /\ ~TrReading(key, trActive[key])
    /\ trSwaps' = trSwaps + 1
    /\ trJob' = [trJob EXCEPT ![key] = trActive[key]]
    /\ trActive' = [trActive EXCEPT ![key] = 1 - @]
    /\ trFlush' = [trFlush EXCEPT ![key] = "insert"]
    /\ UNCHANGED <<trQueue, trTables, trMem, trLake, trWidth, trWork, trUsed, trMade, trRejected,
                   trLost>>

\* catalogMu is held for the INSERT only.
TrInsert(key) ==
    LET s == TableSuffix(key)
        rows == trMem[s][trJob[key]]
    IN  /\ trFlush[key] = "insert"
        /\ trLake' = [trLake EXCEPT ![s] = [r \in TrRows |-> @[r] + (IF r \in rows THEN 1 ELSE 0)]]
        /\ trFlush' = [trFlush EXCEPT ![key] = IF rows = {} THEN "idle" ELSE "truncate"]
        /\ UNCHANGED <<trQueue, trTables, trActive, trMem, trWidth, trWork, trJob, trSwaps, trUsed,
                       trMade, trRejected, trLost>>

TrTruncate(key) ==
    LET s == TableSuffix(key)
        rows == trMem[s][trJob[key]]
    IN  /\ trFlush[key] = "truncate"
        /\ trMem' = [trMem EXCEPT ![s][trJob[key]] = {}]
        /\ trLost' = trLost \cup {r \in rows : trLake[s][r] = 0}
        /\ trFlush' = [trFlush EXCEPT ![key] = "idle"]
        /\ UNCHANGED <<trQueue, trTables, trActive, trLake, trWidth, trWork, trJob, trSwaps, trUsed,
                       trMade, trRejected>>

TrNext ==
    \/ \E w \in TrWorkers :
          \/ \E r \in TrRows, k \in TrKinds : TrWrite(w, r, k)
          \/ TrGetOrCreate(w) \/ TrLockActive(w) \/ TrAppend(w)
    \/ \E k \in TrKeys : TrSwap(k) \/ TrInsert(k) \/ TrTruncate(k)

TrSpec == TrInit /\ [][TrNext]_trVars

-----------------------------------------------------------------------------
(* Properties. *)

\* Suffixes that two keys with a TableWriter share.
TrShared == {s \in TrSuffixes : Cardinality({k \in trTables : TableSuffix(k) = s}) > 1}

TrIn(s) == {r \in TrRows : trLake[s][r] > 0 \/ \E i \in {0, 1} : r \in trMem[s][i]}

\* A key has one TableWriter however many workers meet it first (getOrCreateTable
\* looks again under the lock), its row has the columns of its table, and a row that
\* was appended is copied once and not truncated before: as far as the table has
\* one key.  "1/" and "1/default" share one (see AppendWaitsForFlush).
TableRoutingSafe ==
    /\ \A k \in TrKeys : trMade[k] <= 1
    /\ \A kind \in TrKinds \ {"ping"} : RowWidth(kind) = SchemaWidth(getTableKey(kind))
    /\ TrShared = {} /\ "1/" \notin trTables => trLost = {} /\ trRejected = {}
    /\ \A s \in TrSuffixes \ TrShared, r \in TrRows : trLake[s][r] <= 1

\* The comment of copyAndClearSlot: "a concurrent append either commits before the
\* INSERT and is copied, or waits until the TRUNCATE is done".
AppendWaitsForFlush == trLost = {}
=============================================================================
