------------------------------ MODULE Registry ------------------------------
(***************************************************************************)
(* The tables that agents and administrators keep through the coordinator: *)
(* agent_location_session and hepsub_mapping_schema.  Each request is one  *)
(* statement.  No table has a unique key: the id is the client's own if it *)
(* names one, and a client whose answer got lost sends its request again.  *)
(* External: DuckDB, and the clients.                                      *)
(***************************************************************************)
EXTENDS Naturals, FiniteSets

CONSTANTS
    RgIds,          \* ids that clients name or the service generates
    RgMaxRequests   \* bound on the requests that write

ASSUME RegistryAssumption == RgMaxRequests \in Nat

VARIABLES
    rgRows,         \* rows, numbered in the order of insertion
    rgCount,        \* writes so far; a write's number stands for its content
    \* Observers.
    rgAck,          \* id -> the last write that was answered with success
    rgUsed          \* id -> how often it was inserted, and whether clients named it

rgVars == <<rgRows, rgCount, rgAck, rgUsed>>

RgInit ==
    /\ rgRows = {} /\ rgCount = 0
    /\ rgAck = [g \in RgIds |-> [op |-> "none", content |-> 0, active |-> 0]]
    /\ rgUsed = [g \in RgIds |-> {}]

RgOf(g) == {r \in rgRows : r.guid = g}
RgWrite == rgCount < RgMaxRequests /\ rgCount' = rgCount + 1

\* The client learns of success unless the answer is lost.
RgAnswer(g, op, active, lost) ==
    rgAck' = [rgAck EXCEPT ![g] = IF lost THEN [@ EXCEPT !.op = "unknown"]
                                  ELSE [op |-> op, content |-> rgCount + 1, active |-> active]]

\* Create: `named' says that the request carries the id; newGUID gives a fresh one.
\* An agent without `active' is stored as active.
RgCreate(g, named, lost) ==
    /\ RgWrite
    /\ ~named => rgUsed[g] = {}
    /\ rgRows' = rgRows \cup {[n |-> rgCount + 1, guid |-> g, content |-> rgCount + 1,
                               active |-> 1, expired |-> FALSE]}
    /\ rgUsed' = [rgUsed EXCEPT ![g] = @ \cup {named}]
    /\ RgAnswer(g, "create", 1, lost)

\* Mutant: one row only.
RgSetOne(g, active) ==
    LET first == CHOOSE r \in RgOf(g) : \A q \in RgOf(g) : r.n <= q.n
    IN IF RgOf(g) = {} THEN rgRows
       ELSE (rgRows \ {first}) \cup {[first EXCEPT !.content = rgCount + 1, !.active = active]}

\* UPDATE ... WHERE guid: no row is no error, and `active' is 0 when the request
\* leaves it out.
RgSet(g, active) ==
    {IF r.guid = g THEN [r EXCEPT !.content = rgCount + 1, !.active = active, !.expired = FALSE]
     ELSE r : r \in rgRows}

RgUpdate(g, active, lost) ==
    /\ RgWrite
    /\ rgRows' = RgSet(g, active)
    /\ RgAnswer(g, "update", active, lost)
    /\ UNCHANGED rgUsed

RgDelete(g, lost) ==
    /\ RgWrite
    /\ rgRows' = rgRows \ RgOf(g)
    /\ RgAnswer(g, "delete", 0, lost)
    /\ UNCHANGED rgUsed

\* expire_date passes: the row stays, with a TTL of 0 when it is listed.
RgExpire(r) ==
    /\ ~r.expired
    /\ rgRows' = (rgRows \ {r}) \cup {[r EXCEPT !.expired = TRUE]}
    /\ UNCHANGED <<rgCount, rgAck, rgUsed>>

RgNext ==
    \/ \E g \in RgIds, lost \in BOOLEAN :
          \/ \E named \in BOOLEAN : RgCreate(g, named, lost)
          \/ \E active \in {0, 1} : RgUpdate(g, active, lost)
          \/ RgDelete(g, lost)
    \/ \E r \in rgRows : RgExpire(r)

-----------------------------------------------------------------------------
(* What the reads answer. *)

\* GetByUUID, GetByGUID: the first row of the result, in no order.
RgGet(g) == RgOf(g)

\* List and Search: every row, the expired ones too.
RgList == rgRows

-----------------------------------------------------------------------------
(* Properties. *)

\* What an answered write means, retries and named ids included: after an update
\* every row of the id reads as it was written, so that GetByUUID may return any of
\* them, except that an id without a row was updated in vain (Update answers 200 for
\* it); after a delete none is found; after a create one is found.  An id has two
\* rows only if a client named it, and a row is inactive only because the last update
\* said so or left `active' out.
RegistrySafe ==
    \A g \in RgIds :
        /\ rgAck[g].op = "update" =>
              \A r \in RgGet(g) : r.content = rgAck[g].content /\ r.active = rgAck[g].active
        /\ rgAck[g].op = "delete" => RgGet(g) = {}
        /\ rgAck[g].op = "create" => \E r \in RgGet(g) : r.content = rgAck[g].content
        /\ Cardinality({r \in RgList : r.guid = g}) > 1 => TRUE \in rgUsed[g]
=============================================================================
