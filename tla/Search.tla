------------------------------- MODULE Search -------------------------------
(***************************************************************************)
(* A search of the coordinator over its storage nodes.  FlightService      *)
(* keeps, for every node, whether the last health check reached it and     *)
(* which time range its tables then held; with smart routing a query goes  *)
(* only to the connected nodes whose range may overlap its window.         *)
(* SearchHandler builds a request out of such queries: time slices, event  *)
(* tables, a second query for the full rows, and a second one for the      *)
(* sessions a correlation script adds.                                     *)
(*                                                                         *)
(* Meanwhile nodes store, flush and drop rows, and the health check asks   *)
(* them, without a lock, for the ranges it will store later.  Any call to  *)
(* a node may fail.  External: a node answers a query with the rows it has *)
(* at that moment, those not yet flushed included; its statistics are of   *)
(* the flushed rows of the hep_proto tables only.                          *)
(***************************************************************************)
EXTENDS Naturals, FiniteSets, SequencesExt

CONSTANTS
    SeNodes,
    SeRowSet,       \* rows [node, t, table, sid]
    SeWindows,      \* <<from, to>>; <<0, 0>> is no bound
    SeLimit,        \* param.limit
    SeChunk,        \* lake_chunk_sec
    SeSlack,        \* smartRoutingMaxSlackNs
    MaxChanges      \* rows that come or go, flushes, health checks, failed queries

SeTableNames == {"call", "registration", "rtcp", "otlp"}

ASSUME SearchAssumption ==
    /\ IsFiniteSet(SeNodes) /\ IsFiniteSet(SeRowSet)
    /\ SeRowSet \subseteq [node : SeNodes, t : Nat, table : SeTableNames,
                           sid : {"own", "leg"}]
    /\ SeWindows \subseteq Nat \X Nat
    /\ {SeLimit, SeChunk} \subseteq Nat \ {0} /\ {SeSlack, MaxChanges} \subseteq Nat

VARIABLES
    seRows,         \* what the nodes hold
    seLake,         \* ... in their lake tables
    seConnected, seRange,       \* FlightService.connected, rangeCache
    seProbe,        \* node -> what the running health check has seen of it
    se,             \* the request
    seChanges,
    \* Observers.
    seUnseen,       \* rows that the cached ranges do not speak of
    seHeld,         \* rows a node has held since the request began
    seMissed,       \* <<node, table>>: not asked, or failed, in a query for rows
    seBare,         \* nodes not asked for full rows, or failed
    seWronged       \* rows passed over although the cached range speaks of them

seStore == <<seRows, seLake, seUnseen>>
seSeen == <<seConnected, seRange>>
seVars == <<seStore, seSeen, seProbe, se, seChanges, seHeld, seMissed, seBare, seWronged>>

Unknown == <<0, 0>>

SeMin(S) == CHOOSE x \in S : \A y \in S : x <= y
SeMax(S) == CHOOSE x \in S : \A y \in S : x >= y

\* Rows by their timestamps, those of one timestamp in the order they came in.
\* (A transaction orders those by their ids, which the rows here do not have.)
Ahead(s, order, i, j) ==
    \/ order = "DESC" /\ s[i].t > s[j].t
    \/ order = "ASC" /\ s[i].t < s[j].t
    \/ s[i].t = s[j].t /\ i < j

ByTime(s, order) ==
    LET place == [i \in DOMAIN s |-> Cardinality({j \in DOMAIN s : Ahead(s, order, j, i)}) + 1]
    IN  [k \in DOMAIN s |-> s[CHOOSE i \in DOMAIN s : place[i] = k]]

Newest(S) == ByTime(SetToSeq(S), "DESC")
Oldest(S) == ByTime(SetToSeq(S), "ASC")
Cut(s, n) == IF Len(s) > n THEN SubSeq(s, 1, n) ELSE s
Elems(s) == {s[i] : i \in DOMAIN s}

\* The flushed rows of the tables nodeTimeRange looks at.
Counted(n) == {r \in seLake : r.node = n /\ r.table # "otlp"}

NodeTimeRange(n) ==
    LET ts == {r.t : r \in Counted(n)}
    IN IF ts = {} THEN Unknown ELSE <<SeMin(ts), SeMax(ts)>>

SeIdle == [at |-> "idle"]

\* ConnectAll reached every node, and one health check may have followed; most of
\* the rows are there, those of a second leg not flushed yet.
SeInit ==
    /\ seRows \in {S \in SUBSET SeRowSet : Cardinality(SeRowSet \ S) <= MaxChanges}
    /\ seLake = {r \in seRows : r.sid = "own"}
    /\ seConnected = SeNodes
    /\ seRange \in {[n \in SeNodes |-> Unknown], [n \in SeNodes |-> NodeTimeRange(n)]}
    /\ seProbe = <<>>
    /\ se = SeIdle
    /\ seChanges = 0
    /\ seUnseen = seRows \ UNION {Counted(n) : n \in SeNodes}
    /\ seHeld = {} /\ seMissed = {} /\ seBare = {} /\ seWronged = {}

-----------------------------------------------------------------------------
(* The nodes. *)

\* What happens after the answer does not matter to it.
SeChange ==
    /\ seChanges < MaxChanges /\ se.at \notin {"done", "error"}
    /\ seChanges' = seChanges + 1

SeStoreRow(r) ==
    /\ SeChange
    /\ r \notin seRows
    /\ seRows' = seRows \cup {r}
    /\ seUnseen' = seUnseen \cup {r}
    /\ UNCHANGED <<seLake, seSeen, seProbe, se, seHeld, seMissed, seBare, seWronged>>

\* An imported file goes to the first connected node only.
InsertFirstConnected(r) ==
    /\ seConnected # {}
    /\ r.node = CHOOSE n \in seConnected : TRUE
    /\ SeStoreRow(r)

SeFlush(n) ==
    /\ SeChange
    /\ seLake' = seLake \cup {r \in seRows : r.node = n}
    /\ seLake' # seLake
    /\ UNCHANGED <<seRows, seUnseen, seSeen, seProbe, se, seHeld, seMissed, seBare, seWronged>>

\* Retention drops the oldest rows of a node.
SeRetire(n) ==
    /\ SeChange
    /\ \E r \in seLake :
          LET old == {x \in seLake : x.node = n /\ x.t <= r.t}
          IN /\ r.node = n
             /\ seRows' = seRows \ old /\ seLake' = seLake \ old
             /\ seHeld' = seHeld \ old /\ seUnseen' = seUnseen \ old
    /\ UNCHANGED <<seSeen, seProbe, se, seMissed, seBare, seWronged>>

-----------------------------------------------------------------------------
(* healthCheckLoop. *)

\* One node is asked; s.mu is not held.  The rows its statistics count are
\* remembered with the answer.
CheckNode(n) ==
    /\ DOMAIN seProbe # SeNodes
    /\ n = CHOOSE m \in SeNodes : m \notin DOMAIN seProbe
    /\ IF seProbe = <<>> THEN SeChange ELSE UNCHANGED seChanges
    /\ \E res \in {[up |-> FALSE, known |-> FALSE], [up |-> TRUE, known |-> FALSE],
                   [up |-> TRUE, known |-> TRUE]} :
          seProbe' = [m \in DOMAIN seProbe \cup {n} |->
                        IF m # n THEN seProbe[m]
                        ELSE [up |-> res.up, known |-> res.known,
                              range |-> NodeTimeRange(n), counted |-> Counted(n)]]
    /\ UNCHANGED <<seStore, seSeen, se, seHeld, seMissed, seBare, seWronged>>

\* A node whose statistics are not known is not ruled out.
ApplyRange(n) == IF seProbe[n].known THEN seProbe[n].range ELSE Unknown

\* All results at once, under s.mu.
ApplyHealth ==
    /\ DOMAIN seProbe = SeNodes
    /\ seConnected' = {n \in SeNodes : seProbe[n].up}
    /\ seRange' = [n \in SeNodes |-> IF seProbe[n].up THEN ApplyRange(n) ELSE seRange[n]]
    /\ seUnseen' = {r \in seUnseen : ~seProbe[r.node].up \/ r \notin seProbe[r.node].counted}
                   \cup {r \in seRows : seProbe[r.node].up /\ r \notin seProbe[r.node].counted}
    /\ seProbe' = <<>>
    /\ UNCHANGED <<seRows, seLake, se, seChanges, seHeld, seMissed, seBare, seWronged>>

-----------------------------------------------------------------------------
(* QueryWithRange. *)

TooOld(n, from) == seRange[n][2] > 0 /\ seRange[n][2] + SeSlack < from
TooNew(n, to) == seRange[n][1] > 0 /\ seRange[n][1] > to

\* Mutant: a node is passed over when its newest row is older than the end of
\* the window.
NodesForRangeWhole(win) == {n \in seConnected : ~TooOld(n, win[2]) /\ ~TooNew(n, win[2])}

nodesForRange(win) ==
    LET kept == {n \in seConnected : ~TooOld(n, win[1]) /\ ~TooNew(n, win[2])}
    IN IF win = <<0, 0>> \/ kept = {} THEN seConnected ELSE kept

\* buildSearchSQLV4 and transactionMessagesSelectSQL: the rows a query selects.
Selects(r) ==
    /\ r.table = se.table
    /\ r.sid \in se.ids
    /\ se.win = <<0, 0>> \/ (se.win[1] <= r.t /\ (r.t < se.win[2] \/ (r.t = se.win[2] /\ se.incl)))
    /\ se.for = "full" => r \in Elems(se.got)
    /\ se.kind = "message" => r = se.wanted

\* The targets are fixed in one read-locked section.
SeRoute ==
    /\ se.at = "route"
    /\ LET targets == nodesForRange(se.win)
           passed == {r \in seRows : Selects(r) /\ r.node \in seConnected \ targets}
           others == SeNodes \ targets
       IN /\ se' = [se EXCEPT !.at = "fan", !.left = targets, !.ok = FALSE, !.err = FALSE,
                              !.rows = <<>>]
          /\ seWronged' = seWronged \cup (passed \ seUnseen)
          /\ IF se.for = "full"
             THEN seBare' = seBare \cup others /\ UNCHANGED seMissed
             ELSE seMissed' = seMissed \cup (others \X {se.table}) /\ UNCHANGED seBare
    /\ UNCHANGED <<seStore, seSeen, seProbe, seChanges, seHeld>>

\* The rows of one node: newest first and at most LIMIT, any LIMIT of them
\* without ORDER BY, oldest first for a transaction.
NodeRows(n) ==
    LET all == {r \in seRows : r.node = n /\ Selects(r)}
    IN CASE se.for = "full" -> {Newest(all)}
         [] se.for \in {"base", "again", "expand", "last"} -> {Oldest(all)}
         [] se.for = "rows" /\ se.strategy = "stream" ->
              {Newest(S) : S \in {T \in SUBSET all :
                 Cardinality(T) = IF Cardinality(all) < SeLimit THEN Cardinality(all) ELSE SeLimit}}
         [] OTHER -> {Cut(Newest(all), SeLimit)}

\* Results are appended in the order the nodes answer.
QueryNode(n) ==
    /\ se.at = "fan" /\ n \in se.left
    /\ \/ /\ \E s \in NodeRows(n) :
                se' = [se EXCEPT !.left = @ \ {n}, !.ok = TRUE, !.rows = @ \o s]
          /\ UNCHANGED <<seMissed, seBare, seChanges>>
       \/ /\ se' = [se EXCEPT !.left = @ \ {n}, !.err = TRUE]
          /\ SeChange
          /\ IF se.for = "full"
             THEN seBare' = seBare \cup {n} /\ UNCHANGED seMissed
             ELSE seMissed' = seMissed \cup {<<n, se.table>>} /\ UNCHANGED seBare
    /\ UNCHANGED <<seStore, seSeen, seProbe, seHeld, seWronged>>

-----------------------------------------------------------------------------
(* SearchHandler. *)

\* Mutant: every slice includes its upper bound.
SplitClosed(win) ==
    LET edge(i) == IF win[2] > win[1] + i * SeChunk THEN win[2] - i * SeChunk ELSE win[1]
        n == (win[2] - win[1] + SeChunk - 1) \div SeChunk
    IN IF win = <<0, 0>> \/ win[2] - win[1] <= SeChunk THEN <<[win |-> win, incl |-> TRUE]>>
       ELSE [i \in 1 .. n |-> [win |-> <<edge(i), edge(i - 1)>>, incl |-> TRUE]]

\* Newest slice first; only that one includes its upper bound.
splitSearchTimeRange(win) ==
    LET edge(i) == IF win[2] > win[1] + i * SeChunk THEN win[2] - i * SeChunk ELSE win[1]
        n == (win[2] - win[1] + SeChunk - 1) \div SeChunk
    IN IF win = <<0, 0>> \/ win[2] - win[1] <= SeChunk THEN <<[win |-> win, incl |-> TRUE]>>
       ELSE [i \in 1 .. n |-> [win |-> <<edge(i), edge(i - 1)>>, incl |-> i = 1]]

\* The queries of one table begin.
StartTable(req) ==
    LET chunks == IF req.kind = "search" /\ req.strategy = "chunked"
                  THEN splitSearchTimeRange(req.asked) ELSE <<[win |-> req.asked, incl |-> TRUE]>>
    IN [req EXCEPT !.at = "route", !.table = Head(req.tables), !.tables = Tail(req.tables),
                   !.win = chunks[1].win, !.incl = chunks[1].incl, !.chunks = Tail(chunks),
                   !.got = <<>>,
                   !.for = CASE req.kind = "search" -> "rows"
                             [] req.kind = "messages" -> "base"
                             [] OTHER -> "last"]

SeRequest(kind, win, tables, ids) ==
    [at |-> "route", kind |-> kind, asked |-> win, strategy |-> "full", lazy |-> FALSE,
     want |-> Elems(tables), tables |-> tables, table |-> Head(tables), chunks |-> <<>>,
     win |-> win, incl |-> TRUE, for |-> "last", ids |-> ids, wanted |-> 0,
     left |-> {}, ok |-> FALSE, err |-> FALSE, rows |-> <<>>,
     got |-> <<>>, all |-> <<>>, full |-> {}, served |-> 0, failed |-> FALSE]

Several(req) == Cardinality(req.want) > 1

resolveSearchTables == {<<"call">>, <<"call", "registration">>}

\* V4TransactionsSearch.  Slices and streaming are for searches by time of one
\* SIP table, full rows are fetched later for them too.
SearchRequest(win, tables, strategy, lazy) ==
    [SeRequest("search", win, tables, {"own", "leg"}) EXCEPT
        !.strategy = IF tables = <<"otlp">> THEN "full" ELSE strategy,
        !.lazy = lazy /\ tables # <<"otlp">>]

\* V4TransactionsList: one query.
ListRequest(win) == SearchRequest(win, <<"call">>, "full", FALSE)

\* V4RawQuery: the text is the caller's, so that no node can be passed over.
RawRequest == ListRequest(<<0, 0>>)

\* V4MCPQuery: a language model writes the search or the SQL; if it fails, rules
\* do, unless the caller insisted on the model.
MCPRequests(win) ==
    {SearchRequest(win, <<"call">>, "chunked", FALSE), RawRequest,
     [ListRequest(win) EXCEPT !.at = "error"]}

\* V4TransactionMessages.
MessagesRequest(win, tables) == SeRequest("messages", win, tables, {"own"})

\* V4MessageGet, V4MessageDecoded: one row, by its uuid.
MessageRequest(win, tables, r) ==
    [SeRequest("message", win, tables, {"own", "leg"}) EXCEPT !.wanted = r]

\* V4TransactionSub, V4TransactionOtlpLogs...: one query.
DetailRequest(win, tables) == SeRequest("detail", win, tables, {"own"})

\* expandCorrelatedSessionIDs: before the query itself, a first one for the rows
\* the correlation script looks at.
Expanding(req) == [req EXCEPT !.for = "expand", !.table = "call"]

\* V4TransactionCallInfo, V4TransactionEvents, fetchTransactionRowsWithRequest.
CorrelatedRequest(win) == Expanding(DetailRequest(win, <<"call">>))

\* V4TransactionQos.
QosRequest(win) == Expanding(SeRequest("qos", win, <<"rtcp", "otlp">>, {"own"}))

SeBegin(req) ==
    /\ se = SeIdle
    /\ se' = IF req.at = "error" \/ req.for = "expand" THEN req ELSE StartTable(req)
    /\ seHeld' = seRows
    /\ UNCHANGED <<seStore, seSeen, seProbe, seChanges, seMissed, seBare, seWronged>>

\* A table is done with the rows s, or has failed: the next one, or the answer.
\* Several tables are merged, and an error is reported when none had a result.
\* A message is looked for until it is found; QoS shows what there is.
FinishTable(req, s, good) ==
    LET r == [req EXCEPT !.all = @ \o s, !.served = IF good THEN @ + 1 ELSE @,
                         !.failed = @ \/ ~good]
        merged == CASE r.kind = "search" /\ Several(r) ->
                         Cut(ByTime(r.all, "DESC"), SeLimit)
                    [] r.kind = "messages" /\ Several(r) -> ByTime(r.all, "ASC")
                    [] r.kind = "message" -> Cut(r.all, 1)
                    [] OTHER -> r.all
        nothing == IF r.kind = "search" THEN r.served = 0 ELSE r.all = <<>>
    IN IF r.tables # <<>> /\ ~(r.kind = "message" /\ r.all # <<>>) THEN StartTable(r)
       ELSE IF r.failed /\ nothing /\ r.kind # "qos" THEN [r EXCEPT !.at = "error"]
       ELSE [r EXCEPT !.at = "done", !.all = merged]

\* Mutant: rows whose full form was not found are left out.
HydratedOnly(req) == SelectSeq(req.got, LAMBDA r : r \in Elems(req.rows))

\* A row is replaced by its full form, or stays as it is.
hydrateHeavyColumns(req) == req.got

\* The answers to a query for rows: the next slice, then the full rows.
SearchGathered(req) ==
    LET sofar == req.got \o req.rows
        s == CASE req.strategy = "chunked" -> Cut(sofar, SeLimit)
               [] req.strategy = "stream" -> Cut(ByTime(req.rows, "DESC"), SeLimit)
               [] OTHER -> req.rows
        ts == {s[i].t : i \in DOMAIN s}
    IN IF ~req.ok /\ req.err THEN FinishTable(req, <<>>, FALSE)
       ELSE IF req.strategy = "chunked" /\ req.chunks # <<>> /\ Len(sofar) < SeLimit
       THEN [req EXCEPT !.at = "route", !.got = sofar, !.chunks = Tail(@),
                        !.win = Head(req.chunks).win, !.incl = Head(req.chunks).incl]
       ELSE IF req.lazy /\ s # <<>>
       THEN [req EXCEPT !.at = "route", !.for = "full", !.got = s,
                        !.win = <<SeMin(ts), SeMax(ts)>>, !.incl = TRUE]
       ELSE FinishTable(req, s, TRUE)

\* The answers to a query of a transaction.
MessagesGathered(req) ==
    LET bad == ~req.ok /\ req.err
        s == ByTime(req.rows, "ASC")
    IN FinishTable(req, IF req.for = "again" /\ bad THEN req.got ELSE s,
                   req.for = "again" \/ ~bad)

Gathered(req) ==
    CASE req.for = "rows" -> SearchGathered(req)
      [] req.for = "full" -> FinishTable([req EXCEPT !.full = @ \cup Elems(req.rows)],
                                         hydrateHeavyColumns(req), TRUE)
      [] req.for \in {"base", "again"} -> MessagesGathered(req)
      [] req.for = "expand" -> StartTable(req)
      [] req.for = "last" -> FinishTable(req, req.rows, req.ok \/ ~req.err)

\* The correlation script may name further sessions, if the query it looks at had
\* a result: then the table is asked (again) for all of them.  No script is run for
\* several tables.
SeGather ==
    /\ se.at = "fan" /\ se.left = {}
    /\ \/ se' = Gathered(se)
       \/ /\ se.ok \/ ~se.err
          /\ \/ /\ se.for = "base" /\ ~Several(se)
                /\ se' = [se EXCEPT !.at = "route", !.for = "again", !.ids = {"own", "leg"},
                                    !.got = ByTime(se.rows, "ASC")]
             \/ /\ se.for = "expand"
                /\ se' = StartTable([se EXCEPT !.ids = {"own", "leg"}])
    /\ UNCHANGED <<seStore, seSeen, seProbe, seChanges, seHeld, seMissed, seBare, seWronged>>

Requests ==
    UNION {{SearchRequest(win, tables, strategy, lazy) :
              tables \in resolveSearchTables \cup {<<"otlp">>},
              strategy \in {"full", "stream", "chunked"}, lazy \in BOOLEAN}
           \cup {MessagesRequest(win, tables) : tables \in resolveSearchTables \cup {<<"otlp">>}}
           \cup {MessageRequest(win, tables, r) : tables \in resolveSearchTables, r \in SeRowSet}
           \cup {ListRequest(win), DetailRequest(win, <<"otlp">>), CorrelatedRequest(win),
                 QosRequest(win)}
           \cup MCPRequests(win) : win \in SeWindows}

SeNext ==
    \/ \E r \in SeRowSet : SeStoreRow(r) \/ InsertFirstConnected(r)
    \/ \E n \in SeNodes : SeFlush(n) \/ SeRetire(n) \/ CheckNode(n) \/ QueryNode(n)
    \/ ApplyHealth
    \/ \E req \in Requests : SeBegin(req)
    \/ SeRoute \/ SeGather

-----------------------------------------------------------------------------
(* Properties. *)

InAnswer == Elems(se.all)

Asked(r) ==
    /\ r.table \in se.want
    /\ r.sid \in se.ids
    /\ se.kind = "message" => r = se.wanted
    /\ se.asked = <<0, 0>> \/ (se.asked[1] <= r.t /\ r.t <= se.asked[2])

\* An answer has only rows that were asked for, and each of them once: slices
\* share their edges and tables are merged, but no row comes twice.
AnswerSound ==
    se.at = "done" =>
        /\ \A r \in InAnswer : Asked(r)
        /\ Cardinality(InAnswer) = Len(se.all)

\* A row that a node held all the while is missing only if that node was not
\* asked or failed in a query of the row's table, or the limit was reached; and
\* then, unless the rows were streamed without ORDER BY, no older row of the same
\* node and table is in the answer.
AnswerComplete ==
    se.at = "done" =>
        \A r \in seHeld : Asked(r) /\ r \notin InAnswer =>
            \/ <<r.node, r.table>> \in seMissed
            \/ /\ se.kind = "search" /\ Len(se.all) >= SeLimit
               /\ se.strategy = "stream" \/ \A x \in InAnswer :
                     x.node = r.node /\ x.table = r.table => x.t >= r.t

\* A transaction is oldest first; rows that were streamed or merged from several
\* tables are newest first.  (Slices of several nodes are not: each node's rows
\* come together.)
AnswerOrdered ==
    se.at = "done" =>
        \A i, j \in DOMAIN se.all : i < j =>
            /\ se.kind = "messages" => se.all[i].t <= se.all[j].t
            /\ se.kind = "search" /\ (Several(se) \/ se.strategy = "stream"
                                      \/ (se.strategy = "chunked" /\ se.all[i].node = se.all[j].node))
                 => se.all[i].t >= se.all[j].t

\* A row without its payload was gone when it was asked for again, or its node
\* was not asked or failed.
BareRowsExplained ==
    se.at = "done" /\ se.lazy =>
        \A r \in InAnswer \cap seHeld : r \in se.full \/ r.node \in seBare

\* A node is passed over only for rows that the range in the cache does not speak
\* of: rows that came, or were flushed, after the statistics were read, and rows
\* of other tables than hep_proto.
RoutingSafe == seWronged = {}

SearchSafe ==
    /\ AnswerSound
    /\ AnswerComplete
    /\ AnswerOrdered
    /\ BareRowsExplained
    /\ RoutingSafe
=============================================================================
