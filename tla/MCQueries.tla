------------------------------ MODULE MCQueries ------------------------------
(***************************************************************************)
(* Components of the coordinator and of the node that keep no state in     *)
(* common, checked in one run: `area' is the one whose steps a behaviour   *)
(* takes.                                                                  *)
(***************************************************************************)
EXTENDS Netris, NetChess, Search, NodeQuery, NodeHandle, CallInfo, TLC

VARIABLE area

Areas == {"netris", "netchess", "search", "query", "handle", "callinfo"}

\* Two players and two rooms, or three players and one room: a socket has left, or
\* the wait in a room is over and its player has left.
ChessInit ==
    \/ NcInitFrom([i \in NcRoomIds |-> NcEmpty], {3})
    \/ /\ area = "netchess"
       /\ \E c \in NcCodes :
             NcInitFrom([i \in NcRoomIds |-> IF i = 2 THEN [NcEmpty EXCEPT !.code = c, !.ended = TRUE]
                                            ELSE NcEmpty], {})

\* An area that does not run starts in one of its initial states.  When a node's
\* query begins, the older rows may be anywhere and the newest is stored, but not
\* tiered yet; a node that uses the writer's database needs no credentials of its own.
AreaInit ==
    /\ area \in Areas
    /\ NrInit
    /\ ChessInit
    /\ SeInit /\ (area # "search" => seRows = SeRowSet /\ seRange = [n \in SeNodes |-> Unknown])
    /\ NqInit /\ (IF area = "query" THEN \A r \in NqRows : r.t > 1 => nqAt[r] \in {{"mem"}, {"hot"}}
                  ELSE nqAt = [r \in NqRows |-> {}])
    /\ NhInit /\ (IF area = "handle" THEN nhVols = NhVolumes /\ nhCfg.fsql /\ nhCfg.chain = ~nhCfg.shared
                  ELSE nhVols = NhVolumes /\ nhCfg = [shared |-> TRUE, fsql |-> TRUE, chain |-> FALSE])
    /\ CiInit

\* An area that does not run keeps its state.
Idle(a, v) == IF area = a THEN TRUE ELSE UNCHANGED v

AreaNext ==
    /\ \/ area = "netris" /\ NrNext
       \/ area = "netchess" /\ NcNext
       \/ area = "search" /\ SeNext
       \/ area = "query" /\ NqNext
       \/ area = "handle" /\ NhNext
       \/ area = "callinfo" /\ CiNext
    /\ Idle("netris", nrVars)
    /\ Idle("netchess", ncVars)
    /\ Idle("search", seVars)
    /\ Idle("query", nqVars)
    /\ Idle("handle", nhVars)
    /\ Idle("callinfo", ciVars)
    /\ UNCHANGED area

AreaSpec == AreaInit /\ [][AreaNext]_<<area, nrVars, ncVars, seVars, nqVars, nhVars, ciVars>>

-----------------------------------------------------------------------------
(* Two nodes hold legs of one call, a registration, an RTCP report and OTLP *)
(* records.                                                                 *)

SeRow(n, t, table, sid) == [node |-> n, t |-> t, table |-> table, sid |-> sid]

MCRows == {SeRow("n1", 1, "call", "own"), SeRow("n1", 2, "call", "leg"),
           SeRow("n2", 2, "call", "own"), SeRow("n2", 3, "registration", "own"),
           SeRow("n1", 3, "rtcp", "leg"), SeRow("n2", 4, "otlp", "own")}

MCNqRows == {[id |-> 1, t |-> 1], [id |-> 2, t |-> 1], [id |-> 3, t |-> 2]}

MCNqWindow == <<0, 2>>

MCWindows == {<<1, 3>>, <<3, 4>>}

-----------------------------------------------------------------------------
(* Properties.  An area is looked at where it runs: elsewhere it is in an initial *)
(* state of its own. *)

Of(a, safe) == area = a => safe

\* The game hubs: seats, clocks and room timers (NetrisSafe, NetChessSafe).
GamesSafe == Of("netris", NetrisSafe) /\ Of("netchess", NetChessSafe)

\* What a client is answered: the coordinator's merge over nodes (SearchSafe), the
\* node's merge over volumes and memory (NodeQuerySafe), on a database handle that
\* is open as long as the request uses it (NodeHandleSafe), and what it is told of a
\* call whose messages were found (CallInfoSafe).
QueriesSafe ==
    /\ Of("search", SearchSafe) /\ Of("query", NodeQuerySafe) /\ Of("handle", NodeHandleSafe)
    /\ Of("callinfo", CallInfoSafe)
=============================================================================
