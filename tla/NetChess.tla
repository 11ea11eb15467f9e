------------------------------ MODULE NetChess ------------------------------
(***************************************************************************)
(* The hub of the two-player chess game and the WebSocket handler in front *)
(* of it: rooms, the quick-match queue, spectators, the waiting timer, the *)
(* game with its clocks and its flag timer, offers and takebacks.          *)
(*                                                                         *)
(* Every hub operation runs under hub.mu, so it is one step.  A timer that *)
(* has fired waits for hub.mu and can no longer be stopped.  The chess     *)
(* library is external: a move is legal or not, and ends the game or not.  *)
(* Unlike the hub of Netris this one keeps a player's room and place in    *)
(* the queue when it leaves, and closes the outbox when waiting times out. *)
(***************************************************************************)
EXTENDS Naturals, FiniteSets

CONSTANTS
    NcPlayers,      \* sockets, numbered in the order in which they join
    NcCodes,        \* room codes that players name; any text, the code of a quick
                    \* room too
    NcRoomIds,      \* rooms ever created
    InitialMS,      \* a side's time when the game starts
    MaxClock,       \* bound on a side's time
    MaxMoves        \* bound on the half-moves of a game

ASSUME NetChessAssumption ==
    /\ NcPlayers \subseteq Nat \ {0} /\ IsFiniteSet(NcPlayers) /\ IsFiniteSet(NcCodes)
    /\ NcRoomIds \subseteq Nat \ {0} /\ IsFiniteSet(NcRoomIds)
    /\ InitialMS \in Nat \ {0} /\ MaxClock \in Nat /\ MaxMoves \in Nat

None == 0

VARIABLES
    ncRooms,    \* hub.rooms: code -> room; a quick room's code is its own number
    ncRoom,     \* the Room structs
    ncQueue,    \* hub.queue
    ncPlayer    \* socket -> where its handler is and the Player struct

(* Observers. *)
VARIABLES
    ncTwice,    \* a room announced a result a second time
    ncAstray,   \* a takeback that did not leave the requester to move, or undid an
                \* answered half-move
    ncAlone,    \* rooms whose lone player is explained: its opponent left before the
                \* game, the queue named a player who had left, or another room of the
                \* same code removed or replaced the entry
    ncNamed     \* rooms that a player entered by its code while they were the queue's

ncHub == <<ncRooms, ncRoom, ncQueue>>
ncSeen == <<ncTwice, ncAstray, ncAlone, ncNamed>>
ncVars == <<ncHub, ncPlayer, ncSeen>>

Sides == {"white", "black"}

NcEmpty ==
    [code |-> 0, seat |-> [s \in Sides |-> None], spectators |-> {}, wait |-> "off",
     inc |-> 0, started |-> FALSE, ended |-> FALSE, moves |-> 0,
     clock |-> [s \in Sides |-> InitialMS], elapsed |-> 0, flag |-> "off", fired |-> FALSE,
     draw |-> None, back |-> None]

NcNew == [at |-> "new", room |-> 0, ready |-> FALSE, spectator |-> FALSE, out |-> "open"]

NcTypeOK ==
    /\ \A c \in DOMAIN ncRooms : ncRooms[c] \in NcRoomIds
    /\ \A i \in NcRoomIds :
          LET r == ncRoom[i]
          IN /\ \A s \in Sides : r.seat[s] \in NcPlayers \cup {None} /\ r.clock[s] \in 0..MaxClock
             /\ r.moves \in 0..MaxMoves /\ r.elapsed \in 0..MaxClock
             /\ r.wait \in {"off", "armed", "fired"} /\ r.flag \in {"off", "armed"}
    /\ ncQueue \in NcPlayers \cup {None}
    /\ \A p \in NcPlayers : ncPlayer[p].at \in {"new", "open", "draining", "gone", "lost"}

\* The hub in the middle of a day: rooms that were used, sockets that have left.
NcInitFrom(rooms, gone) ==
    /\ ncRooms = [c \in {} |-> 0]
    /\ ncRoom = rooms
    /\ ncQueue = None
    /\ ncPlayer = [p \in NcPlayers |-> IF p \in gone THEN [NcNew EXCEPT !.at = "gone", !.out = "closed"]
                                       ELSE NcNew]
    /\ ncTwice = FALSE
    /\ ncAstray = FALSE
    /\ ncAlone = {}
    /\ ncNamed = {}

NcInit == NcInitFrom([i \in NcRoomIds |-> NcEmpty], {})

-----------------------------------------------------------------------------
NcDelete(rooms, c) == [x \in DOMAIN rooms \ {c} |-> rooms[x]]
NcPut(rooms, c, i) == [x \in DOMAIN rooms \cup {c} |-> IF x = c THEN i ELSE rooms[x]]
NcStop(wait) == IF wait = "armed" THEN "off" ELSE wait

Seated(i) == {ncRoom[i].seat[s] : s \in Sides} \ {None}
Both(r) == \A s \in Sides : r.seat[s] # None
SideOf(r, p) == CHOOSE s \in Sides : r.seat[s] = p
Turn(moves) == IF moves % 2 = 0 THEN "white" ELSE "black"
OpponentOf(r, p) == r.seat[IF r.seat["white"] = p THEN "black" ELSE "white"]

NcConnects(p) ==
    ncPlayer[p].at = "new" /\ \A q \in NcPlayers : ncPlayer[q].at = "new" => p <= q

NcUnused == {i \in NcRoomIds : ncRoom[i] = NcEmpty /\ \A p \in NcPlayers : ncPlayer[p].room # i}
NcSits(p, i) == [ncPlayer EXCEPT ![p].at = "open", ![p].room = i]

\* The room that i replaces under the code c.
NcReplaces(c, i) == IF c \in DOMAIN ncRooms THEN {ncRooms[c]} \ {i} ELSE {}

\* createRoom, seatFirst, armWaitTimer.
NcCreate(p, i, c) ==
    \E s \in Sides :
        /\ ncRooms' = NcPut(ncRooms, c, i)
        /\ ncRoom' = [ncRoom EXCEPT ![i] = [NcEmpty EXCEPT !.code = c, !.seat[s] = p,
                                                           !.wait = "armed"]]
        /\ ncPlayer' = NcSits(p, i)

\* seatSecond: white if it is free, and else black, free or not.
SeatSecond(p, i) ==
    LET s == IF ncRoom[i].seat["white"] = None THEN "white" ELSE "black"
    IN ncRoom' = [ncRoom EXCEPT ![i].seat[s] = p, ![i].wait = NcStop(@)]

\* A room nobody sits in: the second player waits there alone.
NcEmptied(i) == IF Seated(i) = {} THEN {i} ELSE {}

\* The room of the player whom the queue names.
NcWaits(i) == ncQueue # None /\ ncPlayer[ncQueue].room = i

NcJoinRoom(p, c) ==
    /\ NcConnects(p)
    /\ IF c \in DOMAIN ncRooms
       THEN /\ ~Both(ncRoom[ncRooms[c]])
            /\ SeatSecond(p, ncRooms[c])
            /\ ncPlayer' = NcSits(p, ncRooms[c])
            /\ ncAlone' = ncAlone \cup NcEmptied(ncRooms[c])
            /\ ncNamed' = IF NcWaits(ncRooms[c]) THEN ncNamed \cup {ncRooms[c]} ELSE ncNamed
            /\ UNCHANGED ncRooms
       ELSE /\ \E i \in NcUnused : (\A j \in NcUnused : i <= j) /\ NcCreate(p, i, c)
            /\ UNCHANGED <<ncAlone, ncNamed>>
    /\ UNCHANGED <<ncQueue, ncTwice, ncAstray>>

\* JoinRoom's ErrRoomFull: an error frame, and the socket is closed.
NcRefused(p, c) ==
    /\ NcConnects(p)
    /\ c \in DOMAIN ncRooms /\ Both(ncRoom[ncRooms[c]])
    /\ ncPlayer' = [ncPlayer EXCEPT ![p].at = "gone"]
    /\ UNCHANGED <<ncHub, ncSeen>>

\* The queued player's room is taken as it is.  If that player still sits there with
\* its outbox closed, notifyMatched panics: the middleware recovers, and the new
\* player keeps a seat that nobody will give up.
NcJoinQuick(p) ==
    /\ NcConnects(p)
    /\ IF ncQueue = None
       THEN /\ \E i \in NcUnused : /\ \A j \in NcUnused : i <= j
                                   /\ NcCreate(p, i, i)
                                   /\ ncAlone' = ncAlone \cup NcReplaces(i, i)
            /\ ncQueue' = p
       ELSE LET i == ncPlayer[ncQueue].room
                panics == \E q \in Seated(i) : ncPlayer[q].out = "closed"
            IN /\ ncQueue' = None
               /\ ncRooms' = NcPut(ncRooms, i, i)
               /\ SeatSecond(p, i)
               /\ ncPlayer' = [NcSits(p, i) EXCEPT
                                  ![p].at = IF panics THEN "lost" ELSE @,
                                  ![ncQueue].room = IF ncPlayer[ncQueue].at = "gone" THEN 0 ELSE @]
               /\ ncAlone' = ncAlone \cup NcEmptied(i) \cup NcReplaces(i, i)
    /\ UNCHANGED <<ncTwice, ncAstray, ncNamed>>

JoinSpectator(p, c) ==
    /\ NcConnects(p) /\ c \in DOMAIN ncRooms
    /\ ncRoom' = [ncRoom EXCEPT ![ncRooms[c]].spectators = @ \cup {p}]
    /\ ncPlayer' = [NcSits(p, ncRooms[c]) EXCEPT ![p].spectator = TRUE]
    /\ UNCHANGED <<ncRooms, ncQueue, ncSeen>>

\* The room ends; nothing looks at its game again.
NcOver(r) ==
    [r EXCEPT !.ended = TRUE, !.flag = "off", !.inc = 0, !.moves = 0, !.elapsed = 0,
              !.clock = NcEmpty.clock, !.draw = None, !.back = None]

-----------------------------------------------------------------------------
(* The waiting timer. *)

NcWaitFires(i) ==
    /\ ncRoom[i].wait = "armed"
    /\ ncRoom' = [ncRoom EXCEPT ![i].wait = "fired"]
    /\ UNCHANGED <<ncRooms, ncQueue, ncPlayer, ncSeen>>

WaitIsOver(r) == Both(r) \/ r.ended

\* Whose entry is removed with the code of room i.
Evicts(i) == IF ncRoom[i].code \in DOMAIN ncRooms THEN {ncRooms[ncRoom[i].code]} ELSE {}

NcHandleWaitingTimeout(i) ==
    /\ ncRoom[i].wait = "fired"
    /\ IF WaitIsOver(ncRoom[i])
       THEN /\ ncRoom' = [ncRoom EXCEPT ![i].wait = "off"]
            /\ UNCHANGED <<ncRooms, ncPlayer, ncAlone>>
       ELSE /\ ncRoom' = [ncRoom EXCEPT ![i] = [NcOver(@) EXCEPT !.wait = "off"]]
            /\ ncPlayer' = [p \in NcPlayers |-> IF p \in Seated(i)
                                                THEN [ncPlayer[p] EXCEPT !.out = "closed"]
                                                ELSE ncPlayer[p]]
            /\ ncRooms' = NcDelete(ncRooms, ncRoom[i].code)
            /\ ncAlone' = ncAlone \cup Evicts(i)
    /\ UNCHANGED <<ncQueue, ncTwice, ncAstray, ncNamed>>

-----------------------------------------------------------------------------
(* Clocks. *)

\* Time passes; a flag timer counts from the last move.
NcTick(i) ==
    /\ ncRoom[i].started /\ ~ncRoom[i].ended
    /\ ncRoom[i].elapsed < MaxClock
    /\ ncRoom' = [ncRoom EXCEPT ![i].elapsed = @ + 1]
    /\ UNCHANGED <<ncRooms, ncQueue, ncPlayer, ncSeen>>

TickClock(r) ==
    LET s == Turn(r.moves)
    IN [r EXCEPT !.clock[s] = IF @ < r.elapsed THEN 0 ELSE @ - r.elapsed, !.elapsed = 0]

ArmFlagTimer(r) ==
    IF r.clock[Turn(r.moves)] = 0 THEN NcOver(r) ELSE [r EXCEPT !.flag = "armed"]

FlagFires(i) ==
    /\ ncRoom[i].flag = "armed"
    /\ ncRoom[i].elapsed >= ncRoom[i].clock[Turn(ncRoom[i].moves)]
    /\ ncRoom' = [ncRoom EXCEPT ![i].flag = "off", ![i].fired = TRUE]
    /\ UNCHANGED <<ncRooms, ncQueue, ncPlayer, ncSeen>>

\* A result is announced whenever `ended' is set.
Announce(i, new) ==
    /\ ncRoom' = [ncRoom EXCEPT ![i] = new]
    /\ ncTwice' = (ncTwice \/ (new.ended /\ ncRoom[i].ended))

FlagCallback(i) ==
    /\ ncRoom[i].fired
    /\ LET r == [ncRoom[i] EXCEPT !.fired = FALSE]
           now == TickClock(r)
       IN IF r.ended
          THEN ncRoom' = [ncRoom EXCEPT ![i] = r] /\ UNCHANGED ncTwice
          ELSE IF \E s \in Sides : now.clock[s] = 0 THEN Announce(i, NcOver(now))
          ELSE Announce(i, ArmFlagTimer(now))
    /\ UNCHANGED <<ncRooms, ncQueue, ncPlayer, ncAstray, ncAlone, ncNamed>>

-----------------------------------------------------------------------------
(* HandleFrame: frames of a spectator and of a room that has ended are dropped. *)

NcFrame(p) ==
    /\ ncPlayer[p].at = "open" /\ ~ncPlayer[p].spectator
    /\ ~ncRoom[ncPlayer[p].room].ended

\* The increment was chosen with the room; the game is the first to look at it.
HandleReady(p, inc) ==
    /\ NcFrame(p)
    /\ ncPlayer' = [ncPlayer EXCEPT ![p].ready = TRUE]
    /\ LET i == ncPlayer[p].room
           r == ncRoom[i]
           starts == Both(r) /\ (\A s \in Sides : ncPlayer'[r.seat[s]].ready) /\ ~r.started
       IN IF starts
          THEN ncRoom' = [ncRoom EXCEPT ![i] = ArmFlagTimer([r EXCEPT !.started = TRUE,
                                                                     !.inc = inc])]
          ELSE inc = 0 /\ UNCHANGED ncRoom
    /\ UNCHANGED <<ncRooms, ncQueue, ncSeen>>

\* Mutant: the timer of the side that moved is stopped and none is started.
RearmedNot(r) == [r EXCEPT !.flag = "off"]
Rearmed(r) == ArmFlagTimer([r EXCEPT !.flag = "off"])

\* A legal move; `mates' says that it ends the game.
HandleMove(p, mates) ==
    /\ NcFrame(p)
    /\ LET i == ncPlayer[p].room
           r == ncRoom[i]
           side == Turn(r.moves)
           ticked == TickClock(r)
           moved == [ticked EXCEPT !.moves = @ + 1, !.clock[side] = @ + r.inc]
       IN /\ r.started /\ r.seat[side] = p
          /\ r.moves < MaxMoves /\ moved.clock[side] <= MaxClock
          /\ Announce(i, IF mates THEN NcOver(moved) ELSE Rearmed(moved))
    /\ UNCHANGED <<ncRooms, ncQueue, ncPlayer, ncAstray, ncAlone, ncNamed>>

HandleResign(p) ==
    /\ NcFrame(p)
    /\ ncRoom[ncPlayer[p].room].started
    /\ Announce(ncPlayer[p].room, NcOver(ncRoom[ncPlayer[p].room]))
    /\ UNCHANGED <<ncRooms, ncQueue, ncPlayer, ncAstray, ncAlone, ncNamed>>

HandleDrawOffer(p) ==
    /\ NcFrame(p)
    /\ ncRoom[ncPlayer[p].room].started
    /\ ncRoom' = [ncRoom EXCEPT ![ncPlayer[p].room].draw = p]
    /\ UNCHANGED <<ncRooms, ncQueue, ncPlayer, ncSeen>>

Acceptable(offer, p) == offer \notin {None, p}

HandleDrawAccept(p) ==
    /\ NcFrame(p)
    /\ LET i == ncPlayer[p].room
       IN /\ Acceptable(ncRoom[i].draw, p)
          /\ Announce(i, NcOver(ncRoom[i]))
    /\ UNCHANGED <<ncRooms, ncQueue, ncPlayer, ncAstray, ncAlone, ncNamed>>

HandleTakebackRequest(p) ==
    /\ NcFrame(p)
    /\ ncRoom[ncPlayer[p].room].started /\ ncRoom[ncPlayer[p].room].moves > 0
    /\ ncRoom' = [ncRoom EXCEPT ![ncPlayer[p].room].back = p]
    /\ UNCHANGED <<ncRooms, ncQueue, ncPlayer, ncSeen>>

\* Half-moves are dropped until it is the requester's turn.
Kept(moves, side) ==
    CHOOSE k \in 0..moves : /\ k = 0 \/ Turn(k) = side
                            /\ \A j \in (k + 1)..moves : Turn(j) # side

\* The clocks stay as they were at the last move.
HandleTakebackAccept(p) ==
    /\ NcFrame(p)
    /\ LET i == ncPlayer[p].room
           r == ncRoom[i]
           side == IF r.back = r.seat["black"] THEN "black" ELSE "white"
           keep == Kept(r.moves, side)
           undone == [r EXCEPT !.back = None, !.moves = keep, !.elapsed = 0]
       IN /\ Acceptable(r.back, p)
          /\ IF r.moves = 0
             THEN ncRoom' = [ncRoom EXCEPT ![i].back = None] /\ UNCHANGED <<ncTwice, ncAstray>>
             ELSE /\ Announce(i, Rearmed(undone))
                  /\ ncAstray' = (ncAstray \/ Turn(keep) # side \/ r.moves - keep > 1)
    /\ UNCHANGED <<ncRooms, ncQueue, ncPlayer, ncAlone, ncNamed>>

HandleDecline(p, offer) ==
    /\ NcFrame(p)
    /\ ncRoom' = [ncRoom EXCEPT ![ncPlayer[p].room] =
                     IF offer = "draw" THEN [@ EXCEPT !.draw = None] ELSE [@ EXCEPT !.back = None]]
    /\ UNCHANGED <<ncRooms, ncQueue, ncPlayer, ncSeen>>

-----------------------------------------------------------------------------
(* Leaving. *)

\* The read loop ended; Leave is called only after the writer has returned, which it
\* does when a write or a ping fails or when the hub has closed the outbox.
NcReadEnds(p) ==
    /\ ncPlayer[p].at = "open"
    /\ ncPlayer' = [ncPlayer EXCEPT ![p].at = "draining"]
    /\ UNCHANGED <<ncHub, ncSeen>>

\* Player.room is kept; only a player who is still queued is looked at again.
NcGone(p) ==
    ncPlayer' = [ncPlayer EXCEPT ![p] = [NcNew EXCEPT !.at = "gone", !.out = "closed",
                                             !.room = IF ncQueue = p THEN ncPlayer[p].room ELSE 0]]

LeaveSpectator(p) ==
    /\ ncPlayer[p].at = "draining" /\ ncPlayer[p].spectator
    /\ ncRoom' = [ncRoom EXCEPT ![ncPlayer[p].room].spectators = @ \ {p}]
    /\ NcGone(p)
    /\ UNCHANGED <<ncRooms, ncQueue, ncSeen>>

NcLeave(p) ==
    /\ ncPlayer[p].at = "draining" /\ ~ncPlayer[p].spectator
    /\ LET i == ncPlayer[p].room
           r == ncRoom[i]
           left == [r EXCEPT !.seat = [s \in Sides |-> IF @[s] = p THEN None ELSE @[s]]]
           other == \E s \in Sides : left.seat[s] # None
           empty == ~other /\ r.spectators = {}
       IN /\ IF r.started /\ ~r.ended THEN Announce(i, NcOver(left))
             ELSE ncRoom' = [ncRoom EXCEPT ![i] = left] /\ UNCHANGED ncTwice
          /\ ncRooms' = IF empty THEN NcDelete(ncRooms, r.code) ELSE ncRooms
          /\ ncAlone' = ncAlone \cup (IF empty THEN Evicts(i) ELSE {})
                                \cup (IF other THEN {i} ELSE {})
    /\ NcGone(p)
    /\ UNCHANGED <<ncQueue, ncAstray, ncNamed>>

NcNext ==
    \/ \E p \in NcPlayers :
          \/ \E c \in NcCodes : NcJoinRoom(p, c) \/ NcRefused(p, c) \/ JoinSpectator(p, c)
          \/ NcJoinQuick(p) \/ NcReadEnds(p) \/ NcLeave(p) \/ LeaveSpectator(p)
          \/ (\E inc \in {0, 1} : HandleReady(p, inc)) \/ HandleResign(p)
          \/ \E mates \in BOOLEAN : HandleMove(p, mates)
          \/ HandleDrawOffer(p) \/ HandleDrawAccept(p)
          \/ HandleTakebackRequest(p) \/ HandleTakebackAccept(p)
          \/ \E offer \in {"draw", "back"} : HandleDecline(p, offer)
    \/ \E i \in NcRoomIds :
          \/ NcWaitFires(i) \/ NcHandleWaitingTimeout(i)
          \/ NcTick(i) \/ FlagFires(i) \/ FlagCallback(i)

-----------------------------------------------------------------------------
(* Properties. *)

\* One result is announced for a game, whatever order flag timer, resignation,
\* agreement, mate and departure take.
OneResult == ~ncTwice

\* The hub sends on an open outbox while the room has not ended: only a player taken
\* from the queue after its waiting had timed out makes it send on a closed one.
OpenWhilePlaying ==
    \A i \in NcRoomIds : ~ncRoom[i].ended =>
        \A p \in Seated(i) \cup ncRoom[i].spectators :
            ncPlayer[p].out = "open" /\ ncPlayer[p].at \in {"open", "draining"}

\* Nobody loses a seat before leaving, unless a quick match was made of a room that
\* somebody had entered by its code.
SeatsStay ==
    \A p \in NcPlayers : ncPlayer[p].at \in {"open", "draining"} =>
        LET i == ncPlayer[p].room
        IN p \in Seated(i) \cup ncRoom[i].spectators \/ i \in ncNamed

\* A game that goes on has both its players, and a flag timer is running or has
\* fired: a player who stops moving loses on time.
FlagWatched ==
    \A i \in NcRoomIds : ncRoom[i].started /\ ~ncRoom[i].ended =>
        Both(ncRoom[i]) /\ (ncRoom[i].flag = "armed" \/ ncRoom[i].fired)

\* A takeback leaves the requester to move and undoes the requester's last half-move
\* if it is unanswered, and nothing if it is answered.  The comment in
\* handleTakebackAccept would have an answered one undone with its answer; the loop
\* under it stops at the first position in which the requester is to move.
TakebackFair == ~ncAstray

\* A player who waits alone can be found by the next one, or the waiting timer will
\* end the waiting.
LoneFound ==
    \A i \in NcRoomIds \ ncAlone :
        Cardinality(Seated(i)) = 1 /\ ~ncRoom[i].ended =>
            /\ ncRoom[i].code \in DOMAIN ncRooms /\ ncRooms[ncRoom[i].code] = i
            /\ ncRoom[i].wait # "off"

\* What the hub of NetChess keeps, however frames, joins, departures and timers
\* overlap.
NetChessSafe ==
    /\ OneResult
    /\ OpenWhilePlaying
    /\ SeatsStay
    /\ FlagWatched
    /\ TakebackFair
    /\ LoneFound
=============================================================================
