------------------------------- MODULE Netris -------------------------------
(***************************************************************************)
(* The hub of the two-player game Netris and the WebSocket handler in      *)
(* front of it: named rooms, the quick-match queue, the waiting timer.     *)
(*                                                                         *)
(* Every hub operation runs under hub.mu, so it is one step.  A timer that *)
(* has fired waits for hub.mu and can no longer be stopped.  A handler     *)
(* whose read loop has ended waits for its writer before it calls Leave:   *)
(* until then the player keeps its seat.  Board, score and chat frames are *)
(* relayed and change nothing.                                             *)
(***************************************************************************)
EXTENDS Naturals, FiniteSets

CONSTANTS
    NrPlayers,  \* sockets, numbered in the order in which they join
    NrCodes,    \* room codes that players name; any text, the code of a quick room too
    NrRoomIds   \* rooms ever created

ASSUME NetrisAssumption ==
    /\ NrPlayers \subseteq Nat \ {0} /\ IsFiniteSet(NrPlayers) /\ IsFiniteSet(NrCodes)
    /\ NrRoomIds \subseteq Nat \ {0} /\ IsFiniteSet(NrRoomIds)

Nobody == 0
NoRoom == 0

VARIABLES
    nrRooms,    \* hub.rooms: code -> room; a quick room's code is its own number
    nrRoom,     \* the Room structs
    nrQueue,    \* hub.queue
    nrPlayer    \* socket -> where its handler is, its room, whether it is ready

(* Observers. *)
VARIABLES
    nrToppedBy, \* room -> the player who topped out in it
    nrTwice,    \* a room announced a result a second time
    nrAlone,    \* rooms whose lone player is explained: its opponent left before
                \* the game, it took a seat that was not free, or another room of
                \* the same code removed or replaced the entry
    nrNamed     \* rooms that a player entered by its code while its first player
                \* was queued

nrHub == <<nrRooms, nrRoom, nrQueue>>
nrSeen == <<nrToppedBy, nrTwice, nrAlone, nrNamed>>
nrVars == <<nrHub, nrPlayer, nrSeen>>

EmptyRoom == [code |-> NoRoom, p1 |-> Nobody, p2 |-> Nobody, inPlay |-> FALSE,
              ended |-> FALSE, wait |-> "off"]

NrTypeOK ==
    /\ \A c \in DOMAIN nrRooms : nrRooms[c] \in NrRoomIds
    /\ \A i \in NrRoomIds : /\ {nrRoom[i].p1, nrRoom[i].p2} \subseteq NrPlayers \cup {Nobody}
                            /\ nrRoom[i].wait \in {"off", "armed", "fired"}
                            /\ nrToppedBy[i] \in NrPlayers \cup {Nobody}
    /\ nrQueue \in NrPlayers \cup {Nobody}
    /\ \A p \in NrPlayers : nrPlayer[p].at \in {"new", "open", "draining", "gone"}

NrInit ==
    /\ nrRooms = [c \in {} |-> NoRoom]
    /\ nrRoom = [i \in NrRoomIds |-> EmptyRoom]
    /\ nrQueue = Nobody
    /\ nrPlayer = [p \in NrPlayers |-> [at |-> "new", room |-> NoRoom, ready |-> FALSE]]
    /\ nrToppedBy = [i \in NrRoomIds |-> Nobody]
    /\ nrTwice = FALSE
    /\ nrAlone = {}
    /\ nrNamed = {}

-----------------------------------------------------------------------------
NrDelete(rooms, c) == [x \in DOMAIN rooms \ {c} |-> rooms[x]]
NrPut(rooms, c, i) == [x \in DOMAIN rooms \cup {c} |-> IF x = c THEN i ELSE rooms[x]]

NrConnects(p) ==
    nrPlayer[p].at = "new" /\ \A q \in NrPlayers : nrPlayer[q].at = "new" => p <= q

NrUnused == {i \in NrRoomIds : nrRoom[i] = EmptyRoom /\ \A p \in NrPlayers : nrPlayer[p].room # i}

NrSits(p, i) == nrPlayer' = [nrPlayer EXCEPT ![p].at = "open", ![p].room = i]

\* The room that i replaces under the code c.
NrReplaces(c, i) == IF c \in DOMAIN nrRooms THEN {nrRooms[c]} \ {i} ELSE {}

\* A room that had none gets p; it is found under the code c.
NrCreate(p, i, c) ==
    /\ nrRooms' = NrPut(nrRooms, c, i)
    /\ nrRoom' = [nrRoom EXCEPT ![i] = [EmptyRoom EXCEPT !.code = c, !.p1 = p, !.wait = "armed"]]
    /\ NrSits(p, i)

NrCancel(wait) == IF wait = "armed" THEN "off" ELSE wait

\* The second player sits down at p2, whoever may sit there.
NrPair(p, i) ==
    /\ nrRoom' = [nrRoom EXCEPT ![i].p2 = p, ![i].wait = NrCancel(@)]
    /\ NrSits(p, i)

\* Without a first player, the second one's seat is not looked at.
NrPushes(i) == IF nrRoom[i].p1 = Nobody THEN {i} ELSE {}

\* The room of the player who is queued.
NrWaits(i) == nrQueue # Nobody /\ nrPlayer[nrQueue].room = i

NrFull(i) == nrRoom[i].p1 # Nobody /\ nrRoom[i].p2 # Nobody

NrJoinRoom(p, c) ==
    /\ NrConnects(p)
    /\ IF c \in DOMAIN nrRooms
       THEN /\ ~NrFull(nrRooms[c])
            /\ NrPair(p, nrRooms[c])
            /\ nrAlone' = nrAlone \cup NrPushes(nrRooms[c])
            /\ nrNamed' = IF NrWaits(nrRooms[c]) THEN nrNamed \cup {nrRooms[c]} ELSE nrNamed
            /\ UNCHANGED nrRooms
       ELSE /\ \E i \in NrUnused : (\A j \in NrUnused : i <= j) /\ NrCreate(p, i, c)
            /\ UNCHANGED <<nrAlone, nrNamed>>
    /\ UNCHANGED <<nrQueue, nrToppedBy, nrTwice>>

\* JoinRoom's ErrRoomFull: an error frame, and the socket is closed.
NrRefused(p, c) ==
    /\ NrConnects(p)
    /\ c \in DOMAIN nrRooms /\ NrFull(nrRooms[c])
    /\ nrPlayer' = [nrPlayer EXCEPT ![p].at = "gone"]
    /\ UNCHANGED <<nrHub, nrSeen>>

NrJoinQuick(p) ==
    /\ NrConnects(p)
    /\ IF nrQueue = Nobody
       THEN /\ \E i \in NrUnused : /\ \A j \in NrUnused : i <= j
                                   /\ NrCreate(p, i, i)
                                   /\ nrAlone' = nrAlone \cup NrReplaces(i, i)
            /\ nrQueue' = p
       ELSE LET i == nrPlayer[nrQueue].room
            IN /\ nrQueue' = Nobody
               /\ nrRooms' = NrPut(nrRooms, i, i)
               /\ NrPair(p, i)
               /\ nrAlone' = nrAlone \cup NrPushes(i) \cup NrReplaces(i, i)
    /\ UNCHANGED <<nrToppedBy, nrTwice, nrNamed>>

NrWaitFires(i) ==
    /\ nrRoom[i].wait = "armed"
    /\ nrRoom' = [nrRoom EXCEPT ![i].wait = "fired"]
    /\ UNCHANGED <<nrRooms, nrQueue, nrPlayer, nrSeen>>

\* Mutant: a player who timed out stays in the queue.
NrDequeuedNot(i) == nrQueue
NrDequeued(i) == IF nrRoom[i].p1 # Nobody /\ nrQueue = nrRoom[i].p1 THEN Nobody ELSE nrQueue

\* The entry that goes is the one under the room's code.
NrHandleWaitingTimeout(i) ==
    /\ nrRoom[i].wait = "fired"
    /\ IF nrRoom[i].p2 # Nobody \/ nrRoom[i].ended
       THEN /\ nrRoom' = [nrRoom EXCEPT ![i].wait = "off"]
            /\ UNCHANGED <<nrRooms, nrQueue, nrAlone>>
       ELSE LET c == nrRoom[i].code
            IN /\ nrRoom' = [nrRoom EXCEPT ![i].wait = "off", ![i].ended = TRUE]
               /\ nrQueue' = NrDequeued(i)
               /\ nrRooms' = NrDelete(nrRooms, c)
               /\ nrAlone' = IF c \in DOMAIN nrRooms THEN nrAlone \cup {nrRooms[c]} ELSE nrAlone
    /\ UNCHANGED <<nrPlayer, nrToppedBy, nrTwice, nrNamed>>

\* The read loop ended; conn is closed, and Leave called, only after the writer has
\* returned, which it does when a write or a ping fails.
NrReadEnds(p) ==
    /\ nrPlayer[p].at = "open"
    /\ nrPlayer' = [nrPlayer EXCEPT ![p].at = "draining"]
    /\ UNCHANGED <<nrHub, nrSeen>>

NrOpponent(i, p) ==
    CASE nrRoom[i].p1 = p -> nrRoom[i].p2
      [] nrRoom[i].p2 = p -> nrRoom[i].p1
      [] OTHER -> Nobody

\* Mutant: the room goes on.
NrForfeitsNot(i, other) == FALSE
NrForfeits(i, other) == other # Nobody /\ nrRoom[i].inPlay /\ ~nrRoom[i].ended

NrLeave(p) ==
    /\ nrPlayer[p].at = "draining"
    /\ LET i == nrPlayer[p].room
           other == NrOpponent(i, p)
           left == [nrRoom[i] EXCEPT !.p1 = IF @ = p THEN Nobody ELSE @,
                                     !.p2 = IF @ = p THEN Nobody ELSE @,
                                     !.ended = @ \/ NrForfeits(i, other)]
           empty == left.p1 = Nobody /\ left.p2 = Nobody
       IN /\ nrRoom' = [nrRoom EXCEPT ![i] = [left EXCEPT !.wait = IF empty THEN NrCancel(@) ELSE @]]
          /\ nrRooms' = IF empty THEN NrDelete(nrRooms, left.code) ELSE nrRooms
          /\ nrAlone' = LET c == left.code
                        IN nrAlone \cup (IF empty /\ c \in DOMAIN nrRooms THEN {nrRooms[c]} ELSE {})
                                   \cup (IF other # Nobody THEN {i} ELSE {})
          /\ nrTwice' = (nrTwice \/ (NrForfeits(i, other) /\ nrToppedBy[i] # Nobody))
    /\ nrQueue' = IF nrQueue = p THEN Nobody ELSE nrQueue
    /\ nrPlayer' = [nrPlayer EXCEPT ![p] = [at |-> "gone", room |-> NoRoom, ready |-> FALSE]]
    /\ UNCHANGED <<nrToppedBy, nrNamed>>

-----------------------------------------------------------------------------
(* HandleFrame: frames of a room that has ended are dropped. *)

NrFrame(p) == nrPlayer[p].at = "open" /\ ~nrRoom[nrPlayer[p].room].ended

NrReady(p) ==
    /\ NrFrame(p)
    /\ nrPlayer' = [nrPlayer EXCEPT ![p].ready = TRUE]
    /\ LET i == nrPlayer[p].room
           starts == /\ NrFull(i)
                     /\ nrPlayer'[nrRoom[i].p1].ready
                     /\ nrPlayer'[nrRoom[i].p2].ready
       IN nrRoom' = [nrRoom EXCEPT ![i].inPlay = @ \/ starts]
    /\ UNCHANGED <<nrRooms, nrQueue, nrSeen>>

NrToppedOut(p) ==
    /\ NrFrame(p)
    /\ LET i == nrPlayer[p].room
       IN /\ nrRoom' = [nrRoom EXCEPT ![i].ended = TRUE]
          /\ nrToppedBy' = [nrToppedBy EXCEPT ![i] = p]
          /\ nrTwice' = (nrTwice \/ nrToppedBy[i] # Nobody)
    /\ UNCHANGED <<nrRooms, nrQueue, nrPlayer, nrAlone, nrNamed>>

NrNext ==
    \/ \E p \in NrPlayers :
          \/ \E c \in NrCodes : NrJoinRoom(p, c) \/ NrRefused(p, c)
          \/ NrJoinQuick(p) \/ NrReadEnds(p) \/ NrLeave(p) \/ NrReady(p) \/ NrToppedOut(p)
    \/ \E i \in NrRoomIds : NrWaitFires(i) \/ NrHandleWaitingTimeout(i)

-----------------------------------------------------------------------------
(* Properties. *)

NrSeats(i) == {nrRoom[i].p1, nrRoom[i].p2} \ {Nobody}

\* A room announces one result, whatever order topping out and leaving take.
OneWinner == ~nrTwice

\* The hub never sends to an outbox it has closed: who has left sits nowhere.
SeatsAreOpen ==
    \A i \in NrRoomIds : \A p \in NrSeats(i) : nrPlayer[p].at \in {"open", "draining"}
                                               /\ nrPlayer[p].room = i

\* Nobody loses a seat before leaving, unless the room's first player had left, or
\* a quick match was made of a room that somebody had entered by its code.
SeatsKept ==
    \A p \in NrPlayers : nrPlayer[p].at \in {"open", "draining"} =>
        LET i == nrPlayer[p].room IN p \in NrSeats(i) \/ i \in nrAlone \cup nrNamed

\* Whoever is queued for a quick match is the first player of a room that the hub
\* knows, sits there alone, and the room has not ended unless this player topped out:
\* the next player is paired with somebody.  Two exceptions: a room of the same code
\* removed the entry, or somebody entered the room by its code.
QueueIsLive ==
    nrQueue # Nobody =>
        LET i == nrPlayer[nrQueue].room
        IN /\ nrRoom[i].p1 = nrQueue
           /\ i \in DOMAIN nrRooms \/ i \in nrAlone
           /\ \/ i \in nrNamed
              \/ nrRoom[i].p2 = Nobody /\ (nrRoom[i].ended => nrToppedBy[i] = nrQueue)

\* A game in play has both its players.
PlayedByTwo ==
    \A i \in NrRoomIds : nrRoom[i].inPlay /\ ~nrRoom[i].ended => Cardinality(NrSeats(i)) = 2

\* A player who waits alone can be found by the next one, or the waiting timer
\* will tell it so, unless its opponent left, it sat down in a room without a first
\* player, or the room's entry was removed under it.
WaitersFound ==
    \A i \in NrRoomIds \ nrAlone :
        Cardinality(NrSeats(i)) = 1 /\ ~nrRoom[i].ended =>
            /\ nrRoom[i].code \in DOMAIN nrRooms /\ nrRooms[nrRoom[i].code] = i
            /\ nrRoom[i].wait # "off"

\* What the hub of Netris keeps, however joins, leaves and timers overlap.
NetrisSafe ==
    /\ OneWinner
    /\ SeatsAreOpen
    /\ SeatsKept
    /\ QueueIsLive
    /\ PlayedByTwo
    /\ WaitersFound
=============================================================================
