--------------------------- MODULE QueriesProofs ---------------------------
(***************************************************************************)
(* Proofs about what MCQueries composes, for every value of the constants. *)
(*                                                                         *)
(* Netris and NetChess: NrInv and NcInv are inductive, and give what the   *)
(* run of MCQueries checks of the two game hubs.                           *)
(*                                                                         *)
(*   NrRoomInv(i)    who sits in room i is there, the room has its two     *)
(*                   players while it plays, and a player who waits in it  *)
(*                   is found, or alone for a reason;                      *)
(*   NrPlayerInv(p)  who is open sits somewhere, or lost its seat for a    *)
(*                   reason;                                               *)
(*   NrQueueInv      the queued player's room is known and its second seat *)
(*                   free, unless somebody entered by its code.            *)
(*                                                                         *)
(* NcRoomInv, NcPlayerInv and NcQueueInv say the same of NetChess, the     *)
(* first also who watches a room and that a game that goes on has its flag *)
(* timer.  Nearly every step changes one room: NrExplained and NcExplained *)
(* say what it may do to the others and to the codes, and NrRoomKept,      *)
(* NrPlayerKept and their likes that this leaves their invariant alone.    *)
(*                                                                         *)
(* NodeHandle: NhInv, with NhLockInv, who has or waits for which lock at   *)
(* each step, NhHandleInv, which handles are open and what they are used   *)
(* for as far as the refresh under way has come, and NhReqInv, by which a  *)
(* request that nothing has overtaken has its handle.                      *)
(*                                                                         *)
(* NodeQuery: NqInv, with NqPlanInv, where the query is and what it has    *)
(* read, NqRowsInv, where its rows come from, NqChunkInv, by which the     *)
(* chunks so far have left nothing out, and NqAnswerInv, which has a       *)
(* reason for every row that is missing.                                   *)
(*                                                                         *)
(* Search and CallInfo: SeInv and CiInv of QueryPartsProofs.               *)
(***************************************************************************)
EXTENDS MCQueries, QueryPartsProofs, FiniteSetTheorems, SequenceTheorems, WellFoundedInduction, TLAPS

-----------------------------------------------------------------------------
(* Netris. *)

NrSitting == {"open", "draining"}

NrRoomT ==
    [code : NrCodes \cup NrRoomIds \cup {NoRoom},
     p1 : NrPlayers \cup {Nobody}, p2 : NrPlayers \cup {Nobody},
     inPlay : BOOLEAN, ended : BOOLEAN, wait : {"off", "armed", "fired"}]

NrPlayerT ==
    [at : {"new", "gone"} \cup NrSitting, room : NrRoomIds \cup {NoRoom}, ready : BOOLEAN]

NrTypeInv ==
    /\ nrRoom \in [NrRoomIds -> NrRoomT]
    /\ nrPlayer \in [NrPlayers -> NrPlayerT]
    /\ \A c \in DOMAIN nrRooms : nrRooms[c] \in NrRoomIds
    /\ nrQueue \in NrPlayers \cup {Nobody}
    /\ nrToppedBy \in [NrRoomIds -> NrPlayers \cup {Nobody}]

\* The next player finds room i, or its waiting timer goes off.
NrFound(i) ==
    /\ nrRoom[i].code \in DOMAIN nrRooms /\ nrRooms[nrRoom[i].code] = i
    /\ nrRoom[i].wait # "off"

\* A second player is alone only for a reason, and a first player is found.
NrRoomInv(i) ==
    /\ \A p \in NrSeats(i) : nrPlayer[p].at \in NrSitting /\ nrPlayer[p].room = i
    /\ nrRoom[i].p1 = nrRoom[i].p2 => nrRoom[i].p1 = Nobody
    /\ nrRoom[i].p1 = Nobody /\ nrRoom[i].p2 # Nobody => i \in nrAlone
    /\ nrToppedBy[i] # Nobody => nrRoom[i].ended
    /\ nrRoom[i].inPlay /\ ~nrRoom[i].ended => NrFull(i)
    /\ nrRoom[i].p1 # Nobody /\ nrRoom[i].p2 = Nobody /\ ~nrRoom[i].ended => i \in nrAlone \/ NrFound(i)

\* A seat is lost in a room without a first player, or in one that was entered by
\* its code while its first player was queued.
NrPlayerInv(p) ==
    nrPlayer[p].at \in NrSitting =>
        LET i == nrPlayer[p].room
        IN /\ i \in NrRoomIds
           /\ p \in NrSeats(i) \/ i \in nrNamed \/ (nrRoom[i].p1 = Nobody /\ i \in nrAlone)

NrQueueInv ==
    nrQueue # Nobody =>
        LET i == nrPlayer[nrQueue].room
        IN /\ i \in NrRoomIds /\ nrRoom[i].p1 = nrQueue
           /\ (i \in DOMAIN nrRooms /\ nrRooms[i] = i) \/ i \in nrAlone
           /\ \/ i \in nrNamed
              \/ nrRoom[i].p2 = Nobody /\ (nrRoom[i].ended => nrToppedBy[i] = nrQueue)

NrInv ==
    /\ NrTypeInv /\ OneWinner /\ NrQueueInv
    /\ \A i \in NrRoomIds : NrRoomInv(i)
    /\ \A p \in NrPlayers : NrPlayerInv(p)

\* What every step leaves as it is, or explains.
NrExplained ==
    /\ nrAlone \subseteq nrAlone' /\ nrNamed \subseteq nrNamed'
    /\ \A c \in DOMAIN nrRooms :
          (c \in DOMAIN nrRooms' /\ nrRooms'[c] = nrRooms[c]) \/ nrRooms[c] \in nrAlone'

\* A room that is left alone, and whose players are.
LEMMA NrRoomKept ==
    ASSUME NEW j \in NrRoomIds, NrRoomInv(j), NrExplained, nrRoom'[j] = nrRoom[j],
           nrToppedBy'[j] = nrToppedBy[j],
           \A q \in NrSeats(j) : nrPlayer'[q].at \in NrSitting /\ nrPlayer'[q].room = nrPlayer[q].room
    PROVE  NrRoomInv(j)'
  BY DEF NrRoomInv, NrExplained, NrSeats, NrFull, NrFound

\* A player who sits where he sat, if at all.
LEMMA NrPlayerKept ==
    ASSUME NEW q \in NrPlayers, NrPlayerInv(q), NrExplained,
           nrPlayer'[q].at \in NrSitting =>
               nrPlayer[q].at \in NrSitting /\ nrPlayer'[q].room = nrPlayer[q].room,
           \A i \in NrRoomIds : /\ nrRoom[i].p1 = Nobody => nrRoom'[i].p1 = Nobody
                                /\ q \in NrSeats(i) => q \in NrSeats(i)'
    PROVE  NrPlayerInv(q)'
  BY DEF NrPlayerInv, NrExplained

LEMMA NrNobody == \A p \in NrPlayers : p # Nobody
  BY NetrisAssumption DEF Nobody

\* Who sits nowhere yet.
LEMMA NrNewUnseated ==
    ASSUME NrInv, NEW p \in NrPlayers, nrPlayer[p].at \notin NrSitting
    PROVE  \A i \in NrRoomIds : p \notin NrSeats(i)
  BY DEF NrInv, NrRoomInv, NrSitting

\* A room is created for p.
LEMMA NrCreated ==
    ASSUME NrInv, NEW p \in NrPlayers, NEW i \in NrUnused, NEW c \in NrCodes \cup NrRoomIds,
           nrPlayer[p].at = "new", NrCreate(p, i, c), nrAlone' = nrAlone \cup NrReplaces(c, i),
           \/ nrQueue' = nrQueue
           \/ nrQueue = Nobody /\ nrQueue' = p /\ c = i,
           UNCHANGED <<nrToppedBy, nrTwice, nrNamed>>
    PROVE  NrInv'
<1> DEFINE room == [EmptyRoom EXCEPT !.code = c, !.p1 = p, !.wait = "armed"]
<1>1. /\ i \in NrRoomIds /\ nrRoom[i] = EmptyRoom /\ \A q \in NrPlayers : nrPlayer[q].room # i
      /\ p # Nobody
  BY NrNobody DEF NrUnused
<1>2. /\ room \in NrRoomT
      /\ room.code = c /\ room.p1 = p /\ room.p2 = Nobody /\ room.wait = "armed" /\ ~room.inPlay /\ ~room.ended
  BY DEF EmptyRoom, NrRoomT
<1> HIDE DEF room
<1>3. /\ nrRoom' = [nrRoom EXCEPT ![i] = room] /\ nrRoom'[i] = room
      /\ \A j \in NrRoomIds \ {i} : nrRoom'[j] = nrRoom[j]
      /\ nrPlayer' = [nrPlayer EXCEPT ![p].at = "open", ![p].room = i]
      /\ nrPlayer'[p].at = "open" /\ nrPlayer'[p].room = i
      /\ \A q \in NrPlayers \ {p} : nrPlayer'[q] = nrPlayer[q]
  BY <1>1 DEF NrCreate, NrSits, NrInv, NrTypeInv, room
<1>4. /\ nrRooms'[c] = i /\ c \in DOMAIN nrRooms'
      /\ \A d \in DOMAIN nrRooms : d \in DOMAIN nrRooms' /\ (d # c => nrRooms'[d] = nrRooms[d])
      /\ \A d \in DOMAIN nrRooms' : d = c \/ d \in DOMAIN nrRooms
  BY DEF NrCreate, NrPut
<1>5. NrExplained
  BY <1>4 DEF NrExplained, NrReplaces
<1>6. NrTypeInv'
  BY <1>1, <1>2, <1>3, <1>4 DEF NrInv, NrTypeInv, NrPlayerT, NrSitting
<1>7. \A j \in NrRoomIds : p \notin NrSeats(j)
  BY NrNewUnseated DEF NrSitting
<1>8. \A j \in NrRoomIds : NrRoomInv(j)'
  <2>1. NrRoomInv(i)'
    <3>1. NrSeats(i)' = {p} /\ NrFound(i)'
      BY <1>1, <1>2, <1>3, <1>4 DEF NrSeats, NrFound
    <3>2. nrToppedBy'[i] = Nobody
      BY <1>1 DEF NrInv, NrRoomInv, EmptyRoom, NrTypeInv
    <3>3. QED
      BY <1>1, <1>2, <1>3, <3>1, <3>2 DEF NrRoomInv, NrSitting
  <2>2. ASSUME NEW j \in NrRoomIds \ {i} PROVE NrRoomInv(j)'
    <3>1. NrRoomInv(j) /\ NrSeats(j) \subseteq NrPlayers \ {p}
      BY <1>7 DEF NrInv, NrTypeInv, NrRoomT, NrSeats
    <3>2. \A q \in NrSeats(j) : nrPlayer'[q].at \in NrSitting /\ nrPlayer'[q].room = nrPlayer[q].room
      BY <1>3, <3>1 DEF NrRoomInv
    <3>3. QED
      BY <1>3, <1>5, <3>1, <3>2, NrRoomKept
  <2>3. QED
    BY <2>1, <2>2
<1>9. \A q \in NrPlayers : NrPlayerInv(q)'
  <2>1. NrPlayerInv(p)'
    BY <1>1, <1>2, <1>3 DEF NrPlayerInv, NrSeats
  <2>2. ASSUME NEW q \in NrPlayers \ {p} PROVE NrPlayerInv(q)'
    <3>1. NrPlayerInv(q) /\ nrPlayer'[q] = nrPlayer[q] /\ nrPlayer[q].room # i
      BY <1>1, <1>3 DEF NrInv
    <3>2. QED
      BY <1>3, <1>5, <3>1 DEF NrPlayerInv, NrExplained, NrSeats
  <2>3. QED
    BY <2>1, <2>2
<1>10. NrQueueInv'
  <2>1. CASE nrQueue # Nobody /\ nrQueue' = nrQueue
    <3> DEFINE k == nrPlayer[nrQueue].room
    <3>1. /\ nrQueue \in NrPlayers /\ k \in NrRoomIds /\ nrRoom[k].p1 = nrQueue
          /\ (k \in DOMAIN nrRooms /\ nrRooms[k] = k) \/ k \in nrAlone
          /\ \/ k \in nrNamed
             \/ nrRoom[k].p2 = Nobody /\ (nrRoom[k].ended => nrToppedBy[k] = nrQueue)
      BY <2>1 DEF NrInv, NrQueueInv, NrTypeInv
    <3>2. nrQueue # p /\ k # i
      BY <1>1, <1>7, <2>1, <3>1 DEF NrSeats
    <3>3. nrPlayer'[nrQueue'].room = k /\ nrRoom'[k] = nrRoom[k]
      BY <1>3, <2>1, <3>1, <3>2
    <3>4. (k \in DOMAIN nrRooms' /\ nrRooms'[k] = k) \/ k \in nrAlone'
      BY <1>5, <3>1 DEF NrExplained
    <3> HIDE DEF k
    <3>5. QED
      BY <2>1, <3>1, <3>3, <3>4 DEF NrQueueInv
  <2>2. CASE nrQueue' = p /\ c = i
    BY <1>1, <1>2, <1>3, <1>4, <2>2 DEF NrQueueInv
  <2>3. QED
    BY <2>1, <2>2 DEF NrQueueInv
<1>11. QED
  BY <1>6, <1>8, <1>9, <1>10 DEF NrInv, OneWinner

\* p sits down in room i, where it pushes somebody off only for a reason.
LEMMA NrPaired ==
    ASSUME NrInv, NEW p \in NrPlayers, NEW i \in NrRoomIds, nrPlayer[p].at = "new", NrPair(p, i),
           NrExplained, NrPushes(i) \subseteq nrAlone',
           nrRoom[i].p1 = Nobody \/ nrRoom[i].p2 = Nobody \/ i \in nrNamed,
           \A c \in DOMAIN nrRooms' : nrRooms'[c] \in NrRoomIds,
           nrQueue' \in {nrQueue, Nobody}, nrToppedBy' = nrToppedBy,
           NrWaits(i) => nrQueue' = Nobody \/ i \in nrNamed',
           UNCHANGED nrTwice
    PROVE  NrInv'
<1> DEFINE room == [nrRoom[i] EXCEPT !.p2 = p, !.wait = NrCancel(@)]
<1>1. p # Nobody /\ \A j \in NrRoomIds : p \notin NrSeats(j)
  BY NrNobody, NrNewUnseated DEF NrSitting
<1>0. nrRoom \in [NrRoomIds -> NrRoomT] /\ nrRoom[i] \in NrRoomT
  BY DEF NrInv, NrTypeInv
<1>2. /\ room \in NrRoomT
      /\ room.p1 = nrRoom[i].p1 /\ room.p2 = p /\ room.ended = nrRoom[i].ended
      /\ room.inPlay = nrRoom[i].inPlay
  BY <1>0 DEF NrRoomT, NrCancel
<1>3. nrRoom' = [nrRoom EXCEPT ![i] = room]
  BY <1>0 DEF NrPair, NrRoomT
<1> HIDE DEF room
<1>4. /\ nrRoom'[i] = room /\ \A j \in NrRoomIds \ {i} : nrRoom'[j] = nrRoom[j]
      /\ nrPlayer' \in [NrPlayers -> NrPlayerT]
      /\ nrPlayer'[p].at = "open" /\ nrPlayer'[p].room = i
      /\ \A q \in NrPlayers \ {p} : nrPlayer'[q] = nrPlayer[q]
  <2>1. \A j \in NrRoomIds : nrRoom'[j] = IF j = i THEN room ELSE nrRoom[j]
    BY <1>0, <1>3
  <2>2. NrSits(p, i) /\ nrPlayer \in [NrPlayers -> NrPlayerT]
    BY DEF NrPair, NrInv, NrTypeInv
  <2>3. /\ nrPlayer' \in [NrPlayers -> NrPlayerT]
        /\ nrPlayer'[p].at = "open" /\ nrPlayer'[p].room = i
        /\ \A q \in NrPlayers \ {p} : nrPlayer'[q] = nrPlayer[q]
    BY <2>2 DEF NrSits, NrPlayerT, NrSitting
  <2>4. QED
    BY <2>1, <2>3
<1>5. NrTypeInv'
  <2>1. nrRoom' \in [NrRoomIds -> NrRoomT]
    BY <1>0, <1>2, <1>3
  <2>2. QED
    BY <1>4, <2>1 DEF NrInv, NrTypeInv
<1>6. \A j \in NrRoomIds : NrSeats(j) \subseteq NrPlayers \ {p}
  BY <1>1 DEF NrInv, NrTypeInv, NrRoomT, NrSeats
<1>7. \A j \in NrRoomIds : NrRoomInv(j)'
  <2>1. NrRoomInv(i)'
    <3>1. NrRoomInv(i) /\ nrRoom[i].p1 # p
      BY <1>1 DEF NrInv, NrSeats
    <3>2. NrSeats(i)' = {p} \cup ({nrRoom[i].p1} \ {Nobody})
      BY <1>1, <1>2, <1>4 DEF NrSeats
    <3>6. \A q \in NrSeats(i) : /\ nrPlayer'[q] = nrPlayer[q]
                                 /\ nrPlayer[q].at \in NrSitting /\ nrPlayer[q].room = i
      BY <1>4, <1>6, <3>1 DEF NrRoomInv
    <3>7. {nrRoom[i].p1} \ {Nobody} \subseteq NrSeats(i)
      BY DEF NrSeats
    <3>3. \A q \in NrSeats(i)' : nrPlayer'[q].at \in NrSitting /\ nrPlayer'[q].room = i
      BY <1>4, <3>2, <3>6, <3>7 DEF NrSitting
    <3>4. nrRoom[i].p1 = Nobody => i \in nrAlone'
      BY DEF NrPushes
    <3>5. QED
      BY <1>1, <1>2, <1>4, <3>1, <3>3, <3>4 DEF NrRoomInv, NrFull
  <2>2. ASSUME NEW j \in NrRoomIds \ {i} PROVE NrRoomInv(j)'
    <3>1. NrRoomInv(j) /\ NrSeats(j) \subseteq NrPlayers \ {p}
      BY <1>6 DEF NrInv
    <3>2. \A q \in NrSeats(j) : nrPlayer'[q].at \in NrSitting /\ nrPlayer'[q].room = nrPlayer[q].room
      BY <1>4, <3>1 DEF NrRoomInv
    <3>3. QED
      BY <1>4, <3>1, <3>2, NrRoomKept
  <2>3. QED
    BY <2>1, <2>2
<1>8. \A q \in NrPlayers : NrPlayerInv(q)'
  <2>1. NrPlayerInv(p)'
    BY <1>1, <1>2, <1>4 DEF NrPlayerInv, NrSeats
  <2>2. ASSUME NEW q \in NrPlayers \ {p} PROVE NrPlayerInv(q)'
    <3>1. NrPlayerInv(q) /\ nrPlayer'[q] = nrPlayer[q]
      BY <1>4 DEF NrInv
    <3>2. CASE nrPlayer[q].room # i
      BY <1>4, <3>1, <3>2 DEF NrPlayerInv, NrExplained, NrSeats
    <3>3. CASE nrPlayer[q].room = i
      <4>1. nrRoom[i].p1 = Nobody => nrRoom'[i].p1 = Nobody /\ i \in nrAlone'
        BY <1>2, <1>4 DEF NrPushes
      <4>2. nrRoom[i].p2 = Nobody /\ q \in NrSeats(i) => q \in NrSeats(i)'
        BY <1>2, <1>4 DEF NrSeats
      <4>3. QED
        BY <3>1, <3>3, <4>1, <4>2 DEF NrPlayerInv, NrExplained
    <3>4. QED
      BY <3>2, <3>3
  <2>3. QED
    BY <2>1, <2>2
<1>9. NrQueueInv'
  <2>1. SUFFICES ASSUME nrQueue # Nobody, nrQueue' = nrQueue
                 PROVE  NrQueueInv'
    BY DEF NrQueueInv
  <2> DEFINE k == nrPlayer[nrQueue].room
  <2>2. /\ nrQueue \in NrPlayers /\ k \in NrRoomIds /\ nrRoom[k].p1 = nrQueue
        /\ (k \in DOMAIN nrRooms /\ nrRooms[k] = k) \/ k \in nrAlone
        /\ \/ k \in nrNamed
           \/ nrRoom[k].p2 = Nobody /\ (nrRoom[k].ended => nrToppedBy[k] = nrQueue)
    BY <2>1 DEF NrInv, NrQueueInv, NrTypeInv
  <2>3. nrQueue # p
    BY <1>1, <2>1, <2>2 DEF NrSeats
  <2>8. nrPlayer'[nrQueue] = nrPlayer[nrQueue]
    BY <1>4, <2>2, <2>3
  <2>4. nrPlayer'[nrQueue'].room = k /\ nrRoom'[k].p1 = nrRoom[k].p1
    <3>1. nrRoom'[k].p1 = nrRoom[k].p1
      BY <1>2, <1>4, <2>2
    <3>2. QED
      BY <2>1, <2>8, <3>1
  <2>5. (k \in DOMAIN nrRooms' /\ nrRooms'[k] = k) \/ k \in nrAlone'
    BY <2>2 DEF NrExplained
  <2>6. \/ k \in nrNamed'
        \/ nrRoom'[k].p2 = Nobody /\ (nrRoom'[k].ended => nrToppedBy'[k] = nrQueue')
    <3>1. CASE k = i
      BY <2>1, <3>1 DEF NrWaits
    <3>2. CASE k # i
      BY <1>4, <2>1, <2>2, <3>2 DEF NrExplained
    <3>3. QED
      BY <3>1, <3>2
  <2> HIDE DEF k
  <2>7. QED
    BY <2>1, <2>2, <2>4, <2>5, <2>6 DEF NrQueueInv
<1>10. QED
  BY <1>5, <1>7, <1>8, <1>9 DEF NrInv, OneWinner

LEMMA NrJoins ==
    ASSUME NrInv, NEW p \in NrPlayers, NrJoinQuick(p) \/ \E c \in NrCodes : NrJoinRoom(p, c)
    PROVE  NrInv'
<1>1. ASSUME NEW c \in NrCodes, NrJoinRoom(p, c), c \in DOMAIN nrRooms PROVE NrInv'
  <2>1. /\ nrRooms[c] \in NrRoomIds /\ ~NrFull(nrRooms[c]) /\ NrPair(p, nrRooms[c])
        /\ nrAlone' = nrAlone \cup NrPushes(nrRooms[c])
        /\ nrNamed' = IF NrWaits(nrRooms[c]) THEN nrNamed \cup {nrRooms[c]} ELSE nrNamed
        /\ UNCHANGED <<nrRooms, nrQueue, nrToppedBy, nrTwice>> /\ nrPlayer[p].at = "new"
    BY <1>1 DEF NrJoinRoom, NrConnects, NrInv, NrTypeInv
  <2>2. NrExplained
    BY <2>1 DEF NrExplained
  <2>3. \A d \in DOMAIN nrRooms' : nrRooms'[d] \in NrRoomIds
    BY <2>1 DEF NrInv, NrTypeInv
  <2>4. QED
    BY <2>1, <2>2, <2>3, NrPaired DEF NrFull
<1>2. ASSUME NEW c \in NrCodes, NrJoinRoom(p, c), c \notin DOMAIN nrRooms PROVE NrInv'
  <2>1. PICK i \in NrUnused : NrCreate(p, i, c)
    BY <1>2 DEF NrJoinRoom
  <2>2. nrAlone' = nrAlone \cup NrReplaces(c, i)
    BY <1>2 DEF NrJoinRoom, NrReplaces
  <2>3. nrPlayer[p].at = "new" /\ UNCHANGED <<nrQueue, nrToppedBy, nrTwice, nrNamed>>
    BY <1>2 DEF NrJoinRoom, NrConnects
  <2>4. QED
    BY <2>1, <2>2, <2>3, NrCreated
<1>3. ASSUME NrJoinQuick(p), nrQueue = Nobody PROVE NrInv'
  <2>1. PICK i \in NrUnused : NrCreate(p, i, i) /\ nrAlone' = nrAlone \cup NrReplaces(i, i)
    BY <1>3 DEF NrJoinQuick
  <2>2. /\ nrPlayer[p].at = "new" /\ nrQueue' = p /\ i \in NrRoomIds
        /\ UNCHANGED <<nrToppedBy, nrTwice, nrNamed>>
    BY <1>3 DEF NrJoinQuick, NrConnects, NrUnused
  <2>3. QED
    BY <1>3, <2>1, <2>2, NrCreated
<1>4. ASSUME NrJoinQuick(p), nrQueue # Nobody PROVE NrInv'
  <2> DEFINE i == nrPlayer[nrQueue].room
  <2>1. /\ i \in NrRoomIds
        /\ nrRoom[i].p2 = Nobody \/ i \in nrNamed
    BY <1>4 DEF NrInv, NrQueueInv
  <2>2. /\ nrQueue' = Nobody /\ nrRooms' = NrPut(nrRooms, i, i) /\ NrPair(p, i)
        /\ nrAlone' = nrAlone \cup NrPushes(i) \cup NrReplaces(i, i)
        /\ UNCHANGED <<nrToppedBy, nrTwice, nrNamed>> /\ nrPlayer[p].at = "new"
    BY <1>4 DEF NrJoinQuick, NrConnects
  <2> HIDE DEF i
  <2>3. NrExplained
    BY <2>2 DEF NrExplained, NrPut, NrReplaces
  <2>4. \A d \in DOMAIN nrRooms' : nrRooms'[d] \in NrRoomIds
    BY <2>1, <2>2 DEF NrPut, NrInv, NrTypeInv
  <2>5. QED
    BY <2>1, <2>2, <2>3, <2>4, NrPaired
<1>5. QED
  BY <1>1, <1>2, <1>3, <1>4

\* The queued player's room is as it was, or the entry's loss is explained.
LEMMA NrQueueKept ==
    ASSUME NrInv, nrQueue' \in {nrQueue, Nobody}, NrExplained,
           nrQueue' # Nobody =>
               LET i == nrPlayer[nrQueue].room
               IN /\ nrPlayer'[nrQueue].room = i /\ nrRoom'[i].p1 = nrRoom[i].p1
                  /\ i \in nrNamed \/ (/\ nrRoom'[i].p2 = nrRoom[i].p2
                                       /\ nrRoom'[i].ended => nrRoom[i].ended \/ nrToppedBy'[i] = nrQueue
                                       /\ nrToppedBy[i] = nrQueue => nrToppedBy'[i] = nrQueue)
    PROVE  NrQueueInv'
<1>1. SUFFICES ASSUME nrQueue # Nobody, nrQueue' = nrQueue
               PROVE  NrQueueInv'
  BY DEF NrQueueInv
<1> DEFINE k == nrPlayer[nrQueue].room
<1>2. /\ k \in NrRoomIds /\ nrRoom[k].p1 = nrQueue
      /\ (k \in DOMAIN nrRooms /\ nrRooms[k] = k) \/ k \in nrAlone
      /\ \/ k \in nrNamed
         \/ nrRoom[k].p2 = Nobody /\ (nrRoom[k].ended => nrToppedBy[k] = nrQueue)
  BY <1>1 DEF NrInv, NrQueueInv
<1>3. /\ nrPlayer'[nrQueue'].room = k /\ nrRoom'[k].p1 = nrQueue'
      /\ k \in nrNamed \/ (/\ nrRoom'[k].p2 = nrRoom[k].p2
                           /\ nrRoom'[k].ended => nrRoom[k].ended \/ nrToppedBy'[k] = nrQueue
                           /\ nrToppedBy[k] = nrQueue => nrToppedBy'[k] = nrQueue)
  BY <1>1, <1>2
<1>4. (k \in DOMAIN nrRooms' /\ nrRooms'[k] = k) \/ k \in nrAlone'
  BY <1>2 DEF NrExplained
<1>5. \/ k \in nrNamed'
      \/ nrRoom'[k].p2 = Nobody /\ (nrRoom'[k].ended => nrToppedBy'[k] = nrQueue')
  BY <1>1, <1>2, <1>3 DEF NrExplained
<1> HIDE DEF k
<1>6. QED
  BY <1>1, <1>2, <1>3, <1>4, <1>5 DEF NrQueueInv

\* The socket of a player who sits nowhere is closed, or its read loop ends.
LEMMA NrCloses ==
    ASSUME NrInv, NEW p \in NrPlayers, NrReadEnds(p) \/ \E c \in NrCodes : NrRefused(p, c)
    PROVE  NrInv'
<1>1. /\ \/ nrPlayer[p].at = "open" /\ nrPlayer' = [nrPlayer EXCEPT ![p].at = "draining"]
         \/ nrPlayer[p].at = "new" /\ nrPlayer' = [nrPlayer EXCEPT ![p].at = "gone"]
      /\ UNCHANGED <<nrRooms, nrRoom, nrQueue, nrToppedBy, nrTwice, nrAlone, nrNamed>>
  BY DEF NrReadEnds, NrRefused, NrConnects, nrHub, nrSeen
<1>2. nrPlayer \in [NrPlayers -> NrPlayerT]
  BY DEF NrInv, NrTypeInv
<1>3. /\ nrPlayer' \in [NrPlayers -> NrPlayerT]
      /\ \A q \in NrPlayers : /\ nrPlayer'[q].room = nrPlayer[q].room
                              /\ nrPlayer'[q].at \in NrSitting <=> nrPlayer[q].at \in NrSitting
  BY <1>1, <1>2 DEF NrPlayerT, NrSitting
<1>4. NrExplained /\ NrTypeInv'
  BY <1>1, <1>3 DEF NrExplained, NrInv, NrTypeInv
<1>5. \A j \in NrRoomIds : NrSeats(j)' = NrSeats(j) /\ NrSeats(j) \subseteq NrPlayers
  BY <1>1 DEF NrSeats, NrInv, NrTypeInv, NrRoomT
<1>6. ASSUME NEW j \in NrRoomIds PROVE NrRoomInv(j)'
  <2>1. NrRoomInv(j) /\ nrRoom'[j] = nrRoom[j] /\ nrToppedBy'[j] = nrToppedBy[j]
    BY <1>1 DEF NrInv
  <2>2. \A q \in NrSeats(j) : nrPlayer'[q].at \in NrSitting /\ nrPlayer'[q].room = nrPlayer[q].room
    BY <1>3, <1>5, <2>1 DEF NrRoomInv
  <2>3. QED
    BY <1>4, <2>1, <2>2, NrRoomKept
<1>7. ASSUME NEW q \in NrPlayers PROVE NrPlayerInv(q)'
  BY <1>1, <1>3, <1>4, <1>5, NrPlayerKept DEF NrInv
<1>8. NrQueueInv'
  <2>1. nrQueue # Nobody => nrPlayer'[nrQueue].room = nrPlayer[nrQueue].room
    BY <1>3 DEF NrInv, NrTypeInv
  <2>2. QED
    BY <1>1, <1>4, <2>1, NrQueueKept
<1>9. QED
  BY <1>1, <1>4, <1>6, <1>7, <1>8 DEF NrInv, OneWinner

\* A step in which room i goes on, and everybody sits where he sat.
LEMMA NrRoomGoesOn ==
    ASSUME NrInv, NEW i \in NrRoomIds, NEW room \in NrRoomT, nrRoom' = [nrRoom EXCEPT ![i] = room],
           room.p1 = nrRoom[i].p1, room.p2 = nrRoom[i].p2, room.code = nrRoom[i].code,
           NrExplained, nrToppedBy' \in [NrRoomIds -> NrPlayers \cup {Nobody}],
           \A j \in NrRoomIds : nrToppedBy'[j] = nrToppedBy[j] \/ (j = i /\ room.ended),
           \A c \in DOMAIN nrRooms' : nrRooms'[c] \in NrRoomIds,
           nrPlayer' \in [NrPlayers -> NrPlayerT],
           \A q \in NrPlayers : nrPlayer'[q].at = nrPlayer[q].at /\ nrPlayer'[q].room = nrPlayer[q].room,
           nrRoom[i].ended => room.ended,
           room.wait = nrRoom[i].wait \/ room.wait = "fired" \/ room.ended \/ room.p2 # Nobody,
           room.inPlay => room.ended \/ nrRoom[i].inPlay \/ NrFull(i),
           nrQueue' \in {nrQueue, Nobody},
           NrWaits(i) /\ nrQueue' # Nobody /\ i \notin nrNamed =>
               /\ room.ended => nrRoom[i].ended \/ nrToppedBy'[i] = nrQueue
               /\ nrToppedBy[i] = nrQueue => nrToppedBy'[i] = nrQueue,
           ~nrTwice'
    PROVE  NrInv'
<1>1. nrRoom \in [NrRoomIds -> NrRoomT]
  BY DEF NrInv, NrTypeInv
<1>2. /\ nrRoom' \in [NrRoomIds -> NrRoomT] /\ nrRoom'[i] = room
      /\ \A j \in NrRoomIds \ {i} : nrRoom'[j] = nrRoom[j]
  BY <1>1
<1>3. NrTypeInv'
  BY <1>2 DEF NrInv, NrTypeInv
<1>4. \A j \in NrRoomIds : NrSeats(j)' = NrSeats(j) /\ NrSeats(j) \subseteq NrPlayers
  BY <1>1, <1>2 DEF NrSeats, NrRoomT
<1>5. ASSUME NEW j \in NrRoomIds PROVE NrRoomInv(j)'
  <2>1. NrRoomInv(j)
    BY DEF NrInv
  <2>2. \A q \in NrSeats(j) : nrPlayer'[q].at \in NrSitting /\ nrPlayer'[q].room = nrPlayer[q].room
    BY <1>4, <2>1 DEF NrRoomInv
  <2>3. CASE j # i
    BY <1>2, <2>1, <2>2, <2>3, NrRoomKept
  <2>4. CASE j = i
    <3>1. NrFull(i)' <=> NrFull(i)
      BY <1>2 DEF NrFull
    <3>2. NrFound(i) => NrFound(i)' \/ i \in nrAlone' \/ room.ended \/ room.p2 # Nobody
      BY <1>2 DEF NrFound, NrExplained
    <3>3. nrToppedBy'[i] # Nobody => room.ended
      BY <2>1, <2>4 DEF NrRoomInv
    <3>4. i \in nrAlone => i \in nrAlone'
      BY DEF NrExplained
    <3>5. \A q \in NrSeats(i)' : nrPlayer'[q].at \in NrSitting /\ nrPlayer'[q].room = i
      BY <1>4, <2>1, <2>2, <2>4 DEF NrRoomInv
    <3>6. NrRoomInv(i)
      BY <2>1, <2>4
    <3>7. QED
      BY <1>2, <2>4, <3>1, <3>2, <3>3, <3>4, <3>5, <3>6 DEF NrRoomInv
  <2>5. QED
    BY <2>3, <2>4
<1>6. ASSUME NEW q \in NrPlayers PROVE NrPlayerInv(q)'
  <2>1. \A j \in NrRoomIds : nrRoom'[j].p1 = nrRoom[j].p1
    BY <1>2
  <2>2. QED
    BY <1>4, <2>1, NrPlayerKept DEF NrInv
<1>7. NrQueueInv'
  <2>1. SUFFICES ASSUME nrQueue' # Nobody
                 PROVE  LET k == nrPlayer[nrQueue].room
                        IN /\ nrPlayer'[nrQueue].room = k /\ nrRoom'[k].p1 = nrRoom[k].p1
                           /\ k \in nrNamed \/ (/\ nrRoom'[k].p2 = nrRoom[k].p2
                                                /\ nrRoom'[k].ended => nrRoom[k].ended \/ nrToppedBy'[k] = nrQueue
                                                /\ nrToppedBy[k] = nrQueue => nrToppedBy'[k] = nrQueue)
    BY NrQueueKept
  <2> DEFINE k == nrPlayer[nrQueue].room
  <2>2. nrQueue \in NrPlayers /\ k \in NrRoomIds /\ nrQueue # Nobody
    BY <2>1 DEF NrInv, NrTypeInv, NrQueueInv
  <2>3. nrPlayer'[nrQueue].room = k
    BY <2>2
  <2>4. CASE k = i
    BY <1>2, <2>1, <2>2, <2>3, <2>4 DEF NrWaits
  <2>5. CASE k # i
    <3>1. nrRoom'[k] = nrRoom[k] /\ nrToppedBy'[k] = nrToppedBy[k]
      BY <1>2, <2>2, <2>5
    <3>2. QED
      BY <2>3, <3>1
  <2>6. QED
    BY <2>4, <2>5
<1>8. QED
  BY <1>3, <1>5, <1>6, <1>7 DEF NrInv, OneWinner

\* A timer fires, and its handler ends the room unless a second player came.
LEMMA NrTimers ==
    ASSUME NrInv, NEW i \in NrRoomIds, NrWaitFires(i) \/ NrHandleWaitingTimeout(i)
    PROVE  NrInv'
<1>1. /\ nrRoom \in [NrRoomIds -> NrRoomT] /\ nrRoom[i] \in NrRoomT
      /\ nrPlayer \in [NrPlayers -> NrPlayerT]
      /\ nrToppedBy \in [NrRoomIds -> NrPlayers \cup {Nobody}]
      /\ \A c \in DOMAIN nrRooms : nrRooms[c] \in NrRoomIds
      /\ ~nrTwice
  BY DEF NrInv, NrTypeInv, OneWinner
<1>2. CASE NrWaitFires(i)
  <2> DEFINE room == [nrRoom[i] EXCEPT !.wait = "fired"]
  <2>1. /\ room \in NrRoomT /\ room.p1 = nrRoom[i].p1 /\ room.p2 = nrRoom[i].p2
        /\ room.code = nrRoom[i].code /\ room.ended = nrRoom[i].ended
        /\ room.inPlay = nrRoom[i].inPlay /\ room.wait = "fired"
    BY <1>1 DEF NrRoomT
  <2>2. /\ nrRoom' = [nrRoom EXCEPT ![i] = room]
        /\ UNCHANGED <<nrRooms, nrQueue, nrPlayer, nrToppedBy, nrTwice, nrAlone, nrNamed>>
    BY <1>2 DEF NrWaitFires, nrSeen
  <2> HIDE DEF room
  <2>3. NrExplained
    BY <2>2 DEF NrExplained
  <2>4. QED
    BY <1>1, <2>1, <2>2, <2>3, NrRoomGoesOn
<1>3. CASE NrHandleWaitingTimeout(i) /\ (nrRoom[i].p2 # Nobody \/ nrRoom[i].ended)
  <2> DEFINE room == [nrRoom[i] EXCEPT !.wait = "off"]
  <2>1. /\ room \in NrRoomT /\ room.p1 = nrRoom[i].p1 /\ room.p2 = nrRoom[i].p2
        /\ room.code = nrRoom[i].code /\ room.ended = nrRoom[i].ended
        /\ room.inPlay = nrRoom[i].inPlay
    BY <1>1 DEF NrRoomT
  <2>2. /\ nrRoom' = [nrRoom EXCEPT ![i] = room]
        /\ UNCHANGED <<nrRooms, nrQueue, nrPlayer, nrToppedBy, nrTwice, nrAlone, nrNamed>>
    BY <1>3 DEF NrHandleWaitingTimeout
  <2> HIDE DEF room
  <2>3. NrExplained
    BY <2>2 DEF NrExplained
  <2>4. room.ended \/ room.p2 # Nobody
    BY <1>3, <2>1
  <2>5. QED
    BY <1>1, <2>1, <2>2, <2>3, <2>4, NrRoomGoesOn
<1>4. CASE NrHandleWaitingTimeout(i) /\ ~(nrRoom[i].p2 # Nobody \/ nrRoom[i].ended)
  <2> DEFINE room == [nrRoom[i] EXCEPT !.wait = "off", !.ended = TRUE]
  <2>1. /\ room \in NrRoomT /\ room.p1 = nrRoom[i].p1 /\ room.p2 = nrRoom[i].p2
        /\ room.code = nrRoom[i].code /\ room.ended /\ room.inPlay = nrRoom[i].inPlay
    BY <1>1 DEF NrRoomT
  <2>2. /\ nrRoom' = [nrRoom EXCEPT ![i] = room]
        /\ nrQueue' = NrDequeued(i) /\ nrRooms' = NrDelete(nrRooms, nrRoom[i].code)
        /\ nrAlone' = nrAlone \cup NrReplaces(nrRoom[i].code, NoRoom)
        /\ UNCHANGED <<nrPlayer, nrToppedBy, nrTwice, nrNamed>>
    <3>1. nrRoom' = [nrRoom EXCEPT ![i].wait = "off", ![i].ended = TRUE]
      BY <1>4 DEF NrHandleWaitingTimeout
    <3>2. nrRoom' = [nrRoom EXCEPT ![i] = room]
      BY <1>1, <3>1 DEF NrRoomT
    <3>3. nrRoom[i].code \in DOMAIN nrRooms => nrRooms[nrRoom[i].code] # NoRoom
      BY <1>1, NetrisAssumption DEF NoRoom
    <3> HIDE DEF room
    <3>4. nrAlone' = nrAlone \cup NrReplaces(nrRoom[i].code, NoRoom)
      BY <1>4, <3>3 DEF NrHandleWaitingTimeout, NrReplaces
    <3>5. QED
      BY <1>4, <3>2, <3>4 DEF NrHandleWaitingTimeout
  <2> HIDE DEF room
  <2>3. NrExplained /\ \A c \in DOMAIN nrRooms' : nrRooms'[c] \in NrRoomIds
    <3>1. \A c \in DOMAIN nrRooms : nrRooms[c] # NoRoom
      BY <1>1, NetrisAssumption DEF NoRoom
    <3>2. QED
      BY <1>1, <2>2, <3>1 DEF NrExplained, NrDelete, NrReplaces
  <2>4. nrQueue' \in {nrQueue, Nobody} /\ (NrWaits(i) => nrQueue' = Nobody)
    BY <2>2 DEF NrDequeued, NrWaits, NrInv, NrQueueInv
  <2>5. QED
    BY <1>1, <2>1, <2>2, <2>3, <2>4, NrRoomGoesOn
<1>5. QED
  BY <1>2, <1>3, <1>4

\* A frame of a player in a room that goes on.
LEMMA NrFrames ==
    ASSUME NrInv, NEW p \in NrPlayers, NrReady(p) \/ NrToppedOut(p)
    PROVE  NrInv'
<1> DEFINE i == nrPlayer[p].room
<1>1. /\ nrRoom \in [NrRoomIds -> NrRoomT]
      /\ nrPlayer \in [NrPlayers -> NrPlayerT]
      /\ nrToppedBy \in [NrRoomIds -> NrPlayers \cup {Nobody}]
      /\ \A c \in DOMAIN nrRooms : nrRooms[c] \in NrRoomIds
      /\ ~nrTwice
  BY DEF NrInv, NrTypeInv, OneWinner
<1>2. nrPlayer[p].at = "open" /\ ~nrRoom[i].ended
  BY DEF NrReady, NrToppedOut, NrFrame
<1>3. i \in NrRoomIds /\ nrRoom[i] \in NrRoomT /\ NrRoomInv(i)
  BY <1>1, <1>2 DEF NrInv, NrPlayerInv, NrSitting
<1>4. NrWaits(i) /\ i \notin nrNamed => p = nrQueue
  <2>1. p \in NrSeats(i) \/ i \in nrNamed \/ nrRoom[i].p1 = Nobody
    BY <1>2 DEF NrInv, NrPlayerInv, NrSitting
  <2>2. NrWaits(i) /\ i \notin nrNamed => nrRoom[i].p1 = nrQueue /\ nrQueue # Nobody /\ nrRoom[i].p2 = Nobody
    BY DEF NrInv, NrQueueInv, NrWaits
  <2>3. QED
    BY <2>1, <2>2 DEF NrSeats
<1>5. CASE NrReady(p)
  <2>0. i \in NrRoomIds /\ nrRoom[i] \in NrRoomT
    BY <1>3
  <2>1. nrPlayer' = [nrPlayer EXCEPT ![p].ready = TRUE]
    BY SMTT(30), <1>5 DEF NrReady
  <2>2. PICK starts \in BOOLEAN : /\ starts => NrFull(i)
                                  /\ nrRoom' = [nrRoom EXCEPT ![i].inPlay = @ \/ starts]
    BY <1>5 DEF NrReady
  <2> DEFINE room == [nrRoom[i] EXCEPT !.inPlay = @ \/ starts]
  <2>3. nrRoom' = [nrRoom EXCEPT ![i] = room]
    BY <1>1, <2>0, <2>2 DEF NrRoomT
  <2>4. /\ room \in NrRoomT /\ room.p1 = nrRoom[i].p1 /\ room.p2 = nrRoom[i].p2
        /\ room.code = nrRoom[i].code /\ room.ended = nrRoom[i].ended
        /\ room.wait = nrRoom[i].wait /\ (room.inPlay => nrRoom[i].inPlay \/ NrFull(i))
    BY <2>0, <2>2 DEF NrRoomT
  <2>5. UNCHANGED <<nrRooms, nrQueue, nrToppedBy, nrTwice, nrAlone, nrNamed>>
    BY <1>5 DEF NrReady, nrSeen
  <2>6. /\ nrPlayer' \in [NrPlayers -> NrPlayerT]
        /\ \A q \in NrPlayers : nrPlayer'[q].at = nrPlayer[q].at /\ nrPlayer'[q].room = nrPlayer[q].room
    BY <1>1, <2>1 DEF NrPlayerT
  <2> HIDE DEF room, i
  <2>7. NrExplained
    BY <2>5 DEF NrExplained
  <2>8. QED
    BY <1>1, <2>0, <2>3, <2>4, <2>5, <2>6, <2>7, NrRoomGoesOn
<1>6. CASE NrToppedOut(p)
  <2>0. i \in NrRoomIds /\ nrRoom[i] \in NrRoomT
    BY <1>3
  <2> DEFINE room == [nrRoom[i] EXCEPT !.ended = TRUE]
  <2>1. /\ room \in NrRoomT /\ room.p1 = nrRoom[i].p1 /\ room.p2 = nrRoom[i].p2
        /\ room.code = nrRoom[i].code /\ room.ended /\ room.inPlay = nrRoom[i].inPlay
        /\ room.wait = nrRoom[i].wait
    BY <2>0 DEF NrRoomT
  <2>2. /\ nrRoom' = [nrRoom EXCEPT ![i] = room]
        /\ nrToppedBy' = [nrToppedBy EXCEPT ![i] = p]
        /\ UNCHANGED <<nrRooms, nrQueue, nrPlayer, nrAlone, nrNamed>>
    BY <1>6 DEF NrToppedOut
  <2>3. ~nrTwice'
    <3>1. nrToppedBy[i] = Nobody
      BY <1>2, <1>3 DEF NrRoomInv
    <3>2. nrTwice' = (nrTwice \/ nrToppedBy[i] # Nobody)
      BY <1>6 DEF NrToppedOut
    <3>3. QED
      BY <1>1, <3>1, <3>2
  <2>4. NrWaits(i) /\ i \notin nrNamed => nrToppedBy'[i] = nrQueue
    BY <1>1, <1>4, <2>0, <2>2
  <2>6. /\ nrToppedBy' \in [NrRoomIds -> NrPlayers \cup {Nobody}]
        /\ \A j \in NrRoomIds : nrToppedBy'[j] = nrToppedBy[j] \/ j = i
    BY <1>1, <2>0, <2>2
  <2> HIDE DEF room, i
  <2>5. NrExplained
    BY <2>2 DEF NrExplained
  <2>7. QED
    BY <1>1, <2>0, <2>1, <2>2, <2>3, <2>4, <2>5, <2>6, NrRoomGoesOn
<1>7. QED
  BY <1>5, <1>6

\* A player leaves: its seat is free, and whoever stays is alone for that reason.
LEMMA NrLeaves ==
    ASSUME NrInv, NEW p \in NrPlayers, NrLeave(p)
    PROVE  NrInv'
<1>0. nrPlayer[p].room \in NrRoomIds
  BY DEF NrLeave, NrInv, NrPlayerInv, NrSitting
<1> PICK i \in NrRoomIds : i = nrPlayer[p].room
  BY <1>0
<1> DEFINE other == NrOpponent(i, p)
           left == [nrRoom[i] EXCEPT !.p1 = IF @ = p THEN Nobody ELSE @,
                                     !.p2 = IF @ = p THEN Nobody ELSE @,
                                     !.ended = @ \/ NrForfeits(i, other)]
           empty == left.p1 = Nobody /\ left.p2 = Nobody
           room == [left EXCEPT !.wait = IF empty THEN NrCancel(@) ELSE @]
<1>1. /\ nrRoom \in [NrRoomIds -> NrRoomT]
      /\ nrPlayer \in [NrPlayers -> NrPlayerT]
      /\ nrToppedBy \in [NrRoomIds -> NrPlayers \cup {Nobody}]
      /\ \A c \in DOMAIN nrRooms : nrRooms[c] \in NrRoomIds
      /\ ~nrTwice /\ p # Nobody
  BY NrNobody DEF NrInv, NrTypeInv, OneWinner
<1>2. /\ i \in NrRoomIds /\ nrRoom[i] \in NrRoomT /\ NrRoomInv(i)
      /\ NrSeats(i) \subseteq NrPlayers
  BY <1>1 DEF NrInv, NrSeats, NrRoomT
<1>3. NrForfeits(i, other) \in BOOLEAN
  BY DEF NrForfeits
<1>4. /\ left \in NrRoomT /\ left.code = nrRoom[i].code /\ left.inPlay = nrRoom[i].inPlay
      /\ left.wait = nrRoom[i].wait
      /\ left.p1 = IF nrRoom[i].p1 = p THEN Nobody ELSE nrRoom[i].p1
      /\ left.p2 = IF nrRoom[i].p2 = p THEN Nobody ELSE nrRoom[i].p2
      /\ left.ended <=> nrRoom[i].ended \/ NrForfeits(i, other)
  <2>1. nrRoom[i].ended \in BOOLEAN /\ (nrRoom[i].ended \/ NrForfeits(i, other)) \in BOOLEAN
    BY <1>2, <1>3 DEF NrRoomT
  <2>2. nrRoom[i].p1 \in NrPlayers \cup {Nobody} /\ nrRoom[i].p2 \in NrPlayers \cup {Nobody}
    BY <1>2 DEF NrRoomT
  <2> HIDE DEF other
  <2>3. QED
    BY ZenonT(60), <1>2, <2>1, <2>2 DEF NrRoomT
<1>5. /\ nrRoom' = [nrRoom EXCEPT ![i] = room]
      /\ nrRooms' = IF empty THEN NrDelete(nrRooms, left.code) ELSE nrRooms
      /\ nrAlone' = nrAlone \cup (IF empty /\ left.code \in DOMAIN nrRooms THEN {nrRooms[left.code]} ELSE {})
                            \cup (IF other # Nobody THEN {i} ELSE {})
      /\ nrTwice' = (nrTwice \/ (NrForfeits(i, other) /\ nrToppedBy[i] # Nobody))
      /\ nrQueue' = IF nrQueue = p THEN Nobody ELSE nrQueue
      /\ nrPlayer' = [nrPlayer EXCEPT ![p] = [at |-> "gone", room |-> NoRoom, ready |-> FALSE]]
      /\ UNCHANGED <<nrToppedBy, nrNamed>>
  BY DEF NrLeave
<1> HIDE DEF left
<1>6. /\ room \in NrRoomT /\ room.p1 = left.p1 /\ room.p2 = left.p2 /\ room.code = left.code
      /\ room.inPlay = left.inPlay /\ room.ended = left.ended
      /\ ~empty => room.wait = left.wait
  BY <1>4 DEF NrRoomT, NrCancel
<1>7. /\ other = IF nrRoom[i].p1 = p THEN nrRoom[i].p2
                 ELSE IF nrRoom[i].p2 = p THEN nrRoom[i].p1 ELSE Nobody
  BY DEF NrOpponent
<1>8. /\ NrForfeits(i, other) <=> other # Nobody /\ nrRoom[i].inPlay /\ ~nrRoom[i].ended
  BY DEF NrForfeits
<1> HIDE DEF room, other
<1>9. NrExplained
  BY <1>5 DEF NrExplained, NrDelete
<1>10. /\ nrRoom'[i] = room /\ \A j \in NrRoomIds \ {i} : nrRoom'[j] = nrRoom[j]
       /\ nrPlayer' \in [NrPlayers -> NrPlayerT] /\ nrPlayer'[p].at = "gone"
       /\ \A q \in NrPlayers \ {p} : nrPlayer'[q] = nrPlayer[q]
  BY <1>1, <1>2, <1>5 DEF NrPlayerT
<1>18. /\ nrRoom'[i].p1 = IF nrRoom[i].p1 = p THEN Nobody ELSE nrRoom[i].p1
       /\ nrRoom'[i].p2 = IF nrRoom[i].p2 = p THEN Nobody ELSE nrRoom[i].p2
       /\ nrRoom'[i].code = nrRoom[i].code /\ nrRoom'[i].inPlay = nrRoom[i].inPlay
       /\ nrRoom'[i].ended <=> nrRoom[i].ended \/ NrForfeits(i, other)
       /\ nrRoom'[i].p1 # Nobody \/ nrRoom'[i].p2 # Nobody => nrRoom'[i].wait = nrRoom[i].wait
  <2>1. nrRoom'[i] = room
    BY <1>10
  <2>2. QED
    BY <1>4, <1>6, <2>1
<1>11. NrTypeInv'
  <2>1. nrRoom' \in [NrRoomIds -> NrRoomT]
    BY <1>1, <1>5, <1>6
  <2>2. nrQueue' \in NrPlayers \cup {Nobody}
    BY <1>5 DEF NrInv, NrTypeInv
  <2>3. \A c \in DOMAIN nrRooms' : nrRooms'[c] \in NrRoomIds
    BY <1>1, <1>5 DEF NrDelete
  <2>4. QED
    BY <1>1, <1>5, <1>10, <2>1, <2>2, <2>3 DEF NrTypeInv
<1>12. ~nrTwice'
  <2>1. ~(NrForfeits(i, other) /\ nrToppedBy[i] # Nobody)
    BY <1>2, <1>8 DEF NrRoomInv
  <2>2. QED
    BY <1>1, <1>5, <2>1
<1>13. \A j \in NrRoomIds : NrRoomInv(j)'
  <2>1. NrRoomInv(i)'
    <3>1. NrSeats(i)' = NrSeats(i) \ {p}
      BY <1>1, <1>18 DEF NrSeats
    <3>2. \A q \in NrSeats(i)' : nrPlayer'[q].at \in NrSitting /\ nrPlayer'[q].room = i
      BY <1>2, <1>10, <3>1 DEF NrRoomInv
    <3>3. nrRoom'[i].p1 = nrRoom'[i].p2 => nrRoom'[i].p1 = Nobody
      BY <1>2, <1>18 DEF NrRoomInv
    <3>4. other # Nobody => i \in nrAlone'
      BY <1>5
    <3>5. i \in nrAlone => i \in nrAlone'
      BY <1>5
    <3>6. nrRoom'[i].p1 = Nobody /\ nrRoom'[i].p2 # Nobody => i \in nrAlone'
      BY <1>1, <1>2, <1>18, <1>7, <3>4, <3>5 DEF NrRoomInv
    <3>7. nrToppedBy'[i] # Nobody => nrRoom'[i].ended
      BY <1>2, <1>5, <1>18 DEF NrRoomInv
    <3>8. nrRoom'[i].inPlay /\ ~nrRoom'[i].ended => nrRoom'[i].p1 # Nobody /\ nrRoom'[i].p2 # Nobody
      BY <1>1, <1>2, <1>18, <1>7, <1>8 DEF NrRoomInv, NrFull
    <3>9. nrRoom'[i].p1 # Nobody /\ nrRoom'[i].p2 = Nobody /\ ~nrRoom'[i].ended => i \in nrAlone' \/ NrFound(i)'
      <4>1. SUFFICES ASSUME nrRoom'[i].p1 # Nobody, nrRoom'[i].p2 = Nobody, ~nrRoom'[i].ended, other = Nobody
                     PROVE  i \in nrAlone' \/ NrFound(i)'
        BY <3>4
      <4>2. nrRoom[i].p1 # Nobody /\ nrRoom[i].p2 = Nobody /\ ~nrRoom[i].ended
        BY <1>1, <1>18, <1>7, <4>1
      <4>3. i \in nrAlone \/ NrFound(i)
        BY <1>2, <4>2 DEF NrRoomInv
      <4>4. nrRoom'[i].wait = nrRoom[i].wait /\ nrRoom'[i].code = nrRoom[i].code
        BY <1>18, <4>1
      <4>5. QED
        BY <1>9, <3>5, <4>3, <4>4 DEF NrFound, NrExplained
    <3>10. QED
      BY <3>2, <3>3, <3>6, <3>7, <3>8, <3>9 DEF NrRoomInv, NrFull
  <2>2. ASSUME NEW j \in NrRoomIds \ {i} PROVE NrRoomInv(j)'
    <3>1. NrRoomInv(j) /\ NrSeats(j) \subseteq NrPlayers
      BY <1>1 DEF NrInv, NrSeats, NrRoomT
    <3>2. p \notin NrSeats(j)
      BY <3>1 DEF NrRoomInv
    <3>3. \A q \in NrSeats(j) : nrPlayer'[q].at \in NrSitting /\ nrPlayer'[q].room = nrPlayer[q].room
      BY <1>10, <3>1, <3>2 DEF NrRoomInv
    <3>4. QED
      BY <1>5, <1>9, <1>10, <3>1, <3>3, NrRoomKept
  <2>3. QED
    BY <2>1, <2>2
<1>14. \A q \in NrPlayers : NrPlayerInv(q)'
  <2>1. NrPlayerInv(p)'
    BY <1>10 DEF NrPlayerInv, NrSitting
  <2>2. ASSUME NEW q \in NrPlayers \ {p} PROVE NrPlayerInv(q)'
    <3>1. \A j \in NrRoomIds : /\ nrRoom[j].p1 = Nobody => nrRoom'[j].p1 = Nobody
                               /\ q \in NrSeats(j) => q \in NrSeats(j)'
      <4>1. ASSUME NEW j \in NrRoomIds, j # i
            PROVE  nrRoom'[j] = nrRoom[j]
        BY <1>10, <4>1
      <4>2. /\ nrRoom[i].p1 = Nobody => nrRoom'[i].p1 = Nobody
            /\ q \in NrSeats(i) => q \in NrSeats(i)'
        BY <1>1, <1>18 DEF NrSeats
      <4>3. QED
        BY <4>1, <4>2 DEF NrSeats
    <3>2. QED
      BY <1>9, <1>10, <3>1, NrPlayerKept DEF NrInv
  <2>3. QED
    BY <2>1, <2>2
<1>15. NrQueueInv'
  <2>1. SUFFICES ASSUME nrQueue' # Nobody
                 PROVE  LET k == nrPlayer[nrQueue].room
                        IN /\ nrPlayer'[nrQueue].room = k /\ nrRoom'[k].p1 = nrRoom[k].p1
                           /\ k \in nrNamed \/ (/\ nrRoom'[k].p2 = nrRoom[k].p2
                                                /\ nrRoom'[k].ended => nrRoom[k].ended \/ nrToppedBy'[k] = nrQueue
                                                /\ nrToppedBy[k] = nrQueue => nrToppedBy'[k] = nrQueue)
    BY <1>5, <1>9, NrQueueKept
  <2> DEFINE k == nrPlayer[nrQueue].room
  <2>2. /\ nrQueue \in NrPlayers \ {p} /\ k \in NrRoomIds /\ nrRoom[k].p1 = nrQueue
        /\ k \in nrNamed \/ nrRoom[k].p2 = Nobody
    BY <1>5, <2>1 DEF NrInv, NrTypeInv, NrQueueInv
  <2>3. nrPlayer'[nrQueue].room = k
    BY <1>10, <2>2
  <2>4. CASE k = i
    <3>1. nrRoom'[i].p1 = nrRoom[i].p1 /\ (i \in nrNamed \/ (nrRoom'[i].p2 = nrRoom[i].p2 /\ (nrRoom'[i].ended => nrRoom[i].ended)))
      BY <1>1, <1>18, <1>7, <1>8, <2>2, <2>4
    <3>2. nrToppedBy' = nrToppedBy
      BY <1>5
    <3>3. QED
      BY <1>10, <2>3, <2>4, <3>1, <3>2
  <2>5. CASE k # i
    BY <1>5, <1>10, <2>2, <2>3, <2>5
  <2>6. QED
    BY <2>4, <2>5
<1>16. QED
  BY SMTT(30), <1>11, <1>12, <1>13, <1>14, <1>15 DEF NrInv, OneWinner

\* The invariant holds at the start, is kept by every step, and gives NetrisSafe.
LEMMA NrInductive ==
    NrInv /\ [NrNext]_nrVars => NrInv'
<1>1. ASSUME NrInv, NrNext PROVE NrInv'
  BY <1>1, NrJoins, NrCloses, NrTimers, NrFrames, NrLeaves DEF NrNext
<1>2. ASSUME NrInv, UNCHANGED nrVars PROVE NrInv'
  <2>1. UNCHANGED <<nrRooms, nrRoom, nrQueue, nrPlayer, nrToppedBy, nrTwice, nrAlone, nrNamed>>
    BY <1>2 DEF nrVars, nrHub, nrSeen
  <2>2. NrInv
    BY <1>2
  <2>3. QED
    BY <2>1, <2>2 DEF NrInv, NrTypeInv, OneWinner, NrQueueInv, NrRoomInv, NrPlayerInv, NrSeats, NrFull, NrFound
<1>3. QED
  BY <1>1, <1>2

LEMMA NrInitInv ==
    NrInit => NrInv
<1>1. SUFFICES ASSUME NrInit PROVE NrInv
  OBVIOUS
<1>2. EmptyRoom \in NrRoomT /\ EmptyRoom.p1 = Nobody /\ EmptyRoom.p2 = Nobody /\ ~EmptyRoom.inPlay
  BY DEF EmptyRoom, NrRoomT
<1>3. NrTypeInv
  BY <1>1, <1>2 DEF NrInit, NrTypeInv, NrPlayerT
<1>4. \A i \in NrRoomIds : NrRoomInv(i)
  BY <1>1, <1>2 DEF NrInit, NrRoomInv, NrSeats
<1>5. \A p \in NrPlayers : NrPlayerInv(p)
  BY <1>1 DEF NrInit, NrPlayerInv, NrSitting
<1>6. QED
  BY <1>1, <1>3, <1>4, <1>5 DEF NrInit, NrInv, NrQueueInv, OneWinner

LEMMA NrInvSafe ==
    NrInv => NetrisSafe
<1>1. SUFFICES ASSUME NrInv PROVE NetrisSafe
  OBVIOUS
<1>2. OneWinner /\ SeatsAreOpen
  BY <1>1 DEF NrInv, SeatsAreOpen, NrRoomInv, NrSitting
<1>3. SeatsKept
  BY <1>1 DEF NrInv, SeatsKept, NrPlayerInv, NrSitting
<1>4. QueueIsLive
  BY <1>1 DEF NrInv, QueueIsLive, NrQueueInv
<1>5. PlayedByTwo
  <2>1. SUFFICES ASSUME NEW i \in NrRoomIds, nrRoom[i].inPlay, ~nrRoom[i].ended
                 PROVE  Cardinality(NrSeats(i)) = 2
    BY DEF PlayedByTwo
  <2>2. NrFull(i) /\ nrRoom[i].p1 # nrRoom[i].p2
    BY <1>1, <2>1 DEF NrInv, NrRoomInv, NrFull
  <2>3. /\ NrSeats(i) = {nrRoom[i].p2} \cup {nrRoom[i].p1} /\ nrRoom[i].p1 # nrRoom[i].p2
    BY <2>2 DEF NrSeats, NrFull
  <2>4. QED
    <3>1. Cardinality({nrRoom[i].p2} \cup {nrRoom[i].p1}) = 2
      BY <2>3, CardTwo
    <3>2. QED
      BY <2>3, <3>1
<1>6. WaitersFound
  <2>1. SUFFICES ASSUME NEW i \in NrRoomIds \ nrAlone, Cardinality(NrSeats(i)) = 1, ~nrRoom[i].ended
                 PROVE  NrFound(i)
    BY DEF WaitersFound, NrFound
  <2>2. CASE NrFull(i)
    <3>1. nrRoom[i].p1 # nrRoom[i].p2
      BY <1>1, <2>2 DEF NrInv, NrRoomInv, NrFull
    <3>2. /\ NrSeats(i) = {nrRoom[i].p2} \cup {nrRoom[i].p1} /\ nrRoom[i].p1 # nrRoom[i].p2
      BY <2>2, <3>1 DEF NrSeats, NrFull
    <3>3. QED
      <4>1. Cardinality({nrRoom[i].p2} \cup {nrRoom[i].p1}) = 2
        BY <3>2, CardTwo
      <4>2. QED
        BY <2>1, <3>2, <4>1
  <2>3. CASE nrRoom[i].p1 = Nobody /\ nrRoom[i].p2 = Nobody
    BY <2>1, <2>3, FS_EmptySet DEF NrSeats
  <2>4. NrRoomInv(i)
    BY <1>1 DEF NrInv
  <2>5. QED
    BY <2>1, <2>2, <2>3, <2>4 DEF NrRoomInv, NrFull
<1>7. QED
  BY <1>2, <1>3, <1>4, <1>5, <1>6 DEF NetrisSafe

-----------------------------------------------------------------------------
(* NetChess. *)

NcSitting == {"open", "draining"}

NcClocks == [Sides -> Nat]
NcSeating == [Sides -> NcPlayers \cup {None}]

NcRoomT ==
    [code : NcCodes \cup NcRoomIds \cup {0}, seat : NcSeating,
     spectators : SUBSET NcPlayers, wait : {"off", "armed", "fired"}, inc : Nat,
     started : BOOLEAN, ended : BOOLEAN, moves : Nat, clock : NcClocks, elapsed : Nat,
     flag : {"off", "armed"}, fired : BOOLEAN,
     draw : NcPlayers \cup {None}, back : NcPlayers \cup {None}]

NcPlayerT ==
    [at : {"new", "gone", "lost"} \cup NcSitting, room : NcRoomIds \cup {0}, ready : BOOLEAN,
     spectator : BOOLEAN, out : {"open", "closed"}]

NcTypeInv ==
    /\ ncRoom \in [NcRoomIds -> NcRoomT]
    /\ ncPlayer \in [NcPlayers -> NcPlayerT]
    /\ \A c \in DOMAIN ncRooms : ncRooms[c] \in NcRoomIds
    /\ ncQueue \in NcPlayers \cup {None}

\* Player p is at room i, as the hub believes.
NcAt(p, i) ==
    ncPlayer[p].out = "open" /\ ncPlayer[p].at \in NcSitting /\ ncPlayer[p].room = i

\* The next player finds room i, or its waiting timer goes off.
NcFound(i) ==
    /\ ncRoom[i].code \in DOMAIN ncRooms /\ ncRooms[ncRoom[i].code] = i
    /\ ncRoom[i].wait # "off"

\* A room that has not ended: who is in it, who watches it, what its game waits for.
NcRoomInv(i) ==
    ~ncRoom[i].ended =>
        /\ \A p \in Seated(i) : NcAt(p, i) /\ ~ncPlayer[p].spectator
        /\ \A p \in ncRoom[i].spectators : NcAt(p, i) /\ ncPlayer[p].spectator
        /\ Both(ncRoom[i]) => ncRoom[i].seat["white"] # ncRoom[i].seat["black"]
        /\ ncRoom[i].started => Both(ncRoom[i]) /\ (ncRoom[i].flag = "armed" \/ ncRoom[i].fired)
        /\ Both(ncRoom[i]) \/ Seated(i) = {} \/ i \in ncAlone \/ NcFound(i)

NcPlayerInv(p) ==
    /\ ncPlayer[p].at = "new" => ncPlayer[p].out = "open" /\ ~ncPlayer[p].spectator
    /\ ncPlayer[p].at \in NcSitting => ncPlayer[p].room \in NcRoomIds
    /\ \A i \in NcRoomIds : ncPlayer[p].at \in NcSitting /\ ncPlayer[p].room = i =>
          p \in Seated(i) \cup ncRoom[i].spectators \/ i \in ncNamed

\* The queue names a player whose room is still known, and whose second seat is
\* taken only by somebody who entered by its code.
NcQueueInv ==
    ncQueue # None =>
        LET i == ncPlayer[ncQueue].room
        IN /\ ncPlayer[ncQueue].at # "new" /\ i \in NcRoomIds
           /\ Both(ncRoom[i]) => i \in ncNamed

NcInv ==
    /\ NcTypeInv /\ OneResult /\ TakebackFair /\ NcQueueInv
    /\ \A i \in NcRoomIds : NcRoomInv(i)
    /\ \A p \in NcPlayers : NcPlayerInv(p)

\* What every step leaves as it is, or explains.
NcExplained ==
    /\ ncAlone \subseteq ncAlone' /\ ncNamed \subseteq ncNamed'
    /\ \A c \in DOMAIN ncRooms :
          (c \in DOMAIN ncRooms' /\ ncRooms'[c] = ncRooms[c]) \/ ncRooms[c] \in ncAlone'

\* What the game of a room never touches.
NcSameTable(new, r) ==
    /\ new \in NcRoomT /\ new.seat = r.seat /\ new.spectators = r.spectators /\ new.code = r.code
    /\ r.ended => new.ended

\* The game's own steps: none looks at a seat, and a result stands.
LEMMA NcOverRoom ==
    ASSUME NEW r \in NcRoomT
    PROVE  NcSameTable(NcOver(r), r) /\ NcOver(r).ended
<1> DEFINE k == NcEmpty.clock
<1>1. k \in NcClocks
  BY NetChessAssumption DEF NcEmpty, NcClocks
<1> HIDE DEF k
<1> DEFINE new == [r EXCEPT !.ended = TRUE, !.flag = "off", !.inc = 0, !.moves = 0, !.elapsed = 0,
                            !.clock = k, !.draw = None, !.back = None]
<1>2. new \in NcRoomT
  BY <1>1 DEF NcRoomT
<1>3. new.seat = r.seat /\ new.spectators = r.spectators /\ new.code = r.code /\ new.ended
  BY DEF NcRoomT
<1>4. NcOver(r) = new
  BY DEF NcOver, k
<1> HIDE DEF new
<1>5. QED
  BY <1>2, <1>3, <1>4 DEF NcSameTable

LEMMA NcTickClockRoom ==
    ASSUME NEW r \in NcRoomT
    PROVE  /\ NcSameTable(TickClock(r), r) /\ TickClock(r).wait = r.wait
           /\ TickClock(r).started = r.started /\ TickClock(r).ended = r.ended
           /\ TickClock(r).fired = r.fired /\ TickClock(r).moves = r.moves
           /\ TickClock(r).flag = r.flag
<1> DEFINE s == Turn(r.moves)
           k == [r.clock EXCEPT ![s] = IF @ < r.elapsed THEN 0 ELSE @ - r.elapsed]
<1>1. s \in Sides /\ r.clock \in [Sides -> Nat] /\ r.elapsed \in Nat
  BY DEF Turn, Sides, NcRoomT, NcClocks
<1>2. r.clock[s] \in Nat /\ (~(r.clock[s] < r.elapsed) => r.clock[s] - r.elapsed \in Nat)
  BY <1>1
<1>3. k \in NcClocks
  BY <1>1, <1>2 DEF NcClocks
<1> HIDE DEF k
<1> DEFINE new == [r EXCEPT !.clock = k, !.elapsed = 0]
<1>4. new \in NcRoomT
  BY <1>3 DEF NcRoomT
<1>5. /\ new.seat = r.seat /\ new.spectators = r.spectators /\ new.code = r.code
      /\ new.wait = r.wait /\ new.started = r.started /\ new.ended = r.ended
      /\ new.fired = r.fired /\ new.moves = r.moves /\ new.flag = r.flag
  BY DEF NcRoomT
<1>6. TickClock(r) = new
  BY DEF TickClock, NcRoomT, k
<1> HIDE DEF new
<1>7. QED
  BY <1>4, <1>5, <1>6 DEF NcSameTable

LEMMA NcArmed ==
    ASSUME NEW r \in NcRoomT
    PROVE  /\ NcSameTable(ArmFlagTimer(r), r)
           /\ ArmFlagTimer(r).ended \/ (/\ ArmFlagTimer(r).flag = "armed" /\ ArmFlagTimer(r).wait = r.wait
                                        /\ ArmFlagTimer(r).started = r.started)
<1>1. CASE r.clock[Turn(r.moves)] = 0
  BY <1>1, NcOverRoom DEF ArmFlagTimer
<1>2. CASE r.clock[Turn(r.moves)] # 0
  BY <1>2 DEF ArmFlagTimer, NcSameTable, NcRoomT
<1>3. QED
  BY <1>1, <1>2

LEMMA NcRearmed ==
    ASSUME NEW r \in NcRoomT
    PROVE  /\ NcSameTable(Rearmed(r), r)
           /\ Rearmed(r).ended \/ (/\ Rearmed(r).flag = "armed" /\ Rearmed(r).wait = r.wait
                                   /\ Rearmed(r).started = r.started)
<1> DEFINE q == [r EXCEPT !.flag = "off"]
<1>1. NcSameTable(q, r) /\ q \in NcRoomT /\ q.wait = r.wait /\ q.started = r.started
  BY DEF NcSameTable, NcRoomT
<1>2. Rearmed(r) = ArmFlagTimer(q)
  BY DEF Rearmed
<1> HIDE DEF q
<1>3. QED
  BY <1>1, <1>2, NcArmed DEF NcSameTable

\* A takeback leaves the requester to move and drops at most one half-move.
LEMMA NcKeptFair ==
    ASSUME NEW moves \in Nat, moves # 0, NEW side \in Sides
    PROVE  /\ Kept(moves, side) \in 0..moves /\ Turn(Kept(moves, side)) = side
           /\ moves - Kept(moves, side) <= 1
<1> DEFINE Ok(k) == (k = 0 \/ Turn(k) = side) /\ \A j \in (k + 1)..moves : Turn(j) # side
<1>1. \A n \in Nat : Turn(n) \in Sides /\ (Turn(n + 1) # Turn(n))
  BY DEF Turn, Sides
<1>2. \E k \in 0..moves : Ok(k)
  <2>1. CASE Turn(moves) = side
    <3>1. Ok(moves) /\ moves \in 0..moves
      BY <2>1
    <3>2. QED
      BY <3>1
  <2>2. CASE Turn(moves) # side
    <3>1. moves - 1 \in Nat /\ moves - 1 \in 0..moves /\ (moves - 1) + 1 = moves
      OBVIOUS
    <3>2. Turn(moves - 1) = side
      BY <1>1, <2>2, <3>1 DEF Sides
    <3>3. \A j \in ((moves - 1) + 1)..moves : j = moves
      BY <3>1
    <3>4. Ok(moves - 1)
      BY <2>2, <3>2, <3>3
    <3>5. QED
      BY <3>1, <3>4
  <2>3. QED
    BY <2>1, <2>2
<1> DEFINE keep == CHOOSE k \in 0..moves : Ok(k)
<1>3. keep \in 0..moves /\ Ok(keep)
  BY <1>2
<1>4. Kept(moves, side) = keep
  BY DEF Kept
<1> HIDE DEF keep
<1>5. keep \in Nat /\ keep <= moves
  BY <1>3
<1>6. keep >= moves - 1
  <2>1. SUFFICES ASSUME keep < moves - 1 PROVE FALSE
    BY <1>5
  <2>2. moves \in (keep + 1)..moves /\ moves - 1 \in (keep + 1)..moves /\ moves - 1 \in Nat
        /\ (moves - 1) + 1 = moves
    BY <1>5, <2>1
  <2>3. Turn(moves) # side /\ Turn(moves - 1) # side
    BY <1>3, <2>2
  <2>4. QED
    BY <1>1, <2>2, <2>3 DEF Sides
<1>7. Turn(keep) = side
  <2>1. SUFFICES ASSUME keep = 0, Turn(0) # side PROVE FALSE
    BY <1>3
  <2>2. moves = 1 /\ Turn(1) # side
    BY <1>3, <1>5, <1>6, <2>1
  <2>3. QED
    BY <2>1, <2>2 DEF Turn, Sides
<1>8. QED
  BY <1>3, <1>4, <1>5, <1>6, <1>7

\* A room that is left alone, and whose players are.
LEMMA NcRoomKept ==
    ASSUME NEW j \in NcRoomIds, NcRoomInv(j), NcExplained, ncRoom'[j] = ncRoom[j],
           ~ncRoom[j].ended =>
               \A q \in Seated(j) \cup ncRoom[j].spectators :
                   NcAt(q, j)' /\ ncPlayer'[q].spectator = ncPlayer[q].spectator
    PROVE  NcRoomInv(j)'
<1>1. Seated(j)' = Seated(j)
  BY DEF Seated
<1>2. NcFound(j) => NcFound(j)' \/ j \in ncAlone'
  BY DEF NcFound, NcExplained
<1>3. j \in ncAlone => j \in ncAlone'
  BY DEF NcExplained
<1>4. QED
  BY <1>1, <1>2, <1>3 DEF NcRoomInv

\* A player who is where he was, if at all.
LEMMA NcPlayerKept ==
    ASSUME NEW q \in NcPlayers, NcPlayerInv(q), NcExplained,
           ncPlayer'[q].at = "new" => ncPlayer'[q] = ncPlayer[q],
           ncPlayer'[q].at \in NcSitting =>
               ncPlayer[q].at \in NcSitting /\ ncPlayer'[q].room = ncPlayer[q].room,
           \A i \in NcRoomIds :
               q \in Seated(i) \cup ncRoom[i].spectators => q \in Seated(i)' \cup ncRoom'[i].spectators
    PROVE  NcPlayerInv(q)'
<1>1. ncPlayer'[q].at = "new" => ncPlayer'[q].out = "open" /\ ~ncPlayer'[q].spectator
  BY DEF NcPlayerInv
<1>2. ncPlayer'[q].at \in NcSitting => ncPlayer'[q].room \in NcRoomIds
  BY DEF NcPlayerInv
<1>3. ASSUME NEW k \in NcRoomIds, ncPlayer'[q].at \in NcSitting, ncPlayer'[q].room = k
      PROVE  q \in Seated(k)' \cup ncRoom'[k].spectators \/ k \in ncNamed'
  <2>1. q \in Seated(k) \cup ncRoom[k].spectators \/ k \in ncNamed
    BY <1>3 DEF NcPlayerInv
  <2>2. QED
    BY <2>1 DEF NcExplained
<1>4. QED
  BY <1>1, <1>2, <1>3 DEF NcPlayerInv

\* A step of the game in room i: everybody keeps his place, and the outboxes that
\* are closed belong to a room that ends.
LEMMA NcGameGoesOn ==
    ASSUME NcInv, NEW i \in NcRoomIds, NEW r, NcSameTable(r, ncRoom[i]),
           ncRoom' = [ncRoom EXCEPT ![i] = r],
           NcExplained, \A c \in DOMAIN ncRooms' : ncRooms'[c] \in NcRoomIds,
           ncPlayer' \in [NcPlayers -> NcPlayerT],
           \A q \in NcPlayers :
               /\ ncPlayer'[q].at = ncPlayer[q].at /\ ncPlayer'[q].room = ncPlayer[q].room
               /\ ncPlayer'[q].spectator = ncPlayer[q].spectator
               /\ \/ ncPlayer'[q].out = ncPlayer[q].out
                  \/ r.ended /\ ~ncRoom[i].ended /\ q \in Seated(i),
           r.wait = ncRoom[i].wait \/ r.wait = "fired" \/ r.ended \/ Both(r),
           r.started => r.ended \/ (Both(r) /\ (r.flag = "armed" \/ r.fired)),
           ncQueue' = ncQueue, ~ncTwice', ~ncAstray'
    PROVE  NcInv'
<1>1. /\ ncRoom \in [NcRoomIds -> NcRoomT] /\ r \in NcRoomT /\ r.seat = ncRoom[i].seat
      /\ r.spectators = ncRoom[i].spectators /\ r.code = ncRoom[i].code /\ (ncRoom[i].ended => r.ended)
      /\ \A j \in NcRoomIds : NcRoomInv(j)
  BY DEF NcInv, NcTypeInv, NcSameTable
<1>2. /\ ncRoom' \in [NcRoomIds -> NcRoomT] /\ ncRoom'[i] = r
      /\ \A j \in NcRoomIds \ {i} : ncRoom'[j] = ncRoom[j]
  BY <1>1
<1>3. \A j \in NcRoomIds : /\ Seated(j)' = Seated(j) /\ ncRoom'[j].spectators = ncRoom[j].spectators
                           /\ Both(ncRoom'[j]) <=> Both(ncRoom[j])
  BY <1>1, <1>2 DEF Seated, Both
<1>4. \A j \in NcRoomIds : Seated(j) \cup ncRoom[j].spectators \subseteq NcPlayers
  BY <1>1 DEF Seated, NcRoomT, NcSeating
<1>5. NcTypeInv'
  BY <1>2 DEF NcInv, NcTypeInv
<1>6. ASSUME NEW j \in NcRoomIds \ {i} PROVE NcRoomInv(j)'
  <2>1. ASSUME ~ncRoom[j].ended, NEW q \in Seated(j) \cup ncRoom[j].spectators
        PROVE  NcAt(q, j)' /\ ncPlayer'[q].spectator = ncPlayer[q].spectator
    <3>1. q \in NcPlayers /\ NcAt(q, j)
      BY <1>1, <1>4, <2>1 DEF NcRoomInv
    <3>2. ~ncRoom[i].ended => q \notin Seated(i)
      BY <1>1, <3>1 DEF NcRoomInv, NcAt
    <3>3. QED
      BY <3>1, <3>2 DEF NcAt
  <2>2. QED
    BY <1>1, <1>2, <2>1, NcRoomKept
<1>7. NcRoomInv(i)'
  <2>1. SUFFICES ASSUME ~r.ended PROVE NcRoomInv(i)'
    BY <1>2 DEF NcRoomInv
  <2>2. \A q \in Seated(i) \cup ncRoom[i].spectators :
            NcAt(q, i) => NcAt(q, i)' /\ ncPlayer'[q].spectator = ncPlayer[q].spectator
    BY <1>4, <2>1 DEF NcAt
  <2>3. NcFound(i) => NcFound(i)' \/ i \in ncAlone' \/ Both(r)
    BY <1>1, <1>2, <2>1 DEF NcFound, NcExplained
  <2>4. i \in ncAlone => i \in ncAlone'
    BY DEF NcExplained
  <2>5. NcRoomInv(i) /\ ~ncRoom[i].ended
    BY <1>1, <2>1
  <2>6. QED
    BY <1>1, <1>2, <1>3, <2>1, <2>2, <2>3, <2>4, <2>5 DEF NcRoomInv
<1>8. ASSUME NEW q \in NcPlayers PROVE NcPlayerInv(q)'
  <2>1. NcPlayerInv(q)
    BY DEF NcInv
  <2>2. ncPlayer[q].at = "new" => ncPlayer'[q].out = "open" /\ ~ncPlayer'[q].spectator
    BY <1>1, <2>1 DEF NcRoomInv, NcAt, NcSitting, NcPlayerInv
  <2>3. ncPlayer'[q].at \in NcSitting => ncPlayer'[q].room \in NcRoomIds
    BY <2>1 DEF NcPlayerInv
  <2>4. ASSUME NEW k \in NcRoomIds, ncPlayer'[q].at \in NcSitting, ncPlayer'[q].room = k
        PROVE  q \in Seated(k)' \cup ncRoom'[k].spectators \/ k \in ncNamed'
    <3>1. q \in Seated(k) \cup ncRoom[k].spectators \/ k \in ncNamed
      BY <2>1, <2>4 DEF NcPlayerInv
    <3>2. QED
      BY <1>3, <3>1 DEF NcExplained
  <2>5. QED
    BY <2>2, <2>3, <2>4 DEF NcPlayerInv
<1>9. NcQueueInv'
  <2>1. SUFFICES ASSUME ncQueue # None PROVE NcQueueInv'
    BY DEF NcQueueInv
  <2>2. PICK k \in NcRoomIds : k = ncPlayer[ncQueue].room
    BY <2>1 DEF NcInv, NcQueueInv
  <2>3. ncQueue \in NcPlayers /\ ncPlayer[ncQueue].at # "new" /\ (Both(ncRoom[k]) => k \in ncNamed)
    BY <2>1, <2>2 DEF NcInv, NcQueueInv, NcTypeInv
  <2>4. ncPlayer'[ncQueue'].room = k /\ ncPlayer'[ncQueue'].at # "new"
    BY <2>2, <2>3
  <2>5. Both(ncRoom'[k]) => k \in ncNamed'
    BY <1>3, <2>3 DEF NcExplained
  <2>6. QED
    BY <2>4, <2>5 DEF NcQueueInv
<1>10. QED
  BY <1>5, <1>6, <1>7, <1>8, <1>9 DEF NcInv, OneResult, TakebackFair

\* Such a step that changes nothing but room i's game.
LEMMA NcGameStep ==
    ASSUME NcInv, NEW i \in NcRoomIds, NEW r, NcSameTable(r, ncRoom[i]),
           ncRoom' = [ncRoom EXCEPT ![i] = r],
           r.wait = ncRoom[i].wait \/ r.wait = "fired" \/ r.ended \/ Both(r),
           r.started => r.ended \/ (Both(r) /\ (r.flag = "armed" \/ r.fired)),
           UNCHANGED <<ncRooms, ncQueue, ncPlayer, ncAlone, ncNamed>>, ~ncTwice', ~ncAstray'
    PROVE  NcInv'
<1>1. NcExplained
  BY DEF NcExplained
<1>2. (\A c \in DOMAIN ncRooms' : ncRooms'[c] \in NcRoomIds) /\ ncPlayer' \in [NcPlayers -> NcPlayerT]
  BY DEF NcInv, NcTypeInv
<1>3. QED
  BY <1>1, <1>2, NcGameGoesOn

LEMMA NcSameTableTwice ==
    ASSUME NEW a, NEW b, NEW c, NcSameTable(c, b), NcSameTable(b, a)
    PROVE  NcSameTable(c, a)
BY DEF NcSameTable

\* The clocks and the timers of room i.
LEMMA NcTimers ==
    ASSUME NcInv, NEW i \in NcRoomIds,
           NcWaitFires(i) \/ NcTick(i) \/ FlagFires(i) \/ FlagCallback(i)
    PROVE  NcInv'
<1>1. /\ ncRoom \in [NcRoomIds -> NcRoomT] /\ ncRoom[i] \in NcRoomT /\ NcRoomInv(i)
      /\ ~ncTwice /\ ~ncAstray
  BY DEF NcInv, NcTypeInv, OneResult, TakebackFair
<1>2. CASE NcWaitFires(i)
  <2> DEFINE r == [ncRoom[i] EXCEPT !.wait = "fired"]
  <2>1. /\ NcSameTable(r, ncRoom[i]) /\ r.wait = "fired" /\ r.started = ncRoom[i].started
        /\ r.seat = ncRoom[i].seat /\ r.flag = ncRoom[i].flag /\ r.fired = ncRoom[i].fired
        /\ r.ended = ncRoom[i].ended
    BY <1>1 DEF NcSameTable, NcRoomT
  <2>2. ncRoom' = [ncRoom EXCEPT ![i] = r]
    BY <1>1, <1>2 DEF NcWaitFires, NcRoomT
  <2> HIDE DEF r
  <2>3. r.started => r.ended \/ (Both(r) /\ (r.flag = "armed" \/ r.fired))
    BY <1>1, <2>1 DEF NcRoomInv, Both
  <2>4. UNCHANGED <<ncRooms, ncQueue, ncPlayer, ncAlone, ncNamed>> /\ ~ncTwice' /\ ~ncAstray'
    BY <1>1, <1>2 DEF NcWaitFires, ncSeen
  <2>5. QED
    BY <2>1, <2>2, <2>3, <2>4, NcGameStep
<1>3. CASE NcTick(i)
  <2> DEFINE r == [ncRoom[i] EXCEPT !.elapsed = @ + 1]
  <2>1. /\ NcSameTable(r, ncRoom[i]) /\ r.wait = ncRoom[i].wait /\ r.started = ncRoom[i].started
        /\ r.seat = ncRoom[i].seat /\ r.flag = ncRoom[i].flag /\ r.fired = ncRoom[i].fired
        /\ r.ended = ncRoom[i].ended
    BY <1>1 DEF NcSameTable, NcRoomT
  <2>2. ncRoom' = [ncRoom EXCEPT ![i] = r]
    BY <1>1, <1>3 DEF NcTick, NcRoomT
  <2> HIDE DEF r
  <2>3. r.started => r.ended \/ (Both(r) /\ (r.flag = "armed" \/ r.fired))
    BY <1>1, <2>1 DEF NcRoomInv, Both
  <2>4. UNCHANGED <<ncRooms, ncQueue, ncPlayer, ncAlone, ncNamed>> /\ ~ncTwice' /\ ~ncAstray'
    BY <1>1, <1>3 DEF NcTick, ncSeen
  <2>5. QED
    BY <2>1, <2>2, <2>3, <2>4, NcGameStep
<1>4. CASE FlagFires(i)
  <2> DEFINE r == [ncRoom[i] EXCEPT !.flag = "off", !.fired = TRUE]
  <2>1. /\ NcSameTable(r, ncRoom[i]) /\ r.wait = ncRoom[i].wait /\ r.started = ncRoom[i].started
        /\ r.seat = ncRoom[i].seat /\ r.fired /\ r.ended = ncRoom[i].ended
    BY <1>1 DEF NcSameTable, NcRoomT
  <2>2. ncRoom' = [ncRoom EXCEPT ![i] = r]
    BY <1>1, <1>4 DEF FlagFires, NcRoomT
  <2> HIDE DEF r
  <2>3. r.started => r.ended \/ (Both(r) /\ (r.flag = "armed" \/ r.fired))
    BY <1>1, <2>1 DEF NcRoomInv, Both
  <2>4. UNCHANGED <<ncRooms, ncQueue, ncPlayer, ncAlone, ncNamed>> /\ ~ncTwice' /\ ~ncAstray'
    BY <1>1, <1>4 DEF FlagFires, ncSeen
  <2>5. QED
    BY <2>1, <2>2, <2>3, <2>4, NcGameStep
<1>5. CASE FlagCallback(i)
  <2> DEFINE q == [ncRoom[i] EXCEPT !.fired = FALSE]
  <2>1. /\ NcSameTable(q, ncRoom[i]) /\ q.wait = ncRoom[i].wait /\ q.started = ncRoom[i].started
        /\ q.seat = ncRoom[i].seat /\ q.ended = ncRoom[i].ended /\ q \in NcRoomT
    BY <1>1 DEF NcSameTable, NcRoomT
  <2>2. /\ UNCHANGED <<ncRooms, ncQueue, ncPlayer, ncAstray, ncAlone, ncNamed>>
        /\ IF q.ended THEN ncRoom' = [ncRoom EXCEPT ![i] = q] /\ UNCHANGED ncTwice
           ELSE Announce(i, NcOver(TickClock(q))) \/ Announce(i, ArmFlagTimer(TickClock(q)))
    BY <1>5 DEF FlagCallback
  <2> HIDE DEF q
  <2> DEFINE now == TickClock(q)
  <2>3. /\ NcSameTable(now, ncRoom[i]) /\ now \in NcRoomT /\ now.wait = q.wait
        /\ now.started = q.started /\ now.ended = q.ended
    BY <2>1, NcTickClockRoom, NcSameTableTwice DEF NcSameTable
  <2> HIDE DEF now
  <2>4. CASE q.ended
    BY <1>1, <2>1, <2>2, <2>4, NcGameStep
  <2>5. CASE ~q.ended /\ Announce(i, NcOver(now))
    <3>1. NcSameTable(NcOver(now), ncRoom[i]) /\ NcOver(now).ended
      BY <2>3, NcOverRoom, NcSameTableTwice
    <3>2. ncRoom' = [ncRoom EXCEPT ![i] = NcOver(now)] /\ ~ncTwice'
      BY <1>1, <2>1, <2>5 DEF Announce
    <3>3. QED
      BY <1>1, <2>2, <3>1, <3>2, NcGameStep
  <2>6. CASE ~q.ended /\ Announce(i, ArmFlagTimer(now))
    <3> DEFINE r == ArmFlagTimer(now)
    <3>1. /\ NcSameTable(r, ncRoom[i])
          /\ r.ended \/ (r.flag = "armed" /\ r.wait = ncRoom[i].wait /\ r.started = ncRoom[i].started)
      BY <2>1, <2>3, NcArmed, NcSameTableTwice
    <3>2. ncRoom' = [ncRoom EXCEPT ![i] = r] /\ ~ncTwice'
      BY <1>1, <2>1, <2>6 DEF Announce
    <3> HIDE DEF r
    <3>3. r.started => r.ended \/ (Both(r) /\ (r.flag = "armed" \/ r.fired))
      BY <1>1, <2>1, <2>6, <3>1 DEF NcRoomInv, Both, NcSameTable
    <3>4. QED
      BY <1>1, <2>2, <3>1, <3>2, <3>3, NcGameStep
  <2>7. QED
    BY <2>2, <2>4, <2>5, <2>6 DEF now
<1>6. QED
  BY <1>2, <1>3, <1>4, <1>5

\* Waiting is over: nothing happens, or the room ends and its outboxes are closed.
LEMMA NcWaitEnds ==
    ASSUME NcInv, NEW i \in NcRoomIds, NcHandleWaitingTimeout(i)
    PROVE  NcInv'
<1>1. /\ ncRoom \in [NcRoomIds -> NcRoomT] /\ ncRoom[i] \in NcRoomT /\ NcRoomInv(i)
      /\ ~ncTwice /\ ~ncAstray /\ ncPlayer \in [NcPlayers -> NcPlayerT]
      /\ \A c \in DOMAIN ncRooms : ncRooms[c] \in NcRoomIds
  BY DEF NcInv, NcTypeInv, OneResult, TakebackFair
<1>2. CASE WaitIsOver(ncRoom[i])
  <2> DEFINE r == [ncRoom[i] EXCEPT !.wait = "off"]
  <2>1. /\ NcSameTable(r, ncRoom[i]) /\ r.started = ncRoom[i].started
        /\ r.seat = ncRoom[i].seat /\ r.flag = ncRoom[i].flag /\ r.fired = ncRoom[i].fired
        /\ r.ended = ncRoom[i].ended
    BY <1>1 DEF NcSameTable, NcRoomT
  <2>2. ncRoom' = [ncRoom EXCEPT ![i] = r]
    BY <1>1, <1>2 DEF NcHandleWaitingTimeout, NcRoomT
  <2> HIDE DEF r
  <2>3. r.started => r.ended \/ (Both(r) /\ (r.flag = "armed" \/ r.fired))
    BY <1>1, <2>1 DEF NcRoomInv, Both
  <2>4. r.ended \/ Both(r)
    BY <1>2, <2>1 DEF WaitIsOver, Both
  <2>5. UNCHANGED <<ncRooms, ncQueue, ncPlayer, ncAlone, ncNamed>> /\ ~ncTwice' /\ ~ncAstray'
    BY <1>1, <1>2 DEF NcHandleWaitingTimeout
  <2>6. QED
    BY <2>1, <2>2, <2>3, <2>4, <2>5, NcGameStep
<1>3. CASE ~WaitIsOver(ncRoom[i])
  <2> DEFINE over == NcOver(ncRoom[i])
             r == [over EXCEPT !.wait = "off"]
  <2>1. NcSameTable(over, ncRoom[i]) /\ over.ended /\ over \in NcRoomT
    BY <1>1, NcOverRoom DEF NcSameTable
  <2>2. ncRoom' = [ncRoom EXCEPT ![i] = r]
    BY <1>3 DEF NcHandleWaitingTimeout
  <2> HIDE DEF over
  <2>3. NcSameTable(r, ncRoom[i]) /\ r.ended
    BY <2>1 DEF NcSameTable, NcRoomT
  <2> HIDE DEF r
  <2>4. /\ ncPlayer' = [p \in NcPlayers |-> IF p \in Seated(i) THEN [ncPlayer[p] EXCEPT !.out = "closed"]
                                            ELSE ncPlayer[p]]
        /\ ncRooms' = NcDelete(ncRooms, ncRoom[i].code) /\ ncAlone' = ncAlone \cup Evicts(i)
        /\ UNCHANGED <<ncQueue, ncNamed>> /\ ~ncTwice' /\ ~ncAstray'
    BY <1>1, <1>3 DEF NcHandleWaitingTimeout
  <2>5. /\ ncPlayer' \in [NcPlayers -> NcPlayerT]
        /\ \A q \in NcPlayers :
               /\ ncPlayer'[q].at = ncPlayer[q].at /\ ncPlayer'[q].room = ncPlayer[q].room
               /\ ncPlayer'[q].spectator = ncPlayer[q].spectator
               /\ ncPlayer'[q].out = ncPlayer[q].out \/ q \in Seated(i)
    BY <1>1, <2>4 DEF NcPlayerT
  <2>6. NcExplained /\ \A c \in DOMAIN ncRooms' : ncRooms'[c] \in NcRoomIds
    BY <1>1, <2>4 DEF NcExplained, NcDelete, Evicts
  <2>7. ~ncRoom[i].ended
    BY <1>3 DEF WaitIsOver
  <2>8. QED
    BY <2>2, <2>3, <2>4, <2>5, <2>6, <2>7, NcGameGoesOn
<1>4. QED
  BY <1>2, <1>3

\* Whose frame is looked at: a player of a room that has not ended.
LEMMA NcFrameRoom ==
    ASSUME NcInv, NEW p \in NcPlayers, NcFrame(p)
    PROVE  /\ ncPlayer[p].room \in NcRoomIds /\ ~ncRoom[ncPlayer[p].room].ended
           /\ ncRoom[ncPlayer[p].room] \in NcRoomT /\ NcRoomInv(ncPlayer[p].room)
           /\ ncRoom \in [NcRoomIds -> NcRoomT] /\ ncPlayer \in [NcPlayers -> NcPlayerT]
           /\ ~ncTwice /\ ~ncAstray
BY DEF NcInv, NcTypeInv, NcPlayerInv, NcFrame, NcSitting, OneResult, TakebackFair

\* A result is announced in a room that had none.
LEMMA NcAnnounces ==
    ASSUME NcInv, NEW i \in NcRoomIds, ~ncRoom[i].ended, NEW r, NcSameTable(r, ncRoom[i]),
           r.ended \/ (/\ r.flag = "armed" /\ r.wait = ncRoom[i].wait
                       /\ r.started => ncRoom[i].started),
           Announce(i, r), UNCHANGED <<ncRooms, ncQueue, ncPlayer, ncAlone, ncNamed>>, ~ncAstray'
    PROVE  NcInv'
<1>1. ncRoom' = [ncRoom EXCEPT ![i] = r]
  BY DEF Announce
<1>2. ~ncTwice'
  <2>1. ncTwice' = (ncTwice \/ (r.ended /\ ncRoom[i].ended)) /\ ~ncTwice
    BY DEF Announce, NcInv, OneResult
  <2>2. QED
    BY <2>1
<1>3. NcRoomInv(i) /\ r.seat = ncRoom[i].seat
  BY DEF NcInv, NcSameTable
<1>4. r.started => r.ended \/ (Both(r) /\ (r.flag = "armed" \/ r.fired))
  BY <1>3 DEF NcRoomInv, Both
<1>5. QED
  BY <1>1, <1>2, <1>4, NcGameStep

LEMMA NcReady ==
    ASSUME NcInv, NEW p \in NcPlayers, NEW inc \in {0, 1}, HandleReady(p, inc)
    PROVE  NcInv'
<1> PICK i \in NcRoomIds : i = ncPlayer[p].room
  BY NcFrameRoom DEF HandleReady
<1>1. /\ ~ncRoom[i].ended /\ ncRoom[i] \in NcRoomT /\ NcRoomInv(i)
      /\ ncRoom \in [NcRoomIds -> NcRoomT] /\ ncPlayer \in [NcPlayers -> NcPlayerT]
      /\ ~ncTwice /\ ~ncAstray
  BY NcFrameRoom DEF HandleReady
<1>2. /\ ncPlayer' = [ncPlayer EXCEPT ![p].ready = TRUE]
      /\ UNCHANGED <<ncRooms, ncQueue, ncTwice, ncAstray, ncAlone, ncNamed>>
  BY DEF HandleReady, ncSeen
<1>3. /\ ncPlayer' \in [NcPlayers -> NcPlayerT]
      /\ \A q \in NcPlayers :
             /\ ncPlayer'[q].at = ncPlayer[q].at /\ ncPlayer'[q].room = ncPlayer[q].room
             /\ ncPlayer'[q].spectator = ncPlayer[q].spectator
             /\ ncPlayer'[q].out = ncPlayer[q].out
  BY <1>1, <1>2 DEF NcPlayerT
<1>4. NcExplained /\ \A c \in DOMAIN ncRooms' : ncRooms'[c] \in NcRoomIds
  BY <1>2 DEF NcExplained, NcInv, NcTypeInv
<1> DEFINE s == [ncRoom[i] EXCEPT !.started = TRUE, !.inc = inc]
           r == ArmFlagTimer(s)
<1>5. NcSameTable(s, ncRoom[i]) /\ s \in NcRoomT /\ s.wait = ncRoom[i].wait
  <2>1. inc \in Nat
    OBVIOUS
  <2>2. s \in NcRoomT
    BY <1>1, <2>1 DEF NcRoomT
  <2>3. s.seat = ncRoom[i].seat /\ s.spectators = ncRoom[i].spectators /\ s.code = ncRoom[i].code
        /\ s.wait = ncRoom[i].wait /\ s.ended = ncRoom[i].ended
    BY <1>1 DEF NcRoomT
  <2> HIDE DEF s
  <2>4. QED
    BY <2>2, <2>3 DEF NcSameTable
<1>6. CASE Both(ncRoom[i]) /\ ncRoom' = [ncRoom EXCEPT ![i] = r]
  <2> HIDE DEF s
  <2>1. NcSameTable(r, ncRoom[i]) /\ (r.ended \/ (r.flag = "armed" /\ r.wait = ncRoom[i].wait))
    BY <1>5, NcArmed, NcSameTableTwice
  <2> HIDE DEF r
  <2>2. Both(r)
    BY <1>6, <2>1 DEF Both, NcSameTable
  <2>3. QED
    BY <1>1, <1>2, <1>3, <1>4, <1>6, <2>1, <2>2, NcGameGoesOn
<1>7. CASE UNCHANGED ncRoom
  <2>1. NcSameTable(ncRoom[i], ncRoom[i]) /\ ncRoom' = [ncRoom EXCEPT ![i] = ncRoom[i]]
    BY <1>1, <1>7 DEF NcSameTable
  <2>2. ncRoom[i].started => ncRoom[i].ended \/ (Both(ncRoom[i]) /\ (ncRoom[i].flag = "armed" \/ ncRoom[i].fired))
    BY <1>1 DEF NcRoomInv
  <2>3. QED
    BY <1>1, <1>2, <1>3, <1>4, <2>1, <2>2, NcGameGoesOn
<1>8. (Both(ncRoom[i]) /\ ncRoom' = [ncRoom EXCEPT ![i] = r]) \/ UNCHANGED ncRoom
  BY DEF HandleReady
<1>9. QED
  BY SMTT(30), <1>6, <1>7, <1>8

LEMMA NcMoves ==
    ASSUME NcInv, NEW p \in NcPlayers, NEW mates \in BOOLEAN, HandleMove(p, mates)
    PROVE  NcInv'
<1> PICK i \in NcRoomIds : i = ncPlayer[p].room
  BY ZenonT(60), NcFrameRoom DEF HandleMove
<1>1. /\ ~ncRoom[i].ended /\ ncRoom[i] \in NcRoomT /\ ~ncAstray
  BY ZenonT(60), NcFrameRoom DEF HandleMove
<1> DEFINE side == Turn(ncRoom[i].moves)
           ticked == TickClock(ncRoom[i])
           moved == [ticked EXCEPT !.moves = @ + 1, !.clock[side] = @ + ncRoom[i].inc]
<1>2. /\ ncRoom[i].started
      /\ Announce(i, NcOver(moved)) \/ Announce(i, Rearmed(moved))
      /\ UNCHANGED <<ncRooms, ncQueue, ncPlayer, ncAstray, ncAlone, ncNamed>>
  BY DEF HandleMove
<1>3. NcSameTable(ticked, ncRoom[i]) /\ ticked \in NcRoomT /\ ticked.wait = ncRoom[i].wait
  BY <1>1, NcTickClockRoom DEF NcSameTable
<1>4. side \in Sides /\ ncRoom[i].inc \in Nat
  BY <1>1 DEF Turn, Sides, NcRoomT
<1> HIDE DEF ticked, side
<1> DEFINE k == [ticked.clock EXCEPT ![side] = @ + ncRoom[i].inc]
           new == [ticked EXCEPT !.moves = @ + 1, !.clock = k]
<1>5. k \in NcClocks
  <2>1. ticked.clock \in [Sides -> Nat] /\ ticked.clock[side] \in Nat
    BY <1>3, <1>4 DEF NcRoomT, NcClocks
  <2>2. ticked.clock[side] + ncRoom[i].inc \in Nat
    BY <1>4, <2>1
  <2>3. QED
    BY <1>4, <2>1, <2>2 DEF NcClocks
<1>6. moved = new
  BY <1>3 DEF NcRoomT
<1> HIDE DEF k, moved
<1>7. new \in NcRoomT
  <2>1. ticked.moves \in Nat /\ ticked.moves + 1 \in Nat
    BY <1>3 DEF NcRoomT
  <2> DEFINE n == ticked.moves + 1
  <2>2. new = [ticked EXCEPT !.moves = n, !.clock = k]
    BY <1>3 DEF NcRoomT
  <2> HIDE DEF n, new
  <2>3. n \in Nat
    BY <2>1 DEF n
  <2>4. [ticked EXCEPT !.moves = n, !.clock = k] \in NcRoomT
    BY <1>3, <1>5, <2>3 DEF NcRoomT
  <2>5. QED
    BY <2>2, <2>4
<1>8. new.seat = ticked.seat /\ new.spectators = ticked.spectators /\ new.code = ticked.code
      /\ new.wait = ticked.wait /\ new.ended = ticked.ended
  BY <1>3 DEF NcRoomT
<1> HIDE DEF new
<1>9. NcSameTable(moved, ncRoom[i]) /\ moved \in NcRoomT /\ moved.wait = ncRoom[i].wait
  BY <1>3, <1>6, <1>7, <1>8 DEF NcSameTable
<1>10. CASE Announce(i, NcOver(moved))
  <2>1. NcSameTable(NcOver(moved), ncRoom[i]) /\ NcOver(moved).ended
    BY <1>9, NcOverRoom, NcSameTableTwice
  <2>2. QED
    BY <1>1, <1>2, <1>10, <2>1, NcAnnounces
<1>11. CASE Announce(i, Rearmed(moved))
  <2>1. /\ NcSameTable(Rearmed(moved), ncRoom[i])
        /\ \/ Rearmed(moved).ended
           \/ Rearmed(moved).flag = "armed" /\ Rearmed(moved).wait = ncRoom[i].wait
    BY <1>9, NcRearmed, NcSameTableTwice
  <2>2. QED
    BY <1>1, <1>2, <1>11, <2>1, NcAnnounces
<1>12. QED
  BY SMTT(30), <1>2, <1>10, <1>11

\* Resignation, and a draw that is agreed.
LEMMA NcEnds ==
    ASSUME NcInv, NEW p \in NcPlayers, HandleResign(p) \/ HandleDrawAccept(p)
    PROVE  NcInv'
<1>0. NcFrame(p)
  BY DEF HandleResign, HandleDrawAccept
<1> PICK i \in NcRoomIds : i = ncPlayer[p].room
  BY <1>0, NcFrameRoom
<1>1. ~ncRoom[i].ended /\ ncRoom[i] \in NcRoomT /\ ~ncAstray
  BY <1>0, NcFrameRoom
<1>2. Announce(i, NcOver(ncRoom[i])) /\ UNCHANGED <<ncRooms, ncQueue, ncPlayer, ncAstray, ncAlone, ncNamed>>
  BY DEF HandleResign, HandleDrawAccept
<1>3. QED
  BY <1>1, <1>2, NcOverRoom, NcAnnounces

\* Offers, requests and refusals.
LEMMA NcOffers ==
    ASSUME NcInv, NEW p \in NcPlayers,
           HandleDrawOffer(p) \/ HandleTakebackRequest(p) \/ \E offer \in {"draw", "back"} : HandleDecline(p, offer)
    PROVE  NcInv'
<1>0. NcFrame(p)
  BY DEF HandleDrawOffer, HandleTakebackRequest, HandleDecline
<1> PICK i \in NcRoomIds : i = ncPlayer[p].room
  BY <1>0, NcFrameRoom
<1>1. /\ ~ncRoom[i].ended /\ ncRoom[i] \in NcRoomT /\ NcRoomInv(i)
      /\ ncRoom \in [NcRoomIds -> NcRoomT] /\ ~ncTwice /\ ~ncAstray
  BY <1>0, NcFrameRoom
<1>2. /\ UNCHANGED <<ncRooms, ncQueue, ncPlayer, ncTwice, ncAstray, ncAlone, ncNamed>>
      /\ \E d \in NcPlayers \cup {None} :
             \/ ncRoom' = [ncRoom EXCEPT ![i] = [ncRoom[i] EXCEPT !.draw = d]]
             \/ ncRoom' = [ncRoom EXCEPT ![i] = [ncRoom[i] EXCEPT !.back = d]]
  <2>1. UNCHANGED <<ncRooms, ncQueue, ncPlayer, ncTwice, ncAstray, ncAlone, ncNamed>>
    BY DEF HandleDrawOffer, HandleTakebackRequest, HandleDecline, ncSeen
  <2>2. CASE HandleDrawOffer(p)
    BY <1>1, <2>1, <2>2 DEF HandleDrawOffer, NcRoomT
  <2>3. CASE HandleTakebackRequest(p)
    BY <1>1, <2>1, <2>3 DEF HandleTakebackRequest, NcRoomT
  <2>4. CASE \E offer \in {"draw", "back"} : HandleDecline(p, offer)
    BY <1>1, <2>1, <2>4 DEF HandleDecline, NcRoomT
  <2>5. QED
    BY <2>2, <2>3, <2>4
<1>3. ASSUME NEW d \in NcPlayers \cup {None}, NEW r \in NcRoomT,
             r = [ncRoom[i] EXCEPT !.draw = d] \/ r = [ncRoom[i] EXCEPT !.back = d],
             ncRoom' = [ncRoom EXCEPT ![i] = r]
      PROVE  NcInv'
  <2>1. /\ NcSameTable(r, ncRoom[i]) /\ r.wait = ncRoom[i].wait /\ r.started = ncRoom[i].started
        /\ r.seat = ncRoom[i].seat /\ r.flag = ncRoom[i].flag /\ r.fired = ncRoom[i].fired
    BY <1>1, <1>3 DEF NcSameTable, NcRoomT
  <2>2. r.started => r.ended \/ (Both(r) /\ (r.flag = "armed" \/ r.fired))
    BY <1>1, <2>1 DEF NcRoomInv, Both
  <2>3. QED
    BY <1>1, <1>2, <1>3, <2>1, <2>2, NcGameStep
<1>4. \A d \in NcPlayers \cup {None} : [ncRoom[i] EXCEPT !.draw = d] \in NcRoomT
                                       /\ [ncRoom[i] EXCEPT !.back = d] \in NcRoomT
  BY <1>1 DEF NcRoomT
<1>5. QED
  BY <1>2, <1>3, <1>4

LEMMA NcTakeback ==
    ASSUME NcInv, NEW p \in NcPlayers, HandleTakebackAccept(p)
    PROVE  NcInv'
<1>0. NcFrame(p)
  BY DEF HandleTakebackAccept
<1> PICK i \in NcRoomIds : i = ncPlayer[p].room
  BY <1>0, NcFrameRoom
<1>1. /\ ~ncRoom[i].ended /\ ncRoom[i] \in NcRoomT /\ NcRoomInv(i)
      /\ ncRoom \in [NcRoomIds -> NcRoomT] /\ ~ncTwice /\ ~ncAstray
  BY <1>0, NcFrameRoom
<1>2. UNCHANGED <<ncRooms, ncQueue, ncPlayer, ncAlone, ncNamed>>
  BY DEF HandleTakebackAccept
<1> DEFINE side == IF ncRoom[i].back = ncRoom[i].seat["black"] THEN "black" ELSE "white"
           keep == Kept(ncRoom[i].moves, side)
           undone == [ncRoom[i] EXCEPT !.back = None, !.moves = keep, !.elapsed = 0]
<1>3. CASE ncRoom[i].moves = 0
  <2> DEFINE r == [ncRoom[i] EXCEPT !.back = None]
  <2>1. /\ NcSameTable(r, ncRoom[i]) /\ r.wait = ncRoom[i].wait /\ r.started = ncRoom[i].started
        /\ r.seat = ncRoom[i].seat /\ r.flag = ncRoom[i].flag /\ r.fired = ncRoom[i].fired
    BY <1>1 DEF NcSameTable, NcRoomT
  <2>2. ncRoom' = [ncRoom EXCEPT ![i] = r] /\ UNCHANGED <<ncTwice, ncAstray>>
    BY SMTT(30), <1>1, <1>3 DEF HandleTakebackAccept, NcRoomT
  <2> HIDE DEF r
  <2>3. r.started => r.ended \/ (Both(r) /\ (r.flag = "armed" \/ r.fired))
    BY <1>1, <2>1 DEF NcRoomInv, Both
  <2>4. QED
    BY <1>1, <1>2, <2>1, <2>2, <2>3, NcGameStep
<1>4. CASE ncRoom[i].moves # 0
  <2>1. /\ Announce(i, Rearmed(undone))
        /\ ncAstray' = (ncAstray \/ Turn(keep) # side \/ ncRoom[i].moves - keep > 1)
    BY <1>4 DEF HandleTakebackAccept
  <2>2. side \in Sides /\ ncRoom[i].moves \in Nat
    BY <1>1 DEF Sides, NcRoomT
  <2> HIDE DEF side
  <2>3. keep \in 0..ncRoom[i].moves /\ Turn(keep) = side /\ ncRoom[i].moves - keep <= 1
    BY <1>4, <2>2, NcKeptFair
  <2> HIDE DEF keep
  <2>4. ~ncAstray'
    <3>1. keep \in Nat /\ ~(ncRoom[i].moves - keep > 1)
      BY <2>2, <2>3
    <3>2. QED
      BY <1>1, <2>1, <2>3, <3>1
  <2>5. NcSameTable(undone, ncRoom[i]) /\ undone \in NcRoomT /\ undone.wait = ncRoom[i].wait
        /\ undone.started = ncRoom[i].started
    <3>1. keep \in Nat
      BY <2>2, <2>3
    <3>2. QED
      BY <1>1, <3>1 DEF NcSameTable, NcRoomT
  <2> HIDE DEF undone
  <2>6. /\ NcSameTable(Rearmed(undone), ncRoom[i])
        /\ \/ Rearmed(undone).ended
           \/ /\ Rearmed(undone).flag = "armed" /\ Rearmed(undone).wait = ncRoom[i].wait
              /\ Rearmed(undone).started = ncRoom[i].started
    BY <2>5, NcRearmed, NcSameTableTwice
  <2>7. QED
    BY SMTT(30), <1>1, <1>2, <2>1, <2>4, <2>6, NcAnnounces
<1>5. QED
  BY <1>3, <1>4

LEMMA NcNone == (\A p \in NcPlayers : p # None) /\ \A i \in NcRoomIds : i # 0
  BY NetChessAssumption DEF None

\* Who has not joined yet is in no room that goes on.
LEMMA NcNewcomer ==
    ASSUME NcInv, NEW p \in NcPlayers, ncPlayer[p].at = "new"
    PROVE  /\ ncPlayer[p].out = "open" /\ ~ncPlayer[p].spectator
           /\ \A j \in NcRoomIds : ~ncRoom[j].ended => p \notin Seated(j) \cup ncRoom[j].spectators
           /\ ncQueue # p
<1>1. NcPlayerInv(p) /\ \A j \in NcRoomIds : NcRoomInv(j)
  BY DEF NcInv
<1>2. ncQueue # p
  BY NcNone DEF NcInv, NcQueueInv
<1>3. QED
  BY <1>1, <1>2 DEF NcPlayerInv, NcRoomInv, NcAt, NcSitting

\* The queue and its player's room, when nobody gets a second seat there.
LEMMA NcQueueKept ==
    ASSUME NcInv, ncQueue' = ncQueue, ncNamed \subseteq ncNamed',
           ncQueue # None => /\ ncPlayer'[ncQueue].room = ncPlayer[ncQueue].room
                             /\ ncPlayer'[ncQueue].at # "new",
           \A k \in NcRoomIds : NcWaits(k) /\ Both(ncRoom'[k]) => Both(ncRoom[k]) \/ k \in ncNamed'
    PROVE  NcQueueInv'
<1>1. SUFFICES ASSUME ncQueue # None PROVE NcQueueInv'
  BY DEF NcQueueInv
<1>2. PICK k \in NcRoomIds : k = ncPlayer[ncQueue].room
  BY <1>1 DEF NcInv, NcQueueInv
<1>3. Both(ncRoom[k]) => k \in ncNamed
  BY <1>1, <1>2 DEF NcInv, NcQueueInv
<1>4. ncPlayer'[ncQueue'].room = k /\ ncPlayer'[ncQueue'].at # "new"
  BY <1>1, <1>2
<1>5. Both(ncRoom'[k]) => k \in ncNamed'
  BY <1>1, <1>2, <1>3 DEF NcWaits
<1>6. QED
  BY <1>4, <1>5 DEF NcQueueInv

\* A room is created for p.
LEMMA NcCreated ==
    ASSUME NcInv, NEW p \in NcPlayers, NEW i \in NcUnused, NEW c \in NcCodes \cup NcRoomIds,
           ncPlayer[p].at = "new", NcCreate(p, i, c), ncAlone' = ncAlone \cup NcReplaces(c, i),
           ncQueue' = ncQueue \/ ncQueue' = p,
           UNCHANGED <<ncTwice, ncAstray, ncNamed>>
    PROVE  NcInv'
<1>1. /\ i \in NcRoomIds /\ ncRoom[i] = NcEmpty /\ \A q \in NcPlayers : ncPlayer[q].room # i
      /\ p # None
  BY NcNone DEF NcUnused
<1>2. PICK s \in Sides :
          /\ ncRooms' = NcPut(ncRooms, c, i)
          /\ ncRoom' = [ncRoom EXCEPT ![i] = [NcEmpty EXCEPT !.code = c, !.seat[s] = p, !.wait = "armed"]]
          /\ ncPlayer' = NcSits(p, i)
  BY DEF NcCreate
<1> DEFINE room == [NcEmpty EXCEPT !.code = c, !.seat[s] = p, !.wait = "armed"]
<1>3. /\ room \in NcRoomT /\ room.code = c /\ room.wait = "armed" /\ ~room.ended /\ ~room.started
      /\ room.spectators = {} /\ \A t \in Sides : room.seat[t] = IF t = s THEN p ELSE None
  <2> DEFINE seat == [t \in Sides |-> IF t = s THEN p ELSE None]
  <2>1. seat \in NcSeating /\ \A t \in Sides : seat[t] = IF t = s THEN p ELSE None
    BY DEF NcSeating
  <2>2. room = [NcEmpty EXCEPT !.code = c, !.seat = seat, !.wait = "armed"]
    BY DEF NcEmpty
  <2> HIDE DEF seat, room
  <2>3. NcEmpty \in NcRoomT /\ NcEmpty.spectators = {} /\ ~NcEmpty.ended /\ ~NcEmpty.started
    <3>1. NcEmpty.seat \in NcSeating /\ NcEmpty.clock \in NcClocks
      BY NetChessAssumption DEF NcEmpty, NcSeating, NcClocks
    <3>2. QED
      BY <3>1 DEF NcEmpty, NcRoomT
  <2> DEFINE new == [NcEmpty EXCEPT !.code = c, !.seat = seat, !.wait = "armed"]
  <2>4. new \in NcRoomT
    BY <2>1, <2>3 DEF NcRoomT
  <2>5. /\ new.code = c /\ new.wait = "armed" /\ ~new.ended /\ ~new.started /\ new.spectators = {}
        /\ new.seat = seat
    BY <2>3 DEF NcRoomT
  <2> HIDE DEF new
  <2>6. room = new
    BY <2>2 DEF new
  <2>7. QED
    BY <2>1, <2>4, <2>5, <2>6
<1> HIDE DEF room
<1>4. /\ ncRoom \in [NcRoomIds -> NcRoomT] /\ ncPlayer \in [NcPlayers -> NcPlayerT]
      /\ ncPlayer[p].out = "open" /\ ~ncPlayer[p].spectator /\ ncQueue # p
  BY NcNewcomer DEF NcInv, NcTypeInv
<1>5. /\ ncRoom' \in [NcRoomIds -> NcRoomT] /\ ncRoom'[i] = room
      /\ \A j \in NcRoomIds \ {i} : ncRoom'[j] = ncRoom[j]
  <2>1. ncRoom' = [ncRoom EXCEPT ![i] = room]
    BY <1>2 DEF room
  <2>2. QED
    BY <1>1, <1>3, <1>4, <2>1
<1>6. /\ ncPlayer' \in [NcPlayers -> NcPlayerT]
      /\ ncPlayer'[p].at = "open" /\ ncPlayer'[p].room = i
      /\ ncPlayer'[p].out = "open" /\ ~ncPlayer'[p].spectator
      /\ \A q \in NcPlayers \ {p} : ncPlayer'[q] = ncPlayer[q]
  BY <1>1, <1>2, <1>4 DEF NcSits, NcPlayerT, NcSitting
<1>7. /\ ncRooms'[c] = i /\ c \in DOMAIN ncRooms'
      /\ \A d \in DOMAIN ncRooms : d \in DOMAIN ncRooms' /\ (d # c => ncRooms'[d] = ncRooms[d])
      /\ \A d \in DOMAIN ncRooms' : d = c \/ d \in DOMAIN ncRooms
  BY <1>2 DEF NcPut
<1>8. NcExplained
  BY <1>7 DEF NcExplained, NcReplaces
<1>9. NcTypeInv'
  BY <1>1, <1>5, <1>6, <1>7 DEF NcInv, NcTypeInv
<1>10. Seated(i)' = {p} /\ ncRoom'[i].spectators = {} /\ Seated(i) = {} /\ ncRoom[i].spectators = {}
  <2>1. Seated(i)' = {p}
    BY <1>1, <1>3, <1>5 DEF Seated, Sides
  <2>2. Seated(i) = {} /\ ncRoom[i].spectators = {}
    BY <1>1 DEF Seated, NcEmpty
  <2>3. QED
    BY <1>3, <1>5, <2>1, <2>2
<1>11. ~Both(ncRoom'[i])
  BY <1>3, <1>5 DEF Both, Sides
<1>12. \A j \in NcRoomIds : NcRoomInv(j)'
  <2>1. NcRoomInv(i)'
    <3>1. NcFound(i)' /\ NcAt(p, i)'
      BY <1>3, <1>5, <1>6, <1>7 DEF NcFound, NcAt, NcSitting
    <3>2. QED
      BY <1>3, <1>5, <1>6, <1>10, <1>11, <3>1 DEF NcRoomInv
  <2>2. ASSUME NEW j \in NcRoomIds \ {i} PROVE NcRoomInv(j)'
    <3>1. NcRoomInv(j) /\ ncRoom[j] \in NcRoomT
      BY <1>4 DEF NcInv
    <3>2. ASSUME ~ncRoom[j].ended, NEW q \in Seated(j) \cup ncRoom[j].spectators
          PROVE  NcAt(q, j)' /\ ncPlayer'[q].spectator = ncPlayer[q].spectator
      <4>1. q \in NcPlayers \ {p}
        BY <3>1, <3>2, NcNewcomer DEF Seated, NcRoomT, NcSeating
      <4>2. NcAt(q, j)
        BY <3>1, <3>2 DEF NcRoomInv
      <4>3. QED
        BY <1>6, <4>1, <4>2 DEF NcAt
    <3>3. QED
      BY <1>5, <1>8, <3>1, <3>2, NcRoomKept
  <2>3. QED
    BY <2>1, <2>2
<1>13. \A q \in NcPlayers : NcPlayerInv(q)'
  <2>1. NcPlayerInv(p)'
    BY <1>1, <1>6, <1>10 DEF NcPlayerInv
  <2>2. ASSUME NEW q \in NcPlayers \ {p} PROVE NcPlayerInv(q)'
    <3>1. \A j \in NcRoomIds :
              q \in Seated(j) \cup ncRoom[j].spectators => q \in Seated(j)' \cup ncRoom'[j].spectators
      BY <1>5, <1>10 DEF Seated
    <3>2. NcPlayerInv(q) /\ ncPlayer'[q] = ncPlayer[q]
      BY <1>6 DEF NcInv
    <3>3. QED
      BY <1>8, <3>1, <3>2, NcPlayerKept
  <2>3. QED
    BY <2>1, <2>2
<1>14. NcQueueInv'
  <2>1. CASE ncQueue' = ncQueue
    <3>1. ncQueue # None => /\ ncPlayer'[ncQueue] = ncPlayer[ncQueue] /\ ncPlayer[ncQueue].at # "new"
                            /\ ncPlayer[ncQueue].room # i
      BY <1>1, <1>4, <1>6 DEF NcInv, NcTypeInv, NcQueueInv
    <3>2. \A k \in NcRoomIds : NcWaits(k) /\ Both(ncRoom'[k]) => Both(ncRoom[k]) \/ k \in ncNamed'
      BY <1>5, <1>11
    <3>3. QED
      BY <2>1, <3>1, <3>2, NcQueueKept
  <2>2. CASE ncQueue' = p
    BY <1>1, <1>6, <1>11, <2>2 DEF NcQueueInv
  <2>3. QED
    BY <2>1, <2>2
<1>15. QED
  BY <1>9, <1>12, <1>13, <1>14 DEF NcInv, OneResult, TakebackFair

\* p gets the second seat of room i, over somebody else only for a reason.
LEMMA NcSecond ==
    ASSUME NcInv, NEW p \in NcPlayers, NEW i \in NcRoomIds, ncPlayer[p].at = "new", SeatSecond(p, i),
           NcExplained, NcEmptied(i) \subseteq ncAlone', Both(ncRoom[i]) => i \in ncNamed,
           \A c \in DOMAIN ncRooms' : ncRooms'[c] \in NcRoomIds,
           ncPlayer' \in [NcPlayers -> NcPlayerT],
           ncPlayer'[p].room = i, ncPlayer'[p].out = "open", ~ncPlayer'[p].spectator,
           ncPlayer'[p].at = "open" \/ (ncPlayer'[p].at = "lost" /\ ncRoom[i].ended),
           \A q \in NcPlayers \ {p} : \/ ncPlayer'[q] = ncPlayer[q]
                                      \/ /\ ncPlayer[q].at = "gone" /\ ncPlayer'[q].at = "gone"
                                         /\ ncQueue' = None,
           ncQueue' = ncQueue \/ ncQueue' = None,
           NcWaits(i) => ncQueue' = None \/ i \in ncNamed',
           UNCHANGED <<ncTwice, ncAstray>>
    PROVE  NcInv'
<1> DEFINE s == IF ncRoom[i].seat["white"] = None THEN "white" ELSE "black"
           room == [ncRoom[i] EXCEPT !.seat[s] = p, !.wait = NcStop(@)]
<1>1. /\ ncRoom \in [NcRoomIds -> NcRoomT] /\ ncRoom[i] \in NcRoomT /\ NcRoomInv(i)
      /\ p # None /\ s \in Sides
  BY NcNone DEF NcInv, NcTypeInv, Sides
<1>2. /\ room \in NcRoomT /\ room.ended = ncRoom[i].ended
      /\ room.started = ncRoom[i].started /\ room.spectators = ncRoom[i].spectators
      /\ room.flag = ncRoom[i].flag /\ room.fired = ncRoom[i].fired
      /\ \A t \in Sides : room.seat[t] = IF t = s THEN p ELSE ncRoom[i].seat[t]
  <2> DEFINE seat == [ncRoom[i].seat EXCEPT ![s] = p]
             wait == NcStop(ncRoom[i].wait)
  <2>1. /\ seat \in NcSeating /\ wait \in {"off", "armed", "fired"}
        /\ \A t \in Sides : seat[t] = IF t = s THEN p ELSE ncRoom[i].seat[t]
    <3>1. ncRoom[i].seat \in [Sides -> NcPlayers \cup {None}] /\ ncRoom[i].wait \in {"off", "armed", "fired"}
      BY <1>1 DEF NcRoomT, NcSeating
    <3> HIDE DEF s
    <3>2. seat \in NcSeating /\ \A t \in Sides : seat[t] = IF t = s THEN p ELSE ncRoom[i].seat[t]
      BY <1>1, <3>1 DEF NcSeating
    <3>3. QED
      BY <3>1, <3>2 DEF NcStop
  <2>2. room = [ncRoom[i] EXCEPT !.seat = seat, !.wait = wait]
    BY <1>1 DEF NcRoomT
  <2> HIDE DEF seat, wait, room, s
  <2> DEFINE new == [ncRoom[i] EXCEPT !.seat = seat, !.wait = wait]
  <2>3. new \in NcRoomT
    BY ZenonT(60), <1>1, <2>1 DEF NcRoomT
  <2>4. /\ new.ended = ncRoom[i].ended
        /\ new.started = ncRoom[i].started /\ new.spectators = ncRoom[i].spectators
        /\ new.flag = ncRoom[i].flag /\ new.fired = ncRoom[i].fired /\ new.seat = seat
    BY <1>1 DEF NcRoomT
  <2> HIDE DEF new
  <2>5. room = new
    BY <2>2 DEF new
  <2>6. QED
    BY <2>1, <2>3, <2>4, <2>5
<1>3. ncRoom' = [ncRoom EXCEPT ![i] = room]
  BY <1>1 DEF SeatSecond, NcRoomT
<1> HIDE DEF room
<1>4. /\ ncRoom' \in [NcRoomIds -> NcRoomT] /\ ncRoom'[i] = room
      /\ \A j \in NcRoomIds \ {i} : ncRoom'[j] = ncRoom[j]
  BY <1>1, <1>2, <1>3
<1>5. NcTypeInv'
  BY <1>4 DEF NcInv, NcTypeInv
<1>6. /\ Seated(i)' \subseteq Seated(i) \cup {p} /\ p \in Seated(i)'
      /\ ~Both(ncRoom[i]) => Seated(i) \subseteq Seated(i)'
      /\ Both(ncRoom'[i]) \/ Seated(i) = {}
      /\ Both(ncRoom[i]) => Both(ncRoom'[i])
      /\ ncRoom'[i].seat["white"] = p \/ ncRoom'[i].seat["black"] = p
      /\ Both(ncRoom'[i]) /\ ncRoom'[i].seat["white"] = ncRoom'[i].seat["black"] => p \in Seated(i)
  BY <1>1, <1>2, <1>4 DEF Seated, Both, Sides
<1>7. \A j \in NcRoomIds : ~ncRoom[j].ended =>
          \A q \in (Seated(j) \cup ncRoom[j].spectators) :
              q # p /\ NcAt(q, j)' /\ ncPlayer'[q].spectator = ncPlayer[q].spectator
  <2>1. SUFFICES ASSUME NEW j \in NcRoomIds, ~ncRoom[j].ended, NEW q \in Seated(j) \cup ncRoom[j].spectators
                 PROVE  q # p /\ NcAt(q, j)' /\ ncPlayer'[q].spectator = ncPlayer[q].spectator
    OBVIOUS
  <2>2. q \in NcPlayers \ {p}
    BY <1>1, <2>1, NcNewcomer DEF Seated, NcRoomT, NcSeating
  <2>3. NcAt(q, j)
    BY <2>1 DEF NcInv, NcRoomInv
  <2>4. ncPlayer'[q] = ncPlayer[q]
    BY <2>2, <2>3 DEF NcAt, NcSitting
  <2>5. QED
    BY <2>2, <2>3, <2>4 DEF NcAt
<1>8. \A j \in NcRoomIds : NcRoomInv(j)'
  <2>1. NcRoomInv(i)'
    <3>1. SUFFICES ASSUME ~ncRoom[i].ended PROVE NcRoomInv(i)'
      BY <1>2, <1>4 DEF NcRoomInv
    <3>2. NcAt(p, i)' /\ p \notin Seated(i)
      BY <1>7, <3>1 DEF NcAt, NcSitting
    <3>3. \A q \in Seated(i)' : NcAt(q, i)' /\ ~ncPlayer'[q].spectator
      BY <1>1, <1>6, <1>7, <3>1, <3>2 DEF NcRoomInv
    <3>4. \A q \in ncRoom'[i].spectators : NcAt(q, i)' /\ ncPlayer'[q].spectator
      BY <1>1, <1>2, <1>4, <1>7, <3>1 DEF NcRoomInv
    <3>5. ncRoom'[i].started => Both(ncRoom'[i]) /\ (ncRoom'[i].flag = "armed" \/ ncRoom'[i].fired)
      BY <1>1, <1>2, <1>4, <1>6, <3>1 DEF NcRoomInv
    <3>6. Both(ncRoom'[i]) \/ i \in ncAlone'
      BY <1>6 DEF NcEmptied
    <3>7. Both(ncRoom'[i]) => ncRoom'[i].seat["white"] # ncRoom'[i].seat["black"]
      BY <1>6, <3>2
    <3>8. QED
      BY <3>3, <3>4, <3>5, <3>6, <3>7 DEF NcRoomInv
  <2>2. ASSUME NEW j \in NcRoomIds \ {i} PROVE NcRoomInv(j)'
    BY <1>4, <1>7, NcRoomKept DEF NcInv
  <2>3. QED
    BY <2>1, <2>2
<1>9. \A q \in NcPlayers : NcPlayerInv(q)'
  <2>1. NcPlayerInv(p)'
    BY <1>6 DEF NcPlayerInv, NcSitting
  <2>2. ASSUME NEW q \in NcPlayers \ {p} PROVE NcPlayerInv(q)'
    <3>1. NcPlayerInv(q)
      BY DEF NcInv
    <3>2. CASE ncPlayer'[q] = ncPlayer[q]
      <4>1. ASSUME NEW j \in NcRoomIds, ncPlayer'[q].at \in NcSitting, ncPlayer'[q].room = j
            PROVE  q \in Seated(j)' \cup ncRoom'[j].spectators \/ j \in ncNamed'
        <5>1. q \in Seated(j) \cup ncRoom[j].spectators \/ j \in ncNamed
          BY <3>1, <3>2, <4>1 DEF NcPlayerInv
        <5>2. CASE j = i
          BY <1>2, <1>4, <1>6, <5>1, <5>2 DEF NcExplained
        <5>3. CASE j # i
          BY <1>4, <5>1, <5>3 DEF NcExplained, Seated
        <5>4. QED
          BY <5>2, <5>3
      <4>2. QED
        BY <3>1, <3>2, <4>1 DEF NcPlayerInv
    <3>3. CASE ncPlayer'[q].at = "gone"
      BY <3>3 DEF NcPlayerInv, NcSitting
    <3>4. QED
      BY <3>2, <3>3
  <2>3. QED
    BY <2>1, <2>2
<1>10. NcQueueInv'
  <2>1. CASE ncQueue' = None
    BY <2>1 DEF NcQueueInv
  <2>2. CASE ncQueue' = ncQueue /\ ncQueue # None
    <3>1. ncQueue \in NcPlayers \ {p} /\ ncPlayer[ncQueue].at # "new"
      BY <2>2, NcNewcomer DEF NcInv, NcTypeInv, NcQueueInv
    <3>2. ncPlayer'[ncQueue] = ncPlayer[ncQueue]
      BY <2>2, <3>1
    <3>3. \A k \in NcRoomIds : NcWaits(k) /\ Both(ncRoom'[k]) => Both(ncRoom[k]) \/ k \in ncNamed'
      BY <1>4, <2>2
    <3>4. QED
      BY <2>2, <3>1, <3>2, <3>3, NcQueueKept DEF NcExplained
  <2>3. QED
    BY <2>1, <2>2
<1>11. QED
  BY <1>5, <1>8, <1>9, <1>10 DEF NcInv, OneResult, TakebackFair

LEMMA NcJoins ==
    ASSUME NcInv, NEW p \in NcPlayers, NcJoinQuick(p) \/ \E c \in NcCodes : NcJoinRoom(p, c)
    PROVE  NcInv'
<1>1. /\ ncPlayer[p].at = "new" /\ ncPlayer[p].out = "open" /\ ~ncPlayer[p].spectator /\ ncQueue # p
      /\ ncPlayer \in [NcPlayers -> NcPlayerT]
      /\ \A c \in DOMAIN ncRooms : ncRooms[c] \in NcRoomIds
  <2>1. ncPlayer[p].at = "new"
    BY DEF NcJoinQuick, NcJoinRoom, NcConnects
  <2>2. QED
    BY SMTT(30), <2>1, NcNewcomer DEF NcInv, NcTypeInv
<1>2. ASSUME NEW i \in NcRoomIds
      PROVE  /\ NcSits(p, i) \in [NcPlayers -> NcPlayerT]
             /\ NcSits(p, i)[p].room = i /\ NcSits(p, i)[p].out = "open" /\ ~NcSits(p, i)[p].spectator
             /\ NcSits(p, i)[p].at = "open"
             /\ \A q \in NcPlayers \ {p} : NcSits(p, i)[q] = ncPlayer[q]
  BY <1>1 DEF NcSits, NcPlayerT, NcSitting
<1>3. ASSUME NEW c \in NcCodes, NcJoinRoom(p, c), c \in DOMAIN ncRooms PROVE NcInv'
  <2> DEFINE i == ncRooms[c]
  <2>1. /\ i \in NcRoomIds /\ ~Both(ncRoom[i]) /\ SeatSecond(p, i) /\ ncPlayer' = NcSits(p, i)
        /\ ncAlone' = ncAlone \cup NcEmptied(i)
        /\ ncNamed' = IF NcWaits(i) THEN ncNamed \cup {i} ELSE ncNamed
        /\ UNCHANGED <<ncRooms, ncQueue, ncTwice, ncAstray>>
    BY <1>1, <1>3 DEF NcJoinRoom
  <2> HIDE DEF i
  <2>2. NcExplained
    BY <2>1 DEF NcExplained
  <2>3. \A d \in DOMAIN ncRooms' : ncRooms'[d] \in NcRoomIds
    BY <1>1, <2>1
  <2>4. QED
    BY <1>1, <1>2, <2>1, <2>2, <2>3, NcSecond
<1>4. ASSUME NEW c \in NcCodes, NcJoinRoom(p, c), c \notin DOMAIN ncRooms PROVE NcInv'
  <2>1. PICK i \in NcUnused : NcCreate(p, i, c)
    BY <1>4 DEF NcJoinRoom
  <2>2. ncAlone' = ncAlone \cup NcReplaces(c, i)
    BY <1>4 DEF NcJoinRoom, NcReplaces
  <2>3. UNCHANGED <<ncQueue, ncTwice, ncAstray, ncNamed>>
    BY <1>4 DEF NcJoinRoom
  <2>4. QED
    BY <1>1, <2>1, <2>2, <2>3, NcCreated
<1>5. ASSUME NcJoinQuick(p), ncQueue = None PROVE NcInv'
  <2>1. PICK i \in NcUnused : NcCreate(p, i, i) /\ ncAlone' = ncAlone \cup NcReplaces(i, i)
    BY <1>5 DEF NcJoinQuick
  <2>2. ncQueue' = p /\ i \in NcRoomIds /\ UNCHANGED <<ncTwice, ncAstray, ncNamed>>
    BY SMTT(30), <1>5 DEF NcJoinQuick, NcUnused
  <2>3. QED
    BY <1>1, <2>1, <2>2, NcCreated
<1>6. ASSUME NcJoinQuick(p), ncQueue # None PROVE NcInv'
  <2> PICK i \in NcRoomIds : i = ncPlayer[ncQueue].room
    BY SMTT(30), <1>6 DEF NcInv, NcQueueInv
  <2> DEFINE panics == \E q \in Seated(i) : ncPlayer[q].out = "closed"
  <2>1. /\ ncQueue' = None /\ ncRooms' = NcPut(ncRooms, i, i) /\ SeatSecond(p, i)
        /\ ncPlayer' = [NcSits(p, i) EXCEPT
                           ![p].at = IF panics THEN "lost" ELSE @,
                           ![ncQueue].room = IF ncPlayer[ncQueue].at = "gone" THEN 0 ELSE @]
        /\ ncAlone' = ncAlone \cup NcEmptied(i) \cup NcReplaces(i, i)
        /\ UNCHANGED <<ncTwice, ncAstray, ncNamed>>
    BY <1>6 DEF NcJoinQuick
  <2>2. panics => ncRoom[i].ended
    BY DEF NcInv, NcRoomInv, NcAt
  <2>3. Both(ncRoom[i]) => i \in ncNamed
    BY <1>6 DEF NcInv, NcQueueInv
  <2>4. ncQueue \in NcPlayers \ {p}
    BY <1>1, <1>6 DEF NcInv, NcTypeInv
  <2> HIDE DEF panics
  <2>5. /\ ncPlayer' \in [NcPlayers -> NcPlayerT]
        /\ ncPlayer'[p].room = i /\ ncPlayer'[p].out = "open" /\ ~ncPlayer'[p].spectator
        /\ ncPlayer'[p].at = "open" \/ (ncPlayer'[p].at = "lost" /\ ncRoom[i].ended)
        /\ \A q \in NcPlayers \ {p} : \/ ncPlayer'[q] = ncPlayer[q]
                                      \/ ncPlayer[q].at = "gone" /\ ncPlayer'[q].at = "gone"
    <3> DEFINE f == NcSits(p, i)
               a == IF panics THEN "lost" ELSE f[p].at
               b == IF ncPlayer[ncQueue].at = "gone" THEN 0 ELSE f[ncQueue].room
    <3>1. /\ f \in [NcPlayers -> NcPlayerT]
          /\ f[p].room = i /\ f[p].out = "open" /\ ~f[p].spectator /\ f[p].at = "open"
          /\ \A q \in NcPlayers \ {p} : f[q] = ncPlayer[q]
      BY <1>2
    <3>2. a = IF panics THEN "lost" ELSE "open"
      BY <3>1
    <3>3. b \in NcRoomIds \cup {0} /\ (ncPlayer[ncQueue].at # "gone" => b = ncPlayer[ncQueue].room)
      BY <1>1, <2>4, <3>1 DEF NcPlayerT
    <3>4. ncPlayer' = [f EXCEPT ![p].at = a, ![ncQueue].room = b]
      BY <2>1, <2>4, <3>1
    <3> HIDE DEF f, a, b
    <3> DEFINE x == [f[p] EXCEPT !.at = a]
               y == [f[ncQueue] EXCEPT !.room = b]
    <3>5. ncPlayer' = [f EXCEPT ![p] = x, ![ncQueue] = y]
      BY <2>4, <3>1, <3>4
    <3>6. /\ x \in NcPlayerT /\ x.room = i /\ x.out = "open" /\ ~x.spectator
          /\ x.at = IF panics THEN "lost" ELSE "open"
      BY <3>1, <3>2 DEF NcPlayerT, NcSitting
    <3>7. y \in NcPlayerT /\ y.at = ncPlayer[ncQueue].at
      BY <2>4, <3>1, <3>3 DEF NcPlayerT
    <3>8. ncPlayer[ncQueue].at # "gone" => y = ncPlayer[ncQueue]
      BY <1>1, <2>4, <3>1, <3>3 DEF NcPlayerT
    <3> HIDE DEF x, y
    <3>9. QED
      BY <2>2, <2>4, <3>1, <3>5, <3>6, <3>7, <3>8
  <2>6. NcExplained /\ \A d \in DOMAIN ncRooms' : ncRooms'[d] \in NcRoomIds
    BY <1>1, <2>1 DEF NcExplained, NcPut, NcReplaces
  <2>7. NcEmptied(i) \subseteq ncAlone'
    BY <2>1
  <2>8. QED
    BY <1>1, <2>1, <2>3, <2>5, <2>6, <2>7, NcSecond
<1>7. QED
  BY <1>3, <1>4, <1>5, <1>6

\* p watches room i.
LEMMA NcWatches ==
    ASSUME NcInv, NEW p \in NcPlayers, NEW c \in NcCodes, JoinSpectator(p, c)
    PROVE  NcInv'
<1> PICK i \in NcRoomIds : i = ncRooms[c]
  BY DEF JoinSpectator, NcInv, NcTypeInv
<1> DEFINE room == [ncRoom[i] EXCEPT !.spectators = @ \cup {p}]
<1>1. /\ i \in NcRoomIds /\ ncRoom \in [NcRoomIds -> NcRoomT] /\ ncRoom[i] \in NcRoomT
      /\ ncPlayer \in [NcPlayers -> NcPlayerT] /\ NcRoomInv(i)
      /\ ncPlayer[p].at = "new" /\ ncPlayer[p].out = "open" /\ ncQueue # p
  BY NcNewcomer DEF JoinSpectator, NcConnects, NcInv, NcTypeInv
<1>2. /\ ncRoom' = [ncRoom EXCEPT ![i].spectators = @ \cup {p}]
      /\ ncPlayer' = [NcSits(p, i) EXCEPT ![p].spectator = TRUE]
      /\ UNCHANGED <<ncRooms, ncQueue, ncTwice, ncAstray, ncAlone, ncNamed>>
  BY DEF JoinSpectator, ncSeen
<1>3. /\ room \in NcRoomT /\ room.seat = ncRoom[i].seat /\ room.code = ncRoom[i].code
      /\ room.wait = ncRoom[i].wait /\ room.ended = ncRoom[i].ended /\ room.started = ncRoom[i].started
      /\ room.flag = ncRoom[i].flag /\ room.fired = ncRoom[i].fired
      /\ room.spectators = ncRoom[i].spectators \cup {p}
  BY <1>1 DEF NcRoomT
<1>4. ncRoom' = [ncRoom EXCEPT ![i] = room]
  BY <1>1, <1>2 DEF NcRoomT
<1> HIDE DEF room
<1>5. /\ ncRoom' \in [NcRoomIds -> NcRoomT] /\ ncRoom'[i] = room
      /\ \A j \in NcRoomIds \ {i} : ncRoom'[j] = ncRoom[j]
  BY <1>1, <1>3, <1>4
<1>6. /\ ncPlayer' \in [NcPlayers -> NcPlayerT]
      /\ ncPlayer'[p].at = "open" /\ ncPlayer'[p].room = i /\ ncPlayer'[p].out = "open" /\ ncPlayer'[p].spectator
      /\ \A q \in NcPlayers \ {p} : ncPlayer'[q] = ncPlayer[q]
  <2> DEFINE f == NcSits(p, i)
  <2>1. /\ f \in [NcPlayers -> NcPlayerT]
        /\ f[p].room = i /\ f[p].out = "open" /\ f[p].at = "open"
        /\ \A q \in NcPlayers \ {p} : f[q] = ncPlayer[q]
    BY ZenonT(60), <1>1 DEF NcSits, NcPlayerT, NcSitting
  <2>2. ncPlayer' = [f EXCEPT ![p].spectator = TRUE]
    BY <1>2
  <2> HIDE DEF f
  <2>3. QED
    BY <2>1, <2>2 DEF NcPlayerT
<1>7. \A j \in NcRoomIds : Seated(j)' = Seated(j) /\ (Both(ncRoom'[j]) <=> Both(ncRoom[j]))
  BY <1>3, <1>5 DEF Seated, Both
<1>8. NcExplained /\ NcTypeInv'
  BY <1>2, <1>5, <1>6 DEF NcExplained, NcInv, NcTypeInv
<1>9. \A j \in NcRoomIds : ~ncRoom[j].ended =>
          \A q \in (Seated(j) \cup ncRoom[j].spectators) :
              NcAt(q, j)' /\ ncPlayer'[q].spectator = ncPlayer[q].spectator
  <2>1. SUFFICES ASSUME NEW j \in NcRoomIds, ~ncRoom[j].ended, NEW q \in Seated(j) \cup ncRoom[j].spectators
                 PROVE  NcAt(q, j)' /\ ncPlayer'[q].spectator = ncPlayer[q].spectator
    OBVIOUS
  <2>2. q \in NcPlayers \ {p}
    BY <1>1, <2>1, NcNewcomer DEF Seated, NcRoomT, NcSeating
  <2>3. NcAt(q, j)
    BY <2>1 DEF NcInv, NcRoomInv
  <2>4. QED
    BY <1>6, <2>2, <2>3 DEF NcAt
<1>10. \A j \in NcRoomIds : NcRoomInv(j)'
  <2>1. NcRoomInv(i)'
    <3>1. SUFFICES ASSUME ~ncRoom[i].ended PROVE NcRoomInv(i)'
      BY <1>3, <1>5 DEF NcRoomInv
    <3>2. NcAt(p, i)' /\ ncPlayer'[p].spectator
      BY <1>6 DEF NcAt, NcSitting
    <3>3. NcFound(i) => NcFound(i)'
      BY <1>2, <1>3, <1>5 DEF NcFound
    <3>4. \A q \in Seated(i)' : NcAt(q, i)' /\ ~ncPlayer'[q].spectator
      BY <1>1, <1>7, <1>9, <3>1 DEF NcRoomInv
    <3>5. \A q \in ncRoom'[i].spectators : NcAt(q, i)' /\ ncPlayer'[q].spectator
      BY <1>1, <1>3, <1>5, <1>9, <3>1, <3>2 DEF NcRoomInv
    <3>6. /\ Both(ncRoom'[i]) => ncRoom'[i].seat["white"] # ncRoom'[i].seat["black"]
          /\ ncRoom'[i].started => Both(ncRoom'[i]) /\ (ncRoom'[i].flag = "armed" \/ ncRoom'[i].fired)
      BY <1>1, <1>3, <1>5, <1>7, <3>1 DEF NcRoomInv
    <3>7. Both(ncRoom'[i]) \/ Seated(i)' = {} \/ i \in ncAlone' \/ NcFound(i)'
      BY <1>1, <1>2, <1>7, <3>1, <3>3 DEF NcRoomInv
    <3>8. QED
      BY <3>4, <3>5, <3>6, <3>7 DEF NcRoomInv
  <2>2. ASSUME NEW j \in NcRoomIds \ {i} PROVE NcRoomInv(j)'
    BY <1>5, <1>8, <1>9, NcRoomKept DEF NcInv
  <2>3. QED
    BY <2>1, <2>2
<1>11. \A q \in NcPlayers : NcPlayerInv(q)'
  <2>1. NcPlayerInv(p)'
    BY <1>1, <1>3, <1>5, <1>6 DEF NcPlayerInv
  <2>2. ASSUME NEW q \in NcPlayers \ {p} PROVE NcPlayerInv(q)'
    <3>1. \A j \in NcRoomIds :
              q \in Seated(j) \cup ncRoom[j].spectators => q \in Seated(j)' \cup ncRoom'[j].spectators
      BY <1>3, <1>5, <1>7
    <3>2. NcPlayerInv(q) /\ ncPlayer'[q] = ncPlayer[q]
      BY <1>6 DEF NcInv
    <3>3. QED
      BY <1>8, <3>1, <3>2, NcPlayerKept
  <2>3. QED
    BY <2>1, <2>2
<1>12. NcQueueInv'
  <2>1. ncQueue # None => ncPlayer'[ncQueue] = ncPlayer[ncQueue] /\ ncPlayer[ncQueue].at # "new"
    BY <1>1, <1>6 DEF NcInv, NcTypeInv, NcQueueInv
  <2>2. QED
    BY <1>2, <1>7, <2>1, NcQueueKept
<1>13. QED
  BY <1>2, <1>8, <1>10, <1>11, <1>12 DEF NcInv, OneResult, TakebackFair

\* A socket is closed before it joined, or its read loop ends.
LEMMA NcCloses ==
    ASSUME NcInv, NEW p \in NcPlayers, NcReadEnds(p) \/ \E c \in NcCodes : NcRefused(p, c)
    PROVE  NcInv'
<1>1. /\ \/ ncPlayer[p].at = "open" /\ ncPlayer' = [ncPlayer EXCEPT ![p].at = "draining"]
         \/ ncPlayer[p].at = "new" /\ ncPlayer' = [ncPlayer EXCEPT ![p].at = "gone"]
      /\ UNCHANGED <<ncRooms, ncRoom, ncQueue, ncTwice, ncAstray, ncAlone, ncNamed>>
  BY DEF NcReadEnds, NcRefused, NcConnects, ncHub, ncSeen
<1>2. ncPlayer \in [NcPlayers -> NcPlayerT] /\ ncRoom \in [NcRoomIds -> NcRoomT]
  BY DEF NcInv, NcTypeInv
<1>3. /\ ncPlayer' \in [NcPlayers -> NcPlayerT]
      /\ \A q \in NcPlayers : /\ ncPlayer'[q].room = ncPlayer[q].room
                              /\ ncPlayer'[q].out = ncPlayer[q].out
                              /\ ncPlayer'[q].spectator = ncPlayer[q].spectator
                              /\ ncPlayer'[q].at \in NcSitting <=> ncPlayer[q].at \in NcSitting
                              /\ ncPlayer'[q].at = "new" => ncPlayer'[q] = ncPlayer[q]
  BY <1>1, <1>2 DEF NcPlayerT, NcSitting
<1>4. NcExplained /\ NcTypeInv'
  BY <1>1, <1>3 DEF NcExplained, NcInv, NcTypeInv
<1>5. \A j \in NcRoomIds : Seated(j)' = Seated(j) /\ Seated(j) \cup ncRoom[j].spectators \subseteq NcPlayers
  BY <1>1, <1>2 DEF Seated, NcRoomT, NcSeating
<1>6. ASSUME NEW j \in NcRoomIds PROVE NcRoomInv(j)'
  <2>1. NcRoomInv(j) /\ ncRoom'[j] = ncRoom[j]
    BY <1>1 DEF NcInv
  <2>2. ~ncRoom[j].ended =>
            \A q \in (Seated(j) \cup ncRoom[j].spectators) :
                NcAt(q, j)' /\ ncPlayer'[q].spectator = ncPlayer[q].spectator
    BY <1>3, <1>5, <2>1 DEF NcRoomInv, NcAt
  <2>3. QED
    BY <1>4, <2>1, <2>2, NcRoomKept
<1>7. ASSUME NEW q \in NcPlayers PROVE NcPlayerInv(q)'
  BY <1>1, <1>3, <1>4, <1>5, NcPlayerKept DEF NcInv
<1>8. NcQueueInv'
  <2>1. ncQueue # None => ncPlayer'[ncQueue].room = ncPlayer[ncQueue].room /\ ncPlayer'[ncQueue].at # "new"
    BY <1>1, <1>3 DEF NcInv, NcTypeInv, NcQueueInv
  <2>2. QED
    BY <1>1, <2>1, NcQueueKept
<1>9. QED
  BY <1>1, <1>4, <1>6, <1>7, <1>8 DEF NcInv, OneResult, TakebackFair

\* Room i as p leaves it: whoever stays there is alone for that reason.
NcLeft(r, p, i) ==
    /\ \A s \in Sides : \/ r.seat[s] = ncRoom[i].seat[s]
                        \/ ncRoom[i].seat[s] = p /\ r.seat[s] = None
    /\ r.spectators \subseteq ncRoom[i].spectators /\ ncRoom[i].spectators \subseteq r.spectators \cup {p}
    /\ r.code = ncRoom[i].code
    /\ ~r.ended => /\ ~ncRoom[i].ended /\ p \notin r.spectators /\ \A s \in Sides : r.seat[s] # p
                   /\ r.wait = ncRoom[i].wait
                   /\ r.started => /\ ncRoom[i].started /\ r.seat = ncRoom[i].seat
                                   /\ r.flag = ncRoom[i].flag /\ r.fired = ncRoom[i].fired
                   /\ (\E s \in Sides : r.seat[s] # None) => r.seat = ncRoom[i].seat \/ i \in ncAlone'

LEMMA NcGoes ==
    ASSUME NcInv, NEW p \in NcPlayers, NEW i \in NcRoomIds, NEW r \in NcRoomT,
           ncPlayer[p].at = "draining", ncPlayer[p].room = i, NcGone(p),
           ncRoom' = [ncRoom EXCEPT ![i] = r], NcExplained,
           \A c \in DOMAIN ncRooms' : ncRooms'[c] \in NcRoomIds,
           NcLeft(r, p, i),
           ncQueue' = ncQueue, ~ncTwice', ~ncAstray'
    PROVE  NcInv'
<1>0. /\ \A s \in Sides : \/ r.seat[s] = ncRoom[i].seat[s]
                          \/ ncRoom[i].seat[s] = p /\ r.seat[s] = None
      /\ r.spectators \subseteq ncRoom[i].spectators /\ ncRoom[i].spectators \subseteq r.spectators \cup {p}
      /\ r.code = ncRoom[i].code
  BY DEF NcLeft
<1>15. ~r.ended => /\ ~ncRoom[i].ended /\ p \notin r.spectators /\ \A s \in Sides : r.seat[s] # p
                   /\ r.wait = ncRoom[i].wait
                   /\ r.started => /\ ncRoom[i].started /\ r.seat = ncRoom[i].seat
                                   /\ r.flag = ncRoom[i].flag /\ r.fired = ncRoom[i].fired
                   /\ (\E s \in Sides : r.seat[s] # None) => r.seat = ncRoom[i].seat \/ i \in ncAlone'
  BY DEF NcLeft
<1>1. /\ ncRoom \in [NcRoomIds -> NcRoomT] /\ ncRoom[i] \in NcRoomT /\ NcRoomInv(i) /\ p # None
      /\ ncPlayer \in [NcPlayers -> NcPlayerT]
  BY NcNone DEF NcInv, NcTypeInv
<1>2. /\ ncRoom' \in [NcRoomIds -> NcRoomT] /\ ncRoom'[i] = r
      /\ \A j \in NcRoomIds \ {i} : ncRoom'[j] = ncRoom[j]
  BY <1>1
<1>3. /\ ncPlayer' \in [NcPlayers -> NcPlayerT] /\ ncPlayer'[p].at = "gone"
      /\ ncQueue = p => ncPlayer'[p].room = i
      /\ \A q \in NcPlayers \ {p} : ncPlayer'[q] = ncPlayer[q]
  BY <1>1 DEF NcGone, NcNew, NcPlayerT
<1>4. NcTypeInv'
  BY <1>2, <1>3 DEF NcInv, NcTypeInv
<1>5. \A j \in NcRoomIds : Seated(j) \cup ncRoom[j].spectators \subseteq NcPlayers
  BY <1>1 DEF Seated, NcRoomT, NcSeating
<1>6. /\ Seated(i)' \subseteq Seated(i)
      /\ \A q \in Seated(i) : q # p => q \in Seated(i)'
      /\ Both(r) => Both(ncRoom[i]) /\ r.seat["white"] = ncRoom[i].seat["white"]
                                   /\ r.seat["black"] = ncRoom[i].seat["black"]
      /\ Seated(i)' # {} => \E s \in Sides : r.seat[s] # None
      /\ (\A s \in Sides : r.seat[s] # p) => p \notin Seated(i)'
  BY <1>0, <1>1, <1>2 DEF Seated, Both, Sides
<1>7. \A j \in NcRoomIds : ~ncRoom[j].ended =>
          \A q \in (Seated(j) \cup ncRoom[j].spectators) :
              q # p => NcAt(q, j)' /\ ncPlayer'[q].spectator = ncPlayer[q].spectator
  <2>1. SUFFICES ASSUME NEW j \in NcRoomIds, ~ncRoom[j].ended, NEW q \in Seated(j) \cup ncRoom[j].spectators,
                        q # p
                 PROVE  NcAt(q, j)' /\ ncPlayer'[q].spectator = ncPlayer[q].spectator
    OBVIOUS
  <2>2. q \in NcPlayers \ {p} /\ NcAt(q, j)
    BY <1>5, <2>1 DEF NcInv, NcRoomInv
  <2>3. QED
    BY <1>3, <2>2 DEF NcAt
<1>8. \A j \in NcRoomIds : NcRoomInv(j)'
  <2>1. NcRoomInv(i)'
    <3>1. SUFFICES ASSUME ~r.ended PROVE NcRoomInv(i)'
      BY <1>2 DEF NcRoomInv
    <3>2. ~ncRoom[i].ended /\ p \notin r.spectators /\ p \notin Seated(i)'
      BY <1>6, <1>15, <3>1
    <3>3. \A q \in Seated(i)' : NcAt(q, i)' /\ ~ncPlayer'[q].spectator
      BY <1>1, <1>6, <1>7, <3>2 DEF NcRoomInv
    <3>4. \A q \in ncRoom'[i].spectators : NcAt(q, i)' /\ ncPlayer'[q].spectator
      BY <1>0, <1>1, <1>2, <1>7, <3>2 DEF NcRoomInv
    <3>5. Both(r) => r.seat["white"] # r.seat["black"]
      BY <1>1, <1>6, <3>2 DEF NcRoomInv
    <3>6. r.started => Both(r) /\ (r.flag = "armed" \/ r.fired)
      BY <1>1, <1>15, <3>1, <3>2 DEF NcRoomInv, Both
    <3>7. Both(r) \/ Seated(i)' = {} \/ i \in ncAlone' \/ NcFound(i)'
      <4>1. SUFFICES ASSUME Seated(i)' # {}, r.seat = ncRoom[i].seat
                     PROVE  Both(r) \/ i \in ncAlone' \/ NcFound(i)'
        BY <1>6, <1>15, <3>1
      <4>2. Both(ncRoom[i]) \/ i \in ncAlone \/ NcFound(i)
        BY <1>1, <1>6, <3>2, <4>1 DEF NcRoomInv
      <4>3. r.code = ncRoom[i].code /\ r.wait = ncRoom[i].wait
        BY <1>0, <1>15, <3>1
      <4>4. NcFound(i) => NcFound(i)' \/ i \in ncAlone'
        BY <1>2, <4>3 DEF NcFound, NcExplained
      <4>5. QED
        BY <4>1, <4>2, <4>4 DEF NcExplained, Both
    <3>8. QED
      BY <1>2, <3>3, <3>4, <3>5, <3>6, <3>7 DEF NcRoomInv
  <2>2. ASSUME NEW j \in NcRoomIds \ {i} PROVE NcRoomInv(j)'
    <3>1. ~ncRoom[j].ended => p \notin Seated(j) \cup ncRoom[j].spectators
      BY DEF NcInv, NcRoomInv, NcAt
    <3>2. NcRoomInv(j)
      BY DEF NcInv
    <3>3. QED
      BY <1>2, <1>7, <3>1, <3>2, NcRoomKept
  <2>3. QED
    BY <2>1, <2>2
<1>9. \A q \in NcPlayers : NcPlayerInv(q)'
  <2>1. NcPlayerInv(p)'
    BY <1>3 DEF NcPlayerInv, NcSitting
  <2>2. ASSUME NEW q \in NcPlayers \ {p} PROVE NcPlayerInv(q)'
    <3>1. \A j \in NcRoomIds \ {i} : Seated(j)' = Seated(j) /\ ncRoom'[j] = ncRoom[j]
      BY <1>2 DEF Seated
    <3>2. q \in Seated(i) \cup ncRoom[i].spectators => q \in Seated(i)' \cup ncRoom'[i].spectators
      BY <1>0, <1>2, <1>6
    <3>3. \A j \in NcRoomIds :
              q \in Seated(j) \cup ncRoom[j].spectators => q \in Seated(j)' \cup ncRoom'[j].spectators
      BY <3>1, <3>2
    <3>4. NcPlayerInv(q) /\ ncPlayer'[q] = ncPlayer[q]
      BY <1>3 DEF NcInv
    <3>5. QED
      BY <3>3, <3>4, NcPlayerKept
  <2>3. QED
    BY <2>1, <2>2
<1>10. NcQueueInv'
  <2>1. ncQueue # None => ncPlayer'[ncQueue].room = ncPlayer[ncQueue].room /\ ncPlayer'[ncQueue].at # "new"
    BY <1>3 DEF NcInv, NcTypeInv, NcQueueInv
  <2>2. \A k \in NcRoomIds : Both(ncRoom'[k]) => Both(ncRoom[k])
    BY <1>2, <1>6
  <2>3. QED
    BY <2>1, <2>2, NcQueueKept DEF NcExplained
<1>11. QED
  BY <1>4, <1>8, <1>9, <1>10 DEF NcInv, OneResult, TakebackFair

LEMMA NcSpectatorLeaves ==
    ASSUME NcInv, NEW p \in NcPlayers, LeaveSpectator(p)
    PROVE  NcInv'
<1> PICK i \in NcRoomIds : i = ncPlayer[p].room
  BY DEF LeaveSpectator, NcInv, NcPlayerInv, NcSitting
<1> DEFINE r == [ncRoom[i] EXCEPT !.spectators = @ \ {p}]
<1>1. /\ ncRoom \in [NcRoomIds -> NcRoomT] /\ ncRoom[i] \in NcRoomT /\ NcRoomInv(i)
      /\ ~ncTwice /\ ~ncAstray /\ ncPlayer[p].at = "draining" /\ ncPlayer[p].spectator
      /\ \A c \in DOMAIN ncRooms : ncRooms[c] \in NcRoomIds
  BY DEF LeaveSpectator, NcInv, NcTypeInv, OneResult, TakebackFair
<1>2. /\ ncRoom' = [ncRoom EXCEPT ![i].spectators = @ \ {p}] /\ NcGone(p)
      /\ UNCHANGED <<ncRooms, ncQueue, ncTwice, ncAstray, ncAlone, ncNamed>>
  BY DEF LeaveSpectator, ncSeen
<1>3. /\ r \in NcRoomT /\ r.seat = ncRoom[i].seat /\ r.code = ncRoom[i].code
      /\ r.wait = ncRoom[i].wait /\ r.ended = ncRoom[i].ended /\ r.started = ncRoom[i].started
      /\ r.flag = ncRoom[i].flag /\ r.fired = ncRoom[i].fired
      /\ r.spectators = ncRoom[i].spectators \ {p}
  BY <1>1 DEF NcRoomT
<1>4. ncRoom' = [ncRoom EXCEPT ![i] = r]
  BY <1>1, <1>2 DEF NcRoomT
<1> HIDE DEF r
<1>5. ~ncRoom[i].ended => \A s \in Sides : ncRoom[i].seat[s] # p
  BY <1>1, NcNone DEF NcRoomInv, Seated
<1>6. NcExplained /\ \A c \in DOMAIN ncRooms' : ncRooms'[c] \in NcRoomIds
  BY <1>1, <1>2 DEF NcExplained
<1>7. ~ncTwice' /\ ~ncAstray' /\ ncQueue' = ncQueue
  BY <1>1, <1>2
<1>8. ~r.ended => /\ ~ncRoom[i].ended /\ p \notin r.spectators /\ \A s \in Sides : r.seat[s] # p
                  /\ r.wait = ncRoom[i].wait
                  /\ r.started => /\ ncRoom[i].started /\ r.seat = ncRoom[i].seat
                                  /\ r.flag = ncRoom[i].flag /\ r.fired = ncRoom[i].fired
                  /\ (\E s \in Sides : r.seat[s] # None) => r.seat = ncRoom[i].seat \/ i \in ncAlone'
  BY <1>1, <1>3, <1>5
<1>9. /\ \A s \in Sides : \/ r.seat[s] = ncRoom[i].seat[s]
                          \/ ncRoom[i].seat[s] = p /\ r.seat[s] = None
      /\ r.spectators \subseteq ncRoom[i].spectators
      /\ ncRoom[i].spectators \subseteq r.spectators \cup {p}
      /\ r \in NcRoomT /\ r.code = ncRoom[i].code
  BY <1>3
<1>10. ncPlayer[p].at = "draining" /\ ncPlayer[p].room = i /\ NcGone(p)
  BY <1>1, <1>2
<1>11. NcLeft(r, p, i)
  BY <1>8, <1>9 DEF NcLeft
<1>12. QED
  BY <1>4, <1>6, <1>7, <1>9, <1>10, <1>11, NcGoes

LEMMA NcLeaves ==
    ASSUME NcInv, NEW p \in NcPlayers, NcLeave(p)
    PROVE  NcInv'
<1> PICK i \in NcRoomIds : i = ncPlayer[p].room
  BY DEF NcLeave, NcInv, NcPlayerInv, NcSitting
<1> DEFINE left == [ncRoom[i] EXCEPT !.seat = [s \in Sides |-> IF @[s] = p THEN None ELSE @[s]]]
           other == \E s \in Sides : left.seat[s] # None
           empty == ~other /\ ncRoom[i].spectators = {}
           plays == ncRoom[i].started /\ ~ncRoom[i].ended
<1>1. /\ ncRoom \in [NcRoomIds -> NcRoomT] /\ ncRoom[i] \in NcRoomT /\ NcRoomInv(i)
      /\ ~ncTwice /\ ~ncAstray /\ ncPlayer[p].at = "draining" /\ ~ncPlayer[p].spectator
      /\ (\A c \in DOMAIN ncRooms : ncRooms[c] \in NcRoomIds) /\ p # None
  BY SMTT(30), NcNone DEF NcLeave, NcInv, NcTypeInv, OneResult, TakebackFair
<1>2. /\ IF plays THEN Announce(i, NcOver(left))
         ELSE ncRoom' = [ncRoom EXCEPT ![i] = left] /\ UNCHANGED ncTwice
      /\ ncRooms' = IF empty THEN NcDelete(ncRooms, ncRoom[i].code) ELSE ncRooms
      /\ ncAlone' = ncAlone \cup (IF empty THEN Evicts(i) ELSE {}) \cup (IF other THEN {i} ELSE {})
      /\ NcGone(p) /\ UNCHANGED <<ncQueue, ncAstray, ncNamed>>
  BY DEF NcLeave
<1>3. /\ left \in NcRoomT /\ left.code = ncRoom[i].code /\ left.spectators = ncRoom[i].spectators
      /\ left.wait = ncRoom[i].wait /\ left.ended = ncRoom[i].ended /\ left.started = ncRoom[i].started
      /\ \A s \in Sides : left.seat[s] = IF ncRoom[i].seat[s] = p THEN None ELSE ncRoom[i].seat[s]
  <2> DEFINE seat == [s \in Sides |-> IF ncRoom[i].seat[s] = p THEN None ELSE ncRoom[i].seat[s]]
             new == [ncRoom[i] EXCEPT !.seat = seat]
  <2>1. seat \in NcSeating
    BY <1>1 DEF NcSeating, NcRoomT
  <2>2. \A s \in Sides : seat[s] = IF ncRoom[i].seat[s] = p THEN None ELSE ncRoom[i].seat[s]
    OBVIOUS
  <2>3. left = new
    BY <1>1 DEF NcRoomT
  <2> HIDE DEF seat, left
  <2>4. new \in NcRoomT
    BY <1>1, <2>1 DEF NcRoomT
  <2>5. /\ new.code = ncRoom[i].code /\ new.spectators = ncRoom[i].spectators /\ new.wait = ncRoom[i].wait
        /\ new.ended = ncRoom[i].ended /\ new.started = ncRoom[i].started /\ new.seat = seat
    BY <1>1 DEF NcRoomT
  <2> HIDE DEF new
  <2>6. QED
    BY <2>2, <2>3, <2>4, <2>5
<1> HIDE DEF left
<1>4. NcExplained /\ \A c \in DOMAIN ncRooms' : ncRooms'[c] \in NcRoomIds
  <2> HIDE DEF empty, other
  <2>1. QED
    BY <1>1, <1>2 DEF NcExplained, NcDelete, Evicts
<1>5. \A s \in Sides : /\ left.seat[s] # p
                       /\ \/ left.seat[s] = ncRoom[i].seat[s]
                          \/ ncRoom[i].seat[s] = p /\ left.seat[s] = None
  BY <1>1, <1>3
<1>6. ~ncRoom[i].ended => p \notin ncRoom[i].spectators
  BY <1>1 DEF NcRoomInv
<1>7. ~ncAstray' /\ ncQueue' = ncQueue
  BY <1>1, <1>2
<1>8. other => i \in ncAlone'
  BY SMTT(30), <1>2
<1>9. CASE plays
  <2> DEFINE r == NcOver(left)
  <2>1. /\ r \in NcRoomT /\ r.seat = left.seat /\ r.spectators = left.spectators
        /\ r.code = left.code /\ r.ended
    BY <1>3, NcOverRoom DEF NcSameTable
  <2>2. ncRoom' = [ncRoom EXCEPT ![i] = r] /\ ncTwice' = (ncTwice \/ (r.ended /\ ncRoom[i].ended))
    BY <1>2, <1>9 DEF Announce
  <2> HIDE DEF r
  <2>3. ~ncTwice'
    BY <1>1, <1>9, <2>2
  <2>4. /\ \A s \in Sides : \/ r.seat[s] = ncRoom[i].seat[s]
                            \/ ncRoom[i].seat[s] = p /\ r.seat[s] = None
        /\ r.spectators \subseteq ncRoom[i].spectators
        /\ ncRoom[i].spectators \subseteq r.spectators \cup {p}
        /\ r \in NcRoomT /\ r.code = ncRoom[i].code
    BY <1>3, <1>5, <2>1
  <2>5. ncPlayer[p].at = "draining" /\ ncPlayer[p].room = i /\ NcGone(p)
    BY <1>1, <1>2
  <2> HIDE DEF other, empty, plays
  <2>6. NcLeft(r, p, i)
    BY <2>1, <2>4 DEF NcLeft
  <2>7. QED
    BY <1>4, <1>7, <2>2, <2>3, <2>4, <2>5, <2>6, NcGoes
<1>10. CASE ~plays
  <2>1. ncRoom' = [ncRoom EXCEPT ![i] = left] /\ ~ncTwice'
    BY <1>1, <1>2, <1>10
  <2>2. ~left.ended => ~left.started
    BY <1>3, <1>10
  <2>3. ~left.ended => /\ ~ncRoom[i].ended /\ p \notin left.spectators /\ \A s \in Sides : left.seat[s] # p
                       /\ left.wait = ncRoom[i].wait
                       /\ (\E s \in Sides : left.seat[s] # None) => i \in ncAlone'
    BY <1>3, <1>5, <1>6, <1>8
  <2>4. ~left.ended => /\ ~ncRoom[i].ended /\ p \notin left.spectators /\ \A s \in Sides : left.seat[s] # p
                       /\ left.wait = ncRoom[i].wait
                       /\ left.started => /\ ncRoom[i].started /\ left.seat = ncRoom[i].seat
                                          /\ left.flag = ncRoom[i].flag /\ left.fired = ncRoom[i].fired
                       /\ (\E s \in Sides : left.seat[s] # None) => left.seat = ncRoom[i].seat \/ i \in ncAlone'
    BY <2>2, <2>3
  <2>5. /\ \A s \in Sides : \/ left.seat[s] = ncRoom[i].seat[s]
                            \/ ncRoom[i].seat[s] = p /\ left.seat[s] = None
        /\ left.spectators \subseteq ncRoom[i].spectators
        /\ ncRoom[i].spectators \subseteq left.spectators \cup {p}
        /\ left \in NcRoomT /\ left.code = ncRoom[i].code
    BY <1>3, <1>5
  <2>6. ncPlayer[p].at = "draining" /\ ncPlayer[p].room = i /\ NcGone(p)
    BY <1>1, <1>2
  <2> HIDE DEF other, empty, plays
  <2>7. NcLeft(left, p, i)
    BY <2>4, <2>5 DEF NcLeft
  <2>8. QED
    BY <1>4, <1>7, <2>1, <2>5, <2>6, <2>7, NcGoes
<1>11. QED
  BY SMTT(30), <1>9, <1>10

\* The invariant holds at the start, is kept by every step, and gives NetChessSafe.
LEMMA NcInductive ==
    NcInv /\ [NcNext]_ncVars => NcInv'
<1>1. ASSUME NcInv, NcNext PROVE NcInv'
  <2>1. ASSUME NEW i \in NcRoomIds,
               \/ NcWaitFires(i) \/ NcHandleWaitingTimeout(i)
               \/ NcTick(i) \/ FlagFires(i) \/ FlagCallback(i)
        PROVE  NcInv'
    BY <1>1, <2>1, NcTimers, NcWaitEnds
  <2>2. ASSUME NEW p \in NcPlayers,
               \/ \E c \in NcCodes : NcJoinRoom(p, c) \/ NcRefused(p, c) \/ JoinSpectator(p, c)
               \/ NcJoinQuick(p) \/ NcReadEnds(p) \/ NcLeave(p) \/ LeaveSpectator(p)
        PROVE  NcInv'
    BY <1>1, <2>2, NcJoins, NcCloses, NcWatches, NcLeaves, NcSpectatorLeaves
  <2>3. ASSUME NEW p \in NcPlayers,
               \/ (\E inc \in {0, 1} : HandleReady(p, inc)) \/ HandleResign(p)
               \/ \E mates \in BOOLEAN : HandleMove(p, mates)
               \/ HandleDrawOffer(p) \/ HandleDrawAccept(p)
               \/ HandleTakebackRequest(p) \/ HandleTakebackAccept(p)
               \/ \E offer \in {"draw", "back"} : HandleDecline(p, offer)
        PROVE  NcInv'
    BY <1>1, <2>3, NcReady, NcEnds, NcMoves, NcOffers, NcTakeback
  <2>4. QED
    BY <1>1, <2>1, <2>2, <2>3 DEF NcNext
<1>2. ASSUME NcInv, UNCHANGED ncVars PROVE NcInv'
  <2>1. UNCHANGED <<ncRooms, ncRoom, ncQueue, ncPlayer, ncTwice, ncAstray, ncAlone, ncNamed>>
    BY <1>2 DEF ncVars, ncHub, ncSeen
  <2>2. NcTypeInv' /\ OneResult' /\ TakebackFair' /\ NcQueueInv'
    BY <1>2, <2>1 DEF NcInv, NcTypeInv, OneResult, TakebackFair, NcQueueInv
  <2>3. \A i \in NcRoomIds : NcRoomInv(i)'
    BY <1>2, <2>1 DEF NcInv, NcRoomInv, Seated, NcAt, NcFound
  <2>4. \A p \in NcPlayers : NcPlayerInv(p)'
    BY <1>2, <2>1 DEF NcInv, NcPlayerInv, Seated
  <2>5. QED
    BY <2>2, <2>3, <2>4 DEF NcInv
<1>3. QED
  BY <1>1, <1>2

LEMMA NcInitInv ==
    ASSUME NEW rooms \in [NcRoomIds -> NcRoomT], NEW gone, NcInitFrom(rooms, gone),
           \A i \in NcRoomIds : /\ rooms[i].spectators = {} /\ ~rooms[i].started
                                /\ \A s \in Sides : rooms[i].seat[s] = None
    PROVE  NcInv
<1>1. /\ ncRooms = [c \in {} |-> 0] /\ ncRoom = rooms /\ ncQueue = None /\ ncTwice = FALSE /\ ncAstray = FALSE
      /\ ncPlayer = [p \in NcPlayers |-> IF p \in gone THEN [NcNew EXCEPT !.at = "gone", !.out = "closed"]
                                         ELSE NcNew]
  BY DEF NcInitFrom
<1>2. /\ ncPlayer \in [NcPlayers -> NcPlayerT]
      /\ \A p \in NcPlayers : \/ ncPlayer[p].at = "gone"
                              \/ ncPlayer[p].at = "new" /\ ncPlayer[p].out = "open" /\ ~ncPlayer[p].spectator
  BY <1>1 DEF NcNew, NcPlayerT
<1>3. NcTypeInv
  BY <1>1, <1>2 DEF NcTypeInv
<1>4. \A i \in NcRoomIds : NcRoomInv(i)
  BY <1>1 DEF NcRoomInv, Seated, Both, Sides
<1>5. \A p \in NcPlayers : NcPlayerInv(p)
  BY <1>2 DEF NcPlayerInv, NcSitting
<1>6. QED
  BY <1>1, <1>3, <1>4, <1>5 DEF NcInv, NcQueueInv, OneResult, TakebackFair

LEMMA NcEmptyRoom ==
    /\ NcEmpty \in NcRoomT /\ NcEmpty.spectators = {} /\ ~NcEmpty.started
    /\ \A s \in Sides : NcEmpty.seat[s] = None
<1>1. NcEmpty.seat \in NcSeating /\ NcEmpty.clock \in NcClocks /\ \A s \in Sides : NcEmpty.seat[s] = None
  BY NetChessAssumption DEF NcEmpty, NcSeating, NcClocks
<1>2. QED
  BY <1>1 DEF NcEmpty, NcRoomT

LEMMA NcInvSafe ==
    NcInv => NetChessSafe
<1>1. SUFFICES ASSUME NcInv PROVE NetChessSafe
  OBVIOUS
<1>2. OneResult /\ TakebackFair
  BY <1>1 DEF NcInv
<1>3. OpenWhilePlaying
  BY <1>1 DEF NcInv, NcRoomInv, NcAt, NcSitting, OpenWhilePlaying
<1>4. SeatsStay
  BY <1>1 DEF NcInv, NcPlayerInv, NcSitting, SeatsStay
<1>5. FlagWatched
  BY <1>1 DEF NcInv, NcRoomInv, FlagWatched
<1>6. LoneFound
  <2>1. SUFFICES ASSUME NEW i \in NcRoomIds \ ncAlone, Cardinality(Seated(i)) = 1, ~ncRoom[i].ended
                 PROVE  NcFound(i)
    BY DEF LoneFound, NcFound
  <2>2. NcRoomInv(i)
    BY <1>1 DEF NcInv
  <2>3. CASE Both(ncRoom[i])
    <3> DEFINE a == ncRoom[i].seat["white"]
               b == ncRoom[i].seat["black"]
    <3>1. a # b /\ a # None /\ b # None
      BY <2>1, <2>2, <2>3 DEF NcRoomInv, Both, Sides
    <3>2. Seated(i) = {a} \cup {b}
      BY <3>1 DEF Seated, Sides
    <3> HIDE DEF a, b
    <3>3. IsFiniteSet({a}) /\ Cardinality({a}) = 1
      BY FS_Singleton
    <3>4. Cardinality({a} \cup {b}) = Cardinality({a}) + 1
      BY <3>1, <3>3, FS_AddElement
    <3>5. QED
      BY <2>1, <3>2, <3>3, <3>4
  <2>4. CASE Seated(i) = {}
    BY <2>1, <2>4, FS_EmptySet
  <2>5. QED
    BY <2>1, <2>2, <2>3, <2>4 DEF NcRoomInv
<1>7. QED
  BY <1>2, <1>3, <1>4, <1>5, <1>6 DEF NetChessSafe

-----------------------------------------------------------------------------
(* A node's database handles. *)

RcPcs == {"configure", "swap", "replace", "close", "unrefresh"}
NhPcs == RcPcs \cup {"refreshMu", "listen", "failed", "done", "none", "enter", "deaf", "select",
                     "lockS", "unlockS", "read", "exec", "takeCc", "join", "lock", "http", "fsql", "grpc"}
NhBefore == {"none", "takeCc", "join"}

\* Where the actors are, and who holds which lock.
NhLockInv ==
    /\ nhCfg \in [shared : BOOLEAN, fsql : BOOLEAN, chain : BOOLEAN]
    /\ nhPc \in [NhActors -> NhPcs]
    /\ nhPc["start"] \in {"refreshMu", "listen", "failed", "done"} \cup RcPcs
    /\ nhPc["fs"] \in {"none", "enter", "deaf", "select", "lockS", "refreshMu", "unlockS", "done"} \cup RcPcs
    /\ nhPc["cc"] \in {"none", "select", "refreshMu", "read", "exec", "done"}
    /\ nhPc["stop"] \in {"none", "takeCc", "join", "lock", "http", "lockS", "fsql", "grpc", "done"}
    /\ nhMu \in {"none", "stop"}
    /\ nhMu = "stop" <=> nhPc["stop"] \in {"http", "lockS", "fsql", "grpc"}
    /\ nhRefreshMu \in {"none", "start", "fs", "cc"}
    /\ nhRefreshMu = "start" <=> nhPc["start"] \in RcPcs
    /\ nhRefreshMu = "fs" <=> nhPc["fs"] \in RcPcs
    /\ nhRefreshMu = "cc" <=> nhPc["cc"] \in {"read", "exec"}
    /\ nhSMu \in {"none", "fs", "stop"}
    /\ nhSMu = "fs" <=> nhPc["fs"] \in {"refreshMu", "unlockS"} \cup RcPcs
    /\ nhSMu = "stop" <=> nhPc["stop"] = "fsql"
    /\ {nhRunning, nhFsqlRunning, nhStopCc} \subseteq BOOLEAN
    /\ nhRunning <=> nhPc["start"] = "done" /\ nhPc["stop"] # "done"
    /\ nhPc["start"] # "done" => nhPc["fs"] = "none" /\ nhPc["cc"] = "none" /\ nhPc["stop"] = "none"
    /\ ~nhCfg.fsql => ~nhFsqlRunning /\ nhPc["fs"] = "none"
    /\ nhPc["stop"] \in {"grpc", "done"} => ~nhFsqlRunning /\ nhPc["fs"] \notin RcPcs \cup {"refreshMu"}
    /\ nhPc["stop"] \notin {"none", "takeCc"} => nhStopCc
    /\ nhPc["stop"] \notin NhBefore => nhPc["cc"] \in {"none", "done"}

NhRefresh(l) == nhPc["start"] = l \/ nhPc["fs"] = l

\* The handles, by how far the refresh under way has come.
NhHandles(n) ==
    /\ DOMAIN nhAttached = 1..n /\ {nhDb, nhCat} \subseteq 1..n /\ nhOpen \subseteq 1..n
    /\ \A h \in 1..n : nhAttached[h] \subseteq NhVolumes
    /\ nhVols = nhAttached[nhDb]
    /\ nhPc["stop"] = "done" => nhOpen = {}
    /\ nhPc["stop"] # "done" =>
          /\ NhRefresh("swap") => nhOpen = {nhDb, n} /\ n # nhDb /\ nhCat = nhDb
          /\ NhRefresh("replace") => nhOpen = {nhDb, nhOld} /\ nhOld # nhDb /\ nhCat = nhOld
          /\ NhRefresh("close") => nhOpen = {nhDb, nhOld} /\ nhOld # nhDb /\ nhCat = nhDb
          /\ ~(NhRefresh("swap") \/ NhRefresh("replace") \/ NhRefresh("close")) =>
                   nhOpen = {nhDb} /\ nhCat = nhDb
    /\ nhPc["cc"] = "exec" => nhCcDb = nhDb

NhHandleInv == \E n \in Nat \ {0} : NhHandles(n)

NhReqType == [kind : {"none", "http", "fsql", "airport", "vacuum"}, at : {"none", "db", "run", "end"},
              vols : SUBSET NhVolumes, db : Nat, res : {"none", "ok", "closed", "no catalog"}]

\* A request that nothing has overtaken has its handle.
NhReqInv ==
    /\ nhReq \in [NhRequests -> NhReqType]
    /\ nhSwapped \subseteq NhRequests
    /\ \A r \in NhRequests \ nhSwapped :
          /\ nhReq[r].res \notin {"closed", "no catalog"}
          /\ nhReq[r].at \in {"db", "run"} => nhPc["stop"] # "done"
          /\ nhReq[r].at = "db" => nhReq[r].vols \subseteq nhAttached[nhDb]
          /\ nhReq[r].at = "run" =>
                \/ nhReq[r].db = WriterDb
                \/ nhReq[r].db \in {nhDb, nhCat} /\ nhReq[r].vols \subseteq nhAttached[nhReq[r].db]

NhInv == NhLockInv /\ NhHandleInv /\ NhReqInv

LEMMA NhLockStep ==
    ASSUME NhLockInv, [NhNext]_nhVars
    PROVE  NhLockInv'
<1> USE DEF NhLockInv, NhPcs, RcPcs, NhActors, NhBefore, Goto, nhLocks, nhFlags
<1>1. CASE RcLock("start")
  BY <1>1 DEF RcLock
<1>2. ASSUME configureDuckLake("start")
      PROVE  NhLockInv'
  <2>1. /\ nhPc["start"] = "configure" /\ UNCHANGED <<nhLocks, nhFlags>>
        /\ \/ nhPc' = [nhPc EXCEPT !["start"] = "unrefresh"]
           \/ nhPc' = [nhPc EXCEPT !["start"] = "swap"]
    BY <1>2 DEF configureDuckLake
  <2>2. QED
    BY <2>1
<1>3. CASE RcSwap("start")
  BY <1>3 DEF RcSwap
<1>4. CASE replaceDB("start")
  BY <1>4 DEF replaceDB
<1>5. CASE RcClose("start")
  BY <1>5 DEF RcClose
<1>6. CASE RcUnlock("start")
  BY <1>6 DEF RcUnlock
<1>7. CASE RcLock("fs")
  BY <1>7 DEF RcLock
<1>8. ASSUME configureDuckLake("fs")
      PROVE  NhLockInv'
  <2>1. /\ nhPc["fs"] = "configure" /\ UNCHANGED <<nhLocks, nhFlags>>
        /\ \/ nhPc' = [nhPc EXCEPT !["fs"] = "unrefresh"]
           \/ nhPc' = [nhPc EXCEPT !["fs"] = "swap"]
    BY <1>8 DEF configureDuckLake
  <2>2. QED
    BY <2>1
<1>9. CASE RcSwap("fs")
  BY <1>9 DEF RcSwap
<1>10. CASE replaceDB("fs")
  BY <1>10 DEF replaceDB
<1>11. CASE RcClose("fs")
  BY <1>11 DEF RcClose
<1>12. CASE RcUnlock("fs")
  BY <1>12 DEF RcUnlock
<1>13. CASE NhStart
  <2>1. CASE Goto("start", "failed") /\ UNCHANGED nhFlags
    BY <1>13, <2>1 DEF NhStart
  <2>2. CASE /\ nhRunning' = TRUE
             /\ nhFsqlRunning' = nhCfg.fsql
             /\ nhPc' = [nhPc EXCEPT !["start"] = "done",
                                     !["fs"] = IF nhCfg.fsql /\ ~nhCfg.shared THEN "enter" ELSE "none",
                                     !["cc"] = IF nhCfg.chain /\ ~nhCfg.shared THEN "select" ELSE "none"]
             /\ UNCHANGED <<nhCfg, nhStopCc>>
    <3>1. /\ nhPc["start"] = "listen" /\ UNCHANGED <<nhLocks, nhCfg, nhStopCc>>
          /\ nhFsqlRunning' = nhCfg.fsql
          /\ nhPc'["start"] = "done" /\ nhPc'["stop"] = nhPc["stop"]
          /\ nhPc' \in [NhActors -> NhPcs]
          /\ nhPc'["fs"] \in {"enter", "none"} /\ (~nhCfg.fsql => nhPc'["fs"] = "none")
          /\ nhPc'["cc"] \in {"select", "none"}
      BY <1>13, <2>2 DEF NhStart
    <3>2. nhPc["stop"] = "none" /\ nhPc["fs"] = "none" /\ nhPc["cc"] = "none" /\ nhCfg.fsql \in BOOLEAN
      BY <3>1
    <3>3. nhRunning' = TRUE
      BY <1>13, <2>2 DEF NhStart
    <3>4. QED
      BY <3>1, <3>2, <3>3
  <2>3. QED
    BY <1>13, <2>1, <2>2 DEF NhStart
<1>14. CASE FsEnter
  BY <1>14 DEF FsEnter
<1>15. CASE FsTick
  BY <1>15 DEF FsTick
<1>16. CASE FsStopped
  BY <1>16 DEF FsStopped
<1>17. CASE FsLock
  BY <1>17 DEF FsLock
<1>18. CASE FsUnlock
  BY <1>18 DEF FsUnlock
<1>19. CASE CcTick
  BY <1>19 DEF CcTick
<1>20. CASE CcStopped
  BY <1>20 DEF CcStopped
<1>21. CASE CcLock
  BY <1>21 DEF CcLock
<1>22. CASE CcRead
  BY <1>22 DEF CcRead
<1>23. CASE CcExec
  BY <1>23 DEF CcExec
<1>24. CASE StopBegin
  BY <1>24 DEF StopBegin, StopStep
<1>25. CASE StopTakeCc
  BY <1>25 DEF StopTakeCc, StopStep
<1>26. CASE StopJoin
  BY <1>26 DEF StopJoin, StopStep
<1>27. CASE StopLock
  BY <1>27 DEF StopLock, StopStep
<1>28. CASE StopHTTP
  BY <1>28 DEF StopHTTP, StopStep
<1>29. CASE StopFsqlLock
  BY <1>29 DEF StopFsqlLock, StopStep
<1>30. CASE StopFsql
  BY ZenonT(60), <1>30 DEF StopFsql, StopStep
<1>31. CASE StopClose
  BY ZenonT(60), <1>31 DEF StopClose, StopStep
<1>32. ASSUME UNCHANGED <<nhPc, nhLocks, nhFlags>>
      PROVE  NhLockInv'
  BY <1>32
<1>33. QED
  BY <1>1, <1>2, <1>3, <1>4, <1>5, <1>6, <1>7, <1>8, <1>9, <1>10, <1>11, <1>12, <1>13, <1>14, <1>15, <1>16, <1>17, <1>18, <1>19, <1>20, <1>21, <1>22, <1>23, <1>24, <1>25, <1>26, <1>27, <1>28, <1>29, <1>30, <1>31, <1>32 DEF NhNext, refreshCatalog, NhRequest, queryDB, NhRun, NhStop, nhVars


\* The refresh under way is the only one, and neither Stop's end nor the credential
\* refresher's statements come in between.
LEMMA NhAlone ==
    ASSUME NhLockInv, NEW p \in {"start", "fs"}, nhPc[p] \in RcPcs
    PROVE  /\ \A l \in RcPcs : NhRefresh(l) <=> nhPc[p] = l
           /\ nhPc["stop"] \notin {"grpc", "done"} /\ nhPc["cc"] # "exec"
BY DEF NhLockInv, NhRefresh, RcPcs

LEMMA NhQuiet ==
    ASSUME NhHandleInv, NhReqInv, UNCHANGED <<nhHandles, nhCcDb, nhReq, nhSwapped>>,
           \A l \in {"swap", "replace", "close"} : NhRefresh(l)' <=> NhRefresh(l),
           nhPc'["stop"] = "done" <=> nhPc["stop"] = "done",
           nhPc'["cc"] = "exec" => nhPc["cc"] = "exec"
    PROVE  NhHandleInv' /\ NhReqInv'
<1>1. UNCHANGED <<nhDb, nhVols, nhCat, nhOpen, nhAttached, nhOld>>
  BY DEF nhHandles
<1>2. NhReqInv'
  BY <1>1 DEF NhReqInv
<1>3. PICK n \in Nat \ {0} : NhHandles(n)
  BY DEF NhHandleInv
<1>4. NhHandles(n)'
  BY <1>1, <1>3 DEF NhHandles
<1>5. QED
  BY <1>2, <1>4 DEF NhHandleInv

LEMMA NhRefreshStep ==
    ASSUME NhInv, NhLockInv', NEW p \in {"start", "fs"},
           configureDuckLake(p) \/ RcSwap(p) \/ replaceDB(p) \/ RcClose(p)
    PROVE  NhHandleInv' /\ NhReqInv'
<1>1. PICK n \in Nat \ {0} : NhHandles(n)
  BY DEF NhInv, NhHandleInv
<1>2. /\ nhPc[p] \in RcPcs /\ nhPc'[p] \in RcPcs /\ nhPc \in [NhActors -> NhPcs] /\ p \in NhActors
      /\ UNCHANGED <<nhPc["stop"], nhPc["cc"]>>
  BY DEF configureDuckLake, RcSwap, replaceDB, RcClose, Goto, RcPcs, NhInv, NhLockInv, NhActors
<1>3. /\ \A l \in RcPcs : NhRefresh(l) <=> nhPc[p] = l
      /\ nhPc["stop"] \notin {"grpc", "done"} /\ nhPc["cc"] # "exec"
  BY <1>2, NhAlone DEF NhInv
<1>4. \A l \in RcPcs : NhRefresh(l)' <=> nhPc'[p] = l
  BY <1>2 DEF NhLockInv, NhRefresh, RcPcs
<1>5. Cardinality(DOMAIN nhAttached) = n /\ 1..n # {} /\ n \in 1..n
  <2>1. DOMAIN nhAttached = 1..n
    BY <1>1 DEF NhHandles
  <2>2. n \in Nat /\ n >= 1 /\ 1 \in Int /\ n \in Int
    BY <1>1
  <2>3. Cardinality(1..n) = n
    BY <2>2, FS_Interval
  <2>4. QED
    BY <2>1, <2>2, <2>3
<1>6. NhReqInv /\ InFlight = {r \in NhRequests : nhReq[r].at \in {"db", "run"}}
  BY DEF NhInv, NhReqInv, NhReqType, InFlight
<1>7. CASE configureDuckLake(p)
  <2>1. /\ nhPc[p] = "configure" /\ UNCHANGED <<nhCcDb, nhReq, nhSwapped>>
        /\ \/ nhPc'[p] = "unrefresh" /\ UNCHANGED nhHandles
           \/ \E vols \in SUBSET NhVolumes \ {{}} :
                 /\ nhAttached' = [g \in 1..(n + 1) |-> IF g = n + 1 THEN vols ELSE nhAttached[g]]
                 /\ nhOpen' = nhOpen \cup {n + 1} /\ nhPc'[p] = "swap"
                 /\ UNCHANGED <<nhDb, nhVols, nhCat, nhOld>>
    BY <1>2, <1>5, <1>7 DEF configureDuckLake, Goto
  <2>2. nhOpen = {nhDb} /\ nhCat = nhDb
    BY <1>1, <1>3, <2>1 DEF NhHandles, RcPcs
  <2>3. CASE UNCHANGED nhHandles /\ nhPc'[p] = "unrefresh"
    BY <1>2, <1>3, <1>4, <2>1, <2>3, NhQuiet DEF RcPcs, NhInv
  <2>4. CASE \E vols \in SUBSET NhVolumes \ {{}} :
                 /\ nhAttached' = [g \in 1..(n + 1) |-> IF g = n + 1 THEN vols ELSE nhAttached[g]]
                 /\ nhOpen' = nhOpen \cup {n + 1} /\ nhPc'[p] = "swap"
                 /\ UNCHANGED <<nhDb, nhVols, nhCat, nhOld>>
    <3>1. PICK vols \in SUBSET NhVolumes \ {{}} :
                 /\ nhAttached' = [g \in 1..(n + 1) |-> IF g = n + 1 THEN vols ELSE nhAttached[g]]
                 /\ nhOpen' = nhOpen \cup {n + 1} /\ nhPc'[p] = "swap"
                 /\ UNCHANGED <<nhDb, nhVols, nhCat, nhOld>>
      BY <2>4
    <3>2. /\ n + 1 \in Nat \ {0} /\ n + 1 \notin 1..n /\ 1..n \subseteq 1..(n + 1) /\ n + 1 \in 1..(n + 1)
          /\ \A g \in 1..(n + 1) : g = n + 1 \/ g \in 1..n
      BY <1>1
    <3>3. /\ DOMAIN nhAttached' = 1..(n + 1) /\ nhAttached'[n + 1] = vols
          /\ \A g \in 1..n : nhAttached'[g] = nhAttached[g]
      BY <3>1, <3>2
    <3>4. nhDb \in 1..n /\ nhCat \in 1..n /\ \A h \in 1..n : nhAttached[h] \subseteq NhVolumes
      BY <1>1 DEF NhHandles
    <3>5. /\ NhRefresh("swap")' /\ ~NhRefresh("replace")' /\ ~NhRefresh("close")'
      BY <1>4, <3>1 DEF RcPcs
    <3>6. nhOpen' = {nhDb, n + 1} /\ n + 1 # nhDb /\ nhOpen' \subseteq 1..(n + 1)
      BY <2>2, <3>1, <3>2, <3>4
    <3>7. nhVols' = nhAttached'[nhDb']
      BY <1>1, <3>1, <3>3, <3>4 DEF NhHandles
    <3>8. \A h \in 1..(n + 1) : nhAttached'[h] \subseteq NhVolumes
      BY <3>2, <3>3, <3>4
    <3>9. NhHandles(n + 1)'
      BY <1>2, <1>3, <2>1, <2>2, <3>1, <3>2, <3>3, <3>4, <3>5, <3>6, <3>7, <3>8 DEF NhHandles
    <3>10. NhReqInv'
      <4>1. UNCHANGED <<nhReq, nhSwapped, nhDb, nhCat, nhPc["stop"]>>
        BY <1>2, <2>1, <3>1
      <4>2. nhAttached'[nhDb] = nhAttached[nhDb] /\ nhAttached'[nhCat] = nhAttached[nhCat]
        BY <3>3, <3>4
      <4>3. ASSUME NEW r \in NhRequests \ nhSwapped, nhReq[r].at = "run"
            PROVE  \/ nhReq[r].db = WriterDb
                   \/ nhReq[r].db \in {nhDb, nhCat} /\ nhReq[r].vols \subseteq nhAttached'[nhReq[r].db]
        BY <1>6, <4>2, <4>3 DEF NhReqInv
      <4>4. QED
        BY <1>6, <4>1, <4>2, <4>3 DEF NhReqInv
    <3>11. QED
      BY <3>2, <3>9, <3>10 DEF NhHandleInv
  <2>5. QED
    BY <2>1, <2>3, <2>4
<1>8. CASE RcSwap(p)
  <2>1. /\ nhPc[p] = "swap" /\ nhPc'[p] = "replace" /\ nhOld' = nhDb /\ nhDb' = n /\ nhVols' = nhAttached[n]
        /\ nhSwapped' = nhSwapped \cup InFlight
        /\ UNCHANGED <<nhCat, nhOpen, nhAttached, nhCcDb, nhReq>>
    BY <1>2, <1>5, <1>8 DEF RcSwap, Goto
  <2>2. nhOpen = {nhDb, n} /\ n # nhDb /\ nhCat = nhDb
    BY <1>1, <1>3, <2>1 DEF NhHandles, RcPcs
  <2>3. ~NhRefresh("swap")' /\ NhRefresh("replace")' /\ ~NhRefresh("close")'
    BY <1>4, <2>1 DEF RcPcs
  <2>4. NhHandles(n)'
    BY <1>1, <1>2, <1>3, <1>5, <2>1, <2>2, <2>3 DEF NhHandles
  <2>5. NhReqInv'
    BY <1>2, <1>6, <2>1 DEF NhReqInv
  <2>6. QED
    BY <2>4, <2>5 DEF NhHandleInv
<1>9. CASE replaceDB(p)
  <2>1. /\ nhPc[p] = "replace" /\ nhPc'[p] = "close" /\ nhCat' = nhDb
        /\ nhSwapped' = nhSwapped \cup InFlight
        /\ UNCHANGED <<nhDb, nhVols, nhOld, nhOpen, nhAttached, nhCcDb, nhReq>>
    BY <1>2, <1>9 DEF replaceDB, Goto
  <2>2. nhOpen = {nhDb, nhOld} /\ nhOld # nhDb /\ nhCat = nhOld
    BY <1>1, <1>3, <2>1 DEF NhHandles, RcPcs
  <2>3. ~NhRefresh("swap")' /\ ~NhRefresh("replace")' /\ NhRefresh("close")'
    BY <1>4, <2>1 DEF RcPcs
  <2>4. NhHandles(n)'
    BY <1>1, <1>2, <1>3, <2>1, <2>2, <2>3 DEF NhHandles
  <2>5. NhReqInv'
    BY <1>2, <1>6, <2>1 DEF NhReqInv
  <2>6. QED
    BY <2>4, <2>5 DEF NhHandleInv
<1>10. CASE RcClose(p)
  <2>1. /\ nhPc[p] = "close" /\ nhPc'[p] = "unrefresh" /\ nhOpen' = nhOpen \ {nhOld}
        /\ UNCHANGED <<nhDb, nhVols, nhCat, nhOld, nhAttached, nhCcDb, nhReq, nhSwapped>>
    BY <1>2, <1>10 DEF RcClose, Goto
  <2>2. nhOpen = {nhDb, nhOld} /\ nhOld # nhDb /\ nhCat = nhDb
    BY <1>1, <1>3, <2>1 DEF NhHandles, RcPcs
  <2>3. ~NhRefresh("swap")' /\ ~NhRefresh("replace")' /\ ~NhRefresh("close")'
    BY <1>4, <2>1 DEF RcPcs
  <2>4. NhHandles(n)'
    BY <1>1, <1>2, <1>3, <2>1, <2>2, <2>3 DEF NhHandles
  <2>5. NhReqInv'
    BY <1>2, <1>6, <2>1 DEF NhReqInv
  <2>6. QED
    BY <2>4, <2>5 DEF NhHandleInv
<1>11. QED
  BY <1>7, <1>8, <1>9, <1>10

\* An operation of one request: the others keep what they have.
LEMMA NhReqStep ==
    ASSUME NhReqInv, NEW r \in NhRequests,
           UNCHANGED <<nhHandles, nhSwapped, nhPc["stop"]>>,
           nhReq' \in [NhRequests -> NhReqType], \A s \in NhRequests \ {r} : nhReq'[s] = nhReq[s],
           r \notin nhSwapped =>
              /\ nhReq'[r].res \notin {"closed", "no catalog"}
              /\ nhReq'[r].at \in {"db", "run"} => nhPc["stop"] # "done"
              /\ nhReq'[r].at = "db" => nhReq'[r].vols \subseteq nhAttached[nhDb]
              /\ nhReq'[r].at = "run" =>
                    \/ nhReq'[r].db = WriterDb
                    \/ nhReq'[r].db \in {nhDb, nhCat} /\ nhReq'[r].vols \subseteq nhAttached[nhReq'[r].db]
    PROVE  NhReqInv'
<1>1. UNCHANGED <<nhDb, nhCat, nhAttached>>
  BY DEF nhHandles
<1>2. ASSUME NEW s \in NhRequests \ nhSwapped
      PROVE  /\ nhReq'[s].res \notin {"closed", "no catalog"}
             /\ nhReq'[s].at \in {"db", "run"} => nhPc["stop"] # "done"
             /\ nhReq'[s].at = "db" => nhReq'[s].vols \subseteq nhAttached[nhDb]
             /\ nhReq'[s].at = "run" =>
                   \/ nhReq'[s].db = WriterDb
                   \/ nhReq'[s].db \in {nhDb, nhCat} /\ nhReq'[s].vols \subseteq nhAttached[nhReq'[s].db]
  <2>1. CASE s = r
    BY <2>1
  <2>2. CASE s # r
    <3>1. nhReq'[s] = nhReq[s]
      BY <2>2
    <3>2. QED
      BY <3>1 DEF NhReqInv
  <2>3. QED
    BY <2>1, <2>2
<1>3. NhReqType' = NhReqType
  BY DEF NhReqType
<1>4. QED
  BY <1>1, <1>2, <1>3 DEF NhReqInv

\* The handles as requests find them: open, until Stop closes the last.
LEMMA NhHandlesOpen ==
    ASSUME NhHandleInv
    PROVE  /\ nhDb \in Nat \ {0} /\ nhCat \in Nat \ {0} /\ nhVols = nhAttached[nhDb]
           /\ nhVols \subseteq NhVolumes /\ nhAttached[nhCat] \subseteq NhVolumes
           /\ nhPc["stop"] # "done" => nhDb \in nhOpen /\ nhCat \in nhOpen
           /\ nhPc["stop"] = "done" => nhOpen = {}
           /\ nhPc["cc"] = "exec" => nhCcDb = nhDb
           /\ WriterDb \notin nhOpen
<1>1. PICK n \in Nat \ {0} : NhHandles(n)
  BY DEF NhHandleInv
<1>2. nhDb \in 1..n /\ nhCat \in 1..n
  BY <1>1 DEF NhHandles
<1>3. QED
  BY <1>1, <1>2 DEF NhHandles, WriterDb

LEMMA NhRequestStep ==
    ASSUME NhInv, NEW r \in NhRequests,
           \/ \E kind \in {"http", "fsql", "airport", "vacuum"} : NhRequest(r, kind)
           \/ queryDB(r) \/ NhRun(r)
    PROVE  NhHandleInv' /\ NhReqInv'
<1>1. /\ UNCHANGED <<nhHandles, nhLocks, nhFlags, nhPc, nhCcDb, nhSwapped>>
      /\ UNCHANGED <<nhHandles, nhSwapped, nhPc["stop"]>>
      /\ NhLockInv /\ NhHandleInv /\ NhReqInv
  BY DEF NhRequest, queryDB, NhRun, NhInv
<1>2. NhHandleInv'
  <2>1. PICK n \in Nat \ {0} : NhHandles(n)
    BY <1>1 DEF NhHandleInv
  <2>2. NhHandles(n)'
    BY <1>1, <2>1 DEF NhHandles, nhHandles, NhRefresh
  <2>3. QED
    BY <2>2 DEF NhHandleInv
<1>3. /\ nhReq[r].vols \in SUBSET NhVolumes /\ nhReq[r].db \in Nat
      /\ nhReq[r].kind \in {"none", "http", "fsql", "airport", "vacuum"}
      /\ nhReq[r].at \in {"none", "db", "run", "end"}
      /\ nhReq[r].res \in {"none", "ok", "closed", "no catalog"}
      /\ nhReq[r] \in NhReqType
  BY <1>1 DEF NhReqInv, NhReqType
<1>4. /\ nhDb \in Nat \ {0} /\ nhCat \in Nat \ {0} /\ nhVols = nhAttached[nhDb]
      /\ nhVols \subseteq NhVolumes /\ nhAttached[nhCat] \subseteq NhVolumes
      /\ nhPc["stop"] # "done" => nhDb \in nhOpen /\ nhCat \in nhOpen
      /\ WriterDb \notin nhOpen
  BY <1>1, NhHandlesOpen
<1>5. ASSUME NEW kind \in {"http", "fsql", "airport", "vacuum"}, NhRequest(r, kind)
      PROVE  NhReqInv'
  <2> DEFINE vs == IF kind = "airport" THEN nhAttached[nhCat]
                   ELSE IF nhCfg.shared /\ kind # "vacuum" THEN {} ELSE nhVols
             q == [kind |-> kind, at |-> IF kind = "airport" THEN "run" ELSE "db",
                   vols |-> vs, db |-> nhCat, res |-> "none"]
  <2>1. nhReq' = [nhReq EXCEPT ![r] = q] /\ nhRunning
    BY <1>5 DEF NhRequest, Accepting
  <2>2. nhPc["stop"] # "done"
    BY <1>1, <2>1 DEF NhLockInv
  <2>3. vs \in SUBSET NhVolumes
    BY <1>4
  <2>4. \/ q.at = "run" /\ vs \subseteq nhAttached[nhCat]
        \/ q.at = "db" /\ vs \subseteq nhAttached[nhDb]
    BY <1>4
  <2>5. q.db = nhCat /\ q.res = "none" /\ q.vols = vs /\ q.at \in {"run", "db"}
    OBVIOUS
  <2>6. q \in NhReqType
    BY <1>4, <2>3 DEF NhReqType
  <2> HIDE DEF vs, q
  <2>7. nhReq' \in [NhRequests -> NhReqType] /\ nhReq'[r] = q /\ \A s \in NhRequests \ {r} : nhReq'[s] = nhReq[s]
    BY <1>1, <2>1, <2>6 DEF NhReqInv
  <2>8. QED
    BY <1>1, <2>2, <2>4, <2>5, <2>7, NhReqStep
<1>6. CASE queryDB(r)
  <2> DEFINE h == IF nhCfg.shared /\ nhReq[r].kind # "vacuum" THEN WriterDb ELSE nhDb
             q == [nhReq[r] EXCEPT !.at = "run", !.db = h]
  <2>1. nhReq' = [nhReq EXCEPT ![r].at = "run", ![r].db = h] /\ nhReq[r].at = "db"
    BY <1>6 DEF queryDB
  <2>2. h \in Nat /\ h \in {WriterDb, nhDb}
    BY <1>4 DEF WriterDb
  <2> HIDE DEF h
  <2>3. q.at = "run" /\ q.db = h /\ q.vols = nhReq[r].vols /\ q.res = nhReq[r].res
    BY <1>3 DEF NhReqType
  <2>4. q \in NhReqType
    BY <1>3, <2>2 DEF NhReqType
  <2>5. nhReq'[r] = q /\ \A s \in NhRequests \ {r} : nhReq'[s] = nhReq[s]
    BY <1>1, <2>1 DEF NhReqInv
  <2>6. nhReq' \in [NhRequests -> NhReqType]
    BY <1>1, <2>1, <2>4 DEF NhReqInv, NhReqType
  <2> HIDE DEF q
  <2>7. r \notin nhSwapped => /\ q.res \notin {"closed", "no catalog"} /\ nhPc["stop"] # "done"
                               /\ q.vols \subseteq nhAttached[nhDb]
    BY <1>1, <2>1, <2>3 DEF NhReqInv
  <2>8. /\ nhReq'[r].at = "run" /\ nhReq'[r].db \in {WriterDb, nhDb}
        /\ nhReq'[r].vols = q.vols /\ nhReq'[r].res = q.res
    BY <2>2, <2>3, <2>5
  <2>10. r \notin nhSwapped =>
              /\ nhReq'[r].res \notin {"closed", "no catalog"}
              /\ nhReq'[r].at \in {"db", "run"} => nhPc["stop"] # "done"
              /\ nhReq'[r].at = "db" => nhReq'[r].vols \subseteq nhAttached[nhDb]
              /\ nhReq'[r].at = "run" =>
                    \/ nhReq'[r].db = WriterDb
                    \/ nhReq'[r].db \in {nhDb, nhCat} /\ nhReq'[r].vols \subseteq nhAttached[nhReq'[r].db]
    BY <2>7, <2>8
  <2>11. \A s \in NhRequests \ {r} : nhReq'[s] = nhReq[s]
    BY <2>5
  <2>9. QED
    BY <1>1, <1>2, <2>6, <2>10, <2>11, NhReqStep
<1>7. CASE NhRun(r)
  <2> DEFINE res == CASE nhReq[r].db = WriterDb -> "ok"
                      [] nhReq[r].db \notin nhOpen \cup {WriterDb} -> "closed"
                      [] nhReq[r].db \in nhOpen /\ ~(nhReq[r].vols \subseteq nhAttached[nhReq[r].db]) -> "no catalog"
                      [] OTHER -> "ok"
             q == [nhReq[r] EXCEPT !.at = "end", !.res = res]
  <2>1. nhReq' = [nhReq EXCEPT ![r].at = "end", ![r].res = res] /\ nhReq[r].at = "run"
    BY <1>7 DEF NhRun
  <2>2. /\ res \in {"ok", "closed", "no catalog"}
        /\ res # "ok" => /\ nhReq[r].db # WriterDb
                         /\ \/ nhReq[r].db \notin nhOpen
                            \/ ~(nhReq[r].vols \subseteq nhAttached[nhReq[r].db])
    <3> DEFINE a == nhReq[r].db
               c == nhReq[r].vols \subseteq nhAttached[nhReq[r].db]
    <3>1. res = CASE a = WriterDb -> "ok" [] a \notin nhOpen \cup {WriterDb} -> "closed"
                  [] a \in nhOpen /\ ~c -> "no catalog" [] OTHER -> "ok"
      OBVIOUS
    <3> HIDE DEF a, c, res
    <3>2. /\ res \in {"ok", "closed", "no catalog"}
          /\ res # "ok" => a # WriterDb /\ (a \notin nhOpen \/ ~c)
      <4>1. CASE a = WriterDb
        BY <1>4, <3>1, <4>1
      <4>2. CASE a \notin nhOpen \cup {WriterDb}
        BY <3>1, <4>2
      <4>3. CASE a \in nhOpen /\ a # WriterDb
        BY <3>1, <4>3
      <4>4. QED
        BY <4>1, <4>2, <4>3
    <3>3. QED
      BY <3>2 DEF a, c
  <2> HIDE DEF res
  <2>3. q.at = "end" /\ q.res = res
    BY <1>3 DEF NhReqType
  <2>4. q \in NhReqType
    BY <1>3, <2>2 DEF NhReqType
  <2>5. nhReq'[r] = q /\ \A s \in NhRequests \ {r} : nhReq'[s] = nhReq[s]
    BY <1>1, <2>1 DEF NhReqInv
  <2>6. nhReq' \in [NhRequests -> NhReqType]
    BY <1>1, <2>1, <2>4, <2>5 DEF NhReqInv
  <2> HIDE DEF q
  <2>7. r \notin nhSwapped => res = "ok"
    BY <1>1, <1>4, <2>1, <2>2 DEF NhReqInv
  <2>8. nhReq'[r].at = "end" /\ nhReq'[r].res = res
    BY <2>3, <2>5
  <2>10. r \notin nhSwapped =>
              /\ nhReq'[r].res \notin {"closed", "no catalog"}
              /\ nhReq'[r].at \in {"db", "run"} => nhPc["stop"] # "done"
              /\ nhReq'[r].at = "db" => nhReq'[r].vols \subseteq nhAttached[nhDb]
              /\ nhReq'[r].at = "run" =>
                    \/ nhReq'[r].db = WriterDb
                    \/ nhReq'[r].db \in {nhDb, nhCat} /\ nhReq'[r].vols \subseteq nhAttached[nhReq'[r].db]
    BY <2>7, <2>8
  <2>11. \A s \in NhRequests \ {r} : nhReq'[s] = nhReq[s]
    BY <2>5
  <2>9. QED
    BY <1>1, <1>2, <2>6, <2>10, <2>11, NhReqStep
<1>8. QED
  BY <1>2, <1>5, <1>6, <1>7

LEMMA NhCloseStep ==
    ASSUME NhInv, NhLockInv', StopClose
    PROVE  NhHandleInv' /\ NhReqInv'
<1>1. PICK n \in Nat \ {0} : NhHandles(n)
  BY DEF NhInv, NhHandleInv
<1>2. /\ nhPc["stop"] = "grpc" /\ nhPc'["stop"] = "done" /\ nhPc'["cc"] = nhPc["cc"]
      /\ nhOpen' = nhOpen \ {nhDb} /\ nhSwapped' = nhSwapped \cup InFlight
      /\ UNCHANGED <<nhDb, nhVols, nhCat, nhAttached, nhOld, nhCcDb, nhReq>>
  BY DEF StopClose, StopStep, Goto, NhInv, NhLockInv, NhActors
<1>3. ~NhRefresh("swap") /\ ~NhRefresh("replace") /\ ~NhRefresh("close")
  BY <1>2 DEF NhInv, NhLockInv, NhRefresh, RcPcs
<1>4. nhOpen' = {}
  BY <1>1, <1>2, <1>3 DEF NhHandles
<1>5. NhHandles(n)'
  BY <1>1, <1>2, <1>4 DEF NhHandles
<1>6. InFlight = {r \in NhRequests : nhReq[r].at \in {"db", "run"}} /\ NhReqInv
  BY DEF NhInv, NhReqInv, NhReqType, InFlight
<1>7. NhReqInv'
  <2>1. /\ nhReq' \in [NhRequests -> NhReqType] /\ NhReqType' = NhReqType
        /\ nhSwapped' \subseteq NhRequests /\ nhSwapped \subseteq nhSwapped'
        /\ \A r \in NhRequests \ nhSwapped' : nhReq'[r].at \notin {"db", "run"}
    BY <1>2, <1>6 DEF NhReqInv, NhReqType
  <2>2. QED
    BY <1>2, <1>6, <2>1 DEF NhReqInv
<1>8. QED
  BY <1>5, <1>7 DEF NhHandleInv

LEMMA NhCcReadStep ==
    ASSUME NhInv, NhLockInv', CcRead
    PROVE  NhHandleInv' /\ NhReqInv'
<1>1. PICK n \in Nat \ {0} : NhHandles(n)
  BY DEF NhInv, NhHandleInv
<1>2. /\ nhPc["cc"] = "read" /\ nhCcDb' = nhDb /\ UNCHANGED <<nhHandles, nhReq, nhSwapped>>
      /\ \A a \in {"start", "fs", "stop"} : nhPc'[a] = nhPc[a]
  BY DEF CcRead, Goto, NhInv, NhLockInv, NhActors
<1>3. NhHandles(n)'
  BY <1>1, <1>2 DEF NhHandles, nhHandles, NhRefresh
<1>4. NhReqInv'
  BY <1>2 DEF NhInv, NhReqInv, nhHandles, NhReqType
<1>5. QED
  BY <1>3, <1>4 DEF NhHandleInv

LEMMA NhInitInv ==
    ASSUME NodeHandleAssumption, NhInit
    PROVE  NhInv
<1>1. NhLockInv
  <2>1. nhPc \in [NhActors -> NhPcs]
    BY DEF NhInit, NhPcs, NhActors
  <2>2. QED
    BY <2>1 DEF NhInit, NhLockInv, RcPcs, NhBefore
<1>2. NhHandles(1)
  BY DEF NhInit, NhHandles, NhRefresh
<1>3. NhReqInv
  BY DEF NhInit, NhReqInv, NhReqType, NoRequest
<1>4. QED
  BY <1>1, <1>2, <1>3 DEF NhInv, NhHandleInv

LEMMA NhInductive ==
    ASSUME NhInv, [NhNext]_nhVars
    PROVE  NhInv'
<1>1. NhLockInv'
  BY NhLockStep DEF NhInv
<1>2. NhHandleInv /\ NhReqInv /\ NhLockInv
  BY DEF NhInv
<1> SUFFICES NhHandleInv' /\ NhReqInv'
  BY <1>1 DEF NhInv
<1>3. ASSUME UNCHANGED <<nhHandles, nhCcDb, nhReq, nhSwapped>>, NEW p \in NhActors, NEW l,
             nhPc' = [nhPc EXCEPT ![p] = l],
             p \in {"start", "fs"} => {nhPc[p], l} \cap {"swap", "replace", "close"} = {},
             p = "stop" => "done" \notin {nhPc[p], l}, p = "cc" => l # "exec"
      PROVE  NhHandleInv' /\ NhReqInv'
  <2>1. \A a \in NhActors : nhPc'[a] = IF a = p THEN l ELSE nhPc[a]
    BY <1>2, <1>3 DEF NhLockInv
  <2>2. \A m \in {"swap", "replace", "close"} : NhRefresh(m)' <=> NhRefresh(m)
    BY <1>3, <2>1 DEF NhActors, NhRefresh
  <2>3. QED
    BY <1>2, <1>3, <2>1, <2>2, NhQuiet DEF NhActors
<1>4. ASSUME NEW p \in {"start", "fs"}, refreshCatalog(p)
      PROVE  NhHandleInv' /\ NhReqInv'
  <2>1. p \in NhActors /\ p # "stop" /\ p # "cc"
    BY DEF NhActors
  <2>2. CASE RcLock(p)
    BY <1>3, <2>1, <2>2 DEF RcLock, NoHandleOrRequest, Goto
  <2>3. CASE RcUnlock(p)
    <3>1. PICK l \in {"listen", "unlockS"} : nhPc' = [nhPc EXCEPT ![p] = l]
      BY <2>3 DEF RcUnlock, Goto
    <3>2. QED
      BY <1>3, <2>1, <2>3, <3>1 DEF RcUnlock, NoHandleOrRequest
  <2>4. QED
    BY <1>1, <1>4, <2>2, <2>3, NhRefreshStep DEF refreshCatalog
<1>5. CASE NhStart
  <2>1. /\ UNCHANGED <<nhHandles, nhCcDb, nhReq, nhSwapped>> /\ nhPc["start"] = "listen"
        /\ nhPc'["start"] \in {"done", "failed"} /\ nhPc'["fs"] \in {nhPc["fs"], "enter", "none"}
        /\ nhPc'["cc"] \in {nhPc["cc"], "select", "none"} /\ nhPc'["stop"] = nhPc["stop"]
    <3>1. UNCHANGED <<nhHandles, nhCcDb, nhReq, nhSwapped>> /\ nhPc["start"] = "listen"
      BY <1>5 DEF NhStart, NoHandleOrRequest
    <3>2. \E a \in {"done", "failed"}, b \in {nhPc["fs"], "enter", "none"}, c \in {nhPc["cc"], "select", "none"} :
             nhPc' = [nhPc EXCEPT !["start"] = a, !["fs"] = b, !["cc"] = c]
      <4>1. CASE Goto("start", "failed")
        <5>1. nhPc' = [nhPc EXCEPT !["start"] = "failed", !["fs"] = nhPc["fs"], !["cc"] = nhPc["cc"]]
          BY <1>2, <4>1 DEF Goto, NhLockInv
        <5>2. QED
          BY <5>1
      <4>2. CASE nhPc' = [nhPc EXCEPT !["start"] = "done",
                                     !["fs"] = IF nhCfg.fsql /\ ~nhCfg.shared THEN "enter" ELSE "none",
                                     !["cc"] = IF nhCfg.chain /\ ~nhCfg.shared THEN "select" ELSE "none"]
        <5>1. /\ (IF nhCfg.fsql /\ ~nhCfg.shared THEN "enter" ELSE "none") \in {nhPc["fs"], "enter", "none"}
              /\ (IF nhCfg.chain /\ ~nhCfg.shared THEN "select" ELSE "none") \in {nhPc["cc"], "select", "none"}
          OBVIOUS
        <5>2. QED
          BY <4>2, <5>1
      <4>3. QED
        BY <1>5, <4>1, <4>2 DEF NhStart
    <3>3. QED
      BY <1>2, <3>1, <3>2 DEF NhLockInv, NhActors
  <2>2. nhPc["fs"] = "none"
    BY <1>2, <2>1 DEF NhLockInv
  <2>3. \A m \in {"swap", "replace", "close"} : NhRefresh(m)' <=> NhRefresh(m)
    BY <2>1, <2>2 DEF NhRefresh
  <2>4. nhPc'["cc"] = "exec" => nhPc["cc"] = "exec"
    BY <2>1
  <2>5. QED
    BY <1>2, <2>1, <2>3, <2>4, NhQuiet
<1>6. CASE FsEnter
  <2>1. PICK l \in {"deaf", "select"} : nhPc' = [nhPc EXCEPT !["fs"] = l]
    BY <1>6 DEF FsEnter, Goto
  <2>2. QED
    BY <1>3, <1>6, <2>1 DEF FsEnter, NoHandleOrRequest, NhActors
<1>7. CASE FsTick
  BY <1>3, <1>7 DEF FsTick, Goto, NoHandleOrRequest, NhActors
<1>8. CASE FsStopped
  BY <1>3, <1>8 DEF FsStopped, Goto, NoHandleOrRequest, NhActors
<1>9. CASE FsLock
  <2>1. PICK l \in {"refreshMu", "unlockS"} : nhPc' = [nhPc EXCEPT !["fs"] = l]
    BY <1>9 DEF FsLock, Goto
  <2>2. QED
    BY <1>3, <1>9, <2>1 DEF FsLock, NoHandleOrRequest, NhActors
<1>10. CASE FsUnlock
  BY <1>3, <1>10 DEF FsUnlock, Goto, NoHandleOrRequest, NhActors
<1>11. CASE CcTick
  BY <1>3, <1>11 DEF CcTick, Goto, NoHandleOrRequest, NhActors
<1>12. CASE CcStopped
  BY <1>3, <1>12 DEF CcStopped, Goto, NoHandleOrRequest, NhActors
<1>13. CASE CcLock
  BY <1>3, <1>13 DEF CcLock, Goto, NoHandleOrRequest, NhActors
<1>14. CASE CcExec
  BY <1>3, <1>14 DEF CcExec, Goto, NoHandleOrRequest, NhActors
<1>15. CASE StopBegin
  <2>1. PICK l \in {"takeCc"} : nhPc' = [nhPc EXCEPT !["stop"] = l]
    BY <1>15, <1>2 DEF StopBegin, StopStep, Goto, NhLockInv
  <2>2. QED
    BY <1>3, <1>15, <2>1 DEF StopBegin, StopStep, NoHandleOrRequest, NhActors
<1>16. CASE StopTakeCc
  BY <1>3, <1>16 DEF StopTakeCc, StopStep, Goto, NoHandleOrRequest, NhActors
<1>17. CASE StopJoin
  BY <1>3, <1>17 DEF StopJoin, StopStep, Goto, NoHandleOrRequest, NhActors
<1>18. CASE StopLock
  BY <1>3, <1>18 DEF StopLock, StopStep, Goto, NoHandleOrRequest, NhActors
<1>19. CASE StopHTTP
  <2>1. PICK l \in {"lockS", "grpc"} : nhPc' = [nhPc EXCEPT !["stop"] = l]
    BY <1>19 DEF StopHTTP, StopStep, Goto
  <2>2. QED
    BY <1>3, <1>19, <2>1 DEF StopHTTP, StopStep, NoHandleOrRequest, NhActors
<1>20. CASE StopFsqlLock
  BY <1>3, <1>20 DEF StopFsqlLock, StopStep, Goto, NoHandleOrRequest, NhActors
<1>21. CASE StopFsql
  BY <1>3, <1>21 DEF StopFsql, StopStep, Goto, NoHandleOrRequest, NhActors
<1>22. CASE UNCHANGED nhVars
  BY <1>2, <1>22, NhQuiet DEF nhVars, nhHandles, NhRefresh
<1>23. QED
  <2>1. CASE \E r \in NhRequests :
                \/ \E kind \in {"http", "fsql", "airport", "vacuum"} : NhRequest(r, kind)
                \/ queryDB(r) \/ NhRun(r)
    BY <2>1, NhRequestStep
  <2>2. CASE CcRead \/ StopClose
    BY <1>1, <2>2, NhCcReadStep, NhCloseStep
  <2>3. CASE refreshCatalog("start") \/ refreshCatalog("fs")
    BY <1>4, <2>3
  <2>4. QED
    BY <1>5, <1>6, <1>7, <1>8, <1>9, <1>10, <1>11, <1>12, <1>13, <1>14, <1>15, <1>16, <1>17, <1>18, <1>19, <1>20, <1>21, <1>22, <2>1, <2>2, <2>3 DEF NhNext, NhStop

LEMMA NhInvSafe ==
    ASSUME NhInv
    PROVE  NodeHandleSafe
<1>1. NhHandleInv /\ NhReqInv /\ NhLockInv
  BY DEF NhInv
<1>2. /\ nhPc["stop"] # "done" => {nhDb, nhCat} \subseteq nhOpen
      /\ nhPc["stop"] = "done" => nhOpen = {}
      /\ nhPc["cc"] = "exec" => nhCcDb = nhDb
  BY <1>1, NhHandlesOpen
<1>3. nhPc["stop"] = "done" => nhPc["cc"] \in {"none", "done"}
  BY <1>1 DEF NhLockInv, NhBefore
<1>4. \A r \in NhRequests : nhReq[r].res \in {"closed", "no catalog"} => r \in nhSwapped
  BY <1>1 DEF NhReqInv
<1>5. ASSUME nhPc["stop"] \notin {"none", "done"}, ~NhMoving
      PROVE  LockCycle
  <2> USE <1>1, <1>5 DEF NhLockInv, NhMoving, NhBefore, RcPcs
  <2>1. nhPc["cc"] \notin {"exec", "read"}
    <3>1. nhPc["cc"] # "exec"
      OBVIOUS
    <3>2. CASE nhPc["cc"] = "read"
      BY <3>2
    <3>3. QED
      BY <3>1, <3>2
  <2>2. nhPc["fs"] \notin {"configure", "replace", "close", "unrefresh", "unlockS"}
    OBVIOUS
  <2>3. CASE nhPc["stop"] \in {"takeCc", "lock"}
    BY <2>3
  <2>4. CASE nhPc["stop"] = "join"
    <3>1. nhStopCc /\ nhMu = "none" /\ nhPc["start"] = "done"
      BY <2>4
    <3>2. nhPc["cc"] = "refreshMu"
      BY <2>1, <2>4, <3>1
    <3>3. nhRefreshMu # "none"
      BY <3>2
    <3>4. nhRefreshMu = "fs"
      BY <3>1, <3>2, <3>3
    <3>5. QED
      BY <2>2, <3>1, <3>4
  <2>5. CASE nhPc["stop"] = "lockS"
    <3>1. nhMu = "stop" /\ nhSMu = "fs" /\ nhPc["cc"] \in {"none", "done"} /\ nhPc["start"] = "done"
      BY <2>5
    <3>2. nhPc["fs"] \in {"refreshMu", "swap"}
      BY <2>2, <3>1
    <3>3. nhPc["fs"] # "refreshMu"
      <4>1. SUFFICES ASSUME nhPc["fs"] = "refreshMu" PROVE FALSE
        OBVIOUS
      <4>2. nhRefreshMu # "none"
        BY <4>1
      <4>3. nhRefreshMu \notin {"start", "fs", "cc"}
        BY <3>1, <4>1
      <4>4. QED
        BY <4>2, <4>3
    <3>4. QED
      BY <2>5, <3>1, <3>2, <3>3 DEF LockCycle
  <2>6. QED
    BY <2>3, <2>4, <2>5
<1>6. QED
  BY <1>1, <1>2, <1>3, <1>4, <1>5 DEF NodeHandleSafe

-----------------------------------------------------------------------------
(* A node's query. *)

NqCopyT == [row : NqRows, place : NqPlaces]

NqAskedT ==
    [at : {"lake", "mem", "tiered", "done", "failed"}, setup : NqSetups,
     via : {"http", "flightsql", "airport"}, order : {"topn", "stream", "asc", "agg"},
     uuid : BOOLEAN, long : BOOLEAN, strategy : {"full", "stream", "chunked"}, hi : Nat,
     read : SUBSET NqPlaces, rows : SUBSET NqCopyT]

\* The rows and the copies that the query is about.
NqIn(r) == InWindow(r, NqWindow[1], NqWindow[2], TRUE)
NqAll(places) == Copies(places, NqWindow[1], NqWindow[2], TRUE)

NqPart(lo, hi) == Copies({"hot"}, lo, hi, FALSE)

NqTypeInv ==
    /\ nqAt \in [NqRows -> {{}, {"mem"}, {"mem", "hot"}, {"hot"}, {"hot", "cold"}, {"cold"}}]
    /\ nq = NqIdle \/ nq \in NqAskedT
    /\ nqHeld \subseteq NqRows

\* Where the query is tells what it has read.
NqPlanInv ==
    /\ ~nq.setup.shared => ~nq.setup.buffer /\ ~nq.setup.tiered
    /\ nq.at = "lake" => \/ nq.read = {} /\ nq.rows = {} /\ nq.hi = NqWindow[2]
                         \/ nq.read = {"hot"} /\ timeSlice(nq) /\ nq.strategy = "chunked"
    /\ nq.at = "mem" => nq.read = {"hot"} /\ mergeSeparately(nq)
    /\ nq.at = "tiered" => "hot" \in nq.read /\ "cold" \notin nq.read /\ nq.setup.tiered

\* Rows come from where rows are, and twice only in the middle of a move.
NqRowsInv ==
    /\ \A c \in nq.rows : nqAt[c.row] # {}
    /\ \A c, d \in nq.rows : c.row = d.row /\ c # d =>
          c.row \in nqTwice /\ ~(mergeSeparately(nq) /\ ~nq.setup.tiered)

\* mergeSelectResults before LIMIT.
NqDeduped(q, a, b) ==
    LET keys == {rowDedupKey(q, c) : c \in a \cup b}
        of(S, k) == {c \in S : rowDedupKey(q, c) = k}
        one(k) == CHOOSE c \in (IF of(a, k) # {} THEN of(a, k) ELSE of(b, k)) : TRUE
    IN {one(k) : k \in keys}

NqHas(rows, r) == \E c \in rows : c.row = r

\* LIMIT cuts row r off.
NqCut(q, rows, r) ==
    /\ q.order \in {"topn", "stream"} /\ Cardinality(rows) >= NqLimit
    /\ \/ q.order = "stream" \/ (timeSlice(q) /\ q.strategy = "stream")
       \/ \A c \in rows : c.row.t >= r.t

\* The chunks read so far have left nothing out.
NqChunkInv ==
    nq.at = "lake" /\ nq.read # {} =>
        /\ \A c \in nq.rows : c.place = "hot" /\ c.row.t >= nq.hi
        /\ \A r \in nqHeld : NqIn(r) /\ r.t >= nq.hi =>
              r.t = NqWindow[2] \/ NqHas(nq.rows, r) \/ r \in nqPassed \/ "hot" \notin nqAt[r]

NqAnswerInv ==
    nq.at \in {"mem", "tiered", "done"} =>
        \A r \in nqHeld : NqIn(r) =>
            NqHas(nq.rows, r) \/ Excused(r) \/ NqCut(nq, nq.rows, r)

NqInv ==
    /\ NqTypeInv
    /\ nq # NqIdle => NqPlanInv /\ NqRowsInv /\ NqChunkInv /\ NqAnswerInv

NqOnce(S) == \A c, d \in S : c.row = d.row => c = d

LEMMA NqFinite ==
    ASSUME NodeQueryAssumption, NEW S, S \subseteq NqCopyT
    PROVE  IsFiniteSet(S) /\ Cardinality(S) \in Nat
<1>1. IsFiniteSet(NqPlaces)
  <2>1. NqPlaces = {"mem"} \cup {"hot"} \cup {"cold"}
    BY DEF NqPlaces
  <2>2. QED
    BY <2>1, FS_Singleton, FS_Union
<1>2. IsFiniteSet(NqRows \X NqPlaces)
  BY <1>1, FS_Product DEF NodeQueryAssumption
<1> DEFINE f == [p \in NqRows \X NqPlaces |-> [row |-> p[1], place |-> p[2]]]
<1>3. f \in Surjection(NqRows \X NqPlaces, NqCopyT)
  <2>1. f \in [NqRows \X NqPlaces -> NqCopyT]
    BY DEF NqCopyT
  <2>2. ASSUME NEW c \in NqCopyT
        PROVE  \E p \in NqRows \X NqPlaces : f[p] = c
    <3>1. <<c.row, c.place>> \in NqRows \X NqPlaces /\ c = [row |-> c.row, place |-> c.place]
      BY <2>2 DEF NqCopyT
    <3>2. f[<<c.row, c.place>>] = c
      BY <3>1
    <3>3. QED
      BY <3>1, <3>2
  <2>3. QED
    BY <2>1, <2>2 DEF Surjection
<1>4. IsFiniteSet(NqCopyT)
  BY <1>2, <1>3, FS_Surjection
<1>5. QED
  BY <1>4, FS_Subset, FS_CardinalityType

\* A cut of the newest: what is left out is no newer than what is left in.
LEMMA NqTopped ==
    ASSUME NodeQueryAssumption, NEW S, S \subseteq NqCopyT, NEW T \in AnyN(S)
    PROVE  /\ T \subseteq S /\ Cardinality(T) \in Nat
           /\ \A c \in S : c \notin T => Cardinality(T) >= NqLimit
           /\ \A G \in SUBSET S : Cardinality(G) >= NqLimit => Cardinality(T) >= NqLimit
<1>1. T \subseteq S /\ Cardinality(T) = NqMin(NqLimit, Cardinality(S)) /\ NqLimit \in Nat
  BY DEF AnyN, NodeQueryAssumption
<1>2. IsFiniteSet(S) /\ IsFiniteSet(T) /\ Cardinality(S) \in Nat /\ Cardinality(T) \in Nat
  BY <1>1, NqFinite
<1>3. ASSUME NEW c \in S, c \notin T
      PROVE  Cardinality(T) >= NqLimit
  <2>1. Cardinality(S) # Cardinality(T)
    BY <1>1, <1>2, <1>3, FS_Subset
  <2>2. QED
    BY <1>1, <1>2, <2>1 DEF NqMin
<1>4. ASSUME NEW G \in SUBSET S, Cardinality(G) >= NqLimit
      PROVE  Cardinality(T) >= NqLimit
  <2>1. Cardinality(G) <= Cardinality(S) /\ Cardinality(G) \in Nat
    BY <1>2, <1>4, FS_Subset, FS_CardinalityType
  <2>2. QED
    BY <1>1, <1>2, <1>4, <2>1 DEF NqMin
<1>5. QED
  BY <1>1, <1>2, <1>3, <1>4

LEMMA NqNewest ==
    ASSUME NodeQueryAssumption, NEW S, S \subseteq NqCopyT, NEW T \in TopN(S), NEW x \in Nat,
           NEW G \in SUBSET S, Cardinality(G) >= NqLimit, \A g \in G : g.row.t >= x
    PROVE  Cardinality(T) >= NqLimit /\ \A c \in T : c.row.t >= x
<1>1. T \in AnyN(S) /\ \A c \in T, d \in S \ T : c.row.t >= d.row.t
  BY DEF TopN
<1>2. Cardinality(T) >= NqLimit /\ T \subseteq S
  BY <1>1, NqTopped
<1>3. /\ IsFiniteSet(S) /\ IsFiniteSet(T) /\ IsFiniteSet(G) /\ Cardinality(G) \in Nat /\ Cardinality(T) \in Nat
      /\ Cardinality(S) \in Nat /\ NqLimit \in Nat
  BY <1>2, NqFinite DEF NodeQueryAssumption
<1>4. Cardinality(T) <= NqLimit
  BY <1>1, <1>3 DEF AnyN, NqMin
<1>5. ASSUME NEW c \in T, ~(c.row.t >= x)
      PROVE  FALSE
  <2>1. \A d \in S : d.row.t \in Nat
    BY DEF NqCopyT, NodeQueryAssumption
  <2>2. ASSUME NEW g \in G PROVE g \in T \ {c}
    <3>1. g.row.t >= x /\ g.row.t \in Nat /\ c.row.t \in Nat
      BY <1>2, <2>1, <2>2
    <3>2. g # c
      BY <1>5, <3>1
    <3>3. g \in T
      <4>1. SUFFICES ASSUME g \notin T PROVE FALSE
        OBVIOUS
      <4>2. c.row.t >= g.row.t
        BY <1>1, <2>2, <4>1
      <4>3. QED
        BY <1>5, <3>1, <4>2
    <3>4. QED
      BY <3>2, <3>3
  <2>3. IsFiniteSet(T \ {c}) /\ Cardinality(T \ {c}) = Cardinality(T) - 1
    BY <1>3, <1>5, FS_RemoveElement
  <2>4. Cardinality(G) <= Cardinality(T \ {c})
    BY <2>2, <2>3, FS_Subset
  <2>5. QED
    BY <1>3, <1>4, <2>3, <2>4
<1>6. QED
  BY <1>2, <1>5

\* mergeSelectResults before LIMIT: each row once, if the keys tell the rows apart.
LEMMA NqMergedAll ==
    ASSUME NEW q, NEW a, NEW b
    PROVE  /\ NqDeduped(q, a, b) \subseteq a \cup b /\ NqOnce(NqDeduped(q, a, b))
           /\ (\A c, d \in a \cup b : rowDedupKey(q, c) = rowDedupKey(q, d) => c.row = d.row) =>
                 \A c \in a \cup b : \E d \in NqDeduped(q, a, b) : d.row = c.row
<1> DEFINE keys == {rowDedupKey(q, c) : c \in a \cup b}
           A(k) == {c \in a : rowDedupKey(q, c) = k}
           B(k) == {c \in b : rowDedupKey(q, c) = k}
           one(k) == CHOOSE c \in (IF A(k) # {} THEN A(k) ELSE B(k)) : TRUE
           all == {one(k) : k \in keys}
<1>1. NqDeduped(q, a, b) = all
  BY DEF NqDeduped
<1>2. ASSUME NEW k \in keys
      PROVE  one(k) \in a \cup b /\ rowDedupKey(q, one(k)) = k
  <2>1. PICK c \in a \cup b : rowDedupKey(q, c) = k
    BY <1>2
  <2>2. (IF A(k) # {} THEN A(k) ELSE B(k)) # {}
    BY <2>1
  <2>3. one(k) \in (IF A(k) # {} THEN A(k) ELSE B(k))
    BY <2>2
  <2>4. QED
    BY <2>3
<1>3. \A c, d \in a \cup b : c.row = d.row => rowDedupKey(q, c) = rowDedupKey(q, d)
  BY DEF rowDedupKey
<1>4. \A c \in a \cup b : rowDedupKey(q, c) \in keys
  OBVIOUS
<1> HIDE DEF keys, one
<1>5. all \in SUBSET (a \cup b)
  BY <1>2
<1>6. NqOnce(all)
  <2>1. SUFFICES ASSUME NEW k \in keys, NEW l \in keys, one(k).row = one(l).row
                 PROVE  one(k) = one(l)
    BY DEF NqOnce
  <2>2. k = l
    BY <1>2, <1>3, <2>1
  <2>3. QED
    BY <2>2
<1>7. ASSUME \A c, d \in a \cup b : rowDedupKey(q, c) = rowDedupKey(q, d) => c.row = d.row,
             NEW c \in a \cup b
      PROVE  \E d \in all : d.row = c.row
  <2>1. rowDedupKey(q, c) \in keys
    BY <1>4
  <2>2. one(rowDedupKey(q, c)) \in all /\ one(rowDedupKey(q, c)).row = c.row
    BY <1>2, <1>7, <2>1
  <2>3. QED
    BY <2>2
<1> HIDE DEF all
<1>8. QED
  BY <1>1, <1>5, <1>6, <1>7

LEMMA NqMergedOnce ==
    ASSUME NEW q, NEW a, NEW b, NEW T,
           (T \in TopN(NqDeduped(q, a, b))) \/ T = NqDeduped(q, a, b)
    PROVE  T \subseteq a \cup b /\ NqOnce(T)
<1>1. NqDeduped(q, a, b) \subseteq a \cup b /\ NqOnce(NqDeduped(q, a, b))
  BY NqMergedAll
<1>2. T \subseteq NqDeduped(q, a, b)
  BY DEF TopN, AnyN
<1>3. QED
  BY <1>1, <1>2 DEF NqOnce

\* A merge has what its parts have, or has cut it off.
LEMMA NqMergeKeeps ==
    ASSUME NodeQueryAssumption, NEW q, NEW a, a \subseteq NqCopyT, NEW b, b \subseteq NqCopyT, NEW T,
           q.order \in {"topn", "stream"} =>
              (T \in TopN(NqDeduped(q, a, b))) /\ NqOnce(a) /\ NqOnce(b),
           q.order \notin {"topn", "stream"} => T = NqDeduped(q, a, b),
           \A c, d \in a \cup b : rowDedupKey(q, c) = rowDedupKey(q, d) => c.row = d.row,
           NEW r \in NqRows,
           NqHas(a, r) \/ NqHas(b, r) \/ NqCut(q, a, r) \/ NqCut(q, b, r)
    PROVE  NqHas(T, r) \/ NqCut(q, T, r)
<1> DEFINE all == NqDeduped(q, a, b)
           limit == q.order \in {"topn", "stream"}
<1>1. /\ limit => T \in TopN(all) /\ NqOnce(a) /\ NqOnce(b)
      /\ ~limit => T = all
      /\ \A c \in a \cup b : \E d \in all : d.row = c.row
  BY NqMergedAll
<1>2. all \subseteq NqCopyT
  BY NqMergedAll
<1> HIDE DEF all
<1>3. CASE NqHas(a, r) \/ NqHas(b, r)
  <2>1. PICK d \in all : d.row = r
    BY <1>1, <1>3 DEF NqHas
  <2>2. CASE d \in T
    BY <2>1, <2>2 DEF NqHas
  <2>3. CASE d \notin T
    <3>1. limit /\ T \in TopN(all)
      BY <1>1, <2>1, <2>3
    <3>2. T \in AnyN(all) /\ \A c \in T : c.row.t >= r.t
      BY <2>1, <2>3, <3>1 DEF TopN
    <3>3. Cardinality(T) >= NqLimit
      BY <1>2, <2>1, <2>3, <3>2, NqTopped
    <3>4. QED
      BY <3>1, <3>2, <3>3 DEF NqCut
  <2>4. QED
    BY <2>2, <2>3
<1>4. ASSUME NEW x \in {a, b}, NqCut(q, x, r)
      PROVE  NqCut(q, T, r)
  <2>1. limit /\ T \in TopN(all) /\ T \in AnyN(all)
    BY <1>1, <1>4 DEF NqCut, TopN
  <2>2. NqOnce(x) /\ x \subseteq NqCopyT /\ Cardinality(x) \in Nat
    BY <1>1, <1>4, <2>1, NqFinite
  <2> DEFINE f == [c \in x |-> CHOOSE d \in all : d.row = c.row]
             G == {f[c] : c \in x}
  <2>3. \A c \in x : f[c] \in all /\ f[c].row = c.row
    <3>1. SUFFICES ASSUME NEW c \in x PROVE f[c] \in all /\ f[c].row = c.row
      OBVIOUS
    <3>2. \E d \in all : d.row = c.row
      BY <1>1, <1>4
    <3>3. QED
      BY <3>2
  <2>4. DOMAIN f = x /\ f = [c \in x |-> f[c]]
    OBVIOUS
  <2> HIDE DEF f
  <2>5. G \in SUBSET all
    BY <2>3
  <2>6. f \in [x -> G]
    BY <2>4
  <2>7. f \in Injection(x, G)
    BY <2>2, <2>3, <2>6 DEF Injection, IsInjective, NqOnce
  <2>8. \A g \in G : \E c \in x : g.row = c.row
    BY <2>3
  <2> HIDE DEF G
  <2>9. IsFiniteSet(G) /\ Cardinality(G) \in Nat
    BY <1>2, <2>5, NqFinite
  <2>10. Cardinality(x) <= Cardinality(G)
    BY <2>7, <2>9, FS_Injection
  <2>11. Cardinality(G) >= NqLimit /\ NqLimit \in Nat
    BY <1>4, <2>2, <2>9, <2>10 DEF NqCut, NodeQueryAssumption
  <2>12. Cardinality(T) >= NqLimit
    BY <1>2, <2>1, <2>5, <2>11, NqTopped
  <2>13. CASE \A c \in x : c.row.t >= r.t
    <3>1. \A g \in G : g.row.t >= r.t
      BY <2>8, <2>13
    <3>2. r.t \in Nat
      BY DEF NodeQueryAssumption
    <3>3. \A c \in T : c.row.t >= r.t
      BY <1>2, <2>1, <2>5, <2>11, <3>1, <3>2, NqNewest
    <3>4. QED
      BY <1>4, <2>12, <3>3 DEF NqCut
  <2>14. QED
    BY <1>4, <2>12, <2>13 DEF NqCut
<1>5. QED
  BY <1>3, <1>4

\* A statement has the rows of its places, or has cut them off.
LEMMA NqStatement ==
    ASSUME NodeQueryAssumption, NEW q, NEW all, all \subseteq NqCopyT, NEW order, NEW S \in Limited(all, order),
           order \in {"topn", "stream"} => q.order \in {"topn", "stream"},
           order = "stream" => q.order = "stream" \/ (timeSlice(q) /\ q.strategy = "stream"),
           NEW r \in NqRows, NqHas(all, r)
    PROVE  S \subseteq all /\ (NqHas(S, r) \/ NqCut(q, S, r))
<1>1. PICK c \in all : c.row = r
  BY DEF NqHas
<1>2. CASE order = "topn"
  <2>1. S \in AnyN(all) /\ \A e \in S, d \in all \ S : e.row.t >= d.row.t
    BY <1>2 DEF Limited, TopN
  <2>2. S \subseteq all /\ (c \notin S => Cardinality(S) >= NqLimit)
    BY <2>1, NqTopped
  <2>3. QED
    BY <1>1, <1>2, <2>1, <2>2 DEF NqHas, NqCut
<1>3. CASE order = "stream"
  <2>1. S \in AnyN(all)
    BY <1>3 DEF Limited
  <2>2. S \subseteq all /\ (c \notin S => Cardinality(S) >= NqLimit)
    BY <2>1, NqTopped
  <2>3. QED
    BY <1>1, <1>3, <2>2 DEF NqHas, NqCut
<1>4. CASE order \notin {"topn", "stream"}
  BY <1>1, <1>4 DEF Limited, NqHas
<1>5. QED
  BY <1>2, <1>3, <1>4

LEMMA NqLimitedSub ==
    ASSUME NEW all, NEW order, NEW S \in Limited(all, order)
    PROVE  S \subseteq all
<1>1. CASE order = "topn"
  BY <1>1 DEF Limited, TopN, AnyN
<1>2. CASE order = "stream"
  BY <1>2 DEF Limited, AnyN
<1>3. CASE order \notin {"topn", "stream"}
  BY <1>3 DEF Limited
<1>4. QED
  BY <1>1, <1>2, <1>3

\* A row in two places of a statement is one it sees twice.
LEMMA NqDoubled ==
    ASSUME NEW places \in SUBSET NqPlaces, NEW c \in [row : NqRows, place : places],
           NEW d \in [row : NqRows, place : places], c.place \in nqAt[c.row], d.place \in nqAt[d.row],
           c.row = d.row, c # d
    PROVE  c.row \in Doubled(places)
<1>1. c.place \in nqAt[c.row] \cap places /\ d.place \in nqAt[c.row] \cap places
  OBVIOUS
<1>2. c.place # d.place
  OBVIOUS
<1> DEFINE X == nqAt[c.row] \cap places
<1>3. IsFiniteSet(X)
  <2>1. IsFiniteSet(NqPlaces)
    <3>1. NqPlaces = {"mem"} \cup {"hot"} \cup {"cold"}
      BY DEF NqPlaces
    <3>2. QED
      BY <3>1, FS_Singleton, FS_Union
  <2>2. QED
    BY <2>1, FS_Subset
<1>4. Cardinality(X) > 1
  <2>1. IsFiniteSet({c.place}) /\ Cardinality({c.place} \cup {d.place}) = 2
    <3>1. IsFiniteSet({c.place}) /\ Cardinality({c.place}) = 1
      BY FS_Singleton
    <3>2. d.place \notin {c.place}
      BY <1>2
    <3>3. Cardinality({c.place} \cup {d.place}) = Cardinality({c.place}) + 1
      BY <3>1, <3>2, FS_AddElement
    <3>4. QED
      BY <3>1, <3>3
  <2>2. Cardinality({c.place} \cup {d.place}) <= Cardinality(X) /\ Cardinality(X) \in Nat
    BY <1>1, <1>3, FS_Subset, FS_CardinalityType
  <2>3. QED
    BY <2>1, <2>2
<1>5. QED
  BY <1>1, <1>4 DEF Doubled

LEMMA NqApart ==
    ASSUME NodeQueryAssumption, NEW X, X \subseteq NqCopyT, nq.uuid \in BOOLEAN,
           \A c \in X : nqAt[c.row] # {},
           ~(~nq.uuid /\ \E a, b \in {c \in NqRows : nqAt[c] # {}} : a # b /\ a.t = b.t)
    PROVE  \A c, d \in X : rowDedupKey(nq, c) = rowDedupKey(nq, d) => c.row = d.row
<1>1. SUFFICES ASSUME NEW c \in X, NEW d \in X, rowDedupKey(nq, c) = rowDedupKey(nq, d)
               PROVE  c.row = d.row
  OBVIOUS
<1>2. c.row \in NqRows /\ d.row \in NqRows /\ nqAt[c.row] # {} /\ nqAt[d.row] # {}
  BY DEF NqCopyT
<1>3. CASE nq.uuid
  BY <1>1, <1>2, <1>3 DEF rowDedupKey, NodeQueryAssumption
<1>4. CASE ~nq.uuid
  BY <1>1, <1>2, <1>4 DEF rowDedupKey
<1>5. QED
  BY <1>3, <1>4

LEMMA NqCopies ==
    ASSUME NodeQueryAssumption, NqTypeInv, NEW places \in SUBSET NqPlaces, NEW all,
           all = NqAll(places)
    PROVE  /\ all \subseteq NqCopyT
           /\ \A c \in all : nqAt[c.row] # {} /\ c.place \in places /\ c = [row |-> c.row, place |-> c.place]
           /\ \A c, d \in all : c.row = d.row /\ c # d => c.row \in Doubled(places)
           /\ \A r \in NqRows : NqIn(r) /\ nqAt[r] \cap places # {} =>
                 NqHas(all, r)
<1>1. \A c \in all : c \in [row : NqRows, place : places] /\ c.place \in nqAt[c.row]
  BY DEF NqAll, Copies
<1>2. ASSUME NEW r \in NqRows, NqIn(r), nqAt[r] \cap places # {}
      PROVE  NqHas(all, r)
  <2>1. PICK p \in places : p \in nqAt[r]
    BY <1>2
  <2>2. [row |-> r, place |-> p] \in all
    BY <1>2, <2>1 DEF NqAll, Copies, NqIn
  <2>3. QED
    BY <2>2 DEF NqHas
<1>3. \A c, d \in all : c.row = d.row /\ c # d => c.row \in Doubled(places)
  BY <1>1, NqDoubled
<1>4. all \subseteq NqCopyT /\ \A c \in all : c.place \in places /\ c.row \in NqRows
  BY <1>1 DEF NqCopyT
<1>7. \A c \in all : c = [row |-> c.row, place |-> c.place]
  BY <1>1
<1>5. \A c \in all : nqAt[c.row] # {}
  BY <1>1
<1>6. QED
  BY <1>2, <1>3, <1>4, <1>5, <1>7

\* The query as it runs.
LEMMA NqRunning ==
    ASSUME NqInv, nq.at # "idle"
    PROVE  nq \in NqAskedT /\ NqTypeInv /\ NqPlanInv /\ NqRowsInv /\ NqChunkInv /\ NqAnswerInv
BY DEF NqInv, NqTypeInv, NqIdle

LEMMA NqMoveStep ==
    ASSUME NodeQueryAssumption, NqInv, NEW r \in NqRows, NEW places, NEW p, NqMove(r, places, p), p \in places,
           places \in {{"mem"}, {"mem", "hot"}, {"hot"}, {"hot", "cold"}, {"cold"}}, places \subseteq nqAt[r] \cup {p}
    PROVE  NqInv'
<1>1. /\ nq.at \in {"lake", "mem", "tiered"} /\ nqAt' = [nqAt EXCEPT ![r] = places]
      /\ UNCHANGED <<nq, nqHeld, nqTwice>>
      /\ nqPassed' = IF p \in nq.read THEN nqPassed \cup {r} ELSE nqPassed
  BY DEF NqMove, Arrive
<1>2. nq \in NqAskedT /\ NqTypeInv /\ NqPlanInv /\ NqRowsInv /\ NqChunkInv /\ NqAnswerInv
  BY <1>1, NqRunning
<1>3. NqTypeInv'
  BY <1>1, <1>2 DEF NqTypeInv
<1>4. /\ nqAt'[r] = places /\ \A c \in NqRows \ {r} : nqAt'[c] = nqAt[c]
      /\ \A c \in NqRows : nqAt[c] # {} => nqAt'[c] # {}
      /\ nqPassed \subseteq nqPassed' /\ (p \in nq.read => r \in nqPassed')
      /\ \A c \in nq.rows : c.row \in NqRows
  BY <1>1, <1>2 DEF NqTypeInv, NqAskedT, NqCopyT
<1>5. NqPlanInv'
  BY <1>1, <1>2 DEF NqPlanInv, timeSlice, mergeSeparately
<1>6. NqRowsInv'
  BY <1>1, <1>2, <1>4 DEF NqRowsInv, mergeSeparately
<1>7. NqChunkInv'
  <2>1. SUFFICES ASSUME nq.at = "lake", nq.read # {}, NEW s \in nqHeld,
                        NqIn(s), s.t >= nq.hi
                 PROVE  s.t = NqWindow[2] \/ NqHas(nq.rows, s) \/ s \in nqPassed' \/ "hot" \notin nqAt'[s]
    BY <1>1, <1>2 DEF NqChunkInv, NqHas
  <2>2. nq.read = {"hot"}
    BY <1>2, <2>1 DEF NqPlanInv
  <2>3. s.t = NqWindow[2] \/ NqHas(nq.rows, s) \/ s \in nqPassed \/ "hot" \notin nqAt[s]
    BY <1>2, <2>1 DEF NqChunkInv
  <2>4. s \in NqRows
    BY <1>2 DEF NqTypeInv
  <2>5. "hot" \notin nqAt[s] => s \in nqPassed' \/ "hot" \notin nqAt'[s]
    BY <1>4, <2>2, <2>4
  <2>6. QED
    BY <1>4, <2>3, <2>5
<1>8. NqAnswerInv'
  <2>1. SUFFICES ASSUME nq.at \in {"mem", "tiered"}, NEW s \in nqHeld, NqIn(s)
                 PROVE  NqHas(nq.rows, s) \/ Excused(s)' \/ NqCut(nq, nq.rows, s)
    BY <1>1, <1>2 DEF NqAnswerInv, NqHas, NqCut, timeSlice, mergeSeparately
  <2>2. s \in NqRows /\ (NqHas(nq.rows, s) \/ Excused(s) \/ NqCut(nq, nq.rows, s))
    BY <1>2, <2>1 DEF NqAnswerInv, NqTypeInv
  <2>3. "cold" \notin nq.read
    BY <1>2, <2>1 DEF NqPlanInv
  <2>4. nqAt[s] \cap nq.read = {} => s \in nqPassed' \/ nqAt'[s] \cap nq.read = {}
    BY <1>4, <2>2
  <2>5. Excused(s) => Excused(s)'
    BY <1>1, <1>4, <2>3, <2>4 DEF Excused, timeSlice, mergeSeparately
  <2>6. QED
    BY <2>2, <2>5
<1>9. QED
  BY <1>3, <1>5, <1>6, <1>7, <1>8 DEF NqInv

LEMMA NqMoves ==
    ASSUME NodeQueryAssumption, NqInv, NEW r \in NqRows,
           NqReceive(r) \/ NqFlushCopy(r) \/ NqTruncate(r) \/ NqTierCopy(r) \/ NqTierDelete(r)
    PROVE  NqInv'
<1>1. CASE NqReceive(r)
  BY <1>1, NqMoveStep DEF NqReceive
<1>2. CASE NqFlushCopy(r)
  BY <1>2, NqMoveStep DEF NqFlushCopy
<1>3. CASE NqTruncate(r)
  BY <1>3, NqMoveStep DEF NqTruncate
<1>4. CASE NqTierCopy(r)
  BY <1>4, NqMoveStep DEF NqTierCopy
<1>5. CASE NqTierDelete(r)
  BY <1>5, NqMoveStep DEF NqTierDelete
<1>6. QED
  BY <1>1, <1>2, <1>3, <1>4, <1>5

NqFacts(q) ==
    /\ q \in NqAskedT /\ q.order = nq.order /\ q.strategy = nq.strategy /\ q.uuid = nq.uuid
    /\ q.setup = nq.setup /\ q.via = nq.via /\ q.long = nq.long

\* What a step of the query leaves alone.
LEMMA NqAsked ==
    ASSUME NEW q, NqFacts(q)
    PROVE  /\ mergeSeparately(q) <=> mergeSeparately(nq)
           /\ timeSlice(q) <=> timeSlice(nq)
           /\ \A rows, r : NqCut(q, rows, r) <=> NqCut(nq, rows, r)
BY DEF NqFacts, mergeSeparately, timeSlice, NqCut

LEMMA NqBegins ==
    ASSUME NodeQueryAssumption, NqInv, NEW setup \in NqSetups, NEW via \in {"http", "flightsql", "airport"},
           NEW order \in {"topn", "stream", "asc", "agg"}, NEW uuid \in BOOLEAN, NEW long \in BOOLEAN,
           NEW strategy \in {"full", "stream", "chunked"}, NqBegin(setup, via, order, uuid, long, strategy)
    PROVE  NqInv'
<1> DEFINE q == [at |-> "lake", setup |-> setup, via |-> via, order |-> order, uuid |-> uuid,
                 long |-> long, strategy |-> strategy, hi |-> NqWindow[2], read |-> {}, rows |-> {}]
<1>1. nq' = q /\ nqHeld' \subseteq NqRows /\ UNCHANGED nqAt /\ (~setup.shared => ~setup.buffer /\ ~setup.tiered)
  BY DEF NqBegin
<1>2. q \in NqAskedT
  BY DEF NqAskedT, NodeQueryAssumption
<1>3. q.at = "lake" /\ q.read = {} /\ q.rows = {} /\ q.hi = NqWindow[2] /\ q.setup = setup
  OBVIOUS
<1> HIDE DEF q
<1>4. NqTypeInv'
  BY <1>1, <1>2 DEF NqInv, NqTypeInv
<1>5. NqPlanInv' /\ NqRowsInv' /\ NqChunkInv' /\ NqAnswerInv'
  BY <1>1, <1>3 DEF NqPlanInv, NqRowsInv, NqChunkInv, NqAnswerInv
<1>6. QED
  BY <1>4, <1>5 DEF NqInv

LEMMA NqFails ==
    ASSUME NqInv, NEW at, runSelectQueryFails(at), nq.at \in {"lake", "mem", "tiered"},
           at = "failed" \/ (at = "done" /\ nq.at = "tiered"), UNCHANGED <<nqAt, nqMoves, nqHeld, nqPassed>>
    PROVE  NqInv'
<1>1. nq \in NqAskedT /\ NqTypeInv /\ NqPlanInv /\ NqRowsInv /\ NqChunkInv /\ NqAnswerInv
  BY NqRunning
<1>2. nq' = [nq EXCEPT !.at = at] /\ UNCHANGED <<nqTwice, nqAt, nqMoves, nqHeld, nqPassed>>
  BY DEF runSelectQueryFails
<1>3. NqFacts(nq') /\ nq'.at = at /\ nq'.rows = nq.rows /\ nq'.read = nq.read
  BY <1>1, <1>2 DEF NqAskedT, NqFacts
<1>4. /\ mergeSeparately(nq') <=> mergeSeparately(nq)
      /\ timeSlice(nq') <=> timeSlice(nq)
      /\ \A rows, r : NqCut(nq', rows, r) <=> NqCut(nq, rows, r)
  BY <1>3, NqAsked
<1>5. NqTypeInv'
  BY <1>1, <1>2, <1>3 DEF NqTypeInv, NqFacts
<1>6. NqPlanInv' /\ NqRowsInv' /\ NqChunkInv'
  BY <1>1, <1>2, <1>3, <1>4 DEF NqPlanInv, NqRowsInv, NqChunkInv, NqFacts
<1>7. NqAnswerInv'
  <2>1. \A r \in nqHeld : Excused(r)' <=> Excused(r)
    BY <1>2, <1>3, <1>4 DEF Excused, NqFacts
  <2>2. QED
    BY <1>1, <1>2, <1>3, <1>4, <2>1 DEF NqAnswerInv
<1>8. QED
  BY <1>5, <1>6, <1>7 DEF NqInv

\* A statement that has been answered: what is left to show of the rows.
LEMMA NqAnswered ==
    ASSUME NqInv, nq.at \in {"lake", "mem", "tiered"}, NEW at \in {"mem", "tiered", "done"},
           NEW rows \in SUBSET NqCopyT, NEW read \in SUBSET NqPlaces, NqFacts(nq'),
           nq'.at = at, nq'.rows = rows, nq'.read = read, UNCHANGED <<nqAt, nqHeld, nqPassed>>,
           at = "mem" => read = {"hot"} /\ mergeSeparately(nq),
           at = "tiered" => "hot" \in read /\ "cold" \notin read /\ nq.setup.tiered,
           \A c \in rows : nqAt[c.row] # {},
           \A c, d \in rows : c.row = d.row /\ c # d =>
              c.row \in nqTwice' /\ ~(mergeSeparately(nq) /\ ~nq.setup.tiered),
           \A r \in nqHeld :
              /\ NqIn(r) /\ r \notin nqPassed
              /\ nqAt[r] \cap read # {} /\ ~(nq.order = "agg" /\ "cold" \in read /\ nqAt[r] \subseteq {"mem"})
              /\ ~(~nq.uuid /\ \E a, b \in {c \in NqRows : nqAt[c] # {}} : a # b /\ a.t = b.t)
              /\ ~(nq.order \in {"topn", "stream"} /\ nqTwice' # {})
              /\ ~(timeSlice(nq) /\ nq.strategy = "chunked" /\ r.t = NqWindow[2])
              => NqHas(rows, r) \/ NqCut(nq, rows, r)
    PROVE  NqInv'
<1>1. NqTypeInv /\ NqPlanInv
  BY NqRunning
<1>2. /\ mergeSeparately(nq') <=> mergeSeparately(nq)
      /\ timeSlice(nq') <=> timeSlice(nq)
      /\ \A R, r : NqCut(nq', R, r) <=> NqCut(nq, R, r)
  BY NqAsked
<1>3. NqTypeInv'
  BY <1>1 DEF NqTypeInv, NqFacts
<1>4. NqPlanInv' /\ NqRowsInv' /\ NqChunkInv'
  BY <1>1, <1>2 DEF NqPlanInv, NqRowsInv, NqChunkInv, NqFacts
<1>5. NqAnswerInv'
  <2>1. SUFFICES ASSUME NEW r \in nqHeld, NqIn(r), ~Excused(r)'
                 PROVE  NqHas(rows, r) \/ NqCut(nq', rows, r)
    BY DEF NqAnswerInv
  <2>2. NqHas(rows, r) \/ NqCut(nq, rows, r)
    BY <1>2, <2>1 DEF Excused, NqFacts
  <2>3. QED
    BY <1>2, <2>2
<1>6. QED
  BY <1>3, <1>4, <1>5 DEF NqInv

LEMMA NqLake ==
    ASSUME NodeQueryAssumption, NqInv, LakeStatement
    PROVE  NqInv'
<1>1. nq \in NqAskedT /\ NqTypeInv /\ NqPlanInv /\ NqRowsInv /\ NqChunkInv /\ NqAnswerInv /\ nq.at = "lake"
  BY NqRunning DEF LakeStatement
<1>2. CASE runSelectQueryFails("failed")
  BY <1>1, <1>2, NqFails DEF LakeStatement
<1> DEFINE P == FirstPlaces(nq)
           order == IF timeSlice(nq) /\ nq.strategy = "stream" THEN "stream" ELSE nq.order
           all == NqAll(P)
<1>3. ASSUME NEW S \in Limited(all, order),
             nq' = [nq EXCEPT !.at = AfterLake(nq), !.rows = S, !.read = P],
             nqTwice' = nqTwice \cup Doubled(P)
      PROVE  NqInv'
  <2>1. UNCHANGED <<nqAt, nqHeld, nqPassed>>
    BY DEF LakeStatement
  <2>2. P \in SUBSET NqPlaces /\ (mergeSeparately(nq) => P = {"hot"})
        /\ (nq.setup.tiered => "hot" \in P /\ "cold" \notin P)
    BY <1>1 DEF FirstPlaces, mergeSeparately, NqPlaces, NqPlanInv
  <2>0. all = NqAll(P)
    OBVIOUS
  <2> HIDE DEF P, all
  <2>3. /\ all \subseteq NqCopyT
        /\ \A c \in all : /\ nqAt[c.row] # {} /\ c.place \in P /\ c = [row |-> c.row, place |-> c.place]
        /\ \A c, d \in all : c.row = d.row /\ c # d => c.row \in Doubled(P)
        /\ \A r \in NqRows : NqIn(r) /\ nqAt[r] \cap P # {} => NqHas(all, r)
    BY <1>1, <2>0, <2>2, NqCopies
  <2>4. AfterLake(nq) \in {"mem", "tiered", "done"}
    BY DEF AfterLake
  <2>5. S \subseteq all
    BY <1>3, NqLimitedSub
  <2>6. NqFacts(nq') /\ nq'.at = AfterLake(nq) /\ nq'.rows = S /\ nq'.read = P
    BY <1>1, <1>3, <2>2, <2>3, <2>4, <2>5 DEF NqAskedT, NqFacts
  <2>7. ASSUME NEW c \in S, NEW d \in S, c.row = d.row, c # d
        PROVE  c.row \in nqTwice' /\ ~(mergeSeparately(nq) /\ ~nq.setup.tiered)
    <3>1. c.row \in nqTwice'
      BY <1>3, <2>3, <2>5, <2>7
    <3>2. c.place # d.place
      BY <2>3, <2>5, <2>7
    <3>3. QED
      BY <2>2, <2>3, <2>5, <3>1, <3>2
  <2>8. ASSUME NEW r \in nqHeld, NqIn(r), nqAt[r] \cap P # {}
        PROVE  NqHas(S, r) \/ NqCut(nq, S, r)
    <3>1. r \in NqRows /\ NqHas(all, r)
      BY <1>1, <2>3, <2>8 DEF NqTypeInv
    <3>2. /\ order \in {"topn", "stream"} => nq.order \in {"topn", "stream"}
          /\ order = "stream" => nq.order = "stream" \/ (timeSlice(nq) /\ nq.strategy = "stream")
      BY DEF timeSlice
    <3> HIDE DEF all, order
    <3>3. QED
      BY <1>3, <2>3, <3>1, <3>2, NqStatement
  <2>9. \A c \in S : nqAt[c.row] # {}
    BY <2>3, <2>5
  <2>10. S \in SUBSET NqCopyT
    BY <2>3, <2>5
  <2>11. /\ AfterLake(nq) = "mem" => P = {"hot"} /\ mergeSeparately(nq)
         /\ AfterLake(nq) = "tiered" => "hot" \in P /\ "cold" \notin P /\ nq.setup.tiered
    BY <2>2 DEF AfterLake
  <2> HIDE DEF all, order
  <2>12. QED
    BY <1>1, <2>1, <2>2, <2>4, <2>6, <2>7, <2>8, <2>9, <2>10, <2>11, NqAnswered
<1>4. QED
  BY <1>2, <1>3 DEF LakeStatement, NqAll

LEMMA NqMem ==
    ASSUME NodeQueryAssumption, NqInv, MemStatement
    PROVE  NqInv'
<1>1. nq \in NqAskedT /\ NqTypeInv /\ NqPlanInv /\ NqRowsInv /\ NqChunkInv /\ NqAnswerInv /\ nq.at = "mem"
  BY NqRunning DEF MemStatement
<1>2. CASE runSelectQueryFails("failed")
  BY <1>1, <1>2, NqFails DEF MemStatement
<1> DEFINE all == NqAll({"mem"})
<1>3. ASSUME NEW S \in Limited(all, nq.order), NEW T \in TopN(NqDeduped(nq, nq.rows, S)),
             nq' = [nq EXCEPT !.at = AfterMem(nq), !.rows = T, !.read = @ \cup {"mem"}], UNCHANGED nqTwice
      PROVE  NqInv'
  <2>1. UNCHANGED <<nqAt, nqHeld, nqPassed>>
    BY DEF MemStatement
  <2>2. nq.read = {"hot"} /\ mergeSeparately(nq) /\ nq.order \in {"topn", "stream"}
    BY <1>1 DEF NqPlanInv, mergeSeparately
  <2>0. all = NqAll({"mem"}) /\ {"mem"} \in SUBSET NqPlaces
    BY DEF NqPlaces
  <2> HIDE DEF all
  <2>3. /\ all \subseteq NqCopyT
        /\ \A c \in all : /\ nqAt[c.row] # {} /\ c.place \in {"mem"} /\ c = [row |-> c.row, place |-> c.place]
        /\ \A r \in NqRows : NqIn(r) /\ nqAt[r] \cap {"mem"} # {} => NqHas(all, r)
    BY <1>1, <2>0, NqCopies
  <2>4. AfterMem(nq) \in {"mem", "tiered", "done"} /\ AfterMem(nq) # "mem" /\ (AfterMem(nq) = "tiered" => nq.setup.tiered)
    BY DEF AfterMem
  <2>5. S \subseteq all /\ S \subseteq NqCopyT /\ nq.rows \subseteq NqCopyT
    BY <1>1, <1>3, <2>3, NqLimitedSub DEF NqAskedT
  <2>6. T \subseteq nq.rows \cup S /\ NqOnce(T)
    BY <1>3, NqMergedOnce
  <2>7. T \in SUBSET NqCopyT /\ {"hot", "mem"} \in SUBSET NqPlaces
    BY <2>5, <2>6 DEF NqPlaces
  <2>8. NqFacts(nq') /\ nq'.at = AfterMem(nq) /\ nq'.rows = T /\ nq'.read = {"hot", "mem"}
    BY <1>1, <1>3, <2>2, <2>4, <2>7 DEF NqAskedT, NqFacts
  <2>9. \A c \in nq.rows \cup S : nqAt[c.row] # {}
    BY <1>1, <2>3, <2>5 DEF NqRowsInv
  <2>10. ASSUME NEW r \in nqHeld, NqIn(r), r \notin nqPassed,
                nqAt[r] \cap {"hot", "mem"} # {}, nqTwice = {},
                ~(~nq.uuid /\ \E a, b \in {c \in NqRows : nqAt[c] # {}} : a # b /\ a.t = b.t),
                ~(timeSlice(nq) /\ nq.strategy = "chunked" /\ r.t = NqWindow[2])
         PROVE  NqHas(T, r) \/ NqCut(nq, T, r)
    <3>1. r \in NqRows /\ (NqHas(nq.rows, r) \/ Excused(r) \/ NqCut(nq, nq.rows, r))
      BY <1>1, <2>10 DEF NqTypeInv, NqAnswerInv
    <3>2. Excused(r) => nqAt[r] \cap {"mem"} # {}
      BY <2>2, <2>10 DEF Excused
    <3>3. Excused(r) => NqHas(S, r) \/ NqCut(nq, S, r)
      <4>1. SUFFICES ASSUME Excused(r) PROVE NqHas(S, r) \/ NqCut(nq, S, r)
        OBVIOUS
      <4>2. NqHas(all, r)
        BY <2>3, <2>10, <3>1, <3>2, <4>1
      <4>3. QED
        BY <1>3, <2>3, <3>1, <4>2, NqStatement
    <3>4. NqOnce(nq.rows) /\ NqOnce(S)
      BY <1>1, <2>3, <2>5, <2>10 DEF NqRowsInv, NqOnce
    <3>5. \A c, d \in nq.rows \cup S : rowDedupKey(nq, c) = rowDedupKey(nq, d) => c.row = d.row
      <4>1. nq.rows \cup S \subseteq NqCopyT /\ nq.uuid \in BOOLEAN
        BY <1>1, <2>5 DEF NqAskedT
      <4>2. QED
        BY <2>9, <2>10, <4>1, NqApart
    <3>6. QED
      BY <1>3, <2>2, <2>5, <3>1, <3>3, <3>4, <3>5, NqMergeKeeps
  <2>11. \A c, d \in T : c.row = d.row => c = d
    BY <2>6 DEF NqOnce
  <2>12. \A r \in nqHeld :
            /\ NqIn(r) /\ r \notin nqPassed
            /\ nqAt[r] \cap {"hot", "mem"} # {}
            /\ ~(~nq.uuid /\ \E a, b \in {c \in NqRows : nqAt[c] # {}} : a # b /\ a.t = b.t)
            /\ ~(nq.order \in {"topn", "stream"} /\ nqTwice' # {})
            /\ ~(timeSlice(nq) /\ nq.strategy = "chunked" /\ r.t = NqWindow[2])
            => NqHas(T, r) \/ NqCut(nq, T, r)
    BY <1>3, <2>2, <2>10
  <2>13. \A c \in T : nqAt[c.row] # {}
    BY <2>6, <2>9
  <2>14. AfterMem(nq) \in {"tiered", "done"} /\ "hot" \in {"hot", "mem"} /\ "cold" \notin {"hot", "mem"}
    BY <2>4
  <2> DEFINE read == {"hot", "mem"}
  <2>15. "cold" \notin read /\ "hot" \in read /\ read \in SUBSET NqPlaces /\ nq'.read = read
    BY <2>7, <2>8
  <2> HIDE DEF read
  <2>16. \A r \in nqHeld : nqAt[r] \cap read = nqAt[r] \cap {"hot", "mem"}
    BY DEF read
  <2>17. \A r \in nqHeld :
            /\ NqIn(r) /\ r \notin nqPassed
            /\ nqAt[r] \cap read # {} /\ ~(nq.order = "agg" /\ "cold" \in read /\ nqAt[r] \subseteq {"mem"})
            /\ ~(~nq.uuid /\ \E a, b \in {c \in NqRows : nqAt[c] # {}} : a # b /\ a.t = b.t)
            /\ ~(nq.order \in {"topn", "stream"} /\ nqTwice' # {})
            /\ ~(timeSlice(nq) /\ nq.strategy = "chunked" /\ r.t = NqWindow[2])
            => NqHas(T, r) \/ NqCut(nq, T, r)
    BY <2>12, <2>16
  <2>18. /\ AfterMem(nq) \in {"mem", "tiered", "done"}
         /\ AfterMem(nq) = "mem" => read = {"hot"} /\ mergeSeparately(nq)
         /\ AfterMem(nq) = "tiered" => "hot" \in read /\ "cold" \notin read /\ nq.setup.tiered
    BY <2>4, <2>15
  <2>19. \A c, d \in T : c.row = d.row /\ c # d =>
            c.row \in nqTwice' /\ ~(mergeSeparately(nq) /\ ~nq.setup.tiered)
    BY <2>11
  <2>20. nq.at \in {"lake", "mem", "tiered"} /\ nq'.at = AfterMem(nq) /\ nq'.rows = T /\ NqFacts(nq')
    BY <1>1, <2>8
  <2>21. QED
    BY <2>1, <2>7, <2>13, <2>15, <2>17, <2>18, <2>19, <2>20, NqAnswered
<1>4. \A S : Merged(nq, nq.rows, S, TRUE) = TopN(NqDeduped(nq, nq.rows, S))
  BY DEF Merged, NqDeduped
<1>5. QED
  BY <1>2, <1>3, <1>4 DEF MemStatement, NqAll

LEMMA NqTiered ==
    ASSUME NodeQueryAssumption, NqInv, TieredStatement
    PROVE  NqInv'
<1>1. nq \in NqAskedT /\ NqTypeInv /\ NqPlanInv /\ NqRowsInv /\ NqChunkInv /\ NqAnswerInv /\ nq.at = "tiered"
  BY NqRunning DEF TieredStatement
<1>2. CASE runSelectQueryFails("done")
  BY <1>1, <1>2, NqFails DEF TieredStatement
<1> DEFINE all == NqAll({"hot", "cold"})
<1>3. ASSUME NEW S \in Limited(all, nq.order),
             NEW T \in IF nq.order = "agg" \/ nq.rows = {} THEN {S}
                       ELSE IF nq.order \in {"topn", "stream"} THEN TopN(NqDeduped(nq, nq.rows, S))
                       ELSE {NqDeduped(nq, nq.rows, S)},
             nq' = [nq EXCEPT !.at = "done", !.rows = T, !.read = @ \cup {"hot", "cold"}],
             nqTwice' = nqTwice \cup Doubled({"hot", "cold"})
      PROVE  NqInv'
  <2>1. UNCHANGED <<nqAt, nqHeld, nqPassed>>
    BY DEF TieredStatement
  <2>2. "hot" \in nq.read /\ "cold" \notin nq.read /\ nq.setup.tiered
    BY <1>1 DEF NqPlanInv
  <2>0. all = NqAll({"hot", "cold"}) /\ {"hot", "cold"} \in SUBSET NqPlaces
    BY DEF NqPlaces
  <2> HIDE DEF all
  <2>3. /\ all \subseteq NqCopyT
        /\ \A c \in all : nqAt[c.row] # {}
        /\ \A r \in NqRows : NqIn(r) /\ nqAt[r] \cap {"hot", "cold"} # {} =>
              NqHas(all, r)
        /\ \A c, d \in all : c.row = d.row /\ c # d => c.row \in Doubled({"hot", "cold"})
    BY <1>1, <2>0, NqCopies
  <2>4. \A c, d \in all : c.row = d.row /\ c # d => c.row \in Doubled({"hot", "cold"})
    BY <2>3
  <2>5. S \subseteq all /\ S \subseteq NqCopyT /\ nq.rows \subseteq NqCopyT
    BY <1>1, <1>3, <2>3, NqLimitedSub DEF NqAskedT
  <2>6. T \subseteq nq.rows \cup S /\ (T = S \/ NqOnce(T))
    <3>1. T = S \/ T \in TopN(NqDeduped(nq, nq.rows, S)) \/ T = NqDeduped(nq, nq.rows, S)
      BY <1>3
    <3>2. CASE T = S
      BY <3>2
    <3>3. CASE T \in TopN(NqDeduped(nq, nq.rows, S)) \/ T = NqDeduped(nq, nq.rows, S)
      <4>1. T \subseteq nq.rows \cup S /\ NqOnce(T)
        BY <3>3, NqMergedOnce
      <4>2. QED
        BY <4>1
    <3>4. QED
      BY <3>1, <3>2, <3>3
  <2>7. T \in SUBSET NqCopyT /\ nq.read \cup {"hot", "cold"} \in SUBSET NqPlaces
    BY <1>1, <2>5, <2>6 DEF NqPlaces, NqAskedT
  <2>8. NqFacts(nq') /\ nq'.at = "done" /\ nq'.rows = T /\ nq'.read = nq.read \cup {"hot", "cold"}
    BY <1>1, <1>3, <2>7 DEF NqAskedT, NqFacts
  <2>9. \A c \in nq.rows \cup S : nqAt[c.row] # {}
    BY <1>1, <2>3, <2>5 DEF NqRowsInv
  <2>10. ASSUME NEW r \in nqHeld, NqIn(r), r \notin nqPassed,
                nqAt[r] \cap (nq.read \cup {"hot", "cold"}) # {},
                ~(nq.order = "agg" /\ nqAt[r] \subseteq {"mem"}),
                ~(nq.order \in {"topn", "stream"} /\ nqTwice' # {}),
                ~(~nq.uuid /\ \E a, b \in {c \in NqRows : nqAt[c] # {}} : a # b /\ a.t = b.t),
                ~(timeSlice(nq) /\ nq.strategy = "chunked" /\ r.t = NqWindow[2])
         PROVE  NqHas(T, r) \/ NqCut(nq, T, r)
    <3>1. r \in NqRows /\ (NqHas(nq.rows, r) \/ Excused(r) \/ NqCut(nq, nq.rows, r))
      BY <1>1, <2>10 DEF NqTypeInv, NqAnswerInv
    <3>2. nqAt[r] \cap {"hot", "cold"} # {} => NqHas(S, r) \/ NqCut(nq, S, r)
      <4>1. SUFFICES ASSUME nqAt[r] \cap {"hot", "cold"} # {} PROVE NqHas(S, r) \/ NqCut(nq, S, r)
        OBVIOUS
      <4>2. NqHas(all, r)
        BY <2>3, <2>10, <3>1, <4>1
      <4>3. QED
        BY <1>3, <2>3, <3>1, <4>2, NqStatement
    <3>3. Excused(r) => nqAt[r] \cap {"hot", "cold"} # {}
      <4>1. nqTwice \subseteq nqTwice'
        BY <1>3
      <4>2. ASSUME Excused(r) PROVE nqAt[r] \cap nq.read = {}
        BY <2>2, <2>10, <4>1, <4>2 DEF Excused
      <4>3. QED
        BY <2>10, <4>2
    <3>4. CASE nq.order = "agg"
      <4>1. nqAt[r] \cap {"hot", "cold"} # {}
        <5>1. nqAt[r] \subseteq NqPlaces
          BY <1>1, <3>1 DEF NqTypeInv, NqPlaces
        <5>2. QED
          BY <2>10, <3>4, <5>1 DEF NqPlaces
      <4>2. QED
        BY <1>3, <3>2, <3>4, <4>1
    <3>5. CASE nq.order # "agg" /\ nq.rows = {}
      <4>1. ~NqHas(nq.rows, r)
        BY <3>5 DEF NqHas
      <4>2. ~NqCut(nq, nq.rows, r)
        BY <3>5, FS_EmptySet DEF NqCut, NodeQueryAssumption
      <4>3. T = S
        BY <1>3, <3>5
      <4>4. QED
        BY <3>1, <3>2, <3>3, <4>1, <4>2, <4>3
    <3>6. CASE nq.order # "agg" /\ nq.rows # {}
      <4>1. /\ nq.order \in {"topn", "stream"} => T \in TopN(NqDeduped(nq, nq.rows, S))
            /\ nq.order \notin {"topn", "stream"} => T = NqDeduped(nq, nq.rows, S)
        BY <1>3, <3>6
      <4>2. nq.order \in {"topn", "stream"} => NqOnce(nq.rows) /\ NqOnce(S)
        BY <1>1, <1>3, <2>4, <2>5, <2>10 DEF NqRowsInv, NqOnce
      <4>3. \A c, d \in nq.rows \cup S : rowDedupKey(nq, c) = rowDedupKey(nq, d) => c.row = d.row
        <5>1. nq.rows \cup S \subseteq NqCopyT /\ nq.uuid \in BOOLEAN
          BY <1>1, <2>5 DEF NqAskedT
        <5>2. QED
          BY <2>9, <2>10, <5>1, NqApart
      <4>4. NqHas(nq.rows, r) \/ NqHas(S, r) \/ NqCut(nq, nq.rows, r) \/ NqCut(nq, S, r)
        BY <3>1, <3>2, <3>3
      <4>5. QED
        BY ZenonT(60), <2>5, <3>1, <4>1, <4>2, <4>3, <4>4, NqMergeKeeps
    <3>7. QED
      BY <3>4, <3>5, <3>6
  <2>11. ASSUME NEW c \in T, NEW d \in T, c.row = d.row, c # d
         PROVE  c.row \in nqTwice' /\ ~(mergeSeparately(nq) /\ ~nq.setup.tiered)
    BY <1>3, <2>2, <2>4, <2>5, <2>6, <2>11 DEF NqOnce
  <2>12. QED
    BY <1>1, <2>1, <2>2, <2>6, <2>7, <2>8, <2>9, <2>10, <2>11, NqAnswered
<1>4. CASE ~runSelectQueryFails("done")
  <2>1. PICK S \in Limited(all, nq.order) :
           \E T \in IF nq.order = "agg" \/ nq.rows = {} THEN {S}
                    ELSE Merged(nq, nq.rows, S, nq.order \in {"topn", "stream"}) :
              /\ nq' = [nq EXCEPT !.at = "done", !.rows = T, !.read = @ \cup {"hot", "cold"}]
              /\ nqTwice' = nqTwice \cup Doubled({"hot", "cold"})
    BY <1>4 DEF TieredStatement, NqAll
  <2>2. Merged(nq, nq.rows, S, nq.order \in {"topn", "stream"}) =
                IF nq.order \in {"topn", "stream"} THEN TopN(NqDeduped(nq, nq.rows, S))
                ELSE {NqDeduped(nq, nq.rows, S)}
    BY DEF Merged, NqDeduped
  <2> HIDE DEF all
  <2>3. PICK T \in IF nq.order = "agg" \/ nq.rows = {} THEN {S}
                       ELSE IF nq.order \in {"topn", "stream"} THEN TopN(NqDeduped(nq, nq.rows, S))
                       ELSE {NqDeduped(nq, nq.rows, S)} :
              /\ nq' = [nq EXCEPT !.at = "done", !.rows = T, !.read = @ \cup {"hot", "cold"}]
              /\ nqTwice' = nqTwice \cup Doubled({"hot", "cold"})
    <3>1. CASE nq.order = "agg" \/ nq.rows = {}
      BY <2>1, <3>1
    <3>2. CASE ~(nq.order = "agg" \/ nq.rows = {})
      BY ZenonT(60), <2>1, <2>2, <3>2
    <3>3. QED
      BY <3>1, <3>2
  <2>4. QED
    BY <1>3, <2>3
<1>5. QED
  BY <1>2, <1>4

LEMMA NqParts ==
    ASSUME NqTypeInv, NEW lo, NEW hi
    PROVE  /\ NqPart(lo, hi) \subseteq NqCopyT
           /\ \A c \in NqPart(lo, hi) : /\ nqAt[c.row] # {} /\ c.place = "hot" /\ c = [row |-> c.row, place |-> "hot"]
                                       /\ lo <= c.row.t /\ c.row.t < hi
           /\ \A r \in NqRows : lo <= r.t /\ r.t < hi /\ "hot" \in nqAt[r] => NqHas(NqPart(lo, hi), r)
<1>1. \A c \in NqPart(lo, hi) : /\ c \in [row : NqRows, place : {"hot"}] /\ c.place \in nqAt[c.row]
                               /\ lo <= c.row.t /\ c.row.t < hi
  BY DEF NqPart, Copies, InWindow
<1>2. ASSUME NEW r \in NqRows, lo <= r.t, r.t < hi, "hot" \in nqAt[r]
      PROVE  NqHas(NqPart(lo, hi), r)
  <2>1. [row |-> r, place |-> "hot"] \in NqPart(lo, hi)
    BY <1>2 DEF NqPart, Copies, InWindow
  <2>2. QED
    BY <2>1 DEF NqHas
<1>3. NqPart(lo, hi) \subseteq NqCopyT
  BY <1>1 DEF NqCopyT, NqPlaces
<1>4. QED
  BY <1>1, <1>2, <1>3

LEMMA NqChunks ==
    ASSUME NodeQueryAssumption, NqInv, LakeChunk
    PROVE  NqInv'
<1>1. /\ nq \in NqAskedT /\ NqTypeInv /\ NqPlanInv /\ NqRowsInv /\ NqChunkInv /\ NqAnswerInv /\ nq.at = "lake"
      /\ timeSlice(nq) /\ nq.strategy = "chunked"
  BY NqRunning DEF LakeChunk
<1>2. CASE runSelectQueryFails("failed")
  BY <1>1, <1>2, NqFails DEF LakeChunk
<1> DEFINE lo == NextChunk(nq).lo
           hi == NextChunk(nq).hi
<1>3. ASSUME NEW S \in TopN(NqPart(lo, hi)), NEW all, all = nq.rows \cup S,
             NEW T \in IF lo <= NqWindow[1] \/ Cardinality(all) >= NqLimit THEN TopN(NqDeduped(nq, all, {})) ELSE {all},
             nq' = [nq EXCEPT !.at = IF lo <= NqWindow[1] \/ Cardinality(all) >= NqLimit THEN "mem" ELSE "lake",
                              !.rows = T, !.hi = lo, !.read = {"hot"}],
             UNCHANGED nqTwice
      PROVE  NqInv'
  <2>1. UNCHANGED <<nqAt, nqHeld, nqPassed>>
    BY DEF LakeChunk
  <2>2. /\ mergeSeparately(nq) /\ nq.order = "topn"
        /\ nq.read = {"hot"} \/ (nq.rows = {} /\ nq.hi = NqWindow[2])
    BY <1>1 DEF NqPlanInv, timeSlice
  <2>3. /\ hi = nq.hi /\ hi \in Nat /\ lo \in Nat /\ NqWindow[1] \in Nat /\ NqWindow[2] \in Nat
        /\ lo > NqWindow[1] => lo < hi
    BY <1>1 DEF NextChunk, NqAskedT, NodeQueryAssumption
  <2> HIDE DEF lo, hi
  <2>4. /\ NqPart(lo, hi) \subseteq NqCopyT
        /\ \A c \in NqPart(lo, hi) : /\ nqAt[c.row] # {} /\ c.place = "hot" /\ c = [row |-> c.row, place |-> "hot"]
                                    /\ lo <= c.row.t /\ c.row.t < hi
        /\ \A r \in NqRows : lo <= r.t /\ r.t < hi /\ "hot" \in nqAt[r] => NqHas(NqPart(lo, hi), r)
    BY <1>1, NqParts
  <2>5. S \in AnyN(NqPart(lo, hi)) /\ \A c \in S, d \in NqPart(lo, hi) \ S : c.row.t >= d.row.t
    BY <1>3 DEF TopN
  <2>6. S \subseteq NqPart(lo, hi) /\ \A c \in NqPart(lo, hi) : c \notin S => Cardinality(S) >= NqLimit
    BY <2>4, <2>5, NqTopped
  <2>7. \A c \in NqCopyT : c.row.t \in Nat /\ c.row \in NqRows /\ c = [row |-> c.row, place |-> c.place]
    BY DEF NqCopyT, NodeQueryAssumption
  <2>8. all \subseteq NqCopyT /\ all \in SUBSET NqCopyT /\ nq.rows \subseteq NqCopyT
    BY <1>1, <1>3, <2>4, <2>6 DEF NqAskedT
  <2>9. \A c \in nq.rows : c.place = "hot" /\ c.row.t >= hi /\ nqAt[c.row] # {}
    BY <1>1, <2>2, <2>3 DEF NqChunkInv, NqRowsInv
  <2>10. \A c \in all : nqAt[c.row] # {} /\ c.place = "hot"
    BY <1>3, <2>4, <2>6, <2>9
  <2>11. NqOnce(all)
    BY <2>7, <2>8, <2>10 DEF NqOnce
  <2>12. \A c \in all : lo < hi => c.row.t >= lo
    BY <1>3, <2>3, <2>4, <2>6, <2>7, <2>8, <2>9
  <2>13. ASSUME NEW r \in nqHeld, NqIn(r), r.t >= hi, r.t # NqWindow[2], r \notin nqPassed, "hot" \in nqAt[r]
         PROVE  NqHas(all, r)
    <3>1. r.t \in Nat /\ r.t <= NqWindow[2]
      BY <1>1, <2>3, <2>13 DEF NqIn, InWindow, NqTypeInv, NodeQueryAssumption
    <3>2. nq.read # {}
      BY <2>2, <2>3, <2>13, <3>1
    <3>3. NqHas(nq.rows, r)
      BY <1>1, <2>3, <2>13, <3>2 DEF NqChunkInv
    <3>4. QED
      BY <1>3, <3>3 DEF NqHas
  <2>14. Cardinality(S) <= Cardinality(all) /\ Cardinality(S) \in Nat /\ Cardinality(all) \in Nat /\ NqLimit \in Nat
    <3>1. S \in SUBSET all
      BY <1>3
    <3>2. IsFiniteSet(all) /\ IsFiniteSet(S)
      BY <2>8, <3>1, NqFinite
    <3>3. QED
      BY <3>1, <3>2, FS_Subset, FS_CardinalityType DEF NodeQueryAssumption
  <2>15. ASSUME NEW r \in nqHeld, lo <= r.t, r.t < hi, "hot" \in nqAt[r]
         PROVE  NqHas(all, r) \/ (Cardinality(all) >= NqLimit /\ \A c \in all : c.row.t >= r.t)
    <3>1. r \in NqRows /\ r.t \in Nat
      BY <1>1 DEF NqTypeInv, NodeQueryAssumption
    <3>2. PICK c \in NqPart(lo, hi) : c.row = r
      BY <2>4, <2>15, <3>1 DEF NqHas
    <3>3. CASE c \in S
      BY <1>3, <3>2, <3>3 DEF NqHas
    <3>4. CASE c \notin S
      <4>1. Cardinality(all) >= NqLimit
        BY <2>6, <2>14, <3>4
      <4>2. \A d \in S : d.row.t >= r.t
        BY <2>5, <3>2, <3>4
      <4>3. \A d \in nq.rows : d.row.t >= r.t
        <5>1. SUFFICES ASSUME NEW d \in nq.rows PROVE d.row.t >= r.t
          OBVIOUS
        <5>2. d.row.t >= hi /\ d.row.t \in Nat
          BY <2>7, <2>8, <2>9
        <5>3. QED
          BY <2>3, <2>15, <3>1, <5>2
      <4>4. QED
        BY <1>3, <4>1, <4>2, <4>3
    <3>5. QED
      BY <3>3, <3>4
  <2>16. {"hot"} \in SUBSET NqPlaces
    BY DEF NqPlaces
  <2>17. CASE ~(lo <= NqWindow[1] \/ Cardinality(all) >= NqLimit)
    <3>1. T = all /\ lo < hi
      BY <1>3, <2>3, <2>17
    <3>2. NqFacts(nq') /\ nq'.at = "lake" /\ nq'.rows = all /\ nq'.read = {"hot"} /\ nq'.hi = lo
      BY <1>1, <1>3, <2>3, <2>8, <2>16, <2>17, <3>1 DEF NqAskedT, NqFacts
    <3>3. /\ mergeSeparately(nq') <=> mergeSeparately(nq)
          /\ timeSlice(nq') <=> timeSlice(nq)
      BY <3>2, NqAsked
    <3>4. NqTypeInv'
      BY <1>1, <2>1, <3>2 DEF NqTypeInv, NqFacts
    <3>5. NqPlanInv' /\ NqAnswerInv'
      BY <1>1, <3>2, <3>3 DEF NqPlanInv, NqAnswerInv, NqFacts
    <3>6. NqRowsInv'
      BY <2>1, <2>10, <2>11, <3>2 DEF NqRowsInv, NqOnce
    <3>7. ASSUME NEW r \in nqHeld, NqIn(r), r.t >= lo
          PROVE  r.t = NqWindow[2] \/ NqHas(all, r) \/ r \in nqPassed \/ "hot" \notin nqAt[r]
      <4>1. r.t \in Nat
        BY <1>1 DEF NqTypeInv, NodeQueryAssumption
      <4>2. CASE r.t >= hi
        BY <2>13, <3>7, <4>2
      <4>3. CASE r.t < hi
        BY <2>3, <2>15, <2>17, <3>7, <4>1, <4>3
      <4>4. QED
        BY <2>3, <4>1, <4>2, <4>3
    <3>8. NqChunkInv'
      BY <2>1, <2>10, <2>12, <3>1, <3>2, <3>7 DEF NqChunkInv
    <3>9. QED
      BY <3>4, <3>5, <3>6, <3>8 DEF NqInv
  <2>18. CASE lo <= NqWindow[1] \/ Cardinality(all) >= NqLimit
    <3>1. T \in TopN(NqDeduped(nq, all, {}))
      BY <1>3, <2>18
    <3>2. T \subseteq all /\ NqOnce(T)
      <4>1. T \subseteq all \cup {} /\ NqOnce(T)
        BY <3>1, NqMergedOnce
      <4>2. QED
        BY <4>1
    <3>3. T \in SUBSET NqCopyT
      BY <2>8, <3>2
    <3>4. NqFacts(nq') /\ nq'.at = "mem" /\ nq'.rows = T /\ nq'.read = {"hot"}
      BY <1>1, <1>3, <2>3, <2>16, <2>18, <3>3 DEF NqAskedT, NqFacts
    <3>5. ASSUME NEW r \in nqHeld, NqIn(r), r \notin nqPassed, nqAt[r] \cap {"hot"} # {},
                 ~(~nq.uuid /\ \E a, b \in {c \in NqRows : nqAt[c] # {}} : a # b /\ a.t = b.t),
                 r.t # NqWindow[2]
          PROVE  NqHas(T, r) \/ NqCut(nq, T, r)
      <4>1. r \in NqRows /\ r.t \in Nat /\ NqWindow[1] <= r.t /\ "hot" \in nqAt[r]
        BY <1>1, <3>5 DEF NqTypeInv, NodeQueryAssumption, NqIn, InWindow
      <4>2. NqHas(all, r) \/ (Cardinality(all) >= NqLimit /\ \A c \in all : c.row.t >= r.t)
        <5>1. CASE r.t >= hi
          BY <2>13, <3>5, <4>1, <5>1
        <5>2. CASE r.t < hi /\ lo <= r.t
          BY <2>15, <4>1, <5>2
        <5>3. CASE r.t < lo
          <6>1. lo > NqWindow[1]
            BY <2>3, <4>1, <5>3
          <6>2. Cardinality(all) >= NqLimit
            BY <2>3, <2>18, <6>1
          <6>3. \A c \in all : c.row.t >= r.t
            <7>1. SUFFICES ASSUME NEW c \in all PROVE c.row.t >= r.t
              OBVIOUS
            <7>2. c.row.t >= lo /\ c.row.t \in Nat
              BY <2>3, <2>7, <2>8, <2>12, <6>1
            <7>3. QED
              BY <2>3, <4>1, <5>3, <7>2
          <6>4. QED
            BY <6>2, <6>3
        <5>4. QED
          BY <2>3, <4>1, <5>1, <5>2, <5>3
      <4>3. NqHas(all, r) \/ NqCut(nq, all, r)
        BY <2>2, <4>2 DEF NqCut
      <4>4. \A c, d \in all \cup {} : rowDedupKey(nq, c) = rowDedupKey(nq, d) => c.row = d.row
        <5>1. nq.uuid \in BOOLEAN /\ \A c \in all : nqAt[c.row] # {}
          BY <1>1, <2>10 DEF NqAskedT
        <5>2. \A c, d \in all : rowDedupKey(nq, c) = rowDedupKey(nq, d) => c.row = d.row
          BY <2>8, <3>5, <5>1, NqApart
        <5>3. QED
          BY <5>2
      <4>5. {} \subseteq NqCopyT /\ NqOnce({}) /\ nq.order \in {"topn", "stream"}
        BY <2>2 DEF NqOnce
      <4>6. QED
        BY <2>8, <2>11, <3>1, <4>1, <4>3, <4>4, <4>5, NqMergeKeeps
    <3>6. \A c, d \in T : c.row = d.row => c = d
      BY <3>2 DEF NqOnce
    <3>7. \A c \in T : nqAt[c.row] # {}
      BY <2>10, <3>2
    <3> DEFINE read == {"hot"}
    <3>8. read \in SUBSET NqPlaces /\ nq'.read = read /\ read = {"hot"}
      BY <2>16, <3>4
    <3> HIDE DEF read
    <3>9. \A r \in nqHeld :
              /\ NqIn(r) /\ r \notin nqPassed /\ nqAt[r] \cap read # {}
              /\ ~(~nq.uuid /\ \E a, b \in {c \in NqRows : nqAt[c] # {}} : a # b /\ a.t = b.t)
              /\ ~(timeSlice(nq) /\ nq.strategy = "chunked" /\ r.t = NqWindow[2])
              => NqHas(T, r) \/ NqCut(nq, T, r)
      BY <1>1, <3>5, <3>8
    <3>10. QED
      BY ZenonT(60), <1>1, <2>1, <2>2, <3>3, <3>4, <3>6, <3>7, <3>8, <3>9, NqAnswered
  <2>19. QED
    BY <2>17, <2>18
<1>4. CASE ~runSelectQueryFails("failed")
  <2>1. PICK S \in TopN(NqPart(lo, hi)) :
           \E T \in IF lo <= NqWindow[1] \/ Cardinality(nq.rows \cup S) >= NqLimit
                    THEN Merged(nq, nq.rows \cup S, {}, TRUE) ELSE {nq.rows \cup S} :
              nq' = [nq EXCEPT !.at = IF lo <= NqWindow[1] \/ Cardinality(nq.rows \cup S) >= NqLimit
                                      THEN "mem" ELSE "lake",
                               !.rows = T, !.hi = lo, !.read = {"hot"}]
    BY <1>4 DEF LakeChunk, NqPart
  <2> DEFINE all == nq.rows \cup S
  <2>2. Merged(nq, all, {}, TRUE) = TopN(NqDeduped(nq, all, {}))
    BY DEF Merged, NqDeduped
  <2>3. all = nq.rows \cup S /\ UNCHANGED nqTwice
    BY <1>4 DEF LakeChunk
  <2>4. PICK T \in IF lo <= NqWindow[1] \/ Cardinality(all) >= NqLimit
                   THEN TopN(NqDeduped(nq, all, {})) ELSE {all} :
              nq' = [nq EXCEPT !.at = IF lo <= NqWindow[1] \/ Cardinality(all) >= NqLimit
                                      THEN "mem" ELSE "lake",
                               !.rows = T, !.hi = lo, !.read = {"hot"}]
    BY <2>1, <2>2
  <2> HIDE DEF all, lo, hi
  <2>5. QED
    BY <1>3, <2>3, <2>4
<1>5. QED
  BY <1>2, <1>4

LEMMA NqInitInv ==
    NqInit => NqInv
BY DEF NqInit, NqInv, NqTypeInv

LEMMA NqInductive ==
    ASSUME NodeQueryAssumption, NqInv, [NqNext]_nqVars
    PROVE  NqInv'
<1>1. CASE UNCHANGED nqVars
  BY <1>1 DEF nqVars, NqInv, NqTypeInv, NqPlanInv, NqRowsInv, NqChunkInv, NqAnswerInv, NqHas, NqCut, Excused,
              timeSlice, mergeSeparately
<1>2. CASE NqNext
  BY <1>2, NqMoves, NqBegins, NqLake, NqChunks, NqMem, NqTiered DEF NqNext
<1>3. QED
  BY <1>1, <1>2

LEMMA NqInvSafe ==
    NqInv => NodeQuerySafe
<1>1. SUFFICES ASSUME NqInv, nq.at = "done" PROVE NodeQuerySafe
  BY DEF NodeQuerySafe
<1>2. NqRowsInv /\ NqAnswerInv
  BY <1>1, NqRunning
<1>3. QED
  BY <1>1, <1>2 DEF NqRowsInv, NqAnswerInv, NqHas, NqCut, NqIn, NodeQuerySafe

-----------------------------------------------------------------------------
(* The composition: a step is one of at most one area. *)

\* ChessInit: an empty hub, or one with a room whose waiting is over.
LEMMA ChessInitInv ==
    ChessInit => NcInv
<1>1. ASSUME NcInitFrom([i \in NcRoomIds |-> NcEmpty], {3}) PROVE NcInv
  <2> DEFINE rooms == [i \in NcRoomIds |-> NcEmpty]
  <2>1. /\ rooms \in [NcRoomIds -> NcRoomT]
        /\ \A i \in NcRoomIds : /\ rooms[i].spectators = {} /\ ~rooms[i].started
                                /\ \A s \in Sides : rooms[i].seat[s] = None
    BY NcEmptyRoom
  <2>2. NcInitFrom(rooms, {3})
    BY <1>1
  <2> HIDE DEF rooms
  <2>3. QED
    BY <2>1, <2>2, NcInitInv
<1>2. ASSUME NEW c \in NcCodes,
             NcInitFrom([i \in NcRoomIds |-> IF i = 2 THEN [NcEmpty EXCEPT !.code = c, !.ended = TRUE]
                                            ELSE NcEmpty], {})
      PROVE  NcInv
  <2> DEFINE over == [NcEmpty EXCEPT !.code = c, !.ended = TRUE]
             rooms == [i \in NcRoomIds |-> IF i = 2 THEN over ELSE NcEmpty]
  <2>0. NcInitFrom(rooms, {})
    BY <1>2
  <2>1. /\ over \in NcRoomT /\ over.spectators = {} /\ ~over.started
        /\ \A s \in Sides : over.seat[s] = None
    BY NcEmptyRoom DEF NcRoomT
  <2> HIDE DEF over
  <2>2. /\ rooms \in [NcRoomIds -> NcRoomT]
        /\ \A i \in NcRoomIds : /\ rooms[i].spectators = {} /\ ~rooms[i].started
                                /\ \A s \in Sides : rooms[i].seat[s] = None
    BY <2>1, NcEmptyRoom
  <2> HIDE DEF rooms
  <2>3. QED
    BY <2>0, <2>2, NcInitInv
<1>3. QED
  BY <1>1, <1>2 DEF ChessInit

\* What the game hubs keep, however joins, frames, departures and timers overlap.
\* NetrisSafe: one result for a room, nobody who left is sent to, a seat is lost only
\* where a code was named or the first player had left, the next quick match is made
\* with somebody, and who waits alone is found or told.  NetChessSafe: the same, and a
\* game that goes on has a flag timer, and a takeback undoes one half-move at most.
THEOREM GamesSound == AreaSpec => []GamesSafe
<1> DEFINE v == <<area, nrVars, ncVars, seVars, nqVars, nhVars, ciVars>>
<1>1. AreaInit => NrInv /\ NcInv
  BY NrInitInv, ChessInitInv DEF AreaInit
<1>2. NrInv /\ NcInv /\ [AreaNext]_v => NrInv' /\ NcInv'
  <2>1. SUFFICES ASSUME NrInv, NcInv, [AreaNext]_v
                 PROVE  NrInv' /\ NcInv'
    OBVIOUS
  <2>2. [NrNext]_nrVars /\ [NcNext]_ncVars
    BY <2>1 DEF AreaNext, Idle
  <2>3. QED
    BY <2>1, <2>2, NrInductive, NcInductive
<1>3. NrInv /\ NcInv => GamesSafe
  BY NrInvSafe, NcInvSafe DEF GamesSafe, Of
<1>4. QED
  BY <1>1, <1>2, <1>3, PTL DEF AreaSpec

\* What a node promises, however swaps, requests, flushes, moves and Stop overlap.
\* NodeHandleSafe: its database handle and its catalog name an open handle until Stop, and
\* none after; the credential refresher uses an open one; a request meets a closed one only
\* if a refresh or Stop overtook it; and Stop can hang on the cycle of n.mu and s.mu only.
\* NodeQuerySafe: a row of the window that was stored while the query ran is in the answer
\* but for the reasons NodeQuerySafe names, and is there twice only if it was in two places
\* while they were read.
THEOREM NodeSound == AreaSpec => [](Of("handle", NodeHandleSafe) /\ Of("query", NodeQuerySafe))
<1> DEFINE v == <<area, nrVars, ncVars, seVars, nqVars, nhVars, ciVars>>
<1>1. AreaInit => NhInv /\ NqInv
  BY NhInitInv, NqInitInv, NodeHandleAssumption DEF AreaInit
<1>2. NhInv /\ NqInv /\ [AreaNext]_v => NhInv' /\ NqInv'
  <2>1. SUFFICES ASSUME NhInv, NqInv, [AreaNext]_v
                 PROVE  NhInv' /\ NqInv'
    OBVIOUS
  <2>2. [NhNext]_nhVars /\ [NqNext]_nqVars
    BY <2>1 DEF AreaNext, Idle
  <2>3. QED
    BY <2>1, <2>2, NhInductive, NqInductive, NodeQueryAssumption
<1>3. NhInv /\ NqInv => Of("handle", NodeHandleSafe) /\ Of("query", NodeQuerySafe)
  BY NhInvSafe, NqInvSafe DEF Of
<1>4. QED
  BY <1>1, <1>2, <1>3, PTL DEF AreaSpec

\* What a client is told of a call, however its messages fall into milliseconds, are lost
\* and sent again, refused, changed and ended.  CallInfoSafe: no delay is longer than the
\* session; and where the rows are in the order of the wire, the codecs are those of the
\* last completed exchange, the answered time is that from the first 200 to the BYE, and
\* the state is the call's but for the two exceptions CiStateRight names.
THEOREM CallInfoSound == AreaSpec => []Of("callinfo", CallInfoSafe)
<1> DEFINE v == <<area, nrVars, ncVars, seVars, nqVars, nhVars, ciVars>>
<1>1. AreaInit => CiInv
  BY CiInitInv DEF AreaInit
<1>2. CiInv /\ [AreaNext]_v => CiInv'
  <2>1. SUFFICES ASSUME CiInv, [AreaNext]_v PROVE CiInv'
    OBVIOUS
  <2>2. [CiNext]_ciVars
    BY <2>1 DEF AreaNext, Idle
  <2>3. QED
    BY <2>1, <2>2, CiInductive
<1>3. CiInv => Of("callinfo", CallInfoSafe)
  BY CiInvSafe DEF Of
<1>4. QED
  BY <1>1, <1>2, <1>3, PTL DEF AreaSpec

\* What a search is answered, however health checks, flushes, inserts, retention and
\* failing nodes overlap with its slices, tables and second queries.  SearchSafe: every
\* row of it was asked for and is there once; a row that was held all the while is
\* missing only for the reasons AnswerComplete names; the order is the promised one; a
\* row without its payload is explained; and a node is passed over only for rows that its
\* range in the cache does not speak of.
THEOREM SearchSound == AreaSpec => []Of("search", SearchSafe)
<1> DEFINE v == <<area, nrVars, ncVars, seVars, nqVars, nhVars, ciVars>>
<1>1. AreaInit => SeInv
  BY SeInitInv DEF AreaInit
<1>2. SeInv /\ [AreaNext]_v => SeInv'
  <2>1. SUFFICES ASSUME SeInv, [AreaNext]_v PROVE SeInv'
    OBVIOUS
  <2>2. [SeNext]_seVars
    BY <2>1 DEF AreaNext, Idle
  <2>3. QED
    BY <2>1, <2>2, SeInductive
<1>3. SeInv => Of("search", SearchSafe)
  BY SeInvSafe DEF Of
<1>4. QED
  BY <1>1, <1>2, <1>3, PTL DEF AreaSpec

\* The four of them are what the run of MCQueries checks: what a client is told by the
\* coordinator, by a node and of a call.
THEOREM QueriesSound == AreaSpec => []QueriesSafe
<1>1. Of("search", SearchSafe) /\ (Of("handle", NodeHandleSafe) /\ Of("query", NodeQuerySafe))
        /\ Of("callinfo", CallInfoSafe) => QueriesSafe
  BY DEF QueriesSafe
<1>2. QED
  BY <1>1, SearchSound, NodeSound, CallInfoSound, PTL
=============================================================================
