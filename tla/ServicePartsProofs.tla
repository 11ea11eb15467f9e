------------------------- MODULE ServicePartsProofs -------------------------
(***************************************************************************)
(* Proofs about services, for every value of the constants: what becomes   *)
(* of what is received (LineProto, Siprec, TableRouting and HepRow), what  *)
(* the coordinator keeps in its settings database (Registry, Accounts and  *)
(* Settings), what is passed on to other systems (RemoteLog), and what the *)
(* live stream is given (HepBroker).  ServicesProofs takes over what       *)
(* MCServices composes of them.                                            *)
(*                                                                         *)
(* Siprec: SrInv, its type, SiprecSafe and SrOverlaps, by which an INVITE  *)
(* under way still has its session, or a BYE has overtaken it.             *)
(*                                                                         *)
(* LineProto: LpInv, with LpCaches, what the columns believed have to do   *)
(* with those of the lake and with the lock's holder, and LpHandler(w),    *)
(* what a handler knows of its table at each of its steps and that the     *)
(* points it is answerable for are among those it still holds.             *)
(*                                                                         *)
(* TableRouting: TrInv, with TrRoutes, by which a key has one TableWriter  *)
(* and a worker past the map its own, TrHands and TrSlotLocks, which say   *)
(* what a worker with a row still owes, and TrRowsKept, where the rows of  *)
(* a suffix with one key are.                                              *)
(*                                                                         *)
(* HepRow: HrInv, with HrTwins for the duplicates, HrCached and HrNear for *)
(* the two words of the date cache, and HrFileInv, which says where each   *)
(* packet of an imported file is.                                          *)
(*                                                                         *)
(* Registry: its inductive invariant RgInv says of every id                *)
(*                                                                         *)
(*   RgPromised   what the last answer promised is what the table holds;   *)
(*   RgSingle     an id that no client named has one row at most.          *)
(*                                                                         *)
(* Accounts: AcInv, with                                                   *)
(*                                                                         *)
(*   AcSessions   a session that its owner ended is revoked;               *)
(*   AcRows       rows have the ids given out, and are explained;          *)
(*   AcFlows      where the state and the one-time token of a login are.   *)
(*                                                                         *)
(* Settings: StInv, with one part for each resource.  A request holds rows *)
(* and a snapshot between two accesses to the database, and while it does  *)
(* the other requests go on: the parts say what it still is to write       *)
(* (StSeeds, and StDefaults that counts on it), what may have changed      *)
(* below it (StTokens), and whose rows it holds (StWriters).               *)
(*                                                                         *)
(* RemoteLog: RlInv, with RlOnce, where a packet that a client accepted    *)
(* is, and RlHeldInv for what Close finds in the batch.                    *)
(*                                                                         *)
(* HepBroker: its inductive invariant, which the panic (NoSendOnClosed is  *)
(* violated) does not disturb, is its type and                             *)
(*                                                                         *)
(*   WorkerInv    what a worker inside Publish holds, and that its event   *)
(*                is in the log from appendToRing on;                      *)
(*   ClientInv    a handler that replays or forwards is in b.subs, and its *)
(*                channel is open;                                         *)
(*   RingInv      place (j - 1) % BufferSize of the ring holds the j-th    *)
(*                event of the log, for the last BufferSize of them;       *)
(*   CoverInv     an event a client wants is accounted for: by the client  *)
(*                when its Publish has returned, by the client or by the   *)
(*                worker's snapshot before.                                *)
(***************************************************************************)
EXTENDS LineProto, Siprec, TableRouting, HepRow, Registry, Accounts, Settings, RemoteLog,
        HepBroker, Integers, SequenceTheorems, FiniteSetTheorems, TLAPS

-----------------------------------------------------------------------------
(* The SIPREC receiver.  A handler that is about to store a dialog has its *)
(* session, or a BYE has come between. *)

SrOverlaps ==
    \A h \in Handlers :
        srPc[h] \in {"inviteAnswer", "inviteStore"} => srCall[h] \in sessions \cup overtaken

SrInv == SrTypeOK /\ SiprecSafe /\ SrOverlaps

LEMMA SrInductive ==
    ASSUME SrInv, [SrNext]_srVars
    PROVE  SrInv'
<1> USE DEF SrInv, SrTypeOK, SiprecSafe, SessionHasDialog, OnlyRacesLeakDialogs, SrOverlaps
<1>1. ASSUME NEW h \in Handlers, NEW c \in Calls, NEW rec \in BOOLEAN, OnInvite(h, c, rec)
      PROVE  SrInv'
  BY <1>1 DEF OnInvite, AtPlace, SrGoto, SrPlaces
<1>2. ASSUME NEW h \in Handlers, NEW c \in Calls, OnAck(h, c) \/ OnCancel(h, c) \/ OnBye(h, c)
      PROVE  SrInv'
  BY <1>2 DEF OnAck, OnCancel, OnBye, Receive, AtPlace, SrGoto, SrPlaces
<1>3. ASSUME NEW h \in Handlers,
             InviteAnswer(h) \/ InvitePersist(h) \/ PersistOne(h) \/ ByePersist(h)
      PROVE  SrInv'
  BY <1>3 DEF InviteAnswer, InvitePersist, PersistOne, ByePersist, AtPlace, SrGoto, SrPlaces
<1>4. ASSUME NEW h \in Handlers, InviteStore(h)
      PROVE  SrInv'
  BY <1>4 DEF InviteStore, AtPlace, SrGoto, SrPlaces
<1>5. ASSUME NEW h \in Handlers, ByeRemove(h)
      PROVE  SrInv'
  BY <1>5 DEF ByeRemove, Forget, AtPlace, SrGoto, SrPlaces
<1>6. CASE UNCHANGED srVars
  BY <1>6 DEF srVars
<1>7. QED
  BY <1>1, <1>2, <1>3, <1>4, <1>5, <1>6 DEF SrNext

LEMMA SrInitInv ==
    ASSUME SrInit
    PROVE  SrInv
BY SiprecAssumption DEF SrInit, SrInv, SrTypeOK, SiprecSafe, SessionHasDialog, OnlyRacesLeakDialogs,
                        SrOverlaps, SrPlaces

-----------------------------------------------------------------------------
(* The line protocol receiver.  LpHandler says what a handler knows of the *)
(* table it is at, LpCaches what the caches say of the lake. *)

LpWorking == {"ensure", "partition", "alter", "insert"}
LpSettled(t) == t \in dateFill \cup unchecked

LpHandler(w) ==
    /\ lpPc[w] \in LpWorking =>
          lpRows[w] # {} /\ \A p, q \in lpRows[w] : p.table = q.table
    /\ lpPc[w] \notin LpWorking => lpRows[w] = {}
    /\ lpMissing[w] \subseteq lpTodo[w] \cup lpRows[w]
    /\ lpPc[w] \in {"partition", "alter"} <=> tablesMu = w
    /\ lpPc[w] \in {"partition", "insert"} => \A p \in lpRows[w] : p.cols \subseteq tablesState[p.table]
    /\ lpPc[w] \in {"alter", "insert"} => \A p \in lpRows[w] : LpSettled(p.table)

LpCaches ==
    /\ \A t \in AllTables \ metBefore : tablesState[t] \subseteq lpTables[t]
    /\ \A t \in AllTables : tablesState[t] # {} =>
          \/ LpSettled(t)
          \/ \E w \in Writers : lpPc[w] = "partition" /\ \A p \in lpRows[w] : p.table = t

LpInv ==
    /\ LpTypeOK
    /\ LpCaches
    /\ AnsweredPointsStored
    /\ \A w \in Writers : LpHandler(w)

\* What a step of w leaves of the others, and what no step takes back.
LpAside(w) ==
    /\ \A t \in AllTables : tablesState[t] \subseteq tablesState'[t]
    /\ dateFill \subseteq dateFill' /\ unchecked \subseteq unchecked'
    /\ \A v \in Writers \ {w} :
          /\ lpPc'[v] = lpPc[v] /\ lpRows'[v] = lpRows[v]
          /\ lpTodo'[v] = lpTodo[v] /\ lpMissing'[v] = lpMissing[v]
          /\ tablesMu' = v <=> tablesMu = v

LEMMA LpPointFacts ==
    /\ \A p \in Points : p.table \in AllTables /\ p.cols \subseteq Cols
    /\ Cols \subseteq AllCols /\ {"ts", date} \subseteq AllCols
    /\ NoOne \notin Writers
BY LineProtoAssumption DEF Points, AllTables, AllCols

LEMMA LpBatchFacts ==
    ASSUME LpTypeOK, NEW w \in Writers, LpHandler(w), lpPc[w] \in LpWorking
    PROVE  /\ lpRows[w] # {} /\ lpRows[w] \subseteq Points
           /\ tableOf(w) \in AllTables /\ colTypes(w) \subseteq AllCols
           /\ "ts" \in colTypes(w)
           /\ \A p \in lpRows[w] : p.table = tableOf(w) /\ p.cols \subseteq colTypes(w)
<1>1. lpRows[w] # {} /\ lpRows[w] \subseteq Points /\ \A p, q \in lpRows[w] : p.table = q.table
  BY DEF LpTypeOK, LpHandler
<1>2. \A p \in lpRows[w] : p.table = tableOf(w) /\ p.cols \subseteq colTypes(w)
  BY <1>1 DEF tableOf, colTypes
<1>3. \A p \in lpRows[w] : p.table \in AllTables /\ p.cols \subseteq AllCols
  BY <1>1, LpPointFacts
<1>4. tableOf(w) \in AllTables
  BY <1>1, <1>2, <1>3
<1>5. colTypes(w) \subseteq AllCols /\ "ts" \in colTypes(w)
  <2>1. "ts" \in AllCols /\ "ts" \in colTypes(w)
    BY DEF AllCols, colTypes
  <2>2. \A x \in colTypes(w) : x = "ts" \/ \E p \in lpRows[w] : x \in p.cols
    BY DEF colTypes
  <2>3. \A p \in lpRows[w] : \A x \in p.cols : x \in AllCols
    BY <1>3
  <2>4. QED
    BY <2>1, <2>2, <2>3
<1>6. QED
  BY <1>1, <1>2, <1>4, <1>5

LEMMA LpStepKept ==
    ASSUME LpInv, NEW w \in Writers, LpAside(w), LpTypeOK', LpCaches', AnsweredPointsStored',
           LpHandler(w)'
    PROVE  LpInv'
<1>1. ASSUME NEW v \in Writers, v # w
      PROVE  LpHandler(v)'
  <2>1. LpHandler(v) /\ lpRows[v] \subseteq Points
    BY DEF LpInv, LpTypeOK
  <2>2. /\ lpPc'[v] = lpPc[v] /\ lpRows'[v] = lpRows[v]
        /\ lpTodo'[v] = lpTodo[v] /\ lpMissing'[v] = lpMissing[v]
        /\ tablesMu' = v <=> tablesMu = v
        /\ \A t \in AllTables : tablesState[t] \subseteq tablesState'[t]
        /\ \A t : LpSettled(t) => LpSettled(t)'
    BY <1>1 DEF LpAside, LpSettled
  <2>3. \A p \in lpRows[v] : p.table \in AllTables
    BY <2>1, LpPointFacts
  <2>4. QED
    BY <2>1, <2>2, <2>3 DEF LpHandler
<1>2. QED
  BY <1>1 DEF LpInv

\* A request that ends, in error or with nothing missing.
LEMMA LpFinishKept ==
    ASSUME LpInv, NEW w \in Writers, NEW answer, NEW missing, Finish(w, answer, missing),
           answer = "ok" => missing = {},
           lpPc[w] # "partition",
           UNCHANGED <<tablesState, dateFill, lakeVars, hepLines, lpRestarts, metBefore, unchecked>>,
           tablesMu' = tablesMu \/ (tablesMu = w /\ tablesMu' = NoOne),
           tablesMu' # w
    PROVE  LpInv'
<1>1. LpTypeOK /\ LpHandler(w) /\ LpCaches /\ AnsweredPointsStored
  BY DEF LpInv
<1>2. /\ lpPc'[w] = "idle" /\ lpTodo'[w] = {} /\ lpRows'[w] = {} /\ lpMissing'[w] = {}
      /\ \A v \in Writers \ {w} :
            /\ lpPc'[v] = lpPc[v] /\ lpRows'[v] = lpRows[v]
            /\ lpTodo'[v] = lpTodo[v] /\ lpMissing'[v] = lpMissing[v]
  BY <1>1 DEF LpTypeOK, Finish
<1>3. UNCHANGED <<tablesState, dateFill, lpTables, lpPartitioned, hepLines, lpRestarts, metBefore, unchecked>>
  BY DEF lakeVars
<1>4. LpAside(w)
  BY <1>2, <1>3, LpPointFacts DEF LpAside
<1>5. AnsweredPointsStored' /\ shortAnswer' \in BOOLEAN
  BY <1>1 DEF AnsweredPointsStored, Finish
<1>6. LpTypeOK'
  <2>1. /\ lpPc' = [lpPc EXCEPT ![w] = "idle"]
        /\ lpTodo' \in [Writers -> SUBSET Points] /\ lpRows' \in [Writers -> SUBSET Points]
        /\ lpMissing' \in [Writers -> SUBSET Points]
    BY <1>1 DEF LpTypeOK, Finish
  <2>2. QED
    BY <1>1, <1>3, <1>5, <2>1 DEF LpTypeOK
<1>7. LpCaches'
  <2>1. \A t \in AllTables : LpSettled(t)' <=> LpSettled(t)
    BY <1>3 DEF LpSettled
  <2>2. \A v \in Writers : lpPc[v] = "partition" => lpPc'[v] = "partition" /\ lpRows'[v] = lpRows[v]
    BY <1>2
  <2>3. QED
    BY <1>1, <1>3, <2>1, <2>2 DEF LpCaches
<1>8. LpHandler(w)'
  BY <1>2 DEF LpHandler, LpWorking
<1>9. QED
  BY <1>4, <1>5, <1>6, <1>7, <1>8, LpStepKept

\* What leaves the caches as they are: nobody gets to the partitions or past them.
LEMMA LpCachesKept ==
    ASSUME LpInv, UNCHANGED <<tablesState, dateFill, lpTables, metBefore, unchecked>>,
           \A v \in Writers : lpPc[v] = "partition" => lpPc'[v] = "partition" /\ lpRows'[v] = lpRows[v]
    PROVE  LpCaches'
<1>1. \A t \in AllTables : LpSettled(t)' <=> LpSettled(t)
  BY DEF LpSettled
<1>2. QED
  BY <1>1 DEF LpInv, LpCaches

LEMMA LpReceiveStep ==
    ASSUME LpInv, NEW w \in Writers, NEW b \in Requested, LpReceive(w, b)
    PROVE  LpInv'
<1>1. LpTypeOK /\ LpHandler(w) /\ b \subseteq Points
  BY DEF LpInv, Requested
<1>2. UNCHANGED <<lpRows, tablesMu, tablesState, dateFill, lpTables, lpPartitioned, hepLines, lpRestarts,
                  shortAnswer, metBefore, unchecked>>
  BY DEF LpReceive, cacheVars, lakeVars
<1>3. /\ lpPc[w] = "idle" /\ lpPc'[w] \in {"hep", "schema"} /\ lpPc' = [lpPc EXCEPT ![w] = lpPc'[w]]
      /\ lpTodo' = [lpTodo EXCEPT ![w] = b] /\ lpMissing' = [lpMissing EXCEPT ![w] = b]
      /\ \A v \in Writers \ {w} :
            lpPc'[v] = lpPc[v] /\ lpTodo'[v] = lpTodo[v] /\ lpMissing'[v] = lpMissing[v]
  BY <1>1 DEF LpReceive, LpTypeOK
<1>4. LpAside(w)
  BY <1>2, <1>3 DEF LpAside
<1>5. LpTypeOK' /\ AnsweredPointsStored'
  <2>1. AnsweredPointsStored'
    BY <1>2 DEF LpInv, AnsweredPointsStored
  <2>2. lpTodo' \in [Writers -> SUBSET Points] /\ lpMissing' \in [Writers -> SUBSET Points]
    BY <1>1, <1>3 DEF LpTypeOK
  <2>3. QED
    BY <1>1, <1>2, <1>3, <2>1, <2>2 DEF LpTypeOK
<1>6. LpCaches'
  BY <1>2, <1>3, LpCachesKept
<1>7. LpHandler(w)'
  BY <1>1, <1>2, <1>3 DEF LpHandler, LpWorking, LpTypeOK
<1>8. QED
  BY <1>4, <1>5, <1>6, <1>7, LpStepKept

LEMMA LpHepStep ==
    ASSUME LpInv, NEW w \in Writers, LpHep(w)
    PROVE  LpInv'
<1>1. tablesMu # w /\ lpPc[w] # "partition"
  BY DEF LpInv, LpHandler, LpHep
<1>2. UNCHANGED <<tablesState, dateFill, lakeVars, hepLines, lpRestarts, metBefore, unchecked>> /\ UNCHANGED tablesMu
  BY DEF LpHep, cacheVars
<1>3. \/ Finish(w, "ok", {})
      \/ Finish(w, "failed", lpMissing[w])
  BY DEF LpHep
<1>4. QED
  BY <1>1, <1>2, <1>3, LpFinishKept

LEMMA LpEnsureSchemaStep ==
    ASSUME LpInv, NEW w \in Writers, LpEnsureSchema(w)
    PROVE  LpInv'
<1>1. LpTypeOK /\ LpHandler(w) /\ tablesMu # w /\ lpPc[w] = "schema"
  BY DEF LpInv, LpHandler, LpEnsureSchema
<1>2. UNCHANGED <<tablesMu, tablesState, dateFill, lpTables, lpPartitioned, lakeVars, hepLines, lpRestarts,
                  metBefore, unchecked>>
  BY DEF LpEnsureSchema, cacheVars, lakeVars
<1>3. CASE Finish(w, "failed", lpMissing[w])
  BY <1>1, <1>2, <1>3, LpFinishKept
<1>4. CASE lpPc' = [lpPc EXCEPT ![w] = "next"] /\ UNCHANGED <<lpTodo, lpRows, lpMissing, shortAnswer>>
  <2>1. lpPc'[w] = "next" /\ \A v \in Writers \ {w} : lpPc'[v] = lpPc[v]
    BY <1>1, <1>4 DEF LpTypeOK
  <2>2. LpAside(w)
    BY <1>2, <1>4, <2>1 DEF LpAside
  <2>3. LpTypeOK' /\ AnsweredPointsStored'
    BY <1>1, <1>2, <1>4 DEF LpTypeOK, LpInv, AnsweredPointsStored
  <2>4. LpCaches'
    BY <1>1, <1>2, <1>4, <2>1, LpCachesKept
  <2>5. LpHandler(w)'
    BY <1>1, <1>2, <1>4, <2>1 DEF LpHandler, LpWorking
  <2>6. QED
    BY <2>2, <2>3, <2>4, <2>5, LpStepKept
<1>5. QED
  BY <1>3, <1>4 DEF LpEnsureSchema

LEMMA LpNextTableStep ==
    ASSUME LpInv, NEW w \in Writers, LpNextTable(w)
    PROVE  LpInv'
<1>1. LpTypeOK /\ LpHandler(w) /\ tablesMu # w /\ lpPc[w] = "next" /\ lpRows[w] = {}
  BY DEF LpInv, LpHandler, LpNextTable, LpWorking
<1>2. UNCHANGED <<tablesMu, tablesState, dateFill, lpTables, lpPartitioned, lakeVars, hepLines, lpRestarts,
                  metBefore, unchecked>>
  BY DEF LpNextTable, cacheVars, lakeVars
<1>3. CASE lpTodo[w] = {} /\ Finish(w, "ok", lpMissing[w])
  <2>1. lpMissing[w] = {}
    BY <1>1, <1>3 DEF LpHandler
  <2>2. QED
    BY <1>1, <1>2, <1>3, <2>1, LpFinishKept
<1>4. ASSUME NEW p \in lpTodo[w],
             lpRows' = [lpRows EXCEPT ![w] = {q \in lpTodo[w] : q.table = p.table}],
             lpTodo' = [lpTodo EXCEPT ![w] = @ \ lpRows'[w]],
             lpPc' = [lpPc EXCEPT ![w] = "ensure"],
             UNCHANGED <<lpMissing, shortAnswer>>
      PROVE  LpInv'
  <2>1. /\ lpPc'[w] = "ensure" /\ lpRows'[w] = {q \in lpTodo[w] : q.table = p.table}
        /\ lpTodo'[w] = lpTodo[w] \ lpRows'[w] /\ lpTodo[w] \subseteq Points
        /\ \A v \in Writers \ {w} : lpPc'[v] = lpPc[v] /\ lpTodo'[v] = lpTodo[v] /\ lpRows'[v] = lpRows[v]
    BY <1>1, <1>4 DEF LpTypeOK
  <2>2. LpAside(w)
    BY <1>2, <1>4, <2>1 DEF LpAside
  <2>3. LpTypeOK' /\ AnsweredPointsStored'
    <3>1. lpRows' \in [Writers -> SUBSET Points] /\ lpTodo' \in [Writers -> SUBSET Points]
      BY <1>1, <1>4, <2>1 DEF LpTypeOK
    <3>2. QED
      BY <1>1, <1>2, <1>4, <3>1 DEF LpTypeOK, LpInv, AnsweredPointsStored
  <2>4. LpCaches'
    BY <1>1, <1>2, <1>4, <2>1, LpCachesKept
  <2>5. LpHandler(w)'
    <3>1. p \in lpRows'[w] /\ lpTodo[w] \subseteq lpTodo'[w] \cup lpRows'[w]
      BY <2>1
    <3>2. QED
      BY <1>1, <1>2, <1>4, <2>1, <3>1 DEF LpHandler, LpWorking
  <2>6. QED
    BY <2>2, <2>3, <2>4, <2>5, LpStepKept
<1>5. QED
  BY <1>3, <1>4 DEF LpNextTable

LEMMA LpEnsureTableStep ==
    ASSUME LpInv, NEW w \in Writers, LpEnsureTable(w)
    PROVE  LpInv'
<1> DEFINE t == tableOf(w)
           cols == colTypes(w) \cup {date}
<1>1. /\ LpTypeOK /\ LpHandler(w) /\ LpCaches /\ tablesMu = NoOne /\ tablesMu # w
      /\ lpPc[w] = "ensure" /\ lpPc[w] \in LpWorking
  BY LpPointFacts DEF LpInv, LpEnsureTable, LpWorking
<1>2. UNCHANGED <<dateFill, lpPartitioned, hepLines, lpRestarts, unchecked>>
  BY DEF LpEnsureTable
<1>3. /\ lpRows[w] # {} /\ t \in AllTables /\ colTypes(w) \subseteq AllCols
      /\ \A p \in lpRows[w] : p.table = t /\ p.cols \subseteq colTypes(w)
  BY <1>1, LpBatchFacts
<1>4. \A s : LpSettled(s)' <=> LpSettled(s)
  BY <1>2 DEF LpSettled
<1>5. CASE /\ tablesState[t] = {}
           /\ lpTables' = IF lpTables[t] = {} THEN [lpTables EXCEPT ![t] = cols] ELSE lpTables
           /\ tablesState' = [tablesState EXCEPT ![t] = cols]
           /\ metBefore' = IF lpTables[t] = {} THEN metBefore ELSE metBefore \cup {t}
           /\ tablesMu' = w
           /\ lpPc' = [lpPc EXCEPT ![w] = "partition"]
           /\ UNCHANGED <<lpTodo, lpRows, lpMissing, shortAnswer>>
  <2> HIDE DEF t, cols
  <2>1. cols \subseteq AllCols /\ colTypes(w) \subseteq cols
    BY <1>3, LpPointFacts DEF cols
  <2>2. /\ lpPc'[w] = "partition" /\ \A v \in Writers \ {w} : lpPc'[v] = lpPc[v]
        /\ tablesState'[t] = cols
        /\ \A s \in AllTables \ {t} : tablesState'[s] = tablesState[s] /\ lpTables'[s] = lpTables[s]
    BY <1>1, <1>3, <1>5 DEF LpTypeOK
  <2>3. LpAside(w)
    BY <1>1, <1>2, <1>5, <2>2, LpPointFacts DEF LpAside
  <2>4. LpTypeOK'
    <3>1. tablesState' \in [AllTables -> SUBSET AllCols] /\ lpTables' \in [AllTables -> SUBSET AllCols]
      BY <1>1, <1>5, <2>1 DEF LpTypeOK
    <3>2. lpPc' \in [Writers -> {"idle", "schema", "next", "ensure", "partition", "alter", "insert", "hep"}]
      BY <1>1, <1>5 DEF LpTypeOK
    <3>3. metBefore' \subseteq AllTables /\ tablesMu' \in Writers \cup {NoOne}
      BY <1>1, <1>3, <1>5 DEF LpTypeOK
    <3>4. QED
      BY <1>1, <1>2, <1>5, <3>1, <3>2, <3>3 DEF LpTypeOK
  <2>5. AnsweredPointsStored'
    BY <1>5 DEF LpInv, AnsweredPointsStored
  <2>6. LpCaches'
    <3>1. ASSUME NEW s \in AllTables, s \notin metBefore'
          PROVE  tablesState'[s] \subseteq lpTables'[s]
      <4>1. CASE s = t
        BY <1>1, <1>3, <1>5, <2>2, <3>1, <4>1 DEF LpTypeOK
      <4>2. CASE s # t
        BY <1>1, <1>5, <2>2, <3>1, <4>2 DEF LpCaches
      <4>3. QED
        BY <4>1, <4>2
    <3>2. ASSUME NEW s \in AllTables, tablesState'[s] # {}
          PROVE  \/ LpSettled(s)'
                 \/ \E v \in Writers : lpPc'[v] = "partition" /\ \A p \in lpRows'[v] : p.table = s
      <4>1. CASE s = t
        BY <1>3, <1>5, <2>2, <4>1
      <4>2. CASE s # t
        <5>1. \/ LpSettled(s)
              \/ \E v \in Writers : lpPc[v] = "partition" /\ \A p \in lpRows[v] : p.table = s
          BY <1>1, <2>2, <3>2, <4>2 DEF LpCaches
        <5>2. \A v \in Writers : lpPc[v] = "partition" => v # w
          BY <1>1
        <5>3. QED
          BY <1>4, <1>5, <2>2, <5>1, <5>2
      <4>3. QED
        BY <4>1, <4>2
    <3>3. QED
      BY <3>1, <3>2 DEF LpCaches
  <2>7. LpHandler(w)'
    <3>1. \A p \in lpRows[w] : p.cols \subseteq tablesState'[p.table]
      BY <1>3, <2>1, <2>2
    <3>2. QED
      BY <1>1, <1>5, <2>2, <3>1 DEF LpHandler, LpWorking
  <2>8. QED
    BY <2>3, <2>4, <2>5, <2>6, <2>7, LpStepKept
<1>6. CASE /\ Finish(w, "failed", lpMissing[w])
           /\ UNCHANGED <<lpTables, tablesState, metBefore, tablesMu>>
  BY <1>1, <1>2, <1>6, LpFinishKept DEF lakeVars
<1>7. CASE /\ tablesState[t] # {}
           /\ IF colTypes(w) \subseteq tablesState[t]
              THEN lpPc' = [lpPc EXCEPT ![w] = "insert"] /\ UNCHANGED tablesMu
              ELSE lpPc' = [lpPc EXCEPT ![w] = "alter"] /\ tablesMu' = w
           /\ UNCHANGED <<lpTables, tablesState, metBefore, lpTodo, lpRows, lpMissing, shortAnswer>>
  <2>1. /\ \A v \in Writers \ {w} : lpPc'[v] = lpPc[v]
        /\ lpPc' \in [Writers -> {"idle", "schema", "next", "ensure", "partition", "alter", "insert", "hep"}]
        /\ \/ colTypes(w) \subseteq tablesState[t] /\ lpPc'[w] = "insert" /\ tablesMu' = tablesMu
           \/ lpPc'[w] = "alter" /\ tablesMu' = w
    BY <1>1, <1>7 DEF LpTypeOK
  <2>2. LpAside(w)
    BY <1>1, <1>2, <1>7, <2>1, LpPointFacts DEF LpAside
  <2>3. LpTypeOK' /\ AnsweredPointsStored'
    BY <1>1, <1>2, <1>7, <2>1 DEF LpTypeOK, LpInv, AnsweredPointsStored
  <2>4. LpCaches'
    BY <1>1, <1>2, <1>7, <2>1, LpCachesKept
  <2>5. LpSettled(t)
    <3>1. ASSUME NEW v \in Writers, lpPc[v] = "partition"
          PROVE  FALSE
      BY <1>1, <3>1, LpPointFacts DEF LpInv, LpHandler
    <3>2. QED
      BY <1>1, <1>3, <1>7, <3>1 DEF LpCaches
  <2>6. LpHandler(w)'
    <3>1. \A p \in lpRows[w] : LpSettled(p.table)'
      BY <1>3, <1>4, <2>5
    <3>2. lpPc'[w] = "insert" => \A p \in lpRows[w] : p.cols \subseteq tablesState'[p.table]
      BY <1>3, <1>7, <2>1
    <3>3. lpPc'[w] \in {"alter", "insert"} /\ (lpPc'[w] = "alter" <=> tablesMu' = w)
      BY <1>1, <2>1
    <3> HIDE DEF t, cols
    <3>4. QED
      BY <1>1, <1>7, <3>1, <3>2, <3>3 DEF LpHandler, LpWorking
  <2>7. QED
    BY <2>2, <2>3, <2>4, <2>6, LpStepKept
<1>8. QED
  BY <1>5, <1>6, <1>7 DEF LpEnsureTable, CreateTable

LEMMA LpPartitionStep ==
    ASSUME LpInv, NEW w \in Writers, LpPartition(w)
    PROVE  LpInv'
<1> DEFINE t == tableOf(w)
<1>1. /\ LpTypeOK /\ LpHandler(w) /\ LpCaches /\ lpPc[w] = "partition" /\ tablesMu = w
      /\ lpPc[w] \in LpWorking
  BY DEF LpInv, LpPartition, LpWorking, LpHandler
<1>2. /\ tablesMu' = NoOne /\ lpPc' = [lpPc EXCEPT ![w] = "insert"]
      /\ UNCHANGED <<lpTodo, lpRows, tablesState, hepLines, lpRestarts, lpMissing, shortAnswer, metBefore>>
  BY DEF LpPartition
<1>3. /\ t \in AllTables /\ \A p \in lpRows[w] : p.table = t
  BY <1>1, LpBatchFacts
<1>4. /\ lpTables' = [lpTables EXCEPT ![t] = @ \cup {date}] \/ lpTables' = lpTables
      /\ dateFill \subseteq dateFill' /\ dateFill' \subseteq AllTables
      /\ unchecked \subseteq unchecked' /\ unchecked' \subseteq AllTables
      /\ lpPartitioned' \subseteq AllTables /\ t \in dateFill' \cup unchecked'
  <2>1. EnsureDatePartition(t) /\ {dateFill, lpPartitioned, unchecked} \subseteq SUBSET AllTables
    BY <1>1 DEF LpPartition, LpTypeOK
  <2> HIDE DEF t
  <2>2. /\ lpTables' = [lpTables EXCEPT ![t] = @ \cup {date}] \/ lpTables' = lpTables
        /\ dateFill' \in {dateFill, dateFill \cup {t}}
        /\ unchecked' \in {unchecked, unchecked \cup {t}}
        /\ lpPartitioned' \in {lpPartitioned, lpPartitioned \cup {t}}
        /\ t \in dateFill' \cup unchecked'
    BY <2>1 DEF EnsureDatePartition
  <2>3. QED
    BY <1>3, <2>1, <2>2
<1> HIDE DEF t
<1>5. /\ lpPc'[w] = "insert" /\ \A v \in Writers \ {w} : lpPc'[v] = lpPc[v]
      /\ \A s \in AllTables : lpTables[s] \subseteq lpTables'[s]
      /\ lpTables' \in [AllTables -> SUBSET AllCols]
      /\ \A s : LpSettled(s) => LpSettled(s)'
  <2>1. lpPc'[w] = "insert" /\ \A v \in Writers \ {w} : lpPc'[v] = lpPc[v]
    BY <1>1, <1>2 DEF LpTypeOK
  <2>2. \A s \in AllTables : lpTables[s] \subseteq lpTables'[s]
    BY <1>1, <1>3, <1>4 DEF LpTypeOK
  <2>3. lpTables' \in [AllTables -> SUBSET AllCols]
    BY <1>1, <1>3, <1>4, LpPointFacts DEF LpTypeOK
  <2>4. QED
    BY <1>4, <2>1, <2>2, <2>3 DEF LpSettled
<1>6. LpAside(w)
  BY <1>1, <1>2, <1>4, <1>5, LpPointFacts DEF LpAside
<1>7. LpTypeOK' /\ AnsweredPointsStored'
  BY <1>1, <1>2, <1>4, <1>5 DEF LpTypeOK, LpInv, AnsweredPointsStored
<1>8. LpCaches'
  <2>1. \A s \in AllTables \ metBefore' : tablesState'[s] \subseteq lpTables'[s]
    BY <1>1, <1>2, <1>5 DEF LpCaches
  <2>2. ASSUME NEW s \in AllTables, tablesState'[s] # {}
        PROVE  \/ LpSettled(s)'
               \/ \E v \in Writers : lpPc'[v] = "partition" /\ \A p \in lpRows'[v] : p.table = s
    <3>1. lpRows[w] # {}
      BY <1>1, LpBatchFacts
    <3>2. \/ LpSettled(s)
          \/ \E v \in Writers : lpPc[v] = "partition" /\ \A p \in lpRows[v] : p.table = s
      BY <1>1, <1>2, <2>2 DEF LpCaches
    <3>3. (\A p \in lpRows[w] : p.table = s) => s = t
      BY <1>3, <3>1
    <3>4. CASE LpSettled(s)
      BY <1>5, <3>4
    <3>5. ASSUME NEW v \in Writers, lpPc[v] = "partition", \A p \in lpRows[v] : p.table = s
          PROVE  \/ LpSettled(s)'
                 \/ \E u \in Writers : lpPc'[u] = "partition" /\ \A p \in lpRows'[u] : p.table = s
      <4>1. CASE v = w
        BY <1>4, <3>3, <3>5, <4>1 DEF LpSettled
      <4>2. CASE v # w
        BY <1>2, <1>5, <3>5, <4>2
      <4>3. QED
        BY <4>1, <4>2
    <3>6. QED
      BY <3>2, <3>4, <3>5
  <2>3. QED
    BY <2>1, <2>2 DEF LpCaches
<1>9. LpHandler(w)'
  <2>1. \A p \in lpRows[w] : p.cols \subseteq tablesState[p.table]
    BY <1>1 DEF LpHandler
  <2>2. tablesMu' # w
    BY <1>2, LpPointFacts
  <2>3. \A p \in lpRows'[w] : p.cols \subseteq tablesState'[p.table] /\ LpSettled(p.table)'
    BY <1>2, <1>3, <1>4, <2>1 DEF LpSettled
  <2>4. /\ lpRows'[w] # {} /\ \A p, q \in lpRows'[w] : p.table = q.table
        /\ lpMissing'[w] \subseteq lpTodo'[w] \cup lpRows'[w]
    BY <1>1, <1>2 DEF LpHandler
  <2>5. QED
    BY <1>5, <2>2, <2>3, <2>4 DEF LpHandler, LpWorking
<1>10. QED
  BY <1>6, <1>7, <1>8, <1>9, LpStepKept

LEMMA LpAlterStep ==
    ASSUME LpInv, NEW w \in Writers, LpAlter(w)
    PROVE  LpInv'
<1> DEFINE t == tableOf(w)
           missing == colTypes(w) \ tablesState[t]
<1>1. /\ LpTypeOK /\ LpHandler(w) /\ LpCaches /\ lpPc[w] = "alter" /\ tablesMu = w
      /\ lpPc[w] \in LpWorking
  BY DEF LpInv, LpAlter, LpWorking, LpHandler
<1>2. UNCHANGED <<dateFill, lpPartitioned, hepLines, lpRestarts, metBefore, unchecked>>
  BY DEF LpAlter
<1>3. /\ t \in AllTables /\ colTypes(w) \subseteq AllCols /\ lpRows[w] # {}
      /\ \A p \in lpRows[w] : p.table = t /\ p.cols \subseteq colTypes(w)
  BY <1>1, LpBatchFacts
<1>4. LpSettled(t) /\ \A s : LpSettled(s)' <=> LpSettled(s)
  BY <1>1, <1>2, <1>3 DEF LpHandler, LpSettled
<1>5. CASE /\ missing = {}
           /\ tablesMu' = NoOne
           /\ lpPc' = [lpPc EXCEPT ![w] = "insert"]
           /\ UNCHANGED <<tablesState, lpTables, lpTodo, lpRows, lpMissing, shortAnswer>>
  <2>1. lpPc'[w] = "insert" /\ \A v \in Writers \ {w} : lpPc'[v] = lpPc[v]
    BY <1>1, <1>5 DEF LpTypeOK
  <2>2. LpAside(w)
    BY <1>1, <1>2, <1>5, <2>1, LpPointFacts DEF LpAside
  <2>3. LpTypeOK' /\ AnsweredPointsStored'
    BY <1>1, <1>2, <1>5 DEF LpTypeOK, LpInv, AnsweredPointsStored
  <2>4. LpCaches'
    BY <1>1, <1>2, <1>5, <2>1, LpCachesKept
  <2>5. LpHandler(w)'
    <3>1. \A p \in lpRows[w] : p.cols \subseteq tablesState[p.table]
      BY <1>3, <1>5
    <3>2. tablesMu' # w
      BY <1>5, LpPointFacts
    <3>3. \A p \in lpRows[w] : LpSettled(p.table)'
      BY <1>3, <1>4
    <3> HIDE DEF t, missing
    <3>4. QED
      BY <1>1, <1>5, <2>1, <3>1, <3>2, <3>3 DEF LpHandler, LpWorking
  <2>6. QED
    BY <2>2, <2>3, <2>4, <2>5, LpStepKept
<1>6. ASSUME NEW n \in missing, AddColumn(t, n),
             UNCHANGED <<lpPc, tablesMu, lpTodo, lpRows, lpMissing, shortAnswer>>
      PROVE  LpInv'
  <2>1. n \in AllCols
    BY <1>3
  <2> HIDE DEF t, missing
  <2>2. /\ tablesState'[t] = tablesState[t] \cup {n} /\ lpTables'[t] = lpTables[t] \cup {n}
        /\ \A s \in AllTables \ {t} : tablesState'[s] = tablesState[s] /\ lpTables'[s] = lpTables[s]
        /\ tablesState' \in [AllTables -> SUBSET AllCols] /\ lpTables' \in [AllTables -> SUBSET AllCols]
    BY <1>1, <1>3, <1>6, <2>1 DEF AddColumn, LpTypeOK
  <2>3. \A s \in AllTables : tablesState[s] \subseteq tablesState'[s]
    BY <2>2
  <2>4. LpAside(w)
    BY <1>2, <1>6, <2>3 DEF LpAside
  <2>5. LpTypeOK' /\ AnsweredPointsStored'
    BY <1>1, <1>2, <1>6, <2>2 DEF LpTypeOK, LpInv, AnsweredPointsStored
  <2>6. LpCaches'
    <3>1. \A s \in AllTables \ metBefore' : tablesState'[s] \subseteq lpTables'[s]
      BY <1>1, <1>2, <2>2 DEF LpCaches
    <3>2. ASSUME NEW s \in AllTables, tablesState'[s] # {}
          PROVE  \/ LpSettled(s)'
                 \/ \E v \in Writers : lpPc'[v] = "partition" /\ \A p \in lpRows'[v] : p.table = s
      <4>1. CASE s = t
        BY <1>4, <4>1
      <4>2. CASE s # t
        BY <1>1, <1>4, <1>6, <2>2, <3>2, <4>2 DEF LpCaches
      <4>3. QED
        BY <4>1, <4>2
    <3>3. QED
      BY <3>1, <3>2 DEF LpCaches
  <2>7. LpHandler(w)'
    <3>1. \A p \in lpRows[w] : LpSettled(p.table)'
      BY <1>3, <1>4
    <3>2. QED
      BY <1>1, <1>6, <3>1 DEF LpHandler, LpWorking
  <2>8. QED
    BY <2>4, <2>5, <2>6, <2>7, LpStepKept
<1>7. CASE /\ tablesMu' = NoOne
           /\ Finish(w, "failed", lpMissing[w])
           /\ UNCHANGED <<tablesState, lpTables>>
  BY <1>1, <1>2, <1>7, LpFinishKept, LpPointFacts DEF lakeVars
<1>8. QED
  BY <1>5, <1>6, <1>7 DEF LpAlter

LEMMA LpInsertStep ==
    ASSUME LpInv, NEW w \in Writers, LpInsert(w)
    PROVE  LpInv'
<1>1. LpTypeOK /\ LpHandler(w) /\ tablesMu # w /\ lpPc[w] = "insert"
  BY DEF LpInv, LpInsert, LpHandler
<1>2. UNCHANGED <<tablesMu, tablesState, dateFill, lpTables, lpPartitioned, lakeVars, hepLines, lpRestarts,
                  metBefore, unchecked>>
  BY DEF LpInsert, cacheVars, lakeVars
<1>3. CASE Finish(w, "failed", lpMissing[w])
  BY <1>1, <1>2, <1>3, LpFinishKept
<1>4. ASSUME NEW bucket \in SUBSET lpRows[w],
             lpMissing' = [lpMissing EXCEPT ![w] = @ \ bucket],
             lpRows' = [lpRows EXCEPT ![w] = @ \ bucket],
             lpPc' = [lpPc EXCEPT ![w] = IF lpRows[w] = bucket THEN "next" ELSE "insert"],
             UNCHANGED <<lpTodo, shortAnswer>>
      PROVE  LpInv'
  <2>1. /\ lpPc'[w] = (IF lpRows[w] = bucket THEN "next" ELSE "insert")
        /\ lpRows'[w] = lpRows[w] \ bucket /\ lpMissing'[w] = lpMissing[w] \ bucket
        /\ \A v \in Writers \ {w} :
              lpPc'[v] = lpPc[v] /\ lpRows'[v] = lpRows[v] /\ lpMissing'[v] = lpMissing[v]
    BY <1>1, <1>4 DEF LpTypeOK
  <2>2. LpAside(w)
    BY <1>2, <1>4, <2>1 DEF LpAside
  <2>3. LpTypeOK' /\ AnsweredPointsStored'
    <3>1. lpRows' \in [Writers -> SUBSET Points] /\ lpMissing' \in [Writers -> SUBSET Points]
      BY <1>1, <1>4 DEF LpTypeOK
    <3>2. lpPc' \in [Writers -> {"idle", "schema", "next", "ensure", "partition", "alter", "insert", "hep"}]
      BY <1>1, <1>4 DEF LpTypeOK
    <3>3. QED
      BY <1>1, <1>2, <1>4, <3>1, <3>2 DEF LpTypeOK, LpInv, AnsweredPointsStored
  <2>4. LpCaches'
    BY <1>1, <1>2, <2>1, LpCachesKept
  <2>5. LpHandler(w)'
    <3>1. \A s : LpSettled(s)' <=> LpSettled(s)
      BY <1>2 DEF LpSettled
    <3>2. CASE lpRows[w] = bucket
      BY <1>1, <1>2, <1>4, <2>1, <3>2 DEF LpHandler, LpWorking
    <3>3. CASE lpRows[w] # bucket
      <4>1. lpPc'[w] = "insert" /\ lpRows'[w] # {} /\ lpRows'[w] \subseteq lpRows[w]
        BY <2>1, <3>3
      <4>2. lpMissing'[w] \subseteq lpTodo'[w] \cup lpRows'[w]
        BY <1>1, <1>4, <2>1 DEF LpHandler
      <4>3. QED
        BY <1>1, <1>2, <3>1, <4>1, <4>2 DEF LpHandler, LpWorking
    <3>4. QED
      BY <3>2, <3>3
  <2>6. QED
    BY <2>2, <2>3, <2>4, <2>5, LpStepKept
<1>5. PICK p \in lpRows[w] :
        LET bucket == {q \in lpRows[w] : q.cols = p.cols}
        IN  \/ /\ lpMissing' = [lpMissing EXCEPT ![w] = @ \ bucket]
               /\ lpRows' = [lpRows EXCEPT ![w] = @ \ bucket]
               /\ lpPc' = [lpPc EXCEPT ![w] = IF lpRows[w] = bucket THEN "next" ELSE "insert"]
               /\ UNCHANGED <<lpTodo, shortAnswer>>
            \/ AfterFailedBucket(w, bucket)
  BY DEF LpInsert
<1>6. DEFINE bucket == {q \in lpRows[w] : q.cols = p.cols}
<1>7. bucket \in SUBSET lpRows[w]
  OBVIOUS
<1>8. QED
  BY <1>3, <1>4, <1>5, <1>7 DEF AfterFailedBucket

LEMMA LpRestartStep ==
    ASSUME LpInv, LpRestart
    PROVE  LpInv'
<1>1. LpTypeOK /\ MaxRestarts \in Nat
  BY LineProtoAssumption DEF LpInv
<1>2. LpTypeOK'
  <2>1. /\ lpRestarts' \in 0..MaxRestarts
        /\ hepLines' = hepLines /\ lpTables' = lpTables /\ lpPartitioned' = lpPartitioned
    BY <1>1 DEF LpTypeOK, LpRestart, lakeVars
  <2>2. /\ lpPc' \in [Writers -> {"idle", "schema", "next", "ensure", "partition",
                                 "alter", "insert", "hep"}]
        /\ lpTodo' \in [Writers -> SUBSET Points]
        /\ lpRows' \in [Writers -> SUBSET Points]
        /\ lpMissing' \in [Writers -> SUBSET Points]
    BY DEF LpRestart
  <2>3. /\ tablesMu' \in Writers \cup {NoOne}
        /\ tablesState' \in [AllTables -> SUBSET AllCols]
        /\ {dateFill', metBefore', unchecked'} \subseteq SUBSET AllTables
    BY DEF LpRestart
  <2>4. shortAnswer' \in BOOLEAN
    BY <1>1 DEF LpTypeOK, LpRestart
  <2>5. QED
    BY <1>1, <2>1, <2>2, <2>3, <2>4 DEF LpTypeOK
<1>3. LpCaches' /\ AnsweredPointsStored'
  BY DEF LpRestart, LpCaches, AnsweredPointsStored
<1>4. \A w \in Writers : LpHandler(w)'
  BY LpPointFacts DEF LpRestart, LpHandler, LpWorking
<1>5. QED
  BY <1>2, <1>3, <1>4 DEF LpInv

LEMMA LpInductive ==
    ASSUME LpInv, [LpNext]_lpVars
    PROVE  LpInv'
<1>1. CASE UNCHANGED lpVars
  <2>1. UNCHANGED <<lpPc, lpTodo, lpRows, tablesMu, tablesState, dateFill, lpTables, lpPartitioned, hepLines,
                    lpRestarts, lpMissing, shortAnswer, metBefore, unchecked>>
    BY <1>1 DEF lpVars, cacheVars, lakeVars
  <2>2. LpTypeOK' /\ AnsweredPointsStored'
    BY <2>1 DEF LpInv, LpTypeOK, AnsweredPointsStored
  <2>3. LpCaches'
    BY <2>1, LpCachesKept
  <2>4. \A w \in Writers : LpHandler(w)'
    BY <2>1 DEF LpInv, LpHandler, LpSettled
  <2>5. QED
    BY <2>2, <2>3, <2>4 DEF LpInv
<1>2. CASE LpNext
  BY <1>2, LpReceiveStep, LpHepStep, LpEnsureSchemaStep, LpNextTableStep, LpEnsureTableStep,
     LpPartitionStep, LpAlterStep, LpInsertStep, LpRestartStep DEF LpNext
<1>3. QED
  BY <1>1, <1>2

LEMMA LpInitInv ==
    ASSUME LpInit
    PROVE  LpInv
<1>1. LpTypeOK
  <2>1. /\ lpPc \in [Writers -> {"idle", "schema", "next", "ensure", "partition",
                                "alter", "insert", "hep"}]
        /\ lpTodo \in [Writers -> SUBSET Points]
        /\ lpRows \in [Writers -> SUBSET Points]
        /\ lpMissing \in [Writers -> SUBSET Points]
    BY DEF LpInit
  <2>2. /\ tablesMu \in Writers \cup {NoOne}
        /\ tablesState \in [AllTables -> SUBSET AllCols]
        /\ lpTables \in [AllTables -> SUBSET AllCols]
        /\ {dateFill, lpPartitioned, metBefore, unchecked} \subseteq SUBSET AllTables
    BY DEF LpInit
  <2>3. lpRestarts \in 0..MaxRestarts
    BY LineProtoAssumption DEF LpInit
  <2>4. hepLines \in {"structured", "prefixed"} /\ shortAnswer \in BOOLEAN
    BY DEF LpInit
  <2>5. QED
    BY <2>1, <2>2, <2>3, <2>4 DEF LpTypeOK
<1>2. LpCaches /\ AnsweredPointsStored
  BY DEF LpInit, LpCaches, AnsweredPointsStored
<1>3. \A w \in Writers : LpHandler(w)
  BY LpPointFacts DEF LpInit, LpHandler, LpWorking
<1>4. QED
  BY <1>1, <1>2, <1>3 DEF LpInv

LEMMA LpInvSafe ==
    ASSUME LpInv
    PROVE  LineProtoSafe
<1>1. ASSUME NEW p \in Inserting
      PROVE  /\ p.cols \subseteq lpTables[p.table] \/ p.table \in metBefore
             /\ LpSettled(p.table)
  <2>1. PICK w \in Writers : lpPc[w] = "insert" /\ p \in lpRows[w]
    BY DEF Inserting
  <2>2. LpHandler(w) /\ p \in Points
    BY <2>1 DEF LpInv, LpTypeOK
  <2>3. p.table \in AllTables
    BY <2>2, LpPointFacts
  <2>4. p.cols \subseteq tablesState[p.table] /\ LpSettled(p.table)
    BY <2>1, <2>2 DEF LpHandler
  <2>5. QED
    BY <2>3, <2>4 DEF LpInv, LpCaches
<1>2. ColumnsBelieved
  BY <1>1 DEF ColumnsBelieved, LpInv, LpCaches
<1>3. PartitionedRowsDated
  BY <1>1 DEF PartitionedRowsDated, LpSettled
<1>4. QED
  BY <1>2, <1>3 DEF LineProtoSafe, LpInv

-----------------------------------------------------------------------------
(* TableRouting.                                                            *)

TrBusy(w) == trPc[w] # "idle"

TrTypeInv ==
    /\ trQueue \in BOOLEAN /\ trTables \subseteq TrKeys
    /\ trActive \in [TrKeys -> {0, 1}] /\ trJob \in [TrKeys -> {0, 1}]
    /\ trMem \in [TrSuffixes -> [{0, 1} -> SUBSET TrRows]]
    /\ trLake \in [TrSuffixes -> [TrRows -> Nat]]
    /\ trWidth \in [TrSuffixes -> Nat]
    /\ trPc \in [TrWorkers -> {"idle", "create", "lock", "append"}]
    /\ trRow \in [TrWorkers -> TrRows \cup {0}]
    /\ trKind \in [TrWorkers -> TrKinds \cup {"none"}]
    /\ trSlot \in [TrWorkers -> {0, 1}]
    /\ trFlush \in [TrKeys -> {"idle", "insert", "truncate"}]
    /\ trSwaps \in Nat
    /\ trUsed \subseteq TrRows /\ trMade \in [TrKeys -> Nat]
    /\ trRejected \subseteq TrRows /\ trLost \subseteq TrRows

\* A key has its TableWriter once, and a worker past the map has its own.
TrRoutes ==
    /\ \A k \in TrKeys : trMade[k] = IF k \in trTables THEN 1 ELSE 0
    /\ \A k \in TrKeys : trFlush[k] # "idle" => k \in trTables
    /\ \A w \in TrWorkers : TrBusy(w) => trKind[w] \in TrKinds
    /\ \A w \in TrWorkers : trPc[w] \in {"lock", "append"} => getTableKey(trKind[w]) \in trTables

\* Without the key "1/" every table has the columns of its only key.
TrWidths ==
    "1/" \notin trTables =>
        /\ \A k \in trTables : trWidth[TableSuffix(k)] = SchemaWidth(k)
        /\ \A s \in TrSuffixes : (\A k \in trTables : TableSuffix(k) # s) => trWidth[s] = 0
        /\ trRejected = {}

TrNowhere(r) == \A s \in TrSuffixes : trLake[s][r] = 0 /\ \A i \in {0, 1} : r \notin trMem[s][i]

\* A row not yet appended is nowhere, and with one worker.
TrHands ==
    /\ \A r \in TrRows \ trUsed : TrNowhere(r)
    /\ \A w \in TrWorkers : TrBusy(w) => trRow[w] \in trUsed /\ TrNowhere(trRow[w])
    /\ \A w, v \in TrWorkers : TrBusy(w) /\ TrBusy(v) /\ trRow[w] = trRow[v] => w = v

\* The slot locks of a TableWriter.
TrSlotLocks ==
    \A w \in TrWorkers : trPc[w] = "append" => ~TrWriteLocked(getTableKey(trKind[w]), trSlot[w])

\* One key has the suffix.
TrLone(s) == \A k, l \in trTables : TableSuffix(k) = s /\ TableSuffix(l) = s => k = l

\* The rows of a suffix with one key are in one slot, or in the lake, or in both
\* between INSERT and TRUNCATE.
TrRowsOf(s) ==
    /\ \A r \in TrRows : trLake[s][r] <= 1 /\ ~(r \in trMem[s][0] /\ r \in trMem[s][1])
    /\ \A i \in {0, 1} : \A r \in trMem[s][i] : trLake[s][r] = 1 =>
          \E k \in trTables : TableSuffix(k) = s /\ trFlush[k] = "truncate" /\ trJob[k] = i
    /\ \A k \in trTables : TableSuffix(k) = s /\ trFlush[k] = "truncate" =>
          \A r \in trMem[s][trJob[k]] : trLake[s][r] = 1

TrRowsKept ==
    /\ \A s \in TrSuffixes : TrLone(s) => TrRowsOf(s)
    /\ (\A s \in TrSuffixes : TrLone(s)) => trLost = {}

TrInv == TrTypeInv /\ TrRoutes /\ TrWidths /\ TrHands /\ TrSlotLocks /\ TrRowsKept


LEMMA TrKeyFacts ==
    /\ \A kind \in TrKinds : getTableKey(kind) \in TrKeys
    /\ \A k \in TrKeys : TableSuffix(k) \in TrSuffixes
    /\ \A k, l \in TrKeys : TableSuffix(k) = TableSuffix(l) /\ k # "1/" /\ l # "1/" => k = l
    /\ \A k \in TrKeys : SchemaWidth(k) \in Nat \ {0}
    /\ \A kind \in TrKinds : getTableKey(kind) # "1/" => RowWidth(kind) = SchemaWidth(getTableKey(kind))
    /\ \A kind \in TrKinds : getTableKey(kind) = "1/" => kind = "ping"
    /\ IsFiniteSet(TrKeys)
<1>1. \A k \in TrKeys : k \in {"1/call", "1/registration", "1/default", "1/", "5/", "53/", "100/", "56/"}
  BY DEF TrKeys, getTableKey
<1>2. \A k, l \in TrKeys : TableSuffix(k) = TableSuffix(l) /\ k # "1/" /\ l # "1/" => k = l
  BY <1>1 DEF TableSuffix
<1>3. \A k \in TrKeys : SchemaWidth(k) \in Nat \ {0}
  BY <1>1 DEF SchemaWidth
<1>4. \A kind \in TrKinds : getTableKey(kind) # "1/" => RowWidth(kind) = SchemaWidth(getTableKey(kind))
  BY TableRoutingAssumption DEF getTableKey, RowWidth, SchemaWidth
<1>5. \A kind \in TrKinds : getTableKey(kind) = "1/" => kind = "ping"
  BY TableRoutingAssumption DEF getTableKey
<1>6. IsFiniteSet(TrKeys)
  <2>1. IsFiniteSet({"1/call", "1/registration", "1/default", "1/", "5/", "53/", "100/", "56/"})
    <3>1. IsFiniteSet({})
      BY FS_EmptySet
    <3>2. IsFiniteSet({"1/call"}) /\ IsFiniteSet({"1/registration"}) /\ IsFiniteSet({"1/default"})
          /\ IsFiniteSet({"1/"}) /\ IsFiniteSet({"5/"}) /\ IsFiniteSet({"53/"})
          /\ IsFiniteSet({"100/"}) /\ IsFiniteSet({"56/"})
      BY FS_Singleton
    <3>3. IsFiniteSet({"1/call"} \cup {"1/registration"}) /\ IsFiniteSet({"1/default"} \cup {"1/"})
          /\ IsFiniteSet({"5/"} \cup {"53/"}) /\ IsFiniteSet({"100/"} \cup {"56/"})
      BY <3>2, FS_Union
    <3>4. IsFiniteSet(({"1/call"} \cup {"1/registration"}) \cup ({"1/default"} \cup {"1/"}))
          /\ IsFiniteSet(({"5/"} \cup {"53/"}) \cup ({"100/"} \cup {"56/"}))
      BY <3>3, FS_Union
    <3>5. IsFiniteSet((({"1/call"} \cup {"1/registration"}) \cup ({"1/default"} \cup {"1/"}))
                      \cup (({"5/"} \cup {"53/"}) \cup ({"100/"} \cup {"56/"})))
      BY <3>4, FS_Union
    <3>6. {"1/call", "1/registration", "1/default", "1/", "5/", "53/", "100/", "56/"}
            = (({"1/call"} \cup {"1/registration"}) \cup ({"1/default"} \cup {"1/"}))
              \cup (({"5/"} \cup {"53/"}) \cup ({"100/"} \cup {"56/"}))
      OBVIOUS
    <3>7. QED
      BY <3>5, <3>6
  <2>2. TrKeys \subseteq {"1/call", "1/registration", "1/default", "1/", "5/", "53/", "100/", "56/"}
    BY <1>1
  <2>3. QED
    BY <2>1, <2>2, FS_Subset
<1>7. (\A kind \in TrKinds : getTableKey(kind) \in TrKeys) /\ \A k \in TrKeys : TableSuffix(k) \in TrSuffixes
  BY DEF TrKeys, TrSuffixes
<1>8. QED
  BY <1>2, <1>3, <1>4, <1>5, <1>6, <1>7

LEMMA TrWriteStep ==
    ASSUME TrInv, NEW w \in TrWorkers, NEW r \in TrRows, NEW kind \in TrKinds, TrWrite(w, r, kind)
    PROVE  TrInv'
<1> USE DEF TrInv
<1>1. /\ trPc[w] = "idle" /\ r \in TrRows \ trUsed /\ trUsed' = trUsed \cup {r}
      /\ trRow' = [trRow EXCEPT ![w] = r] /\ trKind' = [trKind EXCEPT ![w] = kind]
      /\ trPc' = [trPc EXCEPT ![w] = IF getTableKey(kind) \in trTables THEN "lock" ELSE "create"]
      /\ UNCHANGED <<trQueue, trTables, trActive, trMem, trLake, trWidth, trSlot, trFlush, trJob,
                     trSwaps, trMade, trRejected, trLost>>
  BY DEF TrWrite, TrGoes
<1>2. TrTypeInv'
  BY <1>1 DEF TrTypeInv
<1>3. TrRoutes'
  BY <1>1 DEF TrRoutes, TrTypeInv, TrBusy
<1>4. TrWidths'
  BY <1>1 DEF TrWidths
<1>5. TrHands'
  <2>1. \A x : TrNowhere(x)' <=> TrNowhere(x)
    BY <1>1 DEF TrNowhere
  <2>2. /\ trPc'[w] # "idle" /\ trRow'[w] = r
        /\ \A v \in TrWorkers \ {w} : trPc'[v] = trPc[v] /\ trRow'[v] = trRow[v]
    BY <1>1 DEF TrTypeInv
  <2>3. \A x \in TrRows \ trUsed' : TrNowhere(x)'
    BY <1>1, <2>1 DEF TrHands
  <2>4. \A v \in TrWorkers : TrBusy(v)' => trRow'[v] \in trUsed' /\ TrNowhere(trRow'[v])
    BY <1>1, <2>2 DEF TrHands, TrBusy
  <2>5. \A v, u \in TrWorkers : TrBusy(v)' /\ TrBusy(u)' /\ trRow'[v] = trRow'[u] => v = u
    BY <1>1, <2>2 DEF TrHands, TrBusy
  <2>6. \A v \in TrWorkers : TrBusy(v)' => trRow'[v] \in trUsed' /\ TrNowhere(trRow[v])'
    BY <1>1, <2>1, <2>2, <2>4 DEF TrNowhere
  <2>7. QED
    BY <1>1, <2>3, <2>4, <2>5 DEF TrHands, TrNowhere
<1>6. TrSlotLocks'
  BY <1>1 DEF TrSlotLocks, TrTypeInv, TrWriteLocked
<1>7. TrRowsKept'
  BY <1>1 DEF TrRowsKept, TrRowsOf, TrLone
<1>8. QED
  BY <1>2, <1>3, <1>4, <1>5, <1>6, <1>7

LEMMA TrGetOrCreateStep ==
    ASSUME TrInv, NEW w \in TrWorkers, TrGetOrCreate(w)
    PROVE  TrInv'
<1> USE DEF TrInv
<1> DEFINE key == getTableKey(trKind[w])
<1>1. /\ trPc[w] = "create" /\ trPc' = [trPc EXCEPT ![w] = "lock"]
      /\ UNCHANGED <<trQueue, trActive, trMem, trLake, trRow, trKind, trSlot, trFlush, trJob,
                     trSwaps, trUsed, trRejected, trLost>>
      /\ \/ key \in trTables /\ UNCHANGED <<trTables, trWidth, trMade>>
         \/ key \notin trTables /\ TrMake(key)
  BY DEF TrGetOrCreate, TrMissing, TrGoes
<1>2. key \in TrKeys /\ TableSuffix(key) \in TrSuffixes /\ trKind[w] \in TrKinds
  BY <1>1, TrKeyFacts DEF TrRoutes, TrBusy
<1>3. trTables \subseteq trTables' /\ trTables' = trTables \cup {key} /\ key \in trTables'
  BY <1>1 DEF TrMake
<1>4. TrTypeInv'
  <2>1. trTables' \subseteq TrKeys
    BY <1>2, <1>3 DEF TrTypeInv
  <2>2. trMade' \in [TrKeys -> Nat]
    BY <1>1, <1>2 DEF TrMake, TrTypeInv
  <2>3. trWidth' \in [TrSuffixes -> Nat]
    <3>1. SchemaWidth(key) \in Nat
      BY <1>2, TrKeyFacts
    <3>2. TrCreated(trWidth[TableSuffix(key)], key) \in Nat
      BY <3>1, <1>2 DEF TrCreated, TrTypeInv
    <3>3. QED
      BY <1>1, <1>2, <3>2 DEF TrMake, TrTypeInv
  <2>4. trPc' \in [TrWorkers -> {"idle", "create", "lock", "append"}]
    BY <1>1 DEF TrTypeInv
  <2>5. QED
    BY <1>1, <2>1, <2>2, <2>3, <2>4 DEF TrTypeInv
<1>5. TrRoutes'
  <2>1. \A k \in TrKeys : trMade'[k] = IF k \in trTables' THEN 1 ELSE 0
    BY <1>1, <1>2, <1>3 DEF TrMake, TrRoutes, TrTypeInv
  <2>2. \A k \in TrKeys : trFlush'[k] # "idle" => k \in trTables'
    BY <1>1, <1>3 DEF TrRoutes
  <2>3. \A v \in TrWorkers : trPc'[v] # "idle" => trKind'[v] \in TrKinds
    BY <1>1, <1>2 DEF TrRoutes, TrBusy, TrTypeInv
  <2>4. \A v \in TrWorkers : trPc'[v] \in {"lock", "append"} => getTableKey(trKind'[v]) \in trTables'
    BY <1>1, <1>3 DEF TrRoutes, TrTypeInv
  <2>5. QED
    BY <2>1, <2>2, <2>3, <2>4 DEF TrRoutes, TrBusy
<1>6. TrWidths'
  <2>1. SUFFICES ASSUME "1/" \notin trTables'
                 PROVE  /\ \A k \in trTables' : trWidth'[TableSuffix(k)] = SchemaWidth(k)
                        /\ \A s \in TrSuffixes : (\A k \in trTables' : TableSuffix(k) # s) => trWidth'[s] = 0
                        /\ trRejected' = {}
    BY DEF TrWidths
  <2>2. "1/" \notin trTables /\ key # "1/"
    BY <1>3, <2>1
  <2>3. CASE key \in trTables
    BY <1>1, <2>2, <2>3 DEF TrWidths, TrMake
  <2>4. CASE key \notin trTables
    <3>1. trWidth' = [trWidth EXCEPT ![TableSuffix(key)] = TrCreated(@, key)]
      BY <1>1, <2>4 DEF TrMake
    <3>2. \A k \in trTables : TableSuffix(k) # TableSuffix(key)
      BY <1>2, <2>2, <2>4, TrKeyFacts DEF TrTypeInv
    <3>3. trWidth[TableSuffix(key)] = 0
      BY <1>2, <2>2, <3>2 DEF TrWidths
    <3>4. trWidth'[TableSuffix(key)] = SchemaWidth(key)
      BY <1>2, <3>1, <3>3 DEF TrCreated, TrTypeInv
    <3>5. \A s \in TrSuffixes \ {TableSuffix(key)} : trWidth'[s] = trWidth[s]
      BY <3>1 DEF TrTypeInv
    <3>6. \A k \in trTables : TableSuffix(k) \in TrSuffixes \ {TableSuffix(key)}
      BY <3>2, TrKeyFacts DEF TrTypeInv
    <3>7. \A k \in trTables' : trWidth'[TableSuffix(k)] = SchemaWidth(k)
      BY <1>3, <2>2, <3>4, <3>5, <3>6 DEF TrWidths
    <3>8. \A s \in TrSuffixes : (\A k \in trTables' : TableSuffix(k) # s) => trWidth'[s] = 0
      BY <1>3, <2>2, <3>5 DEF TrWidths
    <3>9. QED
      BY <1>1, <2>2, <3>7, <3>8 DEF TrWidths
  <2>5. QED
    BY <2>3, <2>4
<1>7. TrHands'
  BY <1>1 DEF TrHands, TrBusy, TrNowhere, TrTypeInv
<1>8. TrSlotLocks'
  BY <1>1 DEF TrSlotLocks, TrTypeInv, TrWriteLocked
<1>9. TrRowsKept'
  <2>1. \A s \in TrSuffixes : TrLone(s)' => TrLone(s)
    BY <1>3 DEF TrLone
  <2>2. \A s \in TrSuffixes : TrRowsOf(s) => TrRowsOf(s)'
    <3>1. TAKE s \in TrSuffixes
    <3>2. HAVE TrRowsOf(s)
    <3>3. \A k \in trTables' : trFlush[k] = "truncate" => k \in trTables
      BY <1>2, <1>3 DEF TrRoutes, TrTypeInv
    <3>4. QED
      BY <1>1, <1>3, <3>2, <3>3 DEF TrRowsOf
  <2>3. QED
    BY <1>1, <2>1, <2>2 DEF TrRowsKept
<1>10. QED
  BY <1>4, <1>5, <1>6, <1>7, <1>8, <1>9

LEMMA TrLockActiveStep ==
    ASSUME TrInv, NEW w \in TrWorkers, TrLockActive(w)
    PROVE  TrInv'
<1> USE DEF TrInv
<1>1. /\ trPc[w] = "lock" /\ trPc' = [trPc EXCEPT ![w] = "append"]
      /\ ~TrWriteLocked(getTableKey(trKind[w]), trActive[getTableKey(trKind[w])])
      /\ trSlot' = [trSlot EXCEPT ![w] = trActive[getTableKey(trKind[w])]]
      /\ UNCHANGED <<trQueue, trTables, trActive, trMem, trLake, trWidth, trRow, trKind, trFlush,
                     trJob, trSwaps, trUsed, trMade, trRejected, trLost>>
  BY DEF TrLockActive, TrGoes
<1>2. getTableKey(trKind[w]) \in TrKeys
  BY <1>1, TrKeyFacts DEF TrRoutes, TrBusy
<1>3. TrTypeInv'
  <2>1. trSlot' \in [TrWorkers -> {0, 1}]
    BY <1>1, <1>2 DEF TrTypeInv
  <2>2. trPc' \in [TrWorkers -> {"idle", "create", "lock", "append"}]
    BY <1>1 DEF TrTypeInv
  <2>3. QED
    BY <1>1, <2>1, <2>2 DEF TrTypeInv
<1>4. TrRoutes' /\ TrHands'
  BY <1>1 DEF TrRoutes, TrHands, TrBusy, TrNowhere, TrTypeInv
<1>5. TrSlotLocks'
  BY <1>1 DEF TrSlotLocks, TrTypeInv, TrWriteLocked
<1>6. TrWidths' /\ TrRowsKept'
  BY <1>1 DEF TrWidths, TrRowsKept, TrRowsOf, TrLone
<1>7. QED
  BY <1>3, <1>4, <1>5, <1>6

LEMMA TrAppendStep ==
    ASSUME TrInv, NEW w \in TrWorkers, TrAppend(w)
    PROVE  TrInv'
<1> USE DEF TrInv
<1> DEFINE key == getTableKey(trKind[w])
           s0 == TableSuffix(key)
           i0 == trSlot[w]
           r0 == trRow[w]
           fits == trWidth[s0] = RowWidth(trKind[w])
<1>1. /\ trPc[w] = "append" /\ trPc' = [trPc EXCEPT ![w] = "idle"]
      /\ trMem' = IF fits THEN [trMem EXCEPT ![s0][i0] = @ \cup {r0}] ELSE trMem
      /\ trRejected' = IF fits THEN trRejected ELSE trRejected \cup {r0}
      /\ UNCHANGED <<trQueue, trTables, trActive, trLake, trWidth, trRow, trKind, trSlot, trFlush,
                     trJob, trSwaps, trUsed, trMade, trLost>>
  BY DEF TrAppend, TrGoes
<1>2. /\ trKind[w] \in TrKinds /\ key \in trTables /\ key \in TrKeys /\ s0 \in TrSuffixes
      /\ i0 \in {0, 1} /\ r0 \in trUsed /\ r0 \in TrRows /\ TrNowhere(r0)
  BY <1>1, TrKeyFacts DEF TrRoutes, TrHands, TrBusy, TrTypeInv
<1>3. trMem' \in [TrSuffixes -> [{0, 1} -> SUBSET TrRows]]
  BY <1>1, <1>2 DEF TrTypeInv
<1>4. \A s \in TrSuffixes, i \in {0, 1} :
         trMem'[s][i] = trMem[s][i] \/ (s = s0 /\ i = i0 /\ trMem'[s][i] = trMem[s][i] \cup {r0})
  BY <1>1, <1>2 DEF TrTypeInv
<1>5. TrTypeInv'
  <2>1. trRejected' \subseteq TrRows
    BY <1>1, <1>2 DEF TrTypeInv
  <2>2. trPc' \in [TrWorkers -> {"idle", "create", "lock", "append"}]
    BY <1>1 DEF TrTypeInv
  <2>3. QED
    BY <1>1, <1>3, <2>1, <2>2 DEF TrTypeInv
<1>6. TrRoutes'
  BY <1>1 DEF TrRoutes, TrBusy, TrTypeInv
<1>7. TrWidths'
  <2>1. "1/" \notin trTables => fits
    BY <1>2, TrKeyFacts DEF TrWidths
  <2>2. QED
    BY <1>1, <2>1 DEF TrWidths
<1>8. TrHands'
  <2>1. \A x \in TrRows : x # r0 /\ TrNowhere(x) => TrNowhere(x)'
    BY <1>1, <1>4 DEF TrNowhere
  <2>2. \A v \in TrWorkers : trPc'[v] # "idle" => v # w /\ trPc[v] # "idle" /\ trRow'[v] = trRow[v]
    BY <1>1 DEF TrTypeInv
  <2>3. \A v \in TrWorkers : trPc'[v] # "idle" => trRow[v] # r0 /\ trRow[v] \in TrRows
    BY <1>1, <2>2 DEF TrHands, TrBusy, TrTypeInv
  <2>4. \A x \in TrRows \ trUsed' : TrNowhere(x)'
    BY <1>1, <1>2, <2>1 DEF TrHands
  <2>5. \A v \in TrWorkers : trPc'[v] # "idle" => trRow[v] \in trUsed /\ TrNowhere(trRow[v])
    BY <2>2 DEF TrHands, TrBusy
  <2>6. \A v \in TrWorkers : trPc'[v] # "idle" => trRow'[v] \in trUsed' /\ TrNowhere(trRow[v])'
    <3>1. TAKE v \in TrWorkers
    <3>2. HAVE trPc'[v] # "idle"
    <3>3. QED
      BY <1>1, <3>2, <2>1, <2>2, <2>3, <2>5 DEF TrNowhere
  <2>7. QED
    BY <1>1, <2>2, <2>4, <2>6 DEF TrHands, TrBusy, TrNowhere
<1>9. TrSlotLocks'
  BY <1>1 DEF TrSlotLocks, TrTypeInv, TrWriteLocked
<1>10. TrRowsKept'
  <2>1. \A s : TrLone(s)' <=> TrLone(s)
    BY <1>1 DEF TrLone
  <2>2. ASSUME NEW s \in TrSuffixes, TrLone(s), TrRowsOf(s)
        PROVE  TrRowsOf(s)'
    <3>1. \A i \in {0, 1} : r0 \notin trMem[s][i] /\ trLake[s][r0] = 0
      BY <1>2, <2>2 DEF TrNowhere
    <3>2. \A k \in trTables : TableSuffix(k) = s /\ s = s0 /\ trFlush[k] = "truncate" => trJob[k] # i0
      BY <1>1, <1>2, <2>2 DEF TrLone, TrSlotLocks, TrWriteLocked
    <3>3. \A r \in TrRows : trLake'[s][r] <= 1 /\ ~(r \in trMem'[s][0] /\ r \in trMem'[s][1])
      BY <1>1, <1>4, <2>2, <3>1 DEF TrRowsOf
    <3>4. \A i \in {0, 1} : \A r \in trMem'[s][i] : trLake'[s][r] = 1 =>
             \E k \in trTables' : TableSuffix(k) = s /\ trFlush'[k] = "truncate" /\ trJob'[k] = i
      BY <1>1, <1>4, <2>2, <3>1 DEF TrRowsOf
    <3>5. \A k \in trTables' : TableSuffix(k) = s /\ trFlush'[k] = "truncate" =>
             \A r \in trMem'[s][trJob'[k]] : trLake'[s][r] = 1
      <4>1. TAKE k \in trTables'
      <4>2. HAVE TableSuffix(k) = s /\ trFlush'[k] = "truncate"
      <4>3. trJob[k] \in {0, 1} /\ k \in trTables /\ trFlush[k] = "truncate"
        BY <1>1, <4>2 DEF TrTypeInv
      <4>4. trMem'[s][trJob[k]] = trMem[s][trJob[k]]
        BY <1>4, <2>2, <3>2, <4>2, <4>3
      <4>5. QED
        BY <1>1, <2>2, <4>2, <4>3, <4>4 DEF TrRowsOf
    <3>6. QED
      BY <3>3, <3>4, <3>5 DEF TrRowsOf
  <2>3. QED
    BY <1>1, <2>1, <2>2 DEF TrRowsKept
<1>11. QED
  BY <1>5, <1>6, <1>7, <1>8, <1>9, <1>10

LEMMA TrSwapStep ==
    ASSUME TrInv, NEW key \in TrKeys, TrSwap(key)
    PROVE  TrInv'
<1> USE DEF TrInv
<1>1. /\ key \in trTables /\ trFlush[key] = "idle" /\ ~TrReading(key, trActive[key])
      /\ trSwaps' = trSwaps + 1
      /\ trJob' = [trJob EXCEPT ![key] = trActive[key]]
      /\ trActive' = [trActive EXCEPT ![key] = 1 - @]
      /\ trFlush' = [trFlush EXCEPT ![key] = "insert"]
      /\ UNCHANGED <<trQueue, trTables, trMem, trLake, trWidth, trWork, trUsed, trMade, trRejected,
                     trLost>>
      /\ UNCHANGED <<trPc, trRow, trKind, trSlot>>
  BY DEF TrSwap, trWork
<1>2. TrTypeInv'
  BY <1>1 DEF TrTypeInv
<1>3. TrRoutes' /\ TrHands'
  BY <1>1 DEF TrRoutes, TrHands, TrBusy, TrNowhere, TrTypeInv
<1>4. TrSlotLocks'
  BY <1>1 DEF TrSlotLocks, TrTypeInv, TrWriteLocked, TrReading
<1>5. TrWidths'
  BY <1>1 DEF TrWidths
<1>6. TrRowsKept'
  <2>1. \A k \in trTables : trFlush'[k] = "truncate" <=> trFlush[k] = "truncate"
    BY <1>1 DEF TrTypeInv
  <2>2. \A k \in trTables : trFlush[k] = "truncate" => trJob'[k] = trJob[k]
    BY <1>1 DEF TrTypeInv
  <2>3. \A s : TrLone(s)' <=> TrLone(s)
    BY <1>1 DEF TrLone
  <2>4. ASSUME NEW s \in TrSuffixes, TrRowsOf(s)
        PROVE  TrRowsOf(s)'
    BY <1>1, <2>1, <2>2, <2>4 DEF TrRowsOf
  <2>5. QED
    BY <1>1, <2>3, <2>4 DEF TrRowsKept
<1>7. QED
  BY <1>2, <1>3, <1>4, <1>5, <1>6

LEMMA TrInsertStep ==
    ASSUME TrInv, NEW key \in TrKeys, TrInsert(key)
    PROVE  TrInv'
<1> USE DEF TrInv
<1> DEFINE s0 == TableSuffix(key)
           i0 == trJob[key]
           rows == trMem[s0][i0]
<1>1. /\ trFlush[key] = "insert"
      /\ trLake' = [trLake EXCEPT ![s0] = [r \in TrRows |-> @[r] + (IF r \in rows THEN 1 ELSE 0)]]
      /\ trFlush' = [trFlush EXCEPT ![key] = IF rows = {} THEN "idle" ELSE "truncate"]
      /\ UNCHANGED <<trQueue, trTables, trActive, trMem, trWidth, trWork, trJob, trSwaps, trUsed,
                     trMade, trRejected, trLost>>
      /\ UNCHANGED <<trPc, trRow, trKind, trSlot>>
  BY DEF TrInsert, trWork
<1>2. key \in trTables /\ s0 \in TrSuffixes /\ i0 \in {0, 1} /\ rows \subseteq TrRows
  BY <1>1, TrKeyFacts DEF TrRoutes, TrTypeInv
<1>3. /\ trLake' \in [TrSuffixes -> [TrRows -> Nat]]
      /\ \A s \in TrSuffixes \ {s0} : trLake'[s] = trLake[s]
      /\ \A r \in TrRows : trLake'[s0][r] = trLake[s0][r] + (IF r \in rows THEN 1 ELSE 0)
  BY <1>1, <1>2 DEF TrTypeInv
<1>4. TrTypeInv'
  <2>1. trFlush' \in [TrKeys -> {"idle", "insert", "truncate"}]
    BY <1>1 DEF TrTypeInv
  <2>2. QED
    BY <1>1, <1>3, <2>1 DEF TrTypeInv, trWork
<1>5. TrRoutes'
  BY <1>1, <1>2 DEF TrRoutes, TrBusy, TrTypeInv
<1>6. TrHands'
  <2>1. \A x \in TrRows : TrNowhere(x) => TrNowhere(x)'
    BY <1>1, <1>2, <1>3 DEF TrNowhere, TrTypeInv
  <2>2. \A v \in TrWorkers : trPc[v] # "idle" => trRow[v] \in TrRows
    BY DEF TrHands, TrBusy, TrTypeInv
  <2>3. \A x \in TrRows \ trUsed' : TrNowhere(x)'
    BY <1>1, <2>1 DEF TrHands
  <2>4. \A v \in TrWorkers : trPc[v] # "idle" => trRow[v] \in trUsed' /\ TrNowhere(trRow[v])'
    BY <1>1, <2>1, <2>2 DEF TrHands, TrBusy
  <2>5. QED
    BY <1>1, <2>3, <2>4 DEF TrHands, TrBusy, TrNowhere
<1>7. TrSlotLocks'
  BY <1>1 DEF TrSlotLocks, TrWriteLocked, TrTypeInv
<1>8. TrWidths'
  BY <1>1 DEF TrWidths
<1>9. TrRowsKept'
  <2>1. \A s : TrLone(s)' <=> TrLone(s)
    BY <1>1 DEF TrLone
  <2>2. ASSUME NEW s \in TrSuffixes, TrLone(s), TrRowsOf(s)
        PROVE  TrRowsOf(s)'
    <3>1. CASE s # s0
      <4>1. \A k \in trTables : TableSuffix(k) = s => trFlush'[k] = trFlush[k]
        BY <1>1, <3>1 DEF TrTypeInv
      <4>2. trLake'[s] = trLake[s]
        BY <1>3, <3>1
      <4>3. QED
        BY <1>1, <2>2, <4>1, <4>2 DEF TrRowsOf
    <3>2. CASE s = s0
      <4>1. \A k \in trTables : TableSuffix(k) = s => k = key
        BY <1>2, <2>2, <3>2 DEF TrLone
      <4>2. \A i \in {0, 1} : \A r \in trMem[s][i] : trLake[s][r] = 0
        <5>1. TAKE i \in {0, 1}
        <5>2. TAKE r \in trMem[s][i]
        <5>3. trLake[s][r] # 1
          BY <1>1, <2>2, <4>1 DEF TrRowsOf
        <5>4. r \in TrRows /\ trLake[s][r] \in Nat /\ trLake[s][r] <= 1
          BY <2>2 DEF TrRowsOf, TrTypeInv
        <5>5. QED
          BY <5>3, <5>4
      <4>3. \A r \in TrRows : trLake'[s][r] <= 1 /\ ~(r \in trMem'[s][0] /\ r \in trMem'[s][1])
        <5>1. TAKE r \in TrRows
        <5>2. trLake[s][r] \in Nat /\ trLake[s][r] <= 1
          BY <2>2 DEF TrRowsOf, TrTypeInv
        <5>3. r \in rows => trLake[s][r] = 0
          BY <1>2, <3>2, <4>2
        <5>4. trLake'[s][r] <= 1
          BY <1>3, <3>2, <5>2, <5>3
        <5>5. QED
          BY <1>1, <2>2, <5>4 DEF TrRowsOf
      <4>4. \A i \in {0, 1} : \A r \in trMem[s][i] : trLake'[s][r] = 1 => i = i0
        <5>1. TAKE i \in {0, 1}
        <5>2. TAKE r \in trMem[s][i]
        <5>3. HAVE trLake'[s][r] = 1
        <5>4. r \in TrRows /\ trLake[s][r] = 0
          BY <2>2, <4>2 DEF TrTypeInv
        <5>5. r \in rows
          BY <1>3, <3>2, <5>3, <5>4
        <5>6. ~(r \in trMem[s][0] /\ r \in trMem[s][1])
          BY <2>2, <5>4 DEF TrRowsOf
        <5>7. QED
          BY <1>2, <3>2, <5>2, <5>5, <5>6
      <4>5. rows # {} => trFlush'[key] = "truncate"
        BY <1>1 DEF TrTypeInv
      <4>6. \A i \in {0, 1} : \A r \in trMem'[s][i] : trLake'[s][r] = 1 =>
               \E k \in trTables' : TableSuffix(k) = s /\ trFlush'[k] = "truncate" /\ trJob'[k] = i
        BY <1>1, <1>2, <3>2, <4>4, <4>5
      <4>7. \A r \in rows : trLake'[s][r] = 1
        BY <1>2, <1>3, <3>2, <4>2
      <4>8. \A k \in trTables' : TableSuffix(k) = s /\ trFlush'[k] = "truncate" =>
               \A r \in trMem'[s][trJob'[k]] : trLake'[s][r] = 1
        BY <1>1, <3>2, <4>1, <4>7
      <4>9. QED
        BY <4>3, <4>6, <4>8 DEF TrRowsOf
    <3>3. QED
      BY <3>1, <3>2
  <2>3. QED
    BY <1>1, <2>1, <2>2 DEF TrRowsKept
<1>10. QED
  BY <1>4, <1>5, <1>6, <1>7, <1>8, <1>9

LEMMA TrTruncateStep ==
    ASSUME TrInv, NEW key \in TrKeys, TrTruncate(key)
    PROVE  TrInv'
<1> USE DEF TrInv
<1> DEFINE s0 == TableSuffix(key)
           i0 == trJob[key]
           rows == trMem[s0][i0]
<1>1. /\ trFlush[key] = "truncate"
      /\ trMem' = [trMem EXCEPT ![s0][i0] = {}]
      /\ trLost' = trLost \cup {r \in rows : trLake[s0][r] = 0}
      /\ trFlush' = [trFlush EXCEPT ![key] = "idle"]
      /\ UNCHANGED <<trQueue, trTables, trActive, trLake, trWidth, trWork, trJob, trSwaps, trUsed,
                     trMade, trRejected>>
      /\ UNCHANGED <<trPc, trRow, trKind, trSlot>>
  BY DEF TrTruncate, trWork
<1>2. key \in trTables /\ s0 \in TrSuffixes /\ i0 \in {0, 1} /\ rows \subseteq TrRows
  BY <1>1, TrKeyFacts DEF TrRoutes, TrTypeInv
<1>3. /\ trMem' \in [TrSuffixes -> [{0, 1} -> SUBSET TrRows]]
      /\ \A s \in TrSuffixes, i \in {0, 1} :
            trMem'[s][i] = IF s = s0 /\ i = i0 THEN {} ELSE trMem[s][i]
  BY <1>1, <1>2 DEF TrTypeInv
<1>4. TrTypeInv'
  <2>1. trFlush' \in [TrKeys -> {"idle", "insert", "truncate"}]
    BY <1>1 DEF TrTypeInv
  <2>2. trLost' \subseteq TrRows
    BY <1>1, <1>2 DEF TrTypeInv
  <2>3. QED
    BY <1>1, <1>3, <2>1, <2>2 DEF TrTypeInv, trWork
<1>5. TrRoutes'
  BY <1>1, <1>2 DEF TrRoutes, TrBusy, TrTypeInv
<1>6. TrHands'
  <2>1. \A x \in TrRows : TrNowhere(x) => TrNowhere(x)'
    BY <1>1, <1>3 DEF TrNowhere
  <2>2. \A v \in TrWorkers : trPc[v] # "idle" => trRow[v] \in TrRows
    BY DEF TrHands, TrBusy, TrTypeInv
  <2>3. \A x \in TrRows \ trUsed' : TrNowhere(x)'
    BY <1>1, <2>1 DEF TrHands
  <2>4. \A v \in TrWorkers : trPc[v] # "idle" => trRow[v] \in trUsed' /\ TrNowhere(trRow[v])'
    BY <1>1, <2>1, <2>2 DEF TrHands, TrBusy
  <2>5. QED
    BY <1>1, <2>3, <2>4 DEF TrHands, TrBusy, TrNowhere
<1>7. TrSlotLocks'
  BY <1>1 DEF TrSlotLocks, TrWriteLocked, TrTypeInv
<1>8. TrWidths'
  BY <1>1 DEF TrWidths
<1>9. TrRowsKept'
  <2>1. \A s : TrLone(s)' <=> TrLone(s)
    BY <1>1 DEF TrLone
  <2>2. ASSUME NEW s \in TrSuffixes, TrLone(s), TrRowsOf(s)
        PROVE  TrRowsOf(s)'
    <3>1. \A i \in {0, 1} : trMem'[s][i] \subseteq trMem[s][i]
      BY <1>3
    <3>2. \A r \in TrRows : trLake'[s][r] <= 1 /\ ~(r \in trMem'[s][0] /\ r \in trMem'[s][1])
      BY <1>1, <2>2, <3>1 DEF TrRowsOf
    <3>3. \A k \in trTables : k # key => trFlush'[k] = trFlush[k]
      BY <1>1 DEF TrTypeInv
    <3>4. \A k \in trTables : TableSuffix(k) = s /\ s = s0 => k = key
      BY <1>2, <2>2 DEF TrLone
    <3>5. \A i \in {0, 1} : \A r \in trMem'[s][i] : trLake'[s][r] = 1 =>
             \E k \in trTables' : TableSuffix(k) = s /\ trFlush'[k] = "truncate" /\ trJob'[k] = i
      <4>1. TAKE i \in {0, 1}
      <4>2. TAKE r \in trMem'[s][i]
      <4>3. HAVE trLake'[s][r] = 1
      <4>4. PICK k \in trTables : TableSuffix(k) = s /\ trFlush[k] = "truncate" /\ trJob[k] = i
        BY <1>1, <2>2, <3>1, <4>2, <4>3 DEF TrRowsOf
      <4>5. k # key
        BY <1>3, <2>2, <4>2, <4>4
      <4>6. QED
        BY <1>1, <3>3, <4>4, <4>5
    <3>6. \A k \in trTables' : TableSuffix(k) = s /\ trFlush'[k] = "truncate" =>
             \A r \in trMem'[s][trJob'[k]] : trLake'[s][r] = 1
      <4>1. TAKE k \in trTables'
      <4>2. HAVE TableSuffix(k) = s /\ trFlush'[k] = "truncate"
      <4>3. k # key /\ k \in trTables /\ trJob[k] \in {0, 1}
        BY <1>1, <4>2 DEF TrTypeInv
      <4>4. QED
        BY <1>1, <2>2, <3>1, <3>3, <4>2, <4>3 DEF TrRowsOf
    <3>7. QED
      BY <3>2, <3>5, <3>6 DEF TrRowsOf
  <2>3. TrLone(s0) => trLost' = trLost
    <3>1. HAVE TrLone(s0)
    <3>2. \A r \in rows : trLake[s0][r] = 1
      BY <1>1, <1>2, <3>1 DEF TrRowsKept, TrRowsOf
    <3>3. QED
      BY <1>1, <3>2
  <2>4. QED
    BY <1>2, <2>1, <2>2, <2>3 DEF TrRowsKept
<1>10. QED
  BY <1>4, <1>5, <1>6, <1>7, <1>8, <1>9

LEMMA TrInductive ==
    ASSUME TrInv, [TrNext]_trVars
    PROVE  TrInv'
<1>1. CASE UNCHANGED trVars
  <2>1. UNCHANGED <<trQueue, trTables, trActive, trMem, trLake, trWidth, trPc, trRow, trKind, trSlot,
                    trFlush, trJob, trSwaps, trUsed, trMade, trRejected, trLost>>
    BY <1>1 DEF trVars, trWork
  <2>2. TrTypeInv' /\ TrRoutes' /\ TrWidths'
    BY <2>1 DEF TrInv, TrTypeInv, TrRoutes, TrWidths, TrBusy
  <2>3. TrHands' /\ TrSlotLocks'
    BY <2>1 DEF TrInv, TrHands, TrNowhere, TrBusy, TrSlotLocks, TrWriteLocked
  <2>4. TrRowsKept'
    BY <2>1 DEF TrInv, TrRowsKept, TrRowsOf, TrLone
  <2>5. QED
    BY <2>2, <2>3, <2>4 DEF TrInv
<1>2. CASE TrNext
  BY <1>2, TrWriteStep, TrGetOrCreateStep, TrLockActiveStep, TrAppendStep, TrSwapStep, TrInsertStep,
     TrTruncateStep DEF TrNext
<1>3. QED
  BY <1>1, <1>2

LEMMA TrInitInv ==
    ASSUME TrInit
    PROVE  TrInv
<1>1. trTables \subseteq TrKeys /\ "1/" \notin trTables /\ trQueue \in BOOLEAN
  BY DEF TrInit, TrKnown
<1>2. \A s \in TrSuffixes : trWidth[s] = IF \E k \in trTables : TableSuffix(k) = s
                                        THEN SchemaWidth(CHOOSE k \in trTables : TableSuffix(k) = s) ELSE 0
  BY DEF TrInit
<1>3. \A k \in trTables : (CHOOSE l \in trTables : TableSuffix(l) = TableSuffix(k)) = k
  BY <1>1, TrKeyFacts
<1>4. \A k \in trTables : trWidth[TableSuffix(k)] = SchemaWidth(k)
  BY <1>1, <1>2, <1>3, TrKeyFacts
<1>5. \A s \in TrSuffixes : (\A k \in trTables : TableSuffix(k) # s) => trWidth[s] = 0
  BY <1>2
<1>6. trWidth \in [TrSuffixes -> Nat]
  <2>1. DOMAIN trWidth = TrSuffixes /\ trWidth = [s \in TrSuffixes |-> trWidth[s]]
    BY DEF TrInit
  <2>2. \A s \in TrSuffixes : trWidth[s] \in Nat
    <3>1. TAKE s \in TrSuffixes
    <3>2. CASE \E k \in trTables : TableSuffix(k) = s
      BY <1>1, <1>4, <3>2, TrKeyFacts
    <3>3. CASE ~\E k \in trTables : TableSuffix(k) = s
      BY <1>5, <3>3
    <3>4. QED
      BY <3>2, <3>3
  <2>3. QED
    BY <2>1, <2>2
<1>7. TrTypeInv
  BY <1>1, <1>6 DEF TrInit, TrTypeInv
<1>8. TrRoutes /\ TrWidths
  BY <1>1, <1>4, <1>5 DEF TrInit, TrRoutes, TrWidths, TrBusy
<1>9. TrHands /\ TrSlotLocks
  BY DEF TrInit, TrHands, TrSlotLocks, TrNowhere, TrBusy
<1>10. TrRowsKept
  BY <1>1 DEF TrInit, TrRowsKept, TrRowsOf, TrLone, TrKeys
<1>11. QED
  BY <1>7, <1>8, <1>9, <1>10 DEF TrInv

LEMMA TrInvSafe ==
    ASSUME TrInv
    PROVE  TableRoutingSafe
<1> USE DEF TrInv
<1>1. \A k \in TrKeys : trMade[k] <= 1
  BY DEF TrRoutes
<1>2. \A kind \in TrKinds \ {"ping"} : RowWidth(kind) = SchemaWidth(getTableKey(kind))
  BY TrKeyFacts
<1>3. \A s \in TrSuffixes \ TrShared : TrLone(s)
  <2>1. SUFFICES ASSUME NEW s \in TrSuffixes, NEW k \in trTables, NEW l \in trTables,
                        TableSuffix(k) = s, TableSuffix(l) = s, k # l
                 PROVE  s \in TrShared
    BY DEF TrLone
  <2>2. {k, l} \subseteq {x \in trTables : TableSuffix(x) = s}
    BY <2>1
  <2>3. IsFiniteSet({x \in trTables : TableSuffix(x) = s})
    <3>1. {x \in trTables : TableSuffix(x) = s} \subseteq TrKeys
      BY DEF TrTypeInv
    <3>2. QED
      BY <3>1, TrKeyFacts, FS_Subset
  <2>4. Cardinality({k, l}) = 2
    <3>1. IsFiniteSet({k}) /\ Cardinality({k}) = 1
      BY FS_Singleton
    <3>2. Cardinality({k} \cup {l}) = Cardinality({k}) + 1
      BY <3>1, <2>1, FS_AddElement
    <3>3. {k, l} = {k} \cup {l}
      OBVIOUS
    <3>4. QED
      BY <3>1, <3>2, <3>3
  <2>5. Cardinality({k, l}) <= Cardinality({x \in trTables : TableSuffix(x) = s})
    BY <2>2, <2>3, FS_Subset
  <2>6. Cardinality({x \in trTables : TableSuffix(x) = s}) \in Nat
    BY <2>3, FS_CardinalityType
  <2>7. QED
    BY <2>4, <2>5, <2>6 DEF TrShared
<1>4. TrShared = {} /\ "1/" \notin trTables => trLost = {} /\ trRejected = {}
  BY <1>3 DEF TrRowsKept, TrWidths
<1>5. \A s \in TrSuffixes \ TrShared, r \in TrRows : trLake[s][r] <= 1
  BY <1>3 DEF TrRowsKept, TrRowsOf
<1>6. QED
  BY <1>1, <1>2, <1>4, <1>5 DEF TableRoutingSafe

-----------------------------------------------------------------------------
(* HepRow. *)

HrMoments == 0 .. (1000 * HrYear * HrDay - 1)
HrDays == 0 .. (1000 * HrYear - 1)
HrUtcDay(p) == HrDayOf(hrPkt[p].ts)
HrBad(f) == HrContents[f.content] \in {"bad", "rtcp"}
HrHand == [content |-> hrPkt[Importer].content, ts |-> hrPkt[Importer].ts]
HrBatched == UNION {hrBatches[t] : t \in DOMAIN hrBatches}
HrOnLake == {f \in HrFile : hrLake[f] = 1}

HrTypeInv ==
    /\ hrNow \in HrStart .. HrEnd /\ hrForced \in {HrNone, "default"}
    /\ hrPc \in [HrProcs -> {"idle", "get", "set", "parse", "key", "date", "storeDate", "storeKey"}]
    /\ hrPkt \in [HrProcs -> [content : DOMAIN HrContents \cup {HrNone}, ts : HrMoments, live : BOOLEAN]]
    /\ \A p \in HrProcs : hrPc[p] # "idle" =>
          hrPkt[p].content \in DOMAIN HrContents /\ hrPkt[p].live = (p # Importer)
    /\ hrDate \in Int /\ hrKey \in Int
    /\ hrMixed \in BOOLEAN /\ hrForeign \in BOOLEAN

\* The twin of a packet dropped from now on is the one the cache holds.
HrTwins ==
    /\ HrDroppedHaveTwin
    /\ \A a \in hrPassed : a.ts \in HrMoments
    /\ \A c \in DOMAIN hrDedupCache : \E a \in hrPassed : a.content = c /\ a.ts = hrDedupCache[c]

\* As long as one day is dated at a time the cache pairs the key of a day with
\* its date, but between the two stores.
HrCached ==
    ~hrMixed /\ ~hrForeign =>
        /\ \A p, q \in HrProcs : HrDating(p) /\ HrDating(q) => HrUtcDay(p) = HrUtcDay(q)
        /\ \A p \in HrProcs : HrDating(p) => HrDayOf(HrLocal(hrPkt[p])) = HrUtcDay(p)
        /\ \A p \in HrProcs : hrPc[p] \in {"date", "storeKey"} => hrDate = HrUtcDay(p)
        /\ \A d \in HrDays :
              hrKey = HrDayKey(d) => hrDate = d \/ \E p \in HrProcs : hrPc[p] = "storeKey"
        /\ \A r \in hrRows : r.date = HrDayOf(r.ts)

HrNear ==
    /\ \A r \in hrRows : r.date \in Int
    /\ \A w \in HrWorkers : hrPc[w] # "idle" => hrPkt[w].ts <= hrNow + HrFuture
    /\ hrImport \in {"never", "no"} =>
          /\ hrDate <= HrDayOf(hrNow + HrFuture)
          /\ \A r \in hrRows : r.date <= HrDayOf(hrNow + HrFuture)

\* Where the packets of the file are.
HrFileInv ==
    /\ hrPc[Importer] # "idle" <=> hrImport = "converts"
    /\ hrLeft \subseteq HrFile /\ hrLake \in [HrFile -> {0, 1}]
    /\ hrPc[Importer] # "idle" =>
          HrHand \in HrFile \ hrLeft /\ ~HrBad(HrHand) /\ hrLake[HrHand] = 0 /\ HrHand \notin HrBatched
    /\ HrBatched \subseteq {f \in HrFile \ hrLeft : ~HrBad(f)}
    /\ \A t, u \in DOMAIN hrBatches : t # u => hrBatches[t] \cap hrBatches[u] = {}
    /\ HrOnLake \subseteq {f \in HrFile \ hrLeft : ~HrBad(f)}
    /\ hrRejected = Cardinality({f \in HrFile \ hrLeft : HrBad(f)})
    /\ hrInserted \in Nat /\ hrInserted <= Cardinality(HrOnLake)
    /\ hrImport # "failed" =>
          /\ hrInserted = Cardinality(HrOnLake)
          /\ \A f \in HrBatched : hrLake[f] = 0
          /\ \A f \in HrFile \ hrLeft :
                HrBad(f) \/ hrLake[f] = 1 \/ f \in HrBatched \/ (hrPc[Importer] # "idle" /\ f = HrHand)
    /\ hrImport = "done" => hrLeft = {} /\ HrBatched = {}

HrInv == HrTypeInv /\ HrTwins /\ HrCached /\ HrNear /\ HrTransactionTogether /\ HrFileInv

\* A quotient is the number of whole days.
LEMMA HrQuotient ==
    ASSUME NEW D \in Nat, D > 0, NEW a \in Int
    PROVE  /\ a \div D \in Int
           /\ D * (a \div D) <= a
           /\ a < D * (a \div D) + D
  OBVIOUS

LEMMA HrMultiple ==
    ASSUME NEW D \in Nat, D > 0, NEW q \in Int, NEW p \in Int, q < p
    PROVE  D * q + D <= D * p
<1>1. p - q >= 1 /\ p - q \in Int
  OBVIOUS
<1>2. D * (p - q) >= D
  <2>1. ASSUME NEW x \in Int, x >= 1 PROVE D * x >= D
    BY <2>1
  <2>2. QED
    BY <1>1, <2>1
<1>3. D * (p - q) = D * p - D * q
  OBVIOUS
<1>4. D * p \in Int /\ D * q \in Int
  OBVIOUS
<1>5. QED
  BY <1>2, <1>3, <1>4

\* Later moments are of no earlier day.
LEMMA HrDayMonotone ==
    ASSUME NEW a \in Int, NEW b \in Int, a <= b
    PROVE  HrDayOf(a) <= HrDayOf(b)
<1>1. HrDay \in Nat /\ HrDay > 0
  BY HepRowAssumption
<1> DEFINE p == a \div HrDay
           q == b \div HrDay
<1>2. p \in Int /\ q \in Int /\ HrDay * p <= a /\ b < HrDay * q + HrDay
  BY <1>1, HrQuotient
<1>3. ASSUME q < p PROVE FALSE
  <2>1. HrDay * q + HrDay <= HrDay * p
    <3> HIDE DEF p, q
    <3>1. QED
      BY <1>1, <1>2, <1>3, HrMultiple
  <2>2. HrDay * q \in Int /\ HrDay * p \in Int
    <3> HIDE DEF p, q
    <3>1. QED
      BY <1>1, <1>2
  <2>3. QED
    BY <1>1, <1>2, <2>1, <2>2
<1>4. QED
  BY <1>2, <1>3 DEF HrDayOf

LEMMA HrDayRange ==
    /\ \A t \in Int : HrDayOf(t) \in Int
    /\ \A t \in HrMoments : HrDayOf(t) \in HrDays
<1>1. HrDay \in Nat /\ HrDay > 0 /\ HrYear \in Nat /\ HrYear > 0
  BY HepRowAssumption
<1>2. \A t \in Int : HrDayOf(t) \in Int
  BY <1>1 DEF HrDayOf
<1>3. ASSUME NEW t \in HrMoments PROVE HrDayOf(t) \in HrDays
  <2> DEFINE q == t \div HrDay
             y == 1000 * HrYear
  <2>1. y \in Nat
    BY <1>1
  <2>2. t \in Int /\ t >= 0 /\ t < y * HrDay
    BY <1>1 DEF HrMoments
  <2>3. q \in Int /\ HrDay * q <= t /\ t < HrDay * q + HrDay
    BY <1>1, <2>2, HrQuotient
  <2>4. y * HrDay = HrDay * y /\ HrDay * y \in Int /\ HrDay * q \in Int
    <3> HIDE DEF q, y
    <3>1. QED
      BY <1>1, <2>1, <2>3
  <2>5. ASSUME q < 0 PROVE FALSE
    <3>1. HrDay * q + HrDay <= HrDay * 0
      <4> HIDE DEF q
      <4>1. QED
        BY <1>1, <2>3, <2>5, HrMultiple
    <3>2. HrDay * 0 = 0
      BY <1>1
    <3>3. QED
      BY <1>1, <2>2, <2>3, <2>4, <3>1, <3>2
  <2>6. ASSUME q >= y PROVE FALSE
    <3>1. q = y \/ HrDay * y + HrDay <= HrDay * q
      <4> HIDE DEF q, y
      <4>1. QED
        BY <1>1, <2>1, <2>3, <2>6, HrMultiple
    <3>2. HrDay * y <= HrDay * q
      <4> HIDE DEF q, y
      <4>1. QED
        BY <1>1, <2>4, <3>1
    <3>3. QED
      BY <1>1, <2>2, <2>3, <2>4, <3>2
  <2>7. QED
    BY <1>1, <2>1, <2>3, <2>5, <2>6 DEF HrDayOf, HrDays
<1>4. QED
  BY <1>2, <1>3

\* The key of the date cache tells the days of a thousand years apart.
LEMMA HrKeysDiffer ==
    /\ \A d \in Int : HrDayKey(d) \in Int
    /\ \A d \in HrDays : HrDayKey(d) # 0
    /\ \A d, e \in HrDays : HrDayKey(d) = HrDayKey(e) => d = e
<1>1. HrYear \in Nat /\ HrYear > 0
  BY HepRowAssumption
<1>2. \A d \in Int : HrDayKey(d) \in Int
  <2> SUFFICES ASSUME NEW d \in Int PROVE HrDayKey(d) \in Int
    OBVIOUS
  <2>1. d % HrYear \in Int /\ d \div HrYear \in Int
    BY <1>1
  <2>2. (d \div HrYear) % 1000 \in Int
    BY <2>1
  <2>3. QED
    BY <2>1, <2>2 DEF HrDayKey
<1> DEFINE Split(d, q, r) == d = HrYear * q + r /\ HrDayKey(d) = (1 + r) * 1000 + q
           Splits(d) == \E q \in 0 .. 999, r \in 0 .. HrYear - 1 : Split(d, q, r)
<1>3. ASSUME NEW d \in HrDays
      PROVE  Splits(d)
  <2> DEFINE q == d \div HrYear
             r == d % HrYear
  <2>1. d \in Int /\ d >= 0 /\ d < HrYear * 1000
    BY <1>1 DEF HrDays
  <2>2. q \in Int /\ HrYear * q <= d /\ d < HrYear * q + HrYear /\ r \in 0 .. HrYear - 1
        /\ d = HrYear * q + r
    BY <1>1, <2>1
  <2>3. HrYear * q \in Int
    <3> HIDE DEF q
    <3>1. QED
      BY <1>1, <2>2
  <2>4. ASSUME q < 0 PROVE FALSE
    <3>1. HrYear * q + HrYear <= HrYear * 0
      <4> HIDE DEF q
      <4>1. QED
        BY <1>1, <2>2, <2>4, HrMultiple
    <3>2. QED
      BY <1>1, <2>1, <2>2, <2>3, <3>1
  <2>5. ASSUME q >= 1000 PROVE FALSE
    <3>1. q = 1000 \/ HrYear * 1000 + HrYear <= HrYear * q
      <4> HIDE DEF q
      <4>1. QED
        BY <1>1, <2>2, <2>5, HrMultiple
    <3>2. HrYear * 1000 <= HrYear * q
      <4> HIDE DEF q
      <4>1. QED
        BY <1>1, <2>3, <3>1
    <3>3. QED
      BY <1>1, <2>1, <2>2, <2>3, <3>2
  <2>6. q \in 0 .. 999
    BY <2>2, <2>4, <2>5
  <2>7. q % 1000 = q
    <3> HIDE DEF q
    <3>1. QED
      BY <2>6
  <2>8. HrDayKey(d) = (1 + r) * 1000 + q
    BY <2>7 DEF HrDayKey
  <2>9. Split(d, q, r)
    BY <2>2, <2>8
  <2>10. r \in 0 .. HrYear - 1
    BY <2>2
  <2>11. QED
    <3> HIDE DEF q, r, Split
    <3>1. QED
      BY ZenonT(60), <2>6, <2>9, <2>10
<1>4. \A d \in HrDays : HrDayKey(d) # 0
  <2> SUFFICES ASSUME NEW d \in HrDays PROVE HrDayKey(d) # 0
    OBVIOUS
  <2>1. PICK q \in 0 .. 999, r \in 0 .. HrYear - 1 : Split(d, q, r)
    <3>1. Splits(d)
      <4> HIDE DEF Splits
      <4>1. QED
        BY <1>3
    <3> HIDE DEF Split
    <3>2. QED
      BY <3>1
  <2>2. QED
    BY <1>1, <2>1
<1>5. \A d, e \in HrDays : HrDayKey(d) = HrDayKey(e) => d = e
  <2> SUFFICES ASSUME NEW d \in HrDays, NEW e \in HrDays, HrDayKey(d) = HrDayKey(e) PROVE d = e
    OBVIOUS
  <2>1. PICK q \in 0 .. 999, r \in 0 .. HrYear - 1 : Split(d, q, r)
    <3>1. Splits(d)
      <4> HIDE DEF Splits
      <4>1. QED
        BY <1>3
    <3> HIDE DEF Split
    <3>2. QED
      BY ZenonT(60), <3>1
  <2>2. PICK p \in 0 .. 999, s \in 0 .. HrYear - 1 : Split(e, p, s)
    <3>1. Splits(e)
      <4> HIDE DEF Splits
      <4>1. QED
        BY <1>3
    <3> HIDE DEF Split
    <3>2. QED
      BY ZenonT(60), <3>1
  <2>3. (1 + r) * 1000 + q = (1 + s) * 1000 + p
    BY <2>1, <2>2
  <2>4. q = p /\ r = s
    BY SMTT(30), <1>1, <2>3
  <2>5. QED
    BY <2>1, <2>2, <2>4
<1>6. QED
  BY <1>2, <1>4, <1>5

LEMMA HrSanitizedNear ==
    ASSUME NEW raw \in HrRaws, NEW now \in HrStart .. HrEnd
    PROVE  HrSanitized(raw, now) \in HrMoments /\ HrSanitized(raw, now) <= now + HrFuture
<1> DEFINE last == 1000 * HrYear * HrDay
<1>1. last \in Nat /\ HrEnd + HrFuture < last
  BY HepRowAssumption
<1>2. raw \in Nat /\ now \in Nat /\ now <= HrEnd /\ HrFuture \in Nat /\ HrPast \in Nat
      /\ HrNtp \in Nat /\ HrEnd \in Nat
  BY HepRowAssumption
<1>3. HrMoments = 0 .. (last - 1)
  BY DEF HrMoments
<1> HIDE DEF last
<1>4. QED
  BY <1>1, <1>2, <1>3 DEF HrSanitized, hepTimestampInWindow

LEMMA HrMomentsAre ==
    HrMoments \subseteq Nat /\ (\A t \in HrMoments : t \in Int) /\ 0 \in HrMoments /\ \A f \in HrFile : f.ts \in HrMoments
<1> DEFINE last == 1000 * HrYear * HrDay
<1>1. last \in Nat /\ HrEnd + HrFuture < last /\ \A f \in HrFile : f.ts \in Nat /\ f.ts < last
  BY HepRowAssumption
<1>2. HrEnd \in Nat /\ HrFuture \in Nat
  BY HepRowAssumption
<1>3. HrMoments = 0 .. (last - 1)
  BY DEF HrMoments
<1> HIDE DEF last
<1>4. QED
  BY <1>1, <1>2, <1>3

LEMMA HrTypeStep ==
    ASSUME HrTypeInv, HrNext
    PROVE  HrTypeInv'
<1> DEFINE Pcs == {"idle", "get", "set", "parse", "key", "date", "storeDate", "storeKey"}
           Packets == [content : DOMAIN HrContents \cup {HrNone}, ts : HrMoments, live : BOOLEAN]
           Known(p) == hrPc[p] # "idle" =>
                          hrPkt[p].content \in DOMAIN HrContents /\ hrPkt[p].live = (p # Importer)
<1>0. /\ hrNow \in HrStart .. HrEnd /\ hrForced \in {HrNone, "default"}
      /\ hrPc \in [HrProcs -> Pcs] /\ hrPkt \in [HrProcs -> Packets]
      /\ \A p \in HrProcs : Known(p)
      /\ hrDate \in Int /\ hrKey \in Int /\ hrMixed \in BOOLEAN /\ hrForeign \in BOOLEAN
  BY DEF HrTypeInv
<1>1. HrMoments \subseteq Nat /\ HrIdle \in Packets /\ HrStart \in Nat /\ HrEnd \in Nat
  BY HrMomentsAre, HepRowAssumption DEF HrIdle
<1>2. HrWorkers \subseteq HrProcs /\ Importer \in HrProcs /\ Importer \notin HrWorkers
  BY HepRowAssumption DEF HrProcs
<1>3. hrForced' \in {HrNone, "default"} /\ hrNow' \in HrStart .. HrEnd
  <2>1. hrForced' = hrForced
    BY DEF HrNext, HrTick, HrDecode, HrGet, HrSet, HrEvict, HrParse, HrLoadKey, HrLoadDate,
       HrStoreDate, HrStoreKey, HrImportStarts, HrImportRead, HrFlushKey, HrImportEnds
  <2>2. HrTick \/ hrNow' = hrNow
    BY DEF HrNext, HrDecode, HrGet, HrSet, HrEvict, HrParse, HrLoadKey, HrLoadDate,
       HrStoreDate, HrStoreKey, HrImportStarts, HrImportRead, HrFlushKey, HrImportEnds
  <2>3. QED
    BY <1>0, <1>1, <2>1, <2>2 DEF HrTick
<1>4. ASSUME UNCHANGED <<hrPc, hrPkt>>
      PROVE  hrPc' \in [HrProcs -> Pcs] /\ hrPkt' \in [HrProcs -> Packets] /\ \A p \in HrProcs : Known(p)'
  BY <1>0, <1>4
<1>5. ASSUME NEW q \in HrProcs, hrPc[q] # "idle", NEW pc \in Pcs, HrGoes(q, pc) \/ HrEnds(q)
      PROVE  hrPc' \in [HrProcs -> Pcs] /\ hrPkt' \in [HrProcs -> Packets] /\ \A p \in HrProcs : Known(p)'
  BY SMTT(30), <1>0, <1>1, <1>5 DEF HrGoes, HrEnds
<1>6. ASSUME NEW q \in HrProcs, NEW pkt \in Packets, NEW pc \in Pcs,
             pkt.content \in DOMAIN HrContents, pkt.live = (q # Importer),
             hrPc' = [hrPc EXCEPT ![q] = pc], hrPkt' = [hrPkt EXCEPT ![q] = pkt]
      PROVE  hrPc' \in [HrProcs -> Pcs] /\ hrPkt' \in [HrProcs -> Packets] /\ \A p \in HrProcs : Known(p)'
  BY <1>0, <1>6
<1>7. hrPc' \in [HrProcs -> Pcs] /\ hrPkt' \in [HrProcs -> Packets] /\ \A p \in HrProcs : Known(p)'
  <2> HIDE DEF Packets, Known
  <2>1. CASE HrTick \/ HrImportStarts \/ HrImportEnds \/ (\E c \in DOMAIN HrContents : HrEvict(c))
             \/ (\E t \in DOMAIN hrBatches : HrFlushKey(t))
    BY <2>1, <1>4 DEF HrTick, HrImportStarts, HrImportEnds, HrEvict, HrFlushKey
  <2>2. ASSUME NEW w \in HrWorkers, NEW c \in DOMAIN HrContents, NEW raw \in HrRaws, HrDecode(w, c, raw)
        PROVE  hrPc' \in [HrProcs -> Pcs] /\ hrPkt' \in [HrProcs -> Packets] /\ \A p \in HrProcs : Known(p)'
    <3> DEFINE pkt == [content |-> c, ts |-> HrSanitized(raw, hrNow), live |-> TRUE]
    <3>1. pkt \in Packets /\ pkt.content \in DOMAIN HrContents /\ pkt.live = (w # Importer)
      BY <1>0, <1>2, HrSanitizedNear DEF Packets
    <3>2. hrPkt' = [hrPkt EXCEPT ![w] = pkt] /\ w \in HrProcs
          /\ (hrPc' = [hrPc EXCEPT ![w] = "get"] \/ hrPc' = [hrPc EXCEPT ![w] = "parse"])
      BY <2>2, <1>2 DEF HrDecode
    <3> HIDE DEF pkt
    <3>3. "get" \in Pcs /\ "parse" \in Pcs
      OBVIOUS
    <3>4. QED
      BY <3>1, <3>2, <3>3, <1>6
  <2>3. ASSUME NEW w \in HrWorkers, HrGet(w) \/ HrSet(w) \/ HrParse(w)
        PROVE  hrPc' \in [HrProcs -> Pcs] /\ hrPkt' \in [HrProcs -> Packets] /\ \A p \in HrProcs : Known(p)'
    <3>1. w \in HrProcs /\ hrPc[w] # "idle"
          /\ (HrEnds(w) \/ HrGoes(w, "set") \/ HrGoes(w, "parse") \/ HrGoes(w, "key"))
      BY <2>3, <1>2 DEF HrGet, HrSet, HrParse
    <3>2. "set" \in Pcs /\ "parse" \in Pcs /\ "key" \in Pcs
      OBVIOUS
    <3>3. QED
      BY <3>1, <3>2, <1>5
  <2>4. ASSUME NEW p \in HrProcs, HrLoadKey(p) \/ HrLoadDate(p) \/ HrStoreDate(p) \/ HrStoreKey(p)
        PROVE  hrPc' \in [HrProcs -> Pcs] /\ hrPkt' \in [HrProcs -> Packets] /\ \A q \in HrProcs : Known(q)'
    <3>1. hrPc[p] # "idle"
          /\ (HrEnds(p) \/ HrGoes(p, "date") \/ HrGoes(p, "storeDate") \/ HrGoes(p, "storeKey"))
      BY <2>4 DEF HrLoadKey, HrLoadDate, HrStoreDate, HrStoreKey, HrConverted
    <3>2. "date" \in Pcs /\ "storeDate" \in Pcs /\ "storeKey" \in Pcs
      OBVIOUS
    <3>3. QED
      BY <3>1, <3>2, <1>5
  <2>5. ASSUME NEW f \in HrFile, HrImportRead(f)
        PROVE  hrPc' \in [HrProcs -> Pcs] /\ hrPkt' \in [HrProcs -> Packets] /\ \A p \in HrProcs : Known(p)'
    <3> DEFINE pkt == [content |-> f.content, ts |-> f.ts, live |-> FALSE]
    <3>1. pkt \in Packets /\ pkt.content \in DOMAIN HrContents /\ pkt.live = (Importer # Importer)
      <4>1. f.content \in DOMAIN HrContents /\ f.ts \in HrMoments
        BY HepRowAssumption, HrMomentsAre
      <4>2. QED
        BY <4>1 DEF Packets
    <3>2. \/ UNCHANGED <<hrPc, hrPkt>>
          \/ hrPkt' = [hrPkt EXCEPT ![Importer] = pkt] /\ hrPc' = [hrPc EXCEPT ![Importer] = "key"]
      BY <2>5 DEF HrImportRead
    <3> HIDE DEF pkt
    <3>3. "key" \in Pcs
      OBVIOUS
    <3>4. QED
      BY <3>1, <3>2, <3>3, <1>2, <1>4, <1>6
  <2>6. QED
    BY <2>1, <2>2, <2>3, <2>4, <2>5 DEF HrNext
<1>8. hrDate' \in Int /\ hrKey' \in Int /\ hrMixed' \in BOOLEAN /\ hrForeign' \in BOOLEAN
  <2>1. CASE \E p \in HrProcs : HrLoadKey(p) \/ HrLoadDate(p)
    BY <1>0, <2>1 DEF HrLoadKey, HrLoadDate
  <2>2. ASSUME NEW p \in HrProcs, HrStoreDate(p) \/ HrStoreKey(p)
        PROVE  hrDate' \in Int /\ hrKey' \in Int /\ UNCHANGED <<hrMixed, hrForeign>>
    <3>1. hrPkt[p].ts \in Int /\ HrLocal(hrPkt[p]) \in Int
      <4>1. HrZone \in Int /\ hrPkt[p].ts \in HrMoments
        BY <1>0, HepRowAssumption
      <4>2. hrPkt[p].ts \in Int
        BY <4>1, HrMomentsAre
      <4>3. QED
        BY <4>1, <4>2 DEF HrLocal
    <3>2. HrDayOf(hrPkt[p].ts) \in Int /\ HrDayKey(HrDayOf(HrLocal(hrPkt[p]))) \in Int
      BY <3>1, HrDayRange, HrKeysDiffer
    <3>3. QED
      BY <1>0, <2>2, <3>2 DEF HrStoreDate, HrStoreKey
  <2>3. CASE ~(\E p \in HrProcs : HrLoadKey(p) \/ HrLoadDate(p) \/ HrStoreDate(p) \/ HrStoreKey(p))
    BY <1>0, <2>3 DEF HrNext, HrTick, HrDecode, HrGet, HrSet, HrEvict, HrParse,
       HrImportStarts, HrImportRead, HrFlushKey, HrImportEnds
  <2>4. QED
    BY <1>0, <2>1, <2>2, <2>3
<1>9. QED
  BY <1>3, <1>7, <1>8 DEF HrTypeInv

LEMMA HrTwinsStep ==
    ASSUME HrTypeInv, HrTwins, HrNext
    PROVE  HrTwins'
<1> DEFINE Twin(c, ts) == \E a \in hrPassed : a.content = c /\ a.ts = ts
<1>0. \A t \in HrMoments : t \in Int
  BY HrMomentsAre
<1>1. CASE UNCHANGED <<hrPassed, hrDropped, hrDedupCache>>
  BY <1>1 DEF HrTwins, HrDroppedHaveTwin
<1>2. ASSUME NEW w \in HrWorkers, HrGet(w) PROVE HrTwins'
  <2> DEFINE pkt == hrPkt[w]
  <2>1. pkt.ts \in HrMoments
    BY <1>2 DEF HrTypeInv, HrProcs
  <2>2. UNCHANGED <<hrPassed, hrDedupCache>>
    BY <1>2 DEF HrGet, HrAfterHit
  <2>3. CASE HrHit(pkt)
    <3>1. hrDropped' = hrDropped \cup {pkt}
      BY <1>2, <2>3 DEF HrGet
    <3>2. PICK a \in hrPassed : a.content = pkt.content /\ a.ts = hrDedupCache[pkt.content]
      BY <2>3 DEF HrTwins, HrHit
    <3>3. a.ts \in Int /\ pkt.ts \in Int
      BY <1>0, <2>1, <3>2 DEF HrTwins
    <3>4. HrApart(a.ts, pkt.ts) < HrWindow
      BY <2>3, <3>2, <3>3 DEF HrHit, HrApart
    <3> HIDE DEF pkt
    <3>5. QED
      BY <2>2, <3>1, <3>2, <3>4 DEF HrTwins, HrDroppedHaveTwin
  <2>4. CASE ~HrHit(pkt)
    BY <1>1, <1>2, <2>2, <2>4 DEF HrGet
  <2>5. QED
    BY <2>3, <2>4
<1>3. ASSUME NEW w \in HrWorkers, HrSet(w) PROVE HrTwins'
  <2> DEFINE pkt == hrPkt[w]
  <2>1. pkt.ts \in HrMoments
    BY <1>3 DEF HrTypeInv, HrProcs
  <2>2. /\ hrPassed' = hrPassed \cup {pkt} /\ UNCHANGED hrDropped
        /\ DOMAIN hrDedupCache' = DOMAIN hrDedupCache \cup {pkt.content}
        /\ \A c \in DOMAIN hrDedupCache' :
              hrDedupCache'[c] = IF c = pkt.content THEN pkt.ts ELSE hrDedupCache[c]
    BY <1>3 DEF HrSet, HrRemember
  <2> HIDE DEF pkt
  <2>3. QED
    BY <2>1, <2>2 DEF HrTwins, HrDroppedHaveTwin
<1>4. ASSUME NEW c \in DOMAIN HrContents, HrEvict(c) PROVE HrTwins'
  BY <1>4 DEF HrEvict, HrTwins, HrDroppedHaveTwin
<1>5. CASE /\ ~(\E w \in HrWorkers : HrGet(w) \/ HrSet(w))
           /\ ~(\E c \in DOMAIN HrContents : HrEvict(c))
  <2>1. UNCHANGED <<hrPassed, hrDropped, hrDedupCache>>
    BY <1>5 DEF HrNext, HrTick, HrDecode, HrParse, HrLoadKey, HrLoadDate,
       HrStoreDate, HrStoreKey, HrImportStarts, HrImportRead, HrFlushKey, HrImportEnds
  <2>2. QED
    BY <1>1, <2>1
<1>6. QED
  BY <1>2, <1>3, <1>4, <1>5

\* What a step does to the goroutines: one of them goes on, and the date is looked
\* up with the packet it has.
LEMMA HrOthersStay ==
    ASSUME HrTypeInv, NEW p \in HrProcs, NEW pc, HrGoes(p, pc) \/ (HrEnds(p) /\ pc = "idle")
    PROVE  /\ hrPc'[p] = pc
           /\ \A q \in HrProcs : q # p => hrPc'[q] = hrPc[q] /\ hrPkt'[q] = hrPkt[q]
           /\ pc # "idle" => hrPkt'[p] = hrPkt[p]
  BY DEF HrTypeInv, HrGoes, HrEnds

LEMMA HrCachedStep ==
    ASSUME HrTypeInv, HrCached, HrNext
    PROVE  HrCached'
<1> DEFINE Same == \A p, q \in HrProcs : HrDating(p) /\ HrDating(q) => HrUtcDay(p) = HrUtcDay(q)
           Here == \A p \in HrProcs : HrDating(p) => HrDayOf(HrLocal(hrPkt[p])) = HrUtcDay(p)
           Ready == \A p \in HrProcs : hrPc[p] \in {"date", "storeKey"} => hrDate = HrUtcDay(p)
           Pair == \A d \in HrDays : hrKey = HrDayKey(d) =>
                       hrDate = d \/ \E p \in HrProcs : hrPc[p] = "storeKey"
           Dated == \A r \in hrRows : r.date = HrDayOf(r.ts)
<1>1. (hrMixed => hrMixed') /\ (hrForeign => hrForeign')
  <2>1. CASE \E p \in HrProcs : HrLoadKey(p)
    BY <2>1 DEF HrLoadKey
  <2>2. CASE ~(\E p \in HrProcs : HrLoadKey(p))
    <3>1. UNCHANGED <<hrMixed, hrForeign>>
      BY <2>2 DEF HrNext, HrTick, HrDecode, HrGet, HrSet, HrEvict, HrParse, HrLoadDate,
         HrStoreDate, HrStoreKey, HrImportStarts, HrImportRead, HrFlushKey, HrImportEnds
    <3>2. QED
      BY <3>1
  <2>3. QED
    BY <2>1, <2>2
<1> SUFFICES ASSUME ~hrMixed', ~hrForeign' PROVE Same' /\ Here' /\ Ready' /\ Pair' /\ Dated'
  BY DEF HrCached
<1>2. Same /\ Here /\ Ready /\ Pair /\ Dated
  BY <1>1 DEF HrCached
<1>3. ASSUME UNCHANGED <<hrKey, hrDate, hrRows>>,
             \A p \in HrProcs : hrPc'[p] \in {"date", "storeDate", "storeKey"}
                                   => hrPc'[p] = hrPc[p] /\ hrPkt'[p] = hrPkt[p],
             \A p \in HrProcs : hrPc[p] = "storeKey" => hrPc'[p] = "storeKey"
      PROVE  Same' /\ Here' /\ Ready' /\ Pair' /\ Dated'
  BY <1>2, <1>3 DEF HrDating, HrUtcDay
<1>4. ASSUME NEW w \in HrWorkers, NEW c \in DOMAIN HrContents, NEW raw \in HrRaws, HrDecode(w, c, raw)
      PROVE  Same' /\ Here' /\ Ready' /\ Pair' /\ Dated'
  <2>1. /\ UNCHANGED <<hrKey, hrDate, hrRows>> /\ hrPc[w] = "idle"
        /\ \A p \in HrProcs : p # w => hrPc'[p] = hrPc[p] /\ hrPkt'[p] = hrPkt[p]
        /\ w \in HrProcs /\ hrPc'[w] \in {"get", "parse"}
    BY <1>4 DEF HrDecode, HrTypeInv, HrProcs
  <2>2. QED
    BY <1>3, <2>1
<1>5. ASSUME NEW w \in HrWorkers, HrGet(w) \/ HrSet(w) \/ HrParse(w)
      PROVE  Same' /\ Here' /\ Ready' /\ Pair' /\ Dated'
  <2>1. /\ UNCHANGED <<hrKey, hrDate, hrRows>> /\ hrPc[w] \in {"get", "set", "parse"} /\ w \in HrProcs
        /\ HrEnds(w) \/ HrGoes(w, "set") \/ HrGoes(w, "parse") \/ HrGoes(w, "key")
    BY <1>5 DEF HrGet, HrSet, HrParse, HrProcs
  <2>2. /\ hrPc'[w] \in {"idle", "set", "parse", "key"}
        /\ \A p \in HrProcs : p # w => hrPc'[p] = hrPc[p] /\ hrPkt'[p] = hrPkt[p]
    BY <2>1, HrOthersStay
  <2>3. QED
    BY <1>3, <2>1, <2>2
<1>6. ASSUME NEW f \in HrFile, HrImportRead(f)
      PROVE  Same' /\ Here' /\ Ready' /\ Pair' /\ Dated'
  <2>1. /\ UNCHANGED <<hrKey, hrDate, hrRows>> /\ hrPc[Importer] = "idle"
        /\ \A p \in HrProcs : p # Importer => hrPc'[p] = hrPc[p] /\ hrPkt'[p] = hrPkt[p]
        /\ Importer \in HrProcs /\ hrPc'[Importer] \in {"idle", "key"}
    BY <1>6 DEF HrImportRead, HrTypeInv, HrProcs
  <2>2. QED
    BY <1>3, <2>1
<1>7. CASE HrTick \/ HrImportStarts \/ HrImportEnds \/ (\E c \in DOMAIN HrContents : HrEvict(c))
           \/ (\E t \in DOMAIN hrBatches : HrFlushKey(t))
  BY <1>3, <1>7 DEF HrTick, HrImportStarts, HrImportEnds, HrEvict, HrFlushKey
<1>8. ASSUME NEW p \in HrProcs, HrLoadKey(p)
      PROVE  Same' /\ Here' /\ Ready' /\ Pair' /\ Dated'
  <2> DEFINE day == HrDayOf(HrLocal(hrPkt[p]))
             pc == IF hrKey = HrDayKey(day) THEN "date" ELSE "storeDate"
  <2>1. /\ HrGoes(p, pc) /\ hrPc[p] = "key" /\ UNCHANGED <<hrKey, hrDate, hrRows>>
        /\ day = HrUtcDay(p)
        /\ \A q \in HrProcs \ {p} : HrDating(q) => HrDayOf(HrLocal(hrPkt[q])) = day
    BY <1>8 DEF HrLoadKey, HrUtcDay
  <2>2. \A q \in HrProcs \ {p} : HrDating(q) => HrUtcDay(q) = day
    BY <1>2, <2>1
  <2>3. day \in HrDays
    <3>1. hrPkt[p].ts \in HrMoments
      BY DEF HrTypeInv
    <3>2. QED
      BY <2>1, <3>1, HrDayRange DEF HrUtcDay
  <2>4. pc = "date" => hrDate = day
    <3> SUFFICES ASSUME hrKey = HrDayKey(day) PROVE hrDate = day
      OBVIOUS
    <3>1. CASE \E q \in HrProcs : hrPc[q] = "storeKey"
      <4>1. PICK q \in HrProcs : hrPc[q] = "storeKey"
        BY <3>1
      <4>2. q # p /\ HrDating(q) /\ hrDate = HrUtcDay(q)
        BY <1>2, <2>1, <4>1 DEF HrDating
      <4>3. QED
        BY <2>2, <4>2
    <3>2. CASE ~(\E q \in HrProcs : hrPc[q] = "storeKey")
      BY <1>2, <2>3, <3>2
    <3>3. QED
      BY <3>1, <3>2
  <2>5. /\ hrPc'[p] = pc /\ hrPkt'[p] = hrPkt[p] /\ pc \in {"date", "storeDate"}
        /\ \A q \in HrProcs : q # p => hrPc'[q] = hrPc[q] /\ hrPkt'[q] = hrPkt[q]
    BY <2>1, HrOthersStay
  <2>6. day = HrDayOf(HrLocal(hrPkt'[p])) /\ day = HrDayOf(hrPkt'[p].ts)
    BY <2>1, <2>5 DEF HrUtcDay
  <2> HIDE DEF day, pc
  <2>7. \A q \in HrProcs : HrDating(q)' => HrUtcDay(q)' = day /\ HrDayOf(HrLocal(hrPkt'[q])) = day
    BY <2>1, <2>2, <2>5, <2>6 DEF HrDating, HrUtcDay
  <2>8. Same' /\ Here'
    BY <2>7 DEF HrUtcDay
  <2>9. Ready'
    BY <1>2, <2>1, <2>4, <2>5, <2>6 DEF HrUtcDay
  <2>10. Pair' /\ Dated'
    BY <1>2, <2>1, <2>5
  <2>11. QED
    BY <2>8, <2>9, <2>10
<1>9. ASSUME NEW p \in HrProcs, HrLoadDate(p)
       PROVE  Same' /\ Here' /\ Ready' /\ Pair' /\ Dated'
  <2>1. hrPc[p] = "date" /\ hrDate = HrUtcDay(p) /\ UNCHANGED <<hrKey, hrDate>>
    BY <1>2, <1>9 DEF HrLoadDate
  <2>2. CASE hrDate = HrUnset
    <3>1. HrGoes(p, "storeDate") /\ UNCHANGED hrRows
      BY <1>9, <2>2 DEF HrLoadDate
    <3>2. /\ hrPc'[p] = "storeDate" /\ hrPkt'[p] = hrPkt[p]
          /\ \A q \in HrProcs : q # p => hrPc'[q] = hrPc[q] /\ hrPkt'[q] = hrPkt[q]
      BY <3>1, HrOthersStay
    <3>3. QED
      BY <1>2, <2>1, <3>1, <3>2 DEF HrDating, HrUtcDay
  <2>3. CASE hrDate # HrUnset
    <3> DEFINE row == [content |-> hrPkt[p].content, ts |-> hrPkt[p].ts, live |-> hrPkt[p].live,
                       date |-> hrDate, table |-> HrTableOf(p)]
    <3>1. hrRows' = hrRows \cup {row} /\ HrEnds(p)
      BY <1>9, <2>3 DEF HrLoadDate, HrConverted
    <3>2. \A r \in hrRows' : r \in hrRows \/ r.date = HrDayOf(r.ts)
      BY <2>1, <3>1 DEF HrUtcDay
    <3>3. /\ hrPc'[p] = "idle" /\ hrPc[p] = "date"
          /\ \A q \in HrProcs : q # p => hrPc'[q] = hrPc[q] /\ hrPkt'[q] = hrPkt[q]
      BY <2>1, <3>1, HrOthersStay
    <3>4. Same' /\ Here' /\ Ready'
      BY <1>2, <2>1, <3>3 DEF HrDating, HrUtcDay
    <3>5. Pair' /\ Dated'
      BY <1>2, <2>1, <3>2, <3>3
    <3>6. QED
      BY <3>4, <3>5
  <2>4. QED
    BY <2>2, <2>3
<1>10. ASSUME NEW p \in HrProcs, HrStoreDate(p)
       PROVE  Same' /\ Here' /\ Ready' /\ Pair' /\ Dated'
  <2>1. hrPc[p] = "storeDate" /\ hrDate' = HrUtcDay(p) /\ HrGoes(p, "storeKey")
        /\ UNCHANGED <<hrKey, hrRows>>
    BY <1>10 DEF HrStoreDate, HrUtcDay
  <2>2. /\ hrPc'[p] = "storeKey" /\ hrPkt'[p] = hrPkt[p]
        /\ \A q \in HrProcs : q # p => hrPc'[q] = hrPc[q] /\ hrPkt'[q] = hrPkt[q]
    BY <2>1, HrOthersStay
  <2>3. Same' /\ Here'
    BY <1>2, <2>1, <2>2 DEF HrDating, HrUtcDay
  <2>4. Ready'
    BY <1>2, <2>1, <2>2 DEF HrDating, HrUtcDay
  <2>5. Pair' /\ Dated'
    BY <1>2, <2>1, <2>2
  <2>6. QED
    BY <2>3, <2>4, <2>5
<1>11. ASSUME NEW p \in HrProcs, HrStoreKey(p)
       PROVE  Same' /\ Here' /\ Ready' /\ Pair' /\ Dated'
  <2> DEFINE row == [content |-> hrPkt[p].content, ts |-> hrPkt[p].ts, live |-> hrPkt[p].live,
                     date |-> HrDayOf(hrPkt[p].ts), table |-> HrTableOf(p)]
  <2>1. /\ hrPc[p] = "storeKey" /\ hrDate = HrUtcDay(p) /\ hrDate' = hrDate
        /\ hrKey' = HrDayKey(HrDayOf(HrLocal(hrPkt[p]))) /\ HrEnds(p) /\ hrRows' = hrRows \cup {row}
    BY <1>2, <1>11 DEF HrStoreKey, HrConverted
  <2>2. \A r \in hrRows' : r \in hrRows \/ r.date = HrDayOf(r.ts)
    BY <2>1
  <2>3. hrKey' = HrDayKey(hrDate)
    BY <1>2, <2>1 DEF HrDating
  <2>4. hrDate \in HrDays
    <3>1. hrPkt[p].ts \in HrMoments
      BY DEF HrTypeInv
    <3>2. QED
      BY <2>1, <3>1, HrDayRange DEF HrUtcDay
  <2> HIDE DEF row
  <2>5. /\ hrPc'[p] = "idle"
        /\ \A q \in HrProcs : q # p => hrPc'[q] = hrPc[q] /\ hrPkt'[q] = hrPkt[q]
    BY <2>1, HrOthersStay
  <2>6. Same' /\ Here' /\ Ready'
    BY <1>2, <2>1, <2>5 DEF HrDating, HrUtcDay
  <2>7. Pair'
    BY <2>1, <2>3, <2>4, HrKeysDiffer
  <2>8. Dated'
    BY <1>2, <2>2
  <2>9. QED
    BY <2>6, <2>7, <2>8
<1>12. QED
  <2> HIDE DEF Same, Here, Ready, Pair, Dated
  <2>1. QED
    BY <1>4, <1>5, <1>6, <1>7, <1>8, <1>9, <1>10, <1>11 DEF HrNext

\* The rows of a step: those there were, and perhaps that of one goroutine's packet.
LEMMA HrRowsStep ==
    ASSUME HrNext
    PROVE  \/ hrRows' = hrRows
           \/ \E p \in HrProcs :
                /\ hrPc[p] \in {"date", "storeKey"}
                /\ \A r \in hrRows' : r \in hrRows \/
                      /\ r.content = hrPkt[p].content /\ r.live = hrPkt[p].live
                      /\ r.table = HrTableOf(p)
                      /\ r.date = IF hrPc[p] = "date" THEN hrDate ELSE HrDayOf(hrPkt[p].ts)
<1>1. CASE \E p \in HrProcs : HrLoadDate(p) \/ HrStoreKey(p)
  <2>1. PICK p \in HrProcs : HrLoadDate(p) \/ HrStoreKey(p)
    BY <1>1
  <2>2. CASE HrLoadDate(p)
    BY <2>2 DEF HrLoadDate, HrConverted
  <2>3. CASE HrStoreKey(p)
    BY <2>3 DEF HrStoreKey, HrConverted
  <2>4. QED
    BY <2>1, <2>2, <2>3
<1>2. CASE ~(\E p \in HrProcs : HrLoadDate(p) \/ HrStoreKey(p))
  BY <1>2 DEF HrNext, HrTick, HrDecode, HrGet, HrSet, HrEvict, HrParse, HrLoadKey,
     HrStoreDate, HrImportStarts, HrImportRead, HrFlushKey, HrImportEnds
<1>3. QED
  BY <1>1, <1>2

\* A response goes by the method of its CSeq, a request by its own.
LEMMA HrTableOfMethod ==
    \A kind : kind # "rtcp" => HrTable(kind) = GetSIPType(HrCseqMethod(kind))
  BY DEF HrTable, GetSIPMethod, GetSIPType, HrFirstMethod, HrCseqMethod

LEMMA HrTransactionStep ==
    ASSUME HrTypeInv, HrTransactionTogether, HrNext
    PROVE  HrTransactionTogether'
<1>1. hrForced' = hrForced
  BY DEF HrNext, HrTick, HrDecode, HrGet, HrSet, HrEvict, HrParse, HrLoadKey, HrLoadDate,
     HrStoreDate, HrStoreKey, HrImportStarts, HrImportRead, HrFlushKey, HrImportEnds
<1>2. CASE hrRows' = hrRows
  BY <1>1, <1>2 DEF HrTransactionTogether
<1>3. CASE hrRows' # hrRows
  <2>1. PICK p \in HrProcs :
            /\ hrPc[p] \in {"date", "storeKey"}
            /\ \A r \in hrRows' : r \in hrRows \/
                  (r.content = hrPkt[p].content /\ r.live = hrPkt[p].live /\ r.table = HrTableOf(p))
    BY <1>3, HrRowsStep
  <2>2. hrPkt[p].live = (p # Importer)
    BY <2>1 DEF HrTypeInv
  <2>3. HrContents[hrPkt[p].content] # "rtcp" /\ (hrPkt[p].live \/ hrForced = HrNone) =>
            HrTableOf(p) = GetSIPType(HrCseqMethod(HrContents[hrPkt[p].content]))
    BY <2>2, HrTableOfMethod DEF HrTableOf
  <2>4. QED
    BY <1>1, <2>1, <2>3 DEF HrTransactionTogether
<1>4. QED
  BY <1>2, <1>3

LEMMA HrNearStep ==
    ASSUME HrTypeInv, HrNear, hrPc[Importer] # "idle" <=> hrImport = "converts", HrNext
    PROVE  HrNear'
<1>0. /\ hrNow \in Nat /\ HrFuture \in Nat /\ hrNow' \in Nat /\ hrNow <= hrNow' /\ hrDate \in Int
      /\ HrWorkers \subseteq HrProcs
  <2>1. HrStart \in Nat /\ HrEnd \in Nat /\ HrFuture \in Nat
    BY HepRowAssumption
  <2>2. hrNow \in Nat /\ hrDate \in Int
    BY <2>1 DEF HrTypeInv
  <2>3. HrTick \/ hrNow' = hrNow
    BY DEF HrNext, HrDecode, HrGet, HrSet, HrEvict, HrParse, HrLoadKey, HrLoadDate,
       HrStoreDate, HrStoreKey, HrImportStarts, HrImportRead, HrFlushKey, HrImportEnds
  <2>4. QED
    BY <2>1, <2>2, <2>3 DEF HrTick, HrProcs
<1>1. \A p \in HrProcs : hrPkt[p].ts \in Int
  <2>1. \A p \in HrProcs : hrPkt[p].ts \in HrMoments
    BY DEF HrTypeInv
  <2>2. QED
    BY <2>1, HrMomentsAre
<1>2. \A w \in HrWorkers : hrPc'[w] # "idle" => hrPkt'[w].ts <= hrNow' + HrFuture
  <2>1. ASSUME NEW w \in HrWorkers, hrPc'[w] # "idle"
        PROVE  \/ hrPc[w] # "idle" /\ hrPkt'[w] = hrPkt[w]
               \/ \E c \in DOMAIN HrContents, raw \in HrRaws :
                     hrPkt'[w].ts = HrSanitized(raw, hrNow) /\ hrNow' = hrNow
    <3>1. ASSUME NEW v \in HrWorkers, NEW c \in DOMAIN HrContents, NEW raw \in HrRaws, HrDecode(v, c, raw)
          PROVE  \/ hrPc[w] # "idle" /\ hrPkt'[w] = hrPkt[w]
                 \/ hrPkt'[w].ts = HrSanitized(raw, hrNow) /\ hrNow' = hrNow
      BY <1>0, <2>1, <3>1 DEF HrDecode, HrTypeInv
    <3>2. ASSUME NEW p \in HrProcs, NEW pc, HrGoes(p, pc) \/ HrEnds(p), hrPc[p] # "idle"
          PROVE  hrPc[w] # "idle" /\ hrPkt'[w] = hrPkt[w]
      BY <1>0, <2>1, <3>2 DEF HrGoes, HrEnds, HrTypeInv
    <3>3. ASSUME NEW v \in HrWorkers, HrGet(v) \/ HrSet(v) \/ HrParse(v)
          PROVE  hrPc[w] # "idle" /\ hrPkt'[w] = hrPkt[w]
      <4>1. v \in HrProcs /\ hrPc[v] # "idle"
            /\ (HrEnds(v) \/ HrGoes(v, "set") \/ HrGoes(v, "parse") \/ HrGoes(v, "key"))
        BY <1>0, <3>3 DEF HrGet, HrSet, HrParse
      <4>2. QED
        BY <3>2, <4>1
    <3>4. ASSUME NEW p \in HrProcs, HrLoadKey(p) \/ HrLoadDate(p) \/ HrStoreDate(p) \/ HrStoreKey(p)
          PROVE  hrPc[w] # "idle" /\ hrPkt'[w] = hrPkt[w]
      <4>1. hrPc[p] # "idle"
            /\ (HrEnds(p) \/ HrGoes(p, "date") \/ HrGoes(p, "storeDate") \/ HrGoes(p, "storeKey"))
        BY <3>4 DEF HrLoadKey, HrLoadDate, HrStoreDate, HrStoreKey, HrConverted
      <4>2. QED
        BY <3>2, <4>1
    <3>5. ASSUME NEW f \in HrFile, HrImportRead(f)
          PROVE  hrPc[w] # "idle" /\ hrPkt'[w] = hrPkt[w]
      <4>1. w # Importer /\ w \in HrProcs
        BY <1>0, HepRowAssumption
      <4>2. QED
        BY <2>1, <3>5, <4>1 DEF HrImportRead, HrTypeInv
    <3>6. CASE HrTick \/ HrImportStarts \/ HrImportEnds \/ (\E c \in DOMAIN HrContents : HrEvict(c))
               \/ (\E t \in DOMAIN hrBatches : HrFlushKey(t))
      BY <2>1, <3>6 DEF HrTick, HrImportStarts, HrImportEnds, HrEvict, HrFlushKey
    <3>7. QED
      BY <3>1, <3>3, <3>4, <3>5, <3>6 DEF HrNext
  <2>2. ASSUME NEW w \in HrWorkers, hrPc'[w] # "idle"
        PROVE  hrPkt'[w].ts <= hrNow' + HrFuture
    <3>1. CASE hrPc[w] # "idle" /\ hrPkt'[w] = hrPkt[w]
      BY <1>0, <1>1, <3>1 DEF HrNear
    <3>2. ASSUME NEW raw \in HrRaws, hrPkt'[w].ts = HrSanitized(raw, hrNow), hrNow' = hrNow
          PROVE  hrPkt'[w].ts <= hrNow' + HrFuture
      <4>1. hrNow \in HrStart .. HrEnd
        BY SMTT(30) DEF HrTypeInv
      <4>2. QED
        BY <3>2, <4>1, HrSanitizedNear
    <3>3. QED
      BY <2>1, <2>2, <3>1, <3>2
  <2>3. QED
    BY <2>2
<1>3. ASSUME hrImport' \in {"never", "no"}
      PROVE  hrImport = hrImport' /\ hrPc[Importer] = "idle"
  BY <1>3 DEF HrNext, HrTick, HrDecode, HrGet, HrSet, HrEvict, HrParse, HrLoadKey, HrLoadDate,
     HrStoreDate, HrStoreKey, HrConverted, HrImportStarts, HrImportRead, HrFlushKey, HrImportEnds,
     hrFileVars
<1>4. ASSUME hrImport' \in {"never", "no"}
      PROVE  /\ hrDate' <= HrDayOf(hrNow' + HrFuture)
             /\ \A r \in hrRows' : r.date <= HrDayOf(hrNow' + HrFuture)
  <2> DEFINE day == HrDayOf(hrNow + HrFuture)
             later == HrDayOf(hrNow' + HrFuture)
  <2>1. hrDate <= day /\ (\A r \in hrRows : r.date <= day)
    BY <1>3, <1>4 DEF HrNear
  <2>2. day <= later /\ day \in Int /\ later \in Int
    BY <1>0, HrDayMonotone, HrDayRange
  <2>3. \A p \in HrProcs : hrPc[p] # "idle" => HrDayOf(hrPkt[p].ts) <= day /\ HrDayOf(hrPkt[p].ts) \in Int
    <3>1. ASSUME NEW p \in HrProcs, hrPc[p] # "idle"
          PROVE  hrPkt[p].ts <= hrNow + HrFuture
      BY <1>3, <1>4, <3>1 DEF HrNear, HrProcs
    <3>2. QED
      BY <1>0, <1>1, <3>1, HrDayMonotone, HrDayRange
  <2>4. hrDate' = hrDate \/ \E p \in HrProcs : hrPc[p] # "idle" /\ hrDate' = HrDayOf(hrPkt[p].ts)
    <3>1. CASE \E p \in HrProcs : HrStoreDate(p)
      BY <3>1 DEF HrStoreDate
    <3>2. CASE ~(\E p \in HrProcs : HrStoreDate(p))
      BY <3>2 DEF HrNext, HrTick, HrDecode, HrGet, HrSet, HrEvict, HrParse, HrLoadKey, HrLoadDate,
         HrStoreKey, HrImportStarts, HrImportRead, HrFlushKey, HrImportEnds
    <3>3. QED
      BY <3>1, <3>2
  <2>5. hrDate' <= day /\ hrDate' \in Int
    BY <1>0, <2>1, <2>3, <2>4
  <2>6. \A r \in hrRows' : r \in hrRows \/ (r.date <= day /\ r.date \in Int)
    BY <1>0, <2>1, <2>3, HrRowsStep
  <2>7. \A r \in hrRows' : r.date <= day /\ r.date \in Int
    BY <2>1, <2>6 DEF HrNear
  <2> HIDE DEF day, later
  <2>8. hrDate' <= later /\ \A r \in hrRows' : r.date <= later
    BY <2>2, <2>5, <2>7
  <2>9. QED
    BY <2>8 DEF later
<1>5. \A r \in hrRows' : r.date \in Int
  BY <1>0, <1>1, HrRowsStep, HrDayRange DEF HrNear
<1>6. QED
  BY <1>2, <1>4, <1>5 DEF HrNear

LEMMA HrInitInv == HrInit => HrInv
<1> SUFFICES ASSUME HrInit PROVE HrInv
  OBVIOUS
<1>0. Importer \in HrProcs /\ HrStart \in Nat /\ HrEnd \in Nat /\ HrStart <= HrEnd /\ HrFuture \in Nat
      /\ HrWorkers \subseteq HrProcs
  BY HepRowAssumption DEF HrProcs
<1>1. HrTypeInv
  <2>1. hrPkt \in [HrProcs -> [content : DOMAIN HrContents \cup {HrNone}, ts : HrMoments, live : BOOLEAN]]
    BY HrMomentsAre DEF HrInit, HrIdle
  <2>2. hrNow \in HrStart .. HrEnd /\ hrForced \in {HrNone, "default"} /\ hrDate \in Int /\ hrKey \in Int
        /\ hrMixed \in BOOLEAN /\ hrForeign \in BOOLEAN
    <3>1. hrNow \in HrStart .. HrEnd
      BY <1>0 DEF HrInit
    <3>2. hrDate \in Int /\ hrKey \in Int
      BY DEF HrInit, HrUnset
    <3>3. hrMixed \in BOOLEAN /\ hrForeign \in BOOLEAN
      BY DEF HrInit
    <3>4. hrForced \in {HrNone, "default"}
      BY DEF HrInit
    <3>5. QED
      BY <3>1, <3>2, <3>3, <3>4
  <2>3. hrPc = [p \in HrProcs |-> "idle"]
    BY DEF HrInit
  <2>4. QED
    BY <2>1, <2>2, <2>3 DEF HrTypeInv
<1>2. HrTwins
  BY DEF HrInit, HrTwins, HrDroppedHaveTwin
<1>3. HrCached
  <2>1. \A d \in HrDays : hrKey # HrDayKey(d)
    BY HrKeysDiffer DEF HrInit
  <2>2. QED
    BY <2>1 DEF HrInit, HrCached, HrDating
<1>4. HrNear
  <2>1. hrDate <= HrDayOf(hrNow + HrFuture)
    <3>1. HrDayOf(0) = 0
      BY HepRowAssumption DEF HrDayOf
    <3>2. HrDayOf(0) <= HrDayOf(hrNow + HrFuture) /\ HrDayOf(hrNow + HrFuture) \in Int
      BY <1>0, HrDayMonotone, HrDayRange DEF HrInit
    <3>3. QED
      BY <3>1, <3>2 DEF HrInit, HrUnset
  <2>2. QED
    BY <1>0, <2>1 DEF HrInit, HrNear
<1>5. HrTransactionTogether
  BY DEF HrInit, HrTransactionTogether
<1>6. HrFileInv
  <2>1. HrOnLake = {} /\ HrBatched = {} /\ {f \in HrFile \ hrLeft : HrBad(f)} = {}
    BY DEF HrInit, HrOnLake, HrBatched
  <2>2. Cardinality({}) = 0
    BY FS_EmptySet
  <2>3. HrFile \ hrLeft = {} /\ hrPc[Importer] = "idle" /\ DOMAIN hrBatches = {}
        /\ hrLake \in [HrFile -> {0, 1}] /\ hrImport \in {"never", "no"} /\ hrLeft = HrFile
        /\ hrInserted = 0 /\ hrRejected = 0
    BY <1>0 DEF HrInit
  <2>4. /\ hrRejected = Cardinality({f \in HrFile \ hrLeft : HrBad(f)})
        /\ hrInserted \in Nat /\ hrInserted = Cardinality(HrOnLake) /\ hrInserted <= Cardinality(HrOnLake)
    <3>1. Cardinality({f \in HrFile \ hrLeft : HrBad(f)}) = 0 /\ Cardinality(HrOnLake) = 0
      BY <2>1, <2>2
    <3>2. hrInserted = 0 /\ hrRejected = 0
      BY <2>3
    <3>3. QED
      BY <3>1, <3>2
  <2>5. QED
    BY <2>1, <2>3, <2>4 DEF HrFileInv
<1>7. QED
  BY <1>1, <1>2, <1>3, <1>4, <1>5, <1>6 DEF HrInv

\* What does not touch the import leaves the packets where they are.
LEMMA HrFileStays ==
    ASSUME HrFileInv, UNCHANGED <<hrLeft, hrBatches, hrInserted, hrRejected, hrImport, hrLake>>,
           hrPc'[Importer] # "idle" <=> hrPc[Importer] # "idle",
           hrPkt'[Importer] = hrPkt[Importer]
    PROVE  HrFileInv'
<1>1. HrHand' = HrHand /\ HrBatched' = HrBatched /\ HrOnLake' = HrOnLake
  BY DEF HrHand, HrBatched, HrOnLake
<1>2. QED
  BY <1>1 DEF HrFileInv

LEMMA HrFileReads ==
    ASSUME HrTypeInv, HrFileInv, NEW f \in HrFile, HrImportRead(f)
    PROVE  HrFileInv'
<1> DEFINE read == HrFile \ hrLeft
           bad == {x \in read : HrBad(x)}
<1>0. IsFiniteSet(HrFile) /\ f = [content |-> f.content, ts |-> f.ts] /\ Importer \in HrProcs
  BY HepRowAssumption DEF HrProcs
<1>1. /\ hrImport = "reads" /\ hrPc[Importer] = "idle" /\ f \in hrLeft /\ hrLeft' = hrLeft \ {f}
      /\ UNCHANGED <<hrBatches, hrInserted, hrLake>>
  BY DEF HrImportRead
<1>2. HrOnLake' = HrOnLake /\ HrBatched' = HrBatched /\ HrFile \ hrLeft' = read \cup {f} /\ f \notin read
  BY <1>1 DEF HrOnLake, HrBatched
<1>3. hrLake[f] = 0 /\ f \notin HrBatched
  BY <1>1 DEF HrFileInv, HrOnLake
<1>4. IsFiniteSet(bad) /\ Cardinality(bad) \in Nat
  BY <1>0, FS_Subset, FS_CardinalityType
<1>5. CASE HrBad(f)
  <2>1. hrRejected' = hrRejected + 1 /\ UNCHANGED <<hrPc, hrPkt, hrImport>>
    BY <1>5 DEF HrImportRead, HrBad
  <2>2. {x \in HrFile \ hrLeft' : HrBad(x)} = bad \cup {f} /\ f \notin bad
    BY <1>2, <1>5
  <2>3. Cardinality(bad \cup {f}) = Cardinality(bad) + 1
    BY <1>4, <2>2, FS_AddElement
  <2>4. hrRejected' = Cardinality({x \in HrFile \ hrLeft' : HrBad(x)})
    BY <2>1, <2>2, <2>3 DEF HrFileInv
  <2> HIDE DEF read, bad
  <2>5. HrFile \ hrLeft = read
    BY DEF read
  <2>6. QED
    BY <1>1, <1>2, <1>5, <2>1, <2>4, <2>5 DEF HrFileInv
<1>6. CASE ~HrBad(f)
  <2>1. /\ hrPkt' = [hrPkt EXCEPT ![Importer] = [content |-> f.content, ts |-> f.ts, live |-> FALSE]]
        /\ hrPc' = [hrPc EXCEPT ![Importer] = "key"]
        /\ hrImport' = "converts" /\ hrRejected' = hrRejected
    BY <1>6 DEF HrImportRead, HrBad
  <2>2. HrHand' = f /\ hrPc'[Importer] # "idle"
    BY <1>0, <2>1 DEF HrHand, HrTypeInv
  <2>3. {x \in HrFile \ hrLeft' : HrBad(x)} = bad
    BY <1>2, <1>6
  <2> HIDE DEF read, bad
  <2>4. HrFile \ hrLeft = read /\ hrRejected = Cardinality(bad)
    BY DEF read, bad, HrFileInv
  <2>5. QED
    BY <1>1, <1>2, <1>3, <1>6, <2>1, <2>2, <2>3, <2>4 DEF HrFileInv
<1>7. QED
  BY <1>5, <1>6

LEMMA HrFileConverts ==
    ASSUME HrTypeInv, HrFileInv, NEW dated, hrPc[Importer] # "idle", HrConverted(Importer, dated)
    PROVE  HrFileInv'
<1> DEFINE t == HrTableOf(Importer)
           old(x) == IF x \in DOMAIN hrBatches THEN hrBatches[x] ELSE {}
<1>0. Importer \in HrProcs
  BY DEF HrProcs
<1>1. /\ hrPc'[Importer] = "idle" /\ hrImport = "converts" /\ hrImport' = "reads"
      /\ UNCHANGED <<hrLeft, hrInserted, hrRejected, hrLake>>
      /\ hrBatches' = [x \in DOMAIN hrBatches \cup {t} |->
                          old(x) \cup (IF x = t THEN {HrHand} ELSE {})]
  BY <1>0 DEF HrConverted, HrEnds, HrTypeInv, HrFileInv, HrHand
<1>2. /\ HrHand \in HrFile \ hrLeft /\ ~HrBad(HrHand) /\ hrLake[HrHand] = 0 /\ HrHand \notin HrBatched
  BY DEF HrFileInv
<1> HIDE DEF t
<1>3. HrBatched' = HrBatched \cup {HrHand} /\ HrOnLake' = HrOnLake
  <2>1. HrOnLake' = HrOnLake
    BY <1>1 DEF HrOnLake
  <2>2. ASSUME NEW f \in HrBatched' PROVE f \in HrBatched \cup {HrHand}
    <3>1. PICK x \in DOMAIN hrBatches' : f \in hrBatches'[x]
      BY <2>2 DEF HrBatched
    <3>2. QED
      BY <1>1, <3>1 DEF HrBatched
  <2>3. ASSUME NEW f \in HrBatched PROVE f \in HrBatched'
    <3>1. PICK x \in DOMAIN hrBatches : f \in hrBatches[x]
      BY <2>3 DEF HrBatched
    <3>2. x \in DOMAIN hrBatches' /\ f \in hrBatches'[x]
      BY <1>1, <3>1
    <3>3. QED
      BY <3>2 DEF HrBatched
  <2>4. HrHand \in HrBatched'
    <3>1. t \in DOMAIN hrBatches' /\ HrHand \in hrBatches'[t]
      BY <1>1
    <3>2. QED
      BY <3>1 DEF HrBatched
  <2>5. QED
    BY <2>1, <2>2, <2>3, <2>4
<1>4. \A x, u \in DOMAIN hrBatches' : x # u => hrBatches'[x] \cap hrBatches'[u] = {}
  <2>1. \A x : old(x) \subseteq HrBatched
    BY DEF HrBatched
  <2>2. \A x, u : x # u => old(x) \cap old(u) = {}
    BY DEF HrFileInv
  <2> HIDE DEF old
  <2>3. QED
    BY <1>1, <1>2, <2>1, <2>2
<1>5. QED
  <2> DEFINE hand == HrHand
  <2>1. hand = HrHand
    OBVIOUS
  <2> HIDE DEF hand
  <2>2. HrBatched' = HrBatched \cup {hand} /\ hand \in HrFile \ hrLeft /\ ~HrBad(hand) /\ hrLake[hand] = 0
    BY <1>2, <1>3, <2>1
  <2>3. HrBatched' \subseteq {f \in HrFile \ hrLeft' : ~HrBad(f)}
    BY <1>1, <2>2 DEF HrFileInv
  <2>4. \A f \in HrBatched' : hrLake'[f] = 0
    BY <1>1, <2>2 DEF HrFileInv
  <2>5. \A f \in HrFile \ hrLeft' : HrBad(f) \/ hrLake'[f] = 1 \/ f \in HrBatched'
    BY <1>1, <2>1, <2>2 DEF HrFileInv
  <2>6. /\ hrLeft' \subseteq HrFile /\ hrLake' \in [HrFile -> {0, 1}]
        /\ HrOnLake' \subseteq {f \in HrFile \ hrLeft' : ~HrBad(f)}
        /\ hrRejected' = Cardinality({f \in HrFile \ hrLeft' : HrBad(f)})
        /\ hrInserted' \in Nat /\ hrInserted' = Cardinality(HrOnLake') /\ hrInserted' <= Cardinality(HrOnLake')
    BY <1>1, <1>3 DEF HrFileInv
  <2>7. QED
    BY <1>1, <1>4, <2>3, <2>4, <2>5, <2>6 DEF HrFileInv

LEMMA HrFileFlushes ==
    ASSUME HrFileInv, NEW t \in DOMAIN hrBatches, HrFlushKey(t)
    PROVE  HrFileInv'
<1> DEFINE batch == hrBatches[t]
           n == Cardinality(batch)
<1>0. IsFiniteSet(HrFile)
  BY HepRowAssumption
<1>1. /\ hrImport = "reads" /\ hrPc[Importer] = "idle" /\ UNCHANGED <<hrPc, hrPkt, hrLeft, hrRejected>>
      /\ \/ /\ hrLake' = [f \in HrFile |-> hrLake[f] + (IF f \in batch THEN 1 ELSE 0)]
            /\ \/ hrImport' = "reads" /\ hrInserted' = hrInserted + n
                  /\ hrBatches' = [hrBatches EXCEPT ![t] = {}]
               \/ hrImport' = "failed" /\ UNCHANGED <<hrInserted, hrBatches>>
         \/ hrImport' = "failed" /\ UNCHANGED <<hrLake, hrInserted, hrBatches>>
  BY DEF HrFlushKey, HrEmptied
<1>2. /\ batch \subseteq HrBatched /\ HrBatched \subseteq {f \in HrFile \ hrLeft : ~HrBad(f)}
      /\ \A f \in HrBatched : hrLake[f] = 0
      /\ hrLake \in [HrFile -> {0, 1}] /\ hrInserted = Cardinality(HrOnLake) /\ hrInserted \in Nat
      /\ HrOnLake \subseteq {f \in HrFile \ hrLeft : ~HrBad(f)}
  BY <1>1 DEF HrFileInv, HrBatched
<1>3. batch \cap HrOnLake = {} /\ HrOnLake \subseteq HrFile /\ batch \subseteq HrFile
  BY <1>2 DEF HrOnLake
<1>4. IsFiniteSet(batch) /\ IsFiniteSet(HrOnLake) /\ n \in Nat
  BY <1>0, <1>3, FS_Subset, FS_CardinalityType
<1>5. Cardinality(HrOnLake \cup batch) = Cardinality(HrOnLake) + n
  <2>1. Cardinality(HrOnLake \cup batch)
            = Cardinality(HrOnLake) + Cardinality(batch) - Cardinality(HrOnLake \cap batch)
    BY <1>4, FS_Union
  <2>2. HrOnLake \cap batch = {} /\ Cardinality({}) = 0
    BY <1>3, FS_EmptySet
  <2>3. Cardinality(HrOnLake) \in Nat
    BY <1>4, FS_CardinalityType
  <2>4. Cardinality(HrOnLake \cup batch) = Cardinality(HrOnLake) + n - 0
    BY <2>1, <2>2
  <2> HIDE DEF n
  <2>5. QED
    BY <1>4, <2>3, <2>4
<1> HIDE DEF n, batch
<1>6. CASE hrLake' = [f \in HrFile |-> hrLake[f] + (IF f \in batch THEN 1 ELSE 0)]
  <2>1. hrLake' \in [HrFile -> {0, 1}]
    BY <1>2, <1>6
  <2>2. HrOnLake' = HrOnLake \cup batch
    BY <1>2, <1>3, <1>6 DEF HrOnLake
  <2>3. HrOnLake' \subseteq {f \in HrFile \ hrLeft' : ~HrBad(f)}
    BY <1>1, <1>2, <2>2
  <2>4. Cardinality(HrOnLake') = hrInserted + n
    BY <1>2, <1>5, <2>2
  <2>5. CASE hrImport' = "failed" /\ UNCHANGED <<hrInserted, hrBatches>>
    <3>1. HrBatched' = HrBatched
      BY <2>5 DEF HrBatched
    <3>2. hrInserted' \in Nat /\ hrInserted' <= Cardinality(HrOnLake')
      BY <1>2, <1>4, <2>4, <2>5
    <3>3. QED
      BY <1>1, <2>1, <2>3, <2>5, <3>1, <3>2 DEF HrFileInv
  <2>6. CASE hrImport' = "reads" /\ hrInserted' = hrInserted + n /\ hrBatches' = [hrBatches EXCEPT ![t] = {}]
    <3>1. \A x, u \in DOMAIN hrBatches : x # u => hrBatches[x] \cap hrBatches[u] = {}
      BY DEF HrFileInv
    <3>2. HrBatched' = HrBatched \ batch
      BY <2>6, <3>1 DEF HrBatched, batch
    <3>3. \A x, u \in DOMAIN hrBatches' : x # u => hrBatches'[x] \cap hrBatches'[u] = {}
      BY <2>6, <3>1
    <3>4. hrInserted' \in Nat /\ hrInserted' <= Cardinality(HrOnLake') /\ hrInserted' = Cardinality(HrOnLake')
      BY <1>2, <1>4, <2>4, <2>6
    <3>5. \A f \in HrBatched' : hrLake'[f] = 0
      BY <1>2, <1>6, <3>2
    <3>6. HrBatched' \subseteq {f \in HrFile \ hrLeft' : ~HrBad(f)}
      BY <1>1, <1>2, <3>2
    <3>7. \A f \in HrFile \ hrLeft' : HrBad(f) \/ hrLake'[f] = 1 \/ f \in HrBatched'
      <4>1. \A f \in HrFile \ hrLeft : HrBad(f) \/ hrLake[f] = 1 \/ f \in HrBatched
        BY <1>1 DEF HrFileInv
      <4>2. \A f \in batch : f \in HrOnLake'
        BY <2>2
      <4>3. \A f \in HrFile : hrLake[f] = 1 => f \in HrOnLake'
        BY <2>2 DEF HrOnLake
      <4>4. \A f \in HrOnLake' : hrLake'[f] = 1
        BY DEF HrOnLake
      <4>5. QED
        BY <1>1, <3>2, <4>1, <4>2, <4>3, <4>4
    <3>8. hrLeft' \subseteq HrFile /\ hrRejected' = Cardinality({f \in HrFile \ hrLeft' : HrBad(f)})
      BY <1>1 DEF HrFileInv
    <3>9. QED
      BY <1>1, <2>1, <2>3, <2>6, <3>3, <3>4, <3>5, <3>6, <3>7, <3>8 DEF HrFileInv
  <2>7. QED
    BY <1>1, <2>5, <2>6
<1>7. CASE hrImport' = "failed" /\ UNCHANGED <<hrLake, hrInserted, hrBatches>>
  <2>1. HrBatched' = HrBatched /\ HrOnLake' = HrOnLake
    BY <1>7 DEF HrBatched, HrOnLake
  <2>2. QED
    BY <1>1, <1>7, <2>1 DEF HrFileInv
<1>8. QED
  BY <1>1, <1>6, <1>7

LEMMA HrFileStep ==
    ASSUME HrTypeInv, HrFileInv, HrNext
    PROVE  HrFileInv'
<1>0. Importer \in HrProcs /\ Importer \notin HrWorkers /\ HrWorkers \subseteq HrProcs
  BY HepRowAssumption DEF HrProcs
<1>1. ASSUME NEW w \in HrWorkers, \/ \E c \in DOMAIN HrContents, raw \in HrRaws : HrDecode(w, c, raw)
                                  \/ HrGet(w) \/ HrSet(w) \/ HrParse(w)
      PROVE  HrFileInv'
  <2>1. UNCHANGED <<hrLeft, hrBatches, hrInserted, hrRejected, hrImport, hrLake>>
    BY <1>1 DEF HrDecode, HrGet, HrSet, HrParse, hrFileVars
  <2>2. hrPc'[Importer] = hrPc[Importer] /\ hrPkt'[Importer] = hrPkt[Importer]
    BY <1>0, <1>1 DEF HrDecode, HrGet, HrSet, HrParse, HrGoes, HrEnds, HrTypeInv
  <2>3. QED
    BY <2>1, <2>2, HrFileStays
<1>2. ASSUME NEW p \in HrProcs, NEW pc, hrPc[p] # "idle", pc # "idle", HrGoes(p, pc), UNCHANGED hrFileVars
      PROVE  HrFileInv'
  <2>1. (hrPc'[Importer] # "idle" <=> hrPc[Importer] # "idle") /\ hrPkt'[Importer] = hrPkt[Importer]
    BY <1>0, <1>2 DEF HrGoes, HrTypeInv
  <2>2. QED
    BY <1>2, <2>1, HrFileStays DEF hrFileVars
<1>3. ASSUME NEW p \in HrProcs, NEW dated, hrPc[p] # "idle", HrConverted(p, dated) PROVE HrFileInv'
  <2>1. CASE p = Importer
    BY <1>3, <2>1, HrFileConverts
  <2>2. CASE p # Importer
    <3>1. hrPc'[Importer] = hrPc[Importer] /\ hrPkt'[Importer] = hrPkt[Importer] /\ UNCHANGED hrFileVars
      BY <1>0, <1>3, <2>2 DEF HrConverted, HrEnds, HrTypeInv
    <3>2. QED
      BY <3>1, HrFileStays DEF hrFileVars
  <2>3. QED
    BY <2>1, <2>2
<1>4. ASSUME NEW p \in HrProcs, HrLoadKey(p) PROVE HrFileInv'
  <2>1. hrPc[p] # "idle" /\ UNCHANGED hrFileVars /\ (HrGoes(p, "date") \/ HrGoes(p, "storeDate"))
    BY <1>4 DEF HrLoadKey
  <2>2. QED
    BY <1>2, <2>1
<1>5. ASSUME NEW p \in HrProcs, HrLoadDate(p) PROVE HrFileInv'
  <2>1. hrPc[p] # "idle" /\ (HrConverted(p, hrDate) \/ (HrGoes(p, "storeDate") /\ UNCHANGED hrFileVars))
    BY <1>5 DEF HrLoadDate
  <2>2. QED
    BY <1>2, <1>3, <2>1
<1>6. ASSUME NEW p \in HrProcs, HrStoreDate(p) PROVE HrFileInv'
  <2>1. hrPc[p] # "idle" /\ HrGoes(p, "storeKey") /\ UNCHANGED hrFileVars
    BY <1>6 DEF HrStoreDate
  <2>2. QED
    BY <1>2, <2>1
<1>7. ASSUME NEW p \in HrProcs, HrStoreKey(p) PROVE HrFileInv'
  <2>1. hrPc[p] # "idle" /\ HrConverted(p, HrDayOf(hrPkt[p].ts))
    BY <1>7 DEF HrStoreKey
  <2>2. QED
    BY <1>3, <2>1
<1>8. CASE HrTick \/ \E c \in DOMAIN HrContents : HrEvict(c)
  <2>1. UNCHANGED <<hrPc, hrPkt, hrLeft, hrBatches, hrInserted, hrRejected, hrImport, hrLake>>
    BY <1>8 DEF HrTick, HrEvict, hrFileVars
  <2>2. QED
    BY <2>1, HrFileStays
<1>9. CASE HrImportStarts \/ HrImportEnds
  <2>1. /\ UNCHANGED <<hrPc, hrPkt, hrLeft, hrBatches, hrInserted, hrRejected, hrLake>>
        /\ hrImport \in {"no", "reads"} /\ hrImport' \in {"reads", "done"}
        /\ hrImport' = "done" => hrLeft = {} /\ \A t \in DOMAIN hrBatches : hrBatches[t] = {}
    BY <1>9 DEF HrImportStarts, HrImportEnds
  <2>2. HrHand' = HrHand /\ HrBatched' = HrBatched /\ HrOnLake' = HrOnLake
    BY <2>1 DEF HrHand, HrBatched, HrOnLake
  <2>3. hrImport' = "done" => hrLeft' = {} /\ HrBatched' = {}
    BY <2>1, <2>2 DEF HrBatched
  <2>4. QED
    BY <2>1, <2>2, <2>3 DEF HrFileInv
<1>10. QED
  BY <1>1, <1>4, <1>5, <1>6, <1>7, <1>8, <1>9, HrFileReads, HrFileFlushes DEF HrNext

LEMMA HrInductive == HrInv /\ [HrNext]_hrVars => HrInv'
<1> SUFFICES ASSUME HrInv, [HrNext]_hrVars PROVE HrInv'
  OBVIOUS
<1>1. CASE HrNext
  <2>1. hrPc[Importer] # "idle" <=> hrImport = "converts"
    BY DEF HrInv, HrFileInv
  <2>2. HrTypeInv' /\ HrTwins' /\ HrCached'
    BY <1>1, HrTypeStep, HrTwinsStep, HrCachedStep DEF HrInv
  <2>3. HrNear'
    BY <1>1, <2>1, HrNearStep DEF HrInv
  <2>4. HrTransactionTogether' /\ HrFileInv'
    BY <1>1, HrTransactionStep, HrFileStep DEF HrInv
  <2>5. QED
    BY <2>2, <2>3, <2>4 DEF HrInv
<1>2. CASE UNCHANGED hrVars
  <2>1. UNCHANGED <<hrNow, hrForced, hrDedupCache, hrKey, hrDate, hrPc, hrPkt, hrRows, hrLeft, hrBatches,
                    hrInserted, hrRejected, hrImport, hrLake, hrPassed, hrDropped, hrMixed, hrForeign>>
    BY <1>2 DEF hrVars, hrFileVars
  <2>2. HrTypeInv' /\ HrTwins' /\ HrNear' /\ HrTransactionTogether'
    BY <2>1 DEF HrInv, HrTypeInv, HrTwins, HrDroppedHaveTwin, HrNear, HrTransactionTogether
  <2>3. HrCached'
    BY <2>1 DEF HrInv, HrCached, HrDating, HrUtcDay
  <2>4. HrFileInv'
    BY <2>1, HrFileStays DEF HrInv
  <2>5. QED
    BY <2>2, <2>3, <2>4 DEF HrInv
<1>3. QED
  BY <1>1, <1>2

LEMMA HrInvSafe == HrInv => HepRowSafe
<1> SUFFICES ASSUME HrInv PROVE HepRowSafe
  OBVIOUS
<1>1. HrDroppedHaveTwin /\ HrTransactionTogether
  BY DEF HrInv, HrTwins
<1>2. HrPartitionsRight
  BY DEF HrInv, HrCached, HrNear, HrPartitionsRight
<1>3. HrImportAccounted
  <2> DEFINE bad == {f \in HrFile \ hrLeft : HrBad(f)}
  <2>1. \A f \in HrFile : hrLake[f] <= 1
    BY DEF HrInv, HrFileInv
  <2>2. hrInserted <= Cardinality(HrOnLake)
    BY DEF HrInv, HrFileInv
  <2>3. ASSUME hrImport = "done"
        PROVE  Cardinality(HrOnLake) = hrInserted /\ hrInserted + hrRejected = Cardinality(HrFile)
    <3>1. /\ hrLeft = {} /\ HrBatched = {} /\ hrPc[Importer] = "idle"
          /\ hrInserted = Cardinality(HrOnLake) /\ hrRejected = Cardinality(bad)
          /\ \A f \in HrFile \ hrLeft : HrBad(f) \/ hrLake[f] = 1
          /\ HrOnLake \subseteq {f \in HrFile \ hrLeft : ~HrBad(f)}
      BY <2>3 DEF HrInv, HrFileInv
    <3>2. HrFile = HrOnLake \cup bad /\ HrOnLake \cap bad = {}
      BY <3>1 DEF HrOnLake
    <3>3. IsFiniteSet(HrOnLake) /\ IsFiniteSet(bad)
      <4>1. IsFiniteSet(HrFile)
        BY HepRowAssumption
      <4>2. QED
        BY <3>2, <4>1, FS_Subset
    <3>4. Cardinality(HrOnLake \cup bad)
              = Cardinality(HrOnLake) + Cardinality(bad) - Cardinality(HrOnLake \cap bad)
      BY <3>3, FS_Union
    <3>5. Cardinality({}) = 0 /\ Cardinality(HrOnLake) \in Nat /\ Cardinality(bad) \in Nat
      BY <3>3, FS_EmptySet, FS_CardinalityType
    <3> HIDE DEF bad
    <3>6. QED
      BY <3>1, <3>2, <3>4, <3>5
  <2>4. QED
    BY <2>1, <2>2, <2>3 DEF HrImportAccounted, HrOnLake
<1>4. QED
  BY <1>1, <1>2, <1>3 DEF HepRowSafe

-----------------------------------------------------------------------------
(* The registry.                                                           *)

RgRow == [n : Nat, guid : RgIds, content : Nat, active : {0, 1}, expired : BOOLEAN]

RgTypeInv ==
    /\ rgRows \subseteq RgRow /\ rgCount \in Nat
    /\ rgAck \in [RgIds -> [op : {"none", "create", "update", "delete", "unknown"}, content : Nat,
                            active : {0, 1}]]
    /\ rgUsed \in [RgIds -> SUBSET BOOLEAN]

\* What the last answer of an id promised.
RgPromised(g) ==
    /\ rgAck[g].op = "update" =>
          \A r \in RgOf(g) : r.content = rgAck[g].content /\ r.active = rgAck[g].active
    /\ rgAck[g].op = "delete" => RgOf(g) = {}
    /\ rgAck[g].op = "create" => \E r \in RgOf(g) : r.content = rgAck[g].content

\* An id that no client named has one row at most.
RgSingle(g) ==
    /\ RgOf(g) # {} => rgUsed[g] # {}
    /\ TRUE \notin rgUsed[g] => \A r, q \in RgOf(g) : r = q

RgInv == RgTypeInv /\ \A g \in RgIds : RgPromised(g) /\ RgSingle(g)

\* The answer to a write of g is the only one that changes.
LEMMA RgAnswered ==
    ASSUME RgTypeInv, NEW g \in RgIds, NEW op \in {"create", "update", "delete"}, NEW active \in {0, 1},
           NEW lost \in BOOLEAN, RgAnswer(g, op, active, lost)
    PROVE  /\ rgAck' \in [RgIds -> [op : {"none", "create", "update", "delete", "unknown"}, content : Nat,
                                    active : {0, 1}]]
           /\ \A h \in RgIds : h # g => rgAck'[h] = rgAck[h]
           /\ \/ rgAck'[g].op = "unknown"
              \/ rgAck'[g] = [op |-> op, content |-> rgCount + 1, active |-> active]
<1>1. CASE lost
  BY <1>1 DEF RgAnswer, RgTypeInv
<1>2. CASE ~lost
  <2>1. [op |-> op, content |-> rgCount + 1, active |-> active]
            \in [op : {"none", "create", "update", "delete", "unknown"}, content : Nat, active : {0, 1}]
    BY DEF RgTypeInv
  <2>2. QED
    BY <1>2, <2>1 DEF RgAnswer, RgTypeInv
<1>3. QED
  BY <1>1, <1>2

LEMMA RgCreateStep ==
    ASSUME RgInv, NEW g \in RgIds, NEW named \in BOOLEAN, NEW lost \in BOOLEAN, RgCreate(g, named, lost)
    PROVE  RgInv'
<1> DEFINE new == [n |-> rgCount + 1, guid |-> g, content |-> rgCount + 1, active |-> 1, expired |-> FALSE]
<1>1. RgTypeInv /\ new \in RgRow
  BY DEF RgInv, RgTypeInv, RgRow
<1>2. /\ rgRows' = rgRows \cup {new} /\ rgCount' \in Nat
      /\ rgUsed' = [rgUsed EXCEPT ![g] = @ \cup {named}] /\ (~named => rgUsed[g] = {})
      /\ rgAck' \in [RgIds -> [op : {"none", "create", "update", "delete", "unknown"}, content : Nat,
                               active : {0, 1}]]
      /\ \A h \in RgIds : h # g => rgAck'[h] = rgAck[h]
      /\ rgAck'[g].op \in {"unknown", "create"} /\ (rgAck'[g].op = "create" => rgAck'[g].content = new.content)
  <2>1. RgAnswer(g, "create", 1, lost)
    BY DEF RgCreate
  <2>2. QED
    BY <1>1, <2>1, RgAnswered DEF RgCreate, RgWrite, RgTypeInv
<1>3. new.guid = g
  OBVIOUS
<1> HIDE DEF new
<1>4. RgTypeInv'
  BY <1>1, <1>2 DEF RgTypeInv
<1>5. \A h \in RgIds : RgOf(h)' = IF h = g THEN RgOf(h) \cup {new} ELSE RgOf(h)
  BY <1>2, <1>3 DEF RgOf
<1>6. ASSUME NEW h \in RgIds PROVE RgPromised(h)' /\ RgSingle(h)'
  <2>1. RgPromised(h) /\ RgSingle(h)
    BY DEF RgInv
  <2>2. CASE h # g
    <3>1. RgOf(h)' = RgOf(h) /\ rgAck'[h] = rgAck[h] /\ rgUsed'[h] = rgUsed[h]
      BY <1>1, <1>2, <1>5, <2>2 DEF RgTypeInv
    <3>2. QED
      BY <2>1, <3>1 DEF RgPromised, RgSingle
  <2>3. CASE h = g
    <3>1. RgOf(g)' = RgOf(g) \cup {new} /\ rgUsed'[g] = rgUsed[g] \cup {named}
      BY <1>1, <1>2, <1>5 DEF RgTypeInv
    <3>2. RgPromised(g)'
      BY <1>2, <3>1 DEF RgPromised
    <3>3. TRUE \notin rgUsed'[g] => RgOf(g) = {}
      BY <1>2, <2>1, <2>3, <3>1 DEF RgSingle
    <3>4. RgSingle(g)'
      BY <3>1, <3>3 DEF RgSingle
    <3>5. QED
      BY <2>3, <3>2, <3>4
  <2>4. QED
    BY <2>2, <2>3
<1>7. QED
  BY <1>4, <1>6 DEF RgInv

LEMMA RgUpdateStep ==
    ASSUME RgInv, NEW g \in RgIds, NEW active \in {0, 1}, NEW lost \in BOOLEAN, RgUpdate(g, active, lost)
    PROVE  RgInv'
<1> DEFINE set(r) == [r EXCEPT !.content = rgCount + 1, !.active = active, !.expired = FALSE]
<1>1. RgTypeInv
  BY DEF RgInv
<1>2. /\ rgRows' = {IF r.guid = g THEN set(r) ELSE r : r \in rgRows}
      /\ rgCount \in Nat /\ rgCount' \in Nat /\ rgUsed' = rgUsed
      /\ rgAck' \in [RgIds -> [op : {"none", "create", "update", "delete", "unknown"}, content : Nat,
                               active : {0, 1}]]
      /\ \A h \in RgIds : h # g => rgAck'[h] = rgAck[h]
      /\ rgAck'[g].op = "unknown" \/
         rgAck'[g] = [op |-> "update", content |-> rgCount + 1, active |-> active]
  <2>1. RgAnswer(g, "update", active, lost)
    BY DEF RgUpdate
  <2>2. rgRows' = {IF r.guid = g THEN set(r) ELSE r : r \in rgRows}
    BY DEF RgUpdate, RgSet
  <2>3. rgCount \in Nat /\ rgCount' \in Nat /\ rgUsed' = rgUsed
    BY <1>1 DEF RgUpdate, RgWrite, RgTypeInv
  <2>4. /\ rgAck' \in [RgIds -> [op : {"none", "create", "update", "delete", "unknown"}, content : Nat,
                                 active : {0, 1}]]
        /\ \A h \in RgIds : h # g => rgAck'[h] = rgAck[h]
        /\ \/ rgAck'[g].op = "unknown"
           \/ rgAck'[g] = [op |-> "update", content |-> rgCount + 1, active |-> active]
    BY <1>1, <2>1, RgAnswered
  <2>5. QED
    BY <2>2, <2>3, <2>4
<1>3. ASSUME NEW r \in rgRows
      PROVE  set(r) \in RgRow /\ set(r).guid = r.guid /\ set(r).content = rgCount + 1
             /\ set(r).active = active
  <2>1. r \in RgRow
    BY <1>1 DEF RgTypeInv
  <2>2. rgCount + 1 \in Nat
    BY <1>1 DEF RgTypeInv
  <2>3. QED
    BY <2>1, <2>2 DEF RgRow
<1> HIDE DEF set
<1>4. RgTypeInv'
  BY <1>1, <1>2, <1>3 DEF RgTypeInv
<1>5. (\A h \in RgIds : h # g => RgOf(h)' = RgOf(h)) /\ RgOf(g)' = {set(r) : r \in RgOf(g)}
  BY <1>2, <1>3 DEF RgOf
<1>6. ASSUME NEW h \in RgIds PROVE RgPromised(h)' /\ RgSingle(h)'
  <2>1. RgPromised(h) /\ RgSingle(h)
    BY DEF RgInv
  <2>2. CASE h # g
    BY ZenonT(60), <1>2, <1>5, <2>1, <2>2 DEF RgPromised, RgSingle
  <2>3. CASE h = g
    <3>1. \A r \in RgOf(g)' : r.content = rgCount + 1 /\ r.active = active
      BY <1>3, <1>5 DEF RgOf
    <3>2. RgPromised(g)'
      BY <1>2, <3>1 DEF RgPromised
    <3>3. RgSingle(g)'
      BY ZenonT(60), <1>2, <1>5, <2>1, <2>3 DEF RgSingle
    <3>4. QED
      BY <2>3, <3>2, <3>3
  <2>4. QED
    BY <2>2, <2>3
<1>7. QED
  BY <1>4, <1>6 DEF RgInv

LEMMA RgDeleteStep ==
    ASSUME RgInv, NEW g \in RgIds, NEW lost \in BOOLEAN, RgDelete(g, lost)
    PROVE  RgInv'
<1>1. RgTypeInv
  BY DEF RgInv
<1>2. /\ rgRows' = rgRows \ RgOf(g) /\ rgCount' \in Nat /\ rgUsed' = rgUsed
      /\ rgAck' \in [RgIds -> [op : {"none", "create", "update", "delete", "unknown"}, content : Nat,
                               active : {0, 1}]]
      /\ \A h \in RgIds : h # g => rgAck'[h] = rgAck[h]
      /\ rgAck'[g].op \in {"unknown", "delete"}
  <2>1. RgAnswer(g, "delete", 0, lost)
    BY DEF RgDelete
  <2>2. QED
    BY <1>1, <2>1, RgAnswered DEF RgDelete, RgWrite, RgTypeInv
<1>3. RgTypeInv'
  BY <1>1, <1>2 DEF RgTypeInv
<1>4. (\A h \in RgIds : h # g => RgOf(h)' = RgOf(h)) /\ RgOf(g)' = {}
  BY <1>2 DEF RgOf
<1>5. ASSUME NEW h \in RgIds PROVE RgPromised(h)' /\ RgSingle(h)'
  <2>1. RgPromised(h) /\ RgSingle(h)
    BY DEF RgInv
  <2>2. CASE h # g
    BY <1>2, <1>4, <2>1, <2>2 DEF RgPromised, RgSingle
  <2>3. CASE h = g
    BY <1>2, <1>4, <2>3 DEF RgPromised, RgSingle
  <2>4. QED
    BY <2>2, <2>3
<1>6. QED
  BY <1>3, <1>5 DEF RgInv

LEMMA RgExpireStep ==
    ASSUME RgInv, NEW r \in rgRows, RgExpire(r)
    PROVE  RgInv'
<1> DEFINE late == [r EXCEPT !.expired = TRUE]
<1>1. rgRows' = (rgRows \ {r}) \cup {late} /\ UNCHANGED <<rgCount, rgAck, rgUsed>>
  BY DEF RgExpire
<1>2. late \in RgRow /\ late.guid = r.guid /\ late.content = r.content /\ late.active = r.active
  BY DEF RgInv, RgTypeInv, RgRow
<1> HIDE DEF late
<1>3. RgTypeInv'
  BY <1>1, <1>2 DEF RgInv, RgTypeInv
<1>4. \A h \in RgIds : RgOf(h)' = IF h = r.guid THEN (RgOf(h) \ {r}) \cup {late} ELSE RgOf(h)
  BY <1>1, <1>2 DEF RgOf
<1>5. ASSUME NEW h \in RgIds PROVE RgPromised(h)' /\ RgSingle(h)'
  <2>1. RgPromised(h) /\ RgSingle(h)
    BY DEF RgInv
  <2>2. CASE h # r.guid
    BY <1>1, <1>4, <2>1, <2>2 DEF RgPromised, RgSingle
  <2>3. CASE h = r.guid
    <3>1. RgOf(h)' = (RgOf(h) \ {r}) \cup {late} /\ r \in RgOf(h)
      BY <1>4, <2>3 DEF RgOf
    <3>2. RgPromised(h)'
      BY <1>1, <1>2, <2>1, <3>1 DEF RgPromised
    <3>3. RgSingle(h)'
      BY <1>1, <2>1, <3>1 DEF RgSingle
    <3>4. QED
      BY <3>2, <3>3
  <2>4. QED
    BY <2>2, <2>3
<1>6. QED
  BY <1>3, <1>5 DEF RgInv

LEMMA RgInductive == RgInv /\ [RgNext]_rgVars => RgInv'
<1> SUFFICES ASSUME RgInv, [RgNext]_rgVars PROVE RgInv'
  OBVIOUS
<1>1. CASE RgNext
  BY <1>1, RgCreateStep, RgUpdateStep, RgDeleteStep, RgExpireStep DEF RgNext
<1>2. CASE UNCHANGED rgVars
  <2>1. rgRows' = rgRows /\ rgCount' = rgCount /\ rgAck' = rgAck /\ rgUsed' = rgUsed
    BY <1>2 DEF rgVars
  <2>2. RgTypeInv'
    BY <2>1 DEF RgInv, RgTypeInv
  <2>3. \A g : RgOf(g)' = RgOf(g)
    BY <2>1 DEF RgOf
  <2>4. ASSUME NEW g \in RgIds PROVE RgPromised(g)' /\ RgSingle(g)'
    <3>1. RgPromised(g) /\ RgSingle(g)
      BY DEF RgInv
    <3>2. QED
      BY <2>1, <2>3, <3>1 DEF RgPromised, RgSingle
  <2>5. QED
    BY <2>2, <2>4 DEF RgInv
<1>3. QED
  BY <1>1, <1>2

LEMMA RgInitInv == RgInit => RgInv
  BY DEF RgInit, RgInv, RgTypeInv, RgPromised, RgSingle, RgOf

LEMMA RgInvSafe == RgInv => RegistrySafe
<1> SUFFICES ASSUME RgInv, NEW g \in RgIds
             PROVE  /\ RgPromised(g)
                    /\ Cardinality(RgOf(g)) > 1 => TRUE \in rgUsed[g]
  BY DEF RegistrySafe, RgPromised, RgGet, RgList, RgOf
<1>1. RgPromised(g) /\ RgSingle(g)
  BY DEF RgInv
<1>2. ASSUME TRUE \notin rgUsed[g] PROVE ~(Cardinality(RgOf(g)) > 1)
  <2>1. RgOf(g) = {} \/ \E r \in RgOf(g) : RgOf(g) = {r}
    BY <1>1, <1>2 DEF RgSingle
  <2>2. Cardinality({}) = 0 /\ \A r : Cardinality({r}) = 1
    BY FS_EmptySet, FS_Singleton
  <2>3. Cardinality(RgOf(g)) = 0 \/ Cardinality(RgOf(g)) = 1
    BY <2>1, <2>2
  <2>4. QED
    BY <2>3
<1>3. QED
  BY <1>1, <1>2

-----------------------------------------------------------------------------
(* The accounts.                                                           *)

\* A session that its owner ended is revoked.
AcSessions == loggedOut \subseteq revoked /\ ~servedDead /\ ~strayed

\* Rows have the ids given out, and are explained.
AcRows ==
    /\ nextId \in Nat /\ nextId > 1
    /\ \A i \in DOMAIN users : i \in Nat /\ i < nextId /\ users[i] \in UserRows
    /\ DefaultPasswordNeverSet /\ TwinsExplained

\* The state of a login is there while it is at the provider, its one-time token
\* from when it is resolved until it is exchanged.
AcFlow(f) ==
    /\ oauthPc[f] \in OAuthSteps /\ oauthName[f] \in Names /\ issuedFor[f] \in {0, 1}
    /\ f \in oauthState => oauthPc[f] = "sent"
    /\ f \in DOMAIN oneTime => oauthPc[f] = "resolved" /\ issuedFor[f] = 0
    /\ issuedFor[f] = 1 => oauthPc[f] \in {"resolved", "done"}

AcFlows ==
    /\ DOMAIN oauthPc = Flows /\ DOMAIN oauthName = Flows /\ DOMAIN issuedFor = Flows
    /\ oauthPc = [f \in Flows |-> oauthPc[f]] /\ oauthName = [f \in Flows |-> oauthName[f]]
    /\ issuedFor = [f \in Flows |-> issuedFor[f]]
    /\ \A f \in Flows : AcFlow(f)

AcInv == AcSessions /\ AcRows /\ AcFlows

\* Whoever passes the middleware was not logged out, and has no password to change
\* unless it is that which he does.
LEMMA AcServed ==
    ASSUME AcSessions, NEW s, NEW what, JWTMiddlewareV4(s, what)
    PROVE  ~servedDead' /\ ~strayed'
<1>1. s \notin loggedOut /\ ~(claims[s].mustChange /\ what # "me")
  BY DEF JWTMiddlewareV4, NotRevoked, passwordChangeRequiredBlocks, AcSessions
<1>2. ~servedDead /\ ~strayed
  BY DEF AcSessions
<1>3. ~servedDead'
  <2>1. servedDead' = (servedDead \/ s \in loggedOut)
    BY DEF JWTMiddlewareV4
  <2>2. QED
    BY <1>1, <1>2, <2>1
<1>4. ~strayed'
  <2>1. strayed' = (strayed \/ (claims[s].mustChange /\ what # "me"))
    BY DEF JWTMiddlewareV4
  <2>2. QED
    BY <1>1, <1>2, <2>1
<1>5. QED
  BY <1>3, <1>4

LEMMA AcSessionsStep ==
    ASSUME AcSessions, [AcNext]_acVars
    PROVE  AcSessions'
<1> DEFINE Still == UNCHANGED <<revoked, loggedOut, servedDead, strayed>>
<1>1. ASSUME NEW s, \/ Logout(s) \/ Read(s)
                    \/ \E p \in BOOLEAN : PatchMe(s, p)
                    \/ \E n \in Names, a \in BOOLEAN : V4UsersCreate(s, n, a)
                    \/ \E i \in RowIds : V4UsersDelete(s, i) \/ \E set \in Sets : V4UsersUpdate(s, i, set)
      PROVE  AcSessions'
  <2>1. CASE Logout(s)
    <3>1. ~servedDead' /\ ~strayed'
      BY <2>1, AcServed DEF Logout
    <3>2. loggedOut' \subseteq revoked'
      BY <2>1 DEF Logout, Revoke, AcSessions
    <3>3. QED
      BY <3>1, <3>2 DEF AcSessions
  <2>2. CASE ~Logout(s)
    <3>1. UNCHANGED <<revoked, loggedOut>> /\ \E what \in {"me", "read", "write"} : JWTMiddlewareV4(s, what)
      BY <1>1, <2>2 DEF Read, PatchMe, V4UsersCreate, V4UsersDelete, V4UsersUpdate
    <3>2. ~servedDead' /\ ~strayed'
      BY <3>1, AcServed
    <3>3. QED
      BY <3>1, <3>2 DEF AcSessions
  <2>3. QED
    BY <2>1, <2>2
<1>2. CASE PatchMeReissue
  <2>1. /\ UNCHANGED <<servedDead, strayed>>
        /\ revoked' = revoked \cup {patch.session} /\ loggedOut' = loggedOut \cup {patch.session}
    BY <1>2 DEF PatchMeReissue, Revoke
  <2>2. QED
    BY <2>1 DEF AcSessions
<1>3. CASE Restart
  <2>1. UNCHANGED <<servedDead, strayed>> /\ revoked' = {} /\ loggedOut' = {}
    BY <1>3 DEF Restart
  <2>2. QED
    BY <2>1 DEF AcSessions
<1>4. ASSUME Still PROVE AcSessions'
  BY <1>4 DEF AcSessions
<1>5. ASSUME NEW f \in Flows, V4OAuth2Redirect(f) \/ V4OAuth2Callback(f) \/ OAuthResolve(f)
                              \/ OAuthProvision(f) \/ V4OAuth2TokenExchange(f)
      PROVE  Still
  BY <1>5 DEF V4OAuth2Redirect, V4OAuth2Callback, OAuthResolve, OAuthProvision, V4OAuth2TokenExchange,
              OAuthUnchanged
<1>6. ASSUME NEW s, Expire(s)
      PROVE  Still
  BY <1>6 DEF Expire
<1>7. ASSUME \/ \E i \in RowIds : Login(i)
             \/ \E n \in Names : LoginLdap(n)
      PROVE  Still
  BY <1>7 DEF Login, LoginLdap
<1>8. ASSUME PatchMeUpdate \/ ResetOrInsertAdminPassword
      PROVE  Still
  BY <1>8 DEF PatchMeUpdate, ResetOrInsertAdminPassword
<1>9. ASSUME UNCHANGED acVars PROVE Still
  BY <1>9 DEF acVars, storeVars
<1> HIDE DEF Still
<1>10. QED
  BY <1>1, <1>2, <1>3, <1>4, <1>5, <1>6, <1>7, <1>8, <1>9 DEF AcNext

LEMMA AcCreated ==
    ASSUME AcRows, NEW n \in Names, NEW admin \in BOOLEAN, NEW active \in BOOLEAN,
           CreateUser(n, admin, active),
           twins' = IF GetUserByUsername(n) = {} THEN twins ELSE twins \cup {n}
    PROVE  AcRows'
<1> DEFINE row == [name |-> n, hash |-> "own", admin |-> admin, active |-> active]
<1>1. row \in UserRows /\ row.name = n /\ row.hash = "own"
  BY DEF UserRows
<1>2. users' = Extend(users, nextId, row) /\ nextId' = nextId + 1
  BY DEF CreateUser
<1> HIDE DEF row
<1>3. /\ DOMAIN users' = DOMAIN users \cup {nextId}
      /\ users'[nextId] = row
      /\ \A i \in DOMAIN users : i # nextId /\ users'[i] = users[i]
  <2>1. \A i \in DOMAIN users : i # nextId
    BY DEF AcRows
  <2>2. QED
    BY <1>2, <2>1 DEF Extend
<1>4. nextId' \in Nat /\ nextId' > 1 /\ \A i \in DOMAIN users' : i \in Nat /\ i < nextId'
  BY <1>2, <1>3 DEF AcRows
<1>5. \A i \in DOMAIN users' : users'[i] \in UserRows
  BY <1>1, <1>3 DEF AcRows
<1>6. DefaultPasswordNeverSet'
  BY <1>1, <1>3 DEF AcRows, DefaultPasswordNeverSet
<1>7. TwinsExplained'
  <2>1. ASSUME NEW i \in DOMAIN users', NEW j \in DOMAIN users', i # j, users'[i].name = users'[j].name
        PROVE  users'[i].name \in twins'
    <3>1. CASE i = nextId \/ j = nextId
      <4>1. users'[i].name = n /\ \E k \in DOMAIN users : users[k].name = n
        BY <1>1, <1>3, <2>1, <3>1
      <4>2. QED
        BY <4>1 DEF GetUserByUsername
    <3>2. CASE i # nextId /\ j # nextId
      <4>1. users[i].name \in twins /\ users'[i].name = users[i].name
        BY <1>3, <2>1, <3>2 DEF AcRows, TwinsExplained
      <4>2. QED
        BY <4>1
    <3>3. QED
      BY <3>1, <3>2
  <2>2. QED
    BY <2>1 DEF TwinsExplained
<1>8. QED
  BY <1>4, <1>5, <1>6, <1>7 DEF AcRows

\* A change of a row leaves its name, and sets no default password.
LEMMA AcUpdated ==
    ASSUME AcRows, NEW i, NEW set \in Sets \cup {NoFunction}, UpdateUser(i, set), UNCHANGED twins
    PROVE  AcRows'
<1>1. CASE i \notin DOMAIN users
  <2>1. UNCHANGED <<users, nextId, twins>>
    BY <1>1 DEF UpdateUser
  <2>2. QED
    BY <2>1 DEF AcRows, DefaultPasswordNeverSet, TwinsExplained
<1>2. CASE i \in DOMAIN users
  <2> DEFINE row == [k \in DOMAIN users[i] |-> IF k \in DOMAIN set THEN set[k] ELSE users[i][k]]
  <2>1. users' = [users EXCEPT ![i] = row] /\ nextId' = nextId
    BY <1>2 DEF UpdateUser
  <2>2. users[i] \in UserRows
    BY <1>2 DEF AcRows
  <2>3. set = [hash |-> "own"] \/ set = [active |-> FALSE] \/ set = NoFunction
    <3>1. CASE set = [hash |-> "default"]
      <4>1. "hash" \in DOMAIN set \cap {"hash"} /\ set["hash"] = "default"
        BY <3>1
      <4>2. QED
        BY <4>1 DEF UpdateUser, AcceptablePassword
    <3>2. QED
      BY <3>1 DEF Sets
  <2>4. row \in UserRows /\ row.name = users[i].name /\ row.hash \in {"own", users[i].hash}
    <3>1. CASE set = [hash |-> "own"]
      <4>1. DOMAIN set = {"hash"} /\ set["hash"] = "own"
        BY <3>1
      <4>2. row = [name |-> users[i].name, hash |-> "own", admin |-> users[i].admin,
                   active |-> users[i].active]
        BY <2>2, <4>1 DEF UserRows
      <4>3. QED
        BY <2>2, <4>2 DEF UserRows
    <3>2. CASE set = [active |-> FALSE]
      <4>1. DOMAIN set = {"active"} /\ set["active"] \in BOOLEAN
        BY <3>2
      <4>2. row = [name |-> users[i].name, hash |-> users[i].hash, admin |-> users[i].admin,
                   active |-> set["active"]]
        BY <2>2, <4>1 DEF UserRows
      <4>3. QED
        BY <2>2, <4>1, <4>2 DEF UserRows
    <3>3. CASE set = NoFunction
      <4>1. DOMAIN set = {}
        BY <3>3 DEF NoFunction
      <4>2. row = users[i]
        BY <2>2, <4>1 DEF UserRows
      <4>3. QED
        BY <2>2, <4>2
    <3>4. QED
      BY <2>3, <3>1, <3>2, <3>3
  <2> HIDE DEF row
  <2>5. DOMAIN users' = DOMAIN users /\ \A j \in DOMAIN users : users'[j] = IF j = i THEN row ELSE users[j]
    BY <2>1
  <2>6. \A j \in DOMAIN users : /\ users'[j] \in UserRows /\ users'[j].name = users[j].name
                                /\ users'[j].hash \in {"own", users[j].hash}
    BY <2>4, <2>5 DEF AcRows
  <2>7. QED
    BY <2>1, <2>5, <2>6 DEF AcRows, DefaultPasswordNeverSet, TwinsExplained
<1>3. QED
  BY <1>1, <1>2

LEMMA AcRowsStep ==
    ASSUME AcRows, AcFlows, [AcNext]_acVars
    PROVE  AcRows'
<1> DEFINE Still == UNCHANGED <<users, nextId, twins>>
<1>1. ASSUME Still PROVE AcRows'
  BY <1>1 DEF AcRows, DefaultPasswordNeverSet, TwinsExplained
<1>2. ASSUME NEW s, NEW n \in Names, NEW a \in BOOLEAN, V4UsersCreate(s, n, a)
      PROVE  AcRows'
  BY <1>2, AcCreated DEF V4UsersCreate
<1>3. ASSUME NEW s, NEW i \in RowIds, NEW set \in Sets, V4UsersUpdate(s, i, set)
      PROVE  AcRows'
  BY <1>3, AcUpdated DEF V4UsersUpdate
<1>4. ASSUME NEW s, NEW i \in RowIds, V4UsersDelete(s, i)
      PROVE  AcRows'
  <2>1. users' = Without(users, i) /\ UNCHANGED <<nextId, twins>>
    BY <1>4 DEF V4UsersDelete
  <2>2. DOMAIN users' \subseteq DOMAIN users /\ \A j \in DOMAIN users' : users'[j] = users[j]
    BY <2>1 DEF Without
  <2>3. QED
    BY <2>1, <2>2 DEF AcRows, DefaultPasswordNeverSet, TwinsExplained
<1>5. CASE PatchMeUpdate
  <2>1. UNCHANGED twins
        /\ \E p \in {"default", "own"} : UpdateUser(patch.row, IF patch.password THEN [hash |-> p] ELSE NoFunction)
    BY <1>5 DEF PatchMeUpdate
  <2>2. PICK set \in Sets \cup {NoFunction} : UpdateUser(patch.row, set)
    BY <2>1 DEF Sets
  <2>3. QED
    BY <2>1, <2>2, AcUpdated
<1>6. ASSUME NEW f \in Flows, OAuthProvision(f)
      PROVE  AcRows'
  <2>1. oauthName[f] \in Names
    BY DEF AcFlows, AcFlow
  <2>2. PICK staff \in BOOLEAN : CreateUser(oauthName[f], staff, TRUE)
    BY <1>6 DEF OAuthProvision
  <2>3. twins' = IF GetUserByUsername(oauthName[f]) = {} THEN twins ELSE twins \cup {oauthName[f]}
    BY <1>6 DEF OAuthProvision
  <2>4. QED
    BY <2>1, <2>2, <2>3, AcCreated
<1>7. CASE Restart \/ ResetOrInsertAdminPassword
  <2>1. twins' = twins /\ Admin \in Names
    BY <1>7, AccountsAssumption DEF Restart, ResetOrInsertAdminPassword
  <2>2. CASE GetUserByUsername(Admin) = {}
    <3>1. CreateUser(Admin, TRUE, TRUE)
      BY <1>7, <2>2 DEF Restart, ResetOrInsertAdminPassword
    <3>2. QED
      BY <2>1, <2>2, <3>1, AcCreated
  <2>3. CASE GetUserByUsername(Admin) # {} /\ Restart
    BY <1>1, <2>1, <2>3 DEF Restart
  <2>4. CASE GetUserByUsername(Admin) # {} /\ ResetOrInsertAdminPassword
    <3>1. PICK i \in GetUserByUsername(Admin) : UpdateUser(i, [hash |-> "own"])
      BY <2>4 DEF ResetOrInsertAdminPassword
    <3>2. [hash |-> "own"] \in Sets \cup {NoFunction}
      BY DEF Sets
    <3>3. QED
      BY <2>1, <3>1, <3>2, AcUpdated
  <2>5. QED
    BY <1>7, <2>2, <2>3, <2>4
<1>8. ASSUME NEW f \in Flows, V4OAuth2Redirect(f) \/ V4OAuth2Callback(f) \/ OAuthResolve(f)
                              \/ V4OAuth2TokenExchange(f)
      PROVE  Still
  BY <1>8 DEF V4OAuth2Redirect, V4OAuth2Callback, OAuthResolve, V4OAuth2TokenExchange
<1>9. ASSUME NEW s, Expire(s) \/ Logout(s) \/ Read(s) \/ \E p \in BOOLEAN : PatchMe(s, p)
      PROVE  Still
  BY <1>9 DEF Expire, Logout, Read, PatchMe
<1>10. ASSUME \/ \E i \in RowIds : Login(i)
              \/ \E n \in Names : LoginLdap(n)
              \/ PatchMeReissue
       PROVE  Still
  BY <1>10 DEF Login, LoginLdap, PatchMeReissue
<1>11. ASSUME UNCHANGED acVars PROVE Still
  BY <1>11 DEF acVars
<1> HIDE DEF Still
<1>12. QED
  BY <1>1, <1>2, <1>3, <1>4, <1>5, <1>6, <1>7, <1>8, <1>9, <1>10, <1>11 DEF AcNext

LEMMA AcFlowsStep ==
    ASSUME AcFlows, [AcNext]_acVars
    PROVE  AcFlows'
<1> DEFINE Still == UNCHANGED <<oauthPc, oauthName, oauthState, oneTime, issuedFor>>
           Others(f) == \A g \in Flows \ {f} :
                            /\ oauthPc'[g] = oauthPc[g] /\ oauthName'[g] = oauthName[g]
                            /\ issuedFor'[g] = issuedFor[g]
                            /\ g \in oauthState' <=> g \in oauthState
                            /\ g \in DOMAIN oneTime' <=> g \in DOMAIN oneTime
           Functions == /\ DOMAIN oauthPc' = Flows /\ DOMAIN oauthName' = Flows /\ DOMAIN issuedFor' = Flows
                        /\ oauthPc' = [f \in Flows |-> oauthPc'[f]]
                        /\ oauthName' = [f \in Flows |-> oauthName'[f]]
                        /\ issuedFor' = [f \in Flows |-> issuedFor'[f]]
<1>1. ASSUME Still PROVE AcFlows'
  BY <1>1 DEF AcFlows, AcFlow
<1>2. ASSUME NEW f \in Flows, Functions, Others(f), AcFlow(f)' PROVE AcFlows'
  <2>1. ASSUME NEW g \in Flows, g # f PROVE AcFlow(g)'
    BY <1>2, <2>1 DEF AcFlows, AcFlow
  <2>2. QED
    BY <1>2, <2>1 DEF AcFlows
<1>3. ASSUME NEW f \in Flows, V4OAuth2Redirect(f) PROVE Functions /\ Others(f) /\ AcFlow(f)'
  <2>1. /\ oauthPc[f] = "none" /\ oauthState' = oauthState \cup {f} /\ oauthPc' = [oauthPc EXCEPT ![f] = "sent"]
        /\ UNCHANGED <<oneTime, oauthName, issuedFor>> /\ AcFlow(f)
    BY <1>3 DEF V4OAuth2Redirect, AcFlows
  <2>2. Functions
    BY <2>1 DEF AcFlows
  <2>3. oauthPc'[f] = "sent" /\ Others(f)
    BY <2>1 DEF AcFlows
  <2>4. AcFlow(f)'
    BY <2>1, <2>3 DEF AcFlow, OAuthSteps
  <2>5. QED
    BY <2>2, <2>3, <2>4
<1>4. ASSUME NEW f \in Flows, V4OAuth2Callback(f) PROVE Functions /\ Others(f) /\ AcFlow(f)'
  <2>1. PICK step \in {"taken", "done"}, n \in Names :
           /\ f \in oauthState /\ oauthState' = oauthState \ {f} /\ oauthPc' = [oauthPc EXCEPT ![f] = step]
           /\ oauthName' = [oauthName EXCEPT ![f] = n]
           /\ UNCHANGED <<oneTime, issuedFor>> /\ AcFlow(f)
    <3>1. AcFlow(f) /\ oauthName = [oauthName EXCEPT ![f] = oauthName[f]] /\ oauthName[f] \in Names
      BY DEF AcFlows, AcFlow
    <3>2. QED
      BY <1>4, <3>1 DEF V4OAuth2Callback, OAuthGoes
  <2>2. Functions
    BY <2>1 DEF AcFlows
  <2>3. oauthPc'[f] = step /\ oauthName'[f] = n /\ Others(f)
    BY <2>1 DEF AcFlows
  <2>4. AcFlow(f)'
    BY <2>1, <2>3 DEF AcFlow, OAuthSteps
  <2>5. QED
    BY <2>2, <2>3, <2>4
<1>5. ASSUME NEW f \in Flows, NEW admin, oauthPc[f] \in {"taken", "absent"}, PutOneTime(f, admin),
             UNCHANGED <<oauthState, issuedFor>>
      PROVE  Functions /\ Others(f) /\ AcFlow(f)'
  <2>1. /\ oauthPc' = [oauthPc EXCEPT ![f] = "resolved"] /\ oauthName' = [oauthName EXCEPT ![f] = Admin]
        /\ DOMAIN oneTime' = DOMAIN oneTime \cup {f} /\ AcFlow(f) /\ Admin \in Names
    BY <1>5, AccountsAssumption DEF PutOneTime, OAuthGoes, Extend, AcFlows
  <2>2. Functions
    BY <1>5, <2>1 DEF AcFlows
  <2>3. oauthPc'[f] = "resolved" /\ oauthName'[f] = Admin /\ Others(f)
    BY <1>5, <2>1 DEF AcFlows
  <2>4. AcFlow(f)'
    BY <1>5, <2>1, <2>3 DEF AcFlow, OAuthSteps
  <2>5. QED
    BY <2>2, <2>3, <2>4
<1>6. ASSUME NEW f \in Flows, OAuthResolve(f) PROVE Functions /\ Others(f) /\ AcFlow(f)'
  <2>1. CASE \E admin : PutOneTime(f, admin)
    BY <1>5, <1>6, <2>1 DEF OAuthResolve
  <2>2. CASE ~\E admin : PutOneTime(f, admin)
    <3>1. PICK step \in {"absent", "done"} :
             /\ oauthPc[f] = "taken" /\ oauthPc' = [oauthPc EXCEPT ![f] = step]
             /\ UNCHANGED <<oneTime, oauthName, oauthState, issuedFor>> /\ AcFlow(f)
      BY <1>6, <2>2 DEF OAuthResolve, OAuthGoes, AcFlows
    <3>2. Functions
      BY <3>1 DEF AcFlows
    <3>3. oauthPc'[f] = step /\ Others(f)
      BY <3>1 DEF AcFlows
    <3>4. AcFlow(f)'
      BY <3>1, <3>3 DEF AcFlow, OAuthSteps
    <3>5. QED
      BY <3>2, <3>3, <3>4
  <2>3. QED
    BY <2>1, <2>2
<1>7. ASSUME NEW f \in Flows, OAuthProvision(f) PROVE Functions /\ Others(f) /\ AcFlow(f)'
  <2>1. /\ oauthPc[f] = "absent" /\ UNCHANGED <<oauthState, issuedFor>>
        /\ \E admin : PutOneTime(f, admin)
    BY <1>7 DEF OAuthProvision
  <2>2. QED
    BY <1>5, <2>1
<1>8. ASSUME NEW f \in Flows, V4OAuth2TokenExchange(f) PROVE Functions /\ Others(f) /\ AcFlow(f)'
  <2>1. /\ f \in DOMAIN oneTime /\ DOMAIN oneTime' = DOMAIN oneTime \ {f}
        /\ issuedFor' = [issuedFor EXCEPT ![f] = @ + 1]
        /\ UNCHANGED <<oauthState, oauthPc, oauthName>> /\ AcFlow(f)
    BY <1>8 DEF V4OAuth2TokenExchange, Consume, Without, oauthVars, AcFlows
  <2>2. Functions
    BY <2>1 DEF AcFlows
  <2>3. issuedFor'[f] = issuedFor[f] + 1 /\ Others(f)
    BY <2>1 DEF AcFlows
  <2>4. AcFlow(f)'
    BY <2>1, <2>3 DEF AcFlow
  <2>5. QED
    BY <2>2, <2>3, <2>4
<1>9. CASE Restart
  <2>1. /\ oauthState' = {} /\ oneTime' = NoFunction /\ UNCHANGED issuedFor /\ Admin \in Names
        /\ oauthPc' = [f \in Flows |-> IF oauthPc[f] = "none" THEN "none" ELSE "done"]
        /\ oauthName' = [f \in Flows |-> Admin]
    BY <1>9, AccountsAssumption DEF Restart
  <2>2. DOMAIN oneTime' = {}
    BY <2>1 DEF NoFunction
  <2>3. Functions
    BY <2>1 DEF AcFlows
  <2>4. ASSUME NEW f \in Flows PROVE AcFlow(f)'
    <3>1. /\ AcFlow(f) /\ oauthPc'[f] = (IF oauthPc[f] = "none" THEN "none" ELSE "done")
          /\ oauthName'[f] = Admin
      BY <2>1 DEF AcFlows
    <3>2. QED
      BY <2>1, <2>2, <3>1 DEF AcFlow, OAuthSteps
  <2>5. QED
    BY <2>3, <2>4 DEF AcFlows
<1>10. ASSUME NEW s, \/ Expire(s) \/ Logout(s) \/ Read(s)
                     \/ \E p \in BOOLEAN : PatchMe(s, p)
                     \/ \E n \in Names, a \in BOOLEAN : V4UsersCreate(s, n, a)
                     \/ \E i \in RowIds : V4UsersDelete(s, i) \/ \E set \in Sets : V4UsersUpdate(s, i, set)
       PROVE  Still
  BY <1>10 DEF Expire, Logout, Read, PatchMe, V4UsersCreate, V4UsersDelete, V4UsersUpdate,
               AcUnchangedStores, oauthVars
<1>11. ASSUME \/ \E i \in RowIds : Login(i)
              \/ \E n \in Names : LoginLdap(n)
              \/ PatchMeUpdate \/ PatchMeReissue \/ ResetOrInsertAdminPassword
       PROVE  Still
  BY <1>11 DEF Login, LoginLdap, PatchMeUpdate, PatchMeReissue, ResetOrInsertAdminPassword,
               AcUnchangedStores, oauthVars
<1>12. ASSUME UNCHANGED acVars PROVE Still
  BY <1>12 DEF acVars, storeVars, oauthVars
<1> HIDE DEF Still, Functions, Others
<1>13. QED
  BY <1>1, <1>2, <1>3, <1>4, <1>6, <1>7, <1>8, <1>9, <1>10, <1>11, <1>12 DEF AcNext

LEMMA AcInductive == AcInv /\ [AcNext]_acVars => AcInv'
  BY AcSessionsStep, AcRowsStep, AcFlowsStep DEF AcInv

LEMMA AcInitInv ==
    ASSUME NEW h \in {"default", "own"}, NEW flow \in {"none", "done"}, AcInitFrom(h, flow)
    PROVE  AcInv
<1>1. AcSessions
  BY DEF AcInitFrom, AcSessions
<1>2. AcRows
  <2>1. DOMAIN users = {1} /\ users[1] = [name |-> Admin, hash |-> h, admin |-> TRUE, active |-> TRUE]
        /\ nextId = 2 /\ Admin \in Names
    BY AccountsAssumption DEF AcInitFrom
  <2>2. users[1] \in UserRows
    BY <2>1 DEF UserRows
  <2>3. \A i \in DOMAIN users : i \in Nat /\ i < nextId /\ users[i] \in UserRows
    <3>1. 1 \in Nat /\ 1 < nextId
      BY <2>1
    <3>2. QED
      BY <2>1, <2>2, <3>1
  <2>4. DefaultPasswordNeverSet /\ TwinsExplained
    BY <2>1 DEF DefaultPasswordNeverSet, TwinsExplained
  <2>5. QED
    BY <2>1, <2>3, <2>4 DEF AcRows
<1>3. AcFlows
  <2>1. Admin \in Names /\ DOMAIN oneTime = {}
    BY AccountsAssumption DEF AcInitFrom, NoFunction
  <2>2. QED
    BY <2>1 DEF AcInitFrom, AcFlows, AcFlow, OAuthSteps
<1>4. QED
  BY <1>1, <1>2, <1>3 DEF AcInv

LEMMA AcInvSafe == AcInv => AccountsSafe
<1> SUFFICES ASSUME AcInv PROVE AccountsSafe
  OBVIOUS
<1>1. EndedSessionsStayEnded /\ MustChangeFirst
  BY DEF AcInv, AcSessions, EndedSessionsStayEnded, MustChangeFirst
<1>2. DefaultPasswordNeverSet /\ TwinsExplained
  BY DEF AcInv, AcRows
<1>3. OneSessionPerLogin
  BY DEF AcInv, AcFlows, AcFlow, OneSessionPerLogin
<1>4. QED
  BY <1>1, <1>2, <1>3 DEF AccountsSafe

-----------------------------------------------------------------------------
(* The settings.                                                           *)

\* A request in flight, and the resource it is about.
StOps == {"none", "alias", "create", "reset", "update", "upsert", "mreset", "sync", "token"}
StSteps == {"none", "invalidate", "built", "insert", "delete", "check", "loaded", "write", "update"}
StReq == [op : StOps, at : StSteps, user : Users, key : StKeys, row : SUBSET RowRefs, on : BOOLEAN,
          val : Contents, snap : SUBSET (StKeys \X Contents)]

StAbout(op) ==
    \/ op = "none"
    \/ op = "alias" /\ topic = "alias"
    \/ op \in {"create", "reset", "update"} /\ topic = "dashboard"
    \/ op = "upsert" /\ topic = "preference"
    \/ op \in {"mreset", "sync"} /\ topic = "mapping"
    \/ op = "token" /\ topic = "token"

StBase ==
    /\ table \subseteq StRows
    /\ req \in [Reqs -> StReq] /\ \A r \in Reqs : StAbout(req[r].op)

\* A user who has the defaults, or gets them, and whom nothing disturbed.
StSettled(u) == u \in served \/ \E r \in Reqs : Resetting(r) /\ req[r].user = u /\ ~req[r].on

\* Whoever is past the deletion has not inserted the default k yet.
StSeeds(u, k) ==
    \E r \in Reqs : Resetting(r) /\ req[r].user = u /\ (req[r].at = "delete" \/ req[r].key = k)

\* The first default is there or comes, and the second too once the first is there.
StDefaults(u) ==
    StSettled(u) => /\ OwnKey(u, 1) # {} \/ StSeeds(u, 1)
                    /\ OwnKey(u, 1) # {} => OwnKey(u, 2) # {} \/ StSeeds(u, 2)

StResets ==
    \A r \in Reqs : Resetting(r) =>
        req[r].key \in Seeds /\ (req[r].at = "delete" => req[r].key = 1)

StDashboards ==
    topic = "dashboard" => served \subseteq Users /\ StResets /\ \A u \in Users : StDefaults(u)

StWriters ==
    /\ DashboardsOwn
    /\ \A r \in Reqs : At(r, "update", "write") =>
          \A ref \in req[r].row : req[r].user \in {ref[2], Boss}

StMappings ==
    topic = "mapping" =>
        /\ served \subseteq {Boss}
        /\ \A r \in Reqs : Resetting(r) => req[r].user = Boss /\ req[r].key \in Seeds
        /\ StSettled(Boss) =>
              \A k \in Seeds : ByKey(k) # {} \/ \E r \in Reqs : Resetting(r) /\ req[r].key <= k

StTokens ==
    /\ "revived" \in seen => topic = "token" /\ crossed # {}
    /\ topic = "token" =>
        /\ \A x, y \in table : x.key = y.key => x = y
        /\ \A r \in Reqs : req[r].op = "token" /\ req[r].val = "other" /\ req[r].on =>
              crossed # {} \/ \A row \in ByKey(req[r].key) : row.on

StScripts ==
    /\ ScriptsKept
    /\ topic = "script" => \A x, y \in table : Ref(x) = Ref(y) => x = y

StInv ==
    /\ StBase /\ AliasMapCurrent /\ StDashboards /\ StWriters /\ PreferencesAgree
    /\ StMappings /\ StTokens /\ StScripts

LEMMA StNoReq == NoReq \in StReq /\ NoReq.op = "none" /\ NoReq.row = {}
  BY SettingsAssumption DEF NoReq, StReq, StOps, StSteps, StKeys, Contents

\* A request is put in its next step.
LEMMA StPut ==
    ASSUME StBase, NEW r \in Reqs, NEW q \in StReq, req' = [req EXCEPT ![r] = q],
           topic' = topic, StAbout(q.op)
    PROVE  /\ req' \in [Reqs -> StReq] /\ \A o \in Reqs : StAbout(req[o].op)'
           /\ req'[r] = q /\ \A o \in Reqs \ {r} : req'[o] = req[o]
<1>1. req' \in [Reqs -> StReq] /\ req'[r] = q /\ \A o \in Reqs \ {r} : req'[o] = req[o]
  BY DEF StBase
<1>2. ASSUME NEW o \in Reqs PROVE StAbout(req[o].op)'
  <2>1. CASE o = r
    BY <1>1, <2>1 DEF StAbout
  <2>2. CASE o # r
    BY <1>1, <2>2 DEF StAbout, StBase
  <2>3. QED
    BY <2>1, <2>2
<1>3. QED
  BY <1>1, <1>2

\* A request goes on to another step.
LEMMA StGoes ==
    ASSUME StBase, NEW r \in Reqs, NEW at \in StSteps, NEW key \in StKeys, topic' = topic,
           req' = [req EXCEPT ![r].at = at, ![r].key = key]
    PROVE  /\ req' \in [Reqs -> StReq] /\ \A o \in Reqs : StAbout(req[o].op)'
           /\ req'[r] = [req[r] EXCEPT !.at = at, !.key = key]
           /\ \A o \in Reqs \ {r} : req'[o] = req[o]
<1> DEFINE q == [req[r] EXCEPT !.at = at, !.key = key]
<1>1. req[r] \in StReq /\ StAbout(req[r].op)
  BY DEF StBase
<1>2. q \in StReq /\ q.op = req[r].op
  BY <1>1 DEF StReq, StSteps
<1>3. req' = [req EXCEPT ![r] = q]
  BY DEF StBase
<1>4. QED
  BY <1>1, <1>2, <1>3, StPut

LEMMA StEnds ==
    ASSUME StBase, NEW r \in Reqs, Ends(r), topic' = topic
    PROVE  /\ req' \in [Reqs -> StReq] /\ \A o \in Reqs : StAbout(req[o].op)'
           /\ req'[r] = NoReq /\ \A o \in Reqs \ {r} : req'[o] = req[o]
  BY StPut, StNoReq DEF Ends, StAbout

LEMMA StDisturbed ==
    ASSUME StBase, NEW r \in Reqs, NEW u, Disturb(u, r), topic' = topic
    PROVE  /\ req' \in [Reqs -> StReq] /\ \A o \in Reqs : StAbout(req[o].op)'
           /\ served' = served \ {u} /\ req'[r] = NoReq
           /\ \A o \in Reqs \ {r} :
                 IF Resetting(o) /\ req[o].user = u
                 THEN req'[o] = [req[o] EXCEPT !.on = TRUE] /\ req'[o].on
                 ELSE req'[o] = req[o]
<1>1. ASSUME NEW o \in Reqs, o # r, Resetting(o), req[o].user = u
      PROVE  /\ req'[o] = [req[o] EXCEPT !.on = TRUE] /\ req'[o] \in StReq
             /\ req'[o].on /\ req'[o].op = req[o].op
  <2>1. req'[o] = [req[o] EXCEPT !.on = TRUE]
    BY <1>1 DEF Disturb
  <2>2. req[o] \in StReq
    BY DEF StBase
  <2>3. QED
    BY <2>1, <2>2 DEF StReq
<1>2. ASSUME NEW o \in Reqs, o # r, ~(Resetting(o) /\ req[o].user = u)
      PROVE  req'[o] = req[o] /\ req'[o] \in StReq
  <2>1. req'[o] = req[o]
    BY <1>2 DEF Disturb
  <2>2. QED
    BY <2>1 DEF StBase
<1>3. served' = served \ {u} /\ req'[r] = NoReq
  BY DEF Disturb
<1>4. req' \in [Reqs -> StReq]
  <2>1. req' = [o \in Reqs |-> req'[o]]
    BY DEF Disturb
  <2>2. \A o \in Reqs : req'[o] \in StReq
    BY <1>1, <1>2, <1>3, StNoReq
  <2>3. QED
    BY <2>1, <2>2
<1>5. ASSUME NEW o \in Reqs PROVE StAbout(req[o].op)'
  <2>1. req'[o].op = req[o].op \/ req'[o].op = "none"
    BY <1>1, <1>2, <1>3, StNoReq
  <2>2. StAbout(req[o].op)
    BY DEF StBase
  <2>3. QED
    BY <2>1, <2>2 DEF StAbout
<1>6. QED
  BY <1>1, <1>2, <1>3, <1>4, <1>5

\* A new row has what it was given, and a reference of its own.
LEMMA StNewRow ==
    ASSUME NEW k \in StKeys, NEW u \in Users, NEW v \in Contents, NEW on \in BOOLEAN, FreshIds(k, u) # {}
    PROVE  LET row == NewRow(k, u, v, on)
           IN /\ row \in StRows /\ row.key = k /\ row.owner = u /\ row.val = v /\ (row.on <=> on)
              /\ \A x \in table : Ref(x) # Ref(row)
<1> DEFINE i == CHOOSE j \in FreshIds(k, u) : TRUE
<1>1. i \in FreshIds(k, u)
  OBVIOUS
<1> HIDE DEF i
<1>2. NewRow(k, u, v, on) = [id |-> i, key |-> k, owner |-> u, val |-> v, on |-> on]
  BY DEF NewRow, Row, i
<1>3. i \in 1..MaxTableRows /\ \A x \in table : Ref(x) # <<k, u, i>>
  BY <1>1 DEF FreshIds
<1>4. QED
  BY <1>2, <1>3 DEF StRows, Ref

StAdds(row, k, u, v) ==
    /\ row \in StRows /\ table' = table \cup {row}
    /\ row.key = k /\ row.owner = u /\ row.val = v
    /\ \A x \in table : Ref(x) # Ref(row)

LEMMA StInserted ==
    ASSUME NEW k \in StKeys, NEW u \in Users, NEW v \in Contents, NEW on \in BOOLEAN, Insert(k, u, v, on)
    PROVE  \E row : StAdds(row, k, u, v)
<1>1. FreshIds(k, u) # {} /\ table' = table \cup {NewRow(k, u, v, on)}
  BY DEF Insert
<1>2. StAdds(NewRow(k, u, v, on), k, u, v)
  BY <1>1, StNewRow DEF StAdds
<1>3. QED
  BY <1>2

LEMMA StInsertedOff ==
    ASSUME NEW k \in StKeys, NEW u \in Users, NEW v \in Contents, Insert(k, u, v, FALSE)
    PROVE  \E row : StAdds(row, k, u, v)
<1> DEFINE i == CHOOSE j \in FreshIds(k, u) : TRUE
           row == [id |-> i, key |-> k, owner |-> u, val |-> v, on |-> FALSE]
<1>1. i \in FreshIds(k, u)
  BY DEF Insert
<1> HIDE DEF i
<1>2. table' = table \cup {row}
  BY DEF Insert, NewRow, Row, i
<1>3. i \in 1..MaxTableRows /\ \A x \in table : Ref(x) # <<k, u, i>>
  BY <1>1 DEF FreshIds
<1>4. row \in StRows /\ Ref(row) = <<k, u, i>>
  BY <1>3 DEF StRows, Ref
<1>5. row.key = k /\ row.owner = u /\ row.val = v
  OBVIOUS
<1> HIDE DEF row
<1>6. StAdds(row, k, u, v)
  BY <1>2, <1>3, <1>4, <1>5 DEF StAdds
<1>7. QED
  BY <1>6

\* Rows that are written keep their key, their owner and their number.
StRewritten(W) ==
    /\ table' \subseteq StRows
    /\ \A x \in table \ W : x \in table'
    /\ \A x \in table' : \E y \in table : /\ Ref(x) = Ref(y) /\ x.key = y.key /\ x.owner = y.owner
                                          /\ y \notin W => x = y
    /\ \A y \in table : \E x \in table' : Ref(x) = Ref(y) /\ x.key = y.key /\ x.owner = y.owner

LEMMA StSetOn ==
    ASSUME StBase, NEW W, NEW on \in BOOLEAN, W \subseteq table,
           table' = (table \ W) \cup {[row EXCEPT !.on = on] : row \in W}
    PROVE  StRewritten(W) /\ \A x \in table' : x \in table \ W \/ (x.on <=> on)
<1>1. ASSUME NEW row \in W
      PROVE  LET x == [row EXCEPT !.on = on]
             IN x \in StRows /\ Ref(x) = Ref(row) /\ x.key = row.key /\ x.owner = row.owner /\ (x.on <=> on)
  <2>1. row \in StRows
    BY DEF StBase
  <2>2. QED
    BY <2>1 DEF StRows, Ref
<1>2. QED
  BY <1>1 DEF StRewritten, StBase

LEMMA StSetVal ==
    ASSUME StBase, NEW W, NEW v \in Contents, W \subseteq table,
           table' = (table \ W) \cup {[row EXCEPT !.val = v] : row \in W}
    PROVE  StRewritten(W) /\ \A x \in table' : x \in table \ W \/ x.val = v
<1>1. ASSUME NEW row \in W
      PROVE  LET x == [row EXCEPT !.val = v]
             IN x \in StRows /\ Ref(x) = Ref(row) /\ x.key = row.key /\ x.owner = row.owner /\ x.val = v
  <2>1. row \in StRows
    BY DEF StBase
  <2>2. QED
    BY <2>1 DEF StRows, Ref
<1>2. QED
  BY <1>1 DEF StRewritten, StBase

-----------------------------------------------------------------------------
(* The settings: a step of one request, for each resource.                *)

LEMMA StAliasStep ==
    ASSUME StBase, AliasMapCurrent, topic = "alias", NEW r \in Reqs, Aliases(r)
    PROVE  StBase' /\ AliasMapCurrent' /\ UNCHANGED <<topic, seen>>
<1>1. UNCHANGED <<topic, seen>>
  BY DEF Aliases, AliasCreate, AliasUpdate, AliasDelete, invalidateIPAliasMapCache, CachedIPAliasMap,
         StoreIPAliasMap, StSeen
<1>2. ASSUME NEW k \in Seeds, table' \subseteq StRows, Invalidates(r, k)
      PROVE  StBase' /\ AliasMapCurrent'
  <2> DEFINE q == [NoReq EXCEPT !.op = "alias", !.at = "invalidate", !.key = k]
  <2>1. q \in StReq /\ q.op = "alias" /\ q.at = "invalidate"
    <3>1. k \in StKeys
      BY DEF Seeds, StKeys
    <3>2. QED
      BY <3>1, StNoReq DEF StReq, StOps, StSteps
  <2>2. req' = [req EXCEPT ![r] = q]
    BY <1>2 DEF Invalidates, Begin
  <2> HIDE DEF q
  <2>3. StAbout(q.op)
    BY <2>1 DEF StAbout
  <2>4. req' \in [Reqs -> StReq] /\ (\A o \in Reqs : StAbout(req[o].op)') /\ req'[r] = q
    BY <1>1, <2>1, <2>2, <2>3, StPut
  <2>5. At(r, "alias", "invalidate")'
    BY <2>1, <2>4 DEF At
  <2>6. QED
    BY <1>2, <2>4, <2>5 DEF StBase, AliasMapCurrent
<1>3. ASSUME Ends(r)
      PROVE  req' \in [Reqs -> StReq] /\ (\A o \in Reqs : StAbout(req[o].op)')
             /\ \A o \in Reqs \ {r} : req'[o] = req[o]
  BY <1>1, <1>3, StEnds
<1>4. ASSUME NEW k \in Seeds, AliasDelete(r, k) PROVE StBase' /\ AliasMapCurrent'
  <2>1. table' \subseteq StRows /\ Invalidates(r, k)
    BY <1>4 DEF AliasDelete, DeleteRows, StBase
  <2>2. QED
    BY <1>2, <2>1
<1>5. ASSUME NEW k \in Seeds, NEW on \in BOOLEAN, AliasCreate(r, k, on) PROVE StBase' /\ AliasMapCurrent'
  <2>1. Insert(k, Boss, "mine", on) /\ Invalidates(r, k) /\ k \in StKeys /\ "mine" \in Contents /\ Boss \in Users
    BY <1>5, SettingsAssumption DEF AliasCreate, Seeds, StKeys, Contents
  <2>2. table' \subseteq StRows
    <3>1. PICK row : StAdds(row, k, Boss, "mine")
      BY <2>1, StInserted
    <3>2. QED
      BY <3>1 DEF StAdds, StBase
  <2>3. QED
    BY <1>2, <2>1, <2>2
<1>6. ASSUME NEW k \in Seeds, NEW on \in BOOLEAN, AliasUpdate(r, k, on) PROVE StBase' /\ AliasMapCurrent'
  <2>1. table' = (table \ ByKey(k)) \cup {[row EXCEPT !.on = on] : row \in ByKey(k)} /\ Invalidates(r, k)
    BY <1>6 DEF AliasUpdate, UpdateRows
  <2>2. ByKey(k) \subseteq table
    BY DEF ByKey
  <2>3. table' \subseteq StRows
    BY <2>1, <2>2, StSetOn DEF StRewritten
  <2>4. QED
    BY <1>2, <2>1, <2>3
<1>7. CASE invalidateIPAliasMapCache(r)
  <2>1. table' = table /\ ipMap' = NoMap /\ Ends(r)
    BY <1>7 DEF invalidateIPAliasMapCache
  <2>2. ~ipMap'.built
    BY <2>1 DEF NoMap
  <2>3. QED
    BY <1>1, <1>3, <2>1, <2>2 DEF StBase, AliasMapCurrent
<1>8. CASE CachedIPAliasMap(r)
  <2> DEFINE q == [NoReq EXCEPT !.op = "alias", !.at = "built", !.snap = ActiveEntries]
  <2>1. ActiveEntries \in SUBSET (StKeys \X Contents)
    BY DEF ActiveEntries, ActiveRows, StBase, StRows
  <2>2. q \in StReq /\ q.op = "alias"
    BY <2>1, StNoReq DEF StReq, StOps, StSteps
  <2>3. /\ req' = [req EXCEPT ![r] = q] /\ UNCHANGED <<table, ipMap, ipMapFresh, outdated>>
        /\ req[r] = NoReq
    BY <1>8 DEF CachedIPAliasMap, Begin, StCache, Free
  <2> HIDE DEF q
  <2>4. /\ req' \in [Reqs -> StReq] /\ \A o \in Reqs : StAbout(req[o].op)'
        /\ \A o \in Reqs \ {r} : req'[o] = req[o]
    <3>1. StAbout(q.op)
      BY <2>2 DEF StAbout
    <3>2. QED
      BY <1>1, <2>2, <2>3, <3>1, StPut
  <2>5. ActiveEntries' = ActiveEntries
    BY <2>3 DEF ActiveEntries, ActiveRows
  <2>6. \A o \in Reqs : At(o, "alias", "invalidate") => o # r
    BY <2>3, StNoReq DEF At
  <2>7. \A o \in Reqs : At(o, "alias", "invalidate") => At(o, "alias", "invalidate")'
    BY <2>4, <2>6 DEF At
  <2>8. QED
    BY <1>1, <2>3, <2>4, <2>5, <2>7 DEF StBase, AliasMapCurrent
<1>9. CASE StoreIPAliasMap(r)
  <2>1. table' = table /\ Ends(r) /\ At(r, "alias", "built")
    BY <1>9 DEF StoreIPAliasMap
  <2>2. StBase'
    BY <1>3, <2>1 DEF StBase
  <2>3. ActiveEntries' = ActiveEntries
    BY <2>1 DEF ActiveEntries, ActiveRows
  <2>4. \A o \in Reqs : At(o, "alias", "invalidate") => At(o, "alias", "invalidate")'
    BY <1>3, <2>1 DEF At
  <2>5. CASE ipMap.built /\ ipMapFresh
    <3>1. UNCHANGED <<ipMap, ipMapFresh, outdated>>
      BY <1>9, <2>5 DEF StoreIPAliasMap, StCache
    <3>2. AliasMapCurrent'
      BY <1>1, <2>3, <2>4, <3>1 DEF AliasMapCurrent
    <3>3. QED
      BY <1>1, <2>2, <3>2
  <2>6. CASE ~(ipMap.built /\ ipMapFresh)
    <3>1. ipMap'.rows = req[r].snap /\ outdated' = (req[r].snap # ActiveEntries)
      BY <1>9, <2>6 DEF StoreIPAliasMap
    <3>2. ~outdated' => ipMap'.rows = ActiveEntries
      BY <3>1
    <3>3. AliasMapCurrent'
      BY <2>3, <3>2 DEF AliasMapCurrent
    <3>4. QED
      BY <1>1, <2>2, <3>3
  <2>7. QED
    BY <2>5, <2>6
<1>10. QED
  BY <1>1, <1>4, <1>5, <1>6, <1>7, <1>8, <1>9 DEF Aliases

LEMMA StIPMapExpires ==
    ASSUME StBase, AliasMapCurrent, IPMapExpires
    PROVE  StBase' /\ AliasMapCurrent' /\ UNCHANGED <<topic, seen>>
<1>1. UNCHANGED <<topic, table, req, seen>> /\ ipMapFresh' = FALSE
  BY DEF IPMapExpires, StSeen
<1>2. QED
  BY <1>1 DEF StBase, AliasMapCurrent, StAbout

LEMMA StPreferenceStep ==
    ASSUME StBase, PreferencesAgree, topic = "preference", NEW r \in Reqs, Preferences(r)
    PROVE  StBase' /\ PreferencesAgree' /\ UNCHANGED <<topic, seen>>
<1>1. UNCHANGED <<topic, seen>>
  BY DEF Preferences, UpsertByCategory, UpsertInsert
<1>2. ASSUME NEW u \in Users, NEW k \in Seeds, NEW v \in {"mine", "other"}, UpsertByCategory(r, u, k, v),
             OwnKey(u, k) # {}
      PROVE  StBase' /\ PreferencesAgree'
  <2> DEFINE W == OwnKey(u, k)
  <2>1. /\ table' = (table \ W) \cup {[row EXCEPT !.val = v] : row \in W}
        /\ crossed' = crossed \ {<<u, k>>} /\ req' = req
    BY <1>2 DEF UpsertByCategory, UpdateRows, PreferenceRows
  <2>2. W \subseteq table /\ v \in Contents
    BY DEF OwnKey, ByKey, Contents
  <2>3. \A x \in table : x \in W <=> x.key = k /\ x.owner = u
    BY DEF OwnKey, ByKey
  <2> HIDE DEF W
  <2>4. StRewritten(W) /\ \A x \in table' : x \in table \ W \/ x.val = v
    BY <2>1, <2>2, StSetVal
  <2>5. StBase'
    BY <1>1, <2>1, <2>4 DEF StBase, StAbout, StRewritten
  <2>6. ASSUME NEW x \in table', NEW y \in table', x.owner = y.owner, x.key = y.key
        PROVE  x.val = y.val \/ <<x.owner, x.key>> \in crossed'
    <3>1. CASE x.key = k /\ x.owner = u
      BY <2>3, <2>4, <2>6, <3>1
    <3>2. CASE ~(x.key = k /\ x.owner = u)
      <4>1. x \in table /\ y \in table
        <5>1. PICK x1 \in table : x.key = x1.key /\ x.owner = x1.owner /\ (x1 \notin W => x = x1)
          BY <2>4 DEF StRewritten
        <5>2. PICK y1 \in table : y.key = y1.key /\ y.owner = y1.owner /\ (y1 \notin W => y = y1)
          BY <2>4 DEF StRewritten
        <5>3. QED
          BY <2>3, <2>6, <3>2, <5>1, <5>2
      <4>2. x.val = y.val \/ <<x.owner, x.key>> \in crossed
        BY <2>6, <4>1 DEF PreferencesAgree
      <4>3. <<x.owner, x.key>> # <<u, k>>
        BY <3>2
      <4>4. QED
        BY <2>1, <4>2, <4>3
    <3>3. QED
      BY <3>1, <3>2
  <2>7. QED
    BY <2>5, <2>6 DEF PreferencesAgree
<1>3. ASSUME NEW u \in Users, NEW k \in Seeds, NEW v \in {"mine", "other"}, UpsertByCategory(r, u, k, v),
             OwnKey(u, k) = {}
      PROVE  StBase' /\ PreferencesAgree'
  <2> DEFINE q == [NoReq EXCEPT !.op = "upsert", !.at = "insert", !.user = u, !.key = k, !.val = v]
  <2>1. q \in StReq /\ q.op = "upsert"
    <3>1. k \in StKeys /\ v \in Contents
      BY DEF Seeds, StKeys, Contents
    <3>2. QED
      BY <3>1, StNoReq DEF StReq, StOps, StSteps
  <2>2. req' = [req EXCEPT ![r] = q] /\ UNCHANGED <<table, crossed>>
    BY <1>3 DEF UpsertByCategory, Begin
  <2> HIDE DEF q
  <2>3. req' \in [Reqs -> StReq] /\ \A o \in Reqs : StAbout(req[o].op)'
    <3>1. StAbout(q.op)
      BY <2>1 DEF StAbout
    <3>2. QED
      BY <1>1, <2>1, <2>2, <3>1, StPut
  <2>4. QED
    BY <1>1, <2>2, <2>3 DEF StBase, PreferencesAgree
<1>4. CASE UpsertInsert(r)
  <2>1. PICK u \in Users, k \in StKeys : u = req[r].user /\ k = req[r].key
    BY DEF StBase, StReq
  <2>2. /\ Insert(k, u, req[r].val, FALSE) /\ Ends(r) /\ req[r].val \in Contents
        /\ crossed' = IF OwnKey(u, k) = {} THEN crossed ELSE crossed \cup {<<u, k>>}
    BY <1>4, <2>1 DEF UpsertInsert, StBase, StReq
  <2>3. PICK new : StAdds(new, k, u, req[r].val)
    BY <2>2, StInsertedOff
  <2>4. StBase'
    BY <1>1, <2>2, <2>3, StEnds DEF StBase, StAdds
  <2>5. \A x \in table : x.owner = u /\ x.key = k => <<u, k>> \in crossed'
    BY <2>2 DEF OwnKey, ByKey
  <2>6. ASSUME NEW x \in table', NEW y \in table', x.owner = y.owner, x.key = y.key
        PROVE  x.val = y.val \/ <<x.owner, x.key>> \in crossed'
    <3>1. crossed \subseteq crossed'
      BY <2>2
    <3>2. CASE x \in table /\ y \in table
      BY <2>6, <3>1, <3>2 DEF PreferencesAgree
    <3>3. CASE ~(x \in table /\ y \in table)
      BY <2>3, <2>5, <2>6, <3>3 DEF StAdds
    <3>4. QED
      BY <3>2, <3>3
  <2>7. QED
    BY <1>1, <2>4, <2>6 DEF PreferencesAgree
<1>5. QED
  BY <1>1, <1>2, <1>3, <1>4 DEF Preferences

LEMMA StPreferenceDeletion ==
    ASSUME StBase, PreferencesAgree, NEW u,
           DeleteByCategory(u) \/ \E k \in Seeds : DeleteByCategoryAndParam(u, k)
    PROVE  StBase' /\ PreferencesAgree' /\ UNCHANGED <<topic, seen>> /\ topic = "preference"
<1>1. UNCHANGED <<topic, req, crossed, seen>> /\ topic = "preference" /\ table' \subseteq table
  BY DEF DeleteByCategory, DeleteByCategoryAndParam, DeleteRows, StSeen
<1>2. QED
  BY <1>1 DEF StBase, StAbout, PreferencesAgree

\* A step that no reset takes, and that leaves a row of every key that has one.
LEMMA StMappingsKept ==
    ASSUME StMappings, topic = "mapping", topic' = topic, served' = served,
           \A o \in Reqs : req'[o] = req[o] \/ ~(Resetting(o) \/ Resetting(o)'),
           \A x \in table : \E y \in table' : y.key = x.key
    PROVE  StMappings'
<1>1. \A o \in Reqs : (Resetting(o)' <=> Resetting(o)) /\ (Resetting(o) => req'[o] = req[o])
  BY DEF Resetting
<1>2. StSettled(Boss)' => StSettled(Boss)
  BY <1>1 DEF StSettled
<1>3. ASSUME StSettled(Boss)', NEW k \in Seeds
      PROVE  ByKey(k)' # {} \/ \E o \in Reqs : Resetting(o)' /\ req'[o].key <= k
  <2>1. ByKey(k) # {} \/ \E o \in Reqs : Resetting(o) /\ req[o].key <= k
    BY <1>2, <1>3 DEF StMappings
  <2>2. ByKey(k) # {} => ByKey(k)' # {}
    BY DEF ByKey
  <2>3. QED
    BY <1>1, <2>1, <2>2
<1>4. served' \subseteq {Boss} /\ \A o \in Reqs : Resetting(o)' => req'[o].user = Boss /\ req'[o].key \in Seeds
  BY <1>1 DEF StMappings
<1>5. QED
  BY <1>3, <1>4 DEF StMappings

LEMMA StMappingsDisturbed ==
    ASSUME StBase, StMappings, topic = "mapping", topic' = topic, NEW r \in Reqs, Disturb(Boss, r)
    PROVE  StMappings'
<1>1. /\ served' = served \ {Boss} /\ req'[r] = NoReq
      /\ \A o \in Reqs \ {r} :
                 IF Resetting(o) /\ req[o].user = Boss
                 THEN req'[o] = [req[o] EXCEPT !.on = TRUE] /\ req'[o].on
                 ELSE req'[o] = req[o]
  BY StDisturbed
<1>2. ASSUME NEW o \in Reqs, Resetting(o)'
      PROVE  req'[o].user = Boss /\ req'[o].key \in Seeds /\ req'[o].on
  <2>1. o # r
    BY <1>1, <1>2, StNoReq DEF Resetting
  <2>2. Resetting(o) /\ req[o] \in StReq
    <3>1. req[o] \in StReq
      BY DEF StBase
    <3>2. CASE Resetting(o) /\ req[o].user = Boss
      BY <3>1, <3>2
    <3>3. CASE ~(Resetting(o) /\ req[o].user = Boss)
      BY <1>1, <1>2, <2>1, <3>1, <3>3 DEF Resetting
    <3>4. QED
      BY <3>2, <3>3
  <2>3. req[o].user = Boss /\ req[o].key \in Seeds
    BY <2>2 DEF StMappings
  <2>4. req'[o] = [req[o] EXCEPT !.on = TRUE] /\ req'[o].on
    BY <1>1, <2>1, <2>2, <2>3
  <2>5. QED
    BY <2>2, <2>3, <2>4 DEF StReq
<1>3. served' \subseteq {Boss} /\ Boss \notin served'
  BY <1>1 DEF StMappings
<1>4. ~StSettled(Boss)'
  BY <1>2, <1>3 DEF StSettled
<1>5. QED
  BY <1>2, <1>3, <1>4 DEF StMappings

\* A reset has seen to one key.
LEMMA StMappingsNext ==
    ASSUME StBase, StMappings, topic = "mapping", topic' = topic, NEW r \in Reqs, Resetting(r), SeedsNext(r),
           \A x \in table : \E y \in table' : y.key = x.key,
           \E y \in table' : y.key = req[r].key
    PROVE  StMappings' /\ req' \in [Reqs -> StReq] /\ \A o \in Reqs : StAbout(req[o].op)'
<1>1. req[r] \in StReq /\ req[r].user = Boss /\ req[r].key \in Seeds
  BY DEF StBase, StMappings
<1>2. \A k \in Seeds : ByKey(k) # {} => ByKey(k)' # {}
  BY DEF ByKey
<1>3. CASE req[r].key + 1 \in Seeds
  <2>1. req[r].key = 1
    BY <1>1, <1>3 DEF Seeds
  <2>2. req' = [req EXCEPT ![r].at = "check", ![r].key = 2] /\ served' = served
    BY <1>3, <2>1 DEF SeedsNext, StBase
  <2>3. "check" \in StSteps /\ 2 \in StKeys /\ 1 \in Seeds /\ 2 \in Seeds
    BY DEF StSteps, StKeys, Seeds
  <2>4. /\ req' \in [Reqs -> StReq] /\ \A o \in Reqs : StAbout(req[o].op)'
        /\ req'[r] = [req[r] EXCEPT !.at = "check", !.key = 2]
        /\ \A o \in Reqs \ {r} : req'[o] = req[o]
    BY <2>2, <2>3, StGoes
  <2>5. req'[r].key = 2 /\ req'[r].user = Boss /\ req'[r].op = req[r].op /\ (req'[r].on <=> req[r].on)
    BY <1>1, <2>4 DEF StReq
  <2>6. \A o \in Reqs : Resetting(o)' <=> Resetting(o)
    BY <2>4, <2>5 DEF Resetting
  <2>7. StSettled(Boss)' => StSettled(Boss)
    <3>1. \A o \in Reqs : req'[o].on <=> req[o].on
      BY <2>4, <2>5
    <3>2. \A o \in Reqs : Resetting(o) => req[o].user = Boss
      BY DEF StMappings
    <3>3. QED
      BY <2>2, <2>6, <3>1, <3>2 DEF StSettled
  <2>8. ASSUME StSettled(Boss)', NEW k \in Seeds
        PROVE  ByKey(k)' # {} \/ \E o \in Reqs : Resetting(o)' /\ req'[o].key <= k
    <3>1. CASE k = 1
      <4>1. \E y \in table' : y.key = 1
        BY <2>1
      <4>2. QED
        BY <3>1, <4>1 DEF ByKey
    <3>2. CASE k = 2
      <4>1. Resetting(r)' /\ req'[r].key <= 2
        BY <2>5, <2>6
      <4>2. QED
        BY <3>2, <4>1
    <3>3. QED
      BY <3>1, <3>2 DEF Seeds
  <2>9. \A o \in Reqs : Resetting(o)' => req'[o].user = Boss /\ req'[o].key \in Seeds
    BY <2>3, <2>4, <2>5, <2>6 DEF StMappings
  <2>10. served' \subseteq {Boss}
    BY <2>2 DEF StMappings
  <2>11. QED
    BY <2>4, <2>8, <2>9, <2>10 DEF StMappings
<1>4. CASE req[r].key + 1 \notin Seeds
  <2>1. req[r].key = 2
    BY <1>1, <1>4 DEF Seeds
  <2>2. Ends(r) /\ served' = IF req[r].on THEN served ELSE served \cup {Boss}
    BY <1>1, <1>4 DEF SeedsNext, Serves
  <2>3. /\ req' \in [Reqs -> StReq] /\ \A o \in Reqs : StAbout(req[o].op)'
        /\ req'[r] = NoReq /\ \A o \in Reqs \ {r} : req'[o] = req[o]
    BY <2>2, StEnds
  <2>4. ~Resetting(r)'
    BY <2>3, StNoReq DEF Resetting
  <2>5. \A o \in Reqs : Resetting(o)' => o # r /\ Resetting(o) /\ req'[o] = req[o]
    BY <2>3, <2>4 DEF Resetting
  <2>6. StSettled(Boss)' => StSettled(Boss)
    BY <1>1, <2>2, <2>5 DEF StSettled
  <2>7. ASSUME StSettled(Boss)', NEW k \in Seeds
        PROVE  ByKey(k)' # {} \/ \E o \in Reqs : Resetting(o)' /\ req'[o].key <= k
    <3>1. CASE k = 2
      <4>1. \E y \in table' : y.key = 2
        BY <2>1
      <4>2. QED
        BY <3>1, <4>1 DEF ByKey
    <3>2. CASE k = 1
      <4>1. ByKey(1) # {} \/ \E o \in Reqs : Resetting(o) /\ req[o].key <= 1
        BY <2>6, <2>7, <3>2 DEF StMappings
      <4>2. CASE ByKey(1) # {}
        BY <1>2, <3>2, <4>2
      <4>3. CASE \E o \in Reqs : Resetting(o) /\ req[o].key <= 1
        <5>1. PICK o \in Reqs : Resetting(o) /\ req[o].key <= 1
          BY <4>3
        <5>2. o # r
          BY <2>1, <5>1
        <5>3. Resetting(o)' /\ req'[o].key <= k
          BY <2>3, <3>2, <5>1, <5>2 DEF Resetting
        <5>4. QED
          BY <5>3
      <4>4. QED
        BY <4>1, <4>2, <4>3
    <3>3. QED
      BY <3>1, <3>2 DEF Seeds
  <2>8. \A o \in Reqs : Resetting(o)' => req'[o].user = Boss /\ req'[o].key \in Seeds
    BY <2>5 DEF StMappings
  <2>9. served' \subseteq {Boss}
    BY <2>2 DEF StMappings
  <2>10. QED
    BY <2>3, <2>7, <2>8, <2>9 DEF StMappings
<1>5. QED
  BY <1>3, <1>4

LEMMA StMappingStep ==
    ASSUME StBase, StMappings, topic = "mapping", NEW r \in Reqs, Mappings(r) \/ Curtail(r)
    PROVE  StBase' /\ StMappings' /\ UNCHANGED <<topic, seen>>
<1>1. UNCHANGED <<topic, seen>>
  BY DEF Mappings, CreateMapping, UpdateMapping, DeleteMapping, ResetMappings, SeedCheck, SeedInsert,
         upsertMapping, upsertMappingWrite, Unseen, StSeen, Curtail
<1> "seed" \in Contents /\ "mine" \in Contents /\ "columns" \in Contents /\ Boss \in Users /\ 3 \in StKeys
  BY SettingsAssumption DEF Contents, StKeys
<1>2. ASSUME NEW k \in StKeys, CreateMapping(k) PROVE StBase' /\ StMappings'
  <2>1. Insert(k, Boss, "mine", FALSE) /\ req' = req /\ served' = served
    BY <1>2 DEF CreateMapping, Unseen, StSeen
  <2>2. PICK row : StAdds(row, k, Boss, "mine")
    BY <2>1, StInsertedOff
  <2>3. StBase'
    BY <1>1, <2>1, <2>2 DEF StAdds, StBase, StAbout
  <2>4. StMappings'
    BY <1>1, <2>1, <2>2, StMappingsKept DEF StAdds
  <2>5. QED
    BY <2>3, <2>4
<1>3. ASSUME NEW k \in StKeys, NEW v \in {"mine", "columns"},
             table' = (table \ ByKey(k)) \cup {[row EXCEPT !.val = v] : row \in ByKey(k)}
      PROVE  table' \subseteq StRows /\ \A x \in table : \E y \in table' : y.key = x.key
  <2>1. ByKey(k) \subseteq table /\ v \in Contents
    BY DEF ByKey
  <2>2. StRewritten(ByKey(k))
    BY <1>3, <2>1, StSetVal
  <2>3. QED
    BY <2>2 DEF StRewritten
<1>4. ASSUME NEW k \in StKeys, UpdateMapping(k) PROVE StBase' /\ StMappings'
  <2>1. table' = (table \ ByKey(k)) \cup {[row EXCEPT !.val = "mine"] : row \in ByKey(k)}
        /\ req' = req /\ served' = served
    BY <1>4 DEF UpdateMapping, UpdateRows, Unseen, StSeen
  <2>2. table' \subseteq StRows /\ \A x \in table : \E y \in table' : y.key = x.key
    BY <1>3, <2>1
  <2>3. StBase'
    BY <1>1, <2>1, <2>2 DEF StBase, StAbout
  <2>4. StMappings'
    BY <1>1, <2>1, <2>2, StMappingsKept
  <2>5. QED
    BY <2>3, <2>4
<1>5. ASSUME NEW k \in StKeys, DeleteMapping(r, k) PROVE StBase' /\ StMappings'
  <2>1. Disturb(Boss, r) /\ table' \subseteq table
    BY <1>5 DEF DeleteMapping, DeleteRows
  <2>2. StBase'
    BY <1>1, <2>1, StDisturbed DEF StBase
  <2>3. QED
    BY <1>1, <2>1, <2>2, StMappingsDisturbed
<1>6. CASE Curtail(r)
  <2>1. Disturb(req[r].user, r) /\ table' = table /\ Resetting(r)
    BY <1>6 DEF Curtail
  <2>2. req[r].user = Boss
    BY <2>1 DEF StMappings
  <2>3. StBase'
    BY <1>1, <2>1, <2>2, StDisturbed DEF StBase
  <2>4. QED
    BY <1>1, <2>1, <2>2, <2>3, StMappingsDisturbed
<1>7. CASE ResetMappings(r)
  <2> DEFINE q == [NoReq EXCEPT !.op = "mreset", !.at = "check"]
  <2>1. q \in StReq /\ q.op = "mreset" /\ q.key = 1 /\ q.user = Boss
    BY StNoReq DEF StReq, StOps, StSteps, NoReq
  <2>2. req' = [req EXCEPT ![r] = q] /\ table' = {} /\ served' = served /\ req[r] = NoReq
    BY <1>7 DEF ResetMappings, Begin, DeleteRows, Unseen, StSeen, Free
  <2> HIDE DEF q
  <2>3. /\ req' \in [Reqs -> StReq] /\ \A o \in Reqs : StAbout(req[o].op)'
        /\ req'[r] = q /\ \A o \in Reqs \ {r} : req'[o] = req[o]
    <3>1. StAbout(q.op)
      BY <2>1 DEF StAbout
    <3>2. QED
      BY <1>1, <2>1, <2>2, <3>1, StPut
  <2>4. StBase'
    BY <2>2, <2>3 DEF StBase
  <2>5. Resetting(r)' /\ req'[r].key = 1
    BY <2>1, <2>3 DEF Resetting
  <2>6. \A k \in Seeds : req'[r].key <= k
    BY <2>5 DEF Seeds
  <2>7. ASSUME NEW o \in Reqs, Resetting(o)' PROVE req'[o].user = Boss /\ req'[o].key \in Seeds
    <3>1. CASE o = r
      BY <2>1, <2>3, <3>1 DEF Seeds
    <3>2. CASE o # r
      BY <2>3, <2>7, <3>2 DEF StMappings, Resetting
    <3>3. QED
      BY <3>1, <3>2
  <2>8. served' \subseteq {Boss}
    BY <2>2 DEF StMappings
  <2>9. StMappings'
    BY <2>5, <2>6, <2>7, <2>8 DEF StMappings
  <2>10. QED
    BY <1>1, <2>4, <2>9
<1>8. CASE SeedCheck(r)
  <2>1. Resetting(r) /\ table' = table
    BY <1>8 DEF SeedCheck, At, Resetting
  <2>2. CASE SeedPresent(req[r].key)
    <3>1. SeedsNext(r) /\ \E y \in table' : y.key = req[r].key
      BY <1>8, <2>1, <2>2 DEF SeedCheck, SeedPresent, ByKey
    <3>2. StMappings' /\ req' \in [Reqs -> StReq] /\ \A o \in Reqs : StAbout(req[o].op)'
      BY <1>1, <2>1, <3>1, StMappingsNext
    <3>3. QED
      BY <1>1, <2>1, <3>2 DEF StBase
  <2>3. CASE ~SeedPresent(req[r].key)
    <3>1. req' = [req EXCEPT ![r].at = "insert"] /\ served' = served
      BY <1>8, <2>3 DEF SeedCheck, GoesTo
    <3>2. req[r] \in StReq
      BY DEF StBase
    <3>3. req' = [req EXCEPT ![r] = [req[r] EXCEPT !.at = "insert"]]
      BY <3>1 DEF StBase
    <3> DEFINE q == [req[r] EXCEPT !.at = "insert"]
    <3>4. /\ q \in StReq /\ q.op = req[r].op /\ q.key = req[r].key /\ q.user = req[r].user
          /\ (q.on <=> req[r].on)
      BY <3>2 DEF StReq, StSteps
    <3> HIDE DEF q
    <3>5. /\ req' \in [Reqs -> StReq] /\ \A o \in Reqs : StAbout(req[o].op)'
          /\ req'[r] = q /\ \A o \in Reqs \ {r} : req'[o] = req[o]
      <4>1. StAbout(q.op)
        BY <3>4 DEF StBase
      <4>2. req' = [req EXCEPT ![r] = q]
        BY <3>3 DEF q
      <4>3. QED
        BY <1>1, <3>4, <4>1, <4>2, StPut
    <3>6. \A o \in Reqs : /\ req'[o].op = req[o].op /\ req'[o].key = req[o].key /\ req'[o].user = req[o].user
                          /\ (req'[o].on <=> req[o].on)
      BY <3>4, <3>5
    <3>7. (\A o \in Reqs : Resetting(o)' <=> Resetting(o)) /\ \A k : ByKey(k)' = ByKey(k)
      BY <2>1, <3>6 DEF Resetting, ByKey
    <3>8. StSettled(Boss)' => StSettled(Boss)
      BY <3>1, <3>6, <3>7 DEF StSettled
    <3>9. StMappings'
      BY <1>1, <3>1, <3>6, <3>7, <3>8 DEF StMappings
    <3>10. QED
      BY <1>1, <2>1, <3>5, <3>9 DEF StBase
  <2>4. QED
    BY <2>2, <2>3
<1>9. CASE SeedInsert(r)
  <2>1. Resetting(r) /\ SeedsNext(r) /\ Insert(req[r].key, Boss, "seed", FALSE) /\ req[r].key \in StKeys
    BY <1>9 DEF SeedInsert, At, Resetting, StBase, StReq
  <2>2. PICK row : StAdds(row, req[r].key, Boss, "seed")
    BY <2>1, StInsertedOff
  <2>3. /\ \A x \in table : \E y \in table' : y.key = x.key
        /\ \E y \in table' : y.key = req[r].key
        /\ table' \subseteq StRows
    BY <2>2 DEF StAdds, StBase
  <2>4. StMappings' /\ req' \in [Reqs -> StReq] /\ \A o \in Reqs : StAbout(req[o].op)'
    BY <1>1, <2>1, <2>3, StMappingsNext
  <2>5. QED
    BY <1>1, <2>3, <2>4 DEF StBase
<1>10. CASE upsertMapping(r)
  <2>1. PICK at \in {"insert", "update"} : req' = [req EXCEPT ![r] = [NoReq EXCEPT !.op = "sync", !.at = at, !.key = 3]]
    BY <1>10 DEF upsertMapping, Begin
  <2> DEFINE q == [NoReq EXCEPT !.op = "sync", !.at = at, !.key = 3]
  <2>2. q \in StReq /\ q.op = "sync"
    BY StNoReq DEF StReq, StOps, StSteps
  <2>3. table' = table /\ served' = served /\ req[r] = NoReq /\ req' = [req EXCEPT ![r] = q]
    BY <1>10, <2>1 DEF upsertMapping, Unseen, StSeen, Free
  <2> HIDE DEF q
  <2>4. /\ req' \in [Reqs -> StReq] /\ \A o \in Reqs : StAbout(req[o].op)'
        /\ req'[r] = q /\ \A o \in Reqs \ {r} : req'[o] = req[o]
    <3>1. StAbout(q.op)
      BY <2>2 DEF StAbout
    <3>2. QED
      BY <1>1, <2>2, <2>3, <3>1, StPut
  <2>5. ~Resetting(r) /\ ~Resetting(r)'
    BY <2>2, <2>3, <2>4, StNoReq DEF Resetting
  <2>6. StMappings'
    BY <1>1, <2>3, <2>4, <2>5, StMappingsKept
  <2>7. QED
    BY <1>1, <2>3, <2>4, <2>6 DEF StBase
<1>11. CASE upsertMappingWrite(r)
  <2>1. Ends(r) /\ req[r].op = "sync" /\ served' = served
    BY <1>11 DEF upsertMappingWrite, At, Unseen, StSeen
  <2>2. /\ req' \in [Reqs -> StReq] /\ \A o \in Reqs : StAbout(req[o].op)'
        /\ req'[r] = NoReq /\ \A o \in Reqs \ {r} : req'[o] = req[o]
    BY <1>1, <2>1, StEnds
  <2>3. ~Resetting(r) /\ ~Resetting(r)'
    BY <2>1, <2>2, StNoReq DEF Resetting
  <2>4. table' \subseteq StRows /\ \A x \in table : \E y \in table' : y.key = x.key
    <3>1. CASE Insert(3, Boss, "columns", FALSE)
      <4>1. PICK row : StAdds(row, 3, Boss, "columns")
        BY <3>1, StInsertedOff
      <4>2. QED
        BY <4>1 DEF StAdds, StBase
    <3>2. CASE ~Insert(3, Boss, "columns", FALSE)
      <4>1. table' = (table \ ByKey(3)) \cup {[row EXCEPT !.val = "columns"] : row \in ByKey(3)}
        BY <1>11, <3>2 DEF upsertMappingWrite, UpdateRows
      <4>2. QED
        BY <1>3, <4>1
    <3>3. QED
      BY <3>1, <3>2
  <2>5. StMappings'
    BY <1>1, <2>1, <2>2, <2>3, <2>4, StMappingsKept
  <2>6. QED
    BY <1>1, <2>2, <2>4, <2>5 DEF StBase
<1>12. QED
  BY <1>1, <1>2, <1>4, <1>5, <1>6, <1>7, <1>8, <1>9, <1>10, <1>11 DEF Mappings

LEMMA StTokenStep ==
    ASSUME StBase, StTokens, topic = "token", NEW r \in Reqs, Tokens(r)
    PROVE  StBase' /\ StTokens' /\ topic' = topic /\ seen' \subseteq seen \cup {"revived"}
<1>1. topic' = topic /\ seen' \subseteq seen \cup {"revived"}
  BY DEF Tokens, TokenCreate, V4AuthTokensUpdate, TokenUpdate, TokenDelete, Unseen, StSeen, See
<1> DEFINE Alone == \A x, y \in table : x.key = y.key => x = y
           Renames(o) == req[o].op = "token" /\ req[o].val = "other" /\ req[o].on
<1>2. Alone
  BY DEF StTokens
<1>3. ASSUME NEW k \in StKeys, NEW on \in BOOLEAN, TokenCreate(k, on) PROVE StBase' /\ StTokens'
  <2>1. /\ Insert(k, Boss, "mine", on) /\ UNCHANGED <<req, crossed, seen>> /\ ByKey(k) = {}
        /\ \A o \in Reqs : req[o] = NoReq \/ req[o].key # k
    BY <1>3 DEF TokenCreate, Unseen, StSeen, Free
  <2>2. Boss \in Users /\ "mine" \in Contents
    BY SettingsAssumption DEF Contents
  <2>3. PICK row : StAdds(row, k, Boss, "mine")
    BY <2>1, <2>2, StInserted
  <2>4. StBase'
    BY <1>1, <2>1, <2>3 DEF StAdds, StBase, StAbout
  <2>5. \A x \in table : x.key # k
    BY <2>1 DEF ByKey
  <2>6. Alone'
    BY <1>2, <2>3, <2>5 DEF StAdds
  <2>7. ASSUME NEW o \in Reqs, Renames(o)'
        PROVE  (crossed # {} \/ \A x \in ByKey(req[o].key) : x.on)'
    <3>1. Renames(o) /\ req[o].key # k
      BY <2>1, <2>7, StNoReq
    <3>2. crossed # {} \/ \A x \in ByKey(req[o].key) : x.on
      BY <3>1 DEF StTokens
    <3>3. ByKey(req[o].key)' = ByKey(req[o].key)
      BY <2>1, <2>3, <3>1 DEF ByKey, StAdds
    <3>4. QED
      BY <2>1, <3>2, <3>3
  <2>8. "revived" \in seen' => topic' = "token" /\ crossed' # {}
    BY <1>1, <2>1 DEF StTokens
  <2>9. QED
    BY <2>4, <2>6, <2>7, <2>8 DEF StTokens
<1>4. ASSUME NEW k \in StKeys, NEW what \in {"mine", "other"}, NEW on \in BOOLEAN,
             V4AuthTokensUpdate(r, k, what, on)
      PROVE  StBase' /\ StTokens'
  <2>1. PICK row \in ByKey(k) :
           req' = [req EXCEPT ![r] = [NoReq EXCEPT !.op = "token", !.at = "write", !.key = k, !.val = what,
                                                   !.on = MergedActive(row, what, on)]]
    BY <1>4 DEF V4AuthTokensUpdate, Begin
  <2>2. row \in table /\ row \in StRows /\ row.key = k
    BY DEF ByKey, StBase
  <2>3. PICK b \in BOOLEAN : /\ b = MergedActive(row, what, on) /\ (what = "other" => (b <=> row.on))
    BY <2>2 DEF MergedActive, StRows
  <2> DEFINE q == [NoReq EXCEPT !.op = "token", !.at = "write", !.key = k, !.val = what, !.on = b]
  <2>4. /\ q \in StReq /\ q.op = "token" /\ q.key = k /\ q.val = what
        /\ (q.on <=> b)
    BY StNoReq DEF StReq, StOps, StSteps, Contents
  <2>5. /\ req' = [req EXCEPT ![r] = q] /\ UNCHANGED <<table, crossed, seen>>
    BY <1>4, <2>1, <2>3 DEF V4AuthTokensUpdate, Unseen, StSeen
  <2> HIDE DEF q
  <2>6. /\ req' \in [Reqs -> StReq] /\ \A o \in Reqs : StAbout(req[o].op)'
        /\ req'[r] = q /\ \A o \in Reqs \ {r} : req'[o] = req[o]
    <3>1. StAbout(q.op)
      BY <2>4 DEF StAbout
    <3>2. QED
      BY <1>1, <2>4, <2>5, <3>1, StPut
  <2>7. ASSUME NEW o \in Reqs, Renames(o)'
        PROVE  (crossed # {} \/ \A x \in ByKey(req[o].key) : x.on)'
    <3>1. CASE o = r
      <4>1. row.on
        BY <2>3, <2>4, <2>6, <2>7, <3>1
      <4>2. \A x \in ByKey(k) : x = row
        BY <1>2, <2>2 DEF ByKey
      <4>3. ByKey(req[o].key)' = ByKey(k)
        BY <2>4, <2>5, <2>6, <3>1 DEF ByKey
      <4>4. QED
        BY <4>1, <4>2, <4>3
    <3>2. CASE o # r
      <4>1. req'[o] = req[o]
        BY <2>6, <3>2
      <4>2. crossed # {} \/ \A x \in ByKey(req[o].key) : x.on
        BY <2>7, <4>1 DEF StTokens
      <4>3. ByKey(req[o].key)' = ByKey(req[o].key)
        BY <2>5, <4>1 DEF ByKey
      <4>4. QED
        BY <2>5, <4>2, <4>3
    <3>3. QED
      BY <3>1, <3>2
  <2>8. StBase'
    BY <2>5, <2>6 DEF StBase
  <2>9. Alone'
    BY <1>2, <2>5
  <2>10. "revived" \in seen' => topic' = "token" /\ crossed' # {}
    BY <1>1, <2>5 DEF StTokens
  <2>11. QED
    BY <2>7, <2>8, <2>9, <2>10 DEF StTokens
<1>5. ASSUME NEW k \in StKeys, TokenDelete(k) PROVE StBase' /\ StTokens'
  <2>1. table' \subseteq table /\ UNCHANGED <<req, crossed, seen>>
    BY <1>5 DEF TokenDelete, DeleteRows, Unseen, StSeen
  <2>2. StBase'
    BY <1>1, <2>1 DEF StBase, StAbout
  <2>3. ASSUME NEW o \in Reqs, Renames(o)'
        PROVE  (crossed # {} \/ \A x \in ByKey(req[o].key) : x.on)'
    <3>1. crossed # {} \/ \A x \in ByKey(req[o].key) : x.on
      BY <2>1, <2>3 DEF StTokens
    <3>2. ByKey(req[o].key)' \subseteq ByKey(req[o].key)
      BY <2>1 DEF ByKey
    <3>3. QED
      BY <2>1, <3>1, <3>2
  <2>4. Alone'
    BY <1>2, <2>1
  <2>5. "revived" \in seen' => topic' = "token" /\ crossed' # {}
    BY <1>1, <2>1 DEF StTokens
  <2>6. QED
    BY <2>2, <2>3, <2>4, <2>5 DEF StTokens
<1>6. CASE TokenUpdate(r)
  <2>1. req[r] \in StReq /\ req[r].op = "token"
    BY <1>6 DEF StBase, TokenUpdate, At
  <2>2. PICK k \in StKeys, b \in BOOLEAN : k = req[r].key /\ b = req[r].on
    BY <2>1 DEF StReq
  <2>3. /\ table' = (table \ ByKey(k)) \cup {[row EXCEPT !.on = b] : row \in ByKey(k)}
        /\ Ends(r)
        /\ crossed' = IF TokenOverlap(r) THEN crossed \cup {<<Boss, k>>} ELSE crossed
    BY <1>6, <2>2 DEF TokenUpdate, UpdateRows
  <2>4. seen' = IF req[r].val = "other" /\ req[r].on /\ \E row \in ByKey(k) : ~row.on
                THEN seen \cup {"revived"} ELSE seen
    BY <1>6, <2>2 DEF TokenUpdate, See
  <2>5. ByKey(k) \subseteq table
    BY DEF ByKey
  <2>6. StRewritten(ByKey(k)) /\ \A x \in table' : x \in table \ ByKey(k) \/ (x.on <=> b)
    BY <2>3, <2>5, StSetOn
  <2>7. /\ req' \in [Reqs -> StReq] /\ \A o \in Reqs : StAbout(req[o].op)'
        /\ req'[r] = NoReq /\ \A o \in Reqs \ {r} : req'[o] = req[o]
    BY <1>1, <2>3, StEnds
  <2>8. StBase'
    BY <2>6, <2>7 DEF StBase, StRewritten
  <2>9. Alone'
    <3>1. ASSUME NEW x \in table', NEW y \in table', x.key = y.key PROVE x = y
      <4>1. CASE x.key = k
        <5>1. \A z \in table' : z.key = k => \E w \in ByKey(k) : z = [w EXCEPT !.on = b]
          BY <2>3 DEF ByKey
        <5>2. \A w1, w2 \in ByKey(k) : w1 = w2
          BY <1>2 DEF ByKey
        <5>3. QED
          BY <3>1, <4>1, <5>1, <5>2
      <4>2. CASE x.key # k
        <5>1. PICK x1 \in table : x.key = x1.key /\ (x1 \notin ByKey(k) => x = x1)
          BY <2>6, <3>1 DEF StRewritten
        <5>2. PICK y1 \in table : y.key = y1.key /\ (y1 \notin ByKey(k) => y = y1)
          BY <2>6, <3>1 DEF StRewritten
        <5>3. x = x1 /\ y = y1
          BY <3>1, <4>2, <5>1, <5>2 DEF ByKey
        <5>4. QED
          BY <1>2, <3>1, <5>3
      <4>3. QED
        BY <4>1, <4>2
    <3>2. QED
      BY <3>1
  <2>10. ASSUME NEW o \in Reqs, Renames(o)'
         PROVE  (crossed # {} \/ \A x \in ByKey(req[o].key) : x.on)'
    <3>1. o # r /\ req'[o] = req[o]
      BY <2>7, <2>10, StNoReq
    <3>2. CASE req[o].key = k
      <4>1. TokenOverlap(r)
        BY <2>2, <2>10, <3>1, <3>2 DEF TokenOverlap
      <4>2. QED
        BY <2>3, <4>1
    <3>3. CASE req[o].key # k
      <4>1. crossed # {} \/ \A x \in ByKey(req[o].key) : x.on
        BY <2>10, <3>1 DEF StTokens
      <4>2. crossed \subseteq crossed'
        BY <2>3
      <4>3. ASSUME NEW x \in table', x.key = req[o].key PROVE x \in ByKey(req[o].key)
        <5>1. PICK x1 \in table : x.key = x1.key /\ (x1 \notin ByKey(k) => x = x1)
          BY <2>6, <4>3 DEF StRewritten
        <5>2. QED
          BY <3>3, <4>3, <5>1 DEF ByKey
      <4>4. ByKey(req[o].key)' \subseteq ByKey(req[o].key)
        BY <3>1, <4>3 DEF ByKey
      <4>5. QED
        BY <4>1, <4>2, <4>4
    <3>4. QED
      BY <3>2, <3>3
  <2>11. "revived" \in seen' => topic' = "token" /\ crossed' # {}
    <3>1. crossed \subseteq crossed'
      BY <2>3
    <3>2. CASE "revived" \in seen
      BY <1>1, <3>1, <3>2 DEF StTokens
    <3>3. CASE "revived" \notin seen /\ "revived" \in seen'
      <4>1. Renames(r) /\ \E row \in ByKey(req[r].key) : ~row.on
        BY <2>1, <2>2, <2>4, <3>3
      <4>2. crossed # {}
        BY <4>1 DEF StTokens
      <4>3. QED
        BY <1>1, <3>1, <4>2
    <3>4. QED
      BY <3>2, <3>3
  <2>12. QED
    BY <1>1, <2>8, <2>9, <2>10, <2>11 DEF StTokens
<1>7. QED
  BY <1>1, <1>3, <1>4, <1>5, <1>6 DEF Tokens

\* Scripts: no two have the same reference, and who has that of a script a user
\* wrote is that script.
LEMMA StScriptStep ==
    ASSUME StBase, StScripts, topic = "script", Scripts
    PROVE  StBase' /\ StScripts' /\ topic' = topic /\ seen' \subseteq seen \cup {"trampled"}
<1>1. topic' = topic /\ req' = req /\ seen' \subseteq seen \cup {"trampled"}
  BY DEF Scripts, ScriptCreate, ScriptUpdate, ScriptDelete, seedDefaultCorrelationScript, ReloadFromDB,
         Unseen, StSeen, See
<1> DEFINE Alone == \A x, y \in table : Ref(x) = Ref(y) => x = y
<1>2. Alone /\ "trampled" \notin seen
  BY DEF StScripts, ScriptsKept
<1>3. ASSUME table' \subseteq StRows, Alone', "trampled" \notin seen' PROVE StBase' /\ StScripts'
  BY <1>1, <1>3 DEF StBase, StAbout, StScripts, ScriptsKept
<1>4. ASSUME NEW k \in Seeds, NEW on \in BOOLEAN, ScriptCreate(k, on) PROVE StBase' /\ StScripts'
  <2>1. Insert(k, Boss, "mine", on) /\ seen' = seen
    BY <1>4 DEF ScriptCreate, Unseen, StSeen
  <2>2. k \in StKeys /\ Boss \in Users /\ "mine" \in Contents
    BY SettingsAssumption DEF Seeds, StKeys, Contents
  <2>3. PICK row : StAdds(row, k, Boss, "mine")
    BY <2>1, <2>2, StInserted
  <2>4. Alone' /\ table' \subseteq StRows
    BY <1>2, <2>3 DEF StAdds, StBase
  <2>5. QED
    BY <1>2, <1>3, <2>1, <2>4
<1>5. ASSUME NEW row \in table, NEW on \in BOOLEAN, ScriptUpdate(row, on) PROVE StBase' /\ StScripts'
  <2> DEFINE new == [row EXCEPT !.val = "mine", !.on = on]
  <2>1. table' = (table \ {row}) \cup {new} /\ seen' = seen
    BY <1>5 DEF ScriptUpdate, UpdateRows, Unseen, StSeen
  <2>2. new \in StRows /\ Ref(new) = Ref(row)
    <3>1. row \in StRows /\ "mine" \in Contents
      BY DEF StBase, Contents
    <3>2. QED
      BY <3>1 DEF StRows, Ref
  <2> HIDE DEF new
  <2>3. Alone' /\ table' \subseteq StRows
    BY <1>2, <2>1, <2>2 DEF StBase
  <2>4. QED
    BY <1>2, <1>3, <2>1, <2>3
<1>6. ASSUME NEW row \in table, ScriptDelete(row) PROVE StBase' /\ StScripts'
  <2>1. table' \subseteq table /\ seen' = seen
    BY <1>6 DEF ScriptDelete, DeleteRows, Unseen, StSeen
  <2>2. Alone' /\ table' \subseteq StRows
    BY <1>2, <2>1 DEF StBase
  <2>3. QED
    BY <1>2, <1>3, <2>1, <2>2
<1>7. CASE seedDefaultCorrelationScript
  <2> DEFINE missing == {k \in Seeds : ByKey(k) = {}}
             up(row) == IF row.key \in Seeds /\ SeedUpgrades(row) THEN [row EXCEPT !.val = "seed"] ELSE row
             made(k) == NewRow(k, Boss, "seed", FALSE)
  <2>1. /\ table' = {up(row) : row \in table} \cup {made(k) : k \in missing}
        /\ \A r \in Reqs : req[r] = NoReq
    BY <1>7 DEF seedDefaultCorrelationScript, Free
  <2>2. seen' = IF \E old \in table, new \in table' : Ref(old) = Ref(new) /\ old.val = "mine" /\ new.val # "mine"
                THEN seen \cup {"trampled"} ELSE seen
    BY <1>7 DEF seedDefaultCorrelationScript, See
  <2>3. ASSUME NEW row \in table
        PROVE  up(row) \in StRows /\ Ref(up(row)) = Ref(row) /\ (row.val = "mine" => up(row) = row)
    <3>1. row \in StRows /\ "seed" \in Contents
      BY DEF StBase, Contents
    <3>2. CASE row.key \in Seeds /\ SeedUpgrades(row)
      <4>1. up(row) = [row EXCEPT !.val = "seed"] /\ row.val = "legacy"
        BY <3>2 DEF SeedUpgrades
      <4>2. QED
        BY <3>1, <4>1 DEF StRows, Ref
    <3>3. CASE ~(row.key \in Seeds /\ SeedUpgrades(row))
      BY <3>1, <3>3
    <3>4. QED
      BY <3>2, <3>3
  <2>4. ASSUME NEW k \in missing
        PROVE  made(k) \in StRows /\ made(k).key = k /\ \A x \in table : Ref(x) # Ref(made(k))
    <3>1. k \in StKeys /\ Boss \in Users /\ "seed" \in Contents
      BY SettingsAssumption DEF Seeds, StKeys, Contents
    <3>2. FreshIds(k, Boss) = 1..MaxTableRows
      <4>1. \A i : \A row \in table : Ref(row) # <<k, Boss, i>>
        BY DEF ByKey, Ref
      <4>2. \A i : \A r \in Reqs : <<k, Boss, i>> \notin req[r].row
        BY <2>1, StNoReq
      <4>3. QED
        BY <4>1, <4>2 DEF FreshIds
    <3>3. FreshIds(k, Boss) # {}
      <4>1. 1 \in 1..MaxTableRows
        BY SettingsAssumption
      <4>2. QED
        BY <3>2, <4>1
    <3>4. PICK i \in FreshIds(k, Boss) : made(k) = [id |-> i, key |-> k, owner |-> Boss, val |-> "seed", on |-> FALSE]
      <4>1. (CHOOSE j \in FreshIds(k, Boss) : TRUE) \in FreshIds(k, Boss)
        BY <3>3
      <4>2. QED
        BY <4>1 DEF NewRow, Row
    <3>5. made(k) \in StRows /\ made(k).key = k /\ Ref(made(k)) = <<k, Boss, i>>
      <4> DEFINE row == [id |-> i, key |-> k, owner |-> Boss, val |-> "seed", on |-> FALSE]
      <4>1. i \in 1..MaxTableRows
        BY <3>2
      <4>2. row \in StRows /\ row.key = k /\ Ref(row) = <<k, Boss, i>>
        BY <3>1, <4>1 DEF StRows, Ref
      <4> HIDE DEF row
      <4>3. made(k) = row
        BY <3>4 DEF row
      <4>4. QED
        BY <4>2, <4>3
    <3>6. \A x \in table : Ref(x) # <<k, Boss, i>>
      BY <3>4 DEF FreshIds
    <3>7. QED
      BY <3>5, <3>6
  <2>5. \A k, l \in missing : Ref(made(k)) = Ref(made(l)) => k = l
    BY <2>4 DEF Ref
  <2> HIDE DEF up, made, missing
  <2>6. table' \subseteq StRows
    BY <2>1, <2>3, <2>4
  <2>7. Alone'
    <3>1. ASSUME NEW x \in table', NEW y \in table', Ref(x) = Ref(y) PROVE x = y
      <4>1. (\E a \in table : x = up(a)) \/ (\E k \in missing : x = made(k))
        BY <2>1
      <4>2. (\E a \in table : y = up(a)) \/ (\E k \in missing : y = made(k))
        BY <2>1
      <4>3. QED
        BY <1>2, <2>3, <2>4, <2>5, <3>1, <4>1, <4>2
    <3>2. QED
      BY <3>1
  <2>8. ASSUME NEW old \in table, NEW new \in table', Ref(old) = Ref(new), old.val = "mine"
        PROVE  new.val = "mine"
    <3>1. PICK a \in table : new = up(a)
      BY <2>1, <2>4, <2>8
    <3>2. a = old
      BY <1>2, <2>3, <2>8, <3>1
    <3>3. QED
      BY <2>3, <2>8, <3>1, <3>2
  <2>9. "trampled" \notin seen'
    BY <1>2, <2>2, <2>8
  <2>10. QED
    BY <1>1, <1>3, <2>6, <2>7, <2>9
<1>8. CASE ReloadFromDB
  <2>1. UNCHANGED <<table, seen>>
    BY <1>8 DEF ReloadFromDB, StSeen
  <2>2. QED
    BY <1>1, <1>2, <1>3, <2>1 DEF StBase
<1>9. QED
  BY <1>1, <1>4, <1>5, <1>6, <1>7, <1>8 DEF Scripts

LEMMA StDefaultsKept ==
    ASSUME NEW v, StDefaults(v),
           \A x \in table : x.owner = v => \E y \in table' : y.key = x.key /\ y.owner = v,
           \A y \in table' : y.owner = v => \E x \in table : x.key = y.key /\ x.owner = v,
           v \in served' => v \in served,
           \A o \in Reqs : \/ req'[o] = req[o]
                           \/ /\ Resetting(o) => req[o].user # v
                              /\ Resetting(o)' => req'[o].user # v
    PROVE  StDefaults(v)'
<1>1. \A k : OwnKey(v, k)' # {} <=> OwnKey(v, k) # {}
  BY DEF OwnKey, ByKey
<1>2. ASSUME NEW o \in Reqs,
                (Resetting(o) /\ req[o].user = v) \/ (Resetting(o)' /\ req'[o].user = v)
      PROVE  req'[o] = req[o] /\ Resetting(o) /\ Resetting(o)'
  BY <1>2 DEF Resetting
<1>3. StSettled(v)' => StSettled(v)
  BY <1>2 DEF StSettled
<1>4. \A k : StSeeds(v, k) => StSeeds(v, k)'
  BY <1>2 DEF StSeeds
<1>5. QED
  BY <1>1, <1>3, <1>4 DEF StDefaults

\* A step that no reset takes, and that neither takes a user's last row of a key nor
\* gives him a first one.
LEMMA StDashboardsKept ==
    ASSUME StDashboards, topic = "dashboard", topic' = topic, served' = served,
           \A o \in Reqs : req'[o] = req[o] \/ ~(Resetting(o) \/ Resetting(o)'),
           \A x \in table : \E y \in table' : y.key = x.key /\ y.owner = x.owner,
           \A y \in table' : \E x \in table : x.key = y.key /\ x.owner = y.owner
    PROVE  StDashboards'
<1>1. ASSUME NEW u \in Users PROVE StDefaults(u)'
  <2>1. StDefaults(u)
    BY DEF StDashboards
  <2>2. /\ \A x \in table : x.owner = u => \E y \in table' : y.key = x.key /\ y.owner = u
        /\ \A y \in table' : y.owner = u => \E x \in table : x.key = y.key /\ x.owner = u
    OBVIOUS
  <2>3. QED
    BY <2>1, <2>2, StDefaultsKept
<1>2. StResets' /\ served' \subseteq Users
  BY DEF StDashboards, StResets, Resetting
<1>3. QED
  BY <1>1, <1>2 DEF StDashboards

\* A step that is about one user's rows and one of his requests.
LEMMA StDashboardsOf ==
    ASSUME StDashboards, topic = "dashboard", topic' = topic, NEW r \in Reqs, NEW u \in Users,
           \A o \in Reqs \ {r} : req'[o] = req[o],
           Resetting(r) => req[r].user = u,
           Resetting(r)' => /\ req'[r].user = u /\ req'[r].key \in Seeds
                            /\ req'[r].at = "delete" => req'[r].key = 1,
           served' \subseteq served \cup {u},
           \A x \in table : x.owner # u => x \in table',
           \A x \in table' : x.owner # u => x \in table,
           StDefaults(u)'
    PROVE  StDashboards'
<1>1. ASSUME NEW v \in Users, v # u PROVE StDefaults(v)'
  <2>1. StDefaults(v)
    BY DEF StDashboards
  <2>2. /\ \A x \in table : x.owner = v => \E y \in table' : y.key = x.key /\ y.owner = v
        /\ \A y \in table' : y.owner = v => \E x \in table : x.key = y.key /\ x.owner = v
        /\ v \in served' => v \in served
    BY <1>1
  <2>3. \A o \in Reqs : \/ req'[o] = req[o]
                        \/ /\ Resetting(o) => req[o].user # v
                           /\ Resetting(o)' => req'[o].user # v
    BY <1>1
  <2>4. QED
    BY <2>1, <2>2, <2>3, StDefaultsKept
<1>2. StResets'
  <2>1. ASSUME NEW o \in Reqs, Resetting(o)'
        PROVE  req'[o].key \in Seeds /\ (req'[o].at = "delete" => req'[o].key = 1)
    <3>1. CASE o = r
      BY <2>1, <3>1
    <3>2. CASE o # r
      BY <2>1, <3>2 DEF StDashboards, StResets, Resetting
    <3>3. QED
      BY <3>1, <3>2
  <2>2. QED
    BY <2>1 DEF StResets
<1>3. served' \subseteq Users
  BY DEF StDashboards
<1>4. StDefaults(u)'
  OBVIOUS
<1>5. QED
  BY <1>1, <1>2, <1>3, <1>4 DEF StDashboards

LEMMA StDashboardsDisturbed ==
    ASSUME StBase, StDashboards, topic = "dashboard", topic' = topic, NEW r \in Reqs, NEW u \in Users,
           Disturb(u, r), Resetting(r) => req[r].user = u,
           \A x \in table : x.owner # u => x \in table',
           \A x \in table' : x.owner # u => x \in table
    PROVE  StDashboards'
<1>1. /\ served' = served \ {u} /\ req'[r] = NoReq
      /\ \A o \in Reqs \ {r} :
                 IF Resetting(o) /\ req[o].user = u
                 THEN req'[o] = [req[o] EXCEPT !.on = TRUE] /\ req'[o].on
                 ELSE req'[o] = req[o]
  BY StDisturbed
<1>2. ~Resetting(r)'
  BY <1>1, StNoReq DEF Resetting
<1>3. ASSUME NEW o \in Reqs, o # r, Resetting(o), req[o].user = u
      PROVE  /\ Resetting(o)' /\ req'[o].user = u /\ req'[o].key = req[o].key /\ req'[o].at = req[o].at
             /\ req'[o].on
  <2>1. req'[o] = [req[o] EXCEPT !.on = TRUE] /\ req'[o].on /\ req[o] \in StReq
    BY <1>1, <1>3 DEF StBase
  <2>2. QED
    BY <1>3, <2>1 DEF StReq, Resetting
<1>4. ASSUME NEW o \in Reqs, o # r, ~(Resetting(o) /\ req[o].user = u) PROVE req'[o] = req[o]
  BY <1>1, <1>4
<1>5. ASSUME NEW v \in Users, v # u PROVE StDefaults(v)'
  <2>1. StDefaults(v)
    BY DEF StDashboards
  <2>2. /\ \A x \in table : x.owner = v => \E y \in table' : y.key = x.key /\ y.owner = v
        /\ \A y \in table' : y.owner = v => \E x \in table : x.key = y.key /\ x.owner = v
        /\ v \in served' => v \in served
    BY <1>1, <1>5
  <2>3. \A o \in Reqs : \/ req'[o] = req[o]
                        \/ /\ Resetting(o) => req[o].user # v
                           /\ Resetting(o)' => req'[o].user # v
    BY <1>2, <1>3, <1>4, <1>5
  <2>4. QED
    BY <2>1, <2>2, <2>3, StDefaultsKept
<1>6. StDefaults(u)'
  <2>1. \A o \in Reqs : Resetting(o)' /\ req'[o].user = u => req'[o].on
    BY <1>2, <1>3, <1>4 DEF Resetting
  <2>2. ~StSettled(u)'
    BY <1>1, <2>1 DEF StSettled
  <2>3. QED
    BY <2>2 DEF StDefaults
<1>7. StResets'
  <2>1. ASSUME NEW o \in Reqs, Resetting(o)'
        PROVE  req'[o].key \in Seeds /\ (req'[o].at = "delete" => req'[o].key = 1)
    <3>1. o # r
      BY <1>2, <2>1
    <3>2. Resetting(o) /\ req'[o].key = req[o].key /\ req'[o].at = req[o].at
      BY <1>3, <1>4, <2>1, <3>1 DEF Resetting
    <3>3. QED
      BY <3>2 DEF StDashboards, StResets
  <2>2. QED
    BY <2>1 DEF StResets
<1>8. served' \subseteq Users
  BY <1>1 DEF StDashboards
<1>9. QED
  BY <1>5, <1>6, <1>7, <1>8 DEF StDashboards

LEMMA StWritersKept ==
    ASSUME StWriters, seen' = seen, \A o \in Reqs : req'[o] = req[o] \/ ~At(o, "update", "write")'
    PROVE  StWriters'
  BY DEF StWriters, DashboardsOwn, At

\* A reset's steps keep what is said of the defaults of its user.
LEMMA StResetSteps ==
    ASSUME StBase, StDashboards, topic = "dashboard", topic' = topic, NEW r \in Reqs, NEW u \in Users,
           req[r].op = "reset", req[r].user = u, ResetDelete(r) \/ ResetCheck(r) \/ ResetInsert(r)
    PROVE  /\ StDefaults(u)' /\ served' \subseteq served \cup {u} /\ table' \subseteq StRows
           /\ \A x \in table : x.owner # u => x \in table'
           /\ \A x \in table' : x.owner # u => x \in table
           /\ \E q \in StReq : /\ req' = [req EXCEPT ![r] = q] /\ q.op \in {"none", "reset"}
                               /\ q.op = "reset" => q.user = u /\ q.key \in Seeds /\ q.at # "delete"
<1>1. Resetting(r) /\ req[r] \in StReq /\ req[r].key \in Seeds /\ (req[r].at = "delete" => req[r].key = 1)
  BY DEF Resetting, StBase, StDashboards, StResets
<1>2. StDefaults(u) /\ Seeds = {1, 2} /\ StKeys = {1, 2, 3} /\ "mine" \in Contents
  BY DEF StDashboards, Seeds, StKeys, Contents
\* How the step of the request bears on the user's requests.
<1>3. ASSUME NEW q \in StReq, req' = [req EXCEPT ![r] = q]
      PROVE  req'[r] = q /\ \A o \in Reqs \ {r} : req'[o] = req[o] /\ (Resetting(o)' <=> Resetting(o))
  BY <1>3 DEF StBase, Resetting
<1>4. ASSUME NEW at \in {"check", "insert"}, NEW k \in Seeds
      PROVE  LET q == [req[r] EXCEPT !.at = at, !.key = k]
             IN q \in StReq /\ q.op = "reset" /\ q.user = u /\ q.key = k /\ q.at = at /\ (q.on <=> req[r].on)
  BY <1>1, <1>2 DEF StReq, StSteps
<1>5. CASE ResetDelete(r)
  <2> DEFINE q == [req[r] EXCEPT !.at = "check", !.key = 1]
  <2>1. /\ table' = table \ {row \in table : row.owner = u} /\ served' = served
        /\ req' = [req EXCEPT ![r].at = "check"] /\ req[r].at = "delete"
    BY <1>5 DEF ResetDelete, DeleteRows, GoesTo, At, StSeen
  <2>2. q \in StReq /\ q.op = "reset" /\ q.user = u /\ q.key = 1 /\ q.at = "check"
    BY <1>2, <1>4
  <2>3. req' = [req EXCEPT ![r] = q]
    <3>1. [req[r] EXCEPT !.at = "check"] = q
      BY <1>1, <2>1 DEF StReq
    <3>2. req' = [req EXCEPT ![r] = [req[r] EXCEPT !.at = "check"]]
      BY <2>1 DEF StBase
    <3>3. QED
      BY <3>1, <3>2
  <2> HIDE DEF q
  <2>4. req'[r] = q
    BY <1>3, <2>2, <2>3
  <2>5. StSeeds(u, 1)'
    BY <2>2, <2>4 DEF StSeeds, Resetting
  <2>6. OwnKey(u, 1)' = {}
    BY <2>1 DEF OwnKey, ByKey
  <2>7. StDefaults(u)'
    BY <2>5, <2>6 DEF StDefaults
  <2>8. table' \subseteq StRows
    BY <2>1 DEF StBase
  <2>9. QED
    BY <1>2, <2>1, <2>2, <2>3, <2>7, <2>8
<1>6. CASE ResetCheck(r)
  <2>1. table' = table /\ served' = served /\ req[r].at = "check"
    BY <1>6 DEF ResetCheck, At, StSeen
  <2>2. \A k : OwnKey(u, k)' = OwnKey(u, k)
    BY <2>1 DEF OwnKey, ByKey
  <2>3. CASE OwnKey(u, req[r].key) = {}
    <3> DEFINE q == [req[r] EXCEPT !.at = "insert", !.key = req[r].key]
    <3>1. q \in StReq /\ q.op = "reset" /\ q.user = u /\ q.key = req[r].key /\ q.at = "insert"
          /\ (q.on <=> req[r].on)
      BY <1>1, <1>4
    <3>2. req' = [req EXCEPT ![r] = q]
      <4>1. [req[r] EXCEPT !.at = "insert"] = q
        BY <1>1 DEF StReq
      <4>2. req' = [req EXCEPT ![r] = [req[r] EXCEPT !.at = "insert"]]
        BY <1>6, <2>3 DEF ResetCheck, GoesTo, StBase
      <4>3. QED
        BY <4>1, <4>2
    <3> HIDE DEF q
    <3>3. req'[r] = q /\ \A o \in Reqs \ {r} : req'[o] = req[o] /\ (Resetting(o)' <=> Resetting(o))
      BY <1>3, <3>1, <3>2
    <3>4. Resetting(r)' /\ req'[r].user = u /\ req'[r].key = req[r].key
          /\ (req'[r].on <=> req[r].on)
      BY <3>1, <3>3 DEF Resetting
    <3>5. StSettled(u)' => StSettled(u)
      BY <1>1, <2>1, <3>3, <3>4 DEF StSettled
    <3>6. \A k : StSeeds(u, k) => StSeeds(u, k)'
      BY <2>1, <3>3, <3>4 DEF StSeeds
    <3>7. StDefaults(u)'
      BY <1>2, <2>2, <3>5, <3>6 DEF StDefaults
    <3>8. q.at # "delete" /\ table' \subseteq StRows
      BY <2>1, <3>1 DEF StBase
    <3>9. QED
      BY <1>1, <2>1, <3>1, <3>2, <3>7, <3>8
  <2>4. CASE OwnKey(u, req[r].key) # {}
    <3>1. req' = [req EXCEPT ![r] = NoReq]
      BY <1>6, <2>4 DEF ResetCheck, Ends
    <3>2. req'[r] = NoReq /\ \A o \in Reqs \ {r} : req'[o] = req[o] /\ (Resetting(o)' <=> Resetting(o))
      BY <1>3, <3>1, StNoReq
    <3>3. StSettled(u)' => StSettled(u)
      BY <2>1, <3>2, StNoReq DEF StSettled, Resetting
    <3>4. \A k : StSeeds(u, k) /\ k # req[r].key => StSeeds(u, k)'
      BY <2>1, <3>2 DEF StSeeds
    <3>5. StDefaults(u)'
      BY <1>1, <1>2, <2>2, <2>4, <3>3, <3>4 DEF StDefaults
    <3>6. table' \subseteq StRows
      BY <2>1 DEF StBase
    <3>7. QED
      BY <2>1, <3>1, <3>5, <3>6, StNoReq
  <2>5. QED
    BY <2>3, <2>4
<1>7. CASE ResetInsert(r)
  <2>1. PICK k \in Seeds : k = req[r].key
    BY <1>1
  <2>2. Insert(k, u, "mine", FALSE) /\ req[r].at = "insert" /\ k \in StKeys
    BY <1>2, <1>7, <2>1 DEF ResetInsert, At
  <2>3. PICK row : StAdds(row, k, u, "mine")
    BY <1>2, <2>2, StInsertedOff
  <2>4. /\ table' \subseteq StRows
        /\ \A x \in table : x.owner # u => x \in table'
        /\ \A x \in table' : x.owner # u => x \in table
    BY <2>3 DEF StAdds, StBase
  <2>5. (\A j : OwnKey(u, j) \subseteq OwnKey(u, j)') /\ OwnKey(u, k)' # {}
    BY <2>3 DEF StAdds, OwnKey, ByKey
  <2>6. CASE k = 1
    <3> DEFINE q == [req[r] EXCEPT !.at = "check", !.key = 2]
    <3>1. q \in StReq /\ q.op = "reset" /\ q.user = u /\ q.key = 2 /\ q.at = "check"
      BY <1>2, <1>4
    <3>2. req' = [req EXCEPT ![r] = q] /\ served' = served
      <4>1. req[r].key + 1 \in Seeds /\ req[r].key + 1 = 2
        BY <1>2, <2>1, <2>6
      <4>2. req' = [req EXCEPT ![r].at = "check", ![r].key = 2] /\ served' = served
        BY <1>7, <4>1 DEF ResetInsert, StBase
      <4>3. QED
        BY <4>2 DEF StBase
    <3> HIDE DEF q
    <3>3. req'[r] = q
      BY <1>3, <3>1, <3>2
    <3>4. StSeeds(u, 2)'
      BY <3>1, <3>3 DEF StSeeds, Resetting
    <3>5. StDefaults(u)'
      BY <2>5, <2>6, <3>4 DEF StDefaults
    <3>6. q.at # "delete" /\ q.key \in Seeds /\ served' \subseteq served \cup {u}
      BY <1>2, <3>1, <3>2
    <3>7. QED
      BY <2>4, <3>1, <3>2, <3>5, <3>6
  <2>7. CASE k = 2
    <3>1. req' = [req EXCEPT ![r] = NoReq] /\ served' = IF req[r].on THEN served ELSE served \cup {u}
      <4>1. req[r].key + 1 \notin Seeds
        BY <1>2, <2>1, <2>7
      <4>2. QED
        BY <1>7, <4>1 DEF ResetInsert, Serves, Ends
    <3>2. req'[r] = NoReq /\ \A o \in Reqs \ {r} : req'[o] = req[o] /\ (Resetting(o)' <=> Resetting(o))
      BY <1>3, <3>1, StNoReq
    <3>3. StSettled(u)' => StSettled(u)
      BY <1>1, <3>1, <3>2, StNoReq DEF StSettled, Resetting
    <3>4. StSeeds(u, 1) => StSeeds(u, 1)'
      <4>1. req[r].key # 1 /\ req[r].at # "delete"
        BY <2>1, <2>2, <2>7
      <4>2. QED
        BY <3>2, <4>1 DEF StSeeds
    <3>5. OwnKey(u, 1) # {} => OwnKey(u, 1)' # {}
      BY <2>5
    <3>6. StDefaults(u)'
      BY <1>2, <2>5, <2>7, <3>3, <3>4, <3>5 DEF StDefaults
    <3>7. served' \subseteq served \cup {u}
      BY <3>1
    <3>8. QED
      BY <2>4, <3>1, <3>6, <3>7, StNoReq
  <2>8. QED
    BY <1>2, <2>6, <2>7
<1>8. QED
  BY <1>5, <1>6, <1>7

\* The steps that begin or end no seeding.
LEMMA StEditStep ==
    ASSUME StBase, StDashboards, StWriters, topic = "dashboard", NEW r \in Reqs,
           \/ \E u \in Users, k \in Seeds : V4DashboardsCreate(r, u, k) \/ V4DashboardsUpdate(r, u, k)
           \/ UpdateDashboardCheck(r)
           \/ \E on \in BOOLEAN : UpdateDashboard(r, on)
    PROVE  StBase' /\ StDashboards' /\ StWriters' /\ topic' = topic /\ seen' \subseteq seen \cup {"misused"}
<1>1. topic' = topic /\ served' = served /\ seen' \subseteq seen \cup {"misused"}
  BY DEF V4DashboardsCreate, V4DashboardsUpdate, UpdateDashboardCheck, UpdateDashboard, StSeen, See
<1>2. ASSUME NEW q \in StReq, q.op \in {"none", "create", "update"}, q.op = "update" => q.at = "loaded",
             req' = [req EXCEPT ![r] = q], ~Resetting(r), UNCHANGED <<table, seen>>
      PROVE  StBase' /\ StDashboards' /\ StWriters'
  <2>1. StAbout(q.op)
    BY <1>2 DEF StAbout
  <2>2. /\ req' \in [Reqs -> StReq] /\ \A o \in Reqs : StAbout(req[o].op)'
        /\ req'[r] = q /\ \A o \in Reqs \ {r} : req'[o] = req[o]
    BY <1>1, <1>2, <2>1, StPut
  <2>3. StBase'
    BY <1>2, <2>2 DEF StBase
  <2>4. ~Resetting(r)' /\ ~At(r, "update", "write")'
    BY <1>2, <2>2 DEF Resetting, At
  <2>5. StDashboards'
    BY <1>1, <1>2, <2>2, <2>4, StDashboardsKept
  <2>6. StWriters'
    BY <1>2, <2>2, <2>4, StWritersKept
  <2>7. QED
    BY <2>3, <2>5, <2>6
<1>3. ASSUME NEW u \in Users, NEW k \in Seeds, V4DashboardsCreate(r, u, k)
      PROVE  StBase' /\ StDashboards' /\ StWriters'
  <2> DEFINE q == [NoReq EXCEPT !.op = "create", !.at = "insert", !.user = u, !.key = k]
  <2>1. k \in StKeys
    BY DEF Seeds, StKeys
  <2>2. q \in StReq /\ q.op = "create"
    BY <2>1, StNoReq DEF StReq, StOps, StSteps
  <2>3. req' = [req EXCEPT ![r] = q] /\ req[r] = NoReq /\ UNCHANGED <<table, seen>>
    BY <1>3 DEF V4DashboardsCreate, Begin, Free, StSeen
  <2> HIDE DEF q
  <2>4. ~Resetting(r)
    BY <2>3, StNoReq DEF Resetting
  <2>5. QED
    BY <1>2, <2>2, <2>3, <2>4
<1>4. ASSUME NEW u \in Users, NEW k \in Seeds, V4DashboardsUpdate(r, u, k)
      PROVE  StBase' /\ StDashboards' /\ StWriters'
  <2> DEFINE q == [NoReq EXCEPT !.op = "update", !.at = "loaded", !.user = u, !.key = k]
  <2>1. k \in StKeys
    BY DEF Seeds, StKeys
  <2>2. q \in StReq /\ q.op = "update" /\ q.at = "loaded"
    BY <2>1, StNoReq DEF StReq, StOps, StSteps
  <2>3. req' = [req EXCEPT ![r] = q] /\ req[r] = NoReq /\ UNCHANGED <<table, seen>>
    BY <1>4 DEF V4DashboardsUpdate, Begin, Free, StSeen
  <2> HIDE DEF q
  <2>4. ~Resetting(r)
    BY <2>3, StNoReq DEF Resetting
  <2>5. QED
    BY <1>2, <2>2, <2>3, <2>4
<1>5. CASE UpdateDashboardCheck(r)
  <2>1. UNCHANGED <<table, seen>> /\ At(r, "update", "loaded")
    BY <1>5 DEF UpdateDashboardCheck, StSeen
  <2>2. ~Resetting(r)
    BY <2>1 DEF At, Resetting
  <2>3. CASE Ends(r)
    BY <1>1, <1>2, <2>1, <2>2, <2>3, StNoReq DEF Ends
  <2>4. CASE ~Ends(r)
    <3>1. PICK row \in GetDashboard(req[r].user, req[r].key) :
             /\ canWriteDashboard(row, req[r].user)
             /\ req' = [req EXCEPT ![r] = [NoReq EXCEPT !.op = "update", !.at = "write",
                                                        !.user = req[r].user, !.row = {Ref(row)}]]
      BY <1>5, <2>4 DEF UpdateDashboardCheck, Begin
    <3> DEFINE q == [NoReq EXCEPT !.op = "update", !.at = "write", !.user = req[r].user, !.row = {Ref(row)}]
    <3>2. row \in StRows /\ req[r].user \in Users
      BY DEF GetDashboard, OwnKey, ByKey, StBase, StReq
    <3>3. Ref(row) \in RowRefs
      BY <3>2 DEF Ref, RowRefs, StRows
    <3>4. q \in StReq /\ q.op = "update" /\ q.at = "write" /\ q.user = req[r].user /\ q.row = {Ref(row)}
      BY <3>2, <3>3, StNoReq DEF StReq, StOps, StSteps
    <3> HIDE DEF q
    <3>5. req' = [req EXCEPT ![r] = q]
      BY <3>1 DEF q
    <3>6. StAbout(q.op)
      BY <3>4 DEF StAbout
    <3>7. /\ req' \in [Reqs -> StReq] /\ \A o \in Reqs : StAbout(req[o].op)'
          /\ req'[r] = q /\ \A o \in Reqs \ {r} : req'[o] = req[o]
      BY <1>1, <3>4, <3>5, <3>6, StPut
    <3>8. StBase'
      BY <2>1, <3>7 DEF StBase
    <3>9. ~Resetting(r)'
      BY <3>4, <3>7 DEF Resetting
    <3>10. StDashboards'
      BY <1>1, <2>1, <2>2, <3>7, <3>9, StDashboardsKept
    <3>11. q.user \in {Ref(row)[2], Boss}
      BY <3>1, <3>4 DEF canWriteDashboard, Ref
    <3>12. StWriters'
      BY <2>1, <3>4, <3>7, <3>11 DEF StWriters, DashboardsOwn, At
    <3>13. QED
      BY <1>1, <3>8, <3>10, <3>12
  <2>5. QED
    BY SMTT(30), <2>3, <2>4
<1>6. ASSUME NEW on \in BOOLEAN, UpdateDashboard(r, on) PROVE StBase' /\ StDashboards' /\ StWriters'
  <2>1. /\ table' = (table \ Written(r)) \cup {[row EXCEPT !.on = on] : row \in Written(r)}
        /\ Ends(r) /\ At(r, "update", "write")
        /\ seen' = IF \E row \in Written(r) : req[r].user \notin {row.owner, Boss}
                   THEN seen \cup {"misused"} ELSE seen
    BY <1>6 DEF UpdateDashboard, UpdateRows, See
  <2>2. Written(r) \subseteq table
    BY DEF Written
  <2>3. StRewritten(Written(r))
    BY <2>1, <2>2, StSetOn
  <2>4. /\ req' \in [Reqs -> StReq] /\ \A o \in Reqs : StAbout(req[o].op)'
        /\ req'[r] = NoReq /\ \A o \in Reqs \ {r} : req'[o] = req[o]
    BY <1>1, <2>1, StEnds
  <2>5. ~Resetting(r) /\ ~Resetting(r)' /\ ~At(r, "update", "write")'
    BY <2>1, <2>4, StNoReq DEF Resetting, At
  <2>6. /\ \A x \in table : \E y \in table' : y.key = x.key /\ y.owner = x.owner
        /\ \A y \in table' : \E x \in table : x.key = y.key /\ x.owner = y.owner
    BY <2>3 DEF StRewritten
  <2>7. StDashboards'
    BY <1>1, <2>4, <2>5, <2>6, StDashboardsKept
  <2>8. ASSUME NEW row \in Written(r) PROVE req[r].user \in {row.owner, Boss}
    <3>1. Ref(row) \in req[r].row /\ Ref(row)[2] = row.owner
      BY DEF Written, Ref
    <3>2. QED
      BY <2>1, <3>1 DEF StWriters
  <2>9. seen' = seen
    BY <2>1, <2>8
  <2>10. StWriters'
    BY <2>4, <2>5, <2>9, StWritersKept
  <2>11. StBase'
    BY <2>3, <2>4 DEF StBase, StRewritten
  <2>12. QED
    BY <2>7, <2>10, <2>11
<1>7. QED
  BY SMTT(30), <1>1, <1>3, <1>4, <1>5, <1>6

\* The steps that give and take defaults.
LEMMA StSeedingStep ==
    ASSUME StBase, StDashboards, StWriters, topic = "dashboard", NEW r \in Reqs,
           \/ \E u \in Users : V4DashboardsList(r, u)
           \/ V4DashboardsReset(r) \/ ResetDelete(r) \/ ResetCheck(r) \/ ResetInsert(r)
           \/ \E on \in BOOLEAN : CreateDashboard(r, on)
           \/ \E u \in Users, k \in Seeds : V4DashboardsDelete(r, u, k)
           \/ Curtail(r)
    PROVE  StBase' /\ StDashboards' /\ StWriters' /\ UNCHANGED <<topic, seen>>
<1>1. UNCHANGED <<topic, seen>>
  BY DEF V4DashboardsList, V4DashboardsReset, ResetDelete, ResetCheck, ResetInsert, CreateDashboard,
         V4DashboardsDelete, Curtail, StSeen
<1>2. "mine" \in Contents /\ Boss \in Users /\ Seeds \subseteq StKeys
  BY SettingsAssumption DEF Contents, Seeds, StKeys
<1>3. req[r] \in StReq /\ req[r].user \in Users /\ req[r].key \in StKeys /\ StAbout(req[r].op)
  BY DEF StBase, StReq
\* A disturbance.
<1>4. ASSUME NEW u \in Users, Disturb(u, r), Resetting(r) => req[r].user = u, table' \subseteq StRows,
             \A x \in table : x.owner # u => x \in table',
             \A x \in table' : x.owner # u => x \in table
      PROVE  StBase' /\ StDashboards' /\ StWriters'
  <2>1. /\ req' \in [Reqs -> StReq] /\ \A o \in Reqs : StAbout(req[o].op)'
        /\ req'[r] = NoReq
        /\ \A o \in Reqs \ {r} :
                 IF Resetting(o) /\ req[o].user = u
                 THEN req'[o] = [req[o] EXCEPT !.on = TRUE] /\ req'[o].on
                 ELSE req'[o] = req[o]
    BY <1>1, <1>4, StDisturbed
  <2>2. StBase'
    BY <1>4, <2>1 DEF StBase
  <2>3. StDashboards'
    BY <1>1, <1>4, StDashboardsDisturbed
  <2>4. ASSUME NEW o \in Reqs PROVE req'[o] = req[o] \/ ~At(o, "update", "write")'
    <3>1. CASE o # r /\ Resetting(o) /\ req[o].user = u
      <4>1. req'[o] = [req[o] EXCEPT !.on = TRUE] /\ req[o] \in StReq
        BY <2>1, <3>1 DEF StBase
      <4>2. req'[o].op = req[o].op
        BY <4>1 DEF StReq
      <4>3. QED
        BY <3>1, <4>2 DEF At, Resetting
    <3>2. CASE o = r
      BY <2>1, <3>2, StNoReq DEF At
    <3>3. CASE o # r /\ ~(Resetting(o) /\ req[o].user = u)
      BY <2>1, <3>3
    <3>4. QED
      BY <3>1, <3>2, <3>3
  <2>5. StWriters'
    BY <1>1, <2>4, StWritersKept
  <2>6. QED
    BY <2>2, <2>3, <2>5
\* A step of one request.
<1>5. ASSUME NEW q \in StReq, q.op \in {"none", "reset"}, req' = [req EXCEPT ![r] = q],
             NEW u \in Users, Resetting(r) => req[r].user = u,
             q.op = "reset" => q.user = u /\ q.key \in Seeds /\ (q.at = "delete" => q.key = 1),
             served' \subseteq served \cup {u}, table' \subseteq StRows,
             \A x \in table : x.owner # u => x \in table',
             \A x \in table' : x.owner # u => x \in table,
             StDefaults(u)'
      PROVE  StBase' /\ StDashboards' /\ StWriters'
  <2>1. StAbout(q.op)
    BY <1>5 DEF StAbout
  <2>2. /\ req' \in [Reqs -> StReq] /\ \A o \in Reqs : StAbout(req[o].op)'
        /\ req'[r] = q /\ \A o \in Reqs \ {r} : req'[o] = req[o]
    BY <1>1, <1>5, <2>1, StPut
  <2>3. Resetting(r)' => /\ req'[r].user = u /\ req'[r].key \in Seeds
                         /\ req'[r].at = "delete" => req'[r].key = 1
    BY <1>5, <2>2 DEF Resetting
  <2>4. StBase'
    BY <1>5, <2>2 DEF StBase
  <2>5. StDashboards'
    BY <1>1, <1>5, <2>2, <2>3, StDashboardsOf
  <2>6. ~At(r, "update", "write")'
    BY <1>5, <2>2 DEF At
  <2>7. StWriters'
    BY <1>1, <2>2, <2>6, StWritersKept
  <2>8. QED
    BY <2>4, <2>5, <2>7
<1>6. ASSUME NEW u \in Users,
             req' = [req EXCEPT ![r] = [NoReq EXCEPT !.op = "reset", !.at = "delete", !.user = u]],
             Free(r), UNCHANGED <<table, served>>
      PROVE  StBase' /\ StDashboards' /\ StWriters'
  <2> DEFINE q == [NoReq EXCEPT !.op = "reset", !.at = "delete", !.user = u]
  <2>1. q \in StReq /\ q.op = "reset" /\ q.at = "delete" /\ q.user = u /\ q.key = 1
    BY StNoReq DEF StReq, StOps, StSteps, NoReq
  <2>2. req' = [req EXCEPT ![r] = q] /\ req[r] = NoReq
    BY <1>6 DEF Free
  <2> HIDE DEF q
  <2>3. ~Resetting(r)
    BY <2>2, StNoReq DEF Resetting
  <2>4. req'[r] = q
    BY <2>2 DEF StBase
  <2>5. \A k : StSeeds(u, k)'
    BY <2>1, <2>4 DEF StSeeds, Resetting
  <2>6. StDefaults(u)'
    BY <2>5 DEF StDefaults
  <2>7. /\ table' \subseteq StRows /\ served' \subseteq served \cup {u} /\ 1 \in Seeds
        /\ \A x \in table : x.owner # u => x \in table'
        /\ \A x \in table' : x.owner # u => x \in table
    BY <1>6 DEF StBase, Seeds
  <2>8. QED
    BY <1>5, <2>1, <2>2, <2>3, <2>6, <2>7
<1>7. ASSUME V4DashboardsReset(r) \/ \E u \in Users : V4DashboardsList(r, u)
      PROVE  StBase' /\ StDashboards' /\ StWriters'
  <2>1. PICK u \in Users : /\ req' = [req EXCEPT ![r] = [NoReq EXCEPT !.op = "reset", !.at = "delete", !.user = u]]
                           /\ Free(r) /\ UNCHANGED <<table, served>>
    BY <1>2, <1>7 DEF V4DashboardsReset, V4DashboardsList, Begin, StSeen
  <2>2. QED
    BY <1>6, <2>1
<1>8. ASSUME NEW u \in Users, NEW k \in Seeds, V4DashboardsDelete(r, u, k)
      PROVE  StBase' /\ StDashboards' /\ StWriters'
  <2>1. table' = table \ OwnKey(u, k) /\ Disturb(u, r) /\ req[r] = NoReq
    BY <1>8 DEF V4DashboardsDelete, DeleteRows, Free
  <2>2. ~Resetting(r)
    BY <2>1, StNoReq DEF Resetting
  <2>3. /\ table' \subseteq StRows
        /\ \A x \in table : x.owner # u => x \in table'
        /\ \A x \in table' : x.owner # u => x \in table
    BY <2>1 DEF StBase, OwnKey, ByKey
  <2>4. QED
    BY <1>4, <2>1, <2>2, <2>3
<1>9. CASE Curtail(r)
  <2>1. Disturb(req[r].user, r) /\ table' = table
    BY <1>9 DEF Curtail
  <2>2. PICK u \in Users : u = req[r].user
    BY <1>3
  <2>3. Disturb(u, r) /\ table' \subseteq StRows
    BY <2>1, <2>2 DEF StBase
  <2>4. QED
    BY <1>1, <1>4, <2>1, <2>2, <2>3
<1>10. ASSUME NEW on \in BOOLEAN, CreateDashboard(r, on) PROVE StBase' /\ StDashboards' /\ StWriters'
  <2>1. PICK u \in Users, k \in StKeys : u = req[r].user /\ k = req[r].key
    BY <1>3
  <2>2. /\ Insert(k, u, "mine", on) /\ At(r, "create", "insert")
        /\ IF \E o \in Reqs : Resetting(o) /\ req[o].user = u
           THEN Disturb(u, r) ELSE Ends(r) /\ UNCHANGED served
    BY <1>10, <2>1 DEF CreateDashboard
  <2>3. PICK row : StAdds(row, k, u, "mine")
    BY <1>2, <2>2, StInserted
  <2>4. /\ table' \subseteq StRows /\ table \subseteq table'
        /\ \A x \in table : x.owner # u => x \in table'
        /\ \A x \in table' : x.owner # u => x \in table
    BY <2>3 DEF StAdds, StBase
  <2>5. ~Resetting(r)
    BY <2>2 DEF At, Resetting
  <2>6. CASE \E o \in Reqs : Resetting(o) /\ req[o].user = u
    BY <1>4, <2>2, <2>4, <2>5, <2>6
  <2>7. CASE ~\E o \in Reqs : Resetting(o) /\ req[o].user = u
    <3>1. req' = [req EXCEPT ![r] = NoReq] /\ served' = served
      BY <2>2, <2>7 DEF Ends
    <3>2. req'[r] = NoReq /\ \A o \in Reqs \ {r} : req'[o] = req[o]
      BY <3>1 DEF StBase
    <3>3. ~\E o \in Reqs : Resetting(o)' /\ req'[o].user = u
      BY <2>7, <3>2, StNoReq DEF Resetting
    <3>4. StSettled(u)' => StSettled(u)
      BY <3>1, <3>3 DEF StSettled
    <3>5. StSettled(u) => OwnKey(u, 1) # {} /\ OwnKey(u, 2) # {}
      BY <2>7 DEF StDashboards, StDefaults, StSeeds
    <3>6. \A j : OwnKey(u, j) \subseteq OwnKey(u, j)'
      BY <2>4 DEF OwnKey, ByKey
    <3>7. StDefaults(u)'
      BY <3>4, <3>5, <3>6 DEF StDefaults
    <3>8. served' \subseteq served \cup {u}
      BY <3>1
    <3>9. QED
      BY <1>5, <2>4, <2>5, <3>1, <3>7, <3>8, StNoReq
  <2>8. QED
    BY <2>6, <2>7
<1>11. ASSUME ResetDelete(r) \/ ResetCheck(r) \/ ResetInsert(r)
       PROVE  StBase' /\ StDashboards' /\ StWriters'
  <2>1. PICK u \in Users : u = req[r].user
    BY <1>3
  <2>2. req[r].op = "reset"
    BY <1>11 DEF ResetDelete, ResetCheck, ResetInsert, At
  <2>3. /\ StDefaults(u)' /\ served' \subseteq served \cup {u} /\ table' \subseteq StRows
        /\ \A x \in table : x.owner # u => x \in table'
        /\ \A x \in table' : x.owner # u => x \in table
        /\ \E q \in StReq : /\ req' = [req EXCEPT ![r] = q] /\ q.op \in {"none", "reset"}
                            /\ q.op = "reset" => q.user = u /\ q.key \in Seeds /\ q.at # "delete"
    BY <1>1, <1>11, <2>1, <2>2, StResetSteps
  <2>4. PICK q \in StReq : /\ req' = [req EXCEPT ![r] = q] /\ q.op \in {"none", "reset"}
                           /\ q.op = "reset" => q.user = u /\ q.key \in Seeds /\ q.at # "delete"
    BY <2>3
  <2>5. QED
    BY <1>5, <2>1, <2>3, <2>4
<1>12. QED
  BY SMTT(30), <1>1, <1>7, <1>8, <1>9, <1>10, <1>11

\* Whose step it is, and of which resource.
LEMMA StOneTopic ==
    ASSUME StBase, StNext
    PROVE  \/ topic = "alias" /\ (IPMapExpires \/ \E r \in Reqs : Aliases(r))
           \/ topic = "dashboard" /\ \E r \in Reqs : Dashboards(r) \/ Curtail(r)
           \/ topic = "preference" /\ \/ \E r \in Reqs : Preferences(r)
                                      \/ \E u \in Users : \/ DeleteByCategory(u)
                                                          \/ \E k \in Seeds : DeleteByCategoryAndParam(u, k)
           \/ topic = "mapping" /\ \E r \in Reqs : Mappings(r) \/ Curtail(r)
           \/ topic = "token" /\ \E r \in Reqs : Tokens(r)
           \/ topic = "script" /\ Scripts
<1>1. ASSUME NEW r \in Reqs, Curtail(r) PROVE topic \in {"dashboard", "mapping"}
  BY <1>1 DEF Curtail, Resetting, StBase, StAbout
<1>2. ASSUME NEW r \in Reqs, Aliases(r) PROVE topic = "alias"
  BY <1>2 DEF Aliases, AliasCreate, AliasUpdate, AliasDelete, invalidateIPAliasMapCache, CachedIPAliasMap,
              StoreIPAliasMap, At, StBase, StAbout
<1>3. ASSUME NEW r \in Reqs, Dashboards(r) PROVE topic = "dashboard"
  BY <1>3 DEF Dashboards, V4DashboardsCreate, CreateDashboard, V4DashboardsList, V4DashboardsReset, ResetDelete,
              ResetCheck, ResetInsert, V4DashboardsUpdate, UpdateDashboardCheck, UpdateDashboard,
              V4DashboardsDelete, At, StBase, StAbout
<1>4. ASSUME NEW r \in Reqs, Preferences(r) PROVE topic = "preference"
  BY <1>4 DEF Preferences, UpsertByCategory, UpsertInsert, At, StBase, StAbout
<1>5. ASSUME NEW r \in Reqs, Mappings(r) PROVE topic = "mapping"
  BY <1>5 DEF Mappings, CreateMapping, UpdateMapping, DeleteMapping, ResetMappings, SeedCheck, SeedInsert,
              upsertMapping, upsertMappingWrite, At, StBase, StAbout
<1>6. ASSUME NEW r \in Reqs, Tokens(r) PROVE topic = "token"
  BY <1>6 DEF Tokens, TokenCreate, V4AuthTokensUpdate, TokenUpdate, TokenDelete, At, StBase, StAbout
<1>7. ASSUME Scripts PROVE topic = "script"
  BY <1>7 DEF Scripts, ScriptCreate, ScriptUpdate, ScriptDelete, seedDefaultCorrelationScript, ReloadFromDB
<1>8. ASSUME NEW u, DeleteByCategory(u) \/ \E k \in Seeds : DeleteByCategoryAndParam(u, k)
      PROVE  topic = "preference"
  BY <1>8 DEF DeleteByCategory, DeleteByCategoryAndParam
<1>9. IPMapExpires => topic = "alias"
  BY DEF IPMapExpires
<1>10. QED
  BY <1>1, <1>2, <1>3, <1>4, <1>5, <1>6, <1>7, <1>8, <1>9 DEF StNext

LEMMA StInductive ==
    ASSUME StInv, [StNext]_stVars
    PROVE  StInv'
<1> USE DEF StInv
\* What a step of one resource owes the others.
<1>1. ASSUME StBase', topic' = topic, "misused" \notin seen', topic # "dashboard" PROVE StDashboards' /\ StWriters'
  BY <1>1 DEF StDashboards, StWriters, DashboardsOwn, StBase, StAbout, At
<1>2. ASSUME topic' = topic, topic # "token", "revived" \notin seen' PROVE StTokens'
  BY <1>2 DEF StTokens
<1>3. ASSUME topic' = topic, topic # "script", "trampled" \notin seen' PROVE StScripts'
  BY <1>3 DEF StScripts, ScriptsKept
<1>4. ASSUME topic' = topic
      PROVE  /\ topic # "alias" => AliasMapCurrent'
             /\ topic # "preference" => PreferencesAgree'
             /\ topic # "mapping" => StMappings'
  BY <1>4 DEF AliasMapCurrent, PreferencesAgree, StMappings
<1>5. /\ "misused" \notin seen /\ "trampled" \notin seen
      /\ topic # "token" => "revived" \notin seen
  BY DEF StWriters, DashboardsOwn, StScripts, ScriptsKept, StTokens
<1>6. CASE UNCHANGED stVars
  <2>1. UNCHANGED <<topic, table, req, ipMap, ipMapFresh, outdated, crossed, served, seen>>
    BY <1>6 DEF stVars, StCache, StSeen
  <2>2. StBase'
    BY <2>1 DEF StBase, StAbout
  <2>3. AliasMapCurrent' /\ PreferencesAgree' /\ StScripts' /\ StWriters'
    BY <2>1 DEF AliasMapCurrent, ActiveEntries, ActiveRows, PreferencesAgree, StScripts, ScriptsKept,
                StWriters, DashboardsOwn, At
  <2>4. StTokens'
    BY <2>1 DEF StTokens, ByKey
  <2>5. StMappings'
    BY <2>1 DEF StMappings, StSettled, Resetting, ByKey
  <2>6. StDashboards'
    BY <2>1 DEF StDashboards, StResets, StDefaults, StSettled, StSeeds, Resetting, OwnKey, ByKey
  <2>7. QED
    BY <2>2, <2>3, <2>4, <2>5, <2>6
<1>7. ASSUME topic = "alias", IPMapExpires \/ \E r \in Reqs : Aliases(r) PROVE StInv'
  <2>1. StBase' /\ AliasMapCurrent' /\ UNCHANGED <<topic, seen>>
    BY <1>7, StAliasStep, StIPMapExpires
  <2>2. QED
    BY <1>1, <1>2, <1>3, <1>4, <1>5, <1>7, <2>1
<1>8. ASSUME topic = "preference", \/ \E r \in Reqs : Preferences(r)
                                   \/ \E u \in Users : \/ DeleteByCategory(u)
                                                       \/ \E k \in Seeds : DeleteByCategoryAndParam(u, k)
      PROVE  StInv'
  <2>1. StBase' /\ PreferencesAgree' /\ UNCHANGED <<topic, seen>>
    BY <1>8, StPreferenceStep, StPreferenceDeletion
  <2>2. QED
    BY <1>1, <1>2, <1>3, <1>4, <1>5, <1>8, <2>1
<1>9. ASSUME topic = "mapping", NEW r \in Reqs, Mappings(r) \/ Curtail(r) PROVE StInv'
  <2>1. StBase' /\ StMappings' /\ UNCHANGED <<topic, seen>>
    BY <1>9, StMappingStep
  <2>2. QED
    BY <1>1, <1>2, <1>3, <1>4, <1>5, <1>9, <2>1
<1>10. ASSUME topic = "token", NEW r \in Reqs, Tokens(r) PROVE StInv'
  <2>1. StBase' /\ StTokens' /\ topic' = topic /\ seen' \subseteq seen \cup {"revived"}
    BY <1>10, StTokenStep
  <2>2. QED
    BY <1>1, <1>3, <1>4, <1>5, <1>10, <2>1
<1>11. ASSUME topic = "script", Scripts PROVE StInv'
  <2>1. StBase' /\ StScripts' /\ topic' = topic /\ seen' \subseteq seen \cup {"trampled"}
    BY <1>11, StScriptStep
  <2>2. QED
    BY <1>1, <1>2, <1>4, <1>5, <1>11, <2>1
<1>12. ASSUME topic = "dashboard", NEW r \in Reqs, Dashboards(r) \/ Curtail(r) PROVE StInv'
  <2>1. StBase' /\ StDashboards' /\ StWriters' /\ topic' = topic /\ seen' \subseteq seen \cup {"misused"}
    BY <1>12, StEditStep, StSeedingStep DEF Dashboards
  <2>2. QED
    BY <1>2, <1>3, <1>4, <1>5, <1>12, <2>1
<1>13. QED
  BY <1>6, <1>7, <1>8, <1>9, <1>10, <1>11, <1>12, StOneTopic

LEMMA StInitInv == StInit => StInv
<1> SUFFICES ASSUME StInit PROVE StInv
  OBVIOUS
<1>1. /\ topic \in Topics /\ req = [r \in Reqs |-> NoReq] /\ ipMap = NoMap /\ crossed = {} /\ seen = {}
      /\ served = IF topic = "mapping" THEN {Boss} ELSE {}
  BY DEF StInit
<1>2. PICK v \in {"seed", "legacy"} : table = CASE topic = "mapping" -> SeedRows("seed")
                                                [] topic = "script" -> SeedRows(v)
                                                [] topic = "token" -> {Row(1, 1, Boss, "mine", TRUE)}
                                                [] OTHER -> {}
  BY DEF StInit
<1>3. /\ topic = "mapping" => table = SeedRows("seed")
      /\ topic = "script" => table = SeedRows(v)
      /\ topic = "token" => table = {Row(1, 1, Boss, "mine", TRUE)}
      /\ topic \notin {"mapping", "script", "token"} => table = {}
  BY <1>2
<1>4. \A w \in {"seed", "legacy"} : /\ SeedRows(w) \subseteq StRows
                                    /\ \A x \in SeedRows(w) : Ref(x) = <<x.key, Boss, 1>>
                                    /\ \A x, y \in SeedRows(w) : x.key = y.key => x = y
                                    /\ \A k \in Seeds : \E x \in SeedRows(w) : x.key = k
  <2>1. 1 \in 1..MaxTableRows /\ Seeds \subseteq StKeys /\ Boss \in Users
    BY SettingsAssumption DEF Seeds, StKeys
  <2>2. ASSUME NEW w \in {"seed", "legacy"}, NEW k \in Seeds
        PROVE  Row(1, k, Boss, w, FALSE) \in StRows /\ Row(1, k, Boss, w, FALSE).key = k
               /\ Ref(Row(1, k, Boss, w, FALSE)) = <<k, Boss, 1>>
    BY <2>1 DEF Row, StRows, Contents, Ref
  <2>3. QED
    BY ZenonT(60), <2>2 DEF SeedRows
<1>5. /\ Row(1, 1, Boss, "mine", TRUE) \in StRows
  BY SettingsAssumption DEF Row, StRows, StKeys, Contents
<1>6. StBase
  <2>1. table \subseteq StRows
    BY ZenonT(60), <1>3, <1>4, <1>5
  <2>2. QED
    BY <1>1, <2>1, StNoReq DEF StBase, StAbout
<1>7. \A r \in Reqs : ~Resetting(r) /\ req[r].op = "none"
  BY <1>1, StNoReq DEF Resetting
<1>8. AliasMapCurrent
  BY <1>1 DEF AliasMapCurrent, NoMap
<1>9. StDashboards /\ StWriters
  BY <1>1, <1>7 DEF StDashboards, StResets, StDefaults, StSettled, StWriters, DashboardsOwn, At
<1>10. PreferencesAgree
  BY <1>3 DEF PreferencesAgree
<1>11. StMappings
  BY <1>1, <1>3, <1>4, <1>7 DEF StMappings, ByKey
<1>12. StTokens
  BY <1>1, <1>3, <1>7 DEF StTokens
<1>13. StScripts
  <2>1. topic = "script" => \A x, y \in table : Ref(x) = Ref(y) => x = y
    BY <1>3, <1>4
  <2>2. QED
    BY <1>1, <2>1 DEF StScripts, ScriptsKept
<1>14. QED
  BY <1>6, <1>8, <1>9, <1>10, <1>11, <1>12, <1>13 DEF StInv

LEMMA StInvSafe == StInv => SettingsSafe
<1> SUFFICES ASSUME StInv PROVE SettingsSafe
  OBVIOUS
<1>1. AliasMapCurrent /\ DashboardsOwn /\ PreferencesAgree /\ ScriptsKept /\ TokenStaysOff
  BY DEF StInv, StWriters, StScripts, StTokens, TokenStaysOff
<1>2. DefaultDashboards
  <2>1. ASSUME topic = "dashboard", NEW u \in served, ~\E r \in Reqs : Resetting(r) /\ req[r].user = u
        PROVE  \A k \in Seeds : OwnKey(u, k) # {}
    <3>1. StDefaults(u) /\ StSettled(u)
      BY <2>1 DEF StInv, StDashboards, StSettled
    <3>2. \A k : ~StSeeds(u, k)
      BY <2>1 DEF StSeeds
    <3>3. QED
      BY <3>1, <3>2 DEF StDefaults, Seeds
  <2>2. QED
    BY <2>1 DEF DefaultDashboards
<1>3. SeedMappings
  BY DEF StInv, StMappings, StSettled, SeedMappings
<1>4. QED
  BY <1>1, <1>2, <1>3 DEF SettingsSafe

-----------------------------------------------------------------------------
(* The remote logging client.  Every packet it accepted is in one place:   *)
(* RlOnce holds the places apart, RlOrder keeps the packets of the queue   *)
(* in the order of their numbers and the one in hand before them, and      *)
(* RlHeldInv says which of the places still count for the packets of the   *)
(* batch that Close finds.                                                 *)

RlContents == [pkt : Nat, sip : BOOLEAN]
RlEntries == [pkt : RlPackets, hep : RlStructs, read : RlContents]

RlTypeInv ==
    /\ rlHep \in [RlStructs -> RlContents]
    /\ rlWorker \in [at : {"idle", "parse", "send", "release"}, hep : RlStructs \cup {0}, pkt : Nat]
    /\ rlWorker.at # "idle" => rlWorker.hep \in RlStructs /\ rlWorker.pkt \in RlPackets
    /\ rlQueue \in Seq(RlEntries)
    /\ rlHand \in {<< >>} \cup {<<e>> : e \in RlEntries}
    /\ rlRun = "label" <=> rlHand # << >>
    /\ rlBatch \subseteq RlEntries /\ rlPosting \subseteq RlEntries /\ rlClosing \subseteq RlEntries
    /\ rlLast \in BOOLEAN

\* Packets that the worker has been through with.
RlPast == {p \in Nat : \/ p < rlWorker.pkt
                       \/ p = rlWorker.pkt /\ rlWorker.at \notin {"parse", "send"}}

RlOrder ==
    /\ \A i, j \in 1..Len(rlQueue) : i < j => rlQueue[i].pkt < rlQueue[j].pkt
    /\ \A i \in 1..Len(rlHand), j \in 1..Len(rlQueue) : rlHand[i].pkt < rlQueue[j].pkt

RlApart(Q, B, P, C, S, L) ==
    /\ Q \cap (B \cup P \cup C \cup S \cup L) = {}
    /\ B \cap (P \cup C \cup S \cup L) = {}
    /\ P \cap (C \cup S \cup L) = {}
    /\ C \cap (S \cup L) = {}
    /\ S \cap L = {}

RlAll == RlQueued \cup RlPkts(rlBatch) \cup RlPkts(rlPosting) \cup RlPkts(rlClosing)
            \cup rlSent \cup rlLost

RlOnce ==
    /\ RlApart(RlQueued, RlPkts(rlBatch), RlPkts(rlPosting), RlPkts(rlClosing), rlSent, rlLost)
    /\ RlAll \subseteq RlPast
    /\ (RlPast \cap RlLogged) \ rlDropped \subseteq RlAll

RlHeldInv ==
    /\ rlQuit <=> rlClose # "no"
    /\ rlRun # "post" => rlPosting = {}
    /\ rlClose # "post" => rlClosing = {}
    /\ rlClose = "no" => rlHeld = {}
    /\ rlKind # "loki" => rlClose \notin {"flush", "post"}
    /\ rlLast => rlRun \in {"post", "done"}
    /\ rlKind # "loki" /\ (rlLast \/ rlRun = "done") => rlBatch = {}
    /\ rlHeld \subseteq rlSent \cup rlLost \cup RlPkts(rlPosting) \cup RlPkts(rlClosing)
                          \cup (IF rlKind = "loki" /\ rlClose # "flush" THEN {} ELSE RlPkts(rlBatch))

RlInv == RlTypeInv /\ RlOrder /\ RlOnce /\ RlHeldInv

LEMMA RlInitInv == RlInit => RlInv
<1> USE RemoteLogAssumption
<1> SUFFICES ASSUME RlInit PROVE RlInv
  OBVIOUS
<1> USE DEF RlInit, RlIdle, RlBlank
<1>1. RlTypeInv
  <2>1. rlHep \in [RlStructs -> RlContents]
    BY DEF RlContents
  <2>2. rlWorker \in [at : {"idle", "parse", "send", "release"}, hep : RlStructs \cup {0}, pkt : Nat]
    OBVIOUS
  <2>3. << >> \in Seq(RlEntries)
    OBVIOUS
  <2>4. /\ rlWorker.at = "idle" /\ rlQueue \in Seq(RlEntries) /\ rlHand = << >> /\ rlRun = "select"
        /\ rlBatch = {} /\ rlPosting = {} /\ rlClosing = {} /\ rlLast = FALSE
    BY <2>3
  <2> HIDE DEF RlInit, RlIdle, RlBlank
  <2>5. QED
    BY <2>1, <2>2, <2>4 DEF RlTypeInv
<1>2. RlOrder
  BY DEF RlOrder
<1>3. RlQueued = {} /\ RlPkts(rlBatch) = {} /\ RlPkts(rlPosting) = {} /\ RlPkts(rlClosing) = {}
  BY DEF RlQueued, RlPkts
<1>4. RlPast \cap RlLogged = {}
  BY DEF RlPast
<1>5. RlOnce
  BY <1>3, <1>4 DEF RlOnce, RlAll, RlApart
<1>6. RlHeldInv
  BY <1>3 DEF RlHeldInv
<1>7. QED
  BY <1>1, <1>2, <1>5, <1>6 DEF RlInv

LEMMA RlInductive ==
    ASSUME RlInv, [RlNext]_rlVars
    PROVE  RlInv'
<1> USE RemoteLogAssumption
<1> USE DEF RlInv
<1>0. \A S : RlPkts(S) = {e.pkt : e \in S}
  BY DEF RlPkts
<1>1. ASSUME NEW p \in RlPackets, NEW h \in RlStructs, acquireHEP(p, h)
      PROVE  RlInv'
  <2> USE <1>1 DEF acquireHEP, rlClient, rlEnd, rlSeen
  <2>1. RlTypeInv'
    BY DEF RlTypeInv, RlContents, RlBlank
  <2>2. RlOrder'
    BY DEF RlOrder
  <2>3. RlPast' = RlPast
    BY DEF RlPast, RlTypeInv
  <2>4. RlOnce'
    BY <2>3 DEF RlOnce, RlAll, RlQueued, RlPkts
  <2>5. RlHeldInv'
    BY DEF RlHeldInv, RlPkts
  <2>6. QED
    BY <2>1, <2>2, <2>4, <2>5
<1>2. CASE RlParse
  <2> USE <1>2 DEF RlParse, rlClient, rlEnd, rlSeen
  <2>1. RlTypeInv'
    BY DEF RlTypeInv, RlContents
  <2>2. RlOrder'
    BY DEF RlOrder
  <2>3. RlPast' = RlPast
    BY DEF RlPast, RlTypeInv
  <2>4. RlOnce'
    BY <2>3 DEF RlOnce, RlAll, RlQueued, RlPkts
  <2>5. RlHeldInv'
    BY DEF RlHeldInv, RlPkts
  <2>6. QED
    BY <2>1, <2>2, <2>4, <2>5
<1>3. CASE RlSend
  <2> DEFINE p == rlWorker.pkt
             entry == [pkt |-> p, hep |-> rlWorker.hep, read |-> RlBlank]
  <2>1. p \in RlPackets /\ p \in Nat /\ entry \in RlEntries
    BY <1>3 DEF RlSend, RlTypeInv, RlEntries, RlContents, RlBlank
  <2>2. /\ rlWorker' = [rlWorker EXCEPT !.at = "release"]
        /\ UNCHANGED <<rlKind, rlHep, rlRun, rlHand, rlBatch, rlPosting, rlLast, rlEnd, rlFaults,
                       rlSent, rlLost, rlWrong, rlPanicked>>
    BY <1>3 DEF RlSend
  <2>3. RlPast' = RlPast \cup {p} /\ p \notin RlPast
    BY <1>3, <2>1, <2>2 DEF RlSend, RlPast, RlTypeInv
  <2>4. /\ UNCHANGED <<RlPkts(rlBatch), RlPkts(rlPosting), RlPkts(rlClosing)>>
        /\ RlHeldInv'
    BY <2>2 DEF RlPkts, RlHeldInv, rlEnd
  <2>5. \/ p \notin RlLogged /\ UNCHANGED <<rlQueue, rlDropped>>
        \/ p \in RlLogged /\ rlQueue' = Append(rlQueue, entry) /\ UNCHANGED rlDropped
        \/ rlDropped' = rlDropped \cup {p} /\ UNCHANGED rlQueue
    BY <1>3 DEF RlSend
  <2>6. CASE UNCHANGED rlQueue
    <3>1. RlTypeInv' /\ RlOrder' /\ UNCHANGED RlQueued
      BY <2>2, <2>6, <1>3 DEF RlTypeInv, RlOrder, RlQueued, RlSend, rlEnd
    <3>2. (p \notin RlLogged /\ rlDropped' = rlDropped) \/ rlDropped' = rlDropped \cup {p}
      BY <2>5, <2>6, <2>1 DEF RlTypeInv
    <3>3. RlOnce'
      BY <2>2, <2>3, <2>4, <3>1, <3>2 DEF RlOnce, RlAll
    <3>4. QED
      BY <2>4, <3>1, <3>3
  <2>7. CASE rlQueue' = Append(rlQueue, entry) /\ UNCHANGED rlDropped
    <3>1. /\ rlQueue' \in Seq(RlEntries) /\ Len(rlQueue') = Len(rlQueue) + 1
          /\ Len(rlQueue) \in Nat /\ rlQueue'[Len(rlQueue) + 1] = entry
          /\ \A i \in 1..Len(rlQueue) : rlQueue'[i] = rlQueue[i]
      BY <2>1, <2>7 DEF RlTypeInv
    <3>2. RlTypeInv'
      BY <2>2, <3>1, <1>3 DEF RlTypeInv, RlSend, rlEnd
    <3>3. RlQueued' = RlQueued \cup {p}
      BY SMTT(30), <3>1, <2>2 DEF RlQueued
    <3>4. \A x \in RlQueued : x < p
      BY <2>1, <1>3 DEF RlOnce, RlAll, RlPast, RlSend
    <3>5. RlOrder'
      <4>1. \A i \in 1..Len(rlQueue) : rlQueue[i].pkt < p
        BY <3>4 DEF RlQueued
      <4>2. \A i \in 1..Len(rlHand) : rlHand[i].pkt < p
        BY <3>4 DEF RlQueued
      <4>3. entry.pkt = p
        OBVIOUS
      <4> HIDE DEF entry, p
      <4>4. ASSUME NEW i \in 1..Len(rlQueue'), NEW j \in 1..Len(rlQueue'), i < j
            PROVE  rlQueue'[i].pkt < rlQueue'[j].pkt
        <5>1. i \in 1..Len(rlQueue) /\ (j \in 1..Len(rlQueue) \/ j = Len(rlQueue) + 1)
          BY <3>1, <4>4
        <5>2. QED
          BY <5>1, <3>1, <4>1, <4>3, <4>4 DEF RlOrder
      <4>5. ASSUME NEW i \in 1..Len(rlHand), NEW j \in 1..Len(rlQueue')
            PROVE  rlHand[i].pkt < rlQueue'[j].pkt
        <5>1. j \in 1..Len(rlQueue) \/ j = Len(rlQueue) + 1
          BY <3>1
        <5>2. QED
          BY <5>1, <3>1, <4>2, <4>3 DEF RlOrder
      <4>6. QED
        BY <4>4, <4>5, <2>2 DEF RlOrder
    <3>6. RlOnce'
      BY <2>2, <2>3, <2>4, <2>7, <3>3 DEF RlOnce, RlAll, RlApart
    <3>7. QED
      BY <2>4, <3>2, <3>5, <3>6
  <2>8. QED
    BY <2>5, <2>6, <2>7
<1>4. CASE ReleaseHEP
  <2> USE <1>4 DEF ReleaseHEP, rlClient, rlEnd, rlSeen
  <2>1. RlTypeInv'
    BY DEF RlTypeInv, RlContents
  <2>2. RlOrder'
    BY DEF RlOrder
  <2>3. RlPast' = RlPast
    BY DEF RlPast, RlTypeInv
  <2>4. RlOnce'
    BY <2>3 DEF RlOnce, RlAll, RlQueued, RlPkts
  <2>5. RlHeldInv'
    BY DEF RlHeldInv, RlPkts
  <2>6. QED
    BY <2>1, <2>2, <2>4, <2>5
<1>5. CASE RlTake
  <2> DEFINE e == RlRead(Head(rlQueue))
             n == Len(rlQueue)
  <2>1. /\ rlQueue \in Seq(RlEntries) /\ rlQueue # << >> /\ n \in Nat \ {0}
        /\ rlQueue' = Tail(rlQueue) /\ rlQueue' \in Seq(RlEntries) /\ Len(rlQueue') = n - 1
        /\ \A i \in 1..(n - 1) : rlQueue'[i] = rlQueue[i + 1]
        /\ rlQueue[1] \in RlEntries /\ Head(rlQueue) = rlQueue[1]
    BY <1>5 DEF RlTake, RlTypeInv
  <2>2. e \in RlEntries /\ e.pkt = rlQueue[1].pkt
    BY <2>1 DEF RlTypeInv, RlRead, RlEntries
  <2>3. /\ rlHand' = <<e>> /\ rlRun' = "label" /\ rlRun = "select" /\ rlHand = << >>
        /\ UNCHANGED <<rlKind, rlHep, rlWorker, rlBatch, rlPosting, rlLast, rlEnd, rlFaults, rlSeen>>
    BY <1>5 DEF RlTake, RlTypeInv
  <2> HIDE DEF e, n
  <2>4. RlTypeInv'
    BY <2>1, <2>2, <2>3 DEF RlTypeInv, rlEnd
  <2>5. RlOrder'
    <3>1. Len(rlHand') = 1 /\ rlHand'[1] = e /\ n = Len(rlQueue) /\ 1 \in 1..n
      BY <2>1, <2>3 DEF n
    <3>2. ASSUME NEW i \in 1..(n - 1), NEW j \in 1..(n - 1), i < j
          PROVE  rlQueue'[i].pkt < rlQueue'[j].pkt
      <4>1. i + 1 \in 1..n /\ j + 1 \in 1..n /\ i + 1 < j + 1
        BY <2>1, <3>2
      <4>2. rlQueue[i + 1].pkt < rlQueue[j + 1].pkt
        BY <3>1, <4>1 DEF RlOrder
      <4>3. QED
        BY <2>1, <4>2
    <3>3. ASSUME NEW j \in 1..(n - 1)
          PROVE  e.pkt < rlQueue'[j].pkt
      <4>1. j + 1 \in 1..n /\ 1 < j + 1
        BY <2>1, <3>3
      <4>2. rlQueue[1].pkt < rlQueue[j + 1].pkt
        BY <3>1, <4>1 DEF RlOrder
      <4>3. QED
        BY <2>1, <2>2, <4>2
    <3>4. ASSUME NEW i \in 1..Len(rlHand'), NEW j \in 1..(n - 1)
          PROVE  rlHand'[i].pkt < rlQueue'[j].pkt
      BY <3>1, <3>3
    <3>5. QED
      BY <2>1, <3>2, <3>4 DEF RlOrder
  <2>6. RlQueued' = RlQueued
    <3>1. RlQueued = {rlQueue[i].pkt : i \in 1..n}
      BY <2>3 DEF RlQueued, n
    <3>2. RlQueued' = {rlQueue'[i].pkt : i \in 1..(n - 1)} \cup {e.pkt}
      BY <2>1, <2>3 DEF RlQueued, n
    <3>3. ASSUME NEW i \in 1..n
          PROVE  rlQueue[i].pkt \in RlQueued'
      <4>1. CASE i = 1
        BY <4>1, <3>2, <2>2
      <4>2. CASE i # 1
        <5>1. i - 1 \in 1..(n - 1) /\ rlQueue'[i - 1] = rlQueue[i]
          BY <2>1, <4>2
        <5>2. QED
          BY <5>1, <3>2
      <4>3. QED
        BY <4>1, <4>2
    <3>4. RlQueued' \subseteq RlQueued
      <4>1. \A i \in 1..(n - 1) : i + 1 \in 1..n
        BY <2>1
      <4>2. QED
        BY <3>1, <3>2, <4>1, <2>1, <2>2
    <3>5. QED
      BY <3>1, <3>3, <3>4
  <2>7. RlOnce' /\ RlHeldInv'
    BY <2>3, <2>6 DEF RlOnce, RlAll, RlPast, RlPkts, RlHeldInv, rlEnd, rlSeen
  <2>8. QED
    BY <2>4, <2>5, <2>7
<1>6. ASSUME NEW isDue \in BOOLEAN, RlCollect(isDue)
      PROVE  RlInv'
  <2> DEFINE e == IF rlKind = "es" THEN rlHand[1] ELSE RlRead(rlHand[1])
             batch == rlBatch \cup {e}
  <2>1. /\ rlRun = "label" /\ rlHand' = << >>
        /\ \/ rlBatch' = {} /\ rlPosting' = batch /\ rlRun' = "post"
           \/ rlBatch' = batch /\ rlRun' = "select" /\ UNCHANGED rlPosting
        /\ UNCHANGED <<rlKind, rlHep, rlWorker, rlQueue, rlLast, rlEnd, rlFaults,
                       rlSent, rlLost, rlDropped>>
    BY <1>6 DEF RlCollect
  <2>2. PICK g \in RlEntries : rlHand = <<g>>
    BY <2>1 DEF RlTypeInv
  <2>3. e \in RlEntries /\ e.pkt = g.pkt
    BY <2>2 DEF RlTypeInv, RlRead, RlEntries
  <2>4. rlPosting = {} /\ ~rlLast
    BY <2>1 DEF RlHeldInv, RlTypeInv
  <2> HIDE DEF e
  <2>5. RlTypeInv'
    BY <2>1, <2>3 DEF RlTypeInv, rlEnd
  <2>6. RlOrder'
    BY <2>1 DEF RlOrder
  <2>7. RlQueued = RlQueued' \cup {g.pkt} /\ g.pkt \notin RlQueued'
    <3>1. RlQueued' = {rlQueue[i].pkt : i \in 1..Len(rlQueue)}
      BY <2>1 DEF RlQueued
    <3>2. RlQueued = {rlQueue[i].pkt : i \in 1..Len(rlQueue)} \cup {g.pkt}
      BY <2>2 DEF RlQueued
    <3>3. \A i \in 1..Len(rlQueue) : g.pkt < rlQueue[i].pkt /\ rlQueue[i].pkt \in Nat /\ g.pkt \in Nat
      <4>1. 1 \in 1..Len(rlHand) /\ rlHand[1] = g
        BY <2>2
      <4>2. g.pkt \in Nat /\ \A i \in 1..Len(rlQueue) : rlQueue[i].pkt \in Nat
        <5>1. \A x \in RlEntries : x.pkt \in Nat
          BY DEF RlEntries
        <5>2. \A i \in 1..Len(rlQueue) : rlQueue[i] \in RlEntries
          BY DEF RlTypeInv
        <5>3. QED
          BY <5>1, <5>2
      <4>3. QED
        BY <4>1, <4>2 DEF RlOrder
    <3>4. QED
      BY <3>1, <3>2, <3>3
  <2>8. /\ RlPkts(batch) = RlPkts(rlBatch) \cup {g.pkt} /\ RlPkts({}) = {}
        /\ RlPkts(rlPosting) = {}
        /\ UNCHANGED <<RlPkts(rlClosing), RlPast, rlSent, rlLost, rlDropped>>
    BY <2>1, <2>3, <2>4 DEF RlPkts, rlEnd, RlPast
  <2>9. CASE rlBatch' = {} /\ rlPosting' = batch /\ rlRun' = "post"
    <3>1. RlPkts(rlBatch)' = {} /\ RlPkts(rlPosting)' = RlPkts(batch)
      BY <2>8, <2>9, <1>0
    <3>2. RlOnce'
      BY <2>7, <2>8, <3>1 DEF RlOnce, RlAll, RlApart
    <3>3. RlHeldInv'
      BY <2>1, <2>4, <2>8, <2>9, <3>1 DEF RlHeldInv, rlEnd
    <3>4. QED
      BY <2>5, <2>6, <3>2, <3>3
  <2>10. CASE rlBatch' = batch /\ rlRun' = "select" /\ UNCHANGED rlPosting
    <3>1. RlPkts(rlBatch)' = RlPkts(rlBatch) \cup {g.pkt} /\ RlPkts(rlPosting)' = {}
      BY <2>4, <2>8, <2>10, <1>0
    <3>2. RlOnce'
      <4>1. RlApart(RlQueued, RlPkts(rlBatch), RlPkts(rlPosting), RlPkts(rlClosing), rlSent, rlLost)'
        BY <2>7, <2>8, <3>1 DEF RlOnce, RlApart
      <4>2. RlAll' = RlAll
        BY <2>7, <2>8, <3>1 DEF RlAll
      <4>3. QED
        BY <2>8, <4>1, <4>2 DEF RlOnce
    <3>3. RlHeldInv'
      BY <2>1, <2>4, <2>8, <2>10, <3>1 DEF RlHeldInv, rlEnd
    <3>4. QED
      BY <2>5, <2>6, <3>2, <3>3
  <2>11. QED
    BY <2>1, <2>9, <2>10
<1>7. CASE RlTimer \/ RlSeeQuit
  <2>1. /\ rlRun = "select"
        /\ UNCHANGED <<rlKind, rlHep, rlWorker, rlQueue, rlHand, rlEnd, rlFaults, rlSeen>>
        /\ \/ RlFlush /\ UNCHANGED rlLast
           \/ RlFlush /\ rlLast' = TRUE /\ rlKind # "loki"
           \/ rlRun' = "done" /\ UNCHANGED <<rlBatch, rlPosting, rlLast>> /\ (rlKind = "loki" \/ rlBatch = {})
    BY <1>7 DEF RlTimer, RlSeeQuit
  <2>2. rlPosting = {} /\ rlHand = << >> /\ ~rlLast
    BY <2>1 DEF RlHeldInv, RlTypeInv
  <2>3. RlTypeInv' /\ RlOrder' /\ UNCHANGED <<RlQueued, RlPkts(rlClosing), RlPast>>
    BY ZenonT(60), <2>1, <2>2 DEF RlTypeInv, RlOrder, RlQueued, RlPkts, RlPast, RlFlush, rlEnd
  <2>4. CASE RlFlush
    <3>1. RlPkts(rlBatch)' = {} /\ RlPkts(rlPosting)' = RlPkts(rlBatch) /\ RlPkts(rlPosting) = {}
      BY <2>2, <2>4, <1>0 DEF RlFlush
    <3>2. RlOnce'
      BY <2>1, <2>3, <3>1 DEF RlOnce, RlAll, RlApart, rlSeen
    <3>3. RlHeldInv'
      BY <2>1, <2>3, <2>4, <3>1 DEF RlHeldInv, rlEnd, rlSeen, RlFlush
    <3>4. QED
      BY <2>3, <3>2, <3>3
  <2>5. CASE rlRun' = "done" /\ UNCHANGED <<rlBatch, rlPosting, rlLast>> /\ (rlKind = "loki" \/ rlBatch = {})
    BY <2>1, <2>2, <2>3, <2>5 DEF RlOnce, RlAll, RlHeldInv, rlEnd, rlSeen, RlPkts
  <2>6. QED
    BY <2>1, <2>4, <2>5
<1>8. CASE RlPost
  <2>1. /\ rlRun = "post" /\ rlPosting' = {} /\ rlRun' = IF rlLast THEN "done" ELSE "select"
        /\ rlSent' \cup rlLost' = rlSent \cup rlLost \cup RlPkts(rlPosting)
        /\ \/ rlSent' = rlSent \cup RlPkts(rlPosting) /\ UNCHANGED rlLost
           \/ rlLost' = rlLost \cup RlPkts(rlPosting) /\ UNCHANGED rlSent
        /\ UNCHANGED <<rlKind, rlHep, rlWorker, rlQueue, rlHand, rlBatch, rlLast, rlEnd,
                       rlDropped, rlPanicked>>
    BY <1>8 DEF RlPost, RlPosted, RlPkts
  <2>2. RlTypeInv' /\ RlOrder' /\ UNCHANGED <<RlQueued, RlPkts(rlClosing), RlPkts(rlBatch), RlPast>>
    BY <2>1 DEF RlTypeInv, RlOrder, RlQueued, RlPkts, RlPast, rlEnd
  <2>3. RlPkts(rlPosting)' = {}
    BY <2>1, <1>0
  <2>4. RlOnce'
    BY <2>1, <2>2, <2>3 DEF RlOnce, RlAll, RlApart
  <2>5. RlHeldInv'
    BY <2>1, <2>2, <2>3 DEF RlHeldInv, rlEnd
  <2>6. QED
    BY <2>2, <2>4, <2>5
<1>9. CASE RlCloseQuit
  <2> USE <1>9 DEF RlCloseQuit, rlClient, rlSeen
  <2>1. RlTypeInv' /\ RlOrder'
    BY DEF RlTypeInv, RlOrder
  <2>2. RlOnce'
    BY DEF RlOnce, RlAll, RlQueued, RlPkts, RlPast
  <2>3. RlHeldInv'
    BY DEF RlHeldInv, RlPkts
  <2>4. QED
    BY <2>1, <2>2, <2>3
<1>10. CASE RlCloseFlush
  <2>1. RlTypeInv' /\ RlOrder' /\ UNCHANGED <<RlQueued, RlPkts(rlPosting), RlPast>>
    BY <1>10 DEF RlCloseFlush, RlTypeInv, RlOrder, RlQueued, RlPkts, RlPast
  <2>2. RlPkts(rlClosing)' = RlPkts(rlBatch) /\ RlPkts(rlBatch)' = {} /\ RlPkts(rlClosing) = {}
    BY <1>0, <1>10 DEF RlCloseFlush, RlHeldInv
  <2>3. RlOnce'
    BY <2>1, <2>2, <1>10 DEF RlOnce, RlAll, RlApart, RlCloseFlush, rlSeen
  <2>4. RlHeldInv'
    BY <2>1, <2>2, <1>10 DEF RlHeldInv, RlCloseFlush, rlSeen
  <2>5. QED
    BY <2>1, <2>3, <2>4
<1>11. CASE RlClosePost
  <2>1. /\ rlClose = "post" /\ rlClosing' = {} /\ rlClose' = "returned"
        /\ rlSent' \cup rlLost' = rlSent \cup rlLost \cup RlPkts(rlClosing)
        /\ \/ rlSent' = rlSent \cup RlPkts(rlClosing) /\ UNCHANGED rlLost
           \/ rlLost' = rlLost \cup RlPkts(rlClosing) /\ UNCHANGED rlSent
        /\ UNCHANGED <<rlKind, rlHep, rlWorker, rlClient, rlQuit, rlHeld, rlDropped, rlWrong,
                       rlPanicked>>
    BY <1>11 DEF RlClosePost, RlPosted, RlPkts
  <2>2. RlTypeInv' /\ RlOrder' /\ UNCHANGED <<RlQueued, RlPkts(rlPosting), RlPkts(rlBatch), RlPast>>
    BY <2>1 DEF RlTypeInv, RlOrder, RlQueued, RlPkts, RlPast, rlClient
  <2>3. RlPkts(rlClosing)' = {}
    BY <2>1, <1>0
  <2>4. RlOnce'
    BY <2>1, <2>2, <2>3 DEF RlOnce, RlAll, RlApart
  <2>5. RlHeldInv'
    BY <2>1, <2>2, <2>3 DEF RlHeldInv, rlClient
  <2>6. QED
    BY <2>2, <2>4, <2>5
<1>12. CASE RlExit
  <2> USE <1>12 DEF RlExit, rlClient, rlSeen
  <2>1. RlTypeInv' /\ RlOrder'
    BY DEF RlTypeInv, RlOrder
  <2>2. RlOnce'
    BY DEF RlOnce, RlAll, RlQueued, RlPkts, RlPast
  <2>3. RlHeldInv'
    BY DEF RlHeldInv, RlPkts
  <2>4. QED
    BY <2>1, <2>2, <2>3
<1>13. CASE UNCHANGED rlVars
  BY <1>13 DEF rlVars, rlClient, rlEnd, rlSeen, RlTypeInv, RlOrder, RlOnce, RlAll, RlQueued, RlPkts,
     RlPast, RlHeldInv
<1>14. QED
  BY <1>1, <1>2, <1>3, <1>4, <1>5, <1>6, <1>7, <1>8, <1>9, <1>10, <1>11, <1>12, <1>13 DEF RlNext

LEMMA RlInvSafe ==
    ASSUME RlInv
    PROVE  RemoteLogSafe
<1> USE RemoteLogAssumption
<1>1. ASSUME NEW p \in RlAccepted
      PROVE  Cardinality({i \in DOMAIN RlPlaces : p \in RlPlaces[i]}) = 1
  <2> DEFINE In == {i \in DOMAIN RlPlaces : p \in RlPlaces[i]}
  <2>1. p \in RlAll
    BY DEF RlInv, RlOnce, RlAccepted, RlPast
  <2>2. /\ DOMAIN RlPlaces = 1..6
        /\ RlPlaces[1] = RlQueued /\ RlPlaces[2] = RlPkts(rlBatch) /\ RlPlaces[3] = RlPkts(rlPosting)
        /\ RlPlaces[4] = RlPkts(rlClosing) /\ RlPlaces[5] = rlSent /\ RlPlaces[6] = rlLost
    BY DEF RlPlaces
  <2>3. RlApart(RlQueued, RlPkts(rlBatch), RlPkts(rlPosting), RlPkts(rlClosing), rlSent, rlLost)
    BY DEF RlInv, RlOnce
  <2>4. \E k \in 1..6 : In = {k}
    <3>1. \A i \in 1..6 : i = 1 \/ i = 2 \/ i = 3 \/ i = 4 \/ i = 5 \/ i = 6
      OBVIOUS
    <3>2. PICK k \in 1..6 : p \in RlPlaces[k]
      BY <2>1, <2>2 DEF RlAll
    <3>3. ASSUME NEW j \in 1..6, p \in RlPlaces[j]
          PROVE  j = k
      BY <2>2, <2>3, <3>1, <3>2, <3>3 DEF RlApart
    <3>4. QED
      BY <2>2, <3>2, <3>3
  <2>5. QED
    BY <2>4, FS_Singleton
<1>2. ASSUME rlClose = "exited", NEW p \in rlHeld
      PROVE  p \in rlSent \cup rlLost \cup RlPkts(rlPosting)
                     \cup (IF rlKind = "loki" \/ rlRun = "done" THEN {} ELSE RlPkts(rlBatch))
  <2>1. RlPkts(rlClosing) = {} /\ (rlBatch = {} => RlPkts(rlBatch) = {})
    BY <1>2 DEF RlInv, RlHeldInv, RlPkts
  <2>2. QED
    BY <1>2, <2>1 DEF RlInv, RlHeldInv
<1>3. QED
  BY <1>1, <1>2 DEF RemoteLogSafe

-----------------------------------------------------------------------------
(* The live stream broker. *)

WorkerInv ==
    /\ published \subseteq SeqElems(log)
    /\ \A p \in Publishers :
         /\ ppc[p] # "idle" => evt[p] \in Events
         /\ ppc[p] \in {"snapshot", "fanout", "send"} => evt[p] \in SeqElems(log)
         /\ ppc[p] = "send" => cur[p] \in Subs

ClientInv ==
    \A s \in Subs :
        /\ spc[s] \in {"replay", "live"} => s \in subs
        /\ s \in closed => spc[s] = "gone"

RingInv ==
    /\ ringLen = IF Len(log) < BufferSize THEN Len(log) ELSE BufferSize
    /\ ringHead = Len(log) % BufferSize
    /\ \A j \in 1 .. Len(log) : j > Len(log) - BufferSize => ring[(j - 1) % BufferSize] = log[j]

Covered(s) == sent[s] \cup SeqElems(ch[s]) \cup shed[s] \cup older[s]

Following(s) == spc[s] \in {"replay", "live"}

CoverInv ==
    \A s \in Subs : Following(s) =>
        /\ published \cap filter[s] \subseteq Covered(s)
        /\ \A p \in Publishers :
             ppc[p] \in {"fanout", "send"} /\ evt[p] \in filter[s] =>
                 \/ s \in left[p]
                 \/ ppc[p] = "send" /\ cur[p] = s
                 \/ evt[p] \in Covered(s)

BrokerInv == TypeOK /\ WorkerInv /\ ClientInv /\ RingInv /\ CoverInv
-------------------------------------------------------------------------------
(* Remainders.                                                             *)

LEMMA Division ==
    ASSUME NEW B \in Nat, B > 0, NEW a \in Nat
    PROVE  \E q \in Nat, r \in 0 .. B - 1 : a = B * q + r /\ a % B = r
<1>1. a = B * (a \div B) + (a % B) /\ a \div B \in Nat /\ a % B \in 0 .. B - 1
  OBVIOUS
<1> QED
  BY <1>1

LEMMA Remainder ==
    ASSUME NEW B \in Nat, B > 0, NEW q \in Nat, NEW r \in 0 .. B - 1
    PROVE  (B * q + r) % B = r
  OBVIOUS

\* A remainder may be taken before an addition too.
LEMMA RemainderOfSum ==
    ASSUME NEW B \in Nat, B > 0, NEW a \in Nat, NEW k \in Nat
    PROVE  ((a % B) + k) % B = (a + k) % B
<1>1. PICK q \in Nat, r \in 0 .. B - 1 : a = B * q + r /\ a % B = r
  BY Division
<1>2. PICK p \in Nat, t \in 0 .. B - 1 : r + k = B * p + t /\ (r + k) % B = t
  <2>1. r + k \in Nat
    OBVIOUS
  <2> QED
    BY <2>1, Division
<1>3. a + k = B * (q + p) + t
  <2>1. B * (q + p) = B * q + B * p
    OBVIOUS
  <2>2. B * q \in Nat /\ B * p \in Nat /\ B * (q + p) \in Nat
    OBVIOUS
  <2> QED
    BY <1>1, <1>2, <2>1, <2>2
<1>4. (B * (q + p) + t) % B = t
  <2>1. q + p \in Nat
    OBVIOUS
  <2> QED
    BY <2>1, Remainder
<1> QED
  BY <1>1, <1>2, <1>3, <1>4

LEMMA OneRoundFurther ==
    ASSUME NEW B \in Nat, B > 0, NEW a \in Nat
    PROVE  (a + B) % B = a % B
<1>1. PICK q \in Nat, r \in 0 .. B - 1 : a = B * q + r /\ a % B = r
  BY Division
<1>2. a + B = B * (q + 1) + r /\ q + 1 \in Nat
  BY <1>1
<1> QED
  BY <1>1, <1>2, Remainder

\* Less than one round apart are different places.
LEMMA DifferentPlaces ==
    ASSUME NEW B \in Nat, B > 0, NEW a \in Nat, NEW b \in Nat, a < b, b < a + B
    PROVE  a % B # b % B
<1>1. PICK q \in Nat, r \in 0 .. B - 1 : a = B * q + r /\ a % B = r
  BY Division
<1>2. PICK p \in Nat, t \in 0 .. B - 1 : b = B * p + t /\ b % B = t
  BY Division
<1> SUFFICES ASSUME r = t PROVE FALSE
  BY <1>1, <1>2
<1>3. B * p - B * q = B * (p - q) /\ B * p \in Nat /\ B * q \in Nat /\ p - q \in Int
  OBVIOUS
<1>4. B * (p - q) > 0 /\ B * (p - q) < B
  BY <1>1, <1>2, <1>3
<1>5. ASSUME NEW x \in Int, x > 0 PROVE B * x >= B
  BY <1>5
<1>6. ASSUME NEW x \in Int, x <= 0 PROVE B * x <= 0
  BY <1>6
<1> QED
  BY <1>3, <1>4, <1>5, <1>6
-------------------------------------------------------------------------------
(* Sequences of events.                                                    *)

LEMMA ElemsOfAppend ==
    ASSUME NEW S, NEW q \in Seq(S), NEW e \in S
    PROVE  SeqElems(Append(q, e)) = SeqElems(q) \cup {e}
<1>1. Len(Append(q, e)) = Len(q) + 1 /\ Append(q, e)[Len(q) + 1] = e /\ Len(q) \in Nat
  OBVIOUS
<1>2. \A i \in 1 .. Len(q) : Append(q, e)[i] = q[i]
  OBVIOUS
<1>3. 1 .. Len(q) + 1 = (1 .. Len(q)) \cup {Len(q) + 1}
  BY <1>1
<1> QED
  BY <1>1, <1>2, <1>3 DEF SeqElems

LEMMA ElemsOfTail ==
    ASSUME NEW S, NEW q \in Seq(S), q # <<>>
    PROVE  SeqElems(q) = SeqElems(Tail(q)) \cup {Head(q)}
<1>1. Len(q) \in Nat /\ Len(q) >= 1 /\ Head(q) = q[1] /\ Len(Tail(q)) = Len(q) - 1
  OBVIOUS
<1>2. \A i \in 1 .. Len(q) - 1 : Tail(q)[i] = q[i + 1]
  OBVIOUS
<1>3. SeqElems(q) \subseteq SeqElems(Tail(q)) \cup {Head(q)}
  <2> SUFFICES ASSUME NEW i \in 1 .. Len(q), i # 1 PROVE q[i] \in SeqElems(Tail(q))
    BY <1>1 DEF SeqElems
  <2>1. i - 1 \in 1 .. Len(Tail(q)) /\ Tail(q)[i - 1] = q[i]
    BY <1>1, <1>2
  <2> QED
    BY <2>1 DEF SeqElems
<1>4. SeqElems(Tail(q)) \cup {Head(q)} \subseteq SeqElems(q)
  BY <1>1, <1>2 DEF SeqElems
<1> QED
  BY <1>3, <1>4

\* The last k elements.
LEMMA LatestIs ==
    ASSUME NEW S, NEW q \in Seq(S), NEW k \in 0 .. Len(q)
    PROVE  SubSeq(q, Len(q) - k + 1, Len(q)) = [i \in 1 .. k |-> q[Len(q) - k + i]]
<1> DEFINE a == SubSeq(q, Len(q) - k + 1, Len(q))
           b == [i \in 1 .. k |-> q[Len(q) - k + i]]
<1>0. Len(q) \in Nat
  OBVIOUS
<1>1. a \in Seq(S) /\ Len(a) = k /\ \A i \in 1 .. k : a[i] = q[Len(q) - k + i]
  BY <1>0
<1>2. b \in Seq(S) /\ Len(b) = k
  BY <1>0
<1>3. \A i \in 1 .. k : b[i] = q[Len(q) - k + i]
  OBVIOUS
<1> HIDE DEF a, b
<1> QED
  BY <1>1, <1>2, <1>3, SeqEqual

LEMMA ElemsTyped ==
    ASSUME NEW S, NEW q \in Seq(S)
    PROVE  SeqElems(q) \subseteq S
  BY DEF SeqElems
-------------------------------------------------------------------------------
LEMMA InitBroker == Init => BrokerInv
<1> SUFFICES ASSUME Init PROVE BrokerInv
  OBVIOUS
<1> USE HepBrokerAssumption DEF Init
<1>1. TypeOK
  <2>1. ring \in [0 .. BufferSize - 1 -> Events \cup {None}] /\ ringHead \in 0 .. BufferSize - 1
        /\ ringLen \in 0 .. BufferSize /\ log \in Seq(Events)
    OBVIOUS
  <2>2. /\ ch \in [Subs -> Seq(Events)] /\ tokens \in [Subs -> 0 .. RatePerSubPPS]
        /\ filter \in [Subs -> SUBSET Events]
    OBVIOUS
  <2> QED
    BY <2>1, <2>2 DEF TypeOK
<1>2. WorkerInv /\ ClientInv /\ CoverInv
  BY DEF WorkerInv, ClientInv, CoverInv, Following
<1>3. RingInv
  <2>1. Len(log) = 0 /\ 0 % BufferSize = 0
    OBVIOUS
  <2> QED
    BY <2>1 DEF RingInv
<1> QED
  BY <1>1, <1>2, <1>3 DEF BrokerInv

\* Which entries History returns.
LEMMA HistoryTyped ==
    ASSUME NEW f \in SUBSET Events, NEW limit \in Nat
    PROVE  History(f, limit) \subseteq Events
  BY DEF History

LEMMA PublishType ==
    ASSUME TypeOK, WorkerInv, NEW p \in Publishers,
           Publishing(p) \/ \E e \in Events : Publish(p, e)
    PROVE  TypeOK'
<1> USE DEF TypeOK, ringVars, subVars, Goto
<1>0. BufferSize \in Nat /\ BufferSize > 0 /\ RatePerSubPPS \in Nat
  BY HepBrokerAssumption
<1>1. ASSUME NEW e \in Events, Publish(p, e) PROVE TypeOK'
  BY <1>1 DEF Publish
<1>2. CASE AppendToRing(p)
  <2>1. evt[p] \in Events
    BY <1>2 DEF AppendToRing, WorkerInv
  <2>2. ringHead' \in 0 .. BufferSize - 1 /\ ringLen' \in 0 .. BufferSize
    BY <1>0, <1>2 DEF AppendToRing
  <2>3. log' \in Seq(Events) /\ ring' \in [0 .. BufferSize - 1 -> Events \cup {None}]
    BY <1>2, <2>1 DEF AppendToRing
  <2> QED
    BY <1>2, <2>2, <2>3 DEF AppendToRing
<1>3. CASE Snapshot(p)
  BY <1>3 DEF Snapshot
<1>4. ASSUME NEW s \in Subs, Offer(p, s) PROVE TypeOK'
  <2>1. Bucket(s) \in 0 .. RatePerSubPPS
    BY <1>0 DEF Bucket
  <2>2. tokens' \in [Subs -> 0 .. RatePerSubPPS]
    BY <1>0, <1>4, <2>1 DEF Offer
  <2>5. evt[p] \in Events /\ (UNCHANGED shed \/ shed' = [shed EXCEPT ![s] = @ \cup {evt[p]}])
    BY <1>4 DEF Offer, Drop, WorkerInv
  <2>6. due' \in SUBSET Subs
    BY <1>4 DEF Offer
  <2>3. shed' \in [Subs -> SUBSET Events]
    <3>1. shed[s] \cup {evt[p]} \in SUBSET Events
      BY <2>5
    <3> QED
      BY <2>5, <3>1
  <2>4. /\ left' \in [Publishers -> SUBSET Subs] /\ cur' \in [Publishers -> Subs \cup {None}]
        /\ ppc' \in [Publishers -> {"idle", "ring", "snapshot", "fanout", "send"}]
    BY ZenonT(60), <1>4 DEF Offer
  <2> QED
    BY <1>4, <2>2, <2>3, <2>4, <2>6 DEF Offer
<1>5. CASE Send(p)
  <2>1. evt[p] \in Events /\ cur[p] \in Subs
    BY <1>5 DEF Send, WorkerInv
  <2>2. ch' \in [Subs -> Seq(Events)]
    <3>1. UNCHANGED ch \/ ch' = [ch EXCEPT ![cur[p]] = Append(ch[cur[p]], evt[p])]
      BY <1>5 DEF Send
    <3>2. Append(ch[cur[p]], evt[p]) \in Seq(Events)
      BY <2>1
    <3> QED
      BY <2>1, <3>1, <3>2
  <2>3. shed' \in [Subs -> SUBSET Events]
    <3>1. UNCHANGED shed \/ shed' = [shed EXCEPT ![cur[p]] = @ \cup {evt[p]}]
      BY <1>5 DEF Send, Drop
    <3> QED
      BY <2>1, <3>1
  <2>4. panicked' \in BOOLEAN /\ ppc' \in [Publishers -> {"idle", "ring", "snapshot", "fanout", "send"}]
        /\ cur' \in [Publishers -> Subs \cup {None}]
    BY <1>5 DEF Send
  <2> QED
    BY <1>5, <2>2, <2>3, <2>4 DEF Send
<1>6. CASE Return(p)
  <2>1. evt[p] \in Events
    BY <1>6 DEF Return, WorkerInv
  <2> QED
    BY <1>6, <2>1 DEF Return
<1> QED
  BY <1>1, <1>2, <1>3, <1>4, <1>5, <1>6 DEF Publishing

LEMMA ClientType ==
    ASSUME TypeOK, NEW s \in Subs, HandleStream(s) \/ Second(s)
    PROVE  TypeOK'
<1> USE DEF TypeOK, ringVars, subVars, pubVars, subRest
<1>1. CASE Subscribe(s)
  <2>1. Filters \subseteq SUBSET Events /\ RatePerSubPPS \in Nat
    BY HepBrokerAssumption
  <2>2. SeqElems(log) \subseteq Events
    BY ElemsTyped
  <2>3. tokens' \in [Subs -> 0 .. RatePerSubPPS] /\ filter' \in [Subs -> SUBSET Events]
    <3>1. UNCHANGED tokens \/ tokens' = [tokens EXCEPT ![s] = RatePerSubPPS]
      BY <1>1 DEF Subscribe
    <3>2. UNCHANGED filter \/ \E f \in Filters : filter' = [filter EXCEPT ![s] = f]
      BY <1>1 DEF Subscribe
    <3>3. RatePerSubPPS \in 0 .. RatePerSubPPS
      BY <2>1
    <3>4. tokens' \in [Subs -> 0 .. RatePerSubPPS]
      BY <3>1, <3>3
    <3>5. filter' \in [Subs -> SUBSET Events]
      <4>1. CASE UNCHANGED filter
        BY <4>1
      <4>2. ASSUME NEW f \in Filters, filter' = [filter EXCEPT ![s] = f]
            PROVE  filter' \in [Subs -> SUBSET Events]
        <5>1. f \in SUBSET Events
          BY <2>1
        <5> QED
          BY <4>2, <5>1
      <4> QED
        BY <3>2, <4>1, <4>2
    <3> QED
      BY <3>4, <3>5
  <2>4. older' \in [Subs -> SUBSET Events]
    <3>1. UNCHANGED older \/ older' = [older EXCEPT ![s] = SeqElems(log)]
      BY <1>1 DEF Subscribe
    <3> QED
      BY <2>2, <3>1
  <2>6. subs' \in SUBSET Subs
    BY <1>1 DEF Subscribe
  <2>5. spc' \in [Subs -> {"none", "replay", "live", "cancel", "gone"}]
    <3>1. spc' = [spc EXCEPT ![s] = "gone"] \/ spc' = [spc EXCEPT ![s] = "replay"]
      BY <1>1 DEF Subscribe
    <3> QED
      BY <3>1
  <2> QED
    BY <1>1, <2>3, <2>4, <2>5, <2>6 DEF Subscribe
<1>2. CASE Replay(s)
  <2> DEFINE past == IF HistoryLimit > 0 THEN History(filter[s], HistoryLimit) ELSE {}
  <2>1. past \subseteq Events
    BY HepBrokerAssumption, HistoryTyped
  <2>2. sent' = [sent EXCEPT ![s] = @ \cup past] /\ older' = [older EXCEPT ![s] = @ \ past]
    BY <1>2 DEF Replay
  <2> HIDE DEF past
  <2>3. sent' \in [Subs -> SUBSET Events] /\ older' \in [Subs -> SUBSET Events]
    BY <2>1, <2>2
  <2> QED
    BY <1>2, <2>3 DEF Replay
<1>3. CASE Forward(s)
  <2>1. Head(ch[s]) \in Events /\ Tail(ch[s]) \in Seq(Events)
    BY <1>3 DEF Forward
  <2> QED
    BY <1>3, <2>1 DEF Forward
<1>4. CASE Disconnect(s)
  BY <1>4 DEF Disconnect
<1>5. CASE CloseCh(s)
  BY <1>5 DEF CloseCh
<1>6. CASE Second(s)
  BY <1>6 DEF Second
<1> QED
  BY <1>1, <1>2, <1>3, <1>4, <1>5, <1>6 DEF HandleStream
-------------------------------------------------------------------------------
\* appendToRing puts the next event where the oldest one was.
LEMMA RingStep ==
    ASSUME TypeOK, WorkerInv, RingInv, NEW p \in Publishers, AppendToRing(p)
    PROVE  RingInv'
<1> DEFINE n == Len(log)
<1>0. /\ BufferSize \in Nat /\ BufferSize > 0 /\ n \in Nat
      /\ evt[p] \in Events /\ log \in Seq(Events)
  BY HepBrokerAssumption DEF TypeOK, AppendToRing, WorkerInv
<1>1. /\ Len(log') = n + 1 /\ log'[n + 1] = evt[p]
      /\ \A j \in 1 .. n : log'[j] = log[j]
  BY <1>0 DEF AppendToRing
<1>2. ringLen' = IF Len(log') < BufferSize THEN Len(log') ELSE BufferSize
  BY <1>0, <1>1 DEF AppendToRing, RingInv
<1>3. ringHead' = Len(log') % BufferSize
  <2>1. ((n % BufferSize) + 1) % BufferSize = (n + 1) % BufferSize
    BY <1>0, RemainderOfSum
  <2>2. ringHead' = ((n % BufferSize) + 1) % BufferSize
    BY DEF AppendToRing, RingInv
  <2> QED
    BY <1>1, <2>1, <2>2
<1>4. n % BufferSize \in 0 .. BufferSize - 1 /\ ring' = [ring EXCEPT ![n % BufferSize] = evt[p]]
  BY <1>0 DEF AppendToRing, RingInv
<1>5. ASSUME NEW j \in 1 .. n + 1, j > n + 1 - BufferSize
      PROVE  ring'[(j - 1) % BufferSize] = log'[j]
  <2>1. CASE j = n + 1
    BY <1>0, <1>1, <1>4, <2>1 DEF TypeOK
  <2>2. CASE j # n + 1
    <3>1. j \in 1 .. n /\ j > n - BufferSize /\ j - 1 \in Nat /\ j - 1 < n /\ n < (j - 1) + BufferSize
      BY <1>0, <1>5, <2>2
    <3>2. (j - 1) % BufferSize # n % BufferSize
      BY <1>0, <3>1, DifferentPlaces
    <3>3. ring[(j - 1) % BufferSize] = log[j] /\ (j - 1) % BufferSize \in 0 .. BufferSize - 1
      BY <1>0, <3>1 DEF RingInv
    <3> QED
      BY <1>1, <1>4, <3>1, <3>2, <3>3 DEF TypeOK
  <2> QED
    BY <2>1, <2>2
<1>6. \A j \in 1 .. Len(log') : j > Len(log') - BufferSize => ring'[(j - 1) % BufferSize] = log'[j]
  <2> SUFFICES ASSUME NEW j \in 1 .. Len(log'), j > Len(log') - BufferSize
               PROVE  ring'[(j - 1) % BufferSize] = log'[j]
    OBVIOUS
  <2>1. j \in 1 .. n + 1 /\ j > n + 1 - BufferSize
    BY <1>0, <1>1
  <2> QED
    BY <1>5, <2>1
<1> QED
  BY <1>2, <1>3, <1>6 DEF RingInv

\* No other step touches the ring.
LEMMA RingKept ==
    ASSUME RingInv, UNCHANGED ringVars
    PROVE  RingInv'
  BY DEF RingInv, ringVars

LEMMA WorkerStep ==
    ASSUME TypeOK, WorkerInv, NEW p \in Publishers,
           Publishing(p) \/ \E e \in Events : Publish(p, e)
    PROVE  WorkerInv'
<1> USE DEF Goto, ringVars
<1>0. /\ log \in Seq(Events) /\ ppc \in [Publishers -> {"idle", "ring", "snapshot", "fanout", "send"}]
      /\ evt \in [Publishers -> Events \cup {None}] /\ cur \in [Publishers -> Subs \cup {None}]
  BY DEF TypeOK
<1>1. ASSUME NEW e \in Events, Publish(p, e) PROVE WorkerInv'
  BY <1>0, <1>1 DEF Publish, WorkerInv
<1>2. CASE AppendToRing(p)
  <2>1. SeqElems(log') = SeqElems(log) \cup {evt[p]}
    BY <1>0, <1>2, ElemsOfAppend DEF AppendToRing, WorkerInv
  <2> QED
    BY <1>0, <1>2, <2>1 DEF AppendToRing, WorkerInv
<1>3. CASE Snapshot(p)
  BY <1>0, <1>3 DEF Snapshot, WorkerInv
<1>4. ASSUME NEW s \in Subs, Offer(p, s) PROVE WorkerInv'
  <2>1. /\ UNCHANGED <<log, published, evt>> /\ ppc[p] = "fanout"
        /\ \A q \in Publishers \ {p} : ppc'[q] = ppc[q] /\ cur'[q] = cur[q]
        /\ ppc'[p] = "fanout" \/ (ppc'[p] = "send" /\ cur'[p] = s)
    BY <1>0, <1>4 DEF Offer
  <2> QED
    BY <2>1 DEF WorkerInv
<1>5. CASE Send(p)
  <2>1. /\ UNCHANGED <<log, published, evt>> /\ ppc[p] = "send" /\ ppc'[p] = "fanout"
        /\ \A q \in Publishers \ {p} : ppc'[q] = ppc[q] /\ cur'[q] = cur[q]
    BY <1>0, <1>5 DEF Send
  <2> QED
    BY <2>1 DEF WorkerInv
<1>6. CASE Return(p)
  BY <1>0, <1>6 DEF Return, WorkerInv
<1> QED
  BY <1>1, <1>2, <1>3, <1>4, <1>5, <1>6 DEF Publishing

\* A worker's step leaves the handlers where they are.
LEMMA WorkerLeavesClients ==
    ASSUME NEW p \in Publishers, Publishing(p) \/ \E e \in Events : Publish(p, e)
    PROVE  UNCHANGED subVars /\ (UNCHANGED ringVars \/ AppendToRing(p))
  BY DEF Publishing, Publish, AppendToRing, Snapshot, Offer, Send, Return

LEMMA ClientStep ==
    ASSUME TypeOK, ClientInv, NEW s \in Subs, HandleStream(s) \/ Second(s)
    PROVE  ClientInv'
<1> USE DEF TypeOK, ClientInv, subVars
<1>1. CASE Subscribe(s)
  BY <1>1 DEF Subscribe
<1>2. CASE Replay(s)
  BY <1>2 DEF Replay
<1>3. CASE Forward(s)
  BY <1>3 DEF Forward
<1>4. CASE Disconnect(s)
  BY <1>4 DEF Disconnect
<1>5. CASE CloseCh(s)
  BY <1>5 DEF CloseCh
<1>6. CASE Second(s)
  BY <1>6 DEF Second
<1> QED
  BY <1>1, <1>2, <1>3, <1>4, <1>5, <1>6 DEF HandleStream

\* What a worker's step does to the events accounted for: it adds to them.
LEMMA CoveredGrows ==
    ASSUME TypeOK, WorkerInv, ClientInv, NEW p \in Publishers, NEW c \in Subs, Following(c),
           Publishing(p) \/ \E e \in Events : Publish(p, e)
    PROVE  Covered(c) \subseteq Covered(c)'
<1>0. /\ ch \in [Subs -> Seq(Events)] /\ shed \in [Subs -> SUBSET Events] /\ evt \in [Publishers -> Events \cup {None}]
      /\ UNCHANGED <<sent, older>>
  BY WorkerLeavesClients DEF TypeOK, subVars
<1>1. shed[c] \subseteq shed'[c]
  <2>1. shed' = shed \/ \E s \in Subs : Offer(p, s) \/ Send(p)
    BY DEF Publishing, Publish, AppendToRing, Snapshot, Return
  <2>2. ASSUME NEW s \in Subs, Offer(p, s)
        PROVE  shed' = shed \/ Drop(s, evt[p])
    BY <2>2 DEF Offer
  <2>3. Send(p) => shed' = shed \/ Drop(cur[p], evt[p])
    BY DEF Send
  <2>4. ASSUME NEW s, Drop(s, evt[p])
        PROVE  shed[c] \subseteq shed'[c]
    BY <1>0, <2>4 DEF Drop
  <2> QED
    BY <2>1, <2>2, <2>3, <2>4
<1>2. SeqElems(ch[c]) \subseteq SeqElems(ch'[c])
  <2>1. CASE UNCHANGED ch
    BY <2>1
  <2>2. CASE ch' = [ch EXCEPT ![cur[p]] = Append(ch[cur[p]], evt[p])] /\ ppc[p] = "send"
    <3>1. cur[p] \in Subs /\ evt[p] \in Events
      BY <2>2 DEF WorkerInv
    <3>2. SeqElems(Append(ch[cur[p]], evt[p])) = SeqElems(ch[cur[p]]) \cup {evt[p]}
      BY <1>0, <3>1, ElemsOfAppend
    <3> QED
      BY <1>0, <2>2, <3>1, <3>2
  <2> QED
    BY <2>1, <2>2 DEF Publishing, Publish, AppendToRing, Snapshot, Offer, Send, Return
<1> QED
  BY <1>0, <1>1, <1>2 DEF Covered

\* What CoverInv says of client c and worker q.
InHand(c, q) ==
    ppc[q] \in {"fanout", "send"} /\ evt[q] \in filter[c] =>
        \/ c \in left[q]
        \/ ppc[q] = "send" /\ cur[q] = c
        \/ evt[q] \in Covered(c)

\* The event that a worker takes from its snapshot is sent, not wanted or
\* dropped; the event it sends arrives or is dropped.
LEMMA WorkerHandsOver ==
    ASSUME TypeOK, WorkerInv, ClientInv, NEW p \in Publishers, NEW c \in Subs,
           Following(c), InHand(c, p),
           Publishing(p) \/ \E e \in Events : Publish(p, e)
    PROVE  InHand(c, p)'
<1>0. /\ ppc \in [Publishers -> {"idle", "ring", "snapshot", "fanout", "send"}]
      /\ evt \in [Publishers -> Events \cup {None}] /\ cur \in [Publishers -> Subs \cup {None}]
      /\ left \in [Publishers -> SUBSET Subs] /\ shed \in [Subs -> SUBSET Events] /\ ch \in [Subs -> Seq(Events)]
      /\ filter' = filter
      /\ Covered(c) \subseteq Covered(c)'
  BY WorkerLeavesClients, CoveredGrows DEF TypeOK, subVars
<1>1. CASE (\E e \in Events : Publish(p, e)) \/ AppendToRing(p) \/ Return(p)
  <2>1. ppc'[p] \notin {"fanout", "send"}
    BY <1>0, <1>1 DEF Publish, AppendToRing, Return, Goto
  <2> QED
    BY <2>1 DEF InHand
<1>2. CASE Snapshot(p)
  <2>1. c \in left'[p]
    BY <1>0, <1>2 DEF Snapshot, ClientInv, Following
  <2> QED
    BY <2>1 DEF InHand
<1>3. ASSUME NEW s \in Subs, Offer(p, s) PROVE InHand(c, p)'
  <2>1. ppc[p] = "fanout" /\ evt' = evt /\ left'[p] = left[p] \ {s}
    BY <1>0, <1>3 DEF Offer
  <2>2. CASE c # s
    BY <1>0, <2>1, <2>2 DEF InHand
  <2>3. CASE c = s /\ evt[p] \in filter[s]
    <3>1. (ppc'[p] = "send" /\ cur'[p] = s) \/ evt[p] \in shed'[s]
      BY <1>0, <1>3, <2>3 DEF Offer, Drop, Goto
    <3> QED
      BY <2>1, <2>3, <3>1 DEF InHand, Covered
  <2>4. CASE c = s /\ evt[p] \notin filter[s]
    BY <1>0, <2>1, <2>4 DEF InHand
  <2> QED
    BY <2>2, <2>3, <2>4
<1>4. CASE Send(p)
  <2>1. /\ ppc[p] = "send" /\ evt' = evt /\ left' = left /\ cur[p] \in Subs /\ evt[p] \in Events
    BY <1>4 DEF Send, WorkerInv
  <2>2. CASE cur[p] # c
    BY <1>0, <2>1, <2>2 DEF InHand
  <2>3. CASE cur[p] = c
    <3>1. c \notin closed
      BY DEF ClientInv, Following
    <3>2. ch' = [ch EXCEPT ![c] = Append(ch[c], evt[p])] \/ shed' = [shed EXCEPT ![c] = @ \cup {evt[p]}]
      BY <1>4, <2>3, <3>1 DEF Send, Drop
    <3>3. SeqElems(Append(ch[c], evt[p])) = SeqElems(ch[c]) \cup {evt[p]}
      BY <1>0, <2>1, ElemsOfAppend
    <3>4. evt[p] \in Covered(c)'
      BY ZenonT(60), <1>0, <3>2, <3>3 DEF Covered
    <3> QED
      BY <2>1, <3>4 DEF InHand
  <2> QED
    BY <2>2, <2>3
<1> QED
  BY <1>1, <1>2, <1>3, <1>4 DEF Publishing

LEMMA WorkerCover ==
    ASSUME TypeOK, WorkerInv, ClientInv, CoverInv, NEW p \in Publishers,
           Publishing(p) \/ \E e \in Events : Publish(p, e)
    PROVE  CoverInv'
<1> SUFFICES ASSUME NEW c \in Subs, Following(c)'
             PROVE  /\ published' \cap filter'[c] \subseteq Covered(c)'
                    /\ \A q \in Publishers : InHand(c, q)'
  BY DEF CoverInv, InHand
<1>0. Following(c) /\ UNCHANGED subVars
  BY WorkerLeavesClients DEF Following, subVars
<1>1. Covered(c) \subseteq Covered(c)' /\ filter' = filter
  BY <1>0, CoveredGrows DEF subVars
<1>2. published \cap filter[c] \subseteq Covered(c) /\ \A q \in Publishers : InHand(c, q)
  BY <1>0 DEF CoverInv, InHand
<1>3. InHand(c, p)'
  BY <1>0, <1>2, WorkerHandsOver
<1>4. ASSUME NEW q \in Publishers \ {p} PROVE InHand(c, q)'
  <2>1. ppc'[q] = ppc[q] /\ evt'[q] = evt[q] /\ left'[q] = left[q] /\ cur'[q] = cur[q]
    BY DEF Publishing, Publish, AppendToRing, Snapshot, Offer, Send, Return, Goto, TypeOK
  <2> QED
    BY <1>1, <1>2, <2>1 DEF InHand
<1>5. published' \cap filter'[c] \subseteq Covered(c)'
  <2>1. CASE published' = published
    BY <1>1, <1>2, <2>1
  <2>2. CASE Return(p)
    <3>1. published' = published \cup {evt[p]} /\ ppc[p] = "fanout" /\ left[p] = {}
      BY <2>2 DEF Return
    <3>2. evt[p] \in filter[c] => evt[p] \in Covered(c)
      BY <1>2, <3>1 DEF InHand
    <3> QED
      BY <1>1, <1>2, <3>1, <3>2
  <2> QED
    BY <2>1, <2>2 DEF Publishing, Publish, AppendToRing, Snapshot, Offer, Send
<1> QED
  BY <1>3, <1>4, <1>5

LEMMA ClientCover ==
    ASSUME TypeOK, WorkerInv, ClientInv, CoverInv, NEW s \in Subs, HandleStream(s) \/ Second(s)
    PROVE  CoverInv'
<1> SUFFICES ASSUME NEW c \in Subs, Following(c)'
             PROVE  /\ published' \cap filter'[c] \subseteq Covered(c)'
                    /\ \A q \in Publishers : InHand(c, q)'
  BY DEF CoverInv, InHand
<1>0. /\ UNCHANGED <<shed, ringVars, pubVars>>
      /\ spc \in [Subs -> {"none", "replay", "live", "cancel", "gone"}]
      /\ filter \in [Subs -> SUBSET Events] /\ older \in [Subs -> SUBSET Events]
      /\ ch \in [Subs -> Seq(Events)] /\ sent \in [Subs -> SUBSET Events]
  BY DEF TypeOK, HandleStream, Subscribe, Replay, Forward, Disconnect, CloseCh, Second, subRest
\* A new subscription starts with everything in the log as older, and no worker
\* is past appendToRing with an event that is not in it.
<1>1. CASE Subscribe(s) /\ c = s
  <2>1. older'[c] = SeqElems(log)
    BY <1>0, <1>1 DEF Subscribe, Following
  <2>2. SeqElems(log) \subseteq Covered(c)'
    BY <2>1 DEF Covered
  <2> QED
    BY <1>0, <2>2 DEF WorkerInv, InHand, pubVars
\* Every other step keeps what the client accounts for.
<1>2. CASE ~(Subscribe(s) /\ c = s)
  <2>1. Following(c) /\ filter'[c] = filter[c]
    BY <1>0, <1>2 DEF HandleStream, Subscribe, Replay, Forward, Disconnect, CloseCh, Second, Following, subVars
  <2>2. Covered(c) \subseteq Covered(c)'
    <3>1. CASE Replay(s)
      <4> DEFINE past == IF HistoryLimit > 0 THEN History(filter[s], HistoryLimit) ELSE {}
      <4>1. sent' = [sent EXCEPT ![s] = @ \cup past] /\ older' = [older EXCEPT ![s] = @ \ past] /\ UNCHANGED ch
        BY <3>1 DEF Replay
      <4> HIDE DEF past
      <4> QED
        BY <1>0, <4>1 DEF Covered
    <3>2. CASE Forward(s)
      <4>1. SeqElems(ch[s]) = SeqElems(Tail(ch[s])) \cup {Head(ch[s])}
        BY <1>0, <3>2, ElemsOfTail DEF Forward
      <4>2. /\ sent' = [sent EXCEPT ![s] = @ \cup {Head(ch[s])}] /\ ch' = [ch EXCEPT ![s] = Tail(ch[s])]
            /\ UNCHANGED older
        BY <3>2 DEF Forward
      <4> QED
        BY <1>0, <4>1, <4>2 DEF Covered
    <3>3. CASE Subscribe(s) \/ Disconnect(s) \/ CloseCh(s) \/ Second(s)
      <4>1. sent'[c] = sent[c] /\ ch'[c] = ch[c] /\ older'[c] = older[c]
        BY <1>0, <1>2, <3>3 DEF Subscribe, Disconnect, CloseCh, Second, subVars
      <4> QED
        BY <1>0, <4>1 DEF Covered
    <3> QED
      BY <3>1, <3>2, <3>3 DEF HandleStream
  <2> QED
    BY <1>0, <2>1, <2>2 DEF CoverInv, InHand, pubVars
<1> QED
  BY <1>1, <1>2

LEMMA BrokerStep ==
    ASSUME BrokerInv, [Next]_vars
    PROVE  BrokerInv'
<1> USE DEF BrokerInv
<1>1. ASSUME NEW p \in Publishers, Publishing(p) \/ \E e \in Events : Publish(p, e)
      PROVE  BrokerInv'
  <2>1. UNCHANGED subVars /\ (UNCHANGED ringVars \/ AppendToRing(p))
    BY <1>1, WorkerLeavesClients
  <2>2. ClientInv'
    <3>1. UNCHANGED <<subs, closed, spc>>
      BY <2>1 DEF subVars
    <3> QED
      BY <3>1 DEF ClientInv
  <2> QED
    BY <1>1, <2>1, <2>2, PublishType, WorkerStep, RingStep, RingKept, WorkerCover
<1>2. ASSUME NEW s \in Subs, HandleStream(s) \/ Second(s)
      PROVE  BrokerInv'
  <2>1. UNCHANGED <<ringVars, pubVars>>
    BY <1>2 DEF HandleStream, Subscribe, Replay, Forward, Disconnect, CloseCh, Second, subRest
  <2>2. WorkerInv'
    BY <2>1 DEF WorkerInv, ringVars, pubVars
  <2> QED
    BY <1>2, <2>1, <2>2, ClientType, ClientStep, RingKept, ClientCover
<1>3. CASE UNCHANGED vars
  BY <1>3 DEF vars, ringVars, subVars, pubVars, TypeOK, WorkerInv, ClientInv, RingInv, CoverInv, Covered, Following
<1> QED
  BY <1>1, <1>2, <1>3 DEF Next, Done

LEMMA InductiveBrokerInv == Spec => []BrokerInv
  BY InitBroker, BrokerStep, PTL DEF Spec

\* Type correctness of the broker, its subscribers and its workers.
THEOREM BrokerTypeCorrect == Spec => []TypeOK
<1>1. BrokerInv => TypeOK
  BY DEF BrokerInv
<1> QED
  BY <1>1, InductiveBrokerInv, PTL

\* appendToRing and bufferedEvents (broker.go) agree on where the oldest entry
\* is, before and after the ring wraps, for every BufferSize.
THEOREM RingReadsLatest == Spec => []RingHoldsLatest
<1>1. ASSUME BrokerInv PROVE RingHoldsLatest
  <2> DEFINE n == Len(log)
             start == IF ringLen = BufferSize THEN ringHead ELSE 0
  <2>0. /\ BufferSize \in Nat /\ BufferSize > 0 /\ n \in Nat /\ log \in Seq(Events)
        /\ ringLen \in Nat /\ ringLen <= n /\ ringLen <= BufferSize
        /\ ringLen < BufferSize => ringLen = n
    <3>1. BufferSize \in Nat /\ BufferSize > 0
      BY HepBrokerAssumption
    <3>2. log \in Seq(Events) /\ n \in Nat
      BY <1>1 DEF BrokerInv, TypeOK
    <3>3. ringLen = IF n < BufferSize THEN n ELSE BufferSize
      BY <1>1 DEF BrokerInv, RingInv
    <3> QED
      BY <3>1, <3>2, <3>3
  <2>1. ASSUME NEW i \in 1 .. ringLen
        PROVE  ring[(start + i - 1) % BufferSize] = log[n - ringLen + i]
    <3> DEFINE j == n - ringLen + i
    <3>1. j \in 1 .. n /\ j > n - BufferSize /\ j - 1 \in Nat /\ i - 1 \in Nat
      BY <2>0
    <3>2. ring[(j - 1) % BufferSize] = log[j]
      BY <1>1, <3>1 DEF BrokerInv, RingInv
    <3>3. (start + i - 1) % BufferSize = (j - 1) % BufferSize
      <4>1. CASE ringLen < BufferSize
        <5>1. start = 0 /\ start + i - 1 = j - 1
          BY <2>0, <4>1
        <5> QED
          BY <5>1
      <4>2. CASE ringLen = BufferSize
        <5>1. start = n % BufferSize
          BY <1>1, <4>2 DEF BrokerInv, RingInv
        <5>2. ((n % BufferSize) + (i - 1)) % BufferSize = (n + (i - 1)) % BufferSize
          BY <2>0, <3>1, RemainderOfSum
        <5>3. n + (i - 1) = (j - 1) + BufferSize
          BY <2>0, <4>2
        <5>4. ((j - 1) + BufferSize) % BufferSize = (j - 1) % BufferSize
          BY <2>0, <3>1, OneRoundFurther
        <5>5. start + i - 1 = (n % BufferSize) + (i - 1)
          BY <2>0, <5>1
        <5> QED
          BY <5>2, <5>3, <5>4, <5>5
      <4> QED
        BY <2>0, <4>1, <4>2
    <3> QED
      BY <3>2, <3>3
  <2>2. Latest(ringLen, log) = [i \in 1 .. ringLen |-> log[n - ringLen + i]]
    <3>1. ringLen \in 0 .. Len(log)
      BY <2>0
    <3> QED
      BY <2>0, <3>1, LatestIs DEF Latest
  <2>3. BufferedEvents = [i \in 1 .. ringLen |-> ring[(start + i - 1) % BufferSize]]
    BY DEF BufferedEvents
  <2> HIDE DEF start, n
  <2> QED
    BY <2>1, <2>2, <2>3 DEF RingHoldsLatest
<1> QED
  BY <1>1, InductiveBrokerInv, PTL

\* handleStream subscribes before it replays: no event falls between the history
\* and the live stream, however many workers publish meanwhile.
THEOREM NothingFallsBetween == Spec => []NoGap
<1>1. ASSUME BrokerInv PROVE NoGap
  BY <1>1 DEF BrokerInv, CoverInv, Following, Covered, NoGap
<1> QED
  BY <1>1, InductiveBrokerInv, PTL
=============================================================================
