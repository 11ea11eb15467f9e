----------------------------- MODULE NodeHandle -----------------------------
(***************************************************************************)
(* The database handles of a node and the locks around them.  A node on    *)
(* its own never sees what the writer adds to the catalog, so it opens a   *)
(* new DuckDB from time to time, attaches the volumes, puts the handle in  *)
(* the place of the old one and closes that.  Handlers take the handle and *)
(* run their statement later.  Actors: Start, the FlightSQL refresher, the *)
(* credential refresher, Stop, and requests over HTTP, FlightSQL, Airport. *)
(*                                                                         *)
(* Locks: n.mu (readers hold it for one read, so only its writer is kept), *)
(* refreshMu, and s.mu of the FlightSQL server.  External: DuckDB, gRPC    *)
(* and net/http (Shutdown and GracefulStop wait for requests, 5 s at most).*)
(***************************************************************************)
EXTENDS Naturals, FiniteSets

CONSTANTS
    NhRequests,
    NhVolumes,
    NhMaxHandles        \* handles the node opens

ASSUME NodeHandleAssumption == NhVolumes # {} /\ NhMaxHandles \in Nat \ {0}

VARIABLES
    nhCfg,              \* shared (the writer's database is used), fsql, chain
    nhDb, nhVols,       \* n.db, n.volumes
    nhCat,              \* the handle the Airport catalog's tables hold
    nhOpen,             \* handles that are open
    nhAttached,         \* handle -> volumes attached; its length counts the handles
    nhMu, nhRefreshMu, nhSMu,   \* who holds the lock, or "none"
    nhPc,               \* actor -> where it is
    nhOld,              \* the handle a refresh has replaced
    nhCcDb,             \* the handle the credential refresher uses
    nhRunning, nhFsqlRunning, nhStopCc,
    nhStopRefresh,      \* s.stopRefresh: open, closed, nil
    nhReq,              \* request -> what it is and where
    \* Observer.
    nhSwapped           \* requests that saw the handle replaced or closed under them

nhVars == <<nhCfg, nhDb, nhVols, nhCat, nhOpen, nhAttached, nhMu, nhRefreshMu, nhSMu, nhPc,
            nhOld, nhCcDb, nhRunning, nhFsqlRunning, nhStopCc, nhStopRefresh, nhReq, nhSwapped>>

NhActors == {"start", "fs", "cc", "stop"}
NoRequest == [kind |-> "none", at |-> "none", vols |-> {}, db |-> 0, res |-> "none"]
WriterDb == 0           \* sharedDB: not the node's to close

\* New: the first handle, with the volumes that could be attached.
NhInit ==
    /\ nhCfg \in [shared : BOOLEAN, fsql : BOOLEAN, chain : BOOLEAN]
    /\ nhDb = 1 /\ nhCat = 1 /\ nhOpen = {1}
    /\ nhVols \in SUBSET NhVolumes \ {{}}
    /\ nhAttached = [h \in {1} |-> nhVols]
    /\ nhMu = "none" /\ nhRefreshMu = "none" /\ nhSMu = "none"
    /\ nhPc = [start |-> "refreshMu", fs |-> "none", cc |-> "none", stop |-> "none"]
    /\ nhOld = 0 /\ nhCcDb = 0
    /\ nhRunning = FALSE /\ nhFsqlRunning = FALSE /\ nhStopCc = FALSE
    /\ nhStopRefresh = "nil"
    /\ nhReq = [r \in NhRequests |-> NoRequest]
    /\ nhSwapped = {}

nhHandles == <<nhDb, nhVols, nhCat, nhOpen, nhAttached, nhOld>>
nhLocks == <<nhMu, nhRefreshMu, nhSMu>>
nhFlags == <<nhCfg, nhRunning, nhFsqlRunning, nhStopCc, nhStopRefresh>>

Goto(p, l) == nhPc' = [nhPc EXCEPT ![p] = l]
InFlight == {r \in NhRequests : nhReq[r].at \notin {"none", "end"}}
NoHandleOrRequest == UNCHANGED <<nhHandles, nhCcDb, nhReq, nhSwapped>>

-----------------------------------------------------------------------------
(* refreshCatalog, called by Start and by the FlightSQL refresher. *)

RcLock(p) ==
    /\ nhPc[p] = "refreshMu" /\ nhRefreshMu = "none"
    /\ nhRefreshMu' = p /\ Goto(p, "configure")
    /\ UNCHANGED <<nhMu, nhSMu, nhFlags>> /\ NoHandleOrRequest

\* configureDuckLake: volumes that cannot be attached are left out; none at all
\* is an error, and the handle is closed again.
configureDuckLake(p) ==
    /\ nhPc[p] = "configure"
    /\ \/ Goto(p, "unrefresh") /\ UNCHANGED nhHandles
       \/ \E vols \in SUBSET NhVolumes \ {{}} :
            LET h == Cardinality(DOMAIN nhAttached) + 1
            IN /\ h <= NhMaxHandles
               /\ nhAttached' = [g \in 1..h |-> IF g = h THEN vols ELSE nhAttached[g]]
               /\ nhOpen' = nhOpen \cup {h}
               /\ Goto(p, "swap")
               /\ UNCHANGED <<nhDb, nhVols, nhCat, nhOld>>
    /\ UNCHANGED <<nhLocks, nhFlags, nhCcDb, nhReq, nhSwapped>>

\* Mutant: the old handle is closed while the catalog's tables still hold it.
RcSwapCloses(p) ==
    LET h == Cardinality(DOMAIN nhAttached)
    IN /\ nhPc[p] = "swap" /\ nhMu = "none"
       /\ nhOld' = nhDb /\ nhDb' = h /\ nhVols' = nhAttached[h] /\ nhOpen' = nhOpen \ {nhDb}
       /\ nhSwapped' = nhSwapped \cup InFlight
       /\ Goto(p, "replace")
       /\ UNCHANGED <<nhCat, nhAttached, nhLocks, nhFlags, nhCcDb, nhReq>>

RcSwap(p) ==
    LET h == Cardinality(DOMAIN nhAttached)
    IN /\ nhPc[p] = "swap" /\ nhMu = "none"
       /\ nhOld' = nhDb /\ nhDb' = h /\ nhVols' = nhAttached[h]
       /\ nhSwapped' = nhSwapped \cup InFlight
       /\ Goto(p, "replace")
       /\ UNCHANGED <<nhCat, nhOpen, nhAttached, nhLocks, nhFlags, nhCcDb, nhReq>>

\* DuckLakeCatalog.replaceDB
replaceDB(p) ==
    /\ nhPc[p] = "replace"
    /\ nhCat' = nhDb
    /\ nhSwapped' = nhSwapped \cup InFlight
    /\ Goto(p, "close")
    /\ UNCHANGED <<nhDb, nhVols, nhOpen, nhAttached, nhOld, nhLocks, nhFlags, nhCcDb, nhReq>>

RcClose(p) ==
    /\ nhPc[p] = "close"
    /\ nhOpen' = nhOpen \ {nhOld}
    /\ Goto(p, "unrefresh")
    /\ UNCHANGED <<nhDb, nhVols, nhCat, nhAttached, nhOld, nhLocks, nhFlags, nhCcDb, nhReq, nhSwapped>>

RcUnlock(p) ==
    /\ nhPc[p] = "unrefresh"
    /\ nhRefreshMu' = "none"
    /\ Goto(p, IF p = "start" THEN "listen" ELSE "unlockS")
    /\ UNCHANGED <<nhMu, nhSMu, nhFlags>> /\ NoHandleOrRequest

refreshCatalog(p) ==
    RcLock(p) \/ configureDuckLake(p) \/ RcSwap(p) \/ replaceDB(p) \/ RcClose(p) \/ RcUnlock(p)

\* Start, after the refresh: the servers and the two refreshers.  An address in
\* use makes it fail, and main exits.
NhStart ==
    /\ nhPc["start"] = "listen" /\ nhMu = "none"
    /\ \/ Goto("start", "failed") /\ UNCHANGED nhFlags
       \/ LET own == ~nhCfg.shared
          IN /\ nhRunning' = TRUE
             /\ nhFsqlRunning' = nhCfg.fsql
             /\ nhStopRefresh' = IF nhCfg.fsql /\ own THEN "open" ELSE "nil"
             /\ nhPc' = [nhPc EXCEPT !["start"] = "done",
                                     !["fs"] = IF nhCfg.fsql /\ own THEN "enter" ELSE "none",
                                     !["cc"] = IF nhCfg.chain /\ own THEN "select" ELSE "none"]
             /\ UNCHANGED <<nhCfg, nhStopCc>>
    /\ UNCHANGED nhLocks /\ NoHandleOrRequest

-----------------------------------------------------------------------------
(* The goroutine of fsqlServer.Start.  Each round of its loop reads the field *)
(* stopRefresh, which Stop sets to nil after closing the channel.             *)

FsEnter ==
    /\ nhPc["fs"] = "enter"
    /\ Goto("fs", IF nhStopRefresh = "nil" THEN "deaf" ELSE "select")
    /\ UNCHANGED <<nhLocks, nhFlags>> /\ NoHandleOrRequest

FsTick ==
    /\ nhPc["fs"] \in {"select", "deaf"}
    /\ Goto("fs", "lockS")
    /\ UNCHANGED <<nhLocks, nhFlags>> /\ NoHandleOrRequest

FsStopped ==
    /\ nhPc["fs"] = "select" /\ nhStopRefresh # "open"
    /\ Goto("fs", "done")
    /\ UNCHANGED <<nhLocks, nhFlags>> /\ NoHandleOrRequest

FsLock ==
    /\ nhPc["fs"] = "lockS" /\ nhSMu = "none"
    /\ nhSMu' = "fs"
    /\ Goto("fs", IF nhFsqlRunning THEN "refreshMu" ELSE "unlockS")
    /\ UNCHANGED <<nhMu, nhRefreshMu, nhFlags>> /\ NoHandleOrRequest

FsUnlock ==
    /\ nhPc["fs"] = "unlockS"
    /\ nhSMu' = "none" /\ Goto("fs", "enter")
    /\ UNCHANGED <<nhMu, nhRefreshMu, nhFlags>> /\ NoHandleOrRequest

-----------------------------------------------------------------------------
(* refreshCredentialChainSecrets *)

CcTick ==
    /\ nhPc["cc"] = "select"
    /\ Goto("cc", "refreshMu")
    /\ UNCHANGED <<nhLocks, nhFlags>> /\ NoHandleOrRequest

CcStopped ==
    /\ nhPc["cc"] = "select" /\ nhStopCc
    /\ Goto("cc", "done")
    /\ UNCHANGED <<nhLocks, nhFlags>> /\ NoHandleOrRequest

CcLock ==
    /\ nhPc["cc"] = "refreshMu" /\ nhRefreshMu = "none"
    /\ nhRefreshMu' = "cc" /\ Goto("cc", "read")
    /\ UNCHANGED <<nhMu, nhSMu, nhFlags>> /\ NoHandleOrRequest

CcRead ==
    /\ nhPc["cc"] = "read" /\ nhMu = "none"
    /\ nhCcDb' = nhDb /\ Goto("cc", "exec")
    /\ UNCHANGED <<nhHandles, nhLocks, nhFlags, nhReq, nhSwapped>>

\* DROP SECRET and CREATE SECRET for each volume; errors are logged.
CcExec ==
    /\ nhPc["cc"] = "exec"
    /\ nhRefreshMu' = "none" /\ Goto("cc", "select")
    /\ UNCHANGED <<nhMu, nhSMu, nhFlags>> /\ NoHandleOrRequest

-----------------------------------------------------------------------------
(* Requests. *)

\* The servers accept requests from Start until Stop turns to them.
Accepting(kind) ==
    /\ nhRunning
    /\ CASE kind \in {"http", "vacuum"} -> nhPc["stop"] \in {"none", "takeCc", "join", "lock"}
         [] kind = "fsql" -> nhCfg.fsql
                             /\ nhPc["stop"] \in {"none", "takeCc", "join", "lock", "http", "lockS"}
         [] kind = "airport" -> nhPc["stop"] # "done"

\* A query is rewritten for the volumes before it asks for the handle; Airport
\* tables bring theirs.
NhRequest(r, kind) ==
    /\ nhReq[r].at = "none" /\ Accepting(kind)
    /\ nhReq' = [nhReq EXCEPT ![r] =
         [kind |-> kind, at |-> IF kind = "airport" THEN "run" ELSE "db",
          vols |-> IF kind = "airport" THEN nhAttached[nhCat]
                   ELSE IF nhCfg.shared /\ kind # "vacuum" THEN {} ELSE nhVols,
          db |-> nhCat, res |-> "none"]]
    /\ UNCHANGED <<nhHandles, nhLocks, nhFlags, nhPc, nhCcDb, nhSwapped>>

\* queryDB; handleVacuum and handleMetadataStats read n.db without the lock.
queryDB(r) ==
    /\ nhReq[r].at = "db"
    /\ nhReq[r].kind # "vacuum" => nhMu = "none"
    /\ nhReq' = [nhReq EXCEPT ![r].at = "run",
                              ![r].db = IF nhCfg.shared /\ nhReq[r].kind # "vacuum"
                                        THEN WriterDb ELSE nhDb]
    /\ UNCHANGED <<nhHandles, nhLocks, nhFlags, nhPc, nhCcDb, nhSwapped>>

\* The statement itself.
NhRun(r) ==
    LET q == nhReq[r]
    IN /\ q.at = "run"
       /\ nhReq' = [nhReq EXCEPT ![r].at = "end",
            ![r].res = CASE q.db = WriterDb -> "ok"
                         [] q.db \notin nhOpen \cup {WriterDb} -> "closed"
                         [] q.db \in nhOpen /\ ~(q.vols \subseteq nhAttached[q.db]) -> "no catalog"
                         [] OTHER -> "ok"]
       /\ UNCHANGED <<nhHandles, nhLocks, nhFlags, nhPc, nhCcDb, nhSwapped>>

-----------------------------------------------------------------------------
(* Stop.  Waiting for requests ends when there are none or after 5 s. *)

StopStep(from, to) == nhPc["stop"] = from /\ Goto("stop", to)

StopBegin ==
    /\ nhPc["start"] = "done" /\ nhMu = "none"
    /\ StopStep("none", IF nhRunning THEN "takeCc" ELSE "done")
    /\ UNCHANGED <<nhLocks, nhFlags>> /\ NoHandleOrRequest

\* stopCredentialChainRefresh
StopTakeCc ==
    /\ nhMu = "none" /\ StopStep("takeCc", "join")
    /\ nhStopCc' = TRUE
    /\ UNCHANGED <<nhCfg, nhRunning, nhFsqlRunning, nhStopRefresh, nhLocks>> /\ NoHandleOrRequest

StopJoin ==
    /\ nhPc["cc"] \in {"none", "done"} /\ StopStep("join", "lock")
    /\ UNCHANGED <<nhLocks, nhFlags>> /\ NoHandleOrRequest

StopLock ==
    /\ nhMu = "none" /\ StopStep("lock", "http")
    /\ nhMu' = "stop"
    /\ UNCHANGED <<nhRefreshMu, nhSMu, nhFlags>> /\ NoHandleOrRequest

StopHTTP ==
    /\ StopStep("http", IF nhCfg.fsql THEN "lockS" ELSE "grpc")
    /\ UNCHANGED <<nhLocks, nhFlags>> /\ NoHandleOrRequest

\* fsqlServer.Stop
StopFsqlLock ==
    /\ nhSMu = "none" /\ StopStep("lockS", "fsql")
    /\ nhSMu' = "stop"
    /\ nhStopRefresh' = "nil"
    /\ UNCHANGED <<nhMu, nhRefreshMu, nhCfg, nhRunning, nhFsqlRunning, nhStopCc>>
    /\ NoHandleOrRequest

StopFsql ==
    /\ StopStep("fsql", "grpc")
    /\ nhSMu' = "none" /\ nhFsqlRunning' = FALSE
    /\ UNCHANGED <<nhMu, nhRefreshMu, nhCfg, nhRunning, nhStopCc, nhStopRefresh>>
    /\ NoHandleOrRequest

\* The Airport server, and then the handle.
StopClose ==
    /\ StopStep("grpc", "done")
    /\ nhRunning' = FALSE /\ nhMu' = "none"
    /\ nhOpen' = nhOpen \ {nhDb}
    /\ nhSwapped' = nhSwapped \cup InFlight
    /\ UNCHANGED <<nhDb, nhVols, nhCat, nhAttached, nhOld, nhRefreshMu, nhSMu, nhCfg,
                   nhFsqlRunning, nhStopCc, nhStopRefresh, nhCcDb, nhReq>>

NhStop == StopBegin \/ StopTakeCc \/ StopJoin \/ StopLock \/ StopHTTP \/ StopFsqlLock
          \/ StopFsql \/ StopClose

NhNext ==
    \/ refreshCatalog("start") \/ refreshCatalog("fs") \/ NhStart
    \/ FsEnter \/ FsTick \/ FsStopped \/ FsLock \/ FsUnlock
    \/ CcTick \/ CcStopped \/ CcLock \/ CcRead \/ CcExec
    \/ \E r \in NhRequests :
          \/ \E kind \in {"http", "fsql", "airport", "vacuum"} : NhRequest(r, kind)
          \/ queryDB(r) \/ NhRun(r)
    \/ NhStop

-----------------------------------------------------------------------------
(* Properties. *)

\* Stop holds n.mu and waits for s.mu in fsqlServer.Stop; the FlightSQL refresher
\* holds s.mu and waits for n.mu in refreshCatalog.  Neither wait has a timeout.
LockCycle == nhMu = "stop" /\ nhPc["stop"] = "lockS" /\ nhSMu = "fs" /\ nhPc["fs"] = "swap"

\* Steps that do not wait for a timer or a new request.
NhWork == NhStop \/ refreshCatalog("fs") \/ FsLock \/ FsUnlock
          \/ CcStopped \/ CcLock \/ CcRead \/ CcExec

\* The guards of NhWork: one of its steps can be taken.
NhMoving ==
    \/ nhPc["stop"] = "none" /\ nhPc["start"] = "done" /\ nhMu = "none"
    \/ nhPc["stop"] \in {"takeCc", "lock"} /\ nhMu = "none"
    \/ nhPc["stop"] = "join" /\ nhPc["cc"] \in {"none", "done"}
    \/ nhPc["stop"] = "lockS" /\ nhSMu = "none"
    \/ nhPc["stop"] \in {"http", "fsql", "grpc"}
    \/ nhPc["fs"] = "refreshMu" /\ nhRefreshMu = "none"
    \/ nhPc["fs"] = "swap" /\ nhMu = "none"
    \/ nhPc["fs"] = "lockS" /\ nhSMu = "none"
    \/ nhPc["fs"] \in {"configure", "replace", "close", "unrefresh", "unlockS"}
    \/ nhPc["cc"] = "select" /\ nhStopCc
    \/ nhPc["cc"] = "refreshMu" /\ nhRefreshMu = "none"
    \/ nhPc["cc"] = "read" /\ nhMu = "none"
    \/ nhPc["cc"] = "exec"

\* Handles and locks of a node: n.db and the Airport catalog always name an open
\* handle until Stop closes the last one (refreshCatalog swaps, then replaces, then
\* closes); the credential refresher never runs on a closed handle (it holds
\* refreshMu and Stop joins it); after Stop no handle is left open and the
\* credential refresher is gone; a request meets a closed handle, or volumes its
\* handle does not have, only if a refresh or Stop overtook it; and the only way
\* Stop can hang is the cycle of n.mu and s.mu above.
NodeHandleSafe ==
    /\ nhPc["stop"] # "done" => {nhDb, nhCat} \subseteq nhOpen
    /\ nhPc["cc"] = "exec" => nhCcDb \in nhOpen
    /\ nhPc["stop"] = "done" => nhOpen = {} /\ nhPc["cc"] \in {"none", "done"}
    /\ \A r \in NhRequests : nhReq[r].res \in {"closed", "no catalog"} => r \in nhSwapped
    /\ nhPc["stop"] \notin {"none", "done"} /\ ~NhMoving => LockCycle
=============================================================================
