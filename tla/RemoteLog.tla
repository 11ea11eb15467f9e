----------------------------- MODULE RemoteLog -----------------------------
(***************************************************************************)
(* A remote logging client (Loki, Elasticsearch or line protocol) behind   *)
(* an ingest worker.  The worker decodes a packet into a HEP struct of a   *)
(* pool, hands the pointer to the client's queue, stores the packet and    *)
(* returns the struct to the pool.  The client's goroutine collects what   *)
(* it takes from the queue and posts it when there is enough of it, when   *)
(* its timer fires, or at the end.  Writer.Stop closes the client once the *)
(* workers have returned, and nothing waits for the client's goroutine.    *)
(*                                                                         *)
(* A struct's content is the packet it holds and whether its SipMsg is     *)
(* there.  External: the log server, which takes a POST or not.            *)
(***************************************************************************)
EXTENDS Naturals, Sequences, FiniteSets

CONSTANTS
    RlPackets,      \* packets, numbered in the order in which they arrive
    RlLogged,       \* packets that HEPFilter lets through
    RlStructs,      \* HEP structs
    RlBuffer,       \* capacity of inputCh
    RlBulk,         \* packets in a full batch
    RlMaxFaults     \* POSTs that fail

ASSUME RemoteLogAssumption ==
    /\ RlPackets \subseteq Nat \ {0} /\ RlLogged \subseteq RlPackets
    /\ RlBuffer \in Nat \ {0} /\ RlBulk \in Nat \ {0} /\ RlMaxFaults \in Nat

VARIABLES
    rlKind,         \* loki, es, lp
    rlHep,          \* struct -> its content
    rlWorker,       \* the worker: where it is, its struct and its packet
    rlQueue,        \* inputCh
    rlRun,          \* the client's goroutine: select, label, post, done
    rlHand,         \* the entry it has taken, <<>> or one
    rlBatch,        \* entries collected
    rlPosting,      \* entries of its POST
    rlLast,         \* it returns after that POST
    rlQuit,         \* quit is closed
    rlClose,        \* Close: no, flush, post, returned; exited when the process is gone
    rlClosing,      \* entries of the POST that Close makes
    rlFaults,
    \* Observers.
    rlSent, rlLost, \* packets posted, packets of failed POSTs
    rlDropped,      \* packets that found the queue full
    rlHeld,         \* packets of the batch when quit was closed
    rlWrong,        \* a packet was logged with another one's content
    rlPanicked      \* the SipMsg was gone between the test and the use

rlClient == <<rlQueue, rlRun, rlHand, rlBatch, rlPosting, rlLast>>
rlEnd == <<rlQuit, rlClose, rlClosing, rlHeld>>
rlSeen == <<rlSent, rlLost, rlDropped, rlWrong, rlPanicked>>
rlVars == <<rlKind, rlHep, rlWorker, rlClient, rlEnd, rlFaults, rlSeen>>

\* An entry: the packet it is for, the struct, and the content read from it.
RlBlank == [pkt |-> 0, sip |-> FALSE]
RlIdle == [at |-> "idle", hep |-> 0, pkt |-> 0]

RlInit ==
    /\ rlKind \in {"loki", "es", "lp"}
    /\ rlHep = [h \in RlStructs |-> RlBlank]
    /\ rlWorker = RlIdle
    /\ rlQueue = <<>> /\ rlRun = "select" /\ rlHand = <<>>
    /\ rlBatch = {} /\ rlPosting = {} /\ rlLast = FALSE
    /\ rlQuit = FALSE /\ rlClose = "no" /\ rlClosing = {}
    /\ rlFaults = 0
    /\ rlSent = {} /\ rlLost = {} /\ rlDropped = {} /\ rlHeld = {}
    /\ rlWrong = FALSE /\ rlPanicked = FALSE

RlUp == rlClose # "exited" /\ ~rlPanicked

-----------------------------------------------------------------------------
(* The worker: handlePacket. *)

\* acquireHEP: any struct that nobody decodes into, reset.
acquireHEP(p, h) ==
    /\ RlUp /\ rlWorker.at = "idle" /\ ~rlQuit
    /\ p = rlWorker.pkt + 1
    /\ rlHep' = [rlHep EXCEPT ![h] = RlBlank]
    /\ rlWorker' = [at |-> "parse", hep |-> h, pkt |-> p]
    /\ UNCHANGED <<rlKind, rlClient, rlEnd, rlFaults, rlSeen>>

RlParse ==
    /\ RlUp /\ rlWorker.at = "parse"
    /\ rlHep' = [rlHep EXCEPT ![rlWorker.hep] = [pkt |-> rlWorker.pkt, sip |-> TRUE]]
    /\ rlWorker' = [rlWorker EXCEPT !.at = "send"]
    /\ UNCHANGED <<rlKind, rlClient, rlEnd, rlFaults, rlSeen>>

\* Send: the pointer goes into the queue unless that is full.
RlSend ==
    /\ RlUp /\ rlWorker.at = "send"
    /\ rlWorker' = [rlWorker EXCEPT !.at = "release"]
    /\ LET entry == [pkt |-> rlWorker.pkt, hep |-> rlWorker.hep, read |-> RlBlank]
       IN CASE rlWorker.pkt \notin RlLogged -> UNCHANGED <<rlQueue, rlDropped>>
            [] rlWorker.pkt \in RlLogged /\ Len(rlQueue) < RlBuffer ->
                  rlQueue' = Append(rlQueue, entry) /\ UNCHANGED rlDropped
            [] OTHER -> rlDropped' = rlDropped \cup {rlWorker.pkt} /\ UNCHANGED rlQueue
    /\ UNCHANGED <<rlKind, rlHep, rlRun, rlHand, rlBatch, rlPosting, rlLast, rlEnd, rlFaults,
                   rlSent, rlLost, rlWrong, rlPanicked>>

\* After WriteHEP.
ReleaseHEP ==
    /\ RlUp /\ rlWorker.at = "release"
    /\ rlHep' = [rlHep EXCEPT ![rlWorker.hep].sip = FALSE]
    /\ rlWorker' = [rlWorker EXCEPT !.at = "idle", !.hep = 0]
    /\ UNCHANGED <<rlKind, rlClient, rlEnd, rlFaults, rlSeen>>

-----------------------------------------------------------------------------
(* The client's goroutine. *)

RlOwn(e) == e.read = [pkt |-> e.pkt, sip |-> TRUE]
RlRead(e) == [e EXCEPT !.read = rlHep[e.hep]]

RlTake ==
    /\ RlUp /\ rlRun = "select" /\ rlQueue # <<>>
    /\ rlQueue' = Tail(rlQueue)
    /\ rlHand' = <<RlRead(Head(rlQueue))>>
    /\ rlRun' = "label"
    /\ UNCHANGED <<rlKind, rlHep, rlWorker, rlBatch, rlPosting, rlLast, rlEnd, rlFaults, rlSeen>>

\* The batch is due after RlBulk packets; Loki counts bytes instead.
RlDue(batch, due) == rlKind # "loki" => due = (Cardinality(batch) >= RlBulk)

\* Loki and line protocol copy what they log out of the struct now; the test of
\* pkt.SIP was a moment ago.  Elasticsearch keeps the pointer.
RlCollect(due) ==
    /\ RlUp /\ rlRun = "label"
    /\ LET e == IF rlKind = "es" THEN rlHand[1] ELSE RlRead(rlHand[1])
           gone == rlKind # "es" /\ rlHand[1].read.sip /\ ~e.read.sip
           batch == rlBatch \cup {e}
       IN /\ rlPanicked' = gone
          /\ rlHand' = <<>>
          /\ rlWrong' = (rlWrong \/ (rlKind # "es" /\ ~gone /\ ~RlOwn(e)))
          /\ RlDue(batch, due)
          /\ IF due
             THEN rlBatch' = {} /\ rlPosting' = batch /\ rlRun' = "post"
             ELSE rlBatch' = batch /\ rlRun' = "select" /\ UNCHANGED rlPosting
    /\ UNCHANGED <<rlKind, rlHep, rlWorker, rlQueue, rlLast, rlEnd, rlFaults,
                   rlSent, rlLost, rlDropped>>

\* Mutant: the batch is posted and kept.
RlFlushKeeps ==
    /\ rlPosting' = rlBatch /\ rlBatch' = rlBatch /\ rlRun' = "post"

\* flushBatch swaps the batch under batchMu; sendBulk and sendBatch get all of it.
RlFlush ==
    /\ rlPosting' = rlBatch /\ rlBatch' = {} /\ rlRun' = "post"

RlTimer ==
    /\ RlUp /\ rlRun = "select" /\ rlBatch # {}
    /\ RlFlush
    /\ UNCHANGED <<rlKind, rlHep, rlWorker, rlQueue, rlHand, rlLast, rlEnd, rlFaults, rlSeen>>

\* Loki leaves the batch to Close; the others post what they have.
RlSeeQuit ==
    /\ RlUp /\ rlRun = "select" /\ rlQuit
    /\ IF rlKind = "loki" \/ rlBatch = {}
       THEN rlRun' = "done" /\ UNCHANGED <<rlBatch, rlPosting, rlLast>>
       ELSE RlFlush /\ rlLast' = TRUE
    /\ UNCHANGED <<rlKind, rlHep, rlWorker, rlQueue, rlHand, rlEnd, rlFaults, rlSeen>>

\* The outcome of a POST of S: nobody looks at the entries again.
RlPosted(S) ==
    \/ rlSent' = rlSent \cup {e.pkt : e \in S} /\ UNCHANGED <<rlLost, rlFaults>>
    \/ /\ rlFaults < RlMaxFaults
       /\ rlFaults' = rlFaults + 1
       /\ rlLost' = rlLost \cup {e.pkt : e \in S} /\ UNCHANGED rlSent

\* Elasticsearch documents are built here.
RlPost ==
    /\ RlUp /\ rlRun = "post"
    /\ RlPosted(rlPosting)
    /\ rlWrong' = (rlWrong \/ (rlKind = "es" /\ \E e \in rlPosting : ~RlOwn(RlRead(e))))
    /\ rlPosting' = {}
    /\ rlRun' = IF rlLast THEN "done" ELSE "select"
    /\ UNCHANGED <<rlKind, rlHep, rlWorker, rlQueue, rlHand, rlBatch, rlLast, rlEnd,
                   rlDropped, rlPanicked>>

-----------------------------------------------------------------------------
(* The end. *)

\* Close, with no worker left.
RlCloseQuit ==
    /\ RlUp /\ rlClose = "no" /\ rlWorker.at = "idle"
    /\ rlQuit' = TRUE
    /\ rlHeld' = {e.pkt : e \in rlBatch}
    /\ rlClose' = IF rlKind = "loki" THEN "flush" ELSE "returned"
    /\ UNCHANGED <<rlKind, rlHep, rlWorker, rlClient, rlClosing, rlFaults, rlSeen>>

RlCloseFlush ==
    /\ RlUp /\ rlClose = "flush"
    /\ rlClosing' = rlBatch /\ rlBatch' = {}
    /\ rlClose' = IF rlBatch = {} THEN "returned" ELSE "post"
    /\ UNCHANGED <<rlKind, rlHep, rlWorker, rlQueue, rlRun, rlHand, rlPosting, rlLast, rlQuit,
                   rlHeld, rlFaults, rlSeen>>

RlClosePost ==
    /\ RlUp /\ rlClose = "post"
    /\ RlPosted(rlClosing)
    /\ rlClosing' = {} /\ rlClose' = "returned"
    /\ UNCHANGED <<rlKind, rlHep, rlWorker, rlClient, rlQuit, rlHeld, rlDropped, rlWrong,
                   rlPanicked>>

\* The process ends while the goroutine may be anywhere.
RlExit ==
    /\ RlUp /\ rlClose = "returned"
    /\ rlClose' = "exited"
    /\ UNCHANGED <<rlKind, rlHep, rlWorker, rlClient, rlQuit, rlClosing, rlHeld, rlFaults, rlSeen>>

RlNext ==
    \/ \E p \in RlPackets, h \in RlStructs : acquireHEP(p, h)
    \/ RlParse \/ RlSend \/ ReleaseHEP
    \/ RlTake \/ (\E due \in BOOLEAN : RlCollect(due)) \/ RlTimer \/ RlSeeQuit \/ RlPost
    \/ RlCloseQuit \/ RlCloseFlush \/ RlClosePost \/ RlExit

RlSpec == RlInit /\ [][RlNext]_rlVars

-----------------------------------------------------------------------------
(* Properties. *)

RlPkts(S) == {e.pkt : e \in S}
RlQueued == {rlQueue[i].pkt : i \in 1..Len(rlQueue)} \cup {rlHand[i].pkt : i \in 1..Len(rlHand)}

\* The places of a packet that Send accepted, one after the other.
RlPlaces == <<RlQueued, RlPkts(rlBatch), RlPkts(rlPosting), RlPkts(rlClosing), rlSent, rlLost>>

\* Packets that Send has let through.
RlAccepted == {p \in RlLogged \ rlDropped :
                  p < rlWorker.pkt \/ (p = rlWorker.pkt /\ rlWorker.at \notin {"parse", "send"})}

\* A packet the client accepted is in one place: it is neither posted twice, although
\* Close and the goroutine of Loki flush the same batch at the same time, nor
\* forgotten while the process runs.  A packet of the batch at Close is posted, by
\* Close itself for Loki; only in a POST nobody joins (run of all three clients), or
\* with its goroutine not yet back at its select (Elasticsearch, line protocol), can
\* it be lost at the exit.
RemoteLogSafe ==
    /\ ~rlPanicked =>
          \A p \in RlAccepted : Cardinality({i \in DOMAIN RlPlaces : p \in RlPlaces[i]}) = 1
    /\ rlClose = "exited" => \A p \in rlHeld :
          p \in rlSent \cup rlLost \cup RlPkts(rlPosting)
             \cup (IF rlKind = "loki" \/ rlRun = "done" THEN {} ELSE RlPkts(rlBatch))

\* ReleaseHEP (hep_pool.go): "Do not use hep after ReleaseHEP."  What a client logs of
\* a packet is that packet, and the struct is not pulled away under it.
LoggedAsReceived == ~rlWrong /\ ~rlPanicked
=============================================================================
