------------------------------ MODULE HepBroker ------------------------------
(***************************************************************************)
(* The live-stream broker (src/stream/hepstream/broker.go) and the /stream *)
(* handler that subscribes to it (src/node/stream_handler.go).             *)
(*                                                                         *)
(* Goroutines: the ingest workers (Publishers), which call Publish for     *)
(* every packet, and one handler per websocket client (Subs), which        *)
(* subscribes, replays the history, forwards events and cancels.  A step   *)
(* is what happens under one lock or in one channel operation.             *)
(*                                                                         *)
(* An event is a model value and is published once; a filter is the set of *)
(* events it matches.  Seconds pass at any time (due).  A send on a closed *)
(* channel panics, and the workers do not recover: the process is gone.    *)
(***************************************************************************)
EXTENDS Naturals, Sequences, FiniteSets

CONSTANTS Events, Publishers, Subs,
          Filters,         \* sets of events a client may ask for
          MaxSubscribers,  \* cfg.MaxSubscribers
          PerSubQueueLen,  \* cfg.PerSubQueueLen
          BufferSize,      \* cfg.BufferSize
          RatePerSubPPS,   \* cfg.RatePerSubPPS, 0 for no limit
          HistoryLimit,    \* the client's history parameter, 0 for none
          None

ASSUME HepBrokerAssumption ==
    /\ Filters \subseteq SUBSET Events /\ None \notin Events \cup Subs
    /\ MaxSubscribers \in Nat /\ PerSubQueueLen \in Nat /\ BufferSize \in Nat \ {0}
    /\ RatePerSubPPS \in Nat /\ HistoryLimit \in Nat

VARIABLES ring, ringHead, ringLen,
          subs,       \* the keys of b.subs
          filter, ch, tokens,  \* the fields of each subscriber
          due,        \* subscribers whose lastTick is a second or more ago
          closed,     \* subscribers whose channel is closed
          ppc,        \* ppc[p]: where Publish of p is
          evt,        \* evt[p]: its event
          left,       \* left[p]: the rest of its snapshot of the subscribers
          cur,        \* cur[p]: the subscriber it is about to send to
          spc,        \* spc[s]: where the handler of s is
          panicked

\* Observers: they restrict no step.
VARIABLES log,        \* the events in the order in which the ring got them
          published,  \* the events whose Publish has returned
          sent,       \* sent[s]: events forwarded to the client
          shed,       \* shed[s]: events dropped on s for rate or backpressure
          older       \* older[s]: events from before Subscribe not in the replay

ringVars == <<ring, ringHead, ringLen, log>>
subVars  == <<subs, filter, closed, spc, sent, older>>
pubVars  == <<ppc, evt, left, cur, published>>
vars     == <<ringVars, subVars, ch, tokens, due, pubVars, shed, panicked>>

Init == /\ ring = [i \in 0..BufferSize - 1 |-> None] /\ ringHead = 0 /\ ringLen = 0
        /\ log = <<>>
        /\ subs = {} /\ closed = {} /\ due = {}
        /\ filter = [s \in Subs |-> {}]
        /\ ch = [s \in Subs |-> <<>>]
        /\ tokens = [s \in Subs |-> 0]
        /\ spc = [s \in Subs |-> "none"]
        /\ sent = [s \in Subs |-> {}] /\ shed = [s \in Subs |-> {}]
        /\ older = [s \in Subs |-> {}]
        /\ ppc = [p \in Publishers |-> "idle"]
        /\ evt = [p \in Publishers |-> None]
        /\ left = [p \in Publishers |-> {}]
        /\ cur = [p \in Publishers |-> None]
        /\ published = {}
        /\ panicked = FALSE

SeqElems(q) == {q[i] : i \in 1..Len(q)}
-------------------------------------------------------------------------------
(* Publish.                                                                 *)

Goto(p, l) == ppc' = [ppc EXCEPT ![p] = l]

Publish(p, e) ==
    /\ ppc[p] = "idle" /\ e \notin published \cup SeqElems(log)
    /\ \A q \in Publishers : evt[q] # e
    /\ evt' = [evt EXCEPT ![p] = e]
    /\ Goto(p, "ring")
    /\ UNCHANGED <<ringVars, subVars, ch, tokens, due, left, cur, published, shed, panicked>>

\* Mutant: ringHead runs one past the ring before it wraps.
AppendToRingWrapLate(p) ==
    /\ ppc[p] = "ring"
    /\ ring' = [ring EXCEPT ![ringHead] = evt[p]]
    /\ ringHead' = (ringHead + 1) % (BufferSize + 1)
    /\ ringLen' = IF ringLen < BufferSize THEN ringLen + 1 ELSE ringLen
    /\ log' = Append(log, evt[p])
    /\ Goto(p, "snapshot")
    /\ UNCHANGED <<subVars, ch, tokens, due, evt, left, cur, published, shed, panicked>>

\* appendToRing, under ringMu.
AppendToRing(p) ==
    /\ ppc[p] = "ring"
    /\ ring' = [ring EXCEPT ![ringHead] = evt[p]]
    /\ ringHead' = (ringHead + 1) % BufferSize
    /\ ringLen' = IF ringLen < BufferSize THEN ringLen + 1 ELSE ringLen
    /\ log' = Append(log, evt[p])
    /\ Goto(p, "snapshot")
    /\ UNCHANGED <<subVars, ch, tokens, due, evt, left, cur, published, shed, panicked>>

\* Mutant: a client that still replays the history is left out.
SnapshotLive(p) ==
    /\ ppc[p] = "snapshot"
    /\ left' = [left EXCEPT ![p] = {s \in subs : spc[s] = "live"}]
    /\ Goto(p, "fanout")
    /\ UNCHANGED <<ringVars, subVars, ch, tokens, due, evt, cur, published, shed, panicked>>

\* The copy of b.subs, under the read lock of b.mu.
Snapshot(p) ==
    /\ ppc[p] = "snapshot"
    /\ left' = [left EXCEPT ![p] = subs]
    /\ Goto(p, "fanout")
    /\ UNCHANGED <<ringVars, subVars, ch, tokens, due, evt, cur, published, shed, panicked>>

\* takeToken: a bucket that is due is full again.
Bucket(s) == IF s \in due THEN RatePerSubPPS ELSE tokens[s]

Drop(s, e) == shed' = [shed EXCEPT ![s] = @ \cup {e}]

\* The filter and the rate limit for one subscriber of the snapshot.
Offer(p, s) ==
    /\ ppc[p] = "fanout" /\ s \in left[p]
    /\ left' = [left EXCEPT ![p] = @ \ {s}]
    /\ \/ /\ evt[p] \notin filter[s]
          /\ UNCHANGED <<tokens, due, cur, ppc, shed>>
       \/ /\ evt[p] \in filter[s] /\ RatePerSubPPS > 0
          /\ due' = due \ {s}
          /\ Bucket(s) = 0
          /\ tokens' = [tokens EXCEPT ![s] = 0]
          /\ Drop(s, evt[p])
          /\ UNCHANGED <<cur, ppc>>
       \/ /\ evt[p] \in filter[s] /\ RatePerSubPPS > 0
          /\ due' = due \ {s}
          /\ Bucket(s) > 0
          /\ tokens' = [tokens EXCEPT ![s] = Bucket(s) - 1]
          /\ cur' = [cur EXCEPT ![p] = s] /\ Goto(p, "send")
          /\ UNCHANGED shed
       \/ /\ evt[p] \in filter[s] /\ RatePerSubPPS = 0
          /\ cur' = [cur EXCEPT ![p] = s] /\ Goto(p, "send")
          /\ UNCHANGED <<tokens, due, shed>>
    /\ UNCHANGED <<ringVars, subVars, ch, evt, published, panicked>>

\* Mutant: the send waits for room.
SendWait(p) ==
    /\ ppc[p] = "send"
    /\ \/ /\ cur[p] \in closed
          /\ panicked' = TRUE
          /\ UNCHANGED <<ch, shed>>
       \/ /\ cur[p] \notin closed /\ Len(ch[cur[p]]) < PerSubQueueLen
          /\ ch' = [ch EXCEPT ![cur[p]] = Append(@, evt[p])]
          /\ UNCHANGED <<shed, panicked>>
    /\ cur' = [cur EXCEPT ![p] = None] /\ Goto(p, "fanout")
    /\ UNCHANGED <<ringVars, subVars, tokens, due, evt, left, published>>

\* select with default on s.ch.  A send on a closed channel panics, in a select
\* with a default too.
Send(p) ==
    /\ ppc[p] = "send"
    /\ \/ /\ cur[p] \in closed
          /\ panicked' = TRUE
          /\ UNCHANGED <<ch, shed>>
       \/ /\ cur[p] \notin closed /\ Len(ch[cur[p]]) < PerSubQueueLen
          /\ ch' = [ch EXCEPT ![cur[p]] = Append(@, evt[p])]
          /\ UNCHANGED <<shed, panicked>>
       \/ /\ cur[p] \notin closed /\ Len(ch[cur[p]]) >= PerSubQueueLen
          /\ Drop(cur[p], evt[p])
          /\ UNCHANGED <<ch, panicked>>
    /\ cur' = [cur EXCEPT ![p] = None] /\ Goto(p, "fanout")
    /\ UNCHANGED <<ringVars, subVars, tokens, due, evt, left, published>>

Return(p) ==
    /\ ppc[p] = "fanout" /\ left[p] = {}
    /\ published' = published \cup {evt[p]}
    /\ evt' = [evt EXCEPT ![p] = None]
    /\ Goto(p, "idle")
    /\ UNCHANGED <<ringVars, subVars, ch, tokens, due, left, cur, shed, panicked>>

Publishing(p) == \/ AppendToRing(p) \/ Snapshot(p) \/ Send(p) \/ Return(p)
                 \/ \E s \in Subs : Offer(p, s)

\* A second passes.
Second(s) == /\ s \in subs \ due /\ RatePerSubPPS > 0
             /\ due' = due \cup {s}
             /\ UNCHANGED <<ringVars, subVars, ch, tokens, pubVars, shed, panicked>>
-------------------------------------------------------------------------------
(* handleStream: Subscribe, replay, forward, cancel.                        *)

subRest == <<ringVars, pubVars, due, shed, panicked>>

\* Subscribe, under b.mu; ErrTooManySubscribers ends the handler.
Subscribe(s) ==
    /\ spc[s] = "none"
    /\ \/ /\ Cardinality(subs) >= MaxSubscribers
          /\ spc' = [spc EXCEPT ![s] = "gone"]
          /\ UNCHANGED <<subs, filter, tokens, older>>
       \/ /\ Cardinality(subs) < MaxSubscribers
          /\ subs' = subs \cup {s}
          /\ \E f \in Filters : filter' = [filter EXCEPT ![s] = f]
          /\ tokens' = [tokens EXCEPT ![s] = RatePerSubPPS]
          /\ older' = [older EXCEPT ![s] = SeqElems(log)]
          /\ spc' = [spc EXCEPT ![s] = "replay"]
    /\ UNCHANGED <<ch, closed, sent, subRest>>

\* Mutant: the oldest entry is always looked for at index 0.
BufferedEventsFromZero == [i \in 1..ringLen |-> ring[(i - 1) % BufferSize]]

\* The ring, oldest first: it starts at ringHead once the ring is full.
BufferedEvents ==
    LET start == IF ringLen = BufferSize THEN ringHead ELSE 0
    IN  [i \in 1..ringLen |-> ring[(start + i - 1) % BufferSize]]

\* The most recent limit entries that match f.
History(f, limit) ==
    LET matches == {i \in 1..ringLen : BufferedEvents[i] \in f}
    IN  {BufferedEvents[i] : i \in {j \in matches :
            limit = 0 \/ Cardinality({k \in matches : k >= j}) <= limit}}

\* The replay runs after Subscribe and only when the client asked for it.
Replay(s) ==
    /\ spc[s] = "replay"
    /\ LET past == IF HistoryLimit > 0 THEN History(filter[s], HistoryLimit) ELSE {}
       IN  /\ sent' = [sent EXCEPT ![s] = @ \cup past]
           /\ older' = [older EXCEPT ![s] = @ \ past]
    /\ spc' = [spc EXCEPT ![s] = "live"]
    /\ UNCHANGED <<subs, filter, closed, ch, tokens, subRest>>

Forward(s) ==
    /\ spc[s] = "live" /\ ch[s] # <<>>
    /\ sent' = [sent EXCEPT ![s] = @ \cup {Head(ch[s])}]
    /\ ch' = [ch EXCEPT ![s] = Tail(@)]
    /\ UNCHANGED <<subs, filter, closed, spc, older, tokens, subRest>>

\* Upgrade or a write fails, the peer goes away: the deferred cancel runs.
Disconnect(s) ==
    /\ spc[s] \in {"replay", "live"}
    /\ subs' = subs \ {s}
    /\ spc' = [spc EXCEPT ![s] = "cancel"]
    /\ UNCHANGED <<filter, closed, sent, older, ch, tokens, subRest>>

\* close(s.ch), after b.mu is unlocked.
CloseCh(s) ==
    /\ spc[s] = "cancel"
    /\ closed' = closed \cup {s}
    /\ spc' = [spc EXCEPT ![s] = "gone"]
    /\ UNCHANGED <<subs, filter, sent, older, ch, tokens, subRest>>

HandleStream(s) == Subscribe(s) \/ Replay(s) \/ Forward(s) \/ Disconnect(s) \/ CloseCh(s)
-------------------------------------------------------------------------------
\* Every event is published and nobody is subscribed, or the process is gone.
Done == /\ panicked \/ (published = Events /\ \A s \in Subs : spc[s] = "gone")
        /\ UNCHANGED vars

Next == \/ /\ ~panicked
           /\ \/ \E p \in Publishers, e \in Events : Publish(p, e)
              \/ \E p \in Publishers : Publishing(p)
              \/ \E s \in Subs : Second(s) \/ HandleStream(s)
        \/ Done

Spec == Init /\ [][Next]_vars

\* A worker inside Publish keeps running; nothing is assumed of the clients.
FairSpec == Spec /\ \A p \in Publishers : WF_vars(~panicked /\ Publishing(p))
-------------------------------------------------------------------------------
(* Properties. *)

\* The type invariant of the broker and its subscribers.
TypeOK ==
    /\ ring \in [0..BufferSize - 1 -> Events \cup {None}]
    /\ ringHead \in 0..BufferSize - 1 /\ ringLen \in 0..BufferSize
    /\ log \in Seq(Events)
    /\ subs \in SUBSET Subs /\ closed \in SUBSET Subs /\ due \in SUBSET Subs
    /\ filter \in [Subs -> SUBSET Events]
    /\ ch \in [Subs -> Seq(Events)]
    /\ tokens \in [Subs -> 0..RatePerSubPPS]
    /\ spc \in [Subs -> {"none", "replay", "live", "cancel", "gone"}]
    /\ sent \in [Subs -> SUBSET Events] /\ shed \in [Subs -> SUBSET Events]
    /\ older \in [Subs -> SUBSET Events]
    /\ ppc \in [Publishers -> {"idle", "ring", "snapshot", "fanout", "send"}]
    /\ evt \in [Publishers -> Events \cup {None}]
    /\ left \in [Publishers -> SUBSET Subs]
    /\ cur \in [Publishers -> Subs \cup {None}]
    /\ published \in SUBSET Events
    /\ panicked \in BOOLEAN

Latest(n, q) == SubSeq(q, Len(q) - n + 1, Len(q))

\* The ring holds the most recent events, and History reads them "in
\* oldest-first order" (broker.go, History), also after the ring has wrapped.
RingHoldsLatest == BufferedEvents = Latest(ringLen, log)

\* handleStream replays after Subscribe "so events that landed between Subscribe
\* and the history snapshot aren't dropped on the floor": an event that a live
\* client wants and whose Publish has returned was forwarded, is in its queue,
\* was dropped for rate or backpressure, or is older than the subscription and
\* out of reach of the replay.
NoGap ==
    \A s \in Subs : spc[s] = "live" =>
        published \cap filter[s] \subseteq
            sent[s] \cup SeqElems(ch[s]) \cup shed[s] \cup older[s]

\* "Safe for concurrent use" (broker.go, Broker): a Publish that took its
\* snapshot before a cancel does not send to the channel the cancel has closed.
NoSendOnClosed == ~panicked

\* "Publish never blocks": it returns whatever the clients do, unless the
\* process has panicked.
PublishReturns ==
    \A p \in Publishers : ppc[p] # "idle" ~> (ppc[p] = "idle" \/ panicked)
===============================================================================
