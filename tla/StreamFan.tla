----------------------------- MODULE StreamFan -----------------------------
(***************************************************************************)
(* The coordinator's live stream: StreamService merges the events of the   *)
(* broker in its own process, or of the /stream endpoints of all nodes,    *)
(* into one channel `out', and V4HepStream writes them to the client.      *)
(*                                                                         *)
(* Goroutines: the handler; one forwarder per source; the one that closes  *)
(* `out' when every forwarder has returned; the drain that cancel starts.  *)
(* A source numbers its events.  External: the broker (see HepBroker), the *)
(* nodes' handlers and the WebSockets between them, which replay the last  *)
(* events to each new connection.                                          *)
(***************************************************************************)
EXTENDS Naturals, Sequences, FiniteSets

CONSTANTS
    SfNodes,        \* configured nodes
    SfMaxEvents,    \* events of a source
    SfHistory,      \* historyLimit
    SfCap,          \* capacity of `out'
    SfMaxFaults     \* connections lost, frames garbled, writes failed

ASSUME StreamFanAssumption ==
    /\ {SfHistory, SfMaxFaults} \subseteq Nat /\ {SfMaxEvents, SfCap} \subseteq Nat \ {0}
    /\ "broker" \notin SfNodes

VARIABLES
    sfLocal,        \* the coordinator has a broker of its own
    sfHandler,      \* idle, history, serve, refused, returned
    sfPast,         \* events the handler has still to put into `out'
    sfOut, sfClosed,
    sfPc,           \* forwarder: none, dial, wait, next, put, returned
    sfLink,         \* source -> events on their way to the forwarder
    sfUp,           \* source -> the connection stands
    sfTaken,        \* forwarder -> the event it puts into `out', 0 if garbled
    sfLog,          \* source -> events so far
    sfCtx,          \* the context is cancelled
    sfDrain,        \* cancel was called: `out' is drained
    sfFaults,
    \* Observers.
    sfShown,        \* source -> event -> times shown to the client
    sfAgain,        \* source -> events that were replayed although they were or will be sent live
    sfMissed,       \* source -> events too old for the history or lost with a connection
    sfPanicked      \* a send on the closed channel

sfWires == <<sfLink, sfUp, sfLog>>
sfSeen == <<sfShown, sfAgain, sfMissed, sfPanicked>>
sfVars == <<sfLocal, sfHandler, sfPast, sfOut, sfClosed, sfPc, sfWires, sfTaken, sfCtx, sfDrain,
            sfFaults, sfSeen>>

SfBroker == "broker"
SfSources == SfNodes \cup {SfBroker}
SfUsed == IF sfLocal THEN {SfBroker} ELSE SfNodes
SfEvents == 1..SfMaxEvents
SfNone == [s \in SfSources |-> {}]

SfInit ==
    /\ sfLocal \in BOOLEAN
    /\ sfHandler = "idle" /\ sfPast = <<>> /\ sfOut = <<>> /\ sfClosed = FALSE
    /\ sfPc = [s \in SfSources |-> "none"]
    /\ sfLink = [s \in SfSources |-> <<>>] /\ sfUp = [s \in SfSources |-> FALSE]
    /\ sfTaken = [s \in SfSources |-> 0]
    /\ sfLog \in [SfSources -> {0, 1}]
    /\ sfCtx = FALSE /\ sfDrain = FALSE /\ sfFaults = 0
    /\ sfShown = [s \in SfSources |-> [e \in SfEvents |-> 0]]
    /\ sfAgain = SfNone /\ sfMissed = SfNone /\ sfPanicked = FALSE

\* The last events of a source.
SfTail(s) ==
    LET from == IF sfLog[s] > SfHistory THEN sfLog[s] - SfHistory ELSE 0
    IN [i \in 1..(sfLog[s] - from) |-> [src |-> s, evt |-> from + i]]

SfSet(q) == {q[i].evt : i \in 1..Len(q)}

SfFault == sfFaults < SfMaxFaults /\ sfFaults' = sfFaults + 1

-----------------------------------------------------------------------------
(* The sources. *)

SfPublish(s) ==
    /\ sfHandler # "idle" /\ s \in SfUsed /\ sfLog[s] < SfMaxEvents
    /\ sfLog' = [sfLog EXCEPT ![s] = @ + 1]
    /\ IF sfUp[s]
       THEN sfLink' = [sfLink EXCEPT ![s] = Append(@, [src |-> s, evt |-> sfLog[s] + 1])]
            /\ UNCHANGED sfMissed
       ELSE sfMissed' = [sfMissed EXCEPT ![s] = @ \cup {sfLog[s] + 1}] /\ UNCHANGED sfLink
    /\ UNCHANGED <<sfLocal, sfHandler, sfPast, sfOut, sfClosed, sfPc, sfUp, sfTaken, sfCtx, sfDrain,
                   sfFaults, sfShown, sfAgain, sfPanicked>>

\* A node's connection breaks: what was under way is lost.
SfBreak(s) ==
    /\ s \in SfNodes /\ sfUp[s] /\ SfFault
    /\ sfUp' = [sfUp EXCEPT ![s] = FALSE]
    /\ sfLink' = [sfLink EXCEPT ![s] = <<>>]
    /\ sfMissed' = [sfMissed EXCEPT ![s] = @ \cup SfSet(sfLink[s])]
    /\ UNCHANGED <<sfLocal, sfHandler, sfPast, sfOut, sfClosed, sfPc, sfTaken, sfLog, sfCtx,
                   sfDrain, sfShown, sfAgain, sfPanicked>>

-----------------------------------------------------------------------------
(* Subscribe and the handler. *)

\* The broker's queue is subscribed first and the history is copied afterwards; the
\* forwarders of nodes are started.
SfSubscribe ==
    /\ sfHandler = "idle"
    /\ IF sfLocal
       THEN /\ sfHandler' = "subscribed" /\ sfUp' = [sfUp EXCEPT ![SfBroker] = TRUE]
            /\ UNCHANGED sfPc
       ELSE /\ sfHandler' = "serve" /\ UNCHANGED sfUp
            /\ sfPc' = [s \in SfSources |-> IF s \in SfNodes THEN "dial" ELSE "none"]
    /\ UNCHANGED <<sfLocal, sfPast, sfOut, sfClosed, sfLink, sfTaken, sfLog, sfCtx, sfDrain,
                   sfFaults, sfSeen>>

\* Broker.Subscribe refuses: too many subscribers, 503.
SfRefused ==
    /\ sfHandler = "idle" /\ sfLocal
    /\ sfHandler' = "refused"
    /\ UNCHANGED <<sfLocal, sfPast, sfOut, sfClosed, sfPc, sfWires, sfTaken, sfCtx, sfDrain,
                   sfFaults, sfSeen>>

SfHistoryCopy ==
    /\ sfHandler = "subscribed"
    /\ sfPast' = SfTail(SfBroker)
    /\ sfAgain' = [sfAgain EXCEPT ![SfBroker] = SfSet(sfPast') \cap SfSet(sfLink[SfBroker])]
    /\ sfMissed' = [sfMissed EXCEPT ![SfBroker] =
                       (1..sfLog[SfBroker]) \ (SfSet(sfPast') \cup SfSet(sfLink[SfBroker]))]
    /\ sfHandler' = "history"
    /\ UNCHANGED <<sfLocal, sfOut, sfClosed, sfPc, sfWires, sfTaken, sfCtx, sfDrain, sfFaults,
                   sfShown, sfPanicked>>

SfHistoryPut ==
    /\ sfHandler = "history" /\ sfPast # <<>> /\ Len(sfOut) < SfCap
    /\ sfOut' = Append(sfOut, Head(sfPast)) /\ sfPast' = Tail(sfPast)
    /\ UNCHANGED <<sfLocal, sfHandler, sfClosed, sfPc, sfWires, sfTaken, sfCtx, sfDrain, sfFaults,
                   sfSeen>>

SfHistoryCancelled ==
    /\ sfHandler = "history" /\ sfPast # <<>> /\ sfCtx
    /\ sfHandler' = "refused" /\ sfUp' = [sfUp EXCEPT ![SfBroker] = FALSE]
    /\ sfClosed' = TRUE
    /\ UNCHANGED <<sfLocal, sfPast, sfOut, sfPc, sfLink, sfTaken, sfLog, sfCtx, sfDrain, sfFaults,
                   sfSeen>>

SfHistoryDone ==
    /\ sfHandler = "history" /\ sfPast = <<>>
    /\ sfHandler' = "serve"
    /\ sfPc' = [sfPc EXCEPT ![SfBroker] = "next"]
    /\ UNCHANGED <<sfLocal, sfPast, sfOut, sfClosed, sfWires, sfTaken, sfCtx, sfDrain, sfFaults,
                   sfSeen>>

\* V4HepStream's loop: an event for the client, or the end of `out'.
SfServe ==
    /\ sfHandler = "serve" /\ sfOut # <<>>
    /\ sfOut' = Tail(sfOut)
    /\ sfShown' = IF Head(sfOut).evt = 0 THEN sfShown
                  ELSE [sfShown EXCEPT ![Head(sfOut).src][Head(sfOut).evt] = @ + 1]
    /\ UNCHANGED <<sfLocal, sfHandler, sfPast, sfClosed, sfPc, sfWires, sfTaken, sfCtx, sfDrain,
                   sfFaults, sfAgain, sfMissed, sfPanicked>>

\* Upgrade fails, a write or ping fails, the read pump sees the client go, the
\* request's context ends: the deferred cancel starts the drain.
SfLeave ==
    /\ sfHandler = "serve"
    /\ (sfClosed /\ sfOut = <<>>) \/ SfFault \/ sfCtx
    /\ (sfClosed /\ sfOut = <<>>) \/ sfCtx => UNCHANGED sfFaults
    /\ sfHandler' = "returned" /\ sfCtx' = TRUE /\ sfDrain' = TRUE
    /\ UNCHANGED <<sfLocal, sfPast, sfOut, sfClosed, sfPc, sfWires, sfTaken, sfSeen>>

\* The client goes away.
SfClientGone ==
    /\ sfHandler \in {"subscribed", "history", "serve"} /\ ~sfCtx
    /\ sfCtx' = TRUE
    /\ UNCHANGED <<sfLocal, sfHandler, sfPast, sfOut, sfClosed, sfPc, sfWires, sfTaken, sfDrain,
                   sfFaults, sfSeen>>

SfDrainStep ==
    /\ sfDrain /\ sfOut # <<>>
    /\ sfOut' = Tail(sfOut)
    /\ UNCHANGED <<sfLocal, sfHandler, sfPast, sfClosed, sfPc, sfWires, sfTaken, sfCtx, sfDrain,
                   sfFaults, sfSeen>>

\* Mutant: `out' is closed with the first source that ends.
SfMayCloseEarly == \E s \in SfUsed : sfPc[s] = "returned"
SfMayClose == \A s \in SfUsed : sfPc[s] = "returned"

SfCloseOut ==
    /\ sfHandler \in {"serve", "returned"} /\ ~sfClosed
    /\ SfMayClose
    /\ sfClosed' = TRUE
    /\ UNCHANGED <<sfLocal, sfHandler, sfPast, sfOut, sfPc, sfWires, sfTaken, sfCtx, sfDrain,
                   sfFaults, sfSeen>>

-----------------------------------------------------------------------------
(* runNodeForwarder, and the goroutine that forwards the broker's queue. *)

SfGoto(s, pc) == sfPc' = [sfPc EXCEPT ![s] = pc]

\* Every dial asks for the history.
SfDial(s) ==
    /\ sfPc[s] = "dial" /\ ~sfCtx
    /\ \/ /\ sfUp' = [sfUp EXCEPT ![s] = TRUE]
          /\ sfLink' = [sfLink EXCEPT ![s] = SfTail(s)]
          /\ sfAgain' = [sfAgain EXCEPT ![s] = @ \cup
                (SfSet(SfTail(s)) \cap {e \in SfEvents : sfShown[s][e] > 0
                                          \/ [src |-> s, evt |-> e] \in {sfOut[i] : i \in 1..Len(sfOut)}})]
          /\ sfMissed' = [sfMissed EXCEPT ![s] = (@ \cup 1..sfLog[s]) \ SfSet(SfTail(s))]
          /\ SfGoto(s, "next") /\ UNCHANGED sfFaults
       \/ SfFault /\ SfGoto(s, "wait") /\ UNCHANGED <<sfUp, sfLink, sfAgain, sfMissed>>
    /\ UNCHANGED <<sfLocal, sfHandler, sfPast, sfOut, sfClosed, sfTaken, sfLog, sfCtx, sfDrain,
                   sfShown, sfPanicked>>

\* The backoff is over, or the context.
SfBackoff(s) ==
    /\ sfPc[s] \in {"wait", "dial"}
    /\ sfPc[s] = "dial" => sfCtx
    /\ \/ sfCtx /\ SfGoto(s, "returned")
       \/ sfPc[s] = "wait" /\ SfGoto(s, "dial")
    /\ UNCHANGED <<sfLocal, sfHandler, sfPast, sfOut, sfClosed, sfWires, sfTaken, sfCtx, sfDrain,
                   sfFaults, sfSeen>>

\* Next: blocked until a frame comes or the connection fails; only then does it look
\* at the context.  A frame that cannot be decoded is passed on as an empty event.
SfNext(s) ==
    /\ sfPc[s] = "next" /\ s \in SfNodes
    /\ \/ /\ ~sfUp[s] /\ SfGoto(s, "dial")
          /\ UNCHANGED <<sfUp, sfLink, sfTaken, sfFaults, sfMissed>>
       \/ /\ sfUp[s] /\ sfLink[s] # <<>>
          /\ sfLink' = [sfLink EXCEPT ![s] = IF sfCtx THEN <<>> ELSE Tail(@)]
          /\ IF sfCtx
             THEN /\ SfGoto(s, "dial") /\ sfUp' = [sfUp EXCEPT ![s] = FALSE]
                  /\ sfMissed' = [sfMissed EXCEPT ![s] = @ \cup SfSet(sfLink[s])]
                  /\ UNCHANGED <<sfTaken, sfFaults>>
             ELSE /\ SfGoto(s, "put") /\ UNCHANGED sfUp
                  /\ \/ /\ sfTaken' = [sfTaken EXCEPT ![s] = Head(sfLink[s]).evt]
                        /\ UNCHANGED <<sfFaults, sfMissed>>
                     \/ /\ SfFault /\ sfTaken' = [sfTaken EXCEPT ![s] = 0]
                        /\ sfMissed' = [sfMissed EXCEPT ![s] = @ \cup {Head(sfLink[s]).evt}]
    /\ UNCHANGED <<sfLocal, sfHandler, sfPast, sfOut, sfClosed, sfLog, sfCtx, sfDrain, sfShown,
                   sfAgain, sfPanicked>>

\* The broker's goroutine selects between its queue and the context.
SfTakeLocal ==
    /\ sfPc[SfBroker] = "next"
    /\ \/ /\ sfLink[SfBroker] # <<>>
          /\ sfTaken' = [sfTaken EXCEPT ![SfBroker] = Head(sfLink[SfBroker]).evt]
          /\ sfLink' = [sfLink EXCEPT ![SfBroker] = Tail(@)]
          /\ SfGoto(SfBroker, "put") /\ UNCHANGED sfUp
       \/ /\ sfCtx /\ SfGoto(SfBroker, "returned")
          /\ sfUp' = [sfUp EXCEPT ![SfBroker] = FALSE] /\ UNCHANGED <<sfTaken, sfLink>>
    /\ UNCHANGED <<sfLocal, sfHandler, sfPast, sfOut, sfClosed, sfLog, sfCtx, sfDrain, sfFaults,
                   sfSeen>>

\* out <- evt, or the context ends: src.Close, bcancel.
SfPut(s) ==
    /\ sfPc[s] = "put"
    /\ \/ /\ Len(sfOut) < SfCap \/ sfClosed
          /\ sfPanicked' = sfClosed
          /\ sfOut' = Append(sfOut, [src |-> s, evt |-> sfTaken[s]])
          /\ SfGoto(s, "next") /\ UNCHANGED <<sfUp, sfMissed>>
       \/ /\ sfCtx
          /\ SfGoto(s, IF s = SfBroker THEN "returned" ELSE "dial")
          /\ sfUp' = [sfUp EXCEPT ![s] = FALSE]
          /\ sfMissed' = [sfMissed EXCEPT ![s] = @ \cup {sfTaken[s]} \cup SfSet(sfLink[s])]
          /\ UNCHANGED <<sfOut, sfPanicked>>
    /\ UNCHANGED <<sfLocal, sfHandler, sfPast, sfClosed, sfLink, sfTaken, sfLog, sfCtx, sfDrain,
                   sfFaults, sfShown, sfAgain>>

SfForwarder(s) == SfDial(s) \/ SfBackoff(s) \/ SfNext(s) \/ SfPut(s)

\* What needs no event, fault or client.
SfWork ==
    \/ SfSubscribe \/ SfHistoryCopy \/ SfHistoryPut \/ SfHistoryCancelled \/ SfHistoryDone
    \/ SfServe \/ SfLeave \/ SfDrainStep \/ SfCloseOut
    \/ SfTakeLocal \/ \E s \in SfSources : SfForwarder(s)

SfStep == SfWork \/ SfRefused \/ SfClientGone \/ \E s \in SfSources : SfPublish(s) \/ SfBreak(s)

SfSpec == SfInit /\ [][SfStep]_sfVars

-----------------------------------------------------------------------------
(* Properties. *)

\* Where an event is on its way to the client.
SfUnderWay(s) ==
    SfSet(sfLink[s]) \cup {sfOut[i].evt : i \in {j \in 1..Len(sfOut) : sfOut[j].src = s}}
      \cup (IF sfPc[s] = "put" THEN {sfTaken[s]} ELSE {})
      \cup (IF s = SfBroker THEN SfSet(sfPast) ELSE {})

\* The guards of SfWork: one of its steps can be taken.
SfMoving ==
    \/ sfHandler \in {"idle", "subscribed"}
    \/ sfHandler = "history" /\ (sfPast = <<>> \/ Len(sfOut) < SfCap \/ sfCtx)
    \/ sfHandler = "serve" /\ (sfOut # <<>> \/ sfClosed \/ sfFaults < SfMaxFaults \/ sfCtx)
    \/ sfDrain /\ sfOut # <<>>
    \/ sfHandler \in {"serve", "returned"} /\ ~sfClosed /\ SfMayClose
    \/ sfPc[SfBroker] = "next" /\ (sfLink[SfBroker] # <<>> \/ sfCtx)
    \/ \E s \in SfSources :
          \/ sfPc[s] \in {"dial", "wait"}
          \/ sfPc[s] = "next" /\ s \in SfNodes /\ (~sfUp[s] \/ sfLink[s] # <<>>)
          \/ sfPc[s] = "put" /\ (Len(sfOut) < SfCap \/ sfClosed \/ sfCtx)

\* The client's stream while it is being served.  No forwarder sends on the closed
\* channel (only the goroutine behind wg.Wait closes it).  An event that was on a
\* connection reaches the client or is under way; it is shown twice only if the
\* history repeated it: published between Subscribe and History of the local broker,
\* or replayed by a node after a reconnect.
\* When the client is gone and nothing moves any more, all that is left is a
\* forwarder reading from a node that sends nothing (Next does not look at the
\* context before a frame comes); and a handler that waits for its client was
\* replaying more history than `out' can hold, which nobody reads yet.
StreamFanSafe ==
    /\ ~sfPanicked
    /\ \A s \in SfUsed : sfHandler = "serve" /\ ~sfCtx /\ sfUp[s] =>
          \A e \in 1..sfLog[s] :
             /\ sfShown[s][e] > 1 => e \in sfAgain[s]
             /\ e \in sfMissed[s] \/ sfShown[s][e] > 0 \/ e \in SfUnderWay(s)
    /\ sfCtx /\ ~SfMoving =>
          \A s \in SfUsed : sfPc[s] \in {"none", "returned"}
                            \/ (s \in SfNodes /\ sfPc[s] = "next" /\ sfUp[s] /\ sfLink[s] = <<>>)
    /\ sfHandler = "history" /\ ~SfMoving => SfHistory > SfCap
=============================================================================
