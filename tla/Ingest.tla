-------------------------------- MODULE Ingest --------------------------------
(***************************************************************************)
(* The ingest side of the writer module (src/writer): the receivers, the   *)
(* bounded packet queue, the workers and the order in which Writer.Stop    *)
(* takes them down.                                                        *)
(*                                                                         *)
(* Goroutines: the gnet event loops of the UDP receiver (Loops), one       *)
(* acceptor and one handler per connection of the stream receiver (Conns;  *)
(* tcp.go, tls.go has the same code), the fasthttp request handlers        *)
(* (Requests), the workers (Workers) and the caller of Writer.Stop.        *)
(*                                                                         *)
(* External: gnet, fasthttp (Shutdown closes the listener and waits for    *)
(* the requests in progress), net.Listener and net.Conn.  What handlePacket*)
(* does with a packet is its outcome; the storage it writes to is          *)
(* TableWriter.  A packet is a model value that knows the kind of receiver *)
(* it comes through.                                                       *)
(***************************************************************************)
EXTENDS Naturals, Sequences, FiniteSets

CONSTANTS UdpPackets,      \* packets that arrive on the UDP socket
          JoinedPackets,   \* packets that arrive on a connection or in a request
          Loops, Conns, Requests, Workers,
          QueueCap,        \* capacity of inputCh
          MaxConns,        \* capacity of connSem
          None

Packets   == UdpPackets \cup JoinedPackets
Receivers == Loops \cup Conns \cup Requests

ASSUME IngestAssumption ==
    /\ UdpPackets \cap JoinedPackets = {} /\ None \notin Packets \cup Conns
    /\ Loops \cap Conns = {} /\ Loops \cap Requests = {} /\ Conns \cap Requests = {}
    /\ QueueCap \in Nat /\ MaxConns \in Nat
    /\ IsFiniteSet(Conns) /\ Workers # {}

VARIABLES stopped,     \* w.stopped
          inputCh,     \* w.inputCh
          exitWorker,  \* w.exitWorker is closed
          storeOpen,   \* script engine, remote clients and DuckLake manager are open
          quit,        \* s.quit of the stream receiver is closed
          listener,    \* its listener
          connSem,     \* slots of s.connSem in use
          tracked,     \* s.conns.conns
          csClosed,    \* s.conns.closed
          wg,          \* handlers counted by s.wg
          shut,        \* closed connections
          buffered,    \* connections whose bufio.Reader holds complete frames
          httpOpen,    \* the HTTP server accepts requests
          acc,         \* where the acceptor is and the connection it has
          rpc,         \* rpc[x]: where receiver goroutine x is
          pkt,         \* pkt[x]: the packet x has
          wpc,         \* wpc[w]: where worker w is
          work,        \* work[w]: the packet w handles
          stopPc       \* the next thing Writer.Stop does

\* Observer: what became of a packet.
VARIABLE fate

rcvVars    == <<quit, listener, connSem, tracked, csClosed, wg, shut, buffered, acc>>
workVars   == <<wpc, work>>
stopVars   == <<stopped, exitWorker, storeOpen, httpOpen, stopPc>>
vars       == <<inputCh, rcvVars, rpc, pkt, workVars, stopVars, fate>>

\* The running module: New and Start are done, but the stream receiver's
\* goroutine may not have reached net.Listen yet.
Init == /\ stopped = FALSE /\ exitWorker = FALSE
        /\ storeOpen = TRUE /\ httpOpen = TRUE
        /\ inputCh = <<>>
        /\ quit = FALSE /\ listener = "none"
        /\ connSem = 0 /\ tracked = {} /\ csClosed = FALSE
        /\ wg = {} /\ shut = {} /\ buffered = {}
        /\ acc = [pc |-> "listen", conn |-> None]
        /\ rpc = [x \in Receivers |-> "idle"]
        /\ pkt = [x \in Receivers |-> None]
        /\ wpc = [w \in Workers |-> "select"]
        /\ work = [w \in Workers |-> None]
        /\ stopPc = "run"
        /\ fate = [p \in Packets |-> "wire"]
-------------------------------------------------------------------------------
(* EnqueuePacket, which runs on the goroutine of the receiver.              *)

\* A connection handler goes back to its loop, the others return.
BackTo(x) == IF x \in Conns THEN "top" ELSE "idle"

\* The packet leaves goroutine x with fate f.
Leave(x, f) == /\ pkt' = [pkt EXCEPT ![x] = None]
               /\ rpc' = [rpc EXCEPT ![x] = BackTo(x)]
               /\ fate' = [fate EXCEPT ![pkt[x]] = f]

Receive(x, p) == /\ fate[p] = "wire"
                 /\ pkt' = [pkt EXCEPT ![x] = p]
                 /\ rpc' = [rpc EXCEPT ![x] = "check"]
                 /\ fate' = [fate EXCEPT ![p] = "received"]

\* The test of w.stopped; the send comes later, and nothing ties the two.
CheckStopped(x) ==
    /\ rpc[x] = "check"
    /\ \/ stopped /\ Leave(x, "refused")
       \/ ~stopped /\ rpc' = [rpc EXCEPT ![x] = "send"] /\ UNCHANGED <<pkt, fate>>
    /\ UNCHANGED <<inputCh, rcvVars, workVars, stopVars>>

\* select with default: a full queue sheds the packet, EnqueuePacket never waits.
Send(x) ==
    /\ rpc[x] = "send"
    /\ \/ /\ Len(inputCh) < QueueCap
          /\ inputCh' = Append(inputCh, pkt[x])
          /\ Leave(x, "queued")
       \/ /\ Len(inputCh) >= QueueCap
          /\ Leave(x, "shed")
          /\ UNCHANGED inputCh
    /\ UNCHANGED <<rcvVars, workVars, stopVars>>

EnqueuePacket(x) == CheckStopped(x) \/ Send(x)
-------------------------------------------------------------------------------
(* The receivers.                                                           *)

\* udp.go OnTraffic.  UDPServer.Stop does nothing: the event loops run until
\* the process exits.
OnTraffic(l, p) == /\ rpc[l] = "idle" /\ Receive(l, p)
                   /\ UNCHANGED <<inputCh, rcvVars, workVars, stopVars>>

\* http.go handleHEP.
HandleHEP(r, p) == /\ rpc[r] = "idle" /\ httpOpen /\ Receive(r, p)
                   /\ UNCHANGED <<inputCh, rcvVars, workVars, stopVars>>

acceptRest == <<inputCh, rpc, pkt, workVars, stopVars, fate>>

Listen == /\ acc.pc = "listen"
          /\ \/ listener' = "open" /\ acc' = [acc EXCEPT !.pc = "accept"]
             \/ UNCHANGED listener /\ acc' = [acc EXCEPT !.pc = "exited"]
          /\ UNCHANGED <<quit, connSem, tracked, csClosed, wg, shut, buffered, acceptRest>>

Accept(c) == /\ acc.pc = "accept" /\ listener = "open"
             /\ rpc[c] = "idle" /\ c \notin shut
             /\ acc' = [pc |-> "sem", conn |-> c]
             /\ UNCHANGED <<quit, listener, connSem, tracked, csClosed, wg, shut, buffered,
                            acceptRest>>

\* Accept fails, which ends Start once quit is closed; before that it is retried.
AcceptErr == /\ acc.pc = "accept" /\ quit
             /\ acc' = [acc EXCEPT !.pc = "exited"]
             /\ UNCHANGED <<quit, listener, connSem, tracked, csClosed, wg, shut, buffered,
                            acceptRest>>

NextConn == acc' = [pc |-> "accept", conn |-> None]

\* Mutant: a rejected connection gives back a slot it never took.
AcquireSemGiveBack ==
    /\ acc.pc = "sem"
    /\ \/ /\ connSem < MaxConns
          /\ connSem' = connSem + 1
          /\ acc' = [acc EXCEPT !.pc = "add"]
          /\ UNCHANGED shut
       \/ /\ connSem >= MaxConns
          /\ connSem' = connSem - 1
          /\ shut' = shut \cup {acc.conn}
          /\ NextConn
    /\ UNCHANGED <<quit, listener, tracked, csClosed, wg, buffered, acceptRest>>

\* connSem: a slot, or the connection is rejected.
AcquireSem ==
    /\ acc.pc = "sem"
    /\ \/ /\ connSem < MaxConns
          /\ connSem' = connSem + 1
          /\ acc' = [acc EXCEPT !.pc = "add"]
          /\ UNCHANGED shut
       \/ /\ connSem >= MaxConns
          /\ shut' = shut \cup {acc.conn}
          /\ NextConn
          /\ UNCHANGED connSem
    /\ UNCHANGED <<quit, listener, tracked, csClosed, wg, buffered, acceptRest>>

\* Mutant: add registers the connection although closeAll has run.
AddAfterClose ==
    /\ acc.pc = "add"
    /\ tracked' = tracked \cup {acc.conn}
    /\ acc' = [acc EXCEPT !.pc = "go"]
    /\ UNCHANGED <<quit, listener, connSem, csClosed, wg, shut, buffered, acceptRest>>

\* connSet.add, and the release of the semaphore when it refuses.
AddConn ==
    /\ acc.pc = "add"
    /\ \/ /\ csClosed
          /\ shut' = shut \cup {acc.conn}
          /\ connSem' = connSem - 1
          /\ NextConn
          /\ UNCHANGED tracked
       \/ /\ ~csClosed
          /\ tracked' = tracked \cup {acc.conn}
          /\ acc' = [acc EXCEPT !.pc = "go"]
          /\ UNCHANGED <<shut, connSem>>
    /\ UNCHANGED <<quit, listener, csClosed, wg, buffered, acceptRest>>

\* wg.Add and go handleConnection.  Stop's wg.Wait may already have returned.
SpawnHandler ==
    /\ acc.pc = "go"
    /\ wg' = wg \cup {acc.conn}
    /\ rpc' = [rpc EXCEPT ![acc.conn] = "top"]
    /\ NextConn
    /\ UNCHANGED <<inputCh, quit, listener, connSem, tracked, csClosed, shut, buffered, pkt,
                   workVars, stopVars, fate>>

Acceptor == \/ Listen \/ AcceptErr \/ AcquireSem \/ AddConn \/ SpawnHandler
            \/ \E c \in Conns : Accept(c)

CheckQuit(c) ==
    /\ rpc[c] = "top"
    /\ rpc' = [rpc EXCEPT ![c] = IF quit THEN "release" ELSE "read"]
    /\ UNCHANGED <<inputCh, rcvVars, pkt, workVars, stopVars, fate>>

\* One frame, from the socket or from the bufio.Reader, which may hold more
\* frames and still has them when the connection is closed.
ReadFrame(c, p) ==
    /\ rpc[c] = "read" /\ (c \notin shut \/ c \in buffered)
    /\ Receive(c, p)
    /\ buffered' \in {buffered \cup {c}, buffered \ {c}}
    /\ UNCHANGED <<inputCh, quit, listener, connSem, tracked, csClosed, wg, shut, acc,
                   workVars, stopVars>>

\* End of stream, a frame that is not HEP, the read timeout, a closed connection.
ReadErr(c) ==
    /\ rpc[c] = "read"
    /\ rpc' = [rpc EXCEPT ![c] = "release"]
    /\ UNCHANGED <<inputCh, rcvVars, pkt, workVars, stopVars, fate>>

\* The deferred calls, last one first: the semaphore, then Close, remove, Done.
ReleaseSem(c) ==
    /\ rpc[c] = "release"
    /\ connSem' = connSem - 1
    /\ rpc' = [rpc EXCEPT ![c] = "close"]
    /\ UNCHANGED <<inputCh, quit, listener, tracked, csClosed, wg, shut, buffered, acc, pkt,
                   workVars, stopVars, fate>>

CloseConn(c) ==
    /\ rpc[c] = "close"
    /\ shut' = shut \cup {c} /\ tracked' = tracked \ {c} /\ wg' = wg \ {c}
    /\ rpc' = [rpc EXCEPT ![c] = "gone"]
    /\ UNCHANGED <<inputCh, quit, listener, connSem, csClosed, buffered, acc, pkt, workVars,
                   stopVars, fate>>

HandleConnection(c) == \/ CheckQuit(c) \/ ReadErr(c) \/ ReleaseSem(c) \/ CloseConn(c)
                       \/ \E p \in JoinedPackets : ReadFrame(c, p)
-------------------------------------------------------------------------------
(* worker.                                                                  *)

workRest == <<rcvVars, rpc, pkt, stopVars>>

Take(w) ==
    /\ wpc[w] \in {"select", "drain"} /\ inputCh # <<>>
    /\ work' = [work EXCEPT ![w] = Head(inputCh)]
    /\ inputCh' = Tail(inputCh)
    /\ wpc' = [wpc EXCEPT ![w] = IF @ = "select" THEN "handle" ELSE "drainhandle"]
    /\ fate' = [fate EXCEPT ![Head(inputCh)] = "handling"]
    /\ UNCHANGED workRest

\* Mutant: the worker returns without looking at the queue again.
SeeExitReturn(w) ==
    /\ wpc[w] = "select" /\ exitWorker
    /\ wpc' = [wpc EXCEPT ![w] = "exited"]
    /\ UNCHANGED <<inputCh, work, fate, workRest>>

SeeExit(w) ==
    /\ wpc[w] = "select" /\ exitWorker
    /\ wpc' = [wpc EXCEPT ![w] = "drain"]
    /\ UNCHANGED <<inputCh, work, fate, workRest>>

\* handlePacket: decode error, no protocol type or discarded by the script,
\* WriteHEP failed, or written.
Outcomes == {"undecodable", "discarded", "unstored", "stored"}

HandlePacket(w) ==
    /\ wpc[w] \in {"handle", "drainhandle"}
    /\ \E o \in Outcomes : fate' = [fate EXCEPT ![work[w]] = o]
    /\ work' = [work EXCEPT ![w] = None]
    /\ wpc' = [wpc EXCEPT ![w] = IF @ = "handle" THEN "select" ELSE "drain"]
    /\ UNCHANGED <<inputCh, workRest>>

Drained(w) ==
    /\ wpc[w] = "drain" /\ inputCh = <<>>
    /\ wpc' = [wpc EXCEPT ![w] = "exited"]
    /\ UNCHANGED <<inputCh, work, fate, workRest>>

Worker(w) == Take(w) \/ SeeExit(w) \/ HandlePacket(w) \/ Drained(w)
-------------------------------------------------------------------------------
(* Writer.Stop, in the order of its calls.  Compaction and tiering, stopped *)
(* between the receivers and the workers, share nothing with this module.   *)

stopRest == <<inputCh, rpc, pkt, workVars, fate, connSem, tracked, wg, buffered, acc>>

StopFlag == /\ stopPc = "run"
            /\ stopped' = TRUE
            /\ stopPc' = "quit"
            /\ UNCHANGED <<exitWorker, storeOpen, httpOpen, quit, listener, csClosed, shut, stopRest>>

StopQuit == /\ stopPc = "quit"
            /\ quit' = TRUE
            /\ stopPc' = "listener"
            /\ UNCHANGED <<stopped, exitWorker, storeOpen, httpOpen, listener, csClosed, shut, stopRest>>

\* A listener that Start has not stored yet is not closed.
StopListener == /\ stopPc = "listener"
                /\ listener' = IF listener = "open" THEN "closed" ELSE listener
                /\ stopPc' = "conns"
                /\ UNCHANGED <<stopped, exitWorker, storeOpen, httpOpen, quit, csClosed, shut, stopRest>>

\* Mutant: the open connections are left to their read timeout.
StopConnsNotClosed ==
    /\ stopPc = "conns"
    /\ csClosed' = TRUE
    /\ stopPc' = "join"
    /\ UNCHANGED <<stopped, exitWorker, storeOpen, httpOpen, quit, listener, shut, stopRest>>

\* connSet.closeAll.
StopConns == /\ stopPc = "conns"
             /\ csClosed' = TRUE
             /\ shut' = shut \cup tracked
             /\ stopPc' = "join"
             /\ UNCHANGED <<stopped, exitWorker, storeOpen, httpOpen, quit, listener, stopRest>>

StopJoin == /\ stopPc = "join" /\ wg = {}
            /\ stopPc' = "http"
            /\ UNCHANGED <<stopped, exitWorker, storeOpen, httpOpen, rcvVars, inputCh, rpc, pkt,
                           workVars, fate>>

\* fasthttp Shutdown: close the listener, then wait for the open requests.
StopHttp == /\ stopPc = "http"
            /\ httpOpen' = FALSE
            /\ stopPc' = "httpjoin"
            /\ UNCHANGED <<stopped, exitWorker, storeOpen, rcvVars, inputCh, rpc, pkt, workVars, fate>>

StopHttpJoin == /\ stopPc = "httpjoin"
                /\ \A r \in Requests : rpc[r] = "idle"
                /\ stopPc' = "exit"
                /\ UNCHANGED <<stopped, exitWorker, storeOpen, httpOpen, rcvVars, inputCh, rpc, pkt,
                               workVars, fate>>

StopExit == /\ stopPc = "exit"
            /\ exitWorker' = TRUE
            /\ stopPc' = "workers"
            /\ UNCHANGED <<stopped, storeOpen, httpOpen, rcvVars, inputCh, rpc, pkt, workVars, fate>>

\* Mutant: the workers are told to exit but not waited for.
StopWorkersNoWait == /\ stopPc = "workers"
                     /\ stopPc' = "store"
                     /\ UNCHANGED <<stopped, exitWorker, storeOpen, httpOpen, rcvVars, inputCh, rpc,
                                    pkt, workVars, fate>>

StopWorkers == /\ stopPc = "workers"
               /\ \A w \in Workers : wpc[w] = "exited"
               /\ stopPc' = "store"
               /\ UNCHANGED <<stopped, exitWorker, storeOpen, httpOpen, rcvVars, inputCh, rpc, pkt,
                              workVars, fate>>

\* Script engine, remote clients, then the DuckLake manager.
StopStore == /\ stopPc = "store"
             /\ storeOpen' = FALSE
             /\ stopPc' = "done"
             /\ UNCHANGED <<stopped, exitWorker, httpOpen, rcvVars, inputCh, rpc, pkt, workVars, fate>>

StopRest == \/ StopQuit \/ StopListener \/ StopConns \/ StopJoin \/ StopHttp \/ StopHttpJoin
            \/ StopExit \/ StopWorkers \/ StopStore
-------------------------------------------------------------------------------
\* The module is down; the model idles.
Done == stopPc = "done" /\ UNCHANGED vars

Next == \/ \E l \in Loops, p \in UdpPackets : OnTraffic(l, p)
        \/ \E r \in Requests, p \in JoinedPackets : HandleHEP(r, p)
        \/ \E x \in Receivers : EnqueuePacket(x)
        \/ Acceptor
        \/ \E c \in Conns : HandleConnection(c)
        \/ \E w \in Workers : Worker(w)
        \/ StopFlag \/ StopRest
        \/ Done

Spec == Init /\ [][Next]_vars

\* Goroutines that can run do run.  Packets, connections and the call of Stop
\* are the environment's; a read is only sure to return once its connection is
\* closed (the read timeout is minutes away).
Fairness ==
    /\ \A x \in Receivers : WF_vars(EnqueuePacket(x))
    /\ WF_vars(AcquireSem \/ AddConn \/ SpawnHandler)
    /\ \A c \in Conns : WF_vars(\/ CheckQuit(c) \/ (c \in shut /\ ReadErr(c))
                                \/ ReleaseSem(c) \/ CloseConn(c))
    /\ \A w \in Workers : WF_vars(Worker(w))
    /\ WF_vars(StopRest)

FairSpec == Spec /\ Fairness
-------------------------------------------------------------------------------
(* Properties. *)

Fates == {"wire", "received", "refused", "shed", "queued", "handling"} \cup Outcomes

\* The type invariant of the ingest side.
TypeOK ==
    /\ stopped \in BOOLEAN /\ exitWorker \in BOOLEAN /\ storeOpen \in BOOLEAN
    /\ quit \in BOOLEAN /\ csClosed \in BOOLEAN /\ httpOpen \in BOOLEAN
    /\ inputCh \in Seq(Packets) /\ Len(inputCh) <= QueueCap
    /\ listener \in {"none", "open", "closed"}
    /\ connSem \in 0..MaxConns
    /\ tracked \in SUBSET Conns /\ wg \in SUBSET Conns
    /\ shut \in SUBSET Conns /\ buffered \in SUBSET Conns
    /\ acc \in [pc : {"listen", "accept", "sem", "add", "go", "exited"}, conn : Conns \cup {None}]
    /\ rpc \in [Receivers -> {"idle", "check", "send", "top", "read", "release", "close", "gone"}]
    /\ pkt \in [Receivers -> Packets \cup {None}]
    /\ wpc \in [Workers -> {"select", "handle", "drain", "drainhandle", "exited"}]
    /\ work \in [Workers -> Packets \cup {None}]
    /\ stopPc \in {"run", "quit", "listener", "conns", "join", "http", "httpjoin", "exit",
                   "workers", "store", "done"}
    /\ fate \in [Packets -> Fates]

\* Once Writer.Stop has returned, no packet of a receiver that Stop joins (TCP,
\* TLS, HTTP, HTTPS) is left in a receiver, in inputCh or in a worker: "Each
\* worker processes what is still queued, then exits" (writer.go, worker).
JoinedPacketsHandled ==
    stopPc = "done" =>
        \A p \in JoinedPackets : fate[p] \notin {"received", "queued", "handling"}

\* "The workers use the script engine and the remote logging clients up to their
\* last packet, so close them only now" (Writer.Stop), and the same for the
\* DuckLake manager that WriteHEP writes to.
StoreOutlivesWorkers ==
    \A w \in Workers : wpc[w] \in {"handle", "drainhandle"} => storeOpen

\* connSet: once the stream receiver's Stop has returned, every connection that
\* was given to a handler is closed, the ones included whose wg.Add came after
\* Stop's wg.Wait had returned.
NoConnSurvivesStop ==
    stopPc \in {"http", "httpjoin", "exit", "workers", "store", "done"} =>
        \A c \in Conns : rpc[c] # "idle" \/ c \in tracked => c \in shut

\* "The receivers are stopped and EnqueuePacket drops packets once stopped is
\* set, so the queue only shrinks now.  Each worker processes what is still
\* queued, then exits" (Writer.Stop): no packet stays in inputCh.
QueueEmptyAfterStop == stopPc = "done" => inputCh = <<>>

\* Writer.Stop returns although clients keep idle connections open: closeAll
\* ends the reads that wg.Wait would otherwise wait for.
StopReturns == stopped ~> stopPc = "done"
===============================================================================
