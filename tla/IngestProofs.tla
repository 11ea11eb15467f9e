----------------------------- MODULE IngestProofs -----------------------------
(***************************************************************************)
(* Proofs about Ingest, for every set of packets and goroutines and every  *)
(* value of the bounds.  The inductive invariant has six parts:            *)
(*                                                                         *)
(*   TypeOK     every variable has its type;                               *)
(*   PhaseInv   what Stop has set, closed and joined at each of its steps; *)
(*   ConnInv    a handler's connection is tracked or closed, and after     *)
(*              closeAll it is closed; a handler that starts late is       *)
(*              silent;                                                    *)
(*   SemInv     connSem counts the connections that hold a slot;           *)
(*   PlaceInv   a packet that is on its way is held by the receiver, the   *)
(*              queue or the worker that its fate names;                   *)
(*   DrainInv   once a worker has exited, only UDP packets get into the    *)
(*              queue.                                                     *)
(***************************************************************************)
EXTENDS Ingest, FiniteSetTheorems, TLAPS

\* Stop has returned from the wg.Wait of the stream receiver.
StreamsJoined == stopPc \in {"http", "httpjoin", "exit", "workers", "store", "done"}

\* Stop has returned from the Shutdown of the HTTP server.
HttpJoined == stopPc \in {"exit", "workers", "store", "done"}

PhaseInv ==
    /\ stopped <=> stopPc # "run"
    /\ quit <=> stopPc \notin {"run", "quit"}
    /\ csClosed <=> stopPc \notin {"run", "quit", "listener", "conns"}
    /\ exitWorker <=> stopPc \in {"workers", "store", "done"}
    /\ storeOpen <=> stopPc # "done"
    /\ StreamsJoined /\ stopPc # "http" => ~httpOpen
    /\ \A w \in Workers : wpc[w] \in {"drain", "drainhandle", "exited"} => exitWorker
    /\ stopPc \in {"store", "done"} => \A w \in Workers : wpc[w] = "exited"
    /\ \A x \in Loops \cup Requests : rpc[x] \in {"idle", "check", "send"}
    /\ HttpJoined => \A r \in Requests : rpc[r] = "idle"

ConnInv ==
    /\ acc.pc \in {"sem", "add", "go"} => acc.conn \in Conns /\ rpc[acc.conn] = "idle"
    /\ acc.pc = "go" => acc.conn \in tracked \cup shut
    /\ csClosed => tracked \subseteq shut
    /\ \A c \in Conns : /\ rpc[c] # "idle" => c \in tracked \cup shut
                        /\ rpc[c] \in {"idle", "gone"} <=> c \notin wg
                        /\ StreamsJoined => rpc[c] \notin {"read", "check", "send"}

\* The connections that hold a slot of connSem.
SemUsers == {c \in Conns : \/ rpc[c] \in {"top", "read", "check", "send", "release"}
                           \/ acc.pc \in {"add", "go"} /\ acc.conn = c}

SemInv == connSem = Cardinality(SemUsers)

PlaceInv ==
    /\ \A x \in Receivers : pkt[x] # None <=> rpc[x] \in {"check", "send"}
    /\ \A l \in Loops : pkt[l] \in UdpPackets \cup {None}
    /\ \A x \in Conns \cup Requests : pkt[x] \in JoinedPackets \cup {None}
    /\ \A w \in Workers : work[w] # None <=> wpc[w] \in {"handle", "drainhandle"}
    /\ \A p \in Packets :
          /\ fate[p] = "received" => \E x \in Receivers : pkt[x] = p
          /\ fate[p] = "queued" => \E i \in 1..Len(inputCh) : inputCh[i] = p
          /\ fate[p] = "handling" => \E w \in Workers : work[w] = p

DrainInv ==
    (\E w \in Workers : wpc[w] = "exited") =>
        \A i \in 1..Len(inputCh) : inputCh[i] \in UdpPackets

IInv == TypeOK /\ PhaseInv /\ ConnInv /\ SemInv /\ PlaceInv /\ DrainInv
-------------------------------------------------------------------------------
(* Facts used by several proofs. *)

\* The elements of a queue after a send.
LEMMA SendElems ==
    ASSUME NEW q \in Seq(Packets), NEW e \in Packets
    PROVE  /\ Append(q, e) \in Seq(Packets) /\ Len(Append(q, e)) = Len(q) + 1
           /\ \E i \in 1..Len(Append(q, e)) : Append(q, e)[i] = e
           /\ \A s : (\E i \in 1..Len(q) : q[i] = s)
                        => \E i \in 1..Len(Append(q, e)) : Append(q, e)[i] = s
           /\ \A i \in 1..Len(Append(q, e)) :
                 \/ Append(q, e)[i] = e
                 \/ i \in 1..Len(q) /\ Append(q, e)[i] = q[i]
<1>1. /\ Append(q, e) \in Seq(Packets) /\ Len(Append(q, e)) = Len(q) + 1
      /\ Len(q) \in Nat
      /\ \A i \in 1..Len(q) : Append(q, e)[i] = q[i]
      /\ Append(q, e)[Len(q) + 1] = e
  OBVIOUS
<1>2. Len(q) + 1 \in 1..Len(Append(q, e)) /\ 1..Len(q) \subseteq 1..Len(Append(q, e))
  BY <1>1
<1>3. \A i \in 1..Len(Append(q, e)) : i = Len(q) + 1 \/ i \in 1..Len(q)
  BY <1>1
<1>4. \A i \in 1..Len(Append(q, e)) : \/ Append(q, e)[i] = e
                                      \/ i \in 1..Len(q) /\ Append(q, e)[i] = q[i]
  BY <1>1, <1>3
<1>5. \A i \in 1..Len(q) : i \in 1..Len(Append(q, e)) /\ Append(q, e)[i] = q[i]
  BY <1>1, <1>2
<1> QED
  BY <1>1, <1>2, <1>4, <1>5

\* The elements of a queue after a receive.
LEMMA RecvElems ==
    ASSUME NEW q \in Seq(Packets), q # <<>>
    PROVE  /\ Head(q) \in Packets /\ Tail(q) \in Seq(Packets)
           /\ Len(Tail(q)) \in Nat /\ Len(q) = Len(Tail(q)) + 1
           /\ \A i \in 1..Len(Tail(q)) : i + 1 \in 1..Len(q) /\ Tail(q)[i] = q[i + 1]
           /\ \A s : (\E i \in 1..Len(q) : q[i] = s)
                        => Head(q) = s \/ \E i \in 1..Len(Tail(q)) : Tail(q)[i] = s
<1>1. /\ Head(q) = q[1] /\ Head(q) \in Packets /\ Tail(q) \in Seq(Packets)
      /\ Len(Tail(q)) = Len(q) - 1 /\ Len(q) \in Nat /\ Len(q) # 0
      /\ \A k \in 1..Len(Tail(q)) : Tail(q)[k] = q[k + 1]
  OBVIOUS
<1>2. ASSUME NEW i \in 1..Len(q), i # 1
      PROVE  i - 1 \in 1..Len(Tail(q)) /\ Tail(q)[i - 1] = q[i]
  BY <1>1, <1>2
<1>3. \A i \in 1..Len(Tail(q)) : i + 1 \in 1..Len(q)
  BY <1>1
<1>4. Len(Tail(q)) \in Nat /\ Len(q) = Len(Tail(q)) + 1
  BY <1>1
<1> QED
  BY <1>1, <1>2, <1>3, <1>4

\* Which kind a receiver goroutine is of.
LEMMA Kinds ==
    /\ \A x \in Receivers : x \in Loops \/ x \in Conns \/ x \in Requests
    /\ \A x \in Loops : x \in Receivers /\ x \notin Conns /\ x \notin Requests
    /\ \A x \in Conns : x \in Receivers /\ x \notin Loops /\ x \notin Requests
    /\ \A x \in Requests : x \in Receivers /\ x \notin Loops /\ x \notin Conns
    /\ \A x \in Receivers : BackTo(x) = IF x \in Conns THEN "top" ELSE "idle"
BY IngestAssumption DEF Receivers, BackTo

LEMMA KindsOfPackets ==
    /\ \A p \in UdpPackets : p \in Packets /\ p \notin JoinedPackets /\ p # None
    /\ \A p \in JoinedPackets : p \in Packets /\ p \notin UdpPackets /\ p # None
    /\ \A p \in Packets : p # None
    /\ \A c \in Conns : c # None
BY IngestAssumption DEF Packets
-------------------------------------------------------------------------------
\* What Stop has set, closed and joined stays so.
LEMMA PhaseStep == IInv /\ [Next]_vars => PhaseInv'
<1> SUFFICES ASSUME IInv, [Next]_vars PROVE PhaseInv'
  OBVIOUS
<1> USE Kinds DEF IInv, TypeOK, PhaseInv, StreamsJoined, HttpJoined, rcvVars, workVars, stopVars, acceptRest, workRest, stopRest
<1>1. ASSUME NEW l \in Loops, NEW p \in UdpPackets, OnTraffic(l, p) PROVE PhaseInv'
  BY <1>1 DEF OnTraffic, Receive
<1>2. ASSUME NEW r \in Requests, NEW p \in JoinedPackets, HandleHEP(r, p) PROVE PhaseInv'
  BY <1>2 DEF HandleHEP, Receive
<1>3. ASSUME NEW x \in Receivers, CheckStopped(x) PROVE PhaseInv'
  BY <1>3 DEF CheckStopped, Leave
<1>4. ASSUME NEW x \in Receivers, Send(x) PROVE PhaseInv'
  BY <1>4 DEF Send, Leave
<1>5. ASSUME Listen PROVE PhaseInv'
  BY <1>5 DEF Listen
<1>6. ASSUME NEW c \in Conns, Accept(c) PROVE PhaseInv'
  BY <1>6 DEF Accept
<1>7. ASSUME AcceptErr PROVE PhaseInv'
  BY <1>7 DEF AcceptErr
<1>8. ASSUME AcquireSem PROVE PhaseInv'
  BY <1>8 DEF AcquireSem, NextConn
<1>9. ASSUME AddConn PROVE PhaseInv'
  BY <1>9 DEF AddConn, NextConn
<1>10. ASSUME SpawnHandler PROVE PhaseInv'
  BY <1>10 DEF SpawnHandler, NextConn, ConnInv
<1>11. ASSUME NEW c \in Conns, CheckQuit(c) PROVE PhaseInv'
  BY <1>11 DEF CheckQuit
<1>12. ASSUME NEW c \in Conns, NEW p \in JoinedPackets, ReadFrame(c, p) PROVE PhaseInv'
  BY <1>12 DEF ReadFrame, Receive
<1>13. ASSUME NEW c \in Conns, ReadErr(c) PROVE PhaseInv'
  BY <1>13 DEF ReadErr
<1>14. ASSUME NEW c \in Conns, ReleaseSem(c) PROVE PhaseInv'
  BY <1>14 DEF ReleaseSem
<1>15. ASSUME NEW c \in Conns, CloseConn(c) PROVE PhaseInv'
  BY <1>15 DEF CloseConn
<1>16. ASSUME NEW w \in Workers, Take(w) PROVE PhaseInv'
  BY <1>16 DEF Take
<1>17. ASSUME NEW w \in Workers, SeeExit(w) PROVE PhaseInv'
  BY <1>17 DEF SeeExit
<1>18. ASSUME NEW w \in Workers, HandlePacket(w) PROVE PhaseInv'
  BY <1>18 DEF HandlePacket
<1>19. ASSUME NEW w \in Workers, Drained(w) PROVE PhaseInv'
  BY <1>19 DEF Drained
<1>20. ASSUME StopFlag PROVE PhaseInv'
  BY <1>20 DEF StopFlag
<1>21. ASSUME StopQuit PROVE PhaseInv'
  BY <1>21 DEF StopQuit
<1>22. ASSUME StopListener PROVE PhaseInv'
  BY <1>22 DEF StopListener
<1>23. ASSUME StopConns PROVE PhaseInv'
  BY <1>23 DEF StopConns
<1>24. ASSUME StopJoin PROVE PhaseInv'
  BY <1>24 DEF StopJoin
<1>25. ASSUME StopHttp PROVE PhaseInv'
  BY <1>25 DEF StopHttp
<1>26. ASSUME StopHttpJoin PROVE PhaseInv'
  BY <1>26 DEF StopHttpJoin
<1>27. ASSUME StopExit PROVE PhaseInv'
  BY <1>27 DEF StopExit
<1>28. ASSUME StopWorkers PROVE PhaseInv'
  BY <1>28 DEF StopWorkers
<1>29. ASSUME StopStore PROVE PhaseInv'
  BY <1>29 DEF StopStore
<1>30. ASSUME UNCHANGED vars PROVE PhaseInv'
  BY <1>30 DEF vars
<1> QED
  BY <1>1, <1>2, <1>3, <1>4, <1>5, <1>6, <1>7, <1>8, <1>9, <1>10, <1>11, <1>12, <1>13, <1>14, <1>15, <1>16,
     <1>17, <1>18, <1>19, <1>20, <1>21, <1>22, <1>23, <1>24, <1>25, <1>26, <1>27, <1>28, <1>29, <1>30
  DEF Next, EnqueuePacket, Acceptor, HandleConnection, Worker, StopRest, Done

\* Connections stay tracked or closed, and late handlers silent.
LEMMA ConnStep == IInv /\ [Next]_vars => ConnInv'
<1> SUFFICES ASSUME IInv, [Next]_vars PROVE ConnInv'
  OBVIOUS
<1> USE Kinds, KindsOfPackets DEF IInv, TypeOK, PhaseInv, ConnInv, StreamsJoined, rcvVars, workVars, stopVars, acceptRest, workRest, stopRest
<1>1. ASSUME NEW l \in Loops, NEW p \in UdpPackets, OnTraffic(l, p) PROVE ConnInv'
  BY <1>1 DEF OnTraffic, Receive
<1>2. ASSUME NEW r \in Requests, NEW p \in JoinedPackets, HandleHEP(r, p) PROVE ConnInv'
  BY <1>2 DEF HandleHEP, Receive
<1>3. ASSUME NEW x \in Receivers, CheckStopped(x) PROVE ConnInv'
  BY <1>3 DEF CheckStopped, Leave
<1>4. ASSUME NEW x \in Receivers, Send(x) PROVE ConnInv'
  BY <1>4 DEF Send, Leave
<1>5. ASSUME Listen PROVE ConnInv'
  BY <1>5 DEF Listen
<1>6. ASSUME NEW c \in Conns, Accept(c) PROVE ConnInv'
  BY <1>6 DEF Accept
<1>7. ASSUME AcceptErr PROVE ConnInv'
  BY <1>7 DEF AcceptErr
<1>8. ASSUME AcquireSem PROVE ConnInv'
  BY <1>8 DEF AcquireSem, NextConn
<1>9. ASSUME AddConn PROVE ConnInv'
  BY <1>9 DEF AddConn, NextConn
<1>10. ASSUME SpawnHandler PROVE ConnInv'
  BY <1>10 DEF SpawnHandler, NextConn
<1>11. ASSUME NEW c \in Conns, CheckQuit(c) PROVE ConnInv'
  BY <1>11 DEF CheckQuit
<1>12. ASSUME NEW c \in Conns, NEW p \in JoinedPackets, ReadFrame(c, p) PROVE ConnInv'
  BY <1>12 DEF ReadFrame, Receive
<1>13. ASSUME NEW c \in Conns, ReadErr(c) PROVE ConnInv'
  BY <1>13 DEF ReadErr
<1>14. ASSUME NEW c \in Conns, ReleaseSem(c) PROVE ConnInv'
  BY <1>14 DEF ReleaseSem
<1>15. ASSUME NEW c \in Conns, CloseConn(c) PROVE ConnInv'
  BY <1>15 DEF CloseConn
<1>16. ASSUME NEW w \in Workers, Take(w) PROVE ConnInv'
  BY <1>16 DEF Take
<1>17. ASSUME NEW w \in Workers, SeeExit(w) PROVE ConnInv'
  BY <1>17 DEF SeeExit
<1>18. ASSUME NEW w \in Workers, HandlePacket(w) PROVE ConnInv'
  BY <1>18 DEF HandlePacket
<1>19. ASSUME NEW w \in Workers, Drained(w) PROVE ConnInv'
  BY <1>19 DEF Drained
<1>20. ASSUME StopFlag PROVE ConnInv'
  BY <1>20 DEF StopFlag
<1>21. ASSUME StopQuit PROVE ConnInv'
  BY <1>21 DEF StopQuit
<1>22. ASSUME StopListener PROVE ConnInv'
  BY <1>22 DEF StopListener
<1>23. ASSUME StopConns PROVE ConnInv'
  BY <1>23 DEF StopConns
<1>24. ASSUME StopJoin PROVE ConnInv'
  BY <1>24 DEF StopJoin
<1>25. ASSUME StopHttp PROVE ConnInv'
  BY <1>25 DEF StopHttp
<1>26. ASSUME StopHttpJoin PROVE ConnInv'
  BY <1>26 DEF StopHttpJoin
<1>27. ASSUME StopExit PROVE ConnInv'
  BY <1>27 DEF StopExit
<1>28. ASSUME StopWorkers PROVE ConnInv'
  BY <1>28 DEF StopWorkers
<1>29. ASSUME StopStore PROVE ConnInv'
  BY <1>29 DEF StopStore
<1>30. ASSUME UNCHANGED vars PROVE ConnInv'
  BY <1>30 DEF vars
<1> QED
  BY <1>1, <1>2, <1>3, <1>4, <1>5, <1>6, <1>7, <1>8, <1>9, <1>10, <1>11, <1>12, <1>13, <1>14, <1>15, <1>16,
     <1>17, <1>18, <1>19, <1>20, <1>21, <1>22, <1>23, <1>24, <1>25, <1>26, <1>27, <1>28, <1>29, <1>30
  DEF Next, EnqueuePacket, Acceptor, HandleConnection, Worker, StopRest, Done

\* A packet on its way stays where its fate says.
LEMMA PlaceStep == IInv /\ [Next]_vars => PlaceInv'
<1> SUFFICES ASSUME IInv, [Next]_vars PROVE PlaceInv'
  OBVIOUS
<1> USE Kinds, KindsOfPackets DEF IInv, TypeOK, ConnInv, PlaceInv, rcvVars, workVars, stopVars, acceptRest, workRest, stopRest
<1>1. ASSUME NEW l \in Loops, NEW p \in UdpPackets, OnTraffic(l, p) PROVE PlaceInv'
  BY <1>1 DEF OnTraffic, Receive
<1>2. ASSUME NEW r \in Requests, NEW p \in JoinedPackets, HandleHEP(r, p) PROVE PlaceInv'
  BY <1>2 DEF HandleHEP, Receive
<1>3. ASSUME NEW x \in Receivers, CheckStopped(x) PROVE PlaceInv'
  BY SMTT(30), <1>3 DEF CheckStopped, Leave
<1>4. ASSUME NEW x \in Receivers, Send(x) PROVE PlaceInv'
  <2>1. pkt[x] \in Packets /\ BackTo(x) \notin {"check", "send"}
    BY <1>4 DEF Send
  <2>2. CASE inputCh' = Append(inputCh, pkt[x]) /\ Leave(x, "queued")
    <3>1. /\ inputCh' = Append(inputCh, pkt[x])
          /\ fate' = [fate EXCEPT ![pkt[x]] = "queued"]
          /\ pkt' = [pkt EXCEPT ![x] = None]
          /\ rpc' = [rpc EXCEPT ![x] = BackTo(x)]
          /\ UNCHANGED workVars
      BY <1>4, <2>2 DEF Send, Leave
    <3>2. \A p \in Packets : fate'[p] = "queued" => \E i \in 1..Len(inputCh') : inputCh'[i] = p
      BY <2>1, <3>1, SendElems
    <3>3. \A p \in Packets : fate'[p] = "received" => \E y \in Receivers : pkt'[y] = p
      BY <2>1, <3>1
    <3>4. \A p \in Packets : fate'[p] = "handling" => \E w \in Workers : work'[w] = p
      BY <2>1, <3>1
    <3>5. \A y \in Receivers : /\ pkt'[y] # None <=> rpc'[y] \in {"check", "send"}
                               /\ y \in Loops => pkt'[y] \in UdpPackets \cup {None}
                               /\ y \in Conns \cup Requests => pkt'[y] \in JoinedPackets \cup {None}
      BY <2>1, <3>1
    <3> QED
      BY <3>1, <3>2, <3>3, <3>4, <3>5
  <2>3. CASE UNCHANGED inputCh /\ Leave(x, "shed")
    BY <1>4, <2>1, <2>3 DEF Send, Leave
  <2> QED
    BY <1>4, <2>2, <2>3 DEF Send
<1>5. ASSUME Listen PROVE PlaceInv'
  BY <1>5 DEF Listen
<1>6. ASSUME NEW c \in Conns, Accept(c) PROVE PlaceInv'
  BY <1>6 DEF Accept
<1>7. ASSUME AcceptErr PROVE PlaceInv'
  BY <1>7 DEF AcceptErr
<1>8. ASSUME AcquireSem PROVE PlaceInv'
  BY <1>8 DEF AcquireSem, NextConn
<1>9. ASSUME AddConn PROVE PlaceInv'
  BY <1>9 DEF AddConn, NextConn
<1>10. ASSUME SpawnHandler PROVE PlaceInv'
  BY <1>10 DEF SpawnHandler, NextConn
<1>11. ASSUME NEW c \in Conns, CheckQuit(c) PROVE PlaceInv'
  BY <1>11 DEF CheckQuit
<1>12. ASSUME NEW c \in Conns, NEW p \in JoinedPackets, ReadFrame(c, p) PROVE PlaceInv'
  BY <1>12 DEF ReadFrame, Receive
<1>13. ASSUME NEW c \in Conns, ReadErr(c) PROVE PlaceInv'
  BY <1>13 DEF ReadErr
<1>14. ASSUME NEW c \in Conns, ReleaseSem(c) PROVE PlaceInv'
  BY <1>14 DEF ReleaseSem
<1>15. ASSUME NEW c \in Conns, CloseConn(c) PROVE PlaceInv'
  BY <1>15 DEF CloseConn
<1>16. ASSUME NEW w \in Workers, Take(w) PROVE PlaceInv'
  <2>1. /\ inputCh # <<>> /\ work[w] = None
        /\ inputCh' = Tail(inputCh)
        /\ work' = [work EXCEPT ![w] = Head(inputCh)]
        /\ fate' = [fate EXCEPT ![Head(inputCh)] = "handling"]
        /\ wpc' = [wpc EXCEPT ![w] = IF @ = "select" THEN "handle" ELSE "drainhandle"]
        /\ UNCHANGED <<pkt, rpc>>
    BY <1>16 DEF Take
  <2>2. Head(inputCh) \in Packets
    BY <2>1, RecvElems
  <2>3. ASSUME NEW p \in Packets, fate'[p] = "queued"
        PROVE  \E i \in 1..Len(inputCh') : inputCh'[i] = p
    <3>1. p # Head(inputCh) /\ \E i \in 1..Len(inputCh) : inputCh[i] = p
      BY <2>1, <2>2, <2>3
    <3>2. inputCh \in Seq(Packets) /\ inputCh # <<>>
      BY <2>1
    <3>3. \A s : (\E i \in 1..Len(inputCh) : inputCh[i] = s)
                     => \/ Head(inputCh) = s
                        \/ \E i \in 1..Len(Tail(inputCh)) : Tail(inputCh)[i] = s
      BY <3>2, RecvElems, Zenon
    <3>4. \E i \in 1..Len(Tail(inputCh)) : Tail(inputCh)[i] = p
      BY <3>1, <3>3, Zenon
    <3> QED
      BY <2>1, <3>4
  <2>4. \A p \in Packets : fate'[p] = "handling" => \E v \in Workers : work'[v] = p
    BY <2>1, <2>2
  <2> QED
    BY <2>1, <2>2, <2>3, <2>4
<1>17. ASSUME NEW w \in Workers, SeeExit(w) PROVE PlaceInv'
  BY <1>17 DEF SeeExit
<1>18. ASSUME NEW w \in Workers, HandlePacket(w) PROVE PlaceInv'
  <2> PICK o \in Outcomes : fate' = [fate EXCEPT ![work[w]] = o]
    BY <1>18 DEF HandlePacket
  <2>1. o \notin {"received", "queued", "handling"}
    BY DEF Outcomes
  <2>2. \A p \in Packets : fate'[p] \in {"received", "queued", "handling"}
                             => fate'[p] = fate[p] /\ p # work[w]
    BY <2>1
  <2> QED
    BY <1>18, <2>2 DEF HandlePacket
<1>19. ASSUME NEW w \in Workers, Drained(w) PROVE PlaceInv'
  BY <1>19 DEF Drained
<1>20. ASSUME StopFlag PROVE PlaceInv'
  BY <1>20 DEF StopFlag
<1>21. ASSUME StopQuit PROVE PlaceInv'
  BY <1>21 DEF StopQuit
<1>22. ASSUME StopListener PROVE PlaceInv'
  BY <1>22 DEF StopListener
<1>23. ASSUME StopConns PROVE PlaceInv'
  BY <1>23 DEF StopConns
<1>24. ASSUME StopJoin PROVE PlaceInv'
  BY <1>24 DEF StopJoin
<1>25. ASSUME StopHttp PROVE PlaceInv'
  BY <1>25 DEF StopHttp
<1>26. ASSUME StopHttpJoin PROVE PlaceInv'
  BY <1>26 DEF StopHttpJoin
<1>27. ASSUME StopExit PROVE PlaceInv'
  BY <1>27 DEF StopExit
<1>28. ASSUME StopWorkers PROVE PlaceInv'
  BY <1>28 DEF StopWorkers
<1>29. ASSUME StopStore PROVE PlaceInv'
  BY <1>29 DEF StopStore
<1>30. ASSUME UNCHANGED vars PROVE PlaceInv'
  BY <1>30 DEF vars
<1> QED
  BY <1>1, <1>2, <1>3, <1>4, <1>5, <1>6, <1>7, <1>8, <1>9, <1>10, <1>11, <1>12, <1>13, <1>14, <1>15, <1>16,
     <1>17, <1>18, <1>19, <1>20, <1>21, <1>22, <1>23, <1>24, <1>25, <1>26, <1>27, <1>28, <1>29, <1>30
  DEF Next, EnqueuePacket, Acceptor, HandleConnection, Worker, StopRest, Done

\* After the first exit of a worker no other packet is queued.
LEMMA DrainStep == IInv /\ [Next]_vars => DrainInv'
<1> SUFFICES ASSUME IInv, [Next]_vars PROVE DrainInv'
  OBVIOUS
<1> USE Kinds, KindsOfPackets DEF IInv, TypeOK, PhaseInv, ConnInv, PlaceInv, DrainInv, StreamsJoined, HttpJoined, rcvVars, workVars, stopVars, acceptRest, workRest, stopRest
<1>1. ASSUME NEW l \in Loops, NEW p \in UdpPackets, OnTraffic(l, p) PROVE DrainInv'
  BY <1>1 DEF OnTraffic, Receive
<1>2. ASSUME NEW r \in Requests, NEW p \in JoinedPackets, HandleHEP(r, p) PROVE DrainInv'
  BY <1>2 DEF HandleHEP, Receive
<1>3. ASSUME NEW x \in Receivers, CheckStopped(x) PROVE DrainInv'
  BY <1>3 DEF CheckStopped, Leave
<1>4. ASSUME NEW x \in Receivers, Send(x) PROVE DrainInv'
  <2>1. CASE inputCh' = inputCh
    BY <1>4, <2>1 DEF Send, Leave
  <2>2. CASE inputCh' = Append(inputCh, pkt[x])
    <3>1. pkt[x] \in Packets
      BY <1>4 DEF Send
    <3>2. (\E w \in Workers : wpc[w] = "exited") => x \in Loops /\ pkt[x] \in UdpPackets
      BY <1>4 DEF Send
    <3>3. wpc' = wpc
      BY <1>4 DEF Send
    <3> QED
      BY <2>2, <3>1, <3>2, <3>3, SendElems
  <2> QED
    BY <1>4, <2>1, <2>2 DEF Send
<1>5. ASSUME Listen PROVE DrainInv'
  BY <1>5 DEF Listen
<1>6. ASSUME NEW c \in Conns, Accept(c) PROVE DrainInv'
  BY <1>6 DEF Accept
<1>7. ASSUME AcceptErr PROVE DrainInv'
  BY <1>7 DEF AcceptErr
<1>8. ASSUME AcquireSem PROVE DrainInv'
  BY <1>8 DEF AcquireSem, NextConn
<1>9. ASSUME AddConn PROVE DrainInv'
  BY <1>9 DEF AddConn, NextConn
<1>10. ASSUME SpawnHandler PROVE DrainInv'
  BY <1>10 DEF SpawnHandler, NextConn
<1>11. ASSUME NEW c \in Conns, CheckQuit(c) PROVE DrainInv'
  BY <1>11 DEF CheckQuit
<1>12. ASSUME NEW c \in Conns, NEW p \in JoinedPackets, ReadFrame(c, p) PROVE DrainInv'
  BY <1>12 DEF ReadFrame, Receive
<1>13. ASSUME NEW c \in Conns, ReadErr(c) PROVE DrainInv'
  BY <1>13 DEF ReadErr
<1>14. ASSUME NEW c \in Conns, ReleaseSem(c) PROVE DrainInv'
  BY <1>14 DEF ReleaseSem
<1>15. ASSUME NEW c \in Conns, CloseConn(c) PROVE DrainInv'
  BY <1>15 DEF CloseConn
<1>16. ASSUME NEW w \in Workers, Take(w) PROVE DrainInv'
  BY <1>16, RecvElems DEF Take
<1>17. ASSUME NEW w \in Workers, SeeExit(w) PROVE DrainInv'
  BY <1>17 DEF SeeExit
<1>18. ASSUME NEW w \in Workers, HandlePacket(w) PROVE DrainInv'
  BY <1>18 DEF HandlePacket
<1>19. ASSUME NEW w \in Workers, Drained(w) PROVE DrainInv'
  BY <1>19 DEF Drained
<1>20. ASSUME StopFlag PROVE DrainInv'
  BY <1>20 DEF StopFlag
<1>21. ASSUME StopQuit PROVE DrainInv'
  BY <1>21 DEF StopQuit
<1>22. ASSUME StopListener PROVE DrainInv'
  BY <1>22 DEF StopListener
<1>23. ASSUME StopConns PROVE DrainInv'
  BY <1>23 DEF StopConns
<1>24. ASSUME StopJoin PROVE DrainInv'
  BY <1>24 DEF StopJoin
<1>25. ASSUME StopHttp PROVE DrainInv'
  BY <1>25 DEF StopHttp
<1>26. ASSUME StopHttpJoin PROVE DrainInv'
  BY <1>26 DEF StopHttpJoin
<1>27. ASSUME StopExit PROVE DrainInv'
  BY <1>27 DEF StopExit
<1>28. ASSUME StopWorkers PROVE DrainInv'
  BY <1>28 DEF StopWorkers
<1>29. ASSUME StopStore PROVE DrainInv'
  BY <1>29 DEF StopStore
<1>30. ASSUME UNCHANGED vars PROVE DrainInv'
  BY <1>30 DEF vars
<1> QED
  BY <1>1, <1>2, <1>3, <1>4, <1>5, <1>6, <1>7, <1>8, <1>9, <1>10, <1>11, <1>12, <1>13, <1>14, <1>15, <1>16,
     <1>17, <1>18, <1>19, <1>20, <1>21, <1>22, <1>23, <1>24, <1>25, <1>26, <1>27, <1>28, <1>29, <1>30
  DEF Next, EnqueuePacket, Acceptor, HandleConnection, Worker, StopRest, Done

-------------------------------------------------------------------------------
(* The semaphore and the types. *)

LEMMA SemFinite ==
    /\ IsFiniteSet(SemUsers) /\ Cardinality(SemUsers) \in Nat
    /\ IsFiniteSet(SemUsers') /\ Cardinality(SemUsers') \in Nat
<1>1. IsFiniteSet(Conns)
  BY IngestAssumption
<1>2. SemUsers \in SUBSET Conns /\ SemUsers' \in SUBSET Conns
  BY DEF SemUsers
<1>3. IsFiniteSet(SemUsers) /\ IsFiniteSet(SemUsers')
  BY <1>1, <1>2, FS_Subset
<1> QED
  BY <1>3, FS_CardinalityType

\* connSem keeps counting the connections that hold a slot.
LEMMA SemStep == IInv /\ [Next]_vars => SemInv'
<1> SUFFICES ASSUME IInv, [Next]_vars PROVE SemInv'
  OBVIOUS
<1> USE Kinds, KindsOfPackets DEF IInv, TypeOK, ConnInv, SemInv, rcvVars, workVars, stopVars, acceptRest, workRest, stopRest
<1>1. ASSUME NEW l \in Loops, NEW p \in UdpPackets, OnTraffic(l, p) PROVE SemInv'
  <2>1. SemUsers' = SemUsers
    BY <1>1 DEF OnTraffic, Receive, SemUsers
  <2> QED
    BY <1>1, <2>1 DEF OnTraffic
<1>2. ASSUME NEW r \in Requests, NEW p \in JoinedPackets, HandleHEP(r, p) PROVE SemInv'
  <2>1. SemUsers' = SemUsers
    BY <1>2 DEF HandleHEP, Receive, SemUsers
  <2> QED
    BY <1>2, <2>1 DEF HandleHEP
<1>3. ASSUME NEW x \in Receivers, CheckStopped(x) PROVE SemInv'
  <2>1. SemUsers' = SemUsers
    BY <1>3 DEF CheckStopped, Leave, SemUsers
  <2> QED
    BY <1>3, <2>1 DEF CheckStopped
<1>4. ASSUME NEW x \in Receivers, Send(x) PROVE SemInv'
  <2>1. SemUsers' = SemUsers
    BY <1>4 DEF Send, Leave, SemUsers
  <2> QED
    BY <1>4, <2>1 DEF Send
<1>5. ASSUME Listen PROVE SemInv'
  <2>1. SemUsers' = SemUsers
    BY <1>5 DEF Listen, SemUsers
  <2> QED
    BY <1>5, <2>1 DEF Listen
<1>6. ASSUME NEW c \in Conns, Accept(c) PROVE SemInv'
  <2>1. SemUsers' = SemUsers
    BY <1>6 DEF Accept, SemUsers
  <2> QED
    BY <1>6, <2>1 DEF Accept
<1>7. ASSUME AcceptErr PROVE SemInv'
  <2>1. SemUsers' = SemUsers
    BY <1>7 DEF AcceptErr, SemUsers
  <2> QED
    BY <1>7, <2>1 DEF AcceptErr
<1>8. ASSUME AcquireSem PROVE SemInv'
  <2>1. CASE connSem' = connSem + 1 /\ acc' = [acc EXCEPT !.pc = "add"]
    <3>1. SemUsers' = SemUsers \cup {acc.conn} /\ acc.conn \notin SemUsers
      BY <1>8, <2>1 DEF AcquireSem, SemUsers
    <3> QED
      BY <2>1, <3>1, SemFinite, FS_AddElement
  <2>2. CASE UNCHANGED connSem /\ NextConn
    <3>1. SemUsers' = SemUsers
      BY <1>8, <2>2 DEF AcquireSem, NextConn, SemUsers
    <3> QED
      BY <2>2, <3>1
  <2> QED
    BY <1>8, <2>1, <2>2 DEF AcquireSem
<1>9. ASSUME AddConn PROVE SemInv'
  <2>1. CASE connSem' = connSem - 1 /\ NextConn
    <3>1. SemUsers' = SemUsers \ {acc.conn} /\ acc.conn \in SemUsers
      BY <1>9, <2>1 DEF AddConn, NextConn, SemUsers
    <3> QED
      BY <2>1, <3>1, SemFinite, FS_RemoveElement
  <2>2. CASE UNCHANGED connSem /\ acc' = [acc EXCEPT !.pc = "go"]
    <3>1. SemUsers' = SemUsers
      BY <1>9, <2>2 DEF AddConn, SemUsers
    <3> QED
      BY <2>2, <3>1
  <2> QED
    BY <1>9, <2>1, <2>2 DEF AddConn
<1>10. ASSUME SpawnHandler PROVE SemInv'
  <2>1. SemUsers' = SemUsers
    BY <1>10 DEF SpawnHandler, NextConn, SemUsers
  <2> QED
    BY <1>10, <2>1 DEF SpawnHandler
<1>11. ASSUME NEW c \in Conns, CheckQuit(c) PROVE SemInv'
  <2>1. SemUsers' = SemUsers
    BY <1>11 DEF CheckQuit, SemUsers
  <2> QED
    BY <1>11, <2>1 DEF CheckQuit
<1>12. ASSUME NEW c \in Conns, NEW p \in JoinedPackets, ReadFrame(c, p) PROVE SemInv'
  <2>1. SemUsers' = SemUsers
    BY <1>12 DEF ReadFrame, Receive, SemUsers
  <2> QED
    BY <1>12, <2>1 DEF ReadFrame
<1>13. ASSUME NEW c \in Conns, ReadErr(c) PROVE SemInv'
  <2>1. SemUsers' = SemUsers
    BY <1>13 DEF ReadErr, SemUsers
  <2> QED
    BY <1>13, <2>1 DEF ReadErr
<1>14. ASSUME NEW c \in Conns, ReleaseSem(c) PROVE SemInv'
  <2>1. SemUsers' = SemUsers \ {c} /\ c \in SemUsers
    BY <1>14 DEF ReleaseSem, SemUsers
  <2> QED
    BY <1>14, <2>1, SemFinite, FS_RemoveElement DEF ReleaseSem
<1>15. ASSUME NEW c \in Conns, CloseConn(c) PROVE SemInv'
  <2>1. SemUsers' = SemUsers
    BY <1>15 DEF CloseConn, SemUsers
  <2> QED
    BY <1>15, <2>1 DEF CloseConn
<1>16. ASSUME NEW w \in Workers, Take(w) PROVE SemInv'
  BY <1>16 DEF Take, SemUsers
<1>17. ASSUME NEW w \in Workers, SeeExit(w) PROVE SemInv'
  BY <1>17 DEF SeeExit, SemUsers
<1>18. ASSUME NEW w \in Workers, HandlePacket(w) PROVE SemInv'
  BY <1>18 DEF HandlePacket, SemUsers
<1>19. ASSUME NEW w \in Workers, Drained(w) PROVE SemInv'
  BY <1>19 DEF Drained, SemUsers
<1>20. ASSUME StopFlag PROVE SemInv'
  BY <1>20 DEF StopFlag, SemUsers
<1>21. ASSUME StopQuit PROVE SemInv'
  BY <1>21 DEF StopQuit, SemUsers
<1>22. ASSUME StopListener PROVE SemInv'
  BY <1>22 DEF StopListener, SemUsers
<1>23. ASSUME StopConns PROVE SemInv'
  BY <1>23 DEF StopConns, SemUsers
<1>24. ASSUME StopJoin PROVE SemInv'
  BY <1>24 DEF StopJoin, SemUsers
<1>25. ASSUME StopHttp PROVE SemInv'
  BY <1>25 DEF StopHttp, SemUsers
<1>26. ASSUME StopHttpJoin PROVE SemInv'
  BY <1>26 DEF StopHttpJoin, SemUsers
<1>27. ASSUME StopExit PROVE SemInv'
  BY <1>27 DEF StopExit, SemUsers
<1>28. ASSUME StopWorkers PROVE SemInv'
  BY <1>28 DEF StopWorkers, SemUsers
<1>29. ASSUME StopStore PROVE SemInv'
  BY <1>29 DEF StopStore, SemUsers
<1>30. ASSUME UNCHANGED vars PROVE SemInv'
  BY <1>30 DEF vars, SemUsers
<1> QED
  BY <1>1, <1>2, <1>3, <1>4, <1>5, <1>6, <1>7, <1>8, <1>9, <1>10, <1>11, <1>12, <1>13, <1>14, <1>15, <1>16,
     <1>17, <1>18, <1>19, <1>20, <1>21, <1>22, <1>23, <1>24, <1>25, <1>26, <1>27, <1>28, <1>29, <1>30
  DEF Next, EnqueuePacket, Acceptor, HandleConnection, Worker, StopRest, Done

LEMMA TypeStep == IInv /\ [Next]_vars => TypeOK'
<1> SUFFICES ASSUME IInv, [Next]_vars PROVE TypeOK'
  OBVIOUS
<1> USE Kinds, KindsOfPackets DEF IInv, TypeOK, Fates, rcvVars, workVars, stopVars, acceptRest, workRest, stopRest
<1>1. connSem' \in Nat /\ QueueCap \in Nat /\ MaxConns \in Nat
  BY SemStep, SemFinite, IngestAssumption DEF SemInv
<1>2. ASSUME NEW l \in Loops, NEW p \in UdpPackets, OnTraffic(l, p) PROVE TypeOK'
  BY <1>2 DEF OnTraffic, Receive
<1>3. ASSUME NEW r \in Requests, NEW p \in JoinedPackets, HandleHEP(r, p) PROVE TypeOK'
  BY <1>3 DEF HandleHEP, Receive
<1>4. ASSUME NEW x \in Receivers, CheckStopped(x) PROVE TypeOK'
  BY SMTT(30), <1>4 DEF CheckStopped, Leave
<1>5. ASSUME NEW x \in Receivers, Send(x) PROVE TypeOK'
  <2>1. pkt[x] \in Packets
    BY <1>5 DEF Send, PlaceInv
  <2>2. Len(Append(inputCh, pkt[x])) = Len(inputCh) + 1 /\ Append(inputCh, pkt[x]) \in Seq(Packets)
    BY <2>1, SendElems
  <2>3. inputCh' \in Seq(Packets) /\ Len(inputCh') <= QueueCap
    <3>1. CASE Len(inputCh) < QueueCap /\ inputCh' = Append(inputCh, pkt[x])
      BY <1>1, <2>2, <3>1
    <3>2. CASE inputCh' = inputCh
      BY <3>2
    <3> QED
      BY <1>5, <3>1, <3>2 DEF Send
  <2>4. /\ pkt' = [pkt EXCEPT ![x] = None]
        /\ rpc' = [rpc EXCEPT ![x] = BackTo(x)] /\ BackTo(x) \in {"top", "idle"}
        /\ fate' \in [Packets -> Fates]
    BY <1>5 DEF Send, Leave
  <2> QED
    BY <1>5, <2>3, <2>4 DEF Send
<1>6. ASSUME Listen PROVE TypeOK'
  BY <1>6 DEF Listen
<1>7. ASSUME NEW c \in Conns, Accept(c) PROVE TypeOK'
  BY <1>7 DEF Accept
<1>8. ASSUME AcceptErr PROVE TypeOK'
  BY <1>8 DEF AcceptErr
<1>9. ASSUME AcquireSem PROVE TypeOK'
  <2>1. acc.conn \in Conns
    BY <1>9 DEF AcquireSem, ConnInv
  <2>2. connSem' \in 0..MaxConns
    BY <1>9, <1>1 DEF AcquireSem
  <2> QED
    BY <1>9, <2>1, <2>2 DEF AcquireSem, NextConn
<1>10. ASSUME AddConn PROVE TypeOK'
  <2>1. acc.conn \in Conns
    BY <1>10 DEF AddConn, ConnInv
  <2>2. connSem' \in 0..MaxConns
    BY <1>10, <1>1 DEF AddConn
  <2> QED
    BY <1>10, <2>1, <2>2 DEF AddConn, NextConn
<1>11. ASSUME SpawnHandler PROVE TypeOK'
  BY <1>11 DEF SpawnHandler, NextConn, ConnInv
<1>12. ASSUME NEW c \in Conns, CheckQuit(c) PROVE TypeOK'
  BY <1>12 DEF CheckQuit
<1>13. ASSUME NEW c \in Conns, NEW p \in JoinedPackets, ReadFrame(c, p) PROVE TypeOK'
  BY <1>13 DEF ReadFrame, Receive
<1>14. ASSUME NEW c \in Conns, ReadErr(c) PROVE TypeOK'
  BY <1>14 DEF ReadErr
<1>15. ASSUME NEW c \in Conns, ReleaseSem(c) PROVE TypeOK'
  <2>1. connSem' \in 0..MaxConns
    BY <1>15, <1>1 DEF ReleaseSem
  <2> QED
    BY <1>15, <2>1 DEF ReleaseSem
<1>16. ASSUME NEW c \in Conns, CloseConn(c) PROVE TypeOK'
  BY <1>16 DEF CloseConn
<1>17. ASSUME NEW w \in Workers, Take(w) PROVE TypeOK'
  <2>1. Head(inputCh) \in Packets /\ inputCh' \in Seq(Packets) /\ Len(inputCh') <= QueueCap
    BY <1>17, <1>1, RecvElems DEF Take
  <2> QED
    BY <1>17, <2>1 DEF Take
<1>18. ASSUME NEW w \in Workers, SeeExit(w) PROVE TypeOK'
  BY <1>18 DEF SeeExit
<1>19. ASSUME NEW w \in Workers, HandlePacket(w) PROVE TypeOK'
  <2> PICK o \in Outcomes : fate' = [fate EXCEPT ![work[w]] = o]
    BY <1>19 DEF HandlePacket
  <2>1. fate' \in [Packets -> Fates]
    OBVIOUS
  <2> QED
    BY <1>19, <2>1 DEF HandlePacket
<1>20. ASSUME NEW w \in Workers, Drained(w) PROVE TypeOK'
  BY <1>20 DEF Drained
<1>21. ASSUME StopFlag PROVE TypeOK'
  BY <1>21 DEF StopFlag
<1>22. ASSUME StopQuit PROVE TypeOK'
  BY <1>22 DEF StopQuit
<1>23. ASSUME StopListener PROVE TypeOK'
  BY <1>23 DEF StopListener
<1>24. ASSUME StopConns PROVE TypeOK'
  BY <1>24 DEF StopConns
<1>25. ASSUME StopJoin PROVE TypeOK'
  BY <1>25 DEF StopJoin
<1>26. ASSUME StopHttp PROVE TypeOK'
  BY ZenonT(60), <1>26 DEF StopHttp
<1>27. ASSUME StopHttpJoin PROVE TypeOK'
  BY <1>27 DEF StopHttpJoin
<1>28. ASSUME StopExit PROVE TypeOK'
  BY <1>28 DEF StopExit
<1>29. ASSUME StopWorkers PROVE TypeOK'
  BY <1>29 DEF StopWorkers
<1>30. ASSUME StopStore PROVE TypeOK'
  BY ZenonT(60), <1>30 DEF StopStore
<1>31. ASSUME UNCHANGED vars PROVE TypeOK'
  BY <1>31 DEF vars
<1> QED
  BY <1>2, <1>3, <1>4, <1>5, <1>6, <1>7, <1>8, <1>9, <1>10, <1>11, <1>12, <1>13, <1>14, <1>15, <1>16, <1>17,
     <1>18, <1>19, <1>20, <1>21, <1>22, <1>23, <1>24, <1>25, <1>26, <1>27, <1>28, <1>29, <1>30, <1>31
  DEF Next, EnqueuePacket, Acceptor, HandleConnection, Worker, StopRest, Done

-------------------------------------------------------------------------------
(* The invariant and the theorems. *)

LEMMA InitInv == Init => IInv
<1> SUFFICES ASSUME Init PROVE IInv
  OBVIOUS
<1> USE Kinds, KindsOfPackets, IngestAssumption DEF Init
<1>1. inputCh = <<>> /\ Len(inputCh) = 0 /\ inputCh \in Seq(Packets)
  OBVIOUS
<1>2. TypeOK
  <2>1. connSem \in 0..MaxConns /\ Len(inputCh) <= QueueCap
    BY <1>1
  <2>2. acc \in [pc : {"listen", "accept", "sem", "add", "go", "exited"}, conn : Conns \cup {None}]
    OBVIOUS
  <2> QED
    BY <1>1, <2>1, <2>2 DEF TypeOK, Fates
<1>3. PhaseInv
  BY DEF PhaseInv, StreamsJoined, HttpJoined
<1>4. ConnInv
  BY DEF ConnInv, StreamsJoined
<1>5. SemUsers = {}
  BY DEF SemUsers
<1>6. SemInv
  BY <1>5, FS_EmptySet DEF SemInv
<1>7. PlaceInv
  BY DEF PlaceInv
<1>8. DrainInv
  BY <1>1 DEF DrainInv
<1> QED
  BY <1>2, <1>3, <1>4, <1>6, <1>7, <1>8 DEF IInv

LEMMA Invariant == Spec => []IInv
<1>1. IInv /\ [Next]_vars => IInv'
  BY TypeStep, PhaseStep, ConnStep, SemStep, PlaceStep, DrainStep DEF IInv
<1> QED
  BY InitInv, <1>1, PTL DEF Spec

\* Every variable of the ingest side keeps its type; in particular inputCh never
\* holds more than its capacity, and every slot of connSem is given back once.
THEOREM TypeCorrect == Spec => []TypeOK
<1>1. IInv => TypeOK
  BY DEF IInv
<1> QED
  BY Invariant, <1>1, PTL

\* When Writer.Stop returns, every packet of a receiver that it joins has been
\* refused, shed or handled: none is left in a receiver, in inputCh or in a
\* worker.
THEOREM StopDrains == Spec => []JoinedPacketsHandled
<1>1. IInv => JoinedPacketsHandled
  <2> SUFFICES ASSUME IInv, stopPc = "done", NEW p \in JoinedPackets
               PROVE  fate[p] \notin {"received", "queued", "handling"}
    BY DEF JoinedPacketsHandled
  <2> USE Kinds, KindsOfPackets DEF IInv, PlaceInv
  <2>1. fate[p] # "received"
    <3>1. \A x \in Conns \cup Requests : pkt[x] = None
      BY DEF PhaseInv, ConnInv, StreamsJoined, HttpJoined
    <3> QED
      BY <3>1
  <2>2. PICK w \in Workers : wpc[w] = "exited"
    BY IngestAssumption DEF PhaseInv
  <2>3. fate[p] # "queued"
    BY <2>2 DEF DrainInv
  <2>4. fate[p] # "handling"
    BY DEF PhaseInv
  <2> QED
    BY <2>1, <2>3, <2>4
<1> QED
  BY Invariant, <1>1, PTL

\* The script engine, the remote clients and the storage are open whenever a
\* worker is inside handlePacket.
THEOREM StoreStaysOpen == Spec => []StoreOutlivesWorkers
<1>1. IInv => StoreOutlivesWorkers
  BY DEF IInv, PhaseInv, StoreOutlivesWorkers
<1> QED
  BY Invariant, <1>1, PTL

\* After the Stop of the stream receiver no connection given to a handler is
\* open, however late the acceptor was.
THEOREM ConnsClosed == Spec => []NoConnSurvivesStop
<1>1. IInv => NoConnSurvivesStop
  BY DEF IInv, TypeOK, PhaseInv, ConnInv, NoConnSurvivesStop, StreamsJoined
<1> QED
  BY Invariant, <1>1, PTL
===============================================================================
