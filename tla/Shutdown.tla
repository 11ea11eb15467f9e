------------------------------ MODULE Shutdown ------------------------------
(***************************************************************************)
(* The life of the process around its receivers: the module manager of     *)
(* main.go starts the modules in the order they were registered, waits for *)
(* signals and for an invalidated DuckDB instance, and stops the modules   *)
(* in reverse order under one deadline.  Requests arrive at the OTLP       *)
(* (gRPC, HTTP), line protocol, VQ-RTCPXR and SIPREC receivers all the     *)
(* while; their handlers write to the writer's DuckDB themselves or leave  *)
(* the work to a queue.                                                    *)
(*                                                                         *)
(* External: grpc.GracefulStop waits for its RPCs without a deadline;      *)
(* http.Server.Shutdown waits until its context ends, and Close then cuts  *)
(* the connections while the handlers go on; net/http recovers a handler's *)
(* panic; sipgo runs every handler in a goroutine that nobody joins and    *)
(* that recovers nothing.  The modules node, coordinator and mcp accept no *)
(* rows and are left out.                                                  *)
(***************************************************************************)
EXTENDS Naturals, FiniteSets, Sequences

CONSTANTS
    Requests,
    QueueDepth,     \* otlp async.queue_depth
    VqDepth,        \* vqrtcp async_queue_depth
    VqWorkers       \* writeWorker goroutines: 2, or 4 with a deep queue

ASSUME ShutdownAssumption ==
    /\ IsFiniteSet(Requests)
    /\ {QueueDepth, VqDepth, VqWorkers} \subseteq Nat \ {0}

Kinds == {"grpc", "http", "lp", "vq", "siprec"}
Otlp == {"grpc", "http"}

\* The deadlines, in units of ten seconds, rounded up.
httpGrace == 1
asyncDrainTimeout == 6

\* Mutant: a deadline long enough for the drain's own to pass.
PatientShutdownTimeout == 7
defaultShutdownTimeout == 3

Modules == <<"writer", "otlp", "lp", "vqrtcp", "siprec">>

StopSteps == {"writer", "otlp", "grpcWait", "http", "httpWait", "drain", "drainWait", "lp",
              "lpWait", "vqrtcp", "vqClose", "vqWait", "siprec", "done"}

Waits == {"vqWait", "lpWait", "grpcWait", "httpWait", "drainWait"}

SdPlaces == {"idle", "reading", "pushing", "queued", "writing", "lake", "error",
           "late", "refused", "dropped"}

VARIABLES
    sdProcess,        \* "starting", "running", "reloading", "stopping",
                    \* "exit0", "exit1", "panicked"
    sigCh,          \* the signal in the channel's one place, or "none"
    started,        \* how many modules have started
    step,           \* of the goroutine that stops the modules
    code,           \* the exit code once the modules have stopped
    elapsed,        \* time since Stop began
    since,          \* time since the current wait began
    listening,      \* the kinds of requests that are accepted
    closed,         \* HTTP servers whose connections were cut
    kind, place,    \* of each request
    async,          \* the OTLP receiver has an AsyncQueue
    otlpClosed, vqClosed,   \* the queue's channel is closed
    db,             \* "none", "open", "closed": the writer's DuckDB
    broken          \* ... invalidated by a fatal error

(* Observers. *)
VARIABLES
    acked           \* requests answered with success

mainVars == <<sdProcess, sigCh, started, step, code, elapsed, since>>
requestVars == <<closed, kind, place, async, otlpClosed, vqClosed, acked>>
dbVars == <<db, broken>>
sdVars == <<mainVars, listening, requestVars, dbVars>>

SdTypeOK ==
    /\ sdProcess \in {"starting", "running", "reloading", "stopping", "exit0",
                    "exit1", "panicked"}
    /\ sigCh \in {"none", "HUP", "TERM"}
    /\ started \in 0..Len(Modules)
    /\ step \in StopSteps
    /\ code \in {0, 1}
    /\ elapsed \in 0..defaultShutdownTimeout
    /\ since \in 0..elapsed
    /\ listening \subseteq Kinds
    /\ closed \subseteq {"http", "lp"}
    /\ kind \in [Requests -> Kinds]
    /\ place \in [Requests -> SdPlaces]
    /\ {async, otlpClosed, vqClosed, broken} \subseteq BOOLEAN
    /\ db \in {"none", "open", "closed"}
    /\ acked \subseteq Requests

SdInit ==
    /\ sdProcess = "starting"
    /\ sigCh = "none"
    /\ started = 0
    /\ step = "siprec"
    /\ code = 0
    /\ elapsed = 0
    /\ since = 0
    /\ listening = {}
    /\ closed = {}
    /\ kind \in [Requests -> Kinds]
    /\ place = [r \in Requests |-> "idle"]
    /\ async \in BOOLEAN
    /\ otlpClosed = FALSE
    /\ vqClosed = FALSE
    /\ db = "none"
    /\ broken = FALSE
    /\ acked = {}

Alive == sdProcess \notin {"exit0", "exit1", "panicked"}

-----------------------------------------------------------------------------
(* main: start, signals, reload. *)

StartWriter ==
    /\ db' = "open"
    /\ UNCHANGED <<listening, broken>>

StartOtlp ==
    /\ listening' = listening \cup Otlp
    /\ UNCHANGED <<dbVars>>

StartLp ==
    /\ listening' = listening \cup {"lp"}
    /\ UNCHANGED <<dbVars>>

\* The SIP receivers bind in a goroutine that only logs a failure.
StartSip(k) ==
    /\ \/ listening' = listening \cup {k}
       \/ UNCHANGED listening
    /\ UNCHANGED <<dbVars>>

StartVqrtcp == StartSip("vq")
StartSiprec == StartSip("siprec")

ManagerStart ==
    /\ sdProcess = "starting"
    /\ started < Len(Modules)
    /\ started' = started + 1
    /\ sdProcess' = IF started' = Len(Modules) THEN "running" ELSE "starting"
    /\ CASE Modules[started + 1] = "writer" -> StartWriter
         [] Modules[started + 1] = "otlp" -> StartOtlp
         [] Modules[started + 1] = "lp" -> StartLp
         [] Modules[started + 1] = "vqrtcp" -> StartVqrtcp
         [] Modules[started + 1] = "siprec" -> StartSiprec
    /\ UNCHANGED <<sigCh, step, code, elapsed, since, requestVars>>

\* os.Exit: the modules that have started are not stopped.
ManagerStartFails ==
    /\ sdProcess = "starting"
    /\ started < Len(Modules)
    /\ sdProcess' = "exit1"
    /\ UNCHANGED <<sigCh, started, step, code, elapsed, since, listening,
                   requestVars, dbVars>>

\* signal.Notify drops what finds the channel full; once main stops, nobody
\* receives any more.
Signal(s) ==
    /\ sdProcess \in {"starting", "running", "reloading"}
    /\ sigCh = "none"
    /\ sigCh' = s
    /\ UNCHANGED <<sdProcess, started, step, code, elapsed, since, listening,
                   requestVars, dbVars>>

Reload ==
    /\ \/ /\ sdProcess = "running"
          /\ sigCh = "HUP"
          /\ sigCh' = "none"
          /\ sdProcess' = "reloading"
       \/ /\ sdProcess = "reloading"
          /\ sdProcess' = "running"
          /\ UNCHANGED sigCh
    /\ UNCHANGED <<started, step, code, elapsed, since, listening, requestVars,
                   dbVars>>

-----------------------------------------------------------------------------
(* ModuleManager.Stop: one goroutine stops the modules from the last one   *)
(* registered to the first, and main waits for it or for the deadline.     *)

\* Mutant: the modules stop in the order they were registered.
ModuleAfterRegistered(m) ==
    LET i == CHOOSE j \in 1..Len(Modules) : Modules[j] = m
    IN  IF i = Len(Modules) THEN "done" ELSE Modules[i + 1]
ModuleAfter(m) ==
    LET i == CHOOSE j \in 1..Len(Modules) : Modules[j] = m
    IN  IF i = 1 THEN "done" ELSE Modules[i - 1]

FirstModule == CHOOSE m \in {Modules[i] : i \in 1..Len(Modules)} :
                   \A n \in {Modules[i] : i \in 1..Len(Modules)} : ModuleAfter(n) # m

BeginStop ==
    /\ sdProcess = "running"
    /\ \/ /\ sigCh = "TERM"
          /\ sigCh' = "none"
          /\ code' = 0
       \/ /\ broken
          /\ code' = 1
          /\ UNCHANGED sigCh
    /\ sdProcess' = "stopping"
    /\ step' = FirstModule
    /\ UNCHANGED <<started, elapsed, since, listening, requestVars, dbVars>>

\* The waits are what takes time.
Tick ==
    /\ sdProcess = "stopping"
    /\ step \in Waits
    /\ elapsed < defaultShutdownTimeout
    /\ elapsed' = elapsed + 1
    /\ since' = since + 1
    /\ UNCHANGED <<sdProcess, sigCh, started, step, code, listening, requestVars,
                   dbVars>>

ExitStopped ==
    /\ sdProcess = "stopping"
    /\ step = "done"
    /\ sdProcess' = IF code = 0 THEN "exit0" ELSE "exit1"
    /\ UNCHANGED <<sigCh, started, step, code, elapsed, since, listening,
                   requestVars, dbVars>>

\* Mutant: main waits for the modules whatever it takes.
ExitTimeoutNever == FALSE /\ UNCHANGED sdVars
ExitTimeout ==
    /\ sdProcess = "stopping"
    /\ elapsed = defaultShutdownTimeout
    /\ sdProcess' = "exit1"
    /\ UNCHANGED <<sigCh, started, step, code, elapsed, since, listening,
                   requestVars, dbVars>>

Step(from, to) ==
    /\ sdProcess = "stopping"
    /\ step = from
    /\ step' = to
    /\ since' = 0
    /\ UNCHANGED <<sdProcess, sigCh, started, code, elapsed>>

\* Requests of these kinds that a handler or a worker has in hand.
At(kinds, places) == {r \in Requests : kind[r] \in kinds /\ place[r] \in places}
Handled(kinds) == At(kinds, {"reading", "pushing"})

StopSiprec ==
    /\ Step("siprec", ModuleAfter("siprec"))
    /\ listening' = listening \ {"siprec"}
    /\ UNCHANGED <<requestVars, dbVars>>

\* The queue is closed while handlers may still be about to use it.
StopVqrtcp ==
    \/ /\ Step("vqrtcp", "vqClose")
       /\ listening' = listening \ {"vq"}
       /\ UNCHANGED <<requestVars, dbVars>>
    \/ /\ Step("vqClose", "vqWait")
       /\ vqClosed' = TRUE
       /\ UNCHANGED <<listening, closed, kind, place, async, otlpClosed, acked,
                      dbVars>>
    \/ /\ Step("vqWait", ModuleAfter("vqrtcp"))
       /\ At({"vq"}, {"queued", "writing"}) = {}
       /\ UNCHANGED <<listening, requestVars, dbVars>>

\* http.Server.Shutdown, and Close when the grace period has passed.
HttpShutdown(k, wait, to) ==
    /\ Step(wait, to)
    /\ \/ Handled({k}) = {} /\ UNCHANGED closed
       \/ since >= httpGrace /\ closed' = closed \cup {k}
    /\ UNCHANGED <<listening, kind, place, async, otlpClosed, vqClosed, acked,
                   dbVars>>

StopLp ==
    \/ /\ Step("lp", "lpWait")
       /\ listening' = listening \ {"lp"}
       /\ UNCHANGED <<requestVars, dbVars>>
    \/ HttpShutdown("lp", "lpWait", ModuleAfter("lp"))

StopGrpc ==
    \/ /\ Step("otlp", "grpcWait")
       /\ listening' = listening \ {"grpc"}
       /\ UNCHANGED <<requestVars, dbVars>>
    \/ /\ Step("grpcWait", "http")
       /\ Handled({"grpc"}) = {}
       /\ UNCHANGED <<listening, requestVars, dbVars>>

StopHttp ==
    \/ /\ Step("http", "httpWait")
       /\ listening' = listening \ {"http"}
       /\ UNCHANGED <<requestVars, dbVars>>
    \/ HttpShutdown("http", "httpWait", IF async THEN "drain" ELSE ModuleAfter("otlp"))

Drain ==
    \/ /\ Step("drain", "drainWait")
       /\ otlpClosed' = TRUE
       /\ UNCHANGED <<listening, closed, kind, place, async, vqClosed, acked,
                      dbVars>>
    \/ /\ Step("drainWait", ModuleAfter("otlp"))
       /\ \/ At(Otlp, {"queued", "writing"}) = {}
          \/ since >= asyncDrainTimeout
       /\ UNCHANGED <<listening, requestVars, dbVars>>

\* Writer.Stop ends with the storage manager, which closes DuckDB.
StopWriter ==
    /\ Step("writer", ModuleAfter("writer"))
    /\ db' = "closed"
    /\ UNCHANGED <<listening, requestVars, broken>>

-----------------------------------------------------------------------------
(* Handlers. *)

Move(r, to) == place' = [place EXCEPT ![r] = to]
Ack(r) == acked' = IF kind[r] \in closed THEN acked ELSE acked \cup {r}

Arrive(r) ==
    /\ Alive
    /\ place[r] = "idle"
    /\ kind[r] \in listening
    /\ Move(r, "reading")
    /\ UNCHANGED <<mainVars, listening, closed, kind, async, otlpClosed, vqClosed,
                   acked, dbVars>>

\* A body that is too large, does not unpack or does not decode is refused; so
\* is one whose connection was cut.
ReadBody(r) ==
    /\ Alive
    /\ place[r] = "reading"
    /\ \/ kind[r] \notin closed /\ Move(r, "pushing")
       \/ Move(r, "refused")
    /\ UNCHANGED <<mainVars, listening, closed, kind, async, otlpClosed, vqClosed,
                   acked, dbVars>>

\* A send on the closed channel panics; net/http recovers, the client gets no
\* answer.
PushAsync(r) ==
    /\ Alive
    /\ place[r] = "pushing"
    /\ kind[r] \in Otlp
    /\ async
    /\ IF ~otlpClosed /\ Cardinality(At(Otlp, {"queued"})) < QueueDepth
       THEN Move(r, "queued") /\ Ack(r)
       ELSE Move(r, "refused") /\ UNCHANGED acked
    /\ UNCHANGED <<mainVars, listening, closed, kind, async, otlpClosed, vqClosed,
                   dbVars>>

\* What a statement on the writer's DuckDB comes to.
Written(r, failed) ==
    \/ /\ db = "open"
       /\ ~broken
       /\ Move(r, "lake")
    \/ /\ db = "open"
       /\ Move(r, failed)
    \/ /\ db = "closed"
       /\ Move(r, "late")

\* The sink or Ingest in the handler itself, under the request's context.
PushSync(r) ==
    /\ Alive
    /\ place[r] = "pushing"
    /\ kind[r] = "lp" \/ (kind[r] \in Otlp /\ ~async)
    /\ Written(r, "refused")
    /\ IF place'[r] = "lake" THEN Ack(r) ELSE UNCHANGED acked
    /\ UNCHANGED <<mainVars, listening, closed, kind, async, otlpClosed, vqClosed,
                   dbVars>>

\* onRequest answers 200 also when it drops the report.
PushVq(r) ==
    /\ Alive
    /\ place[r] = "pushing"
    /\ kind[r] = "vq"
    /\ IF vqClosed
       THEN sdProcess' = "panicked" /\ UNCHANGED <<place, acked>>
       ELSE /\ Move(r, IF Cardinality(At({"vq"}, {"queued"})) < VqDepth
                       THEN "queued" ELSE "dropped")
            /\ Ack(r)
            /\ UNCHANGED sdProcess
    /\ UNCHANGED <<sigCh, started, step, code, elapsed, since, listening, closed,
                   kind, async, otlpClosed, vqClosed, dbVars>>

\* The SIPREC handler answers first and stores afterwards.
AnswerSiprec(r) ==
    /\ Alive
    /\ place[r] = "pushing"
    /\ kind[r] = "siprec"
    /\ Move(r, "writing")
    /\ Ack(r)
    /\ UNCHANGED <<mainVars, listening, closed, kind, async, otlpClosed, vqClosed,
                   dbVars>>

-----------------------------------------------------------------------------
(* Queue workers, and the SIPREC handler's own write. *)

WorkersOf(k) == IF k = "vq" THEN VqWorkers ELSE 1
QueueOf(k) == IF k = "vq" THEN {"vq"} ELSE Otlp

Take(r) ==
    /\ Alive
    /\ place[r] = "queued"
    /\ Cardinality(At(QueueOf(kind[r]), {"writing"})) < WorkersOf(kind[r])
    /\ Move(r, "writing")
    /\ UNCHANGED <<mainVars, listening, closed, kind, async, otlpClosed, vqClosed,
                   acked, dbVars>>

\* A failed write is logged; nobody tries it again.
Write(r) ==
    /\ Alive
    /\ place[r] = "writing"
    /\ Written(r, "error")
    /\ UNCHANGED <<mainVars, listening, closed, kind, async, otlpClosed, vqClosed,
                   acked, dbVars>>

Invalidate ==
    /\ Alive
    /\ db = "open"
    /\ ~broken
    /\ broken' = TRUE
    /\ UNCHANGED <<mainVars, listening, requestVars, db>>

-----------------------------------------------------------------------------
Exited == ~Alive /\ UNCHANGED sdVars

SdStop == StopSiprec \/ StopVqrtcp \/ StopLp \/ StopGrpc \/ StopHttp \/ Drain \/ StopWriter

SdNext ==
    \/ ManagerStart \/ ManagerStartFails \/ Reload \/ BeginStop \/ Tick
    \/ ExitStopped \/ ExitTimeout \/ SdStop \/ Invalidate
    \/ \E s \in {"HUP", "TERM"} : Signal(s)
    \/ \E r \in Requests :
          \/ Arrive(r) \/ ReadBody(r) \/ PushAsync(r) \/ PushSync(r) \/ PushVq(r)
          \/ AnswerSiprec(r) \/ Take(r) \/ Write(r)
    \/ Exited

\* What main does, it does in the end: starting a module, reloading, taking a
\* signal, stopping a module; time passes.  Handlers may wait for their clients for ever.
SdFairness ==
    /\ WF_sdVars(ManagerStart)
    /\ WF_sdVars(Reload)
    /\ WF_sdVars(BeginStop)
    /\ WF_sdVars(SdStop)
    /\ WF_sdVars(Tick)
    /\ WF_sdVars(ExitTimeout)
    /\ WF_sdVars(ExitStopped)

SdSpec == SdInit /\ [][SdNext]_sdVars

SdFairSpec == SdSpec /\ SdFairness

-----------------------------------------------------------------------------
(* Properties. *)

\* A process that exits with code 0 has written out what its receivers took on:
\* no export or report is still in a queue or with a worker, and what an OTLP
\* or line protocol client was told is stored is in the lake, or its write
\* failed while the database was open.  It rests on the order of Stop and on
\* main's deadline being shorter than the drain's.
CleanExitStored ==
    sdProcess = "exit0" =>
        \A r \in Requests :
            /\ kind[r] # "siprec" => place[r] \notin {"queued", "writing"}
            /\ r \in acked /\ kind[r] \in Otlp \cup {"lp"} =>
                 place[r] = "lake" \/ (async /\ place[r] = "error")

\* Only goroutines that nobody joins meet a closed database: HTTP handlers
\* whose Shutdown ran out of time, and SIPREC handlers.  RPCs and the workers
\* of the queues never do.
LateUseIsUnjoined ==
    \A r \in Requests : place[r] = "late" => kind[r] = "siprec" \/ kind[r] \in closed

\* A SIGTERM that is in the channel ends the process, whatever its modules and
\* their clients do: a gRPC export that never ends holds GracefulStop, not main.
StopEnds == (sigCh = "TERM" /\ Alive) ~> ~Alive
=============================================================================
