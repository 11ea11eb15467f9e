-------------------------- MODULE TableWriterProofs --------------------------
(***************************************************************************)
(* Proofs about TableWriter, for every set of rows and workers and every   *)
(* value of the bounds.  The inductive invariant has five parts:           *)
(*                                                                         *)
(*   TypeOK     every variable has its type;                               *)
(*   PhaseInv   which goroutine can be where once Stop was called, and     *)
(*              that a goroutine outside flushBatch holds no rows;         *)
(*   LockInv    no append runs on a slot whose write lock a flush holds;   *)
(*   PlaceInv   an accepted row is in one place at a time, and the lake    *)
(*              has a copy of it exactly when a flush made one;            *)
(*   ComingInv  while nothing has failed, rows outside the active slot     *)
(*              have a flush to come, and after the last swap all have.    *)
(***************************************************************************)
EXTENDS TableWriter, TLAPS

\* The places inside flushBatch at which a goroutine holds the rows it took.
InBatch == {"load", "rlock", "check", "conn", "append"}

PhaseInv ==
    /\ \A w \in Writers : pc[w] \in {"idle", "take"} \cup InBatch
    /\ pc["stop"] \in {"idle", "wait", "take", "join", "stopped"}
    /\ pc["loop"] \in {"idle", "secret", "take", "swap", "send", "exited"} \cup InBatch
    /\ \A p \in Procs : pc[p] \notin InBatch => rows[p] = {}
    /\ StopCalled => \A w \in Writers : pc[w] = "idle"
    /\ final => StopCalled
    /\ final => pc["loop"] \notin {"idle", "secret"}
    /\ final /\ pc["loop"] # "take" => batch = {}
    /\ pc["loop"] = "exited" => final
    /\ pc["stop"] \notin {"idle", "wait"} => pc["loop"] = "exited"
    /\ Closed => JobsDone

LockInv == \A p \in Procs : RHeld(p, fslot) => fpc \notin {"insert", "truncate"}

Copied(s) == fslot = s /\ fpc = "truncate"

PlaceInv ==
    /\ batch \cup dropped \cup lost \cup mem[0] \cup mem[1] \subseteq accepted
    /\ \A p \in Procs : rows[p] \subseteq accepted
    /\ \A r \in Rows \ accepted : lake[r] = 0
    /\ \A p \in Procs : /\ rows[p] \cap batch = {}
                        /\ \A q \in Procs \ {p} : rows[p] \cap rows[q] = {}
                        /\ \A s \in Slots : rows[p] \cap mem[s] = {}
                        /\ \A r \in rows[p] : lake[r] = 0
    /\ \A s \in Slots : batch \cap mem[s] = {}
    /\ mem[0] \cap mem[1] = {}
    /\ \A r \in batch : lake[r] = 0
    /\ \A s \in Slots : ~Copied(s) => \A r \in mem[s] \ stale : lake[r] = 0
    /\ fpc = "truncate" => \A r \in mem[fslot] : lake[r] > 0
    /\ AtMostOnce

ComingInv ==
    faults = 0 =>
        /\ RowsAwaitFlush
        /\ final /\ pc["loop"] \in {"send", "exited"} =>
              \A s \in Slots : mem[s] # {} => JobComing(s) \/ Copied(s)
        /\ lost = {}

IInv == TypeOK /\ PhaseInv /\ LockInv /\ PlaceInv /\ ComingInv
-------------------------------------------------------------------------------
(* Facts used by several proofs. *)

LEMMA ProcFacts ==
    /\ "loop" \in Procs /\ "stop" \in Procs
    /\ \A w \in Writers : w \in Procs /\ w # "loop" /\ w # "stop"
    /\ \A p \in Procs : p \in Writers \/ p = "loop" \/ p = "stop"
BY TableWriterAssumption DEF Procs

\* Where flushBatch returns to.
LEMMA AfterFacts ==
    /\ AfterFlushBatch("loop") = "swap"
    /\ AfterFlushBatch("stop") = "join"
    /\ \A w \in Writers : AfterFlushBatch(w) = "idle"
BY ProcFacts DEF AfterFlushBatch

LEMMA AfterType == \A p \in Procs : AfterFlushBatch(p) \in {"swap", "join", "idle"}
BY ProcFacts, AfterFacts

\* What sending a job and receiving the first one do to the queued slots.
LEMMA SendElems ==
    ASSUME NEW q \in Seq(Slots), NEW e \in Slots
    PROVE  /\ Append(q, e) \in Seq(Slots)
           /\ \E i \in 1..Len(Append(q, e)) : Append(q, e)[i] = e
           /\ \A s : (\E i \in 1..Len(q) : q[i] = s)
                        => \E i \in 1..Len(Append(q, e)) : Append(q, e)[i] = s
<1>1. /\ Append(q, e) \in Seq(Slots) /\ Len(Append(q, e)) = Len(q) + 1
      /\ Len(q) \in Nat
      /\ \A i \in 1..Len(q) : Append(q, e)[i] = q[i]
      /\ Append(q, e)[Len(q) + 1] = e
  OBVIOUS
<1>2. Len(q) + 1 \in 1..Len(Append(q, e)) /\ 1..Len(q) \subseteq 1..Len(Append(q, e))
  BY <1>1
<1> QED
  BY <1>1, <1>2

LEMMA RecvElems ==
    ASSUME NEW q \in Seq(Slots), q # <<>>
    PROVE  \A s : (\E i \in 1..Len(q) : q[i] = s)
                     => Head(q) = s \/ \E i \in 1..Len(Tail(q)) : Tail(q)[i] = s
<1> SUFFICES ASSUME NEW s, NEW i \in 1..Len(q), q[i] = s
             PROVE  Head(q) = s \/ \E k \in 1..Len(Tail(q)) : Tail(q)[k] = s
  OBVIOUS
<1>1. /\ Head(q) = q[1]
      /\ Len(Tail(q)) = Len(q) - 1 /\ Len(q) \in Nat
      /\ \A k \in 1..Len(Tail(q)) : Tail(q)[k] = q[k + 1]
  OBVIOUS
<1>2. CASE i = 1
  BY <1>1, <1>2
<1>3. CASE i # 1
  <2>1. i - 1 \in 1..Len(Tail(q)) /\ Tail(q)[i - 1] = q[i]
    BY <1>1, <1>3
  <2> QED
    BY <2>1
<1> QED
  BY <1>2, <1>3
-------------------------------------------------------------------------------
(* Type correctness. *)

\* The type invariant holds in every reachable state of the table writer.
THEOREM TypeCorrect == Spec => []TypeOK
<1> USE DEF TypeOK, Slots
<1>1. Init => TypeOK
  <2> SUFFICES ASSUME Init PROVE TypeOK
    OBVIOUS
  <2>1. MaxRetries \in Nat /\ MaxFaults \in Nat
    BY TableWriterAssumption
  <2>2. attempt \in 0..MaxRetries /\ faults \in 0..MaxFaults
    BY <2>1 DEF Init
  <2>3. jobs \in Seq(Slots)
    BY DEF Init
  <2> QED
    BY <2>2, <2>3 DEF Init
<1>2. TypeOK /\ [Next]_vars => TypeOK'
  <2> SUFFICES ASSUME TypeOK, [Next]_vars PROVE TypeOK'
    OBVIOUS
  <2> USE DEF Goto, bufVars, procVars, flushVars, obsVars
  <2>1. ASSUME NEW w \in Writers, NEW r \in Rows, Write(w, r) PROVE TypeOK'
    <3>1. (IF Cardinality(batch') >= BatchSize THEN "take" ELSE "idle") \in {"take", "idle"}
      OBVIOUS
    <3> QED
      BY <2>1, <3>1, ProcFacts DEF Write
  <2>2. ASSUME NEW p \in Procs, FlushBatch(p) PROVE TypeOK'
    <3>1. CASE TakeBatch(p)
      BY <3>1, AfterType DEF TakeBatch
    <3>2. CASE LoadSlot(p)
      BY <3>2 DEF LoadSlot
    <3>3. CASE RLock(p) \/ Recheck(p) \/ GetConn(p)
      BY <3>3 DEF RLock, Recheck, GetConn
    <3>4. ASSUME NEW S \in SUBSET rows[p], Appended(p, S),
                 faults' = faults \/ (faults < MaxFaults /\ faults' = faults + 1)
          PROVE  TypeOK'
      BY <3>4, AfterType, TableWriterAssumption DEF Appended
    <3>5. CASE AppendOK(p)
      BY <3>4, <3>5 DEF AppendOK
    <3>6. CASE AppendErr(p)
      BY <3>4, <3>6 DEF AppendErr, Fault
    <3> QED
      BY <2>2, <3>1, <3>2, <3>3, <3>5, <3>6 DEF FlushBatch
  <2>3. CASE Loop
    <3>1. CASE Tick \/ RefreshSecret \/ LastTick
      BY ZenonT(60), <3>1, ProcFacts DEF Tick, RefreshSecret, LastTick
    <3>2. CASE Swap
      BY <3>2, ProcFacts DEF Swap
    <3>3. CASE SendJob
      <4>1. slot["loop"] \in Slots
        BY ProcFacts
      <4>2. jobs' \in Seq(Slots)
        BY <3>3, <4>1, SendElems DEF SendJob
      <4> QED
        BY <3>3, <4>2, ProcFacts DEF SendJob
    <3> QED
      BY <2>3, <3>1, <3>2, <3>3 DEF Loop
  <2>4. CASE FlushWorker
    <3>1. CASE RecvJob
      BY <3>1, TableWriterAssumption DEF RecvJob
    <3>2. CASE LockCatalog \/ LockSlot
      BY <3>2 DEF LockCatalog, LockSlot
    <3>3. CASE InsertOK
      BY <3>3 DEF InsertOK
    <3>4. CASE InsertErr
      BY <3>4, TableWriterAssumption DEF InsertErr, Fault
    <3>5. CASE TruncateOK
      BY <3>5 DEF TruncateOK
    <3>6. CASE TruncateErr
      BY <3>6, TableWriterAssumption DEF TruncateErr, Fault
    <3> QED
      BY <2>4, <3>1, <3>2, <3>3, <3>4, <3>5, <3>6 DEF FlushWorker
  <2>5. CASE Maintenance
    BY <2>5 DEF Maintenance, MaintLock, MaintStmt, MaintUnlock
  <2>6. CASE Stop
    BY <2>6, ProcFacts DEF Stop, StopCall, StopJoinLoop, CloseDB
  <2>7. CASE UNCHANGED vars
    BY <2>7 DEF vars
  <2> QED
    BY <2>1, <2>2, <2>3, <2>4, <2>5, <2>6, <2>7 DEF Next, Done
<1> QED
  BY <1>1, <1>2, PTL DEF Spec
-------------------------------------------------------------------------------
(* Phases and locks. *)

LEMMA PhaseStep == TypeOK /\ PhaseInv /\ [Next]_vars => PhaseInv'
<1> SUFFICES ASSUME TypeOK, PhaseInv, [Next]_vars PROVE PhaseInv'
  OBVIOUS
<1> USE ProcFacts, AfterFacts
    DEF TypeOK, PhaseInv, InBatch, Goto, StopCalled, Closed, JobsDone,
        bufVars, procVars, flushVars, obsVars
<1>1. ASSUME NEW w \in Writers, NEW r \in Rows, Write(w, r) PROVE PhaseInv'
  <2>1. \E l \in {"take", "idle"} : pc' = [pc EXCEPT ![w] = l]
    BY <1>1 DEF Write
  <2>2. ~final
    BY <1>1 DEF Write
  <2> QED
    BY <1>1, <2>1, <2>2 DEF Write
<1>2. ASSUME NEW p \in Procs, FlushBatch(p) PROVE PhaseInv'
  <2>1. CASE TakeBatch(p)
    <3>1. CASE p = "loop"
      BY <2>1, <3>1 DEF TakeBatch
    <3>2. CASE p = "stop"
      BY <2>1, <3>2 DEF TakeBatch
    <3>3. CASE p \in Writers
      BY <2>1, <3>3 DEF TakeBatch
    <3> QED
      BY <3>1, <3>2, <3>3
  <2>2. CASE LoadSlot(p) \/ RLock(p) \/ Recheck(p) \/ GetConn(p)
    <3>1. PICK l \in InBatch : pc' = [pc EXCEPT ![p] = l]
      BY <2>2 DEF LoadSlot, RLock, Recheck, GetConn
    <3>2. pc[p] \in InBatch /\ UNCHANGED <<batch, jobs, fpc, rows, final>>
      BY <2>2 DEF LoadSlot, RLock, Recheck, GetConn
    <3> QED
      BY <3>1, <3>2
  <2>3. ASSUME NEW S, Appended(p, S), pc[p] \in InBatch PROVE PhaseInv'
    <3>1. CASE p = "loop"
      BY <2>3, <3>1 DEF Appended
    <3>2. CASE p \in Writers
      BY <2>3, <3>2 DEF Appended
    <3> QED
      BY <2>3, <3>1, <3>2
  <2>4. CASE AppendOK(p) \/ AppendErr(p)
    BY <2>3, <2>4 DEF AppendOK, AppendErr
  <2> QED
    BY <1>2, <2>1, <2>2, <2>4 DEF FlushBatch
<1>3. CASE Loop
  <2>1. CASE Tick \/ RefreshSecret
    <3>1. PICK l \in {"secret", "take"} : pc' = [pc EXCEPT !["loop"] = l]
      BY <2>1 DEF Tick, RefreshSecret
    <3>2. /\ pc["loop"] \in {"idle", "secret"} /\ ~final
          /\ UNCHANGED <<batch, jobs, fpc, rows, final>>
      BY <2>1 DEF Tick, RefreshSecret
    <3> QED
      BY <3>1, <3>2
  <2>2. CASE LastTick
    BY <2>2 DEF LastTick
  <2>3. CASE Swap
    BY <2>3 DEF Swap
  <2>4. CASE SendJob
    BY <2>4 DEF SendJob
  <2> QED
    BY <1>3, <2>1, <2>2, <2>3, <2>4 DEF Loop
<1>4. CASE FlushWorker
  BY <1>4 DEF FlushWorker, RecvJob, LockCatalog, LockSlot, InsertOK, InsertErr,
              TruncateOK, TruncateErr
<1>5. CASE Maintenance
  BY <1>5 DEF Maintenance, MaintLock, MaintStmt, MaintUnlock
<1>6. CASE Stop
  <2>1. CASE StopCall
    BY <2>1 DEF StopCall
  <2>2. CASE StopJoinLoop
    BY <2>2 DEF StopJoinLoop
  <2>3. CASE CloseDB
    BY <2>3 DEF CloseDB
  <2> QED
    BY <1>6, <2>1, <2>2, <2>3 DEF Stop
<1>7. CASE UNCHANGED vars
  BY <1>7 DEF vars
<1> QED
  BY <1>1, <1>2, <1>3, <1>4, <1>5, <1>6, <1>7 DEF Next, Done

LEMMA LockStep == TypeOK /\ PhaseInv /\ LockInv /\ [Next]_vars => LockInv'
<1> SUFFICES ASSUME TypeOK, PhaseInv, LockInv, [Next]_vars PROVE LockInv'
  OBVIOUS
<1> USE ProcFacts, AfterType
    DEF TypeOK, LockInv, RHeld, Goto, bufVars, procVars, flushVars, obsVars
<1>1. ASSUME NEW w \in Writers, NEW r \in Rows, Write(w, r) PROVE LockInv'
  <2>1. \E l \in {"take", "idle"} : pc' = [pc EXCEPT ![w] = l]
    BY <1>1 DEF Write
  <2> QED
    BY <1>1, <2>1 DEF Write
<1>2. ASSUME NEW p \in Procs, FlushBatch(p) PROVE LockInv'
  <2>1. CASE TakeBatch(p)
    BY <2>1 DEF TakeBatch
  <2>2. CASE LoadSlot(p)
    BY <2>2 DEF LoadSlot
  <2>3. CASE RLock(p)
    BY <2>3 DEF RLock, SlotFree, WHeld
  <2>4. CASE Recheck(p) \/ GetConn(p)
    BY <2>4 DEF Recheck, GetConn
  <2>5. CASE AppendOK(p) \/ AppendErr(p)
    BY <2>5 DEF AppendOK, AppendErr, Appended
  <2> QED
    BY <1>2, <2>1, <2>2, <2>3, <2>4, <2>5 DEF FlushBatch
<1>3. CASE Loop
  BY <1>3 DEF Loop, Tick, RefreshSecret, LastTick, Swap, SendJob
<1>4. CASE FlushWorker
  BY <1>4 DEF FlushWorker, RecvJob, LockCatalog, LockSlot, InsertOK, InsertErr,
              TruncateOK, TruncateErr
<1>5. CASE Maintenance
  BY <1>5 DEF Maintenance, MaintLock, MaintStmt, MaintUnlock
<1>6. CASE Stop
  BY <1>6 DEF Stop, StopCall, StopJoinLoop, CloseDB
<1>7. CASE UNCHANGED vars
  BY <1>7 DEF vars
<1> QED
  BY <1>1, <1>2, <1>3, <1>4, <1>5, <1>6, <1>7 DEF Next, Done
-------------------------------------------------------------------------------
(* Where a row is. *)

LEMMA PlaceStep == TypeOK /\ PhaseInv /\ LockInv /\ PlaceInv /\ [Next]_vars => PlaceInv'
<1> SUFFICES ASSUME TypeOK, PhaseInv, LockInv, PlaceInv, [Next]_vars PROVE PlaceInv'
  OBVIOUS
<1> USE ProcFacts
    DEF TypeOK, PlaceInv, AtMostOnce, Copied, Slots,
        bufVars, procVars, flushVars, obsVars
<1>1. ASSUME NEW w \in Writers, NEW r \in Rows, Write(w, r) PROVE PlaceInv'
  BY <1>1 DEF Write
<1>2. ASSUME NEW p \in Procs, FlushBatch(p) PROVE PlaceInv'
  <2>1. CASE TakeBatch(p)
    <3>1. rows[p] = {}
      BY <2>1 DEF TakeBatch, PhaseInv, InBatch
    <3> QED
      BY <2>1, <3>1 DEF TakeBatch
  <2>2. CASE LoadSlot(p) \/ RLock(p) \/ Recheck(p) \/ GetConn(p)
    BY <2>2 DEF LoadSlot, RLock, Recheck, GetConn
  <2>3. ASSUME NEW S \in SUBSET rows[p], Appended(p, S), pc[p] \in {"conn", "append"}
        PROVE  PlaceInv'
    <3>1. slot[p] \in Slots /\ ~(fslot = slot[p] /\ fpc = "truncate")
      BY <2>3 DEF LockInv, RHeld
    <3>2. UNCHANGED <<batch, lake, accepted, stale, lost, fpc, fslot>>
      BY <2>3 DEF Appended
    <3>3. /\ mem' = [mem EXCEPT ![slot[p]] = mem[slot[p]] \cup S]
          /\ rows' = [rows EXCEPT ![p] = {}]
          /\ dropped' = dropped \cup (rows[p] \ S)
      BY <2>3 DEF Appended
    <3>4. \A s \in Slots : mem'[s] = IF s = slot[p] THEN mem[s] \cup S ELSE mem[s]
      BY <3>1, <3>3
    <3>5. \A q \in Procs : rows'[q] \subseteq rows[q] /\ (q = p => rows'[q] = {})
      BY <3>3
    <3>6. dropped' \subseteq accepted
      BY <3>3
    <3> QED
      BY <3>1, <3>2, <3>4, <3>5, <3>6
  <2>4. CASE AppendOK(p) \/ AppendErr(p)
    BY <2>3, <2>4 DEF AppendOK, AppendErr
  <2> QED
    BY <1>2, <2>1, <2>2, <2>4 DEF FlushBatch
<1>3. CASE Loop
  BY <1>3 DEF Loop, Tick, RefreshSecret, LastTick, Swap, SendJob
<1>4. CASE FlushWorker
  <2>1. CASE RecvJob \/ LockCatalog \/ LockSlot \/ InsertErr
    BY <2>1 DEF RecvJob, LockCatalog, LockSlot, InsertErr
  <2>2. CASE InsertOK
    BY <2>2 DEF InsertOK
  <2>3. CASE TruncateOK
    BY <2>3 DEF TruncateOK
  <2>4. CASE TruncateErr
    BY <2>4 DEF TruncateErr
  <2> QED
    BY <1>4, <2>1, <2>2, <2>3, <2>4 DEF FlushWorker
<1>5. CASE Maintenance
  BY <1>5 DEF Maintenance, MaintLock, MaintStmt, MaintUnlock
<1>6. CASE Stop
  BY <1>6 DEF Stop, StopCall, StopJoinLoop, CloseDB
<1>7. CASE UNCHANGED vars
  BY <1>7 DEF vars
<1> QED
  BY <1>1, <1>2, <1>3, <1>4, <1>5, <1>6, <1>7 DEF Next, Done
-------------------------------------------------------------------------------
(* Every row has a flush to come. *)

LEMMA ComingStep ==
    TypeOK /\ PhaseInv /\ LockInv /\ ComingInv /\ [Next]_vars => ComingInv'
<1> SUFFICES ASSUME TypeOK, PhaseInv, LockInv, ComingInv, [Next]_vars, faults' = 0
             PROVE  ComingInv'
  BY DEF ComingInv
<1>0. faults = 0
  BY DEF TypeOK, vars, bufVars, procVars, flushVars, obsVars, Next, Done, Write, FlushBatch,
         TakeBatch, LoadSlot, RLock, Recheck, GetConn, AppendOK, AppendErr, Fault, Loop,
         Tick, RefreshSecret, LastTick, Swap, SendJob, FlushWorker, RecvJob, LockCatalog,
         LockSlot, InsertOK, InsertErr, TruncateOK, TruncateErr, Maintenance, MaintLock,
         MaintStmt, MaintUnlock, Stop, StopCall, StopJoinLoop, CloseDB
<1>a. ASSUME jobs' = jobs PROVE \A s : JobQueued(s)' <=> JobQueued(s)
  BY <1>a DEF JobQueued
<1> USE <1>0, ProcFacts
    DEF TypeOK, ComingInv, RowsAwaitFlush, JobComing, Copied, Slots, Goto,
        bufVars, procVars, flushVars, obsVars
<1>1. ASSUME NEW w \in Writers, NEW r \in Rows, Write(w, r) PROVE ComingInv'
  <2>1. \E l \in {"take", "idle"} : pc' = [pc EXCEPT ![w] = l]
    BY <1>1 DEF Write
  <2> QED
    BY <1>1, <1>a, <2>1 DEF Write
<1>2. ASSUME NEW p \in Procs, FlushBatch(p) PROVE ComingInv'
  <2>1. CASE TakeBatch(p)
    BY <1>a, <2>1, AfterFacts DEF TakeBatch
  <2>2. CASE LoadSlot(p)
    BY <1>a, <2>2 DEF LoadSlot
  <2>3. CASE RLock(p) \/ Recheck(p) \/ GetConn(p)
    BY <1>a, <2>3 DEF RLock, Recheck, GetConn
  <2>4. CASE AppendOK(p)
    <3>1. /\ pc[p] = "append" /\ p # "stop"
          /\ ~(final /\ pc["loop"] \in {"send", "exited"})
      BY <2>4 DEF AppendOK, PhaseInv, InBatch, StopCalled
    <3>2. /\ UNCHANGED <<activeIdx, jobs, slot, final, fpc, fslot, lost>>
          /\ mem' = [mem EXCEPT ![slot[p]] = mem[slot[p]] \cup rows[p]]
          /\ pc' = [pc EXCEPT ![p] = AfterFlushBatch(p)]
      BY <2>4 DEF AppendOK, Appended
    <3>3. \A s \in Slots : JobComing(s) => JobComing(s)'
      BY <1>a, <3>1, <3>2
    <3>4. slot[p] # activeIdx => JobComing(slot[p])
      BY <3>1
    <3>5. \A q \in Procs : pc'[q] \in {"conn", "append"} => pc[q] \in {"conn", "append"}
      BY <3>2, AfterType
    <3>6. pc'["loop"] \notin {"send", "exited"} \/ ~final
      BY <3>1, <3>2, AfterFacts
    <3> QED
      BY <3>2, <3>3, <3>4, <3>5, <3>6
  <2>5. CASE AppendErr(p)
    BY <2>5 DEF AppendErr, Fault
  <2> QED
    BY <1>2, <2>1, <2>2, <2>3, <2>4, <2>5 DEF FlushBatch
<1>3. CASE Loop
  <2>1. CASE Tick \/ RefreshSecret \/ LastTick
    BY <1>a, <2>1 DEF Tick, RefreshSecret, LastTick
  <2>2. CASE Swap
    BY <1>a, <2>2 DEF Swap
  <2>3. CASE SendJob
    <3>1. slot["loop"] \in Slots /\ jobs \in Seq(Slots)
      OBVIOUS
    <3>2. jobs' = Append(jobs, slot["loop"])
      BY <2>3 DEF SendJob
    <3>3. /\ \E i \in 1..Len(jobs') : jobs'[i] = slot["loop"]
          /\ \A s : (\E i \in 1..Len(jobs) : jobs[i] = s)
                        => \E i \in 1..Len(jobs') : jobs'[i] = s
      <4> HIDE DEF Slots
      <4> QED BY <3>1, <3>2, SendElems
    <3>4. /\ \A s : JobQueued(s) => JobQueued(s)'
          /\ \A s : s = slot["loop"] => JobQueued(s)'
      BY <3>3, Zenon DEF JobQueued
    <3> QED
      BY <2>3, <3>4 DEF SendJob
  <2> QED
    BY <1>3, <2>1, <2>2, <2>3 DEF Loop
<1>4. CASE FlushWorker
  <2>1. CASE RecvJob
    <3>1. jobs \in Seq(Slots) /\ jobs # <<>> /\ fslot' = Head(jobs) /\ jobs' = Tail(jobs)
      BY <2>1 DEF RecvJob
    <3>2. \A s : (\E i \in 1..Len(jobs) : jobs[i] = s)
                    => fslot' = s \/ \E i \in 1..Len(jobs') : jobs'[i] = s
      <4> HIDE DEF Slots
      <4>1. \A s : (\E i \in 1..Len(jobs) : jobs[i] = s)
                      => Head(jobs) = s \/ \E i \in 1..Len(Tail(jobs)) : Tail(jobs)[i] = s
        BY <3>1, RecvElems
      <4> QED BY <3>1, <4>1, Zenon
    <3>3. \A s : JobQueued(s) => fslot' = s \/ JobQueued(s)'
      BY <3>2, Zenon DEF JobQueued
    <3> QED
      BY <2>1, <3>3 DEF RecvJob
  <2>2. CASE LockCatalog \/ LockSlot
    BY <1>a, <2>2 DEF LockCatalog, LockSlot
  <2>3. CASE InsertOK
    BY <1>a, <2>3 DEF InsertOK, LockInv, RHeld
  <2>4. CASE InsertErr \/ TruncateErr
    BY <2>4 DEF InsertErr, TruncateErr, Fault
  <2>5. CASE TruncateOK
    BY <1>a, <2>5 DEF TruncateOK
  <2> QED
    BY <1>4, <2>1, <2>2, <2>3, <2>4, <2>5 DEF FlushWorker
<1>5. CASE Maintenance
  BY <1>a, <1>5 DEF Maintenance, MaintLock, MaintStmt, MaintUnlock
<1>6. CASE Stop
  <2>1. CASE StopCall \/ StopJoinLoop
    BY <1>a, <2>1 DEF StopCall, StopJoinLoop
  <2>2. CASE CloseDB
    <3>1. pc["loop"] = "exited" /\ final /\ fpc = "idle" /\ \A s : ~JobQueued(s)
      BY <2>2 DEF CloseDB, JobsDone, PhaseInv, JobQueued
    <3>2. mem[0] = {} /\ mem[1] = {}
      BY <3>1
    <3> QED
      BY <1>a, <2>2, <3>2 DEF CloseDB
  <2> QED
    BY <1>6, <2>1, <2>2 DEF Stop
<1>7. CASE UNCHANGED vars
  BY <1>a, <1>7 DEF vars
<1> QED
  BY <1>1, <1>2, <1>3, <1>4, <1>5, <1>6, <1>7 DEF Next, Done
-------------------------------------------------------------------------------
(* The inductive invariant, and what follows from it. *)

LEMMA InitInv == Init => PhaseInv /\ LockInv /\ PlaceInv /\ ComingInv
BY ProcFacts
   DEF Init, PhaseInv, LockInv, PlaceInv, ComingInv, InBatch, RHeld, Copied, AtMostOnce,
       RowsAwaitFlush, Slots, StopCalled, Closed, JobsDone

LEMMA Invariant == Spec => []IInv
<1>1. Init /\ TypeOK => IInv
  BY InitInv DEF IInv
<1>2. IInv /\ TypeOK' /\ [Next]_vars => IInv'
  BY PhaseStep, LockStep, PlaceStep, ComingStep DEF IInv
<1> QED
  BY <1>1, <1>2, TypeCorrect, PTL DEF Spec

\* No interleaving of appends, swaps, queued jobs and retries copies a row into
\* the lake twice, unless a TRUNCATE failed with the row in the slot
\* (flushSlotDirect, copyAndClearSlot).
THEOREM CopiedAtMostOnce == Spec => []AtMostOnce
<1>1. IInv => AtMostOnce
  BY DEF IInv, PlaceInv
<1> QED
  BY <1>1, Invariant, PTL

\* While no statement has failed, rows in or on their way to the standby slot
\* have a flush of that slot to come (lockActiveMem).
THEOREM NoRowStranded == Spec => []RowsAwaitFlush
<1>1. IInv => RowsAwaitFlush
  BY DEF IInv, ComingInv, RowsAwaitFlush
<1> QED
  BY <1>1, Invariant, PTL

\* While no statement has failed, Stop closes the DuckDB instance with every
\* accepted row in the lake (MultiTableWriter.Stop, TableWriter.Close).
THEOREM CleanStop == Spec => []CleanStopLosesNothing
<1>1. IInv => CleanStopLosesNothing
  BY DEF IInv, ComingInv, CleanStopLosesNothing
<1> QED
  BY <1>1, Invariant, PTL
-------------------------------------------------------------------------------
(* What maintenance may make an append wait for: an invariant of its own.      *)

\* catalogMu has one holder.
CatalogInv == maint # "idle" => fpc \notin {"wlock", "insert"}

LEMMA CatalogStep == TypeOK /\ CatalogInv /\ [Next]_vars => CatalogInv'
<1> SUFFICES ASSUME TypeOK, CatalogInv, [Next]_vars PROVE CatalogInv'
  OBVIOUS
<1> USE DEF CatalogInv
<1>1. ASSUME NEW w \in Writers, NEW r \in Rows, Write(w, r) PROVE CatalogInv'
  BY <1>1 DEF Write, flushVars
<1>2. ASSUME NEW p \in Procs, FlushBatch(p) PROVE CatalogInv'
  BY <1>2 DEF FlushBatch, TakeBatch, LoadSlot, RLock, Recheck, GetConn, AppendOK, AppendErr,
              Appended, flushVars
<1>3. CASE Loop
  BY <1>3 DEF Loop, Tick, RefreshSecret, LastTick, Swap, SendJob, flushVars
<1>4. CASE FlushWorker
  \* Only LockCatalog reaches the places that hold catalogMu, and it finds it free.
  <2>1. CASE LockCatalog
    BY <2>1 DEF LockCatalog, CatalogFree
  <2>2. CASE \/ RecvJob \/ LockSlot \/ InsertOK \/ InsertErr \/ TruncateOK \/ TruncateErr
    BY <2>2 DEF RecvJob, LockSlot, InsertOK, InsertErr, TruncateOK, TruncateErr
  <2> QED
    BY <1>4, <2>1, <2>2 DEF FlushWorker
<1>5. CASE Maintenance
  BY <1>5 DEF Maintenance, MaintLock, MaintStmt, MaintUnlock, CatalogFree, flushVars
<1>6. CASE Stop
  BY <1>6 DEF Stop, StopCall, StopJoinLoop, CloseDB, flushVars
<1>7. CASE Done \/ UNCHANGED vars
  BY <1>7 DEF Done, vars, flushVars
<1> QED
  BY <1>1, <1>2, <1>3, <1>4, <1>5, <1>6, <1>7 DEF Next

\* An append never waits for maintenance, however long its statement takes: the
\* writer that could pass the write lock on holds catalogMu up to the end of its
\* INSERT, so what is left of it is a TRUNCATE (copyAndClearSlot).
THEOREM AppendsPassMaintenance == Spec => []MaintenanceBlocksNoAppend
<1>1. Init => CatalogInv
  BY DEF Init, CatalogInv
<1>2. CatalogInv => MaintenanceBlocksNoAppend
  BY DEF CatalogInv, MaintenanceBlocksNoAppend, SlotFree, WHeld, WPending
<1> QED
  BY <1>1, <1>2, CatalogStep, TypeCorrect, PTL DEF Spec
-------------------------------------------------------------------------------
(* The table writer implements RowCustody. *)

\* Rows in memory, row by row.
LEMMA BufferedDef ==
    \A r : r \in Buffered <=> \/ r \in batch \/ r \in mem[0] \/ r \in mem[1]
                             \/ \E p \in Procs : r \in rows[p]
BY DEF Buffered

LEMMA CustodyStep == IInv /\ [Next]_vars => [Custody!Next]_(Custody!vars)
<1> SUFFICES ASSUME IInv, [Next]_vars
             PROVE  Custody!Next \/ UNCHANGED Custody!vars
  OBVIOUS
<1> DEFINE Held == Buffered \ InLake
<1> USE ProcFacts DEF IInv, TypeOK, Slots, bufVars, procVars, flushVars, obsVars
<1>a. \A r : r \in Buffered' <=> \/ r \in batch' \/ r \in mem'[0] \/ r \in mem'[1]
                               \/ \E p \in Procs : r \in rows'[p]
  BY DEF Buffered
<1>1. ASSUME NEW w \in Writers, NEW r \in Rows, Write(w, r) PROVE Custody!Accept(r)
  <2>1. r \notin Buffered /\ r \notin InLake /\ r \notin dropped \cup lost
    BY <1>1, BufferedDef DEF Write, PlaceInv, InLake
  <2>2. Buffered' = Buffered \cup {r}
    BY <1>1, <1>a, BufferedDef DEF Write
  <2>3. InLake' = InLake /\ (dropped \cup lost)' = dropped \cup lost
    BY <1>1 DEF Write, InLake
  <2>4. ~Closed /\ Closed' = Closed
    BY <1>1 DEF Write, StopCalled, Closed, Goto
  <2> QED
    BY <2>1, <2>2, <2>3, <2>4 DEF Custody!Accept
<1>2. ASSUME NEW p \in Procs, FlushBatch(p) PROVE Custody!Next \/ UNCHANGED Custody!vars
  <2>1. CASE TakeBatch(p)
    <3>1. rows[p] = {}
      BY <2>1 DEF TakeBatch, PhaseInv, InBatch
    <3>2. Buffered' = Buffered
      BY <2>1, <3>1, <1>a, BufferedDef DEF TakeBatch
    <3>3. InLake' = InLake /\ UNCHANGED <<dropped, lost>> /\ Closed' = Closed
      BY <2>1, AfterFacts DEF TakeBatch, InLake, Closed, Goto
    <3> QED
      BY <3>2, <3>3 DEF Custody!vars
  <2>2. CASE LoadSlot(p) \/ RLock(p) \/ Recheck(p) \/ GetConn(p)
    <3>1. UNCHANGED <<batch, mem, rows, lake, dropped, lost>>
      BY <2>2 DEF LoadSlot, RLock, Recheck, GetConn
    <3>2. Closed' = Closed
      BY <2>2 DEF LoadSlot, RLock, Recheck, GetConn, Closed, Goto
    <3> QED
      BY <3>1, <3>2 DEF Custody!vars, Buffered, InLake
  <2>3. ASSUME NEW S \in SUBSET rows[p], Appended(p, S), pc[p] \in {"conn", "append"}
        PROVE  Custody!Reject(rows[p] \ S) /\ rows[p] \ S \subseteq Held
    <3>1. ~Closed /\ ~Closed'
      BY <2>3, AfterFacts DEF Appended, PhaseInv, InBatch, StopCalled, Closed, Goto
    <3>2. \A r \in rows[p] : r \in Buffered /\ r \notin InLake
      BY BufferedDef DEF PlaceInv, InLake
    <3>3. /\ UNCHANGED <<batch, lake, lost>>
          /\ mem' = [mem EXCEPT ![slot[p]] = mem[slot[p]] \cup S]
          /\ rows' = [rows EXCEPT ![p] = {}]
          /\ dropped' = dropped \cup (rows[p] \ S)
      BY <2>3 DEF Appended
    <3>4. Buffered' = Buffered \ (rows[p] \ S)
      <4>1. slot[p] \in Slots
        OBVIOUS
      <4>2. \A r : r \in mem'[0] \/ r \in mem'[1] <=> r \in mem[0] \/ r \in mem[1] \/ r \in S
        BY <3>3, <4>1
      <4>3. \A r : (\E q \in Procs : r \in rows'[q])
                      <=> (\E q \in Procs : r \in rows[q]) /\ r \notin rows[p]
        BY <3>3 DEF PlaceInv
      <4>4. \A r \in rows[p] : r \notin batch /\ r \notin mem[0] /\ r \notin mem[1]
        BY DEF PlaceInv
      <4> QED
        BY <1>a, BufferedDef, <3>3, <4>2, <4>3, <4>4
    <3>5. InLake' = InLake
      BY <3>3 DEF InLake
    <3> QED
      BY <3>1, <3>2, <3>3, <3>4, <3>5 DEF Custody!Reject
  <2>4. CASE AppendOK(p) \/ AppendErr(p)
    BY <2>3, <2>4 DEF AppendOK, AppendErr, Custody!Next
  <2> QED
    BY <1>2, <2>1, <2>2, <2>4 DEF FlushBatch
<1>3. CASE Loop \/ Maintenance \/ StopCall \/ StopJoinLoop \/ RecvJob \/ LockCatalog
             \/ LockSlot \/ InsertErr \/ TruncateErr \/ UNCHANGED vars
  <2>1. UNCHANGED <<batch, mem, rows, lake, dropped, lost>>
    BY <1>3 DEF Loop, Tick, RefreshSecret, LastTick, Swap, SendJob, Maintenance, MaintLock,
                MaintStmt, MaintUnlock, StopCall, StopJoinLoop, RecvJob, LockCatalog,
                LockSlot, InsertErr, TruncateErr, vars
  <2>2. Closed' = Closed
    BY <1>3 DEF Loop, Tick, RefreshSecret, LastTick, Swap, SendJob, Maintenance, MaintLock,
                MaintStmt, MaintUnlock, StopCall, StopJoinLoop, RecvJob, LockCatalog,
                LockSlot, InsertErr, TruncateErr, vars, Closed, Goto
  <2> QED
    BY <2>1, <2>2 DEF Custody!vars, Buffered, InLake
<1>4. CASE InsertOK
  <2> DEFINE New == mem[fslot] \ InLake
  <2>1. ~Closed /\ ~Closed'
    BY <1>4 DEF InsertOK, PhaseInv, Closed, JobsDone
  <2>2. Buffered' = Buffered
    BY <1>4 DEF InsertOK, Buffered
  <2>3. UNCHANGED <<dropped, lost>>
    BY <1>4 DEF InsertOK
  <2>4. mem[fslot] \subseteq Rows /\ mem[fslot] \subseteq Buffered
    BY BufferedDef
  <2>5. InLake' = InLake \cup New
    BY <1>4, <2>4 DEF InsertOK, InLake
  <2>6. CASE New = {}
    BY <2>1, <2>2, <2>3, <2>5, <2>6 DEF Custody!vars
  <2>7. CASE New # {}
    <3>1. New \in SUBSET Held
      BY <2>4
    <3>2. Custody!Store(New)
      BY <2>1, <2>2, <2>3, <2>5, <2>7 DEF Custody!Store
    <3> QED
      BY <3>1, <3>2 DEF Custody!Next
  <2> QED
    BY <2>6, <2>7
<1>5. CASE TruncateOK
  <2>1. \A r \in mem[fslot] : r \in InLake
    BY <1>5 DEF TruncateOK, PlaceInv, InLake
  <2>2. InLake' = InLake /\ UNCHANGED <<dropped, lost>> /\ Closed' = Closed
    BY <1>5 DEF TruncateOK, InLake, Closed
  <2>3. \A s \in Slots : mem'[s] = IF s = fslot THEN {} ELSE mem[s]
    BY <1>5 DEF TruncateOK
  <2>4. UNCHANGED <<batch, rows>>
    BY <1>5 DEF TruncateOK
  <2>5. Held' = Held
    BY <1>a, BufferedDef, <2>1, <2>2, <2>3, <2>4
  <2> QED
    BY <2>2, <2>5 DEF Custody!vars
<1>6. CASE CloseDB
  <2>1. batch = {} /\ \A p \in Procs : rows[p] = {}
    BY <1>6 DEF CloseDB, PhaseInv, InBatch, StopCalled
  <2>2. ~Closed /\ Closed'
    BY <1>6 DEF CloseDB, Closed, Goto
  <2>3. UNCHANGED <<batch, rows, lake, dropped>> /\ mem'[0] = {} /\ mem'[1] = {}
    BY <1>6 DEF CloseDB
  <2>4. InLake' = InLake
    BY <2>3 DEF InLake
  <2>5. Held' = {}
    BY <1>a, <2>1, <2>3
  <2>6. lost' = lost \cup Held
    <3>1. \A r : r \in Buffered <=> r \in mem[0] \/ r \in mem[1]
      BY BufferedDef, <2>1
    <3>2. Held = {r \in mem[0] \cup mem[1] : lake[r] = 0}
      BY <3>1 DEF InLake
    <3> QED
      BY <1>6, <3>2 DEF CloseDB
  <2>7. (dropped \cup lost)' = (dropped \cup lost) \cup Held
    BY <2>3, <2>6
  <2> QED
    BY <2>2, <2>4, <2>5, <2>7 DEF Custody!Close, Custody!Next
<1> QED
  BY <1>1, <1>2, <1>3, <1>4, <1>5, <1>6 DEF Next, FlushWorker, Stop, Done, Custody!Next

\* The table writer implements RowCustody: a row leaves memory only into the
\* lake, with a reported append error, or when db.Close drops the memory tables.
THEOREM ImplementsCustody == Spec => CustodySpec
<1>1. Init => Custody!Init
  BY DEF Init, Custody!Init, Buffered, InLake, Closed, Slots, Procs
<1> QED
  BY <1>1, CustodyStep, Invariant, PTL DEF Spec, CustodySpec, Custody!Spec
===============================================================================
