------------------------------- MODULE HepRow -------------------------------
(***************************************************************************)
(* From a captured packet to a row: the decoder's timestamp and duplicate  *)
(* check, the parse, and the adapter's table and partition date, which     *)
(* goes through a cache of two separate words (fastDuckDate).  Ingest      *)
(* workers do it for packets from the network, the pcap import for those   *)
(* of an uploaded file, all with the same caches; the import's node runs   *)
(* in the same process.                                                    *)
(*                                                                         *)
(* Time is in ticks of which HrDay make a day and HrYear days a year.  A   *)
(* payload is one of HrContents, and its kind says what the parse makes    *)
(* of it.  External: the node's INSERT, done or failed.                    *)
(***************************************************************************)
EXTENDS Integers, FiniteSets

CONSTANTS
    HrWorkers,      \* ingest workers
    HrContents,     \* payload -> its kind
    HrRaws,         \* what chunk 9 may hold, in seconds
    HrStart, HrEnd, \* the clock
    HrDay, HrYear,
    HrPast, HrFuture, \* hepTimestampPastWindow, hepTimestampFutureWindow
    HrNtp,          \* ntpUnixOffset
    HrZone,         \* the local zone is that many ticks ahead of UTC
    HrWindow,       \* duplicates are less than this apart
    HrMaxPackets,   \* bound on the packets from the network,
    HrMaxBesides,   \* and where there is an import
    HrFile,         \* the pcap file: packets [content, ts]
    HrBatch         \* pcapInsertBatch

Importer == "import"

ASSUME HepRowAssumption ==
    /\ {HrStart, HrEnd, HrDay, HrYear, HrPast, HrFuture, HrNtp, HrWindow, HrMaxPackets,
        HrMaxBesides, HrBatch} \subseteq Nat
    /\ HrDay > 0 /\ HrYear > 0 /\ HrZone \in Int
    /\ HrRaws \subseteq Nat /\ HrStart <= HrEnd
    /\ Importer \notin HrWorkers
    /\ IsFiniteSet(HrFile) /\ HrFile \subseteq [content : DOMAIN HrContents, ts : Nat]
    \* The key of the date cache is unique for a thousand years.
    /\ HrEnd + HrFuture < 1000 * HrYear * HrDay
    /\ \A f \in HrFile : f.ts < 1000 * HrYear * HrDay

HrProcs == HrWorkers \cup {Importer}
HrNone == "none"
HrUnset == -1

VARIABLES
    hrNow,
    hrDedup,        \* Deduplicate
    hrForced,       \* force_sip_table of the import, or none
    hrDedupCache,   \* payload -> time of the packet let through
    hrKey, hrDate,  \* cachedDateDay, cachedDuckDate
    hrPc, hrPkt,    \* what each goroutine does, the packet it has
    hrRows,         \* rows handed to a table writer
    hrCount,        \* packets received
    \* The import.
    hrLeft,         \* packets still to read
    hrBatches,      \* table -> rows
    hrInserted, hrRejected,
    hrImport,       \* "never", "no", "reads", "converts", "done", "failed"
    hrLake,         \* rows the node has stored, with their number
    \* Observers.
    hrPassed, hrDropped, \* packets the duplicate check let through and dropped
    hrMixed,        \* dates of two days were looked up at the same time
    hrForeign       \* an imported packet was of different days here and in UTC

hrFileVars == <<hrLeft, hrBatches, hrInserted, hrRejected, hrImport, hrLake>>
hrVars == <<hrNow, hrDedup, hrForced, hrDedupCache, hrKey, hrDate, hrPc, hrPkt, hrRows, hrCount,
            hrFileVars, hrPassed, hrDropped, hrMixed, hrForeign>>

-----------------------------------------------------------------------------
(* Timestamps and dates. *)

hepTimestampInWindow(ts, now) == ts <= now + HrFuture /\ ts >= now - HrPast

\* Mutant: what lies in the past is taken as it is.
HrSanitizedFar(raw, now) == IF raw = 0 THEN now ELSE raw
HrSanitized(raw, now) ==
    CASE raw # 0 /\ hepTimestampInWindow(raw, now) -> raw
      [] raw > HrNtp /\ hepTimestampInWindow(raw - HrNtp, now) -> raw - HrNtp
      [] OTHER -> now

HrDayOf(t) == t \div HrDay

\* Mutant: without the year.
HrDayKeyOfYear(day) == 1 + (day % HrYear)
HrDayKey(day) == ((1 + (day % HrYear)) * 1000) + ((day \div HrYear) % 1000)

\* The decoder's Timestamp is in UTC; the import leaves it zero, and time.Unix is
\* in the local zone.
HrLocal(pkt) == IF pkt.live THEN pkt.ts ELSE pkt.ts + HrZone

-----------------------------------------------------------------------------
(* Parse and table. *)

\* Request: its method.  Response: FirstResp is set.
HrFirstMethod(kind) ==
    CASE kind \in {"invite", "bye", "register", "options"} -> kind
      [] OTHER -> "status"
HrCseqMethod(kind) ==
    CASE kind = "answer" -> "invite"
      [] kind = "registered" -> "register"
      [] OTHER -> kind

\* Mutant: a response goes by its first line too.
GetSIPMethodFirst(kind) == HrFirstMethod(kind)
GetSIPMethod(kind) ==
    IF HrFirstMethod(kind) = "status" THEN HrCseqMethod(kind) ELSE HrFirstMethod(kind)

GetSIPType(method) ==
    CASE method \in {"invite", "bye"} -> "call"
      [] method = "register" -> "registration"
      [] OTHER -> "default"

HrTable(kind) == IF kind = "rtcp" THEN "rtcp" ELSE GetSIPType(GetSIPMethod(kind))

\* "bad": the parse fails.  "discard": DiscardMethods has the method, which clears
\* the proto type, and the worker drops the packet.
HrStored(kind) == kind \notin {"bad", "discard"}

-----------------------------------------------------------------------------

HrIdle == [content |-> HrNone, ts |-> 0, live |-> TRUE]

HrInit ==
    /\ hrNow = HrStart
    /\ hrDedup \in BOOLEAN
    /\ hrForced \in {HrNone, "default"}
    /\ hrDedupCache = [c \in {} |-> 0]
    /\ hrKey = 0 /\ hrDate = HrUnset
    /\ hrPc = [p \in HrProcs |-> "idle"] /\ hrPkt = [p \in HrProcs |-> HrIdle]
    /\ hrRows = {} /\ hrCount = 0
    /\ hrLeft = HrFile /\ hrBatches = [t \in {} |-> {}]
    /\ hrInserted = 0 /\ hrRejected = 0
    /\ hrImport \in {"never", "no"}
    /\ hrLake = [f \in HrFile |-> 0]
    /\ hrPassed = {} /\ hrDropped = {}
    /\ hrMixed = FALSE /\ hrForeign = FALSE

HrGoes(p, pc) == hrPc' = [hrPc EXCEPT ![p] = pc] /\ UNCHANGED hrPkt
HrEnds(p) == hrPc' = [hrPc EXCEPT ![p] = "idle"] /\ hrPkt' = [hrPkt EXCEPT ![p] = HrIdle]

HrTick ==
    /\ hrNow < HrEnd
    /\ hrNow' = hrNow + 1
    /\ UNCHANGED <<hrDedup, hrForced, hrDedupCache, hrKey, hrDate, hrPc, hrPkt, hrRows, hrCount,
                   hrFileVars, hrPassed, hrDropped, hrMixed, hrForeign>>

\* Decode up to normPayload.
HrDecode(w, c, raw) ==
    /\ hrPc[w] = "idle"
    /\ hrCount < IF hrImport = "never" THEN HrMaxPackets ELSE HrMaxBesides
    /\ hrCount' = hrCount + 1
    /\ hrPkt' = [hrPkt EXCEPT ![w] = [content |-> c, ts |-> HrSanitized(raw, hrNow), live |-> TRUE]]
    /\ hrPc' = [hrPc EXCEPT ![w] = IF hrDedup THEN "get" ELSE "parse"]
    /\ UNCHANGED <<hrNow, hrDedup, hrForced, hrDedupCache, hrKey, hrDate, hrRows, hrFileVars,
                   hrPassed, hrDropped, hrMixed, hrForeign>>

HrApart(a, b) == IF a < b THEN b - a ELSE a - b

\* normPayload: Get, and Set of the 500 ms check.  A hit keeps the entry.
HrHit(pkt) ==
    /\ pkt.content \in DOMAIN hrDedupCache
    /\ HrApart(pkt.ts, hrDedupCache[pkt.content]) < HrWindow

HrRemember(pkt) ==
    [c \in DOMAIN hrDedupCache \cup {pkt.content} |->
        IF c = pkt.content THEN pkt.ts ELSE hrDedupCache[c]]

\* Mutant: a hit starts the window again.
HrAfterHitSlides(pkt) == hrDedupCache' = HrRemember(pkt)
HrAfterHit(pkt) == UNCHANGED hrDedupCache

HrGet(w) ==
    LET pkt == hrPkt[w]
    IN  /\ hrPc[w] = "get"
        /\ IF HrHit(pkt)
           THEN /\ hrDropped' = hrDropped \cup {pkt}
                /\ HrAfterHit(pkt)
                /\ HrEnds(w)
           ELSE HrGoes(w, "set") /\ UNCHANGED <<hrDropped, hrDedupCache>>
        /\ UNCHANGED <<hrNow, hrDedup, hrForced, hrKey, hrDate, hrRows, hrCount, hrFileVars,
                       hrPassed, hrMixed, hrForeign>>

HrSet(w) ==
    LET pkt == hrPkt[w]
    IN  /\ hrPc[w] = "set"
        /\ hrDedupCache' = HrRemember(pkt)
        /\ hrPassed' = hrPassed \cup {pkt}
        /\ HrGoes(w, "parse")
        /\ UNCHANGED <<hrNow, hrDedup, hrForced, hrKey, hrDate, hrRows, hrCount, hrFileVars,
                       hrDropped, hrMixed, hrForeign>>

\* fastcache drops what it has no room for.
HrEvict(c) ==
    /\ c \in DOMAIN hrDedupCache
    /\ hrDedupCache' = [x \in DOMAIN hrDedupCache \ {c} |-> hrDedupCache[x]]
    /\ UNCHANGED <<hrNow, hrDedup, hrForced, hrKey, hrDate, hrPc, hrPkt, hrRows, hrCount, hrFileVars,
                   hrPassed, hrDropped, hrMixed, hrForeign>>

HrParse(w) ==
    /\ hrPc[w] = "parse"
    /\ IF HrStored(HrContents[hrPkt[w].content]) THEN HrGoes(w, "key") ELSE HrEnds(w)
    /\ UNCHANGED <<hrNow, hrDedup, hrForced, hrDedupCache, hrKey, hrDate, hrRows, hrCount, hrFileVars,
                   hrPassed, hrDropped, hrMixed, hrForeign>>

-----------------------------------------------------------------------------
(* fastDuckDate: load the key, load the date; or store the date, store the *)
(* key.                                                                    *)

HrDating(p) == hrPc[p] \in {"date", "storeDate", "storeKey"}

HrLoadKey(p) ==
    LET day == HrDayOf(HrLocal(hrPkt[p]))
    IN  /\ hrPc[p] = "key"
        /\ HrGoes(p, IF hrKey = HrDayKey(day) THEN "date" ELSE "storeDate")
        /\ hrMixed' = (hrMixed \/ \E q \in HrProcs \ {p} :
                            HrDating(q) /\ HrDayOf(HrLocal(hrPkt[q])) # day)
        /\ hrForeign' = (hrForeign \/ day # HrDayOf(hrPkt[p].ts))
        /\ UNCHANGED <<hrNow, hrDedup, hrForced, hrDedupCache, hrKey, hrDate, hrRows, hrCount,
                       hrFileVars, hrPassed, hrDropped>>

HrTableOf(p) ==
    IF p = Importer /\ hrForced # HrNone THEN hrForced ELSE HrTable(HrContents[hrPkt[p].content])

\* The row: to the table writer, or into the import's batch.
HrConverted(p, date) ==
    LET row == [content |-> hrPkt[p].content, ts |-> hrPkt[p].ts, live |-> hrPkt[p].live,
                date |-> date, table |-> HrTableOf(p)]
        t == HrTableOf(p)
    IN  /\ hrRows' = hrRows \cup {row}
        /\ HrEnds(p)
        /\ IF p # Importer THEN UNCHANGED hrFileVars
           ELSE /\ hrBatches' = [x \in DOMAIN hrBatches \cup {t} |->
                                    (IF x \in DOMAIN hrBatches THEN hrBatches[x] ELSE {})
                                    \cup (IF x = t THEN {[content |-> row.content, ts |-> row.ts]}
                                          ELSE {})]
                /\ hrImport' = "reads"
                /\ UNCHANGED <<hrLeft, hrInserted, hrRejected, hrLake>>

HrLoadDate(p) ==
    /\ hrPc[p] = "date"
    /\ IF hrDate = HrUnset THEN HrGoes(p, "storeDate") /\ UNCHANGED <<hrRows, hrFileVars>>
       ELSE HrConverted(p, hrDate)
    /\ UNCHANGED <<hrNow, hrDedup, hrForced, hrDedupCache, hrKey, hrDate, hrCount, hrPassed,
                   hrDropped, hrMixed, hrForeign>>

HrStoreDate(p) ==
    /\ hrPc[p] = "storeDate"
    /\ hrDate' = HrDayOf(hrPkt[p].ts)
    /\ HrGoes(p, "storeKey")
    /\ UNCHANGED <<hrNow, hrDedup, hrForced, hrDedupCache, hrKey, hrRows, hrCount, hrFileVars,
                   hrPassed, hrDropped, hrMixed, hrForeign>>

HrStoreKey(p) ==
    /\ hrPc[p] = "storeKey"
    /\ hrKey' = HrDayKey(HrDayOf(HrLocal(hrPkt[p])))
    /\ HrConverted(p, HrDayOf(hrPkt[p].ts))
    /\ UNCHANGED <<hrNow, hrDedup, hrForced, hrDedupCache, hrDate, hrCount, hrPassed,
                   hrDropped, hrMixed, hrForeign>>

-----------------------------------------------------------------------------
(* importPcapSIP. *)

HrImportStarts ==
    /\ hrImport = "no"
    /\ hrImport' = "reads"
    /\ UNCHANGED <<hrNow, hrDedup, hrForced, hrDedupCache, hrKey, hrDate, hrPc, hrPkt, hrRows, hrCount,
                   hrLeft, hrBatches, hrInserted, hrRejected, hrLake, hrPassed, hrDropped, hrMixed,
                   hrForeign>>

HrFull == {t \in DOMAIN hrBatches : Cardinality(hrBatches[t]) >= HrBatch}

\* The next packet of the file: rejected, or parsed (ApplyCapturedSIP) and converted.
HrImportRead(f) ==
    /\ hrImport = "reads" /\ hrPc[Importer] = "idle" /\ HrFull = {}
    /\ f \in hrLeft
    /\ hrLeft' = hrLeft \ {f}
    /\ IF HrContents[f.content] \in {"bad", "rtcp"}
       THEN hrRejected' = hrRejected + 1 /\ UNCHANGED <<hrPc, hrPkt, hrImport>>
       ELSE /\ hrPkt' = [hrPkt EXCEPT ![Importer] = [content |-> f.content, ts |-> f.ts,
                                                     live |-> FALSE]]
            /\ hrPc' = [hrPc EXCEPT ![Importer] = "key"]
            /\ hrImport' = "converts"
            /\ UNCHANGED hrRejected
    /\ UNCHANGED <<hrNow, hrDedup, hrForced, hrDedupCache, hrKey, hrDate, hrRows, hrCount, hrBatches,
                   hrInserted, hrLake, hrPassed, hrDropped, hrMixed, hrForeign>>

\* Mutant: the batch keeps its rows.
HrEmptiedNot(t) == hrBatches
HrEmptied(t) == [hrBatches EXCEPT ![t] = {}]

\* flushKey: a full batch at once, the others, in any order, at the end of the file.
\* An error of the node ends the import; the rows may be stored all the same.
HrFlushKey(t) ==
    /\ hrImport = "reads" /\ hrPc[Importer] = "idle"
    /\ t \in (IF HrFull # {} THEN HrFull ELSE IF hrLeft = {} THEN DOMAIN hrBatches ELSE {})
    /\ hrBatches[t] # {}
    /\ \/ /\ hrLake' = [f \in HrFile |-> hrLake[f] + (IF f \in hrBatches[t] THEN 1 ELSE 0)]
          /\ \/ /\ hrInserted' = hrInserted + Cardinality(hrBatches[t])
                /\ hrBatches' = HrEmptied(t)
                /\ UNCHANGED hrImport
             \/ hrImport' = "failed" /\ UNCHANGED <<hrInserted, hrBatches>>
       \/ hrImport' = "failed" /\ UNCHANGED <<hrLake, hrInserted, hrBatches>>
    /\ UNCHANGED <<hrNow, hrDedup, hrForced, hrDedupCache, hrKey, hrDate, hrPc, hrPkt, hrRows, hrCount,
                   hrLeft, hrRejected, hrPassed, hrDropped, hrMixed, hrForeign>>

HrImportEnds ==
    /\ hrImport = "reads" /\ hrPc[Importer] = "idle" /\ hrLeft = {}
    /\ \A t \in DOMAIN hrBatches : hrBatches[t] = {}
    /\ hrImport' = "done"
    /\ UNCHANGED <<hrNow, hrDedup, hrForced, hrDedupCache, hrKey, hrDate, hrPc, hrPkt, hrRows, hrCount,
                   hrLeft, hrBatches, hrInserted, hrRejected, hrLake, hrPassed, hrDropped, hrMixed,
                   hrForeign>>

HrNext ==
    \/ HrTick
    \/ \E w \in HrWorkers :
          \/ \E c \in DOMAIN HrContents, raw \in HrRaws : HrDecode(w, c, raw)
          \/ HrGet(w) \/ HrSet(w) \/ HrParse(w)
    \/ \E c \in DOMAIN HrContents : HrEvict(c)
    \/ \E p \in HrProcs : HrLoadKey(p) \/ HrLoadDate(p) \/ HrStoreDate(p) \/ HrStoreKey(p)
    \/ HrImportStarts \/ HrImportEnds
    \/ \E f \in HrFile : HrImportRead(f)
    \/ \E t \in DOMAIN hrBatches : HrFlushKey(t)

HrSpec == HrInit /\ [][HrNext]_hrVars

-----------------------------------------------------------------------------
(* Properties. *)

\* A packet dropped as a duplicate has a twin that was let through less than the
\* window apart from it, whatever workers, evictions and clocks of agents do:
\* the window does not slide with the duplicates.
HrDroppedHaveTwin ==
    \A d \in hrDropped : \E a \in hrPassed :
        a.content = d.content /\ HrApart(a.ts, d.ts) < HrWindow

\* The partition date of a row is the UTC day of its timestamp, unless packets of
\* two days were dated at the same time, or an imported packet lies on different days
\* here and in UTC: from then on the cache may pair a key with the date of another
\* day.  Even so no packet from the network opens a partition in the far future.
HrPartitionsRight ==
    /\ hrMixed \/ hrForeign \/ \A r \in hrRows : r.date = HrDayOf(r.ts)
    /\ hrImport \in {"never", "no"} => \A r \in hrRows : r.date <= HrDayOf(hrNow + HrFuture)

\* A request and its responses are rows of one table, unless an import is forced
\* into another one.
HrTransactionTogether ==
    \A r \in hrRows :
        HrContents[r.content] # "rtcp" /\ (r.live \/ hrForced = HrNone) =>
            r.table = GetSIPType(HrCseqMethod(HrContents[r.content]))

\* An import that succeeds has every packet of the file stored once or counted as
\* rejected; one that fails has stored what it says it inserted, and perhaps the
\* batch it failed on.
HrImportAccounted ==
    /\ \A f \in HrFile : hrLake[f] <= 1
    /\ LET stored == Cardinality({f \in HrFile : hrLake[f] = 1})
       IN  /\ hrInserted <= stored
           /\ hrImport = "done" => stored = hrInserted
                                   /\ hrInserted + hrRejected = Cardinality(HrFile)

HepRowSafe ==
    /\ HrDroppedHaveTwin
    /\ HrPartitionsRight
    /\ HrTransactionTogether
    /\ HrImportAccounted
=============================================================================
