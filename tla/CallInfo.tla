------------------------------ MODULE CallInfo ------------------------------
(***************************************************************************)
(* What the coordinator tells about a call: computeSIPCallLeg goes through *)
(* the SIP rows of one Call-ID by their timestamps and derives state,      *)
(* times and codecs.                                                       *)
(*                                                                         *)
(* External: the call itself, the agents on the wire, with authentication, *)
(* early media, CANCEL, failures, retransmitted 200s, re-INVITE, UPDATE    *)
(* and delayed offers.  Rows of one millisecond are sorted by their random *)
(* uuid, that is, in any order.  A codec list is a model value; addresses, *)
(* user agents and parties, which are copied, are left out.                *)
(***************************************************************************)
EXTENDS Naturals, Sequences, FiniteSets

CONSTANTS
    CiCodecs,       \* codec lists an agent may put into an SDP
    CiFinals,       \* final answers to an INVITE other than 200
    CiMaxRows,      \* bound on messages of the call
    CiMaxShared     \* bound on messages of one millisecond

CiNone == "none"

ASSUME CallInfoAssumption ==
    /\ IsFiniteSet(CiCodecs) /\ CiNone \notin CiCodecs
    /\ CiFinals \subseteq 300..699
    /\ CiMaxRows \in Nat /\ CiMaxShared \in Nat \ {0}

VARIABLES
    ciPhase,        \* the call: idle, calling, cancelling, answered, up, ending, over
    ciSeq,          \* CSeq of the last request
    ciSdp,          \* the open offer
    ciOks,          \* the 200s to INVITEs so far, each with its ACK
    ciNow,          \* the millisecond
    ciBatch,        \* rows of this millisecond, in the order of the wire
    ciCount,        \* rows so far
    ciLeg,          \* sipCallLegMetrics
    \* Observers: what happened.
    ciTruth         \* first INVITE, first 200, BYE; codecs agreed on; the outcome

ciVars == <<ciPhase, ciSeq, ciSdp, ciOks, ciNow, ciBatch, ciCount, ciLeg, ciTruth>>

\* A row: a request has code 0, an answer the method of its CSeq.
CiRequest(method, n, sdp) == [code |-> 0, method |-> method, n |-> n, sdp |-> sdp]
CiAnswer(code, method, n, sdp) == [code |-> code, method |-> method, n |-> n, sdp |-> sdp]

-----------------------------------------------------------------------------
(* computeSIPCallLeg, one row. *)

CiEmptyLeg ==
    [invite |-> 0, bye |-> 0, cancel |-> 0, ringing |-> 0, connect |-> 0, stop |-> 0,
     first |-> 0, last |-> 0, RingingTime |-> 0, Duration |-> 0, SRD |-> 0, SSS |-> 0, FSSD |-> 0,
     SDD |-> 0, Status |-> 0, LastBadReply |-> 0, offered |-> CiNone, negotiated |-> CiNone,
     sdpOfferTxn |-> {}, sdpAnsweredTxn |-> {}, delayed |-> FALSE, delayedSeq |-> 0]

noteOffer(st, c) == IF c # CiNone /\ st.offered = CiNone THEN [st EXCEPT !.offered = c] ELSE st
noteAnswer(st, c) == IF c # CiNone THEN [st EXCEPT !.negotiated = c] ELSE st

\* The offer an answer belongs to.  Every row here has its CSeq number.
\* Mutant: any open offer of the method.
TakeOfferOfMethod(st, key) == \E k \in st.sdpOfferTxn : k[1] = key[1]
takeOffer(st, key) == key \in st.sdpOfferTxn

CiSdpRequest(st, r) ==
    LET key == <<r.method, r.n>>
        st1 == [st EXCEPT !.sdpAnsweredTxn = @ \ {key}]
    IN  IF r.sdp # CiNone
        THEN [noteOffer(st1, r.sdp) EXCEPT !.sdpOfferTxn = @ \cup {key}]
        ELSE [st1 EXCEPT !.sdpOfferTxn = @ \ {key}]

CiSdpAck(st, r) ==
    IF st.delayed /\ r.n = st.delayedSeq
    THEN [noteAnswer(st, r.sdp) EXCEPT !.delayed = FALSE]
    ELSE st

CiAnswered(st, key) == key \in st.sdpAnsweredTxn

CiSdpAnswer(st, r) ==
    LET key == <<r.method, r.n>>
    IN  IF CiAnswered(st, key)
        THEN st
        ELSE IF takeOffer(st, key)
             THEN [noteAnswer(st, r.sdp) EXCEPT !.sdpOfferTxn = @ \ {key},
                                                !.sdpAnsweredTxn = @ \cup {key}]
             ELSE IF r.sdp = CiNone
                  THEN st
                  ELSE [noteOffer(st, r.sdp) EXCEPT !.delayed = TRUE, !.delayedSeq = r.n,
                                                    !.sdpAnsweredTxn = @ \cup {key}]

observeSDP(st, r) ==
    CASE r.code = 0 /\ r.method \in {"INVITE", "UPDATE"} -> CiSdpRequest(st, r)
      [] r.code = 0 /\ r.method = "ACK" -> CiSdpAck(st, r)
      [] r.code = 200 /\ r.method \in {"INVITE", "UPDATE"} -> CiSdpAnswer(st, r)
      [] OTHER -> st

CiRings(st, until) == st.ringing # 0 /\ st.RingingTime = 0 /\ st.ringing < until
CiRung(st, until) == IF CiRings(st, until) THEN until - st.ringing ELSE st.RingingTime

CiSeesInvite(st, ts) == [st EXCEPT !.invite = ts, !.Status = 1]

CiSeesBye(st, ts) ==
    [st EXCEPT !.bye = ts, !.stop = ts, !.Status = 10, !.RingingTime = CiRung(st, ts),
               !.Duration = IF st.connect # 0 /\ st.connect < ts THEN ts - st.connect ELSE @]

CiSeesCancel(st, ts) ==
    [st EXCEPT !.cancel = ts, !.stop = ts, !.Status = 11, !.RingingTime = CiRung(st, ts)]

CiDelays(st, code, ts) ==
    [st EXCEPT !.SRD = IF st.invite # 0 /\ @ = 0 THEN ts - st.invite ELSE @,
               !.SSS = IF code \in 101..199 /\ @ = 0 /\ st.invite # 0 THEN ts - st.invite ELSE @]

CiFailure(code) ==
    CASE code = 486 -> 7 [] code = 480 -> 12 [] code \in (400..499) \ {480, 486} -> 8
      [] code \in 500..599 -> 9 [] OTHER -> 14

\* Mutant: any 200 connects.
CiConnectsAny(st, r) == r.code = 200 /\ st.connect = 0
CiConnects(st, r) == r.code = 200 /\ st.connect = 0 /\ r.method = "INVITE"

CiProgress(st, r, ts) ==
    CASE r.code = 183 /\ st.ringing = 0 -> [st EXCEPT !.Status = 3, !.ringing = ts]
      [] r.code = 180 /\ (st.ringing = 0 \/ st.Status = 3) -> [st EXCEPT !.Status = 4, !.ringing = ts]
      [] CiConnects(st, r) ->
            [st EXCEPT !.connect = ts, !.stop = 0, !.Status = 5, !.RingingTime = CiRung(st, ts)]
      [] /\ r.code \in (401..699) \ {401, 402, 407, 487}
         /\ st.FSSD = 0 /\ r.method = "INVITE" ->
            [st EXCEPT !.Status = CiFailure(r.code), !.stop = ts, !.RingingTime = CiRung(st, ts),
                       !.FSSD = IF ts > st.invite /\ st.invite # 0 THEN ts - st.invite ELSE @]
      [] OTHER -> st

CiSeesAnswer(st0, r, ts) ==
    LET st1 == CiProgress(CiDelays(st0, r.code, ts), r, ts)
        st2 == [st1 EXCEPT !.Status = IF r.code = 401 \/ (r.code = 407 /\ r.method = "INVITE")
                                      THEN 2 ELSE @]
        st3 == IF r.code \in 301..399 /\ r.method = "INVITE"
               THEN [st2 EXCEPT !.Status = 6, !.stop = ts, !.RingingTime = CiRung(st2, ts)]
               ELSE st2
        st4 == [st3 EXCEPT !.LastBadReply = IF r.code \in 401..699 THEN r.code ELSE @]
    IN  IF r.code = 200 /\ st4.SDD = 0 /\ r.method = "BYE"
        THEN [st4 EXCEPT !.Status = 10,
                         !.SDD = IF st4.bye # 0 /\ st4.bye < ts THEN ts - st4.bye ELSE @]
        ELSE st4

computeSIPCallLeg(st0, r, ts) ==
    LET st == observeSDP([st0 EXCEPT !.first = IF @ = 0 THEN ts ELSE @, !.last = ts], r)
    IN  CASE r.code = 0 /\ r.method = "INVITE" /\ st.invite = 0 -> CiSeesInvite(st, ts)
          [] r.code = 0 /\ r.method = "BYE" /\ st.bye = 0 -> CiSeesBye(st, ts)
          [] r.code = 0 /\ r.method = "CANCEL" /\ st.cancel = 0 -> CiSeesCancel(st, ts)
          [] r.code # 0 -> CiSeesAnswer(st, r, ts)
          [] OTHER -> st

-----------------------------------------------------------------------------
(* The call. *)

CiNoTruth == [invite |-> 0, connect |-> 0, bye |-> 0, agreed |-> CiNone, refused |-> FALSE,
              shared |-> FALSE, outcome |-> "none"]

CiInit ==
    /\ ciPhase = "idle" /\ ciSeq = 0 /\ ciSdp = CiNone
    /\ ciOks = {}
    /\ ciNow = 1 /\ ciBatch = << >> /\ ciCount = 0
    /\ ciLeg = CiEmptyLeg
    /\ ciTruth = CiNoTruth

CiEmit(r) ==
    /\ ciCount < CiMaxRows /\ Len(ciBatch) < CiMaxShared
    /\ ciBatch' = Append(ciBatch, r)
    /\ ciCount' = ciCount + 1
    /\ UNCHANGED <<ciNow, ciLeg>>

CiSays(r, phase, truth) ==
    /\ CiEmit(r)
    /\ ciPhase' = phase
    /\ ciTruth' = [truth EXCEPT !.shared = @ \/ ciBatch # << >>]

CiUp == ciTruth.connect # 0

\* An INVITE, with an offer or without: the call's first, the one with credentials, or
\* one within the call.
CiInvite(sdp) ==
    /\ ciPhase \in {"idle", "up"}
    /\ ciSeq' = ciSeq + 1 /\ ciSdp' = sdp /\ UNCHANGED ciOks
    /\ CiSays(CiRequest("INVITE", ciSeq + 1, sdp), "calling",
              [ciTruth EXCEPT !.invite = IF @ = 0 THEN ciNow ELSE @])

CiProvisional(code) ==
    /\ ciPhase = "calling" /\ (CiUp => code = 100)
    /\ CiSays(CiAnswer(code, "INVITE", ciSeq, CiNone), ciPhase, ciTruth)
    /\ UNCHANGED <<ciSeq, ciSdp, ciOks>>

CiChallenge(code) ==
    /\ ciPhase = "calling" /\ ~CiUp /\ ciSeq = 1
    /\ CiSays(CiAnswer(code, "INVITE", ciSeq, CiNone), "idle", ciTruth)
    /\ UNCHANGED <<ciSeq, ciSdp, ciOks>>

\* A 200 has the answer, or an offer if the INVITE had none.
CiAccept(sdp) ==
    /\ ciPhase \in {"calling", "cancelling"} /\ sdp \in CiCodecs
    /\ CiSays(CiAnswer(200, "INVITE", ciSeq, sdp), "answered",
              [ciTruth EXCEPT !.connect = IF @ = 0 THEN ciNow ELSE @,
                              !.agreed = IF ciSdp # CiNone THEN sdp ELSE @])
    /\ ciSdp' = IF ciSdp = CiNone THEN sdp ELSE CiNone
    /\ ciOks' = ciOks \cup {[n |-> ciSeq, sdp |-> sdp, ack |-> CiNone]}
    /\ UNCHANGED ciSeq

\* A 200 or an ACK was lost on its way, or late: some 200 again, though the call has
\* gone on, to a re-INVITE that is open or answered, an UPDATE or the BYE.
CiAcceptAgain(ok) ==
    /\ ciPhase \in {"calling", "answered", "up", "updating", "ending"}
    /\ CiSays(CiAnswer(200, "INVITE", ok.n, ok.sdp), ciPhase, ciTruth)
    /\ UNCHANGED <<ciSeq, ciSdp, ciOks>>

CiAckAgain(ok) ==
    /\ ciPhase \in {"calling", "answered", "up", "updating", "ending"}
    /\ ciPhase = "answered" => ok.n # ciSeq
    /\ CiSays(CiRequest("ACK", ok.n, ok.ack), ciPhase, ciTruth)
    /\ UNCHANGED <<ciSeq, ciSdp, ciOks>>

CiAck(sdp) ==
    /\ ciPhase = "answered"
    /\ IF ciSdp = CiNone THEN sdp = CiNone ELSE sdp \in CiCodecs
    /\ CiSays(CiRequest("ACK", ciSeq, sdp), "up",
              [ciTruth EXCEPT !.agreed = IF sdp # CiNone THEN sdp ELSE @])
    /\ ciSdp' = CiNone
    /\ ciOks' = {IF ok.n = ciSeq THEN [ok EXCEPT !.ack = sdp] ELSE ok : ok \in ciOks}
    /\ UNCHANGED ciSeq

CiCancel ==
    /\ ciPhase = "calling" /\ ~CiUp
    /\ CiSays(CiRequest("CANCEL", ciSeq, CiNone), "cancelling", ciTruth)
    /\ UNCHANGED <<ciSeq, ciSdp, ciOks>>

CiCancelAnswered ==
    /\ ciPhase = "cancelling"
    /\ CiSays(CiAnswer(200, "CANCEL", ciSeq, CiNone), ciPhase, ciTruth)
    /\ UNCHANGED <<ciSeq, ciSdp, ciOks>>

CiCancelled ==
    /\ ciPhase = "cancelling"
    /\ CiSays(CiAnswer(487, "INVITE", ciSeq, CiNone), "over", [ciTruth EXCEPT !.outcome = "cancelled"])
    /\ UNCHANGED <<ciSeq, ciSdp, ciOks>>

\* Answers that computeSIPCallLeg takes for no failure: its tests are reply > 300 and
\* reply > 400, and a 401, 402, 407 or 487 is followed by something else as a rule.
CiUnshown == {300, 400, 401, 402, 407, 487}

\* Refused: the call, or a change of it.
CiRefuse(code) ==
    /\ ciPhase = "calling"
    /\ CiSays(CiAnswer(code, "INVITE", ciSeq, CiNone), IF CiUp THEN "up" ELSE "over",
              IF CiUp THEN [ciTruth EXCEPT !.refused = TRUE]
              ELSE [ciTruth EXCEPT !.outcome = IF code \in CiUnshown THEN "unshown" ELSE "refused"])
    /\ ciSdp' = CiNone /\ UNCHANGED <<ciSeq, ciOks>>

CiUpdate(sdp) ==
    /\ ciPhase = "up" /\ sdp \in CiCodecs
    /\ ciSeq' = ciSeq + 1 /\ ciSdp' = sdp /\ UNCHANGED ciOks
    /\ CiSays(CiRequest("UPDATE", ciSeq + 1, sdp), "updating", ciTruth)

CiUpdated(sdp) ==
    /\ ciPhase = "updating" /\ sdp \in CiCodecs
    /\ CiSays(CiAnswer(200, "UPDATE", ciSeq, sdp), "up", [ciTruth EXCEPT !.agreed = sdp])
    /\ ciSdp' = CiNone /\ UNCHANGED <<ciSeq, ciOks>>

CiBye ==
    /\ ciPhase = "up"
    /\ ciSeq' = ciSeq + 1
    /\ CiSays(CiRequest("BYE", ciSeq + 1, CiNone), "ending",
              [ciTruth EXCEPT !.bye = ciNow, !.outcome = "finished"])
    /\ UNCHANGED <<ciSdp, ciOks>>

CiByeAnswered ==
    /\ ciPhase = "ending"
    /\ CiSays(CiAnswer(200, "BYE", ciSeq, CiNone), "over", ciTruth)
    /\ UNCHANGED <<ciSeq, ciSdp, ciOks>>

\* computeSIPCallInfoRows: by timestamp, then by uuid.
CiOrders == {o \in [1..Len(ciBatch) -> 1..Len(ciBatch)] : \A i, j \in DOMAIN o : o[i] = o[j] => i = j}

\* The leg after the first k rows of the millisecond.
CiLegs(o) ==
    LET leg[k \in 0..Len(ciBatch)] ==
            IF k = 0 THEN ciLeg ELSE computeSIPCallLeg(leg[k - 1], ciBatch[o[k]], ciNow)
    IN  leg

CiCompute ==
    /\ ciBatch # << >>
    /\ \E o \in CiOrders : ciLeg' = CiLegs(o)[Len(ciBatch)]
    /\ ciBatch' = << >> /\ ciNow' = ciNow + 1
    /\ UNCHANGED <<ciPhase, ciSeq, ciSdp, ciOks, ciCount, ciTruth>>

CiNext ==
    \/ CiCompute \/ CiCancel \/ CiCancelAnswered \/ CiCancelled \/ CiBye \/ CiByeAnswered
    \/ \E ok \in ciOks : CiAcceptAgain(ok) \/ CiAckAgain(ok)
    \/ \E sdp \in CiCodecs \cup {CiNone} : CiInvite(sdp) \/ CiAck(sdp)
    \/ \E sdp \in CiCodecs : CiAccept(sdp) \/ CiUpdate(sdp) \/ CiUpdated(sdp)
    \/ \E code \in {100, 180, 183} : CiProvisional(code)
    \/ \E code \in {401, 407} : CiChallenge(code)
    \/ \E code \in CiFinals : CiRefuse(code)

CiSpec == CiInit /\ [][CiNext]_ciVars

-----------------------------------------------------------------------------
(* Properties, of what a request of the call's info would be answered now.  *)

CiAtRest == ciBatch = << >>
CiInOrder == ~ciTruth.shared

\* Whatever the order of the rows of a millisecond, no delay is longer than the
\* session and the answered time is that between some 200 and some BYE.
CiTimesWithinSession ==
    \A t \in {ciLeg.RingingTime, ciLeg.Duration, ciLeg.SRD, ciLeg.SSS, ciLeg.FSSD, ciLeg.SDD} :
        t <= ciLeg.last - ciLeg.first

\* With the rows in the order of the wire, the codecs are those of the last exchange
\* of offer and answer that was completed, in whichever messages it was made and
\* however often a 200 was sent.
CiCodecsAgreed == CiAtRest /\ CiInOrder => ciLeg.negotiated = ciTruth.agreed

\* Likewise the answered time is that from the first 200 to the BYE; ringing ends
\* before it begins.
CiDurationRight ==
    CiAtRest /\ CiInOrder =>
        /\ ciTruth.bye # 0 => ciLeg.Duration = ciTruth.bye - ciTruth.connect
        /\ ciTruth.bye = 0 => ciLeg.Duration = 0
        /\ ciTruth.connect # 0 => ciLeg.RingingTime <= ciTruth.connect - ciTruth.invite

\* And the state is the call's.  Two things excepted: a re-INVITE that is refused shows
\* a connected call as failed, and a call that ends with one of CiUnshown as not ended.
CiStateRight ==
    CiAtRest /\ CiInOrder =>
        /\ ciTruth.outcome = "finished" => ciLeg.Status = 10
        /\ ciTruth.outcome = "cancelled" => ciLeg.Status = 11
        /\ ciTruth.outcome = "refused" => ciLeg.Status \in {6, 7, 8, 9, 12, 14}
        /\ ciTruth.outcome = "none" /\ CiUp /\ ~ciTruth.refused => ciLeg.Status = 5
        /\ ~CiUp => ciLeg.Status # 5

CallInfoSafe == CiTimesWithinSession /\ CiCodecsAgreed /\ CiDurationRight /\ CiStateRight
=============================================================================
