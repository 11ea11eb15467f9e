------------------------------- MODULE Siprec -------------------------------
(***************************************************************************)
(* The SIPREC receiver's calls (siprecreceiver/server.go).  Every SIP      *)
(* request runs in a goroutine of its own (external: sipgo), so that the   *)
(* handlers of one call overlap: a BYE may be served while the INVITE it   *)
(* ends has not stored its dialog yet.  The maps sessions and dialogs are  *)
(* guarded by mu, which every handler takes and releases several times.    *)
(*                                                                         *)
(* The recording metadata and the rows that are stored are left out: the   *)
(* steps that store them are there, for what may happen in between.        *)
(***************************************************************************)
EXTENDS Naturals, FiniteSets

CONSTANTS
    Calls,          \* Call-IDs
    Handlers        \* requests being served at once

ASSUME SiprecAssumption ==
    IsFiniteSet(Calls) /\ IsFiniteSet(Handlers) /\ Calls # {}

VARIABLES
    sessions, dialogs,  \* Call-IDs with an entry in the map
    requireSiprec,
    srPc,           \* what each handler has to do next
    srCall          \* the call it serves

(* Observers. *)
VARIABLES
    overtaken       \* calls a BYE removed while an INVITE of theirs was served

srVars == <<sessions, dialogs, requireSiprec, srPc, srCall, overtaken>>

SrPlaces == {"idle", "inviteAnswer", "inviteStore", "invitePersist", "ack",
             "byePersist", "byeRemove", "cancel"}

SrTypeOK ==
    /\ {sessions, dialogs, overtaken} \subseteq SUBSET Calls
    /\ requireSiprec \in BOOLEAN
    /\ srPc \in [Handlers -> SrPlaces]
    /\ srCall \in [Handlers -> Calls]

SrInit ==
    /\ sessions = {}
    /\ dialogs = {}
    /\ requireSiprec \in BOOLEAN
    /\ srPc = [h \in Handlers |-> "idle"]
    /\ srCall = [h \in Handlers |-> CHOOSE c \in Calls : TRUE]
    /\ overtaken = {}

AtPlace(h, pc) == srPc[h] = pc
SrGoto(h, pc) == srPc' = [srPc EXCEPT ![h] = pc]

-----------------------------------------------------------------------------
(* onInvite *)

\* The body, its SDP and its metadata were parsed; rec says whether there is
\* metadata or the Require header names siprec.  A re-INVITE keeps its session.
OnInvite(h, c, rec) ==
    /\ AtPlace(h, "idle")
    /\ c \in sessions \/ rec \/ ~requireSiprec
    /\ sessions' = sessions \cup {c}
    /\ dialogs' = IF c \in sessions THEN dialogs ELSE dialogs \cup {c}
    /\ srCall' = [srCall EXCEPT ![h] = c]
    /\ SrGoto(h, "inviteAnswer")
    /\ overtaken' = overtaken \ (IF c \in sessions THEN {} ELSE {c})
    /\ UNCHANGED requireSiprec

\* 200 OK; when it cannot be sent the handler returns.
InviteAnswer(h) ==
    /\ AtPlace(h, "inviteAnswer")
    /\ srPc' \in {[srPc EXCEPT ![h] = "inviteStore"], [srPc EXCEPT ![h] = "idle"]}
    /\ UNCHANGED <<sessions, dialogs, requireSiprec, srCall, overtaken>>

\* The dialog is stored whether or not the session is still there.
InviteStore(h) ==
    /\ AtPlace(h, "inviteStore")
    /\ dialogs' = dialogs \cup {srCall[h]}
    /\ SrGoto(h, "invitePersist")
    /\ UNCHANGED <<sessions, requireSiprec, srCall, overtaken>>

InvitePersist(h) ==
    /\ AtPlace(h, "invitePersist")
    /\ SrGoto(h, "idle")
    /\ UNCHANGED <<sessions, dialogs, requireSiprec, srCall, overtaken>>

-----------------------------------------------------------------------------
(* onAck, onCancel, onBye *)

Receive(h, c, pc) ==
    /\ AtPlace(h, "idle")
    /\ srCall' = [srCall EXCEPT ![h] = c]
    /\ SrGoto(h, pc)
    /\ UNCHANGED <<sessions, dialogs, requireSiprec, overtaken>>

OnAck(h, c) == Receive(h, c, "ack")
OnCancel(h, c) == Receive(h, c, "cancel")
OnBye(h, c) == Receive(h, c, "byePersist")

\* One row; a CANCEL is answered and leaves the session where it is.
PersistOne(h) ==
    /\ srPc[h] \in {"ack", "cancel"}
    /\ SrGoto(h, "idle")
    /\ UNCHANGED <<sessions, dialogs, requireSiprec, srCall, overtaken>>

ByePersist(h) ==
    /\ AtPlace(h, "byePersist")
    /\ SrGoto(h, "byeRemove")
    /\ UNCHANGED <<sessions, dialogs, requireSiprec, srCall, overtaken>>

\* Mutant: the dialog goes, the session stays.
ForgetDialog(c) ==
    /\ dialogs' = dialogs \ {c}
    /\ UNCHANGED sessions
\* Mutant: the session goes, the dialog stays.
ForgetSession(c) ==
    /\ sessions' = sessions \ {c}
    /\ UNCHANGED dialogs
Forget(c) ==
    /\ sessions' = sessions \ {c}
    /\ dialogs' = dialogs \ {c}

ByeRemove(h) ==
    /\ AtPlace(h, "byeRemove")
    /\ Forget(srCall[h])
    /\ overtaken' = IF \E g \in Handlers : srPc[g] \in {"inviteAnswer", "inviteStore"}
                                           /\ srCall[g] = srCall[h]
                    THEN overtaken \cup {srCall[h]} ELSE overtaken
    /\ SrGoto(h, "idle")
    /\ UNCHANGED <<requireSiprec, srCall>>

SrNext ==
    \E h \in Handlers :
        \/ \E c \in Calls :
              \/ \E rec \in BOOLEAN : OnInvite(h, c, rec)
              \/ OnAck(h, c) \/ OnCancel(h, c) \/ OnBye(h, c)
        \/ InviteAnswer(h) \/ InviteStore(h) \/ InvitePersist(h)
        \/ PersistOne(h) \/ ByePersist(h) \/ ByeRemove(h)

-----------------------------------------------------------------------------
(* Properties. *)

\* Whenever mu is free, a session has its dialog: onInvite dereferences
\* dialogs[callID] for a session it found, without asking whether it is nil.
SessionHasDialog == sessions \subseteq dialogs

\* A dialog outlives its session only when a BYE was served while an INVITE of
\* the call had not stored its dialog yet: nothing else leaks an entry.
OnlyRacesLeakDialogs == dialogs \ sessions \subseteq overtaken

\* What the SIPREC server's two maps promise each other while its handlers run
\* concurrently.
SiprecSafe ==
    /\ SessionHasDialog
    /\ OnlyRacesLeakDialogs
=============================================================================
