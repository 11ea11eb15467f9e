----------------------------- MODULE MCServices -----------------------------
(***************************************************************************)
(* The components that keep no state in common, checked in one run: `part' *)
(* is the one whose steps a behaviour takes.                               *)
(***************************************************************************)
EXTENDS LineProto, Siprec, Accounts, Settings, RemoteLog, StreamFan, Registry,
        TableRouting, HepRow, LakeSetup

VARIABLE part

Parts == {"lineproto", "siprec", "accounts", "settings", "remotelog", "streamfan", "registry", "routing", "heprow", "lakesetup"}

\* The default password, with the OAuth2 login over, or a login still to come.
AccountsInit ==
    \/ AcInitFrom("own", "none")
    \/ part = "accounts" /\ AcInitFrom("default", "done")

\* The process restarts where a request may name one table; where it may name
\* several, the caches of each being apart, it does not.
LineProtoInit ==
    \/ hepLines = "structured" /\ lpRestarts = 0
    \/ hepLines = "prefixed" /\ lpRestarts = MaxRestarts /\ part = "lineproto"

\* A part that does not run starts in one of its initial states.
PartInit ==
    /\ part \in Parts
    /\ LpInit /\ LineProtoInit
    /\ SrInit /\ (part # "siprec" => requireSiprec)
    /\ AccountsInit
    /\ StInit /\ (part # "settings" => topic = "alias")
    /\ RlInit /\ (part # "remotelog" => rlKind = "loki")
    /\ SfInit /\ (part # "streamfan" => sfLocal /\ sfLog = [s \in SfSources |-> 0])
    /\ RgInit
    /\ TrInit /\ (part # "routing" => trQueue /\ trTables = TrKeys \cap TrKnown)
    /\ HrInit
    /\ IF part = "heprow"
       THEN hrDedup = (hrImport = "never") /\ (hrImport = "never" => hrForced = HrNone)
       ELSE hrDedup /\ hrImport = "never" /\ hrForced = HrNone
    /\ LsInit /\ (part # "lakesetup" => lsShards = 1 /\ ~lsTiered /\ lsFiles = {})

\* A part that does not run keeps its state.
Idle(p, v) == IF part = p THEN TRUE ELSE UNCHANGED v

PartNext ==
    /\ \/ part = "lineproto" /\ LpNext
       \/ part = "siprec" /\ SrNext
       \/ part = "accounts" /\ AcNext
       \/ part = "settings" /\ StNext
       \/ part = "remotelog" /\ RlNext
       \/ part = "streamfan" /\ SfStep
       \/ part = "registry" /\ RgNext
       \/ part = "routing" /\ TrNext
       \/ part = "heprow" /\ HrNext
       \/ part = "lakesetup" /\ LsNext
    /\ Idle("lineproto", lpVars)
    /\ Idle("siprec", srVars)
    /\ Idle("accounts", acVars)
    /\ Idle("settings", stVars)
    /\ Idle("remotelog", rlVars)
    /\ Idle("streamfan", sfVars)
    /\ Idle("registry", rgVars)
    /\ Idle("routing", trVars)
    /\ Idle("heprow", hrVars)
    /\ Idle("lakesetup", lsVars)
    /\ UNCHANGED part

PartSpec == PartInit /\ [][PartNext]_<<part, lpVars, srVars, acVars, stVars, rlVars, sfVars, rgVars, trVars, hrVars, lsVars>>

-----------------------------------------------------------------------------
(* An INVITE's answer and a message the parser refuses; a capture of two days. *)

MCHrContents == [ok |-> "answer", no |-> "bad"]

MCHrFile == {[content |-> "ok", ts |-> 3], [content |-> "ok", ts |-> 7],
             [content |-> "no", ts |-> 7]}

-----------------------------------------------------------------------------
(* Properties.  A part is looked at where it runs: elsewhere it is in an initial *)
(* state of its own. *)

Of(p, safe) == part = p => safe

\* From a packet to a row of the lake: decode, duplicate check, partition date and
\* import (HepRowSafe), then the table and its TableWriter (TableRoutingSafe).
IngestRowsSafe == Of("heprow", HepRowSafe) /\ Of("routing", TableRoutingSafe)

\* What the receivers that are not HEP promise: a request of line protocol that is
\* answered with success has its points in the lake (LineProtoSafe), and a SIPREC
\* session ends with its dialog (SiprecSafe).
ReceiversSafe == Of("lineproto", LineProtoSafe) /\ Of("siprec", SiprecSafe)

\* What is passed on to others is passed on once and whole: packets to the remote
\* log (RemoteLogSafe), events of the nodes to a coordinator's client (StreamFanSafe).
DeliverySafe == Of("remotelog", RemoteLogSafe) /\ Of("streamfan", StreamFanSafe)

\* The coordinator's settings database: accounts and sessions (AccountsSafe), the
\* objects users edit (SettingsSafe), the agents that register (RegistrySafe).
SettingsDBSafe == Of("accounts", AccountsSafe) /\ Of("settings", SettingsSafe) /\ Of("registry", RegistrySafe)

\* The storage under the writer: no process has another's catalog, and a start that
\* fails half way leaves nothing behind (LakeSetupSafe).
StorageSafe == Of("lakesetup", LakeSetupSafe)
=============================================================================
