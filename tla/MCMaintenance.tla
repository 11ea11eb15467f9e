---------------------------- MODULE MCMaintenance ----------------------------
(***************************************************************************)
(* The two services that rewrite the lake, compaction and tiering, in one  *)
(* run: they keep no state in common in these modules, and `service' is    *)
(* the one whose steps a behaviour takes.  The bound on poison is this     *)
(* instance's: one engine's merge of one table is fatal, on an instance of *)
(* compaction's own (a shared one is not opened again in any case).        *)
(***************************************************************************)
EXTENDS TierMove, CompactionService

VARIABLE service

ServiceInit ==
    /\ service \in {"tiering", "compaction"}
    /\ Init
    /\ CsInit /\ (service # "compaction" => ~enabled)
    /\ Cardinality(poison) <= 1 /\ (poison # {} => isolated)

ServiceNext ==
    \/ service = "tiering" /\ Next /\ UNCHANGED <<service, csVars>>
    \/ service = "compaction" /\ CsNext /\ UNCHANGED <<service, vars>>

\* The fairness of TierMove and of CompactionService, for the one that runs.
ServiceFairness ==
    /\ WF_vars(service = "tiering" /\ Cycle)
    /\ \A g \in Goroutines : WF_csVars(service = "compaction" /\ Goroutine(g))
    /\ WF_csVars(service = "compaction" /\ StopReturns)

ServiceSpec == ServiceInit /\ [][ServiceNext]_<<service, vars, csVars>> /\ ServiceFairness
=============================================================================
