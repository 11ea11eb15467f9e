------------------------------- MODULE MCIngest -------------------------------
(***************************************************************************)
(* Ingest on small instances: packets and goroutines are model values.     *)
(***************************************************************************)
EXTENDS Ingest, TLC

\* No definition orders or names the members of these sets.
Symmetry == Permutations(JoinedPackets) \cup Permutations(UdpPackets)
              \cup Permutations(Conns) \cup Permutations(Workers)
===============================================================================
