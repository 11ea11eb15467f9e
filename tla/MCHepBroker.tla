----------------------------- MODULE MCHepBroker -----------------------------
(***************************************************************************)
(* HepBroker on small instances: events and goroutines are model values.   *)
(***************************************************************************)
EXTENDS HepBroker, TLC

\* Publishers and clients are interchangeable; events are not (Filters).
Symmetry == Permutations(Publishers) \cup Permutations(Subs)
===============================================================================
