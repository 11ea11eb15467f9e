---------------------------- MODULE MCTableWriter ----------------------------
(***************************************************************************)
(* TableWriter on small instances: rows and workers are model values.      *)
(***************************************************************************)
EXTENDS TableWriter, TLC

\* Rows and workers are interchangeable: no definition orders or names them.
Symmetry == Permutations(Rows) \cup Permutations(Writers)
===============================================================================
