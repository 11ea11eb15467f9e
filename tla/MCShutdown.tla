----------------------------- MODULE MCShutdown -----------------------------
(***************************************************************************)
(* The process and its receivers, for TLC.                                 *)
(***************************************************************************)
EXTENDS Shutdown
=============================================================================
