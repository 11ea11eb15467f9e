---------------------------- MODULE MCCompactor ----------------------------
EXTENDS Compactor
=============================================================================
