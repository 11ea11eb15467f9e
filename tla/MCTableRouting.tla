--------------------------- MODULE MCTableRouting ---------------------------
EXTENDS TableRouting
=============================================================================
