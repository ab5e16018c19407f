--------------------------- MODULE MCShrtimEvents ---------------------------
EXTENDS ShrtimEvents
=============================================================================
