--------------------------- MODULE MCLogRegistry ---------------------------
EXTENDS LogRegistry
=============================================================================
