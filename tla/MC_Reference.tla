---------------------------- MODULE MC_Reference ----------------------------
EXTENDS Reference
MC_Handles == 1 .. 5
MC_Handles4 == 1 .. 4
=============================================================================
