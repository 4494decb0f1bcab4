------------------------------- MODULE MC_ToLob -------------------------------
EXTENDS ToLob

CONSTANTS A, B   \* two byte values

\* With CHUNK_SIZE 2: the empty value, and one that needs a chunk of 4 when
\* set and arrives in two pieces when fetched (consolidated into a chunk of
\* 4, later reused).
MC_Values == {<<>>, <<B, A, B>>}
MC_TwoSlots == 0 .. 1
\* One slot and values of every length up to 3, for the runs where malloc and
\* the LOB steps may fail.
MC_ValuesWide == {<<>>, <<A>>, <<A, B>>, <<B, A, B>>}
MC_OneSlot == 0 .. 0
MC_BlockIds == 1 .. 6
=============================================================================
