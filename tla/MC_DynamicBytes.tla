--------------------------- MODULE MC_DynamicBytes ---------------------------
EXTENDS DynamicBytes

CONSTANTS A, B   \* two byte values

\* With CHUNK_SIZE 2: values that fit a fresh chunk, and one of 3 bytes that
\* needs a chunk of 4 (or, fetched, two pieces).  The two-slot instance with
\* conversion to a LOB is MC_ToLob.
MC_ValuesWide == {<<>>, <<A>>, <<A, B>>, <<B, A, B>>}
MC_OneSlot == 0 .. 0
MC_BlockIds == 1 .. 6
=============================================================================
