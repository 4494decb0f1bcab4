\* malloc, calloc and the LOB steps of the conversion may fail at every
\* allocation; the variable is used for binds or fetches, then converted.
CONSTANTS
  A = A
  B = B
  NULL = NULL
  GARBAGE = GARBAGE
  NOVALUE = NOVALUE
  DBNULL = DBNULL
  NOLOB = NOLOB
  Values <- MC_ValuesWide
  Slots <- MC_OneSlot
  BlockIds <- MC_BlockIds
  CHUNK_SIZE = 2
  CHUNKS_INCREMENT = 1
  UINT32_MOD = 16
  MallocCanFail = TRUE
  Roles = {"bind", "define"}

SPECIFICATION SpecToLob

\* a released variable does nothing more
CHECK_DEADLOCK FALSE

INVARIANTS
  ChunkOwnership
  NoLeak
