\* malloc and calloc may fail at every allocation
CONSTANTS
  A = A
  B = B
  NULL = NULL
  GARBAGE = GARBAGE
  NOVALUE = NOVALUE
  DBNULL = DBNULL
  Values <- MC_ValuesWide
  Slots <- MC_OneSlot
  BlockIds <- MC_BlockIds
  CHUNK_SIZE = 2
  CHUNKS_INCREMENT = 1
  UINT32_MOD = 16
  MallocCanFail = TRUE

SPECIFICATION Spec

\* a released variable does nothing more
CHECK_DEADLOCK FALSE

INVARIANT MemorySafe
