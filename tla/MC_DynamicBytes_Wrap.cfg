\* uint32_t scaled to 2 bits with the 2-byte chunk: a 3-byte value is within
\* CHUNK_SIZE of the modulus, as a value of more than 2^32 - 2^16 bytes is
\* for the real chunk size; malloc never fails.
CONSTANTS
  A = A
  B = B
  NULL = NULL
  GARBAGE = GARBAGE
  NOVALUE = NOVALUE
  DBNULL = DBNULL
  Values <- MC_ValuesWide
  Slots <- MC_OneSlot
  BlockIds <- MC_BlockIds
  CHUNK_SIZE = 2
  CHUNKS_INCREMENT = 1
  UINT32_MOD = 4
  MallocCanFail = FALSE
SPECIFICATION Spec
\* a released variable does nothing more
CHECK_DEADLOCK FALSE
INVARIANT MemorySafe
