\* A two-slot long variable used for binds or for multi-piece fetches, and
\* converted to a LOB at any point; malloc never fails.
CONSTANTS
  A = A
  B = B
  NULL = NULL
  GARBAGE = GARBAGE
  NOVALUE = NOVALUE
  DBNULL = DBNULL
  NOLOB = NOLOB
  Values <- MC_Values
  Slots <- MC_TwoSlots
  BlockIds <- MC_BlockIds
  CHUNK_SIZE = 2
  CHUNKS_INCREMENT = 1
  UINT32_MOD = 16
  MallocCanFail = FALSE
  Roles = {"bind", "define"}

SPECIFICATION SpecToLob

\* a released variable does nothing more
CHECK_DEADLOCK FALSE

INVARIANTS
  TypeOK
  ChunkOwnership
  NoLeak
  ReadReturnsStoredValue
  MemorySafe
  LobHoldsBoundValue
