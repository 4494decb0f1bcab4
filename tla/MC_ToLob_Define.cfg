\* A two-slot long define variable converted to a LOB after a fetch.
CONSTANTS
  A = A
  B = B
  NULL = NULL
  GARBAGE = GARBAGE
  NOVALUE = NOVALUE
  DBNULL = DBNULL
  NOLOB = NOLOB
  Values <- MC_Values
  Slots <- MC_TwoSlots
  BlockIds <- MC_BlockIds
  CHUNK_SIZE = 2
  CHUNKS_INCREMENT = 1
  UINT32_MOD = 16
  MallocCanFail = FALSE
  Roles = {"define"}

SPECIFICATION SpecToLob

\* a released variable does nothing more
CHECK_DEADLOCK FALSE

INVARIANT LobHoldsValue
