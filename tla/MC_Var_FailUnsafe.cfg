CONSTANTS
  A = A
  B = B
  NULL = NULL
  GARBAGE = GARBAGE
  DBNULL = DBNULL
  Values <- MC_Values
  BlockIds <- MC_BlockIds
  NewSizes <- MC_NoResize
  RowCounts <- MC_RowCounts
  ArraySize = 1
  Size = 2
  MaxRefs = 2
  MallocCanFail = TRUE

SPECIFICATION Spec

\* a freed variable takes no further step
CHECK_DEADLOCK FALSE

INVARIANTS
  MemorySafe
