\* A two-slot variable of the cursor or the object type, and five handle
\* identities; calloc, malloc, dpiStmt__allocate, OCIHandleAlloc and
\* dpiObject__allocate may fail.  The LOB, BFILE and rowid shape (Kind "LOB")
\* fails only at the handle allocation and has no getValue step, so its
\* behaviours are a subset of the cursor's.
CONSTANTS
  N = 2
  Handles <- MC_Handles4
  Kinds = {"STMT", "OBJECT"}
  AllocCanFail = TRUE
  MaxCount = 1
  NULL = NULL
  NullInstance = NullInstance
  ValueInstance = ValueInstance
SPECIFICATION Spec
INVARIANTS TypeOK CountMatchesHolders ExternalIsReference NativeIsHeld NoStaleHandleUse
PROPERTIES Refinement
\* a freed variable takes no further step, and the pool of handle identities is finite
CHECK_DEADLOCK FALSE
