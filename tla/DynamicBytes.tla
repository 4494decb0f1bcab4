---------------------------- MODULE DynamicBytes ----------------------------
(***************************************************************************)
(* The chunked storage of a dynamic variable (dpiVar.c): a variable whose  *)
(* element size exceeds DPI_MAX_BASIC_BUFFER_SIZE keeps, per array slot, a *)
(* dpiDynamicBytes: an array of chunks, numChunks of them valid.           *)
(*                                                                         *)
(* The heap is modelled: mem maps every live block to its bytes, so a leak *)
(* is a live block no chunk owns, a dangling pointer is a chunk pointing   *)
(* at a block that is not live, and memcpy/OCI accesses through NULL or    *)
(* past the end of a block are recorded in faults.                         *)
(*                                                                         *)
(* The environment is the statement layer and OCI: a fetch (PreFetch, then *)
(* OCI calling the define callback once per piece of each row), binds      *)
(* (SetValue, then OCI calling the in-bind callback), the setters and      *)
(* getters, and the final release of the variable.                         *)
(***************************************************************************)
EXTENDS Heap, SequencesExt, Functions

CONSTANTS
  Slots,            \* array positions 0 .. maxArraySize-1
  Values,           \* byte strings the caller or OCI may supply (Seq(Byte))
  CHUNK_SIZE,       \* DPI_DYNAMIC_BYTES_CHUNK_SIZE, scaled down (power of 2)
  CHUNKS_INCREMENT, \* the 8 chunks dpiVar__allocateChunks adds, scaled down
  UINT32_MOD,       \* 2^32, scaled down with CHUNK_SIZE: uint32_t lengths wrap
  NOVALUE, DBNULL   \* ghost: no readable value in the slot; a NULL column

ASSUME CHUNK_SIZE \in Nat \ {0} /\ CHUNKS_INCREMENT \in Nat \ {0}
       /\ UINT32_MOD \in Nat /\ UINT32_MOD % CHUNK_SIZE = 0

VARIABLES
  mem,           \* live heap blocks: DOMAIN mem, each a sequence of bytes
  dynamicBytes,  \* var->dynamicBytes[pos]: [numChunks, chunks]
  indicator,     \* var->indicator[pos]
  externalData,  \* var->externalData[pos]: isNull and value.asBytes
  fetch,         \* OCI's progress through a fetch (environment)
  want,          \* ghost: the value last stored in or fetched into a slot
  readable,      \* ghost: the statement may read the slot (bound or fetched)
  read,          \* ghost: the result of the last successful getValue
  faults,        \* memory-safety faults that have happened
  freed,         \* the variable has been released
  role           \* how the statement uses the variable: "bind" or "define"

vars == <<mem, dynamicBytes, indicator, externalData, fetch, want, readable,
          read, faults, freed, role>>

Chunk == [ptr: BlockIds \cup {NULL}, length: Nat, allocatedLength: Nat]
EmptyChunk == [ptr |-> NULL, length |-> 0, allocatedLength |-> 0]
allocatedChunks(d) == Len(d.chunks)
\* the blocks the chunk array of d points at
Owned(d) == {d.chunks[j].ptr : j \in 1 .. allocatedChunks(d)} \ {NULL}

(***************************************************************************)
(* dpiVar__allocateChunks: grow the chunk array by CHUNKS_INCREMENT,       *)
(* keeping the first numChunks entries; calloc may fail.                   *)
(***************************************************************************)
Grown(d) ==
  [d EXCEPT !.chunks = [i \in 1 .. allocatedChunks(d) + CHUNKS_INCREMENT |->
                          IF i <= d.numChunks THEN d.chunks[i] ELSE EmptyChunk]]
AllocateChunks(d) ==
  {[ok |-> TRUE, d |-> Grown(d)]}
  \cup (IF MallocCanFail THEN {[ok |-> FALSE, d |-> d]} ELSE {})

\* Faulty variant: rounds the reservation down instead of up.
RoundDown(size) == (size \div CHUNK_SIZE) * CHUNK_SIZE

\* (size + CHUNK_SIZE - 1) & ~(CHUNK_SIZE - 1) in uint32_t: wraps to a small
\* reserve for a size within CHUNK_SIZE of 2^32
RoundUp(size) == (((size + CHUNK_SIZE - 1) % UINT32_MOD) \div CHUNK_SIZE) * CHUNK_SIZE

\* Faulty variants of ReallocFirstChunk: the first keeps the old (freed)
\* pointer when malloc fails, the second never frees the old block.
ReallocFirstChunkKeepOnFail(d, m, size) ==
  LET c == d.chunks[1] IN
  {[ok |-> r.ptr # NULL, mem |-> r.mem,
    d  |-> [d EXCEPT !.chunks[1].ptr = IF r.ptr = NULL THEN c.ptr ELSE r.ptr,
                     !.chunks[1].allocatedLength = RoundUp(size)]]
   : r \in Malloc(IF c.ptr = NULL THEN m ELSE Free(m, c.ptr), RoundUp(size))}
ReallocFirstChunkNoFree(d, m, size) ==
  {[ok |-> r.ptr # NULL, mem |-> r.mem,
    d  |-> [d EXCEPT !.chunks[1].ptr = r.ptr,
                     !.chunks[1].allocatedLength = RoundUp(size)]]
   : r \in Malloc(m, RoundUp(size))}

\* Free the first chunk's block and malloc one of size rounded up; the new
\* allocatedLength is stored whether or not malloc succeeded.
ReallocFirstChunk(d, m, size) ==
  LET c == d.chunks[1] IN
  {[ok |-> r.ptr # NULL, mem |-> r.mem,
    d  |-> [d EXCEPT !.chunks[1].ptr = r.ptr,
                     !.chunks[1].allocatedLength = RoundUp(size)]]
   : r \in Malloc(IF c.ptr = NULL THEN m ELSE Free(m, c.ptr), RoundUp(size))}

(***************************************************************************)
(* dpiVar__allocateDynamicBytes: the outcomes of making chunks[0] hold     *)
(* size bytes.  numChunks is zeroed first and the chunk array created if   *)
(* there is none; a too small first chunk is reallocated.                  *)
(***************************************************************************)
AllocateDynamicBytes(d, m, size) ==
  LET d0    == [d EXCEPT !.numChunks = 0]
      first == IF allocatedChunks(d0) = 0 THEN AllocateChunks(d0)
               ELSE {[ok |-> TRUE, d |-> d0]}
  IN  UNION {IF ~s.ok THEN {[ok |-> FALSE, d |-> s.d, mem |-> m]}
             ELSE IF size > s.d.chunks[1].allocatedLength
                  THEN ReallocFirstChunk(s.d, m, size)
             ELSE {[ok |-> TRUE, d |-> s.d, mem |-> m]}
             : s \in first}

\* Faulty variant: sizes the consolidated block by the first chunk only.
FirstChunkSize(d) ==
  IF d.numChunks = 0 THEN 0 ELSE d.chunks[1].allocatedLength

\* totalAllocatedLength: the summed reserves of the valid chunks, a uint32_t
ConsolidatedSize(d) ==
  SumFunction([i \in 1 .. d.numChunks |-> d.chunks[i].allocatedLength]) % UINT32_MOD

\* Faulty variant: copies each chunk's whole reserve, not its length.
PiecesWhole(d, m) ==
  [i \in 1 .. d.numChunks |-> Content(m, d.chunks[i].ptr, 0,
                                      d.chunks[i].allocatedLength)]

\* the valid bytes of each valid chunk, in order
Pieces(d, m) ==
  [i \in 1 .. d.numChunks |-> Content(m, d.chunks[i].ptr, 0,
                                      d.chunks[i].length)]

\* Faulty variant: frees none of the consolidated chunks.
NoBlocks(d) == {}

\* the blocks of the valid chunks, each freed once consolidated
ValidBlocks(d) == {d.chunks[i].ptr : i \in 1 .. d.numChunks} \ {NULL}

\* Faulty variant: resets only the first chunk.
ClearFirst(d) ==
  [i \in 1 .. allocatedChunks(d) |-> IF i = 1 THEN EmptyChunk ELSE d.chunks[i]]

\* every valid chunk reset to no pointer, no length, no reserve
ClearValid(d) ==
  [i \in 1 .. allocatedChunks(d) |->
     IF i <= d.numChunks THEN EmptyChunk ELSE d.chunks[i]]

(***************************************************************************)
(* dpiVar__setBytesFromDynamicBytes with more than one chunk (or none),    *)
(* given the new block b of ConsolidatedSize(d) bytes: copy the pieces     *)
(* into b, free the chunks, make b chunks[0].  With no chunk array at all  *)
(* the final store to chunks[0] goes through NULL.                         *)
(***************************************************************************)
Consolidate(d, m, b) ==
  LET bytes == FlattenSeq(Pieces(d, m)) IN
  [bytes  |-> bytes,
   mem    |-> FreeAll(Memcpy(m, b, 0, bytes), ValidBlocks(d)),
   faults |-> UNION {ReadFaults(m, d.chunks[i].ptr, 0, d.chunks[i].length)
                     : i \in 1 .. d.numChunks}
              \cup WriteFaults(m, b, 0, Len(bytes))
              \cup (IF allocatedChunks(d) = 0 THEN {"null_write"} ELSE {}),
   d      |-> IF allocatedChunks(d) = 0 THEN d
              ELSE [numChunks |-> 1,
                    chunks    |-> [ClearValid(d) EXCEPT ![1] =
                                     [ptr |-> b, length |-> Len(bytes),
                                      allocatedLength |-> ConsolidatedSize(d)]]]]

-----------------------------------------------------------------------------
Init ==
  /\ mem = [b \in {} |-> <<>>]
  /\ dynamicBytes = [p \in Slots |-> [numChunks |-> 0, chunks |-> <<>>]]
  /\ indicator = [p \in Slots |-> "null"]
  /\ externalData = [p \in Slots |-> [isNull |-> TRUE, ptr |-> NULL,
                                      length |-> 0]]
  /\ fetch = [active |-> FALSE, row |-> 0, value |-> NOVALUE, rest |-> NOVALUE]
  /\ want = [p \in Slots |-> DBNULL]
  /\ readable = [p \in Slots |-> FALSE]
  /\ read = NULL
  /\ faults = {}
  /\ freed = FALSE
  /\ role \in {"bind", "define"}

Idle == ~freed /\ ~fetch.active

\* The setters and the in-bind callback are used on bind variables only,
\* PreFetch and the define callback on define variables only.
Bind   == role = "bind"
Define == role = "define"

(***************************************************************************)
(* dpiVar_setFromBytes on a dynamic variable (dpiVar__setFromBytes): the   *)
(* slot is marked not null before the space is allocated, then the value   *)
(* is copied into chunks[0].                                               *)
(***************************************************************************)
SetFromBytes(p, v) ==
  /\ Idle /\ Bind
  /\ \E o \in AllocateDynamicBytes(dynamicBytes[p], mem, Len(v)) :
       \/ /\ ~o.ok
          /\ dynamicBytes' = [dynamicBytes EXCEPT ![p] = o.d]
          /\ mem' = o.mem
          /\ externalData' = [externalData EXCEPT ![p].isNull = FALSE]
          /\ want' = [want EXCEPT ![p] = NOVALUE]
          /\ UNCHANGED faults
       \/ /\ o.ok
          /\ LET c == o.d.chunks[1] IN
             /\ dynamicBytes' = [dynamicBytes EXCEPT ![p] =
                                   [o.d EXCEPT !.numChunks = 1,
                                               !.chunks[1].length = Len(v)]]
             /\ mem' = Memcpy(o.mem, c.ptr, 0, v)
             /\ faults' = faults \cup WriteFaults(o.mem, c.ptr, 0, Len(v))
             /\ externalData' = [externalData EXCEPT ![p] =
                                   [isNull |-> FALSE, ptr |-> c.ptr,
                                    length |-> Len(v)]]
          /\ want' = [want EXCEPT ![p] = v]
  /\ readable' = [readable EXCEPT ![p] = FALSE]
  /\ UNCHANGED <<indicator, fetch, read, freed, role>>

(***************************************************************************)
(* dpiVar__setValue for a byte string, as the statement calls it from the  *)
(* variable's externalData before an execute: only the indicator changes  *)
(* (a dynamic variable has no return code array).                         *)
(***************************************************************************)
SetValue(p) ==
  /\ Idle /\ Bind
  /\ indicator' = [indicator EXCEPT ![p] =
                     IF externalData[p].isNull THEN "null" ELSE "notnull"]
  /\ readable' = [readable EXCEPT ![p] = TRUE]
  /\ UNCHANGED <<mem, dynamicBytes, externalData, fetch, want, read, faults,
                 freed, role>>

(***************************************************************************)
(* dpiVar__inBindCallback on a dynamic variable: OCI is handed chunks[0]   *)
(* (or NULL and 0 when no chunk array exists) and reads that many bytes    *)
(* when the indicator says not null.                                       *)
(***************************************************************************)
InBindCallback(p) ==
  /\ Idle /\ Bind
  /\ LET d   == dynamicBytes[p]
         buf == IF allocatedChunks(d) = 0 THEN NULL ELSE d.chunks[1].ptr
         len == IF allocatedChunks(d) = 0 THEN 0 ELSE d.chunks[1].length
     IN  faults' = faults \cup IF indicator[p] = "notnull"
                               THEN ReadFaults(mem, buf, 0, len) ELSE {}
  /\ UNCHANGED <<mem, dynamicBytes, indicator, externalData, fetch, want,
                 readable, read, freed, role>>

(***************************************************************************)
(* dpiVar__getValue of a byte string from a dynamic variable: the null     *)
(* check, then dpiVar__setBytesFromDynamicBytes, which exposes a single    *)
(* chunk directly and otherwise consolidates into a new block (whose       *)
(* pointer is stored in the caller's dpiBytes before malloc is checked).   *)
(* The statement reads only rows that hold a value.                        *)
(***************************************************************************)
GetValue(p) ==
  /\ Idle
  /\ readable[p] /\ want[p] # NOVALUE
  /\ LET d == dynamicBytes[p] IN
     \/ /\ indicator[p] = "null"
        /\ externalData' = [externalData EXCEPT ![p].isNull = TRUE]
        /\ read' = [pos |-> p, bytes |-> DBNULL, want |-> want[p]]
        /\ UNCHANGED <<mem, dynamicBytes, faults>>
     \/ /\ indicator[p] = "notnull"
        /\ d.numChunks = 1
        /\ externalData' = [externalData EXCEPT ![p] =
                              [isNull |-> FALSE, ptr |-> d.chunks[1].ptr,
                               length |-> d.chunks[1].length]]
        /\ read' = [pos |-> p, want |-> want[p],
                    bytes |-> Content(mem, d.chunks[1].ptr, 0,
                                     d.chunks[1].length)]
        /\ UNCHANGED <<mem, dynamicBytes, faults>>
     \/ /\ indicator[p] = "notnull"
        /\ d.numChunks # 1
        /\ \E r \in Malloc(mem, ConsolidatedSize(d)) :
             \/ /\ r.ptr = NULL
                /\ externalData' = [externalData EXCEPT ![p].isNull = FALSE,
                                                        ![p].ptr = NULL]
                /\ UNCHANGED <<mem, dynamicBytes, faults, read>>
             \/ /\ r.ptr # NULL
                /\ LET k == Consolidate(d, r.mem, r.ptr) IN
                   /\ mem' = k.mem
                   /\ dynamicBytes' = [dynamicBytes EXCEPT ![p] = k.d]
                   /\ faults' = faults \cup k.faults
                   /\ externalData' = [externalData EXCEPT ![p] =
                                         [isNull |-> FALSE, ptr |-> r.ptr,
                                          length |-> Len(k.bytes)]]
                   /\ read' = [pos |-> p, want |-> want[p],
                               bytes |-> Content(k.mem, r.ptr, 0, Len(k.bytes))]
  /\ UNCHANGED <<indicator, fetch, want, readable, freed, role>>

(***************************************************************************)
(* dpiVar__extendedPreFetch on a dynamic variable, which the statement     *)
(* calls before every fetch: every slot's numChunks is reset.  The fetch   *)
(* that follows is OCI's (below); no earlier value is readable any more.   *)
(***************************************************************************)
PreFetch ==
  /\ Idle /\ Define
  /\ dynamicBytes' = [p \in Slots |-> [dynamicBytes[p] EXCEPT !.numChunks = 0]]
  /\ fetch' = [active |-> TRUE, row |-> 0, value |-> NOVALUE, rest |-> NOVALUE]
  /\ want' = [p \in Slots |-> NOVALUE]
  /\ readable' = [p \in Slots |-> FALSE]
  /\ UNCHANGED <<mem, indicator, externalData, read, faults, freed, role>>

\* OCI delivers a NULL column for the next row: only its indicator is set.
OciNullRow ==
  /\ fetch.active /\ fetch.rest = NOVALUE /\ fetch.row \in Slots
  /\ indicator' = [indicator EXCEPT ![fetch.row] = "null"]
  /\ want' = [want EXCEPT ![fetch.row] = DBNULL]
  /\ readable' = [readable EXCEPT ![fetch.row] = TRUE]
  /\ fetch' = [fetch EXCEPT !.row = @ + 1]
  /\ UNCHANGED <<mem, dynamicBytes, externalData, read, faults, freed, role>>

\* OCI starts delivering value v for the next row, piece by piece.
OciBeginRow(v) ==
  /\ fetch.active /\ fetch.rest = NOVALUE /\ fetch.row \in Slots
  /\ fetch' = [fetch EXCEPT !.value = v, !.rest = v]
  /\ UNCHANGED <<mem, dynamicBytes, indicator, externalData, want, readable,
                 read, faults, freed, role>>

\* OCI stops after some number of rows.
OciEndFetch ==
  /\ fetch.active /\ fetch.rest = NOVALUE
  /\ fetch' = [fetch EXCEPT !.active = FALSE]
  /\ UNCHANGED <<mem, dynamicBytes, indicator, externalData, want, readable,
                 read, faults, freed, role>>

\* A callback error makes OCI fail the whole fetch.
AbortFetch ==
  /\ fetch' = [active |-> FALSE, row |-> 0, value |-> NOVALUE, rest |-> NOVALUE]
  /\ want' = [p \in Slots |-> NOVALUE]
  /\ readable' = [p \in Slots |-> FALSE]

(***************************************************************************)
(* dpiVar__defineCallback, with OCI's use of the buffer it returns: grow   *)
(* the chunk array when every chunk is in use, give the next chunk a       *)
(* CHUNK_SIZE block if it has none (its allocatedLength is set before      *)
(* malloc is checked), count it, and hand it to OCI, which writes the next *)
(* piece of the row's value and its length, and the indicator once the     *)
(* value is complete.  A failure makes OCI abort the fetch.                *)
(***************************************************************************)
DefineCallback ==
  /\ fetch.active /\ fetch.rest # NOVALUE
  /\ LET iter  == fetch.row
         d     == dynamicBytes[iter]
         grown == IF d.numChunks = allocatedChunks(d) THEN AllocateChunks(d)
                  ELSE {[ok |-> TRUE, d |-> d]}
     IN  \E g \in grown :
         \/ /\ ~g.ok
            /\ AbortFetch
            /\ UNCHANGED <<mem, dynamicBytes, indicator>>
         \/ /\ g.ok
            /\ LET idx  == g.d.numChunks + 1
                   c    == g.d.chunks[idx]
                   outs == IF c.ptr = NULL
                           THEN {[ptr |-> r.ptr, mem |-> r.mem,
                                  alloc |-> CHUNK_SIZE]
                                 : r \in Malloc(mem, CHUNK_SIZE)}
                           ELSE {[ptr |-> c.ptr, mem |-> mem,
                                  alloc |-> c.allocatedLength]}
               IN  \E o \in outs :
                   LET d1 == [g.d EXCEPT !.chunks[idx].ptr = o.ptr,
                                         !.chunks[idx].allocatedLength = o.alloc]
                       n     == IF Len(fetch.rest) < o.alloc
                                THEN Len(fetch.rest) ELSE o.alloc
                       piece == SubSeq(fetch.rest, 1, n)
                       left  == SubSeq(fetch.rest, n + 1, Len(fetch.rest))
                   IN
                   \/ /\ o.ptr = NULL
                      /\ dynamicBytes' = [dynamicBytes EXCEPT ![iter] = d1]
                      /\ mem' = o.mem
                      /\ AbortFetch
                      /\ UNCHANGED indicator
                   \/ /\ o.ptr # NULL
                      /\ dynamicBytes' = [dynamicBytes EXCEPT ![iter] =
                                            [d1 EXCEPT !.numChunks = @ + 1,
                                                       !.chunks[idx].length = n]]
                      /\ mem' = Memcpy(o.mem, o.ptr, 0, piece)
                      /\ \/ /\ left # <<>>
                            /\ fetch' = [fetch EXCEPT !.rest = left]
                            /\ UNCHANGED <<indicator, want, readable>>
                         \/ /\ left = <<>>
                            /\ indicator' = [indicator EXCEPT ![iter] = "notnull"]
                            /\ want' = [want EXCEPT ![iter] = fetch.value]
                            /\ readable' = [readable EXCEPT ![iter] = TRUE]
                            /\ fetch' = [fetch EXCEPT !.row = @ + 1,
                                                      !.value = NOVALUE,
                                                      !.rest = NOVALUE]
  /\ UNCHANGED <<externalData, read, faults, freed, role>>

(***************************************************************************)
(* dpiVar_release of the last reference: dpiVar__free and the dynamic part *)
(* of dpiVar__finalizeBuffers free every chunk of every slot (all          *)
(* allocatedChunks of them, not only the valid ones) and the arrays.       *)
(***************************************************************************)
Release ==
  /\ Idle
  /\ LET olds == UNION {Owned(dynamicBytes[p]) : p \in Slots} IN
     /\ mem' = FreeAll(mem, olds)
     /\ faults' = faults \cup IF olds \subseteq DOMAIN mem THEN {}
                              ELSE {"double_free"}
  /\ dynamicBytes' = [p \in Slots |-> [numChunks |-> 0, chunks |-> <<>>]]
  /\ freed' = TRUE
  /\ UNCHANGED <<indicator, externalData, fetch, want, readable, read, role>>

Next ==
  \/ \E p \in Slots, v \in Values : SetFromBytes(p, v)
  \/ \E p \in Slots : SetValue(p) \/ InBindCallback(p) \/ GetValue(p)
  \/ PreFetch
  \/ OciNullRow \/ OciEndFetch \/ DefineCallback
  \/ \E v \in Values : OciBeginRow(v)
  \/ Release

Spec == Init /\ [][Next]_vars

-----------------------------------------------------------------------------
TypeOK ==
  /\ DOMAIN mem \subseteq BlockIds
  /\ dynamicBytes \in [Slots -> [numChunks: Nat, chunks: Seq(Chunk)]]
  /\ \A p \in Slots : dynamicBytes[p].numChunks <= allocatedChunks(dynamicBytes[p])
  /\ \A p \in Slots : \A j \in 1 .. allocatedChunks(dynamicBytes[p]) :
       dynamicBytes[p].chunks[j].length <= dynamicBytes[p].chunks[j].allocatedLength
  /\ indicator \in [Slots -> {"null", "notnull"}]
  /\ externalData \in [Slots -> [isNull: BOOLEAN, ptr: BlockIds \cup {NULL},
                                 length: Nat]]
  /\ fetch.row \in 0 .. Cardinality(Slots)
  /\ freed \in BOOLEAN

(***************************************************************************)
(* Every chunk pointer of every slot is a live block, and no block is      *)
(* pointed at by two chunks: what dpiVar__finalizeBuffers frees, chunk by  *)
(* chunk, is freed exactly once.  Consolidation, the define callback and   *)
(* allocateDynamicBytes each free and replace chunk pointers.              *)
(***************************************************************************)
ChunkOwnership ==
  /\ \A p \in Slots : Owned(dynamicBytes[p]) \subseteq DOMAIN mem
  /\ \A p, q \in Slots :
       \A i \in 1 .. allocatedChunks(dynamicBytes[p]),
          j \in 1 .. allocatedChunks(dynamicBytes[q]) :
         LET b == dynamicBytes[p].chunks[i].ptr IN
         (b # NULL /\ b = dynamicBytes[q].chunks[j].ptr) => <<p, i>> = <<q, j>>

(***************************************************************************)
(* No leak: every live block is owned by some chunk, so that releasing the *)
(* variable frees the whole heap it allocated.  Consolidation and the      *)
(* reallocation in allocateDynamicBytes drop chunk pointers.               *)
(***************************************************************************)
NoLeak == DOMAIN mem \subseteq UNION {Owned(dynamicBytes[p]) : p \in Slots}

(***************************************************************************)
(* getValue returns the bytes last stored by setFromBytes, or fetched, in  *)
(* the slot, whatever number of pieces the define callback received them  *)
(* in and however often the slot's chunks were reused and consolidated.    *)
(***************************************************************************)
ReadReturnsStoredValue == read # NULL => read.bytes = read.want

(***************************************************************************)
(* No memcpy, and no OCI read of a bound buffer, goes through NULL, a      *)
(* freed block or past the end of a block.                                 *)
(***************************************************************************)
MemorySafe == faults = {}
=============================================================================
