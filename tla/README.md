# TLA+ models of ODPI-C's variable buffer manager (`src/src/dpiVar.c`)

`dpiVar.c` implements `dpiVar`, ODPI-C's bound or defined variable. A
variable holds one value per array slot in buffers that the Oracle Call
Interface (OCI) reads and writes during execute and fetch. The file is
single threaded, but control is inverted: OCI calls back into it slot by slot
and piece by piece, and the caller's `dpiData` array aliases its buffers.

## 1. The system

| Part | Code | State | Operations |
|---|---|---|---|
| Chunk Allocator | `dpiVar__allocateChunks`, `__allocateDynamicBytes`, `__setBytesFromDynamicBytes` | per slot `dpiDynamicBytes` = `numChunks`, `allocatedChunks`, `chunks[]` of `{ptr, length, allocatedLength}` | grow the chunk array by 8; make `chunks[0]` hold a size (rounded up to a 64 KiB multiple); consolidate several chunks into one block |
| Buffer Allocator | `__allocateBuffers`, `__initBuffers`, `__finalizeBuffers`, `dpiVar_resize` | `data.asRaw`, `indicator`, `actualLength`, `returnCode`, `tempBuffer`, `externalData`, `references` | allocate per slot arrays (a dynamic variable gets chunk storage instead of `data`); free them; resize a byte variable |
| Reference Tracker | `__setFromLob/Object/Rowid/Stmt`, `__extendedInitialize`, `__extendedPreFetch` | `references[pos]` and the handles' reference counts | replace a slot's handle (release old, add new; same handle is a no-op); recreate handles before each fetch |
| Variable | `dpiVar__allocate`, `dpiVar_addRef/release`, `setNumElementsInArray`, `checkArraySize`, `copyData` | reference count, `maxArraySize`, `actualArraySize` | public API |
| Value Coercion | `__getValue`, `__setValue` | `externalData[pos]` vs native buffers | per type conversion (most conversions call other ODPI-C files) |
| Callback Adapter | `__defineCallback`, `__inBindCallback`, `__outBindCallback`, `__assignCallbackBuffer` | as above | hand OCI a buffer per slot/piece; out-bind grows all buffers at index 0 when more rows are returned than allocated |
| convertToLob | `__convertToLob` | type, buffers | turn a long dynamic variable into a LOB variable, copying set values |

Behaviours that are hard to get right, and the properties that make a part
correct, are listed per hazard in `PROJECT.json` ("hazards"). The main ones:
every chunk pointer is live and owned once (so `finalizeBuffers` frees each
block exactly once), no block leaks, no memcpy or OCI access goes through NULL,
a freed block or past a block's end, `getValue` returns what was stored
whatever the chunking, a handle's reference is held exactly while a slot holds
it, and after resize or late growth the slots are null and sized as the spec
(§8) says.

## 2. Modules

### `Heap` (shared)

The C heap as a function from live block ids to byte or element sequences.
`Alloc`/`Malloc` return the lowest free id, or NULL when `MallocCanFail`
(`malloc` leaves `GARBAGE`, an initializing loop a given value); `Free`,
`Memcpy`, `Load`, `Store` and `Content` act on it, and `WriteFaults` /
`ReadFaults` name the fault an access would cause (`null_`, `dangling_`,
`overflow_` + `write`/`read`). The models never crash on a fault: they record
it in `faults`, and `MemorySafe` says none happened.

### `DynamicBytes` (Chunk Allocator, dynamic path of Value Coercion and Callback Adapter)

State: `mem` (the heap: live block id -> bytes), `dynamicBytes` (per slot
`[numChunks, chunks]`; `allocatedChunks` is `Len(chunks)`), `indicator`,
`externalData` (`isNull`, `ptr`, `length`), `fetch` (OCI's progress through a
fetch), the ghosts `want`/`readable`/`read` (the value last stored, whether the
statement may read the slot, the last `getValue` result), `faults` (memory
faults that happened), `freed`, and `role`.

Actions, one per handler: `SetFromBytes` (`dpiVar__setFromBytes` with
`allocateDynamicBytes`), `SetValue` (`dpiVar__setValue`, bytes path),
`InBindCallback`, `GetValue` (`dpiVar__getValue` with
`setBytesFromDynamicBytes`: single chunk exposed, or consolidation into a new
block), `PreFetch` (`extendedPreFetch`), `DefineCallback` (grow the array,
allocate the chunk, OCI writes the piece), `Release` (`finalizeBuffers` and
`free`). OCI is the environment: `OciBeginRow`, `OciNullRow`, `OciEndFetch`;
a callback failure aborts the fetch. `malloc` returns the lowest free block id
or, when `MallocCanFail`, NULL. `role` fixes whether the statement uses the
variable as a bind (setters, in-bind callback) or a define (fetches); `getValue`
is called only on slots the statement has filled.

Abstractions: byte values are short sequences over model values `A`, `B`;
`DPI_DYNAMIC_BYTES_CHUNK_SIZE` (64 KiB) is scaled to 2 and the chunk
increment (8) to 1, which keeps both round-up and multi-piece values in reach
with 3-byte values; the heap has 6 block ids. `uint32_t` lengths keep their
width, scaled down with the chunk size: `UINT32_MOD` stands for 2^32, and the
round-up of `allocateDynamicBytes` (`RoundUp`) and the sum of the reserves in
`setBytesFromDynamicBytes` (`ConsolidatedSize`) are taken modulo it. The
passing runs use 16, larger than any reserve they reach; `dynbytes_wrap` uses
4 so that a 3-byte value is within one chunk of the limit.

### `Var` (Buffer Allocator, Variable lifecycle, out-bind Callback Adapter)

A fixed-size byte variable (VARCHAR/RAW, native type BYTES). State: `mem`,
`faults`, `handle` (`none`/`live`/`freed`), `refCount`, `maxArraySize`,
`sizeInBytes`, `actualArraySize`, `buffers` (the block of each of `data`,
`indicator`, `actualLength`, `returnCode`, `externalData`, or NULL), `exec`
(OCI's progress through a DML returning execute: index and rows returned),
the ghosts `want`/`readable`/`read`, and `role` (in bind or out bind).

`AllocateBuffers` is `dpiVar__allocateBuffers`: `data` is always allocated,
every other array only if it does not exist yet, and the first failed malloc
stops it with the arrays made so far kept; on success every dpiData byte
pointer is set to its slot of `data` (`SetPointers`). `FinalizeBuffers` frees
every array that exists.

Actions: `Allocate` (`dpiVar__allocate`: initBuffers, and `dpiVar__free` on
failure), `SetFromBytes`, `SetNull` (the caller writes `isNull`), `SetValue`,
`GetValue` (the caller then reads `actualLength` bytes at its dpiData pointer),
`Resize` (`dpiVar_resize`: free `data`, set the size, allocateBuffers),
`ExecBegin` (OCI starts a DML returning execute), `OutBindCallback` (one
callback and what OCI writes through the pointers it returns; at index 0, with
more rows than slots, finalize, raise `maxArraySize`, initBuffers),
`SetNumElementsInArray`, `AddRef`, `Release` (the last reference frees).

Bounds: `ArraySize` 1, `Size` 2, values `<<>>`, `<<A>>`, `<<A,B>>`, DML
returning of 1 or 2 rows (so late growth happens), resize to 3 (`Grow`), at most 2 references, 6 block ids (the five arrays and one to spare:
late growth and resize free the old arrays before they allocate, so the pool
never limits an allocation). Resize only grows; a shrink would keep an
`actualLength` larger than the new element, the read past it that the
`var_resize_null` paragraph describes, which no run checks.

### `Reference` and `RefOwnership` (Reference Tracker)

`RefOwnership` is what the tracker promises (spec §3 "Reference", §4.4,
§5): each slot holds at most one handle, the caller holds references of its
own, and a handle is destroyed exactly when its last holder lets go, never to
be held again. Its actions are `Create`, `Take`, `Drop` and `Reassign` (the
slots change what they hold; handles created and destroyed inside one step,
as in an allocation that fails part way, may go straight to destroyed).

`Reference` is the counting code for a variable of a complex handle type.
State: each handle's `count` and `hstatus`, the caller's own references
`callerRefs`, `references[]`, the native locator/handle array `native`, the
caller's dpiData `ext` and `isNull`, `varState` and `faults` (count changes
or handle checks on destroyed handles). A step is computed on a record in
code order (`ClearSlot`, `SetFrom`, `PreFetchSlot`, the `PreFetchFrom` and
`ReleaseFrom` loops). `kind` is the variable's type, fixed at allocation:
"LOB" (LOB, BFILE, rowid), "STMT" (cursor) or "OBJECT". Actions: `Allocate`
(extendedInitialize with the prefetch, and dpiVar__free when it fails),
`PreFetch` (before each fetch; for LOB and cursor it fails at any slot:
`alloc` stores nothing, `handle` is the cursor case where the new dpiStmt was
stored before OCIHandleAlloc failed; for objects, `PreFetchObjects` only
releases and clears), `SetFromHandle` (`dpiVar_setFromLob/Stmt/Rowid/Object`),
`CopyData` (`dpiVar_copyData` within the variable: the null flag, then
`CopyFrom`, the setter with the source dpiData's handle), `GetValue` (a cursor slot's statement; for
an object slot, `GetObject` reads nullity from the instance's indicator
(`ObjectIsNull`) and wraps the instance in a new dpiObject on first access,
`NeedsWrap`), `SetValue` (a null object slot without an instance gets a new
object whose indicator is forced null), `OciFetchObject` (OCI fills a
cleared slot with a null or non-null instance), `SetNull`, `Release`, and the
caller's `CallerCreate`, `CallerAddRef`, `CallerRelease`. `native` holds the
slot's locator or instance; an instance OCI fetched is `NullInstance` or
`ValueInstance` until it is wrapped, then the wrapper's handle. `objNull`
is each object's atomic null indicator. `dpiGen__setRefCount` and the handle
allocators live in other files and are taken from the spec. The caller names
only handles it holds or reads from its dpiData.

The refinement mapping sends `slot` to `references` (to nothing once the
variable is freed), `held` to `callerRefs` and `status` to `hstatus`;
`Refinement == Abstract!Spec` is checked as a PROPERTY.

Bounds: 2 slots, handle identities 1..4 (allocate plus one prefetch of a
cursor variable use all four; an object variable creates one per wrap or
null bind), and the caller holds at most 1 reference to a handle (its own,
beside the slots'). With 5 identities and 2 caller references the run
exceeds 400,000 states. The run takes both cursor and object variables
(`Kinds = {"STMT", "OBJECT"}`) with failures on. The cursor's failure
points (`alloc`, `handle`) include the only one of the LOB/BFILE/rowid
shape, and its `GetValue` step is the only one that shape lacks. So every
behaviour of the LOB shape is also a behaviour of the run.

Not checked: after `setFromObject`, a null write (`SetNull` then `SetValue`)
keeps the object and does not force its indicator to null. So `getValue`,
which reads nullity through `objectIndicator`, reads the object back, where
the spec (§4.9) says the slot is written null. How OCI binds that slot is
decided in `dpiStmt.c` and OCI. The state is in the model (`objNull`), but
no property states it.

### `ToLob` (convertToLob)

`ToLob` extends `DynamicBytes` with three variables: each slot's temporary
LOB content `lob` (or `NOLOB` when `references[pos].asLOB` is NULL),
`conversion` ("none", "done" or "failed"), and `lobRefs` (the references
array exists). Before the conversion, the variable takes any `DynamicBytes`
step. `ConvertToLob` (lines 342-378) is allowed when no fetch is in progress.
It ends in one of the outcomes of `ConvertOutcomes`:
- "ok";
- "buffers": allocateBuffers or the references calloc failed, so no LOB
  exists;
- "lob" at slot k: `dpiLob__allocate` failed for slot k, and `NewLobs`
  leaves slots k and later without a LOB;
- "temp" at slot k: `dpiLob__createTemporary` failed for slot k after the LOB
  was stored in `references[k]` (line 588 before 591), so only later slots
  have none;
- "copy" at slot k: `dpiLob__setFromBytes` of copied slot k failed.

Every slot with `numChunks > 0` that the loop reached (`CopiedBefore`) gets
`chunks[0]` up to its `length` (`FirstChunkBytes`). The type change stays
whatever the outcome, and the chunk structures stay too. After the
conversion:
- `SetFromBytesLob` writes the value into the slot's LOB when `references`
  exists (lines 1121-1129). A NULL LOB is recorded as the fault `null_lob`.
  Without `references`, the dynamic path of `DynamicBytes` runs.
- `SetValue` sets the indicator.
- `GetValueLob` is `setBytesFromLob` (lines 1062-1097): the length check
  (`LobLengthFits`), then `allocateDynamicBytes` into the kept chunks
  (`LobSpace`), then the read, which may fail.
- `Release` frees the retained chunks, so `NoLeak` covers the spec's open
  question about a leak.

`Roles` fixes the variable's earlier use: bind (`setFromBytes`) or define
(fetch). `dpiLob` writes other than the copy loop are taken to succeed. The
`dynbytes` run checks every `DynamicBytes` invariant over behaviours that
convert and then set and read the LOBs. `LobHoldsBoundValue` says that a
bind variable's LOBs hold what `setFromBytes` stored. `dynbytes_fail` lets
every step fail, the conversion included.

### Planned modules

1. The temporary LOBs of `convertToLob` as counted handles through
   `Reference`.
2. In `DynamicBytes`: a property that a pointer handed to the caller by
   `getValue` stays valid until the next call on the slot.

## 3. Runs

| Run | Cfg | Checks | Bounds | Result |
|---|---|---|---|---|
| `dynbytes` | `MC_ToLob.cfg` | `TypeOK`, `ChunkOwnership`, `NoLeak`, `ReadReturnsStoredValue`, `MemorySafe`, `LobHoldsBoundValue` | bind or define variable, 2 slots, values `<<>>` and `<<B,A,B>>` (3 bytes: 2 pieces, round-up to 4), malloc never fails, then `convertToLob`, LOB sets and reads | pass, 283,336 states |
| `dynbytes_wrap` | `MC_DynamicBytes_Wrap.cfg` | `MemorySafe` | 1 slot, values of length 0-3, `UINT32_MOD` 4 | violation |
| `dynbytes_fail` | `MC_ToLob_Fail.cfg` | `ChunkOwnership`, `NoLeak` | 1 slot, values of length 0-3, bind or define, malloc/calloc and every conversion step may fail | pass, 31,974 states |
| `dynbytes_nullwrite` | `MC_DynamicBytes_NullWrite.cfg` | `MemorySafe` | 1 slot, values of length 0-3, malloc/calloc may fail | violation |
| `var` | `MC_Var.cfg` | `TypeOK`, `ReadReturnsStoredValue` | as above, no resize, malloc never fails | pass, 91,264 states |
| `var_resize` | `MC_Var_Resize.cfg` | `NoLeak`, `BuffersSized`, `MemorySafe` | resize to 3 | pass, 426,664 states |
| `var_fail` | `MC_Var_Fail.cfg` | `NoLeak`, `BuffersSized` | any malloc may fail | pass, 199,429 states |
| `var_resize_null` | `MC_Var_ResizeNull.cfg` | `ReadReturnsStoredValue` | resize to 3 | violation |
| `var_fail_unsafe` | `MC_Var_FailUnsafe.cfg` | `MemorySafe` | any malloc may fail | violation |
| `var_resize_fail` | `MC_Var_ResizeFail.cfg` | `MemorySafe` | resize to 3, any malloc may fail | violation |
| `reference` | `MC_Reference.cfg` | `TypeOK`, `CountMatchesHolders`, `ExternalIsReference`, `NativeIsHeld`, `NoStaleHandleUse`, `Refinement` | cursor or object variable (covers the LOB shape), every allocation may fail | pass, 77,935 states |
| `tolob_define` | `MC_ToLob_Define.cfg` | `LobHoldsValue` | define variable, same values | violation |

`dynbytes_nullwrite` shows a code bug: `allocateDynamicBytes` (line 277)
stores the new `allocatedLength` before checking `malloc`. After a failed
`setFromBytes`, `chunks[0]` is NULL with a reserve of 2; `setFromBytes` of a
1-byte value then skips the allocation and `memcpy`s into NULL (line 1137).

`dynbytes_wrap` shows a second code bug: `allocateDynamicBytes` rounds the
`uint32_t` size up with `(size + CHUNK_SIZE - 1) & ~(CHUNK_SIZE - 1)` (line
278). For a size within `CHUNK_SIZE` of 2^32 the sum wraps and the reserve
becomes tiny (0 here); `malloc` of it succeeds and `setFromBytes` then copies
`valueLength` bytes into it (line 1137). `dpiVar_setFromBytes` checks the
length only for non-dynamic variables (lines 1113-1120), so nothing stops a
caller from passing such a length.

`tolob_define` (spec/code divergence, line 373): `convertToLob` writes only
`chunks[0]` into each slot's LOB. A value that was fetched in two pieces and
not yet consolidated by `getValue` loses its second piece: `<<B,A,B>>`
becomes `<<B,A>>`. The spec says every slot's accumulated chunk data is
copied byte-for-byte. For bind variables, `setFromBytes` always leaves a
single chunk, and `LobHoldsBoundValue` holds in `dynbytes`. No caller in this repository calls
`convertToLob`.

The `Var` violations:

- `var_resize_null` (spec/code divergence, line 1561): `resize` reallocates
  only `data`; `allocateBuffers` keeps the indicator and lengths, so a slot
  that held a value is still not null afterwards, and `getValue` returns its
  old length over uninitialized bytes. The spec (§8) says all slots are null.
  After a resize to a smaller size the kept `actualLength` exceeds the new
  element, so the caller would read past it (line 845); this follows from the
  same kept arrays and is not a separate run.
- `var_fail_unsafe` (line 969): `outBindCallback` raises `maxArraySize`
  before `initBuffers`; when that fails the buffers are NULL, and the next
  execute returning no more rows skips the growth and OCI writes through NULL.
- `var_resize_fail` (line 1558): a failed malloc in `resize` leaves `data`
  NULL with the dpiData pointers dangling; the next out bind goes through NULL.

Each property has a mutant in `PROJECT.json`: a plausible bug in the mapped
code (rounding down, clearing only the first consolidated chunk, not freeing
consolidated chunks, copying whole reserves, sizing the consolidated block by
the first chunk, keeping or not freeing the old pointer on reallocation;
in `Var`: an off-by-one in `setNumElementsInArray` or `checkArraySize`,
not freeing an array, a 1-based or stale-size pointer stride, the callback
buffer without the index offset, not freeing on allocate failure or resize;
in `Reference`: a setter that does not release the old handle, does not
publish the new one or lacks the same-handle test, a slot emptied without a
release, a release loop one slot short, a free without releases, a prefetch
that keeps the old dpiData or stores the cursor only after OCIHandleAlloc,
a setter that leaves data.asObject on the old instance, a getValue that
wraps on every access, a null setValue that creates an object whatever the
slot holds;
in `ToLob`: copying a chunk's whole reserve instead of its length, a LOB read that keeps the chunk's reserve as its length) under
which TLC finds the property violated.

Deadlock is not checked: a released (or never allocated) variable takes no
further step. Only
safety is checked; the code has no waiting and no retry, so no fairness is
assumed. In `Reference` the pool of handle identities runs out, which also
ends behaviours. A liveness property such as "every handle is eventually
destroyed" would rest on the caller releasing its references, which the
code cannot make it do.

## 4. Not modelled

The numeric, date, interval and object conversions of `getValue`/`setValue`
(they call other ODPI-C files and keep no state of this file); OCI descriptor
arrays freed in `finalizeBuffers`; the Oracle 11g `dynamicActualLength` build
variant; `validateTypes` (a stateless whitelist in this file, called from
`dpiVar__allocate`); the read-only getters `dpiVar_getReturnedData`,
`getNumElementsInArray` and `getSizeInBytes`; in `extendedPreFetch`, the
write of `asLOB` over the `asBytes` union member of the dpiData.

Three hazards are in the model and reached by TLC, but not by a kept run,
because their property, `MemorySafe`, is already violated in the runs that
could reach them:
- the uint32 overflow of `totalAllocatedLength` (line 1028). It needs pieces
  summing past 4 GiB, beyond Oracle's 2 GiB LONG limit. `MC_ToLob_Define.cfg`
  with `Roles = {"define"}`, `UINT32_MOD = 4` and `MemorySafe` finds it: a
  prefetch, two define callbacks, then `getValue`.
- a LOB within `CHUNK_SIZE` of 2^32, which passes the `UB4MAXVAL` check and
  wraps the round-up (line 1080).
- `setFromBytes` or `getValue` on a NULL dpiLob after a failed conversion
  (line 363). Adding `MemorySafe` to `MC_ToLob_Fail.cfg` finds the `null_lob`
  fault in two steps, after first finding the NULL-chunk bug of line 277.
In `Var`: `tempBuffer` (numbers transferred as bytes), object indicators,
LOB/timestamp/interval buffers in `assignCallbackBuffer`, the 11g
`dynamicActualLength` path of `outBindCallback`, the `dataLength > INT_MAX`
check of `allocateBuffers` (needs sizes far beyond the bounds), and the
handle validation of `dpiGen__startPublicFn` (taken as "the variable is live").
`role` keeps a variable to one direction per model run: the code does not
forbid mixing, but a statement binds a variable one way.
In `Reference`: the object instance's own lifetime in OCI's object cache
(an instance fetched and never wrapped is OCI's), the temporary LOBs `convertToLob` creates (see `ToLob`), and copying
between two different variables. Handle identities are never reused, so a
stale pointer that aliases a new allocation is not represented.
