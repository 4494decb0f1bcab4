--------------------------------- MODULE Var ---------------------------------
(***************************************************************************)
(* A fixed size byte variable of dpiVar.c (VARCHAR/RAW with native type    *)
(* BYTES and an element size within DPI_MAX_BASIC_BUFFER_SIZE): the        *)
(* parallel per slot arrays dpiVar__allocateBuffers creates, the public    *)
(* setter and getter, dpiVar_resize, the late growth of all buffers in the *)
(* out-bind callback of a DML returning statement, and the reference count *)
(* that ends in dpiVar__free.                                              *)
(*                                                                         *)
(* Every array is a heap block (module Heap): data.asRaw holds bytes,      *)
(* indicator, actualLength and returnCode hold one element per slot, and   *)
(* externalData holds the caller's dpiData records, whose value.asBytes    *)
(* pointer [blk, off] points into data.  The caller is taken to read the   *)
(* dpiData array afresh (dpiVar_getData) after every call that may move it.*)
(***************************************************************************)
EXTENDS Heap

CONSTANTS
  Values,      \* byte strings the caller or OCI may supply
  ArraySize,   \* maxArraySize passed to dpiVar__allocate
  Size,        \* the element size in bytes passed to dpiVar__allocate
  NewSizes,    \* sizes dpiVar_resize may be called with
  RowCounts,   \* numbers of rows OCI may report returned by DML returning
  MaxRefs,     \* bound on the variable's reference count
  DBNULL       \* ghost: a slot holding a NULL value

ASSUME ArraySize \in Nat \ {0} /\ Size \in Nat \ {0}
ASSUME NewSizes \subseteq Nat \ {0} /\ RowCounts \subseteq Nat \ {0}

VARIABLES
  mem, faults,      \* the heap and the memory faults that happened (Heap)
  handle,           \* "none" until dpiVar__allocate succeeds, "live", "freed"
  refCount,         \* the handle's reference count (dpiGen)
  maxArraySize, sizeInBytes, actualArraySize,
  buffers,          \* the block of each array, or NULL
  exec,             \* OCI's progress through a DML returning execute
  want,             \* ghost: the value the slot holds by the spec
  readable,         \* ghost: the statement has filled the slot
  read,             \* ghost: the result of the last successful getValue
  role              \* how the statement binds the variable: "in" or "out"

vars == <<mem, faults, handle, refCount, maxArraySize, sizeInBytes,
          actualArraySize, buffers, exec, want, readable, read, role>>

Arrays == {"data", "indicator", "actualLength", "returnCode", "externalData"}
NoBuffers == [a \in Arrays |-> NULL]
MaxSlots == Max(RowCounts \cup {ArraySize})
Positions == 0 .. MaxSlots - 1
Ptr(blk, off) == [blk |-> blk, off |-> off]
Blk(p) == IF p = NULL THEN NULL ELSE p.blk
Off(p) == IF p = NULL THEN 0 ELSE p.off
\* the dpiData record calloc plus isNull = 1 produce
NullData == [isNull |-> TRUE, ptr |-> NULL, length |-> 0]

-----------------------------------------------------------------------------
(***************************************************************************)
(* dpiVar__allocateBuffers for n slots of size bytes, each array allocated *)
(* only if it does not exist yet (data always), stopping at the first      *)
(* failed malloc; on success the dpiData byte pointers are set to their    *)
(* slots of data.  The outcomes are records [ok, b, mem].                  *)
(***************************************************************************)
AllocArray(o, a, n, init) ==
  IF ~o.ok \/ o.b[a] # NULL THEN {o}
  ELSE {[ok |-> r.ptr # NULL, mem |-> r.mem, b |-> [o.b EXCEPT ![a] = r.ptr]]
        : r \in Alloc(o.mem, n, init)}

\* Faulty variants of SetPointers: a 1-based stride; the stride of the size
\* the variable was allocated with.
SetPointersShifted(o, n, size) ==
  IF ~o.ok THEN o
  ELSE [o EXCEPT !.mem[o.b.externalData] =
          [i \in DOMAIN @ |-> IF i <= n
                              THEN [@[i] EXCEPT !.ptr = Ptr(o.b.data, i * size)]
                              ELSE @[i]]]
SetPointersOldSize(o, n, size) ==
  IF ~o.ok THEN o
  ELSE [o EXCEPT !.mem[o.b.externalData] =
          [i \in DOMAIN @ |-> IF i <= n
                              THEN [@[i] EXCEPT !.ptr = Ptr(o.b.data, (i - 1) * Size)]
                              ELSE @[i]]]

\* bytes->ptr = var->data.asBytes + i * var->sizeInBytes, for every slot
SetPointers(o, n, size) ==
  IF ~o.ok THEN o
  ELSE [o EXCEPT !.mem[o.b.externalData] =
          [i \in DOMAIN @ |-> IF i <= n
                              THEN [@[i] EXCEPT !.ptr = Ptr(o.b.data, (i - 1) * size)]
                              ELSE @[i]]]

AllocateBuffers(b, m, n, size) ==
  LET s1 == {[ok |-> r.ptr # NULL, mem |-> r.mem, b |-> [b EXCEPT !.data = r.ptr]]
             : r \in Malloc(m, n * size)}
      s2 == UNION {AllocArray(o, "indicator", n, "null") : o \in s1}
      s3 == UNION {AllocArray(o, "actualLength", n, size) : o \in s2}
      s4 == UNION {AllocArray(o, "returnCode", n, GARBAGE) : o \in s3}
      s5 == UNION {AllocArray(o, "externalData", n, NullData) : o \in s4}
  IN  {SetPointers(o, n, size) : o \in s5}

\* Faulty variant: forgets to free the return code array.
FinalizedNoReturnCode(b) == {b[a] : a \in Arrays \ {"returnCode"}} \ {NULL}

\* the arrays dpiVar__finalizeBuffers frees: every one that exists
Finalized(b) == {b[a] : a \in Arrays} \ {NULL}

\* dpiVar__finalizeBuffers: free every array that exists, and forget it
FinalizeBuffers(b, m) ==
  LET live == Finalized(b) IN
  [b      |-> NoBuffers,
   mem    |-> FreeAll(m, live),
   faults |-> IF live \subseteq DOMAIN m THEN {} ELSE {"double_free"}]

-----------------------------------------------------------------------------
Init ==
  /\ mem = [x \in {} |-> <<>>]
  /\ faults = {}
  /\ handle = "none"
  /\ refCount = 0
  /\ maxArraySize = ArraySize
  /\ sizeInBytes = Size
  /\ actualArraySize = 0
  /\ buffers = NoBuffers
  /\ exec = [active |-> FALSE, index |-> 0, rows |-> 0]
  /\ want = [p \in Positions |-> DBNULL]
  /\ readable = [p \in Positions |-> FALSE]
  /\ read = NULL
  /\ role \in {"in", "out"}

\* a public call on a live variable, outside an execute: the out-bind
\* callback runs inside OCIStmtExecute, while the caller's thread is in
\* dpiStmt_execute and cannot call the variable's functions
Usable == handle = "live" /\ ~exec.active

\* Faulty variant of ValidPos: accepts pos = maxArraySize.
ValidPosInclusive(p) == p <= maxArraySize

\* dpiVar__checkArraySize: pos must be below maxArraySize
ValidPos(p) == p < maxArraySize
\* The setters and setValue are used on in binds, the out-bind callback on
\* the out binds of DML returning.
In  == role = "in"
Out == role = "out"

\* the access faulted: the process would crash here
Crash(F) == /\ faults' = faults \cup F
            /\ UNCHANGED <<mem, handle, refCount, maxArraySize, sizeInBytes,
                           actualArraySize, buffers, exec, want, readable, read, role>>

(***************************************************************************)
(* dpiVar__allocate (after its argument checks): dpiVar__initBuffers, and  *)
(* dpiVar__free of the half built variable when it fails.                  *)
(***************************************************************************)
\* Faulty variant: the half built variable is forgotten, not freed.
AllocateFailedNoFree(o) == [b |-> NoBuffers, mem |-> o.mem, faults |-> {}]

\* dpiVar__free of the variable whose initBuffers failed
AllocateFailed(o) == FinalizeBuffers(o.b, o.mem)

Allocate ==
  /\ handle = "none"
  /\ \E o \in AllocateBuffers(NoBuffers, mem, ArraySize, Size) :
       \/ /\ o.ok
          /\ handle' = "live" /\ refCount' = 1
          /\ buffers' = o.b /\ mem' = o.mem
          /\ UNCHANGED faults
       \/ /\ ~o.ok
          /\ LET f == AllocateFailed(o) IN
             /\ mem' = f.mem /\ faults' = faults \cup f.faults
          /\ UNCHANGED <<handle, refCount, buffers, role>>
  /\ UNCHANGED <<maxArraySize, sizeInBytes, actualArraySize, exec, want,
                 readable, read, role>>

(***************************************************************************)
(* dpiVar_setFromBytes on a fixed buffer: checkArraySize, the length check *)
(* against sizeInBytes, then isNull = 0, the length, the copy through the  *)
(* dpiData pointer, actualLength and returnCode.                           *)
(***************************************************************************)
SetFromBytes(p, v) ==
  /\ Usable /\ In /\ ValidPos(p) /\ Len(v) <= sizeInBytes
  /\ LET b  == buffers
         e  == Load(mem, b.externalData, p)
         m1 == Store(mem, b.externalData, p,
                     [e EXCEPT !.isNull = FALSE, !.length = Len(v)])
         m2 == Memcpy(m1, Blk(e.ptr), Off(e.ptr), v)
         m3 == Store(m2, b.actualLength, p, Len(v))
     IN  IF ReadFaults(mem, b.externalData, p, 1) # {}
         THEN Crash(ReadFaults(mem, b.externalData, p, 1))
         ELSE /\ mem' = Store(m3, b.returnCode, p, 0)
              /\ faults' = faults \cup WriteFaults(m1, Blk(e.ptr), Off(e.ptr), Len(v))
                                  \cup WriteFaults(m2, b.actualLength, p, 1)
                                  \cup WriteFaults(m3, b.returnCode, p, 1)
              /\ want' = [want EXCEPT ![p] = v]
              /\ readable' = [readable EXCEPT ![p] = FALSE]
              /\ UNCHANGED <<handle, refCount, maxArraySize, sizeInBytes,
                             actualArraySize, buffers, exec, read, role>>

\* The caller sets data->isNull = 1 through the dpiData array.
SetNull(p) ==
  /\ Usable /\ In /\ ValidPos(p)
  /\ LET e == Load(mem, buffers.externalData, p) IN
     IF ReadFaults(mem, buffers.externalData, p, 1) # {}
     THEN Crash(ReadFaults(mem, buffers.externalData, p, 1))
     ELSE /\ mem' = Store(mem, buffers.externalData, p, [e EXCEPT !.isNull = TRUE])
          /\ want' = [want EXCEPT ![p] = DBNULL]
          /\ readable' = [readable EXCEPT ![p] = FALSE]
          /\ UNCHANGED <<faults, handle, refCount, maxArraySize, sizeInBytes,
                         actualArraySize, buffers, exec, read, role>>

(***************************************************************************)
(* dpiVar__setValue, as the statement calls it for every slot of an in     *)
(* bind before execute: the indicator from isNull, and for a value the     *)
(* return code is cleared (the bytes are already in data).                 *)
(***************************************************************************)
SetValue(p) ==
  /\ Usable /\ In /\ ValidPos(p)
  /\ LET b  == buffers
         e  == Load(mem, b.externalData, p)
         m1 == Store(mem, b.indicator, p, IF e.isNull THEN "null" ELSE "notnull")
     IN  IF ReadFaults(mem, b.externalData, p, 1) # {}
         THEN Crash(ReadFaults(mem, b.externalData, p, 1))
         ELSE /\ mem' = IF e.isNull THEN m1 ELSE Store(m1, b.returnCode, p, 0)
              /\ faults' = faults \cup WriteFaults(mem, b.indicator, p, 1)
                                  \cup (IF e.isNull THEN {}
                                        ELSE WriteFaults(m1, b.returnCode, p, 1))
              /\ want' = [want EXCEPT ![p] = IF e.isNull THEN DBNULL ELSE @]
              /\ readable' = [readable EXCEPT ![p] = TRUE]
              /\ UNCHANGED <<handle, refCount, maxArraySize, sizeInBytes,
                             actualArraySize, buffers, exec, read, role>>

(***************************************************************************)
(* dpiVar__getValue of a fixed byte slot the statement has filled: isNull  *)
(* from the indicator; for a value the return code is checked and the      *)
(* length taken from actualLength.  The caller then reads that many bytes  *)
(* at the dpiData pointer.                                                 *)
(***************************************************************************)
GetValue(p) ==
  /\ Usable /\ ValidPos(p) /\ readable[p]
  /\ LET b   == buffers
         ind == Load(mem, b.indicator, p)
         e   == Load(mem, b.externalData, p)
         \* the return code is checked only if the array exists
         rcF == IF b.returnCode = NULL THEN {} ELSE ReadFaults(mem, b.returnCode, p, 1)
         rc  == IF b.returnCode = NULL THEN 0 ELSE Load(mem, b.returnCode, p)
         len == Load(mem, b.actualLength, p)
         f0  == ReadFaults(mem, b.indicator, p, 1)
                \cup ReadFaults(mem, b.externalData, p, 1)
     IN  IF f0 # {} THEN Crash(f0)
         ELSE IF ind = "null"
         THEN /\ mem' = Store(mem, b.externalData, p, [e EXCEPT !.isNull = TRUE])
              /\ read' = [bytes |-> DBNULL, want |-> want[p]]
              /\ UNCHANGED faults
         ELSE IF rcF # {} THEN Crash(rcF)
         ELSE IF rc # 0
         THEN /\ mem' = Store(mem, b.externalData, p, [e EXCEPT !.isNull = FALSE])
              /\ UNCHANGED <<faults, read>>            \* DPI_ERR_COLUMN_FETCH
         ELSE IF ReadFaults(mem, b.actualLength, p, 1) # {}
         THEN Crash(ReadFaults(mem, b.actualLength, p, 1))
         ELSE /\ mem' = Store(mem, b.externalData, p,
                              [e EXCEPT !.isNull = FALSE, !.length = len])
              /\ read' = [bytes |-> Content(mem, Blk(e.ptr), Off(e.ptr), len),
                          want  |-> want[p]]
              /\ faults' = faults \cup ReadFaults(mem, Blk(e.ptr), Off(e.ptr), len)
  /\ UNCHANGED <<handle, refCount, maxArraySize, sizeInBytes, actualArraySize,
                 buffers, exec, want, readable, role>>
(***************************************************************************)
(* dpiVar_resize of a byte variable that is not dynamic: free data, set    *)
(* the new size and dpiVar__allocateBuffers, which keeps every other array *)
(* that exists.  By the spec (§8) every slot is null afterwards.           *)
(***************************************************************************)
\* Faulty variant: drops the old value array without freeing it.
ResizeStartNoFree(b, m) == [b |-> [b EXCEPT !.data = NULL], mem |-> m]

\* free(var->data.asRaw); var->data.asRaw = NULL
ResizeStart(b, m) == [b |-> [b EXCEPT !.data = NULL], mem |-> Free(m, b.data)]

Resize(s) ==
  /\ Usable
  /\ LET r == ResizeStart(buffers, mem) IN
     \E o \in AllocateBuffers(r.b, r.mem, maxArraySize, s) :
       /\ buffers' = o.b /\ mem' = o.mem
       /\ want' = IF o.ok THEN [p \in Positions |-> DBNULL] ELSE want
       /\ readable' = IF o.ok THEN [p \in Positions |-> p < maxArraySize]
                      ELSE readable
  /\ sizeInBytes' = s
  /\ UNCHANGED <<faults, handle, refCount, maxArraySize, actualArraySize,
                 exec, read, role>>

\* OCI starts a DML returning execute that returns rows rows.
ExecBegin(rows) ==
  /\ Usable /\ Out
  /\ exec' = [active |-> TRUE, index |-> 0, rows |-> rows]
  /\ readable' = [p \in Positions |-> FALSE]
  /\ UNCHANGED <<mem, faults, handle, refCount, maxArraySize, sizeInBytes,
                 actualArraySize, buffers, want, read, role>>

\* Faulty variant: every index is handed the start of the value array.
CallbackBufferNoOffset(b, idx) == Ptr(b.data, 0)

\* dpiVar__assignCallbackBuffer: data.asBytes + index * sizeInBytes
CallbackBuffer(b, idx) == Ptr(b.data, idx * sizeInBytes)

(***************************************************************************)
(* dpiVar__outBindCallback for the next index, with OCI's use of what it   *)
(* returns.  At index 0, when more rows were returned than there are       *)
(* slots, all buffers are finalized, maxArraySize raised and the buffers   *)
(* initialised again; a failure there fails the execute.  The callback     *)
(* hands OCI data + index * sizeInBytes with actualLength[index] set to    *)
(* sizeInBytes; OCI writes the value v (or a NULL), its length, the        *)
(* indicator and the return code.  By the spec every slot after a growth   *)
(* starts null.                                                            *)
(***************************************************************************)
OutBindCallback(v) ==
  /\ handle = "live" /\ exec.active
  /\ v \in {DBNULL} \cup {x \in Values : Len(x) <= sizeInBytes}
  /\ LET idx  == exec.index
         grow == idx = 0 /\ exec.rows > maxArraySize
         fin  == FinalizeBuffers(buffers, mem)
         outs == IF grow
                 THEN AllocateBuffers(NoBuffers, fin.mem, exec.rows, sizeInBytes)
                 ELSE {[ok |-> TRUE, b |-> buffers, mem |-> mem]}
         f0   == IF grow THEN fin.faults ELSE {}
     IN  \E o \in outs :
         LET b   == o.b
             buf == CallbackBuffer(b, idx)
             len == IF v = DBNULL THEN 0 ELSE Len(v)
             ind == IF v = DBNULL THEN "null" ELSE "notnull"
             \* the callback: actualLength[index] = sizeInBytes, if it exists
             m1  == IF b.actualLength = NULL THEN o.mem
                    ELSE Store(o.mem, b.actualLength, idx, sizeInBytes)
             \* OCI: the value, its length, the indicator, the return code
             m2  == IF v = DBNULL THEN m1 ELSE Memcpy(m1, buf.blk, buf.off, v)
             m3  == IF b.actualLength = NULL THEN m2
                    ELSE Store(m2, b.actualLength, idx, len)
             m4  == Store(m3, b.indicator, idx, ind)
             bef == IF grow THEN [p \in Positions |-> DBNULL] ELSE want
         IN
         /\ maxArraySize' = IF grow THEN exec.rows ELSE maxArraySize
         /\ buffers' = b
         /\ \/ /\ ~o.ok
               /\ mem' = o.mem
               /\ faults' = faults \cup f0
               /\ exec' = [active |-> FALSE, index |-> 0, rows |-> 0]
               /\ want' = bef
               /\ UNCHANGED readable
            \/ /\ o.ok
               /\ mem' = IF b.returnCode = NULL THEN m4
                         ELSE Store(m4, b.returnCode, idx, 0)
               /\ faults' = faults \cup f0
                            \cup (IF b.actualLength = NULL THEN {}
                                  ELSE WriteFaults(o.mem, b.actualLength, idx, 1))
                            \cup WriteFaults(m1, buf.blk, buf.off, len)
                            \cup WriteFaults(m3, b.indicator, idx, 1)
                            \cup (IF b.returnCode = NULL THEN {}
                                  ELSE WriteFaults(m4, b.returnCode, idx, 1))
               /\ exec' = IF idx + 1 = exec.rows
                          THEN [active |-> FALSE, index |-> 0, rows |-> 0]
                          ELSE [exec EXCEPT !.index = idx + 1]
               /\ want' = [bef EXCEPT ![idx] = v]
               /\ readable' = [readable EXCEPT ![idx] = TRUE]
  /\ UNCHANGED <<handle, refCount, sizeInBytes, actualArraySize, read, role>>

\* Faulty variant: accepts one element more than there are slots.
NumElementsOffByOne(n) == n <= maxArraySize + 1

\* the check of dpiVar_setNumElementsInArray
NumElementsOK(n) == n <= maxArraySize

\* dpiVar_setNumElementsInArray, when the check passes
SetNumElementsInArray(n) ==
  /\ Usable /\ NumElementsOK(n)
  /\ actualArraySize' = n
  /\ UNCHANGED <<mem, faults, handle, refCount, maxArraySize, sizeInBytes,
                 buffers, exec, want, readable, read, role>>

\* dpiVar_addRef
AddRef ==
  /\ handle = "live" /\ refCount < MaxRefs
  /\ refCount' = refCount + 1
  /\ UNCHANGED <<mem, faults, handle, maxArraySize, sizeInBytes,
                 actualArraySize, buffers, exec, want, readable, read, role>>

(***************************************************************************)
(* dpiVar_release: the last reference frees the variable (dpiVar__free,    *)
(* which finalizes its buffers).                                           *)
(***************************************************************************)
Release ==
  /\ Usable
  /\ refCount' = refCount - 1
  /\ IF refCount = 1
     THEN LET f == FinalizeBuffers(buffers, mem) IN
          /\ mem' = f.mem /\ faults' = faults \cup f.faults
          /\ buffers' = NoBuffers /\ handle' = "freed"
     ELSE UNCHANGED <<mem, faults, buffers, handle, role>>
  /\ UNCHANGED <<maxArraySize, sizeInBytes, actualArraySize, exec, want,
                 readable, read, role>>

Next ==
  \/ Allocate \/ AddRef \/ Release
  \/ \E p \in Positions, v \in Values : SetFromBytes(p, v)
  \/ \E p \in Positions : SetNull(p) \/ SetValue(p) \/ GetValue(p)
  \/ \E s \in NewSizes : Resize(s)
  \/ \E r \in RowCounts : ExecBegin(r)
  \/ \E v \in Values \cup {DBNULL} : OutBindCallback(v)
  \/ \E n \in Positions \cup {MaxSlots} : SetNumElementsInArray(n)

Spec == Init /\ [][Next]_vars

-----------------------------------------------------------------------------
TypeOK ==
  /\ DOMAIN mem \subseteq BlockIds
  /\ handle \in {"none", "live", "freed"}
  /\ refCount \in 0 .. MaxRefs
  /\ maxArraySize \in 1 .. MaxSlots
  /\ actualArraySize \in 0 .. maxArraySize
  /\ buffers \in [Arrays -> BlockIds \cup {NULL}]
  /\ exec.index \in 0 .. MaxSlots

(***************************************************************************)
(* No leak and no dangling array: the live blocks are exactly the arrays   *)
(* the variable points at, through allocation failures part way through    *)
(* allocateBuffers, resize and late growth, and none after dpiVar__free.   *)
(***************************************************************************)
NoLeak == DOMAIN mem = {buffers[a] : a \in Arrays} \ {NULL}

(***************************************************************************)
(* Every array that exists is sized for the variable as it now is: data    *)
(* holds maxArraySize * sizeInBytes bytes and every other array            *)
(* maxArraySize elements, and each dpiData byte pointer points at its own  *)
(* slot of data.  Resize changes sizeInBytes and late growth maxArraySize. *)
(***************************************************************************)
BuffersSized ==
  handle = "live" =>
    /\ buffers.data # NULL =>
         Len(mem[buffers.data]) = maxArraySize * sizeInBytes
    /\ \A a \in Arrays \ {"data"} :
         buffers[a] # NULL => Len(mem[buffers[a]]) = maxArraySize
    /\ buffers.externalData # NULL /\ buffers.data # NULL =>
         \A i \in 1 .. maxArraySize :
           mem[buffers.externalData][i].ptr = Ptr(buffers.data, (i - 1) * sizeInBytes)

(***************************************************************************)
(* getValue returns the value last set into the slot, or returned into it  *)
(* by OCI, and null for a slot the spec says is null.                      *)
(***************************************************************************)
ReadReturnsStoredValue == read # NULL => read.bytes = read.want

(***************************************************************************)
(* No store, copy or read of the variable, by the code, OCI or the caller  *)
(* through a dpiData pointer, goes through NULL, a freed block or past the *)
(* end of a block.                                                         *)
(***************************************************************************)
MemorySafe == faults = {}
=============================================================================
