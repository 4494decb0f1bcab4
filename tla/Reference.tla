------------------------------ MODULE Reference ------------------------------
(***************************************************************************)
(* The Reference Tracker of dpiVar.c for a variable of a complex handle     *)
(* type: var->references[] holds one counted reference per slot, and the   *)
(* caller sees the handle through externalData[pos].value (its dpiData).   *)
(* Modelled: dpiVar__extendedInitialize, dpiVar__extendedPreFetch (before  *)
(* every fetch, with a failure at any slot), dpiVar__setFromLob/Stmt/Rowid *)
(* and dpiVar__copyData, the statement branch of dpiVar__getValue, and the *)
(* release of references in dpiVar__finalizeBuffers.  The caller creates,  *)
(* add-refs and releases handles of its own.  dpiGen__setRefCount, the     *)
(* counting of another file, is taken from the spec: the count moves by    *)
(* inc and the handle is destroyed when it reaches zero.                   *)
(*                                                                         *)
(* Kind "LOB" stands for LOB, BFILE and rowid variables (the same code     *)
(* shape); "STMT" for cursor variables, whose prefetch stores the new      *)
(* statement before OCIHandleAlloc can fail; "OBJECT" for object variables, *)
(* whose prefetch only clears: OCI fills in the instance, getValue wraps it *)
(* in a dpiObject on first access, and setValue of a null creates one.     *)
(***************************************************************************)
EXTENDS Naturals, Sequences, SequencesExt, FiniteSets

CONSTANTS
  N,              \* maxArraySize
  Handles,        \* handle identities, a set of naturals (creation order)
  Kinds,          \* the variable types a run allocates: "LOB", "STMT", "OBJECT"
  AllocCanFail,   \* calloc, dpiLob__allocate and OCIHandleAlloc may fail
  MaxCount,       \* bound on the references the caller takes
  NULL,
  NullInstance,   \* an object instance OCI fetched, atomically null
  ValueInstance   \* an object instance OCI fetched, with a value

ASSUME N \in Nat \ {0} /\ Handles \subseteq Nat /\ Kinds \subseteq {"LOB", "STMT", "OBJECT"}

VARIABLES
  kind,         \* var->type: the branch of every switch on oracleTypeNum
  count,        \* the reference count of each handle (dpiBaseType refCount)
  hstatus,      \* "unused", "live", or "freed" once its count reached zero
  callerRefs,   \* the references the caller itself holds on each handle
  varState,     \* "none", "live" (allocated) or "freed"
  references,   \* var->references[pos], or NULL
  native,       \* var->data.asLobLocator / asStmt / asObject (with its
                \* objectIndicator): the slot's locator or instance
  ext,          \* externalData[pos].value.asLOB / asStmt
  isNull,       \* externalData[pos].isNull
  faults,       \* reference count changes made on destroyed handles
  objNull       \* the atomic null indicator of each object's instance

vars == <<kind, count, hstatus, callerRefs, varState, references, native, ext,
          isNull, faults, objNull>>

Pos == 0 .. N - 1
NoRefs == [p \in Pos |-> NULL]

(***************************************************************************)
(* A step of the tracker acts on t = [count, status, faults, refs, native, *)
(* ext], the handles and the variable's arrays, in code order.             *)
(***************************************************************************)
\* dpiGen__setRefCount(h, -1): destroy the handle when the count hits zero
ReleaseRef(t, h) ==
  IF t.status[h] # "live" THEN [t EXCEPT !.faults = @ \cup {"release_of_freed"}]
  ELSE [t EXCEPT !.count[h] = @ - 1,
                 !.status[h] = IF t.count[h] = 1 THEN "freed" ELSE @]

\* dpiGen__setRefCount(h, 1)
AddRef(t, h) ==
  IF t.status[h] # "live" THEN [t EXCEPT !.faults = @ \cup {"addref_of_freed"}]
  ELSE [t EXCEPT !.count[h] = @ + 1]

\* dpiLob__allocate / dpiStmt__allocate: a new handle with one reference
NewHandle(t, h) == [t EXCEPT !.count[h] = 1, !.status[h] = "live"]

\* Faulty variant: the slot is emptied without releasing its reference.
ClearSlotNoRelease(t, i) == [t EXCEPT !.refs[i] = NULL]

\* the "release the current reference of the slot, if any" block
ClearSlot(t, i) ==
  IF t.refs[i] = NULL THEN t
  ELSE [ReleaseRef(t, t.refs[i]) EXCEPT !.refs[i] = NULL]

(***************************************************************************)
(* One iteration of the extendedPreFetch loop for slot i with the new      *)
(* handle h; how = "ok", "alloc" (allocation failed: nothing stored) or    *)
(* "handle" (statements: OCIHandleAlloc failed after the store).           *)
(***************************************************************************)
\* Faulty variants: the caller's dpiData keeps the old handle until the new
\* one is stored; the statement is stored only once OCIHandleAlloc succeeded.
PreFetchSlotKeepExt(t, i, h, how) ==
  LET t1 == [ClearSlot(t, i) EXCEPT !.native[i] = NULL] IN
  CASE how = "alloc"  -> t1
    [] how = "handle" -> [NewHandle(t1, h) EXCEPT !.refs[i] = h]
    [] OTHER          -> [NewHandle(t1, h) EXCEPT !.refs[i] = h, !.native[i] = h,
                                                  !.ext[i] = h]
PreFetchSlotLateStore(t, i, h, how) ==
  LET t1 == [ClearSlot(t, i) EXCEPT !.native[i] = NULL, !.ext[i] = NULL] IN
  CASE how = "alloc"  -> t1
    [] how = "handle" -> NewHandle(t1, h)
    [] OTHER          -> [NewHandle(t1, h) EXCEPT !.refs[i] = h, !.native[i] = h,
                                                  !.ext[i] = h]

PreFetchSlot(t, i, h, how) ==
  LET t1 == [ClearSlot(t, i) EXCEPT !.native[i] = NULL, !.ext[i] = NULL] IN
  CASE how = "alloc"  -> t1
    [] how = "handle" -> [NewHandle(t1, h) EXCEPT !.refs[i] = h]
    [] OTHER          -> [NewHandle(t1, h) EXCEPT !.refs[i] = h, !.native[i] = h,
                                                  !.ext[i] = h]

\* the loop over slots 0 .. N-1, stopping after slot k when it fails there
RECURSIVE PreFetchFrom(_, _, _, _, _)
PreFetchFrom(t, i, fresh, k, how) ==
  IF i = N \/ i > k THEN t
  ELSE PreFetchFrom(PreFetchSlot(t, i, fresh[i + 1], IF i = k THEN how ELSE "ok"),
                    i + 1, fresh, k, how)

\* Faulty variant: the release loop stops one slot short.
RECURSIVE ReleaseFromShort(_, _)
ReleaseFromShort(t, i) == IF i >= N - 1 THEN t ELSE ReleaseFromShort(ClearSlot(t, i), i + 1)

\* the release loop of dpiVar__finalizeBuffers
RECURSIVE ReleaseFrom(_, _)
ReleaseFrom(t, i) == IF i = N THEN t ELSE ReleaseFrom(ClearSlot(t, i), i + 1)

\* Faulty variant: the variable's arrays are dropped, its references kept.
FreeVarNoRelease(t) == [t EXCEPT !.native = NoRefs, !.ext = NoRefs]

\* dpiVar__free: finalizeBuffers releases every reference; the arrays go
FreeVar(t) == [ReleaseFrom(t, 0) EXCEPT !.native = NoRefs, !.ext = NoRefs]

\* the object branch of extendedPreFetch: each slot's object released, its
\* instance, indicator pointer and dpiData cleared; nothing is allocated
PreFetchObjects(t) == [ReleaseFrom(t, 0) EXCEPT !.native = NoRefs, !.ext = NoRefs]

(***************************************************************************)
(* dpiVar__setFromLob/Stmt/Rowid after the handle check: isNull = 0; the  *)
(* same handle is a no-op; otherwise release the old reference and take a *)
(* new one.                                                                *)
(***************************************************************************)
\* Faulty variant: the same-handle test is missing.
SameHandleNever(t, pos, h) == FALSE

SameHandle(t, pos, h) == t.refs[pos] = h

\* Faulty variant: the old reference is overwritten, not released.
SetFromNoRelease(t, pos, h) ==
  IF t.status[h] # "live" THEN [t EXCEPT !.faults = @ \cup {"stale_handle"}]
  ELSE IF SameHandle(t, pos, h) THEN t
  ELSE [AddRef(t, h) EXCEPT !.refs[pos] = h, !.native[pos] = h, !.ext[pos] = h]

\* Faulty variant: the caller's dpiData is not updated to the new handle.
SetFromNoPublish(t, pos, h) ==
  IF t.status[h] # "live" THEN [t EXCEPT !.faults = @ \cup {"stale_handle"}]
  ELSE IF SameHandle(t, pos, h) THEN t
  ELSE [AddRef(ClearSlot(t, pos), h) EXCEPT !.refs[pos] = h, !.native[pos] = h]

\* Faulty variant: data.asObject and objectIndicator keep the old instance.
SetFromKeepNative(t, pos, h) ==
  IF t.status[h] # "live" THEN [t EXCEPT !.faults = @ \cup {"stale_handle"}]
  ELSE IF SameHandle(t, pos, h) THEN t
  ELSE [AddRef(ClearSlot(t, pos), h) EXCEPT !.refs[pos] = h, !.ext[pos] = h]

\* dpiGen__checkHandle reads the handle: on a destroyed one that is a read of
\* freed memory
SetFrom(t, pos, h) ==
  IF t.status[h] # "live" THEN [t EXCEPT !.faults = @ \cup {"stale_handle"}]
  ELSE IF SameHandle(t, pos, h) THEN t
  ELSE [AddRef(ClearSlot(t, pos), h) EXCEPT !.refs[pos] = h, !.native[pos] = h,
                                           !.ext[pos] = h]

(***************************************************************************)
(* A new dpiObject h (one reference) taken by slot pos: references[pos],   *)
(* data.asObject[pos] with objectIndicator[pos], and the dpiData.  Its      *)
(* instance is the slot's (getValue's wrapper) or a new one (setValue).     *)
(***************************************************************************)
Attach(t, pos, h) == [NewHandle(t, h) EXCEPT !.refs[pos] = h, !.native[pos] = h,
                                             !.ext[pos] = h]

\* Faulty variant: getValue wraps the instance on every access.
NeedsWrapAlways(t, pos) == TRUE

\* getValue: "if (!var->references[pos].asObject)"
NeedsWrap(t, pos) == t.refs[pos] = NULL

\* Faulty variant: setValue of a null creates an object whatever the slot holds.
CreatesNullObjectAlways(t, pos) == TRUE

\* setValue of a null: "if (var->objectIndicator && !var->data.asObject[pos])"
CreatesNullObject(t, pos) == t.native[pos] = NULL

-----------------------------------------------------------------------------
Now == [count |-> count, status |-> hstatus, faults |-> faults,
        refs |-> references, native |-> native, ext |-> ext]

Commit(t) == /\ count' = t.count /\ hstatus' = t.status /\ faults' = t.faults
             /\ references' = t.refs /\ native' = t.native /\ ext' = t.ext

\* the N lowest identities not used yet: the handles allocation will make
Unused == {h \in Handles : hstatus[h] = "unused"}
Fresh == SubSeq(SetToSortSeq(Unused, <), 1, N)
CanAllocate == Cardinality(Unused) >= N

\* the identity a single new handle (a dpiObject) takes
NextHandle == Min(Unused)

\* the slots at which the prefetch loop may fail, and how
Failures == IF AllocCanFail
            THEN (Pos \X (IF kind = "STMT" THEN {"alloc", "handle"} ELSE {"alloc"}))
                 \cup {<<N, "ok">>}
            ELSE {<<N, "ok">>}

\* a handle the caller can name: one it holds, or one its dpiData shows
Nameable(h) == callerRefs[h] > 0 \/ h \in {ext[p] : p \in Pos}

\* getValue's null test for objects: the indicator objectIndicator[pos]
\* points at, and null when there is no instance
ObjectIsNull(p) ==
  \/ native[p] \in {NULL, NullInstance}
  \/ native[p] \in Handles /\ objNull[native[p]]

Init ==
  /\ kind \in Kinds
  /\ count = [h \in Handles |-> 0]
  /\ hstatus = [h \in Handles |-> "unused"]
  /\ callerRefs = [h \in Handles |-> 0]
  /\ varState = "none"
  /\ references = NoRefs /\ native = NoRefs /\ ext = NoRefs
  /\ isNull = [p \in Pos |-> TRUE]
  /\ faults = {}
  /\ objNull = [h \in Handles |-> FALSE]

(***************************************************************************)
(* dpiVar__allocate -> initBuffers -> extendedInitialize: calloc the       *)
(* references (and, for objects, malloc the indicator pointers), then      *)
(* extendedPreFetch; on failure dpiVar__free releases what the prefetch    *)
(* stored and the variable is never returned.                              *)
(***************************************************************************)
Allocate ==
  /\ varState = "none"
  /\ \/ /\ AllocCanFail                       \* calloc or malloc failed
        /\ varState' = "freed"
        /\ UNCHANGED <<count, hstatus, faults, references, native, ext>>
     \/ /\ kind = "OBJECT"
        /\ Commit(PreFetchObjects(Now)) /\ varState' = "live"
     \/ /\ kind # "OBJECT" /\ CanAllocate
        /\ \E f \in Failures :
             LET t == PreFetchFrom(Now, 0, Fresh, f[1], f[2]) IN
             IF f[1] = N
             THEN Commit(t) /\ varState' = "live"
             ELSE Commit(FreeVar(t)) /\ varState' = "freed"
  /\ UNCHANGED <<kind, callerRefs, isNull, objNull>>

\* the statement's call of dpiVar__extendedPreFetch before a fetch
PreFetch ==
  /\ varState = "live"
  /\ \/ kind = "OBJECT" /\ Commit(PreFetchObjects(Now))
     \/ /\ kind # "OBJECT" /\ CanAllocate
        /\ \E f \in Failures : Commit(PreFetchFrom(Now, 0, Fresh, f[1], f[2]))
  /\ UNCHANGED <<kind, callerRefs, varState, isNull, objNull>>

\* OCI fetches an object into a cleared slot: a new instance and indicator
OciFetchObject(pos) ==
  /\ varState = "live" /\ kind = "OBJECT" /\ native[pos] = NULL
  /\ \E i \in {NullInstance, ValueInstance} : native' = [native EXCEPT ![pos] = i]
  /\ UNCHANGED <<kind, count, hstatus, callerRefs, varState, references, ext,
                 isNull, faults, objNull>>

\* dpiVar_setFromLob/Stmt/Rowid/Object(pos, h) with a valid handle
SetFromHandle(pos, h) ==
  /\ varState = "live" /\ Nameable(h)
  /\ Commit(SetFrom(Now, pos, h))
  /\ isNull' = [isNull EXCEPT ![pos] = FALSE]
  /\ UNCHANGED <<kind, callerRefs, varState, objNull>>

\* dpiVar__copyData: the null flag is copied; a value goes through setFrom*
\* with the source dpiData's handle, whose check rejects a NULL handle
CopyFrom(t, pos, src) ==
  IF isNull[src] \/ ext[src] = NULL THEN t ELSE SetFrom(t, pos, ext[src])

(***************************************************************************)
(* dpiVar_copyData(var, pos, var, src): pos and src are checked against    *)
(* maxArraySize (the ranges of the quantifier in Next) and the native      *)
(* types match (one variable); then dpiVar__copyData.                      *)
(***************************************************************************)
CopyData(pos, src) ==
  /\ varState = "live"
  /\ isNull' = [isNull EXCEPT ![pos] = isNull[src]]
  /\ Commit(CopyFrom(Now, pos, src))
  /\ UNCHANGED <<kind, callerRefs, varState, objNull>>

(***************************************************************************)
(* dpiVar__getValue of an object slot: isNull from the instance's          *)
(* indicator; for a value, the dpiData is cleared, the instance wrapped in *)
(* a new dpiObject unless the slot already holds one (dpiObject__allocate *)
(* may fail), and the slot's object shown.                                 *)
(***************************************************************************)
GetObject(pos) ==
  /\ isNull' = [isNull EXCEPT ![pos] = ObjectIsNull(pos)]
  /\ IF ObjectIsNull(pos) \/ ~NeedsWrap(Now, pos)
     THEN /\ ext' = IF ObjectIsNull(pos) THEN ext
                    ELSE [ext EXCEPT ![pos] = references[pos]]
          /\ UNCHANGED <<count, hstatus, references, native, faults, objNull>>
     ELSE \/ /\ AllocCanFail
             /\ ext' = [ext EXCEPT ![pos] = NULL]
             /\ UNCHANGED <<count, hstatus, references, native, faults, objNull>>
          \/ /\ Unused # {}
             /\ Commit(Attach(Now, pos, NextHandle))
             /\ objNull' = [objNull EXCEPT ![NextHandle] = FALSE]

\* dpiVar__getValue of a cursor slot: data->value.asStmt = references[pos]
GetValue(pos) ==
  /\ varState = "live"
  /\ \/ /\ kind = "STMT" /\ ~isNull[pos]
        /\ ext' = [ext EXCEPT ![pos] = references[pos]]
        /\ UNCHANGED <<count, hstatus, references, native, isNull, faults, objNull>>
     \/ kind = "OBJECT" /\ GetObject(pos)
  /\ UNCHANGED <<kind, callerRefs, varState>>

(***************************************************************************)
(* dpiVar__setValue of a null object slot, as the statement calls it       *)
(* before an execute: OCI needs an instance, so one is created with its   *)
(* indicator forced to null.  A failed dpiObjectType_createObject changes *)
(* nothing; the other paths set only var->indicator, not modelled here.    *)
(***************************************************************************)
SetValue(pos) ==
  /\ varState = "live" /\ kind = "OBJECT" /\ isNull[pos]
  /\ CreatesNullObject(Now, pos) /\ Unused # {}
  /\ Commit(Attach(Now, pos, NextHandle))
  /\ objNull' = [objNull EXCEPT ![NextHandle] = TRUE]
  /\ UNCHANGED <<kind, callerRefs, varState, isNull>>

\* the caller sets externalData[pos].isNull = 1
SetNull(pos) ==
  /\ varState = "live"
  /\ isNull' = [isNull EXCEPT ![pos] = TRUE]
  /\ UNCHANGED <<kind, count, hstatus, callerRefs, varState, references, native,
                 ext, faults, objNull>>

\* dpiVar_release of the last reference: dpiVar__free -> finalizeBuffers
Release ==
  /\ varState = "live"
  /\ Commit(FreeVar(Now))
  /\ varState' = "freed"
  /\ UNCHANGED <<kind, callerRefs, isNull, objNull>>

(***************************************************************************)
(* The caller's own handles: dpiConn_newTempLob / dpiConn_prepareStmt /    *)
(* dpiObjectType_createObject (one reference), dpiLob_addRef on a handle   *)
(* it holds or sees in its dpiData, and dpiLob_release of one of its       *)
(* references.                                                             *)
(***************************************************************************)
CallerCreate(h) ==
  /\ hstatus[h] = "unused"
  /\ count' = [count EXCEPT ![h] = 1]
  /\ hstatus' = [hstatus EXCEPT ![h] = "live"]
  /\ callerRefs' = [callerRefs EXCEPT ![h] = 1]
  /\ UNCHANGED <<kind, varState, references, native, ext, isNull, faults, objNull>>

CallerAddRef(h) ==
  /\ Nameable(h) /\ callerRefs[h] < MaxCount
  /\ LET t == AddRef(Now, h) IN
     /\ count' = t.count /\ faults' = t.faults
     /\ callerRefs' = IF hstatus[h] = "live" THEN [callerRefs EXCEPT ![h] = @ + 1]
                      ELSE callerRefs
  /\ UNCHANGED <<kind, hstatus, varState, references, native, ext, isNull, objNull>>

CallerRelease(h) ==
  /\ callerRefs[h] > 0
  /\ LET t == ReleaseRef(Now, h) IN
     /\ count' = t.count /\ hstatus' = t.status /\ faults' = t.faults
  /\ callerRefs' = [callerRefs EXCEPT ![h] = @ - 1]
  /\ UNCHANGED <<kind, varState, references, native, ext, isNull, objNull>>

Next ==
  \/ Allocate \/ PreFetch \/ Release
  \/ \E p \in Pos, h \in Handles : SetFromHandle(p, h)
  \/ \E p, q \in Pos : CopyData(p, q)
  \/ \E p \in Pos : GetValue(p) \/ SetValue(p) \/ SetNull(p) \/ OciFetchObject(p)
  \/ \E h \in Handles : CallerCreate(h) \/ CallerAddRef(h) \/ CallerRelease(h)

Spec == Init /\ [][Next]_vars

-----------------------------------------------------------------------------
TypeOK ==
  /\ kind \in Kinds
  /\ count \in [Handles -> 0 .. N + MaxCount]
  /\ hstatus \in [Handles -> {"unused", "live", "freed"}]
  /\ callerRefs \in [Handles -> 0 .. MaxCount]
  /\ varState \in {"none", "live", "freed"}
  /\ references \in [Pos -> Handles \cup {NULL}]
  /\ native \in [Pos -> Handles \cup {NULL, NullInstance, ValueInstance}]
  /\ ext \in [Pos -> Handles \cup {NULL}]
  /\ isNull \in [Pos -> BOOLEAN]
  /\ objNull \in [Handles -> BOOLEAN]

(***************************************************************************)
(* The count of every live handle is exactly the number of its holders:   *)
(* the slots whose references[] point at it and the caller's own          *)
(* references, through replacement by setFrom*/copyData, prefetches that  *)
(* fail part way, and finalizeBuffers; a destroyed handle has no holder.  *)
(***************************************************************************)
Holders(h) == Cardinality({p \in Pos : references[p] = h}) + callerRefs[h]

CountMatchesHolders ==
  \A h \in Handles :
    /\ hstatus[h] = "live" => count[h] = Holders(h)
    /\ hstatus[h] = "freed" => Holders(h) = 0

(***************************************************************************)
(* What the caller's dpiData shows is held by that slot: a handle read    *)
(* from externalData[pos] after a prefetch, even one that failed part     *)
(* way, is never one the variable has released.                           *)
(***************************************************************************)
ExternalIsReference ==
  \A p \in Pos : ext[p] # NULL => ext[p] = references[p]

(***************************************************************************)
(* The locator or instance the native array hands OCI belongs to the      *)
(* handle the slot holds: after setFrom* replaced or prefetch released a  *)
(* slot's handle, data.asObject / asLobLocator never still points into    *)
(* the old one (released, possibly destroyed).                             *)
(***************************************************************************)
NativeIsHeld == \A p \in Pos : native[p] \in Handles => native[p] = references[p]

(***************************************************************************)
(* No reference count is changed, and no handle checked, after the handle *)
(* was destroyed.                                                         *)
(***************************************************************************)
NoStaleHandleUse == faults = {}

(***************************************************************************)
(* The counting tracker implements the ownership specification: the slots *)
(* hold what references[] holds (nothing once the variable is freed) and  *)
(* a handle is destroyed exactly when it loses its last holder.           *)
(***************************************************************************)
Abstract == INSTANCE RefOwnership WITH
              Pos <- Pos, Handles <- Handles,
              slot <- IF varState = "freed" THEN NoRefs ELSE references,
              held <- callerRefs, status <- hstatus

Refinement == Abstract!Spec
=============================================================================
