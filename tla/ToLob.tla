-------------------------------- MODULE ToLob --------------------------------
(***************************************************************************)
(* dpiVar__convertToLob composed with the chunk storage of DynamicBytes: a *)
(* dynamic (long) variable is turned into a LOB variable, initBuffers      *)
(* gives every slot a temporary LOB (extendedPreFetch with dynamicBytes    *)
(* set), and every slot with numChunks > 0 has chunks[0] written into its  *)
(* LOB.  The dynamic byte structures stay until the variable is freed.     *)
(* Any step of the conversion may fail; the type change stays.             *)
(* Before the conversion the variable behaves as in DynamicBytes.  After   *)
(* it, setFromBytes writes the slot's LOB, setValue sets the indicator,    *)
(* getValue reads the LOB back into the kept chunks (setBytesFromLob), and *)
(* the variable is released.  The LOB is a BLOB (converted from RAW/LONG   *)
(* RAW): its length in bytes is its length.                                *)
(***************************************************************************)
EXTENDS DynamicBytes

CONSTANTS
  Roles,   \* how the statement used the variable before the conversion
  NOLOB    \* a slot without a LOB: references[pos].asLOB is NULL

VARIABLES
  lob,         \* the content of each slot's temporary LOB, or NOLOB
  conversion,  \* "none", "done", or "failed" (the type changed all the same)
  lobRefs      \* var->references exists (initBuffers got as far as its calloc)

tvars == <<vars, lob, conversion, lobRefs>>

\* Faulty variant: copies the chunk's whole reservation, not its length.
FirstChunkReserve(d, m) == Content(m, d.chunks[1].ptr, 0, d.chunks[1].allocatedLength)

\* dpiLob__setFromBytes(lob, dynBytes->chunks->ptr, dynBytes->chunks->length)
FirstChunkBytes(d, m) == Content(m, d.chunks[1].ptr, 0, d.chunks[1].length)

\* the slots the copy loop writes: those with numChunks > 0
Copied == {p \in Slots : dynamicBytes[p].numChunks > 0}

(***************************************************************************)
(* How dpiVar__convertToLob ends: "ok"; "buffers" (the malloc of the       *)
(* locator array, of actualLength or the calloc of references failed:      *)
(* initBuffers stops before any LOB exists); "lob" at k (dpiLob__allocate  *)
(* failed for slot k of the extendedPreFetch loop: slots from k on have no *)
(* LOB); "temp" at k (dpiLob__createTemporary failed for slot k, after the *)
(* LOB was stored in references[k]: only later slots have none; writes to  *)
(* slot k's locator are taken to succeed, like every dpiLob write but the  *)
(* copy loop's); "copy" at k (dpiLob__setFromBytes failed for copied slot  *)
(* k: later slots stay empty).                                             *)
(***************************************************************************)
ConvertOutcomes ==
  {[how |-> "ok", k |-> Cardinality(Slots)]}
  \cup (IF MallocCanFail
        THEN {[how |-> "buffers", k |-> 0]}
             \cup {[how |-> h, k |-> i] : h \in {"lob", "temp"}, i \in Slots}
             \cup {[how |-> "copy", k |-> i] : i \in Copied}
        ELSE {})

\* the temporary LOBs initBuffers leaves, before the copy loop
NewLobs(o) == [p \in Slots |-> IF \/ o.how = "buffers"
                                  \/ o.how = "lob" /\ p >= o.k
                                  \/ o.how = "temp" /\ p > o.k
                               THEN NOLOB ELSE <<>>]

\* the slots whose chunks[0] the copy loop wrote before it ended
CopiedBefore(o) == {p \in Copied : o.how = "ok" \/ (o.how = "copy" /\ p < o.k)}

InitToLob ==
  /\ Init /\ role \in Roles
  /\ lob = [p \in Slots |-> NOLOB]
  /\ conversion = "none"
  /\ lobRefs = FALSE

(***************************************************************************)
(* dpiVar__convertToLob: the type becomes a LOB type, isDynamic 0, the     *)
(* buffers are reinitialized (each slot a new, empty temporary LOB) and    *)
(* chunks[0] of every slot with data is copied into its LOB.               *)
(***************************************************************************)
ConvertToLob ==
  /\ Idle /\ conversion = "none"
  /\ \E o \in ConvertOutcomes :
       /\ lob' = [p \in Slots |-> IF p \in CopiedBefore(o)
                                  THEN FirstChunkBytes(dynamicBytes[p], mem)
                                  ELSE NewLobs(o)[p]]
       /\ faults' = faults \cup
                    UNION {ReadFaults(mem, dynamicBytes[p].chunks[1].ptr,
                                      0, dynamicBytes[p].chunks[1].length)
                           : p \in CopiedBefore(o)}
       /\ conversion' = IF o.how = "ok" THEN "done" ELSE "failed"
       /\ lobRefs' = (o.how # "buffers")
  /\ UNCHANGED <<mem, dynamicBytes, indicator, externalData, fetch, want,
                 readable, read, freed, role>>

Converted == conversion # "none"

\* dpiLob__setFromBytes / OCILobGetLength2 on references[pos].asLOB when
\* that is NULL (or references itself is): a NULL dereference
NoLob(p) == ~lobRefs \/ lob[p] = NOLOB

(***************************************************************************)
(* dpiVar__setFromBytes on the converted variable: isNull = 0, and "for    *)
(* internally used LOBs" (var->references set) the value is written into   *)
(* references[pos].asLOB (dpiLob__setFromBytes, taken to succeed); the     *)
(* chunks are not touched, and there is no length check while             *)
(* dynamicBytes is set.  Without a references array the dynamic path of    *)
(* DynamicBytes runs instead (NextToLob).                                  *)
(***************************************************************************)
SetFromBytesLob(p, v) ==
  /\ Idle /\ Bind /\ Converted /\ lobRefs
  /\ externalData' = [externalData EXCEPT ![p].isNull = FALSE]
  /\ \/ /\ lob[p] # NOLOB
        /\ lob' = [lob EXCEPT ![p] = v]
        /\ want' = [want EXCEPT ![p] = v]
        /\ UNCHANGED faults
     \/ /\ lob[p] = NOLOB
        /\ faults' = faults \cup {"null_lob"}
        /\ UNCHANGED <<lob, want>>
  /\ readable' = [readable EXCEPT ![p] = FALSE]
  /\ UNCHANGED <<mem, dynamicBytes, indicator, fetch, read, freed, role,
                 conversion, lobRefs>>

\* "if (lengthInBytes > UB4MAXVAL)": the length must fit a uint32_t
LobLengthFits(v) == Len(v) < UINT32_MOD

\* Faulty variant: the chunk keeps the length OCI was offered, its reserve.
LobReadLengthReserve(c, v) == c.allocatedLength

\* dynBytes->chunks->length = lengthReadInBytes
LobReadLength(c, v) == Len(v)

\* the outcomes of the length check and allocateDynamicBytes for slot p
LobSpace(p) ==
  IF LobLengthFits(lob[p])
  THEN AllocateDynamicBytes(dynamicBytes[p], mem, Len(lob[p]))
  ELSE {[ok |-> FALSE, d |-> dynamicBytes[p], mem |-> mem]}

(***************************************************************************)
(* dpiVar__getValue of the converted variable: the null check on the       *)
(* indicator, then dpiVar__setBytesFromLob: the LOB's length is checked,   *)
(* allocateDynamicBytes makes chunks[0] large enough (numChunks is left    *)
(* 0), dpiLob__readBytes (when the length is not 0; an OCI error may fail *)
(* it) copies the LOB into it, and the dpiData shows chunks[0].            *)
(***************************************************************************)
GetValueLob(p) ==
  /\ Idle /\ Converted
  /\ readable[p] /\ want[p] # NOVALUE
  /\ \/ /\ indicator[p] = "null"
        /\ externalData' = [externalData EXCEPT ![p].isNull = TRUE]
        /\ read' = [pos |-> p, bytes |-> DBNULL, want |-> want[p]]
        /\ UNCHANGED <<mem, dynamicBytes, faults>>
     \/ /\ indicator[p] = "notnull" /\ NoLob(p)
        /\ externalData' = [externalData EXCEPT ![p].isNull = FALSE]
        /\ faults' = faults \cup {"null_lob"}
        /\ UNCHANGED <<mem, dynamicBytes, read>>
     \/ /\ indicator[p] = "notnull" /\ ~NoLob(p)
        /\ \E o \in LobSpace(p) :
           LET c == o.d.chunks[1] IN
           \/ /\ (~o.ok \/ lob[p] # <<>>)        \* or readBytes fails
              /\ dynamicBytes' = [dynamicBytes EXCEPT ![p] = o.d]
              /\ externalData' = [externalData EXCEPT ![p].isNull = FALSE]
              /\ mem' = o.mem
              /\ UNCHANGED <<faults, read>>
           \/ /\ o.ok
              /\ LET n == LobReadLength(c, lob[p])
                     m == Memcpy(o.mem, c.ptr, 0, lob[p]) IN
                 /\ dynamicBytes' = [dynamicBytes EXCEPT ![p] =
                                       [o.d EXCEPT !.chunks[1].length = n]]
                 /\ mem' = m
                 /\ faults' = faults \cup WriteFaults(o.mem, c.ptr, 0, Len(lob[p]))
                 /\ externalData' = [externalData EXCEPT ![p] =
                                       [isNull |-> FALSE, ptr |-> c.ptr,
                                        length |-> n]]
                 /\ read' = [pos |-> p, want |-> lob[p],
                             bytes |-> Content(m, c.ptr, 0, n)]
  /\ UNCHANGED <<lob, indicator, fetch, want, readable, freed, role, conversion,
                 lobRefs>>

NextToLob ==
  \/ ~Converted /\ Next /\ UNCHANGED <<lob, conversion, lobRefs>>
  \/ ConvertToLob
  \/ \E p \in Slots, v \in Values :
       \/ SetFromBytesLob(p, v)
       \/ Converted /\ ~lobRefs /\ SetFromBytes(p, v)
          /\ UNCHANGED <<lob, conversion, lobRefs>>
  \/ \E p \in Slots : Converted /\ SetValue(p) /\ UNCHANGED <<lob, conversion, lobRefs>>
  \/ \E p \in Slots : GetValueLob(p)
  \/ /\ Converted /\ Release /\ lob' = [p \in Slots |-> NOLOB]
     /\ UNCHANGED <<conversion, lobRefs>>

SpecToLob == InitToLob /\ [][NextToLob]_tvars

-----------------------------------------------------------------------------
(***************************************************************************)
(* Every slot that held a value before a conversion that succeeded (set by *)
(* setFromBytes or fetched, however many pieces it came in) holds that     *)
(* value in its LOB afterwards (spec §4.6: accumulated chunk data is       *)
(* copied byte-for-byte).                                                  *)
(***************************************************************************)
LobHoldsValue ==
  conversion = "done" /\ ~freed =>
    \A p \in Slots : want[p] \in Values => lob[p] = want[p]

(***************************************************************************)
(* The same for a variable the statement used for binds: every value       *)
(* setFromBytes stored (in one chunk, whatever its reserve) reaches the    *)
(* slot's LOB intact.                                                      *)
(***************************************************************************)
LobHoldsBoundValue == role = "bind" => LobHoldsValue
=============================================================================
