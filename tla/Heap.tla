-------------------------------- MODULE Heap --------------------------------
(***************************************************************************)
(* The C heap as dpiVar.c uses it.  mem maps every live block to its       *)
(* contents, a sequence of elements (bytes for value buffers, indicators,  *)
(* lengths or dpiData records for the per slot arrays); element i of a C   *)
(* array is mem[b][i + 1].  malloc returns the lowest free block id or,    *)
(* when allowed, NULL; a fresh block holds uninitialised elements.  An     *)
(* access through NULL, to a freed block or past a block's end is a fault, *)
(* named for what it is; the access itself then has no effect.            *)
(***************************************************************************)
EXTENDS Naturals, Sequences, FiniteSetsExt, TLC

CONSTANTS
  BlockIds,         \* addresses malloc may return (bounds the heap)
  MallocCanFail,    \* whether malloc/calloc may return NULL
  NULL, GARBAGE     \* the null pointer; an uninitialised element

ASSUME BlockIds \subseteq Nat /\ MallocCanFail \in BOOLEAN

Garbage(n) == [i \in 1 .. n |-> GARBAGE]
Free(m, b) == [x \in DOMAIN m \ {b} |-> m[x]]
FreeAll(m, S) == [x \in DOMAIN m \ S |-> m[x]]

\* malloc(n) (init = GARBAGE) or calloc(n) (init = the zero element)
Alloc(m, n, init) ==
  LET free == BlockIds \ DOMAIN m
  IN  (IF free = {} THEN {}
       ELSE {[ptr |-> Min(free),
              mem |-> m @@ (Min(free) :> [i \in 1 .. n |-> init])]})
      \cup (IF MallocCanFail THEN {[ptr |-> NULL, mem |-> m]} ELSE {})
Malloc(m, n) == Alloc(m, n, GARBAGE)

\* memcpy(b + off, v, Len(v)): elements past the end of the block are lost
Memcpy(m, b, off, v) ==
  IF b \notin DOMAIN m THEN m
  ELSE [m EXCEPT ![b] = [i \in DOMAIN @ |->
                           IF off < i /\ i <= off + Len(v) THEN v[i - off]
                           ELSE @[i]]]

\* the faults of an access to n elements at b + off
Faults(m, b, off, n, kind) ==
  IF n = 0 THEN {}
  ELSE IF b = NULL THEN {"null_" \o kind}
  ELSE IF b \notin DOMAIN m THEN {"dangling_" \o kind}
  ELSE IF off + n > Len(m[b]) THEN {"overflow_" \o kind}
  ELSE {}
WriteFaults(m, b, off, n) == Faults(m, b, off, n, "write")
ReadFaults(m, b, off, n) == Faults(m, b, off, n, "read")

\* the n elements at b + off, as whoever reads them sees them
Content(m, b, off, n) ==
  [i \in 1 .. n |-> IF b \in DOMAIN m /\ off + i <= Len(m[b])
                    THEN m[b][off + i] ELSE GARBAGE]

\* b[i] and b[i] = x for a C array b
Load(m, b, i) == Content(m, b, i, 1)[1]
Store(m, b, i, x) == Memcpy(m, b, i, <<x>>)
=============================================================================
