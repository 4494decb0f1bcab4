----------------------------- MODULE RefOwnership -----------------------------
(***************************************************************************)
(* What the Reference Tracker of dpiVar.c promises, without counting: each *)
(* slot of a handle-typed variable (LOB, statement, rowid, object) holds   *)
(* at most one complex handle, the caller holds some references of its     *)
(* own, and a handle is destroyed exactly when its last holder lets go.    *)
(* A handle that is destroyed is never held again.                         *)
(***************************************************************************)
EXTENDS Naturals, FiniteSets, Functions

CONSTANTS Pos, Handles, NULL

VARIABLES
  slot,     \* the handle each slot holds, or NULL
  held,     \* the number of references the caller holds on each handle
  status    \* "unused" (not created yet), "live" or "freed"

avars == <<slot, held, status>>

\* how many holders h has when the slots hold s and the caller hd
Holders(h, s, hd) == Cardinality({p \in Pos : s[p] = h}) + hd[h]

\* a handle that comes into a slot for the first time is created
Born(st, s) == [h \in Handles |-> IF st[h] = "unused" /\ h \in Range(s)
                                  THEN "live" ELSE st[h]]

\* a live handle that has lost its last holder is destroyed at once
Settled(st, s, hd) == [h \in Handles |-> IF st[h] = "live" /\ Holders(h, s, hd) = 0
                                         THEN "freed" ELSE st[h]]

Init ==
  /\ slot = [p \in Pos |-> NULL]
  /\ held = [h \in Handles |-> 0]
  /\ status = [h \in Handles |-> "unused"]

\* the caller creates a handle and holds its only reference
Create(h) ==
  /\ status[h] = "unused"
  /\ status' = [status EXCEPT ![h] = "live"]
  /\ held' = [held EXCEPT ![h] = 1]
  /\ UNCHANGED slot

\* the caller takes one more reference to a live handle
Take(h) ==
  /\ status[h] = "live"
  /\ held' = [held EXCEPT ![h] = @ + 1]
  /\ UNCHANGED <<slot, status>>

\* the caller gives up one of its references
Drop(h) ==
  /\ held[h] > 0
  /\ held' = [held EXCEPT ![h] = @ - 1]
  /\ status' = Settled(status, slot, held')
  /\ UNCHANGED slot

(***************************************************************************)
(* The slots change what they hold; no slot takes up a destroyed handle.   *)
(* Handles E are created and destroyed within the step, never held by      *)
(* anyone once it ends (a setup that fails part way).                      *)
(***************************************************************************)
Reassign(f, E) ==
  /\ \A p \in Pos : f[p] # slot[p] /\ f[p] # NULL => status[f[p]] # "freed"
  /\ \A h \in E : status[h] = "unused" /\ h \notin Range(f)
  /\ slot' = f
  /\ status' = [h \in Handles |-> IF h \in E THEN "freed"
                                  ELSE Settled(Born(status, f), f, held)[h]]
  /\ UNCHANGED held

Next ==
  \/ \E h \in Handles : Create(h) \/ Take(h) \/ Drop(h)
  \/ \E f \in [Pos -> Handles \cup {NULL}], E \in SUBSET Handles : Reassign(f, E)

Spec == Init /\ [][Next]_avars
=============================================================================
