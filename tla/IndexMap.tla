------------------------------ MODULE IndexMap ------------------------------
(***************************************************************************)
(* What index.h gives its callers: for each hash code a cell that holds an *)
(* offset, 0 until the caller stores one there, and for a while after an   *)
(* update the pointer to the cell of the code that was asked for.          *)
(***************************************************************************)
EXTENDS Integers

CONSTANTS Code, None

VARIABLES
  isOpen,
  cells,  \* hash code -> offset
  held    \* the code whose cell the caller has a pointer to, or None

vars == <<isOpen, cells, held>>

Clear == cells' = [h \in Code |-> 0] /\ held' = None

Init == isOpen = FALSE /\ cells = [h \in Code |-> 0] /\ held = None

Open == ~isOpen /\ isOpen' = TRUE /\ Clear
Close == isOpen /\ isOpen' = FALSE /\ Clear

\* index_update returns a pointer, or NULL.
Update(h) ==
  /\ isOpen
  /\ held' \in {h, None}
  /\ UNCHANGED <<isOpen, cells>>

\* The caller writes through the pointer.
Store ==
  /\ isOpen /\ held # None
  /\ cells'[held] \in Nat
  /\ cells' = [cells EXCEPT ![held] = cells'[held]]
  /\ held' = None
  /\ UNCHANGED isOpen

Next == Open \/ Close \/ Store \/ \E h \in Code : Update(h)

Spec == Init /\ [][Next]_vars
=============================================================================
