------------------------------- MODULE Index -------------------------------
(***************************************************************************)
(* index.c: an open-addressing hash table with linear probing that grows   *)
(* by rehashing into a larger table. Keys are known by their hash codes    *)
(* only; the chains of KVDB separate the keys that share one.              *)
(*                                                                         *)
(* A rehash is taken one slot at a time: the table it fills is not the one *)
(* lookups use until it is complete.                                       *)
(***************************************************************************)
EXTENDS Integers, FiniteSets

CONSTANTS
  Code,             \* the values hash() returns for the keys in use
  Width,            \* 2^64: sums of uint64_t are taken modulo Width
  Slack,            \* 97 in grow
  LoadNum, LoadDen, \* LOAD is LoadNum / LoadDen, 7/10
  Offset            \* what callers store: offsets into the log

ASSUME IndexAssumption ==
  /\ Width \in Nat \ {0, 1} /\ Code \subseteq 0 .. Width - 1
  /\ Slack \in Nat \ {0} /\ Offset \subseteq Nat
  /\ LoadNum \in Nat /\ LoadDen \in Nat /\ 0 < LoadNum /\ LoadNum < LoadDen

VARIABLES
  pc,   \* "closed", "idle", "rehash" inside grow, "exit" after EXIT("software")
  tab,  \* the table: size, capacity and maps
  new,  \* index_ in grow
  i,    \* the loop counter of grow
  arg,  \* the code of the last index_update, after the test for 0
  ref   \* the slot it returned a pointer into, NoRef when there is none

vars == <<pc, tab, new, i, arg, ref>>

NoRef == -1
NoKey == 0
Slots(t) == 0 .. t.capacity - 1
Table(capacity) ==
  [size |-> 0, capacity |-> capacity,
   maps |-> [j \in 0 .. capacity - 1 |-> [key |-> NoKey, off |-> 0]]]
NoTable == Table(0)

\* Mutant: code 0 is not told apart from an unused slot.
KeyOf_Zero(code) == code
\* index_update and index_lookup replace hash code 0, which marks unused slots.
KeyOf(code) == IF code = 0 THEN 1 ELSE code

\* The slot looked at in the n-th step of a probe.
Probe(t, key, n) == ((key + n) % Width) % t.capacity

\* Mutant: the probe goes past the key itself.
Ends_UnusedOnly(t, key) == {n \in Slots(t) : t.maps[Probe(t, key, n)].key = NoKey}

\* The steps of a probe that end it: an unused slot, or the key itself.
Ends(t, key) == {n \in Slots(t) : t.maps[Probe(t, key, n)].key \in {NoKey, key}}
First(S) == CHOOSE n \in S : \A m \in S : n <= m
SlotFor(t, key) == Probe(t, key, First(Ends(t, key)))

\* Mutant: an unused slot is taken without being counted.
update_NotCounted(t, key) ==
  LET j == SlotFor(t, key)
  IN IF t.maps[j].key = key THEN t
     ELSE [t EXCEPT !.maps[j] = [key |-> key, off |-> 0]]

\* update: the table after a probe that ended.
update(t, key) ==
  LET j == SlotFor(t, key)
  IN IF t.maps[j].key = key THEN t
     ELSE [t EXCEPT !.size = @ + 1, !.maps[j] = [key |-> key, off |-> 0]]

\* index_lookup: the slot of the key, or NoRef.
lookup(t, key) ==
  IF Ends(t, key) # {} /\ t.maps[SlotFor(t, key)].key = key
    THEN SlotFor(t, key) ELSE NoRef

-----------------------------------------------------------------------------
Init ==
  /\ pc = "closed" /\ tab = NoTable /\ new = NoTable
  /\ i = 0 /\ arg = NoKey /\ ref = NoRef

index_open ==
  /\ pc = "closed"
  /\ pc' = "idle"
  /\ UNCHANGED <<tab, new, i, arg, ref>>

\* Mutant: the pointer survives the table.
index_close_KeepsRef ==
  /\ pc = "idle"
  /\ pc' = "closed" /\ tab' = NoTable /\ arg' = NoKey
  /\ UNCHANGED <<new, i, ref>>

index_close ==
  /\ pc = "idle"
  /\ pc' = "closed" /\ tab' = NoTable /\ arg' = NoKey /\ ref' = NoRef
  /\ UNCHANGED <<new, i>>

\* Mutant: the table grows when it is more than full.
Loaded_Late(t) == t.capacity = 0 \/ LoadDen * t.size > LoadDen * t.capacity

\* "LOAD < load", where a table without slots counts as full.
Loaded(t) == t.capacity = 0 \/ LoadDen * t.size > LoadNum * t.capacity

Larger(capacity) == ((capacity + Slack) * 3) \div 2

\* The probe of index_update for a key in table t, which becomes the table.
Place(t, key) ==
  /\ arg' = key
  /\ IF Ends(t, key) = {}
       THEN pc' = "exit" /\ tab' = t /\ ref' = NoRef
       ELSE pc' = "idle" /\ tab' = update(t, key) /\ ref' = SlotFor(t, key)

index_update(code) ==
  LET key == KeyOf(code)
  IN /\ pc = "idle"
     /\ \/ /\ ~Loaded(tab) /\ Place(tab, key) /\ UNCHANGED <<new, i>>
        \/ /\ Loaded(tab)   \* create failed: NULL
           /\ arg' = key /\ ref' = NoRef /\ UNCHANGED <<pc, tab, new, i>>
        \/ /\ Loaded(tab)
           /\ pc' = "rehash" /\ new' = Table(Larger(tab.capacity)) /\ i' = 0
           /\ arg' = key /\ ref' = NoRef /\ UNCHANGED tab

\* Mutant: the key is moved and its offset is not.
Moved_NoOffset(t, slot) == update(t, slot.key)

\* "*(update(&index_, key)) = off".
Moved(t, slot) ==
  LET u == update(t, slot.key)
  IN [u EXCEPT !.maps[SlotFor(t, slot.key)].off = slot.off]

Rehash ==
  /\ pc = "rehash" /\ i < tab.capacity
  /\ LET slot == tab.maps[i]
     IN IF slot.key = NoKey
          THEN UNCHANGED <<pc, new>>
          ELSE IF Ends(new, slot.key) = {}
                 THEN pc' = "exit" /\ UNCHANGED new
                 ELSE new' = Moved(new, slot) /\ UNCHANGED pc
  /\ i' = i + 1
  /\ UNCHANGED <<tab, arg, ref>>

\* Mutant: a code found in the old table keeps its place there.
GrowEnds_OldSlot ==
  /\ pc = "rehash" /\ i = tab.capacity
  /\ pc' = "idle" /\ tab' = update(new, arg) /\ ref' = lookup(tab, arg)
  /\ new' = NoTable /\ i' = 0 /\ UNCHANGED arg

\* destroy, the assignment of the new table, and the probe index_update came for.
GrowEnds ==
  /\ pc = "rehash" /\ i = tab.capacity
  /\ Place(new, arg)
  /\ new' = NoTable /\ i' = 0

\* kvraw_append stores the offset of a record through the pointer (kvdb.c).
Store(off) ==
  /\ pc = "idle" /\ ref # NoRef
  /\ tab' = [tab EXCEPT !.maps[ref].off = off]
  /\ ref' = NoRef
  /\ UNCHANGED <<pc, new, i, arg>>

Next ==
  \/ index_open \/ index_close
  \/ \E code \in Code : index_update(code)
  \/ Rehash \/ GrowEnds
  \/ \E off \in Offset : Store(off)

Spec == Init /\ [][Next]_vars

-----------------------------------------------------------------------------
(***************************************************************************)
(* Properties.                                                             *)
(***************************************************************************)
Slot == [key : 0 .. Width - 1, off : Nat]
IsTable(t) ==
  /\ DOMAIN t = {"size", "capacity", "maps"}
  /\ t.capacity \in Nat /\ t.size \in Nat
  /\ t.maps \in [Slots(t) -> Slot]

TypeOK ==
  /\ pc \in {"closed", "idle", "rehash", "exit"}
  /\ IsTable(tab) /\ IsTable(new)
  /\ i \in 0 .. tab.capacity
  /\ arg \in 0 .. Width - 1
  /\ ref \in Slots(tab) \union {NoRef}

Used(t) == {j \in Slots(t) : t.maps[j].key # NoKey}
Findable(t) == \A j \in Used(t) : lookup(t, t.maps[j].key) = j

(* Probes: in the table and in the one being filled, every used slot is the   *)
(* one a lookup of its code arrives at. So no code is out of reach behind an  *)
(* unused slot and none is stored twice, through any number of rehashes.      *)
(* (update and index_lookup, index.c:82-94 and 172-180)                       *)
EveryCodeFindable == Findable(tab) /\ Findable(new)

(* Load: size is the number of used slots, so that grow sees the true load.   *)
(* Rehash: at every moment of it a lookup in the table being filled finds     *)
(* each code that the loop has passed, with its offset, and every slot used   *)
(* there is one of those. (index.c:87, 106-116)                               *)
Holds(t, slot) ==
  LET j == lookup(t, slot.key) IN j # NoRef /\ t.maps[j].off = slot.off
NothingLost ==
  /\ tab.size = Cardinality(Used(tab)) /\ new.size = Cardinality(Used(new))
  /\ pc = "rehash" =>
       /\ \A u \in Used(tab) : u < i => Holds(new, tab.maps[u])
       /\ \A j \in Used(new) : \E u \in Used(tab) : u < i /\ tab.maps[u] = new.maps[j]

(* The probe that EXIT("software") claims never to run out of slots does so   *)
(* only where a sum wraps: for a code within a table's capacity of Width. For *)
(* every other code grow has left an unused slot. (index.c:82-95, 106-108)    *)
ExitsOnlyWhenWrapped ==
  pc = "exit" =>
    IF i = 0 THEN arg + tab.capacity > Width
    ELSE tab.maps[i - 1].key + new.capacity > Width

(* The table implements IndexMap: only the caller changes what a code maps    *)
(* to; neither an update nor any step of a rehash does. A code that is not in *)
(* the table and one whose cell holds 0 are the same to kvdb.c (kvdb.c:335).  *)
(* The pointer a caller holds is to the cell of the code it asked for.        *)
(* (index_update, index_lookup and grow, index.c:99-182)                      *)
Keys == {KeyOf(code) : code \in Code}
cells ==
  [key \in Keys |->
    LET j == lookup(tab, key) IN IF j = NoRef THEN 0 ELSE tab.maps[j].off]
held == IF ref = NoRef THEN NoKey ELSE tab.maps[ref].key
Map == INSTANCE IndexMap WITH Code <- Keys, None <- NoKey, isOpen <- pc # "closed"
ImplementsMap == Map!Spec
=============================================================================
