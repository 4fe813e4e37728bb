---------------------------- MODULE IndexProofs ----------------------------
(***************************************************************************)
(* Proofs about Index, for every set of hash codes, every width and every  *)
(* growth and load constants: the table stays well formed, and a lookup    *)
(* arrives at every slot in use.                                           *)
(***************************************************************************)
EXTENDS Index, TLAPS, FiniteSetTheorems, WellFoundedInduction

(* A slot as its own probe sees it: reached in some step, with every step    *)
(* before it at a slot that another key uses.                                *)
Reached(t, j) ==
  \E n \in Slots(t) :
    /\ Probe(t, t.maps[j].key, n) = j
    /\ \A m \in Slots(t) :
         m < n => t.maps[Probe(t, t.maps[j].key, m)].key \notin {NoKey, t.maps[j].key}

Tight(t) == \A j \in Used(t) : Reached(t, j)

NatLess == {ss \in Nat \X Nat : ss[1] < ss[2]}

LEMMA FirstIsLeast ==
  ASSUME NEW S \in SUBSET Nat, S # {}
  PROVE  First(S) \in S /\ \A m \in S : First(S) <= m
<1>1. IsWellFoundedOn(NatLess, Nat)
  BY NatLessThanWellFounded, Zenon DEF OpToRel, NatLess
<1>2. PICK n \in S : \A m \in S : <<m, n>> \notin NatLess
  BY <1>1, WFMin
<1>3. ASSUME NEW m \in S PROVE n <= m
  <2>1. ~(m < n)
    BY <1>2 DEF NatLess
  <2>2. QED
    BY <2>1
<1>4. QED
  BY <1>3 DEF First

(* A probe stays inside the table. *)
LEMMA ProbeInTable ==
  ASSUME NEW t, IsTable(t), NEW key \in 0 .. Width - 1, NEW n \in Slots(t)
  PROVE  Probe(t, key, n) \in Slots(t)
<1>1. t.capacity \in Nat \ {0} /\ n \in Nat /\ key \in Nat
  BY IndexAssumption DEF IsTable, Slots
<1>2. (key + n) % Width \in Nat
  BY <1>1, IndexAssumption
<1>3. ((key + n) % Width) % t.capacity \in 0 .. t.capacity - 1
  BY <1>1, <1>2
<1>4. QED
  BY <1>3 DEF Probe, Slots

(* Where a probe that ends, ends. *)
LEMMA ProbeEnds ==
  ASSUME NEW t, IsTable(t), NEW key \in 0 .. Width - 1, Ends(t, key) # {}
  PROVE  /\ First(Ends(t, key)) \in Slots(t)
         /\ SlotFor(t, key) = Probe(t, key, First(Ends(t, key)))
         /\ SlotFor(t, key) \in Slots(t)
         /\ t.maps[SlotFor(t, key)].key \in {NoKey, key}
         /\ \A m \in Slots(t) : m < First(Ends(t, key)) =>
              t.maps[Probe(t, key, m)].key \notin {NoKey, key}
<1>1. Slots(t) \subseteq Nat /\ Ends(t, key) \subseteq Slots(t)
  BY DEF Slots, Ends
<1>2. /\ First(Ends(t, key)) \in Ends(t, key)
      /\ \A m \in Ends(t, key) : First(Ends(t, key)) <= m
  BY <1>1, FirstIsLeast
<1>3. \A m \in Slots(t) : m < First(Ends(t, key)) => m \notin Ends(t, key)
  BY <1>1, <1>2
<1>4. QED
  BY <1>1, <1>2, <1>3, ProbeInTable DEF SlotFor, Ends

(* Tight tables are what lookups need. *)
LEMMA TightIsFindable ==
  ASSUME NEW t, IsTable(t), Tight(t)
  PROVE  Findable(t)
<1> SUFFICES ASSUME NEW j \in Used(t)
             PROVE  lookup(t, t.maps[j].key) = j
  BY DEF Findable
<1> DEFINE key == t.maps[j].key
<1>1. key \in 0 .. Width - 1 /\ j \in Slots(t) /\ key # NoKey
  BY DEF Used, IsTable, Slot
<1>2. PICK n \in Slots(t) :
        /\ Probe(t, key, n) = j
        /\ \A m \in Slots(t) : m < n => t.maps[Probe(t, key, m)].key \notin {NoKey, key}
  BY DEF Tight, Reached
<1>3. n \in Ends(t, key)
  BY <1>2 DEF Ends
<1>4. First(Ends(t, key)) = n
  <2>1. Ends(t, key) \in SUBSET Nat /\ Ends(t, key) # {}
    BY <1>3 DEF Ends, Slots
  <2>2. /\ First(Ends(t, key)) \in Ends(t, key)
        /\ First(Ends(t, key)) <= n
    BY <1>3, <2>1, FirstIsLeast
  <2>3. ~(First(Ends(t, key)) < n)
    BY <1>2, <2>2 DEF Ends
  <2>4. n \in Nat /\ First(Ends(t, key)) \in Nat
    BY <1>3, <2>1, <2>2
  <2>5. QED
    BY <2>2, <2>3, <2>4
<1>5. SlotFor(t, key) = j
  BY <1>2, <1>4 DEF SlotFor
<1>6. QED
  BY <1>3, <1>5 DEF lookup

(* An update of a key keeps a table well formed and tight, whatever the      *)
(* offset that is stored with it.                                            *)
LEMMA UpdateKeeps ==
  ASSUME NEW t, IsTable(t), Tight(t), NEW key \in 1 .. Width - 1, Ends(t, key) # {}
  PROVE  /\ IsTable(update(t, key)) /\ Tight(update(t, key))
         /\ update(t, key).capacity = t.capacity
         /\ SlotFor(t, key) \in Slots(t)
         /\ update(t, key).maps[SlotFor(t, key)].key = key
<1> DEFINE j == SlotFor(t, key)
           u == update(t, key)
           f == First(Ends(t, key))
<1>1. /\ j \in Slots(t) /\ t.maps[j].key \in {NoKey, key} /\ key # NoKey
      /\ f \in Slots(t) /\ j = Probe(t, key, f)
      /\ \A m \in Slots(t) : m < f => t.maps[Probe(t, key, m)].key \notin {NoKey, key}
  BY ProbeEnds, IndexAssumption DEF NoKey
<1>2. CASE t.maps[j].key = key
  BY <1>1, <1>2 DEF update
<1>3. CASE t.maps[j].key = NoKey
  <2>1. /\ u = [t EXCEPT !.size = @ + 1, !.maps[j] = [key |-> key, off |-> 0]]
    BY <1>1, <1>3 DEF update
  <2>2. /\ u.capacity = t.capacity /\ u.size = t.size + 1
        /\ u.maps = [t.maps EXCEPT ![j] = [key |-> key, off |-> 0]]
        /\ DOMAIN u = {"size", "capacity", "maps"} /\ Slots(u) = Slots(t)
    BY <2>1 DEF IsTable, Slots
  <2>3. /\ \A s \in Slots(t) : s # j => u.maps[s] = t.maps[s]
        /\ u.maps[j].key = key
    BY <1>1, <2>2 DEF IsTable
  <2>4. IsTable(u)
    BY <1>1, <2>2, IndexAssumption DEF IsTable, Slot
  <2>5. \A k, n : Probe(u, k, n) = Probe(t, k, n)
    BY <2>2 DEF Probe
  <2>6. ASSUME NEW s \in Used(u) PROVE Reached(u, s)
    <3>1. CASE s = j
      <4>1. \A m \in Slots(t) : m < f => Probe(t, key, m) \in Slots(t) /\ Probe(t, key, m) # j
        BY <1>1, <1>3, ProbeInTable, IndexAssumption
      <4>2. QED
        BY <1>1, <2>2, <2>3, <2>5, <3>1, <4>1 DEF Reached
    <3>2. CASE s # j
      <4> DEFINE k == t.maps[s].key
      <4>1. s \in Used(t) /\ u.maps[s] = t.maps[s] /\ k \in 0 .. Width - 1 /\ s \in Slots(t)
        BY <2>2, <2>3, <3>2 DEF Used, IsTable, Slot
      <4>2. PICK n \in Slots(t) :
              /\ Probe(t, k, n) = s
              /\ \A m \in Slots(t) : m < n => t.maps[Probe(t, k, m)].key \notin {NoKey, k}
        BY <4>1 DEF Tight, Reached
      <4>3. \A m \in Slots(t) : m < n => Probe(t, k, m) \in Slots(t) /\ Probe(t, k, m) # j
        BY <1>3, <4>1, <4>2, ProbeInTable
      <4>4. \A m \in Slots(t) : m < n => u.maps[Probe(t, k, m)].key \notin {NoKey, k}
        BY <2>3, <4>2, <4>3
      <4>5. QED
        BY <2>2, <2>5, <4>1, <4>2, <4>4 DEF Reached
    <3>3. QED
      BY <3>1, <3>2
  <2>7. QED
    BY <1>1, <2>2, <2>3, <2>4, <2>6 DEF Tight
<1>4. QED
  BY <1>1, <1>2, <1>3

LEMMA EmptyTable ==
  ASSUME NEW capacity \in Nat
  PROVE  IsTable(Table(capacity)) /\ Tight(Table(capacity))
<1>1. IsTable(Table(capacity))
  BY IndexAssumption DEF IsTable, Table, Slots, Slot, NoKey
<1>2. Used(Table(capacity)) = {}
  BY DEF Used, Table, Slots
<1>3. QED
  BY <1>1, <1>2 DEF Tight

(* Storing an offset in a slot changes no probe. *)
LEMMA OffsetKeeps ==
  ASSUME NEW t, IsTable(t), Tight(t), NEW j \in Slots(t), NEW off \in Nat
  PROVE  LET u == [t EXCEPT !.maps[j].off = off]
         IN IsTable(u) /\ Tight(u) /\ Slots(u) = Slots(t) /\ u.capacity = t.capacity
<1> DEFINE u == [t EXCEPT !.maps[j].off = off]
<1>1. /\ u.maps = [t.maps EXCEPT ![j].off = off] /\ u.capacity = t.capacity
      /\ u.size = t.size /\ DOMAIN u = {"size", "capacity", "maps"} /\ Slots(u) = Slots(t)
  BY DEF IsTable, Slots
<1>2. \A s \in Slots(t) : u.maps[s].key = t.maps[s].key
  BY <1>1 DEF IsTable, Slot
<1>3. u.maps[j] = [key |-> t.maps[j].key, off |-> off]
  BY <1>1 DEF IsTable, Slot
<1>4. IsTable(u)
  BY <1>1, <1>3 DEF IsTable, Slot
<1>5. \A key, n : Probe(u, key, n) = Probe(t, key, n)
  BY <1>1 DEF Probe
<1>6. ASSUME NEW s \in Used(u) PROVE Reached(u, s)
  <2> DEFINE k == t.maps[s].key
  <2>1. s \in Used(t) /\ s \in Slots(t) /\ u.maps[s].key = k /\ k \in 0 .. Width - 1
    BY <1>1, <1>2 DEF Used, IsTable, Slot
  <2>2. PICK n \in Slots(t) :
          /\ Probe(t, k, n) = s
          /\ \A m \in Slots(t) : m < n => t.maps[Probe(t, k, m)].key \notin {NoKey, k}
    BY <2>1 DEF Tight, Reached
  <2>3. \A m \in Slots(t) : Probe(t, k, m) \in Slots(t)
    BY <2>1, ProbeInTable
  <2>4. \A m \in Slots(t) : m < n => u.maps[Probe(t, k, m)].key \notin {NoKey, k}
    BY <1>2, <2>2, <2>3
  <2>5. QED
    BY <1>1, <1>5, <2>1, <2>2, <2>4, SMTT(40) DEF Reached
<1>7. QED
  BY <1>1, <1>4, <1>6 DEF Tight

-----------------------------------------------------------------------------
(* The inductive invariant: both tables are tight at every moment, also in   *)
(* the middle of a rehash.                                                   *)
IInv ==
  /\ TypeOK
  /\ Tight(tab) /\ Tight(new)
  /\ pc = "rehash" => arg # NoKey
  /\ pc \in {"closed", "idle"} => i = 0

LEMMA KeyOfType ==
  ASSUME NEW code \in Code
  PROVE  KeyOf(code) \in 1 .. Width - 1
  BY IndexAssumption DEF KeyOf

LEMMA PlaceKeeps ==
  ASSUME NEW t, IsTable(t), Tight(t), NEW key \in 1 .. Width - 1, Place(t, key)
  PROVE  /\ pc' \in {"exit", "idle"} /\ arg' = key
         /\ IsTable(tab') /\ Tight(tab') /\ tab'.capacity = t.capacity
         /\ ref' \in Slots(tab') \union {NoRef}
<1>1. CASE Ends(t, key) = {}
  BY <1>1 DEF Place
<1>2. CASE Ends(t, key) # {}
  BY <1>2, UpdateKeeps DEF Place, Slots
<1>3. QED
  BY <1>1, <1>2

LEMMA IndexInvNext == IInv /\ [Next]_vars => IInv'
<1> SUFFICES ASSUME IInv, [Next]_vars PROVE IInv'
  OBVIOUS
<1>1. /\ pc \in {"closed", "idle", "rehash", "exit"} /\ IsTable(tab) /\ IsTable(new)
      /\ i \in 0 .. tab.capacity /\ arg \in 0 .. Width - 1
      /\ ref \in Slots(tab) \union {NoRef} /\ Tight(tab) /\ Tight(new)
      /\ tab.capacity \in Nat /\ new.capacity \in Nat
      /\ Width \in Nat /\ Width > 1 /\ (pc \in {"closed", "idle"} => i = 0)
  BY IndexAssumption DEF IInv, TypeOK, IsTable
<1>2. IsTable(NoTable) /\ Tight(NoTable) /\ NoTable.capacity = 0
  BY EmptyTable DEF NoTable, Table
<1>3. CASE index_open
  BY <1>1, <1>3 DEF index_open, IInv, TypeOK
<1>4. CASE index_close
  BY <1>1, <1>2, <1>4 DEF index_close, IInv, TypeOK, NoKey
<1>5. ASSUME NEW code \in Code, index_update(code) PROVE IInv'
  <2> DEFINE key == KeyOf(code)
  <2>1. key \in 1 .. Width - 1 /\ key \in 0 .. Width - 1 /\ key # NoKey
    BY <1>1, KeyOfType DEF NoKey
  <2>2. CASE Place(tab, key) /\ UNCHANGED <<new, i>>
    <3>1. /\ pc' \in {"exit", "idle"} /\ arg' = key
          /\ IsTable(tab') /\ Tight(tab') /\ tab'.capacity = tab.capacity
          /\ ref' \in Slots(tab') \union {NoRef}
      BY <1>1, <2>1, <2>2, PlaceKeeps
    <3>2. pc = "idle"
      BY <1>5 DEF index_update
    <3>3. QED
      BY <1>1, <2>1, <2>2, <3>1, <3>2 DEF IInv, TypeOK
  <2>3. CASE arg' = key /\ ref' = NoRef /\ UNCHANGED <<pc, tab, new, i>>
    <3>1. pc = "idle"
      BY <1>5 DEF index_update
    <3>2. QED
      BY <1>1, <2>1, <2>3, <3>1 DEF IInv, TypeOK
  <2>4. CASE /\ pc' = "rehash" /\ new' = Table(Larger(tab.capacity)) /\ i' = 0
             /\ arg' = key /\ ref' = NoRef /\ UNCHANGED tab
    <3>1. Larger(tab.capacity) \in Nat
      BY <1>1, IndexAssumption DEF Larger
    <3>2. IsTable(new') /\ Tight(new')
      BY <2>4, <3>1, EmptyTable
    <3>3. QED
      BY <1>1, <2>1, <2>4, <3>2 DEF IInv, TypeOK
  <2>5. QED
    BY <1>5, <2>2, <2>3, <2>4 DEF index_update
<1>6. CASE Rehash
  <2> DEFINE slot == tab.maps[i]
  <2>1. /\ i \in Slots(tab) /\ slot \in Slot /\ i' = i + 1 /\ i' \in 0 .. tab.capacity
        /\ pc = "rehash" /\ UNCHANGED <<tab, arg, ref>>
    BY <1>1, <1>6, SMTT(40) DEF Rehash, Slots, IsTable
  <2>2. CASE UNCHANGED new /\ pc' \in {"rehash", "exit"}
    BY <1>1, <2>1, <2>2 DEF IInv, TypeOK
  <2>3. CASE slot.key # NoKey /\ Ends(new, slot.key) # {}
    <3>1. slot.key \in 1 .. Width - 1 /\ slot.off \in Nat
      BY <1>1, <2>1, <2>3 DEF Slot, NoKey
    <3> DEFINE u == update(new, slot.key)
    <3>2. IsTable(u) /\ Tight(u) /\ SlotFor(new, slot.key) \in Slots(u)
      BY <1>1, <2>3, <3>1, UpdateKeeps DEF Slots
    <3>3. new' = [u EXCEPT !.maps[SlotFor(new, slot.key)].off = slot.off] /\ pc' = pc
      BY <1>6, <2>3 DEF Rehash, Moved
    <3>4. IsTable(new') /\ Tight(new')
      BY <3>1, <3>2, <3>3, OffsetKeeps
    <3>5. QED
      BY <1>1, <2>1, <3>3, <3>4 DEF IInv, TypeOK
  <2>4. QED
    BY <1>6, <2>1, <2>2, <2>3 DEF Rehash
<1>7. CASE GrowEnds
  <2>1. /\ pc' \in {"exit", "idle"} /\ arg' = arg
        /\ IsTable(tab') /\ Tight(tab') /\ tab'.capacity \in Nat
        /\ ref' \in Slots(tab') \union {NoRef}
    <3>1. arg \in 1 .. Width - 1
      BY <1>1, <1>7 DEF GrowEnds, IInv, NoKey
    <3>2. QED
      BY <1>1, <1>7, <3>1, PlaceKeeps DEF GrowEnds
  <2>2. QED
    BY <1>1, <1>2, <1>7, <2>1 DEF GrowEnds, IInv, TypeOK
<1>8. ASSUME NEW off \in Offset, Store(off) PROVE IInv'
  <2>1. off \in Nat /\ ref \in Slots(tab)
    BY <1>1, <1>8, IndexAssumption DEF Store
  <2>2. /\ IsTable(tab') /\ Tight(tab') /\ Slots(tab') = Slots(tab)
        /\ tab'.capacity = tab.capacity
    <3>1. tab' = [tab EXCEPT !.maps[ref].off = off]
      BY <1>8 DEF Store
    <3>2. QED
      BY <1>1, <2>1, <3>1, OffsetKeeps
  <2>3. QED
    BY <1>1, <1>8, <2>2 DEF Store, IInv, TypeOK
<1>9. CASE UNCHANGED vars
  BY <1>9 DEF vars, IInv, TypeOK
<1>10. QED
  BY <1>3, <1>4, <1>5, <1>6, <1>7, <1>8, <1>9 DEF Next

LEMMA IndexInvInit == Init => IInv
<1>1. IsTable(NoTable) /\ Tight(NoTable) /\ NoTable.capacity = 0
  BY EmptyTable DEF NoTable, Table
<1>2. QED
  BY <1>1, IndexAssumption DEF Init, IInv, TypeOK, NoKey

LEMMA IndexInvariant == Spec => []IInv
<1>1. QED
  BY IndexInvInit, IndexInvNext, PTL DEF Spec

(* Theorem: the tables are well formed and the counter of the rehash and the *)
(* pointer given out stay inside the table (index.c).                        *)
THEOREM IndexTypeCorrect == Spec => []TypeOK
<1>1. IInv => TypeOK
  BY DEF IInv
<1>2. QED
  BY IndexInvariant, <1>1, PTL

(* Theorem: every slot in use is the one a lookup of its code arrives at, in *)
(* the table and in the one a rehash is filling, for every width of the      *)
(* integers and every growth and load constants (update and index_lookup).   *)
THEOREM EveryCodeIsFindable == Spec => []EveryCodeFindable
<1>1. IInv => EveryCodeFindable
  BY TightIsFindable DEF IInv, TypeOK, EveryCodeFindable
<1>2. QED
  BY IndexInvariant, <1>1, PTL

-----------------------------------------------------------------------------
(***************************************************************************)
(* Sizes: what the counter in a table says, and when a probe can run out.  *)
(***************************************************************************)
Counted(t) == t.size = Cardinality(Used(t))
Contents(t) == {t.maps[j] : j \in Used(t)}

(* Numbers less than c apart have different remainders.                      *)
LEMMA DivMod ==
  ASSUME NEW a \in Nat, NEW c \in Nat \ {0}
  PROVE  a = c * (a \div c) + (a % c) /\ a \div c \in Int /\ a % c \in 0 .. c - 1
OBVIOUS

LEMMA RemaindersDiffer ==
  ASSUME NEW c \in Nat \ {0}, NEW a \in Nat, NEW b \in Nat, a < b, b < a + c
  PROVE  a % c # b % c
<1> DEFINE p == a \div c
           q == b \div c
           r == a % c
<1>1. SUFFICES ASSUME r = b % c PROVE FALSE
  OBVIOUS
<1>2. p \in Int /\ q \in Int /\ r \in Int /\ a = c * p + r /\ b = c * q + r
  BY <1>1, DivMod
<1> HIDE DEF p, q, r
<1>3. b - a = c * (q - p)
  BY <1>2
<1>4. CASE q - p <= 0
  <2>1. c * (q - p) <= 0
    BY <1>2, <1>4
  <2>2. QED
    BY <1>3, <2>1
<1>5. CASE q - p >= 1
  <2>1. c * (q - p) >= c
    BY <1>2, <1>5
  <2>2. QED
    BY <1>3, <2>1
<1>6. QED
  BY <1>2, <1>4, <1>5

LEMMA SlotsAreFinite ==
  ASSUME NEW t, IsTable(t)
  PROVE  /\ IsFiniteSet(Slots(t)) /\ Cardinality(Slots(t)) = t.capacity
         /\ IsFiniteSet(Used(t)) /\ t.capacity \in Nat /\ Used(t) \subseteq Slots(t)
<1>1. t.capacity \in Nat /\ 0 \in Int /\ t.capacity - 1 \in Int
  BY DEF IsTable
<1>2. /\ IsFiniteSet(Slots(t))
      /\ Cardinality(Slots(t)) = IF 0 > t.capacity - 1 THEN 0 ELSE t.capacity - 1 - 0 + 1
  BY <1>1, FS_Interval DEF Slots
<1>3. Cardinality(Slots(t)) = t.capacity
  BY <1>1, <1>2
<1>4. Used(t) \subseteq Slots(t)
  BY DEF Used
<1>5. IsFiniteSet(Used(t))
  BY <1>2, <1>4, FS_Subset
<1>6. QED
  BY <1>1, <1>2, <1>3, <1>4, <1>5

(* A probe that finds no end in a table with an unused slot has wrapped: the *)
(* sum of the key and the step went past Width.                              *)
LEMMA RunsOut ==
  ASSUME NEW t, IsTable(t), NEW key \in 0 .. Width - 1, Ends(t, key) = {},
         Counted(t), t.size < t.capacity
  PROVE  key + t.capacity > Width
<1>1. SUFFICES ASSUME key + t.capacity <= Width PROVE FALSE
  BY IndexAssumption DEF IsTable
<1>2. t.capacity \in Nat \ {0} /\ key \in Nat /\ Width \in Nat \ {0}
  BY IndexAssumption DEF IsTable
<1>3. PICK s \in Slots(t) : t.maps[s].key = NoKey
  <2>1. Used(t) # Slots(t)
    BY <1>2, SlotsAreFinite DEF Counted
  <2>2. QED
    BY <2>1 DEF Used
<1> DEFINE rest == Slots(t) \ {s}
           f == [n \in Slots(t) |-> Probe(t, key, n)]
<1>4. IsFiniteSet(rest) /\ Cardinality(rest) < Cardinality(Slots(t))
  <2>1. IsFiniteSet(rest) /\ Cardinality(rest) = Cardinality(Slots(t)) - 1
    BY <1>3, SlotsAreFinite, FS_RemoveElement
  <2>2. QED
    BY <1>2, <2>1, SlotsAreFinite
<1>5. f \in [Slots(t) -> rest]
  <2>1. ASSUME NEW n \in Slots(t) PROVE Probe(t, key, n) \in Slots(t) \ {s}
    BY <1>3, ProbeInTable DEF Ends
  <2>2. QED
    BY <2>1
<1> HIDE DEF f, rest
<1>6. PICK x \in Slots(t), y \in Slots(t) : x # y /\ f[x] = f[y]
  BY <1>4, <1>5, SlotsAreFinite, FS_PigeonHole
<1>7. ASSUME NEW n \in Slots(t)
      PROVE  /\ n \in Nat /\ n < t.capacity /\ key + n \in Nat
             /\ Probe(t, key, n) = (key + n) % t.capacity
  <2>1. n \in Nat /\ n < t.capacity /\ key + n \in 0 .. Width - 1
    BY <1>1, <1>2 DEF Slots
  <2>2. (key + n) % Width = key + n
    BY <1>2, <2>1
  <2>3. QED
    BY <2>1, <2>2 DEF Probe
<1>8. (key + x) % t.capacity = (key + y) % t.capacity
  BY <1>6, <1>7 DEF f
<1>9. CASE x < y
  <2>1. key + x < key + y /\ key + y < (key + x) + t.capacity
    BY <1>2, <1>7, <1>9
  <2>2. QED
    BY <1>2, <1>7, <1>8, <2>1, RemaindersDiffer
<1>10. CASE y < x
  <2>1. key + y < key + x /\ key + x < (key + y) + t.capacity
    BY <1>2, <1>7, <1>10
  <2>2. QED
    BY <1>2, <1>7, <1>8, <2>1, RemaindersDiffer
<1>11. QED
  BY <1>6, <1>7, <1>9, <1>10

(* What update changes: nothing, or one unused slot.                         *)
LEMMA UpdateIs ==
  ASSUME NEW t, IsTable(t), NEW key \in 1 .. Width - 1, Ends(t, key) # {},
         NEW j, j = SlotFor(t, key), NEW u, u = update(t, key)
  PROVE  /\ j \in Slots(t)
         /\ \/ t.maps[j].key = key /\ u = t
            \/ /\ t.maps[j].key = NoKey
               /\ u.maps = [t.maps EXCEPT ![j] = [key |-> key, off |-> 0]]
               /\ u.capacity = t.capacity /\ u.size = t.size + 1
               /\ DOMAIN u = DOMAIN t
<1>1. j \in Slots(t) /\ t.maps[j].key \in {NoKey, key}
  BY ProbeEnds, IndexAssumption
<1>2. CASE t.maps[j].key = key
  BY <1>1, <1>2 DEF update
<1>3. CASE t.maps[j].key # key
  <2>1. u = [t EXCEPT !.size = @ + 1, !.maps[j] = [key |-> key, off |-> 0]]
    BY <1>3 DEF update
  <2>2. QED
    BY <1>1, <1>3, <2>1 DEF IsTable
<1>4. QED
  BY <1>2, <1>3

(* Filling an unused slot adds one to the slots in use.                      *)
LEMMA FillCounts ==
  ASSUME NEW t, IsTable(t), Counted(t), NEW j \in Slots(t), t.maps[j].key = NoKey,
         NEW slot \in Slot, slot.key # NoKey,
         NEW u, u.maps = [t.maps EXCEPT ![j] = slot], u.capacity = t.capacity,
         u.size = t.size + 1
  PROVE  Used(u) = Used(t) \union {j} /\ j \notin Used(t) /\ Counted(u)
<1>1. Used(u) = Used(t) \union {j} /\ j \notin Used(t)
  BY DEF Used, Slots, IsTable
<1>2. Cardinality(Used(u)) = Cardinality(Used(t)) + 1
  BY <1>1, SlotsAreFinite, FS_AddElement
<1>3. QED
  BY <1>1, <1>2 DEF Counted

LEMMA UpdateCounts ==
  ASSUME NEW t, IsTable(t), Counted(t), NEW key \in 1 .. Width - 1, Ends(t, key) # {}
  PROVE  Counted(update(t, key))
<1> DEFINE j == SlotFor(t, key)
           u == update(t, key)
<1>1. j = SlotFor(t, key) /\ u = update(t, key)
  OBVIOUS
<1> HIDE DEF j, u
<1>2. /\ j \in Slots(t)
      /\ \/ t.maps[j].key = key /\ u = t
         \/ /\ t.maps[j].key = NoKey
            /\ u.maps = [t.maps EXCEPT ![j] = [key |-> key, off |-> 0]]
            /\ u.capacity = t.capacity /\ u.size = t.size + 1
  BY <1>1, UpdateIs
<1>3. [key |-> key, off |-> 0] \in Slot /\ key # NoKey
  BY IndexAssumption DEF Slot, NoKey
<1>4. Counted(u)
  BY <1>2, <1>3, FillCounts
<1>5. QED
  BY <1>1, <1>4

LEMMA EmptyCounts ==
  ASSUME NEW capacity \in Nat
  PROVE  /\ Counted(Table(capacity)) /\ Used(Table(capacity)) = {}
         /\ Table(capacity).size = 0 /\ Table(capacity).capacity = capacity
<1>1. Used(Table(capacity)) = {}
  BY DEF Used, Table, Slots
<1>2. Table(capacity).size = 0 /\ Table(capacity).capacity = capacity
  BY DEF Table
<1>3. QED
  BY <1>1, <1>2, FS_EmptySet DEF Counted

LEMMA OffsetCounts ==
  ASSUME NEW t, IsTable(t), Counted(t), NEW j \in Slots(t), NEW off \in Nat
  PROVE  Counted([t EXCEPT !.maps[j].off = off])
<1> DEFINE u == [t EXCEPT !.maps[j].off = off]
<1>1. /\ u.maps = [t.maps EXCEPT ![j].off = off] /\ u.size = t.size
      /\ Slots(u) = Slots(t)
  BY DEF IsTable, Slots
<1>2. \A s \in Slots(t) : u.maps[s].key = t.maps[s].key
  BY <1>1 DEF IsTable, Slot
<1>3. Used(u) = Used(t)
  BY <1>1, <1>2 DEF Used
<1>4. QED
  BY <1>1, <1>3 DEF Counted

(* In a tight table no two slots hold the same key.                          *)
LEMMA KeysDiffer ==
  ASSUME NEW t, IsTable(t), Tight(t), NEW a \in Used(t), NEW b \in Used(t),
         t.maps[a].key = t.maps[b].key
  PROVE  a = b
<1>1. lookup(t, t.maps[a].key) = a /\ lookup(t, t.maps[b].key) = b
  BY TightIsFindable DEF Findable
<1>2. QED
  BY <1>1

(* Moving a slot whose key is not in the table yet adds that very slot.      *)
LEMMA MovedIs ==
  ASSUME NEW t, IsTable(t), Tight(t), Counted(t), NEW slot \in Slot, slot.key # NoKey,
         Ends(t, slot.key) # {}, \A s \in Used(t) : t.maps[s].key # slot.key
  PROVE  /\ Contents(Moved(t, slot)) = Contents(t) \union {slot}
         /\ Counted(Moved(t, slot))
         /\ Moved(t, slot).capacity = t.capacity /\ Moved(t, slot).size = t.size + 1
<1> DEFINE key == slot.key
           j == SlotFor(t, key)
           u == update(t, key)
           w == Moved(t, slot)
<1>1. key \in 1 .. Width - 1 /\ slot = [key |-> key, off |-> slot.off]
  BY DEF Slot, NoKey
<1>2. j = SlotFor(t, key) /\ u = update(t, key) /\ w = [u EXCEPT !.maps[j].off = slot.off]
  BY DEF Moved
<1> HIDE DEF j, u, w
<1>3. j \in Slots(t) /\ (t.maps[j].key = key => j \in Used(t))
  <2>1. j \in Slots(t)
    BY <1>1, <1>2, UpdateIs
  <2>2. QED
    BY <2>1 DEF Used
<1>4. /\ t.maps[j].key = NoKey
      /\ u.maps = [t.maps EXCEPT ![j] = [key |-> key, off |-> 0]]
      /\ u.capacity = t.capacity /\ u.size = t.size + 1 /\ DOMAIN u = DOMAIN t
  <2>1. ~(t.maps[j].key = key)
    BY <1>3
  <2>2. QED
    BY <1>1, <1>2, <2>1, UpdateIs
<1>5. u = [size |-> u.size, capacity |-> u.capacity, maps |-> u.maps]
  <2>1. IsTable(u)
    BY <1>1, <1>2, UpdateKeeps
  <2>2. u.size \in Nat
    BY <2>1 DEF IsTable
  <2>3. QED
    BY <1>1, <1>2, <1>4 DEF IsTable, update
<1>6. /\ w.maps = [t.maps EXCEPT ![j] = slot]
      /\ w.capacity = t.capacity /\ w.size = t.size + 1
  <2>1. /\ w.maps = [u.maps EXCEPT ![j].off = slot.off]
        /\ w.capacity = u.capacity /\ w.size = u.size
    BY <1>2, <1>5
  <2>2. [u.maps EXCEPT ![j].off = slot.off] = [t.maps EXCEPT ![j] = slot]
    BY <1>1, <1>3, <1>4 DEF IsTable
  <2>3. QED
    BY <1>4, <2>1, <2>2
<1>7. Used(w) = Used(t) \union {j} /\ j \notin Used(t) /\ Counted(w)
  BY <1>3, <1>4, <1>6, FillCounts
<1>8. w.maps[j] = slot /\ \A s \in Used(t) : w.maps[s] = t.maps[s]
  BY <1>3, <1>6, <1>7, SlotsAreFinite DEF IsTable
<1>9. Contents(w) = Contents(t) \union {slot}
  BY <1>7, <1>8 DEF Contents
<1>10. QED
  BY <1>6, <1>7, <1>9 DEF w

-----------------------------------------------------------------------------
(***************************************************************************)
(* The second invariant: what a rehash has moved so far, that the table it *)
(* fills always has room left, and what a caller's pointer points to.      *)
(***************************************************************************)
Passed == {tab.maps[j] : j \in {u \in Used(tab) : u < i}}

Filling ==
  pc = "rehash" =>
    /\ Contents(new) = Passed
    /\ new.capacity = Larger(tab.capacity) /\ new.size <= i
    /\ arg \in Keys /\ ref = NoRef

Held ==
  /\ pc = "closed" => tab = NoTable /\ ref = NoRef
  /\ ref # NoRef => arg \in Keys /\ tab.maps[ref].key = arg

IInv2 == Counted(tab) /\ Counted(new) /\ Filling /\ Held /\ ExitsOnlyWhenWrapped

LEMMA LargerIsLarger ==
  ASSUME NEW c \in Nat
  PROVE  Larger(c) \in Nat /\ c < Larger(c)
  BY IndexAssumption DEF Larger

(* The step of a loop over the slots: either the slot was unused, or it is   *)
(* in the part that is passed.                                               *)
LEMMA PassOne ==
  ASSUME IInv, i \in Slots(tab), NEW passed, NEW slot, slot = tab.maps[i],
         passed = {tab.maps[j] : j \in {u \in Used(tab) : u < i + 1}}
  PROVE  /\ slot.key = NoKey => passed = Passed
         /\ slot.key # NoKey => passed = Passed \union {slot}
<1>1. Used(tab) \subseteq Slots(tab) /\ Slots(tab) \subseteq Nat
  BY DEF Used, Slots
<1>2. i \in Used(tab) <=> slot.key # NoKey
  BY DEF Used
<1>3. \A u \in Used(tab) : u < i + 1 <=> u < i \/ u = i
  BY <1>1
<1>4. CASE slot.key = NoKey
  <2>1. {u \in Used(tab) : u < i + 1} = {u \in Used(tab) : u < i}
    BY <1>2, <1>3, <1>4
  <2>2. QED
    BY <1>4, <2>1 DEF Passed
<1>5. CASE slot.key # NoKey
  <2>1. {u \in Used(tab) : u < i + 1} = {u \in Used(tab) : u < i} \union {i}
    BY <1>1, <1>2, <1>3, <1>5
  <2>2. QED
    BY <1>5, <2>1 DEF Passed
<1>6. QED
  BY <1>4, <1>5

(* The probe of an update, in the old table or in the new one.               *)
LEMMA PlaceHolds ==
  ASSUME NEW t, IsTable(t), Tight(t), Counted(t), NEW key \in 1 .. Width - 1, key \in Keys,
         t.size < t.capacity, Place(t, key), i' = 0
  PROVE  Counted(tab') /\ Filling' /\ Held' /\ ExitsOnlyWhenWrapped'
<1>1. arg' = key /\ key \in 0 .. Width - 1
  BY IndexAssumption DEF Place
<1>2. CASE Ends(t, key) = {}
  <2>1. pc' = "exit" /\ tab' = t /\ ref' = NoRef
    BY <1>2 DEF Place
  <2>2. arg' + tab'.capacity > Width
    BY <1>1, <1>2, <2>1, RunsOut
  <2>3. QED
    BY <2>1, <2>2 DEF Filling, Held, ExitsOnlyWhenWrapped
<1>3. CASE Ends(t, key) # {}
  <2>1. pc' = "idle" /\ tab' = update(t, key) /\ ref' = SlotFor(t, key)
    BY <1>3 DEF Place
  <2>2. Counted(tab') /\ tab'.maps[ref'].key = key
    BY <1>3, <2>1, UpdateCounts, UpdateKeeps
  <2>3. QED
    BY <1>1, <2>1, <2>2 DEF Filling, Held, ExitsOnlyWhenWrapped
<1>4. QED
  BY <1>2, <1>3

LEMMA SecondInvNext == IInv /\ IInv2 /\ [Next]_vars => IInv2'
<1> SUFFICES ASSUME IInv, IInv2, [Next]_vars PROVE IInv2'
  OBVIOUS
<1>1. /\ IsTable(tab) /\ IsTable(new) /\ Tight(tab) /\ Tight(new)
      /\ Counted(tab) /\ Counted(new) /\ i \in 0 .. tab.capacity
      /\ tab.capacity \in Nat /\ new.capacity \in Nat
      /\ tab.size \in Nat /\ new.size \in Nat
      /\ (pc \in {"closed", "idle"} => i = 0) /\ (pc = "rehash" => arg # NoKey)
  BY DEF IInv, IInv2, TypeOK, IsTable
<1>2. Counted(NoTable)
  BY EmptyCounts DEF NoTable
<1>3. CASE index_open
  BY <1>3 DEF index_open, IInv2, Filling, Held, ExitsOnlyWhenWrapped
<1>4. CASE index_close
  BY <1>1, <1>2, <1>4 DEF index_close, IInv2, Filling, Held, ExitsOnlyWhenWrapped
<1>5. ASSUME NEW code \in Code, index_update(code) PROVE IInv2'
  <2> DEFINE key == KeyOf(code)
  <2>1. key \in 1 .. Width - 1 /\ key \in Keys /\ pc = "idle" /\ i = 0
    BY <1>1, <1>5, KeyOfType DEF Keys, index_update
  <2> HIDE DEF key
  <2>2. CASE ~Loaded(tab) /\ Place(tab, key) /\ UNCHANGED <<new, i>>
    <3>1. tab.size < tab.capacity
      <4>1. /\ tab.capacity # 0 /\ LoadDen * tab.size <= LoadNum * tab.capacity
            /\ LoadNum \in Nat /\ LoadDen \in Nat /\ LoadNum < LoadDen
        BY <1>1, <2>2, IndexAssumption DEF Loaded
      <4>2. LoadNum * tab.capacity < LoadDen * tab.capacity
        BY <1>1, <4>1
      <4>3. ASSUME tab.capacity <= tab.size PROVE FALSE
        <5>1. LoadDen * tab.capacity <= LoadDen * tab.size
          BY <1>1, <4>1, <4>3
        <5> DEFINE x == LoadDen * tab.capacity
                   y == LoadDen * tab.size
                   z == LoadNum * tab.capacity
        <5>2. x \in Int /\ y \in Int /\ z \in Int
          BY <1>1, <4>1
        <5>3. x <= y /\ y <= z /\ z < x
          BY <4>1, <4>2, <5>1
        <5> HIDE DEF x, y, z
        <5>4. QED
          BY <5>2, <5>3
      <4>4. QED
        BY <1>1, <4>3
    <3>2. Counted(tab') /\ Filling' /\ Held' /\ ExitsOnlyWhenWrapped'
      BY <1>1, <2>1, <2>2, <3>1, PlaceHolds
    <3>3. QED
      BY <1>1, <2>2, <3>2 DEF IInv2
  <2>3. CASE arg' = key /\ ref' = NoRef /\ UNCHANGED <<pc, tab, new, i>>
    BY <1>1, <2>1, <2>3 DEF IInv2, Filling, Held, ExitsOnlyWhenWrapped
  <2>4. CASE /\ pc' = "rehash" /\ new' = Table(Larger(tab.capacity)) /\ i' = 0
             /\ arg' = key /\ ref' = NoRef /\ UNCHANGED tab
    <3>1. Larger(tab.capacity) \in Nat
      BY <1>1, LargerIsLarger
    <3>2. /\ Counted(new') /\ Used(new') = {} /\ new'.size = 0
          /\ new'.capacity = Larger(tab.capacity)
      BY <2>4, <3>1, EmptyCounts
    <3>3. {u \in Used(tab) : u < 0} = {}
      BY DEF Used, Slots
    <3>4. Contents(new') = {} /\ Passed' = {}
      BY <2>4, <3>2, <3>3 DEF Contents, Passed
    <3>5. QED
      BY <1>1, <2>1, <2>4, <3>2, <3>4 DEF IInv2, Filling, Held, ExitsOnlyWhenWrapped
  <2>5. QED
    BY <1>5, <2>2, <2>3, <2>4 DEF index_update, key
<1>6. CASE Rehash
  <2> DEFINE slot == tab.maps[i]
  <2>1. /\ i \in Slots(tab) /\ slot \in Slot /\ i \in Nat /\ i < tab.capacity
        /\ i' = i + 1 /\ pc = "rehash" /\ UNCHANGED <<tab, arg, ref>>
    BY <1>1, <1>6 DEF Rehash, Slots, IsTable
  <2>2. /\ Contents(new) = Passed /\ new.capacity = Larger(tab.capacity)
        /\ new.size <= i /\ arg \in Keys /\ ref = NoRef
    BY <2>1 DEF IInv2, Filling
  <2>3. Passed' = {tab.maps[j] : j \in {u \in Used(tab) : u < i + 1}}
    BY <2>1 DEF Passed
  <2>4. /\ slot.key = NoKey => Passed' = Passed
        /\ slot.key # NoKey => Passed' = Passed \union {slot}
    BY <2>1, <2>3, PassOne
  <2>5. CASE slot.key = NoKey
    <3>1. UNCHANGED <<pc, new>>
      BY <1>6, <2>5 DEF Rehash
    <3>2. new'.size <= i'
      BY <1>1, <2>1, <2>2, <3>1
    <3>3. QED
      BY <1>1, <2>1, <2>2, <2>4, <2>5, <3>1, <3>2
        DEF IInv2, Filling, Held, ExitsOnlyWhenWrapped
  <2>6. CASE slot.key # NoKey /\ Ends(new, slot.key) = {}
    <3>1. pc' = "exit" /\ new' = new
      BY <1>6, <2>6 DEF Rehash
    <3>2. new.size < new.capacity
      BY <1>1, <2>1, <2>2, LargerIsLarger
    <3>3. slot.key + new.capacity > Width
      <4>1. slot.key \in 0 .. Width - 1
        BY <2>1 DEF Slot
      <4>2. QED
        BY <1>1, <2>6, <3>2, <4>1, RunsOut
    <3>4. i' # 0 /\ i' - 1 = i
      BY <2>1
    <3>5. ExitsOnlyWhenWrapped'
      BY <2>1, <3>1, <3>3, <3>4 DEF ExitsOnlyWhenWrapped
    <3>6. QED
      BY <1>1, <2>1, <2>2, <3>1, <3>5 DEF IInv2, Filling, Held
  <2>7. CASE slot.key # NoKey /\ Ends(new, slot.key) # {}
    <3>1. new' = Moved(new, slot) /\ pc' = pc
      BY <1>6, <2>7 DEF Rehash
    <3>2. ASSUME NEW s \in Used(new) PROVE new.maps[s].key # slot.key
      <4>1. new.maps[s] \in Passed
        BY <2>2 DEF Contents
      <4>2. PICK u \in Used(tab) : u < i /\ new.maps[s] = tab.maps[u]
        BY <4>1 DEF Passed
      <4>3. i \in Used(tab)
        BY <2>1, <2>7 DEF Used
      <4>4. u # i
        BY <2>1, <4>2 DEF Used, Slots
      <4>5. QED
        BY <1>1, <4>2, <4>3, <4>4, KeysDiffer
    <3>3. /\ Contents(new') = Contents(new) \union {slot} /\ Counted(new')
          /\ new'.capacity = new.capacity /\ new'.size = new.size + 1
      BY <1>1, <2>1, <2>7, <3>1, <3>2, MovedIs
    <3>4. new'.size <= i'
      BY <1>1, <2>1, <2>2, <3>3
    <3>5. QED
      BY <1>1, <2>1, <2>2, <2>4, <2>7, <3>1, <3>3, <3>4
        DEF IInv2, Filling, Held, ExitsOnlyWhenWrapped
  <2>8. QED
    BY <2>5, <2>6, <2>7
<1>7. CASE GrowEnds
  <2>1. /\ pc = "rehash" /\ i = tab.capacity /\ Place(new, arg) /\ new' = NoTable /\ i' = 0
    BY <1>7 DEF GrowEnds
  <2>2. arg \in Keys /\ new.size < new.capacity
    BY <1>1, <2>1, LargerIsLarger DEF IInv2, Filling
  <2>3. arg \in 1 .. Width - 1
    BY <2>2, KeyOfType DEF Keys
  <2>4. Counted(tab') /\ Filling' /\ Held' /\ ExitsOnlyWhenWrapped'
    BY <1>1, <2>1, <2>2, <2>3, PlaceHolds
  <2>5. QED
    BY <1>2, <2>1, <2>4 DEF IInv2
<1>8. ASSUME NEW off \in Offset, Store(off) PROVE IInv2'
  <2>1. off \in Nat /\ ref \in Slots(tab) /\ pc = "idle"
    BY <1>8, IndexAssumption DEF Store, IInv, TypeOK
  <2>2. Counted(tab')
    <3>1. tab' = [tab EXCEPT !.maps[ref].off = off]
      BY <1>8 DEF Store
    <3>2. QED
      BY <1>1, <2>1, <3>1, OffsetCounts
  <2>3. QED
    BY <1>1, <1>8, <2>1, <2>2 DEF Store, IInv2, Filling, Held, ExitsOnlyWhenWrapped
<1>9. CASE UNCHANGED vars
  BY <1>9 DEF vars, IInv2, Filling, Passed, Held, ExitsOnlyWhenWrapped
<1>10. QED
  BY <1>3, <1>4, <1>5, <1>6, <1>7, <1>8, <1>9 DEF Next

LEMMA SecondInvInit == Init => IInv2
<1>1. Counted(NoTable)
  BY EmptyCounts DEF NoTable
<1>2. QED
  BY <1>1 DEF Init, IInv2, Filling, Held, ExitsOnlyWhenWrapped

LEMMA SecondInvariant == Spec => []IInv2
<1>1. QED
  BY SecondInvInit, IndexInvariant, SecondInvNext, PTL DEF Spec

(* Theorem: size counts the slots in use, and at every moment of a rehash a  *)
(* lookup in the new table finds every code that the loop has passed, with   *)
(* its offset, and no slot of it is used for anything else (grow).           *)
THEOREM RehashLosesNothing == Spec => []NothingLost
<1>1. IInv /\ IInv2 => NothingLost
  <2> SUFFICES ASSUME IInv, IInv2 PROVE NothingLost
    OBVIOUS
  <2>1. tab.size = Cardinality(Used(tab)) /\ new.size = Cardinality(Used(new))
    BY DEF IInv2, Counted
  <2>2. ASSUME pc = "rehash", NEW u \in Used(tab), u < i PROVE Holds(new, tab.maps[u])
    <3>1. PICK j \in Used(new) : new.maps[j] = tab.maps[u]
      BY <2>2 DEF IInv2, Filling, Contents, Passed
    <3>2. lookup(new, tab.maps[u].key) = j
      BY <3>1, TightIsFindable DEF IInv, TypeOK, Findable
    <3>3. j # NoRef
      BY DEF Used, Slots, NoRef
    <3>4. QED
      BY <3>1, <3>2, <3>3 DEF Holds
  <2>3. ASSUME pc = "rehash", NEW j \in Used(new)
        PROVE  \E u \in Used(tab) : u < i /\ tab.maps[u] = new.maps[j]
    BY <2>3 DEF IInv2, Filling, Contents, Passed
  <2>4. QED
    BY <2>1, <2>2, <2>3 DEF NothingLost
<1>2. QED
  BY <1>1, IndexInvariant, SecondInvariant, PTL

(* Theorem: a probe never runs out of slots unless the sum of the code and   *)
(* the capacity exceeds the width of the integers (index.c, EXIT).           *)
THEOREM ExitNeedsWrap == Spec => []ExitsOnlyWhenWrapped
<1>1. IInv2 => ExitsOnlyWhenWrapped
  BY DEF IInv2
<1>2. QED
  BY <1>1, SecondInvariant, PTL

-----------------------------------------------------------------------------
(***************************************************************************)
(* The table as a map from codes to offsets. What a table maps a code to   *)
(* depends on its contents only, not on where the slots are.               *)
(***************************************************************************)
OffIn(t, key) == LET j == lookup(t, key) IN IF j = NoRef THEN 0 ELSE t.maps[j].off

LEMMA OffInIs ==
  ASSUME NEW t, IsTable(t), Tight(t), NEW key \in 1 .. Width - 1
  PROVE  /\ \A s \in Contents(t) : s.key = key => OffIn(t, key) = s.off
         /\ (\A s \in Contents(t) : s.key # key) => OffIn(t, key) = 0
<1>1. ASSUME NEW j \in Used(t), t.maps[j].key = key
      PROVE  OffIn(t, key) = t.maps[j].off
  <2>1. lookup(t, key) = j
    BY <1>1, TightIsFindable DEF Findable
  <2>2. j # NoRef
    BY DEF Used, Slots, NoRef
  <2>3. QED
    BY <2>1, <2>2 DEF OffIn
<1>2. ASSUME \A s \in Contents(t) : s.key # key PROVE OffIn(t, key) = 0
  <2>1. ASSUME Ends(t, key) # {} PROVE t.maps[SlotFor(t, key)].key # key
    <3>1. SlotFor(t, key) \in Slots(t)
      BY <2>1, ProbeEnds
    <3>2. key # NoKey
      BY DEF NoKey
    <3>3. QED
      BY <1>2, <3>1, <3>2 DEF Contents, Used
  <2>2. lookup(t, key) = NoRef
    BY <2>1 DEF lookup
  <2>3. QED
    BY <2>2 DEF OffIn
<1>3. QED
  BY <1>1, <1>2 DEF Contents

LEMMA OffInSame ==
  ASSUME NEW t, IsTable(t), Tight(t), NEW u, IsTable(u), Tight(u),
         Contents(u) = Contents(t), NEW key \in 1 .. Width - 1
  PROVE  OffIn(u, key) = OffIn(t, key)
<1>1. CASE \E s \in Contents(t) : s.key = key
  BY <1>1, OffInIs
<1>2. CASE \A s \in Contents(t) : s.key # key
  BY <1>2, OffInIs
<1>3. QED
  BY <1>1, <1>2

(* An update maps no code to another offset: the slot it takes holds 0.      *)
LEMMA OffInUpdate ==
  ASSUME NEW t, IsTable(t), Tight(t), NEW key \in 1 .. Width - 1, Ends(t, key) # {},
         NEW h \in 1 .. Width - 1
  PROVE  OffIn(update(t, key), h) = OffIn(t, h)
<1> DEFINE j == SlotFor(t, key)
           u == update(t, key)
           slot == [key |-> key, off |-> 0]
<1>1. j = SlotFor(t, key) /\ u = update(t, key)
  OBVIOUS
<1>2. IsTable(u) /\ Tight(u)
  BY UpdateKeeps
<1> HIDE DEF j, u
<1>3. /\ j \in Slots(t)
      /\ \/ t.maps[j].key = key /\ u = t
         \/ /\ t.maps[j].key = NoKey /\ u.maps = [t.maps EXCEPT ![j] = slot]
            /\ u.capacity = t.capacity
  BY <1>1, UpdateIs
<1>4. CASE t.maps[j].key = key /\ u = t
  BY <1>1, <1>4
<1>5. CASE /\ t.maps[j].key = NoKey /\ u.maps = [t.maps EXCEPT ![j] = slot]
           /\ u.capacity = t.capacity
  <2>1. /\ Used(u) = Used(t) \union {j} /\ j \notin Used(t)
        /\ u.maps[j] = slot /\ \A s \in Used(t) : u.maps[s] = t.maps[s]
    BY <1>3, <1>5 DEF Used, Slots, IsTable, NoKey
  <2>2. Contents(u) = Contents(t) \union {slot} /\ slot.key = key /\ slot.off = 0
    BY <2>1 DEF Contents
  <2>3. ASSUME \E s \in Contents(t) : s.key = h
        PROVE  OffIn(u, h) = OffIn(t, h)
    BY <1>2, <2>2, <2>3, OffInIs
  <2>4. ASSUME \A s \in Contents(t) : s.key # h
        PROVE  OffIn(u, h) = OffIn(t, h)
    <3>1. OffIn(t, h) = 0
      BY <2>4, OffInIs
    <3>2. CASE h # key
      BY <1>2, <2>2, <2>4, <3>1, <3>2, OffInIs
    <3>3. CASE h = key
      BY <1>2, <2>2, <3>1, <3>3, OffInIs
    <3>4. QED
      BY <3>2, <3>3
  <2>5. QED
    BY <1>1, <2>3, <2>4
<1>6. QED
  BY <1>3, <1>4, <1>5

LEMMA OffInEmpty ==
  ASSUME NEW key \in 1 .. Width - 1
  PROVE  OffIn(NoTable, key) = 0
<1>1. IsTable(NoTable) /\ Tight(NoTable)
  BY EmptyTable DEF NoTable
<1>2. Contents(NoTable) = {}
  BY EmptyCounts DEF NoTable, Contents
<1>3. QED
  BY <1>1, <1>2, OffInIs

(* A store through a pointer changes what its code maps to, and no other.    *)
LEMMA OffInStore ==
  ASSUME NEW t, IsTable(t), Tight(t), NEW j \in Used(t), NEW off \in Nat,
         NEW h \in 1 .. Width - 1, NEW u, u = [t EXCEPT !.maps[j].off = off]
  PROVE  OffIn(u, h) = IF h = t.maps[j].key THEN off ELSE OffIn(t, h)
<1> DEFINE k == t.maps[j].key
<1>1. j \in Slots(t) /\ k \in 1 .. Width - 1
  BY DEF Used, IsTable, Slot, NoKey
<1>2. IsTable(u) /\ Tight(u)
  BY <1>1, OffsetKeeps
<1>3. u.maps = [t.maps EXCEPT ![j].off = off] /\ Slots(u) = Slots(t)
  BY DEF IsTable, Slots
<1>4. /\ u.maps[j] = [key |-> k, off |-> off]
      /\ \A s \in Slots(t) : s # j => u.maps[s] = t.maps[s]
  BY <1>1, <1>3 DEF IsTable, Slot
<1>5. Used(u) = Used(t)
  BY <1>1, <1>3, <1>4 DEF Used, NoKey
<1>6. CASE h = k
  <2>1. u.maps[j] \in Contents(u) /\ u.maps[j].key = h /\ u.maps[j].off = off
    BY <1>4, <1>5, <1>6 DEF Contents
  <2>2. QED
    BY <1>2, <1>6, <2>1, OffInIs
<1>7. CASE h # k
  <2>1. \A s : s.key = h => (s \in Contents(u) <=> s \in Contents(t))
    BY <1>4, <1>5, <1>7 DEF Contents, Used
  <2>2. CASE \E s \in Contents(t) : s.key = h
    BY <1>2, <1>7, <2>1, <2>2, OffInIs
  <2>3. CASE \A s \in Contents(t) : s.key # h
    BY <1>2, <1>7, <2>1, <2>3, OffInIs
  <2>4. QED
    BY <2>2, <2>3
<1>8. QED
  BY <1>6, <1>7

LEMMA KeysType == Keys \subseteq 1 .. Width - 1
  BY KeyOfType DEF Keys

LEMMA CellsAre == cells = [key \in Keys |-> OffIn(tab, key)]
  BY DEF cells, OffIn

(* The last probe of an update answers the caller and changes no cell.       *)
LEMMA PlaceUpdates ==
  ASSUME NEW t, IsTable(t), Tight(t), NEW key \in Keys, Place(t, key), pc # "closed",
         \A h \in Keys : OffIn(t, h) = OffIn(tab, h)
  PROVE  Map!Update(key)
<1>1. key \in 1 .. Width - 1 /\ Keys \subseteq 1 .. Width - 1
  BY KeysType
<1>2. cells' = [h \in Keys |-> OffIn(tab', h)]
  BY DEF cells, OffIn
<1>3. CASE Ends(t, key) = {}
  <2>1. pc' = "exit" /\ tab' = t /\ ref' = NoRef
    BY <1>3 DEF Place
  <2>2. cells' = cells /\ held' = NoKey
    BY <1>2, <2>1, CellsAre DEF held
  <2>3. QED
    BY <2>1, <2>2 DEF Map!Update
<1>4. CASE Ends(t, key) # {}
  <2>1. pc' = "idle" /\ tab' = update(t, key) /\ ref' = SlotFor(t, key)
    BY <1>4 DEF Place
  <2>2. \A h \in Keys : OffIn(tab', h) = OffIn(tab, h)
    BY <1>1, <1>4, <2>1, OffInUpdate
  <2>3. cells' = cells
    BY <1>2, <2>2, CellsAre
  <2>4. held' = key
    <3>1. tab'.maps[ref'].key = key /\ ref' \in Slots(t)
      BY <1>1, <1>4, <2>1, UpdateKeeps
    <3>2. ref' # NoRef
      BY <3>1 DEF Slots, NoRef
    <3>3. QED
      BY <3>1, <3>2 DEF held
  <2>5. QED
    BY <2>1, <2>3, <2>4 DEF Map!Update
<1>5. QED
  BY <1>3, <1>4

(* Only a caller's store changes a cell.                                     *)
LEMMA OnlyStoresChange ==
  ASSUME IInv, IInv2, Rehash \/ GrowEnds \/ \E code \in Code : index_update(code)
  PROVE  /\ cells' = cells /\ pc # "closed" /\ pc' # "closed"
         /\ Map!Next \/ UNCHANGED Map!vars
<1>1. IsTable(tab) /\ IsTable(new) /\ Tight(tab) /\ Tight(new) /\ Keys \subseteq 1 .. Width - 1
  BY KeysType DEF IInv, TypeOK
<1>2. cells' = [h \in Keys |-> OffIn(tab', h)]
  BY DEF cells, OffIn
<1>3. ASSUME NEW key \in Keys, Map!Update(key)
      PROVE  cells' = cells /\ Map!Next
  BY <1>3 DEF Map!Update, Map!Next
<1>4. ASSUME NEW t, NEW key, Place(t, key) PROVE pc' # "closed"
  BY <1>4 DEF Place
<1>5. ASSUME NEW code \in Code, index_update(code)
      PROVE  cells' = cells /\ pc # "closed" /\ pc' # "closed" /\ Map!Next
  <2> DEFINE key == KeyOf(code)
  <2>1. key \in Keys /\ pc = "idle"
    BY <1>5 DEF Keys, index_update
  <2> HIDE DEF key
  <2>2. CASE Place(tab, key)
    BY <1>1, <1>3, <1>4, <2>1, <2>2, PlaceUpdates
  <2>3. CASE ref' = NoRef /\ tab' = tab /\ pc' \in {"idle", "rehash"}
    <3>1. cells' = cells /\ held' = NoKey
      BY <1>2, <2>3, CellsAre DEF held
    <3>2. Map!Update(key)
      BY <2>1, <2>3, <3>1 DEF Map!Update
    <3>3. QED
      BY <1>3, <2>1, <2>3, <3>2
  <2>4. QED
    BY <1>5, <2>1, <2>2, <2>3 DEF index_update, key
<1>6. CASE Rehash
  <2>1. tab' = tab /\ ref' = ref /\ pc = "rehash" /\ pc' \in {"rehash", "exit"}
    BY <1>6 DEF Rehash
  <2>2. QED
    BY <1>2, <2>1, CellsAre DEF Map!vars, held
<1>7. CASE GrowEnds
  <2>1. pc = "rehash" /\ i = tab.capacity /\ Place(new, arg)
    BY <1>7 DEF GrowEnds
  <2>2. arg \in Keys /\ Contents(new) = Passed
    BY <2>1 DEF IInv2, Filling
  <2>3. Passed = Contents(tab)
    <3>1. \A u \in Used(tab) : u < i
      BY <2>1 DEF Used, Slots, IInv, TypeOK, IsTable
    <3>2. QED
      BY <3>1 DEF Passed, Contents
  <2>4. \A h \in Keys : OffIn(new, h) = OffIn(tab, h)
    BY <1>1, <2>2, <2>3, OffInSame
  <2>5. Map!Update(arg)
    BY <1>1, <2>1, <2>2, <2>4, PlaceUpdates
  <2>6. QED
    BY <1>3, <1>4, <2>1, <2>2, <2>5
<1>8. QED
  BY <1>5, <1>6, <1>7

(* The pointer is to the cell of the code that was asked for, ...            *)
LEMMA RefIsCell ==
  ASSUME IInv, IInv2, ref # NoRef
  PROVE  /\ arg \in Keys /\ tab.maps[ref].key = arg /\ ref \in Used(tab)
         /\ cells[arg] = tab.maps[ref].off
<1>1. IsTable(tab) /\ Tight(tab) /\ ref \in Slots(tab)
  BY DEF IInv, TypeOK
<1>2. arg \in Keys /\ tab.maps[ref].key = arg
  BY DEF IInv2, Held
<1>3. arg \in 1 .. Width - 1 /\ arg # NoKey
  BY <1>2, KeysType DEF NoKey
<1>4. ref \in Used(tab)
  BY <1>1, <1>2, <1>3 DEF Used
<1>5. OffIn(tab, arg) = tab.maps[ref].off
  BY <1>1, <1>2, <1>3, <1>4, OffInIs DEF Contents
<1>6. QED
  BY <1>2, <1>4, <1>5, CellsAre

(* ... and a store through it changes this one.                              *)
LEMMA StoreChanges ==
  ASSUME IInv, IInv2, NEW off \in Nat, Store(off)
  PROVE  arg \in Keys /\ cells' = [cells EXCEPT ![arg] = off]
<1>1. IsTable(tab) /\ Tight(tab) /\ Keys \subseteq 1 .. Width - 1
  BY KeysType DEF IInv, TypeOK
<1>2. ref # NoRef /\ tab' = [tab EXCEPT !.maps[ref].off = off]
  BY DEF Store
<1>3. arg \in Keys /\ tab.maps[ref].key = arg /\ ref \in Used(tab)
  BY <1>2, RefIsCell
<1>4. \A h \in Keys : OffIn(tab', h) = IF h = arg THEN off ELSE OffIn(tab, h)
  BY <1>1, <1>2, <1>3, OffInStore
<1>5. cells' = [h \in Keys |-> OffIn(tab', h)]
  BY DEF cells, OffIn
<1>6. QED
  BY <1>3, <1>4, <1>5, CellsAre

LEMMA MapStep == IInv /\ IInv2 /\ [Next]_vars => [Map!Next]_(Map!vars)
<1> SUFFICES ASSUME IInv, IInv2, [Next]_vars PROVE Map!Next \/ UNCHANGED Map!vars
  OBVIOUS
<1>1. /\ IsTable(tab) /\ IsTable(new) /\ Tight(tab) /\ Tight(new)
      /\ ref \in Slots(tab) \union {NoRef}
      /\ pc = "closed" => tab = NoTable /\ ref = NoRef
  BY DEF IInv, IInv2, TypeOK, Held
<1>2. cells' = [h \in Keys |-> OffIn(tab', h)]
  BY DEF cells, OffIn
<1>3. Keys \subseteq 1 .. Width - 1
  BY KeysType
<1>4. ASSUME tab' = NoTable, ref' = NoRef PROVE Map!Clear
  <2>1. cells' = [h \in Keys |-> 0]
    BY <1>2, <1>3, <1>4, OffInEmpty
  <2>2. held' = NoKey
    BY <1>4 DEF held
  <2>3. QED
    BY <2>1, <2>2 DEF Map!Clear
<1>5. ASSUME tab' = tab, ref' = ref, pc' = "closed" <=> pc = "closed"
      PROVE  UNCHANGED Map!vars
  BY <1>2, <1>5, CellsAre DEF Map!vars, held
<1>6. CASE index_open
  <2>1. pc = "closed" /\ pc' = "idle" /\ tab' = NoTable /\ ref' = NoRef
    BY <1>1, <1>6 DEF index_open
  <2>2. Map!Open
    BY <1>4, <2>1 DEF Map!Open
  <2>3. QED
    BY <2>2 DEF Map!Next
<1>7. CASE index_close
  <2>1. pc = "idle" /\ pc' = "closed" /\ tab' = NoTable /\ ref' = NoRef
    BY <1>7 DEF index_close
  <2>2. Map!Close
    BY <1>4, <2>1 DEF Map!Close
  <2>3. QED
    BY <2>2 DEF Map!Next
<1>8. CASE Rehash \/ GrowEnds \/ \E code \in Code : index_update(code)
  BY <1>8, OnlyStoresChange
<1>9. ASSUME NEW off \in Offset, Store(off) PROVE Map!Next
  <2>1. pc = "idle" /\ pc' = "idle" /\ ref # NoRef /\ ref' = NoRef /\ off \in Nat
    BY <1>9, IndexAssumption DEF Store
  <2>2. arg \in Keys /\ cells' = [cells EXCEPT ![arg] = off]
    BY <1>9, <2>1, StoreChanges
  <2>3. held = arg /\ arg # NoKey /\ held' = NoKey
    BY <1>3, <2>1, <2>2, RefIsCell DEF held, NoKey
  <2>4. cells'[arg] = off
    BY <2>2, CellsAre
  <2>5. Map!Store
    BY <2>1, <2>2, <2>3, <2>4 DEF Map!Store
  <2>6. QED
    BY <2>5 DEF Map!Next
<1>10. CASE UNCHANGED vars
  BY <1>5, <1>10 DEF vars
<1>11. QED
  BY <1>6, <1>7, <1>8, <1>9, <1>10 DEF Next

(* Theorem: the table implements a map from codes to offsets that only a     *)
(* caller's store changes: neither an update nor any step of a rehash does.  *)
THEOREM TableImplementsMap == Spec => ImplementsMap
<1>1. Init => Map!Init
  <2> SUFFICES ASSUME Init PROVE Map!Init
    OBVIOUS
  <2>1. pc = "closed" /\ tab = NoTable /\ ref = NoRef
    BY DEF Init
  <2>2. cells = [h \in Keys |-> 0]
    BY <2>1, CellsAre, KeysType, OffInEmpty
  <2>3. QED
    BY <2>1, <2>2 DEF Map!Init, held
<1>2. QED
  BY <1>1, IndexInvariant, SecondInvariant, MapStep, PTL DEF Spec, ImplementsMap, Map!Spec
=============================================================================
