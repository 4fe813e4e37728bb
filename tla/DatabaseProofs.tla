--------------------------- MODULE DatabaseProofs ---------------------------
(***************************************************************************)
(* Proofs about Database, by composition: its steps are shown to be steps  *)
(* of KVRaw and of Index, whose theorems then hold inside it, and what the *)
(* three have in common ("Joined") is carried along with the invariants of *)
(* the two parts. Then its steps are shown to be steps of KVDB.            *)
(***************************************************************************)
EXTENDS Database, TLAPS, SequenceTheorems, FiniteSetTheorems

K == INSTANCE KVRawProofs WITH KeyRooms <- Nat, ValRooms <- Nat, Past <- Nat
P == INSTANCE IndexProofs WITH pc <- ipc, Offset <- Nat

(* What is assumed of the constants is what the two parts assume of theirs.  *)
LEMMA PartsAssume == K!KVRawAssumption /\ P!IndexAssumption
  BY DatabaseAssumption DEF K!KVRawAssumption, K!META_LEN, P!IndexAssumption

-----------------------------------------------------------------------------
(* The steps that Database takes in kvraw.c and in index.c are those the     *)
(* proofs about KVRaw and Index are about.                                   *)
LEMMA KVRawSteps ==
  /\ R!Init <=> K!Init
  /\ R!kvraw_open <=> K!kvraw_open
  /\ R!kvraw_close <=> K!kvraw_close
  /\ \A o, k, v : R!AppendEnds(o, k, v) <=> K!AppendEnds(o, k, v)
  /\ \A o, k, v : R!AppendFails(o, k, v) <=> K!AppendFails(o, k, v)
  /\ \A o, rk, rv : R!kvraw_lookup(o, rk, rv) <=> K!kvraw_lookup(o, rk, rv)
  /\ R!NoReply = K!NoReply
<1>1. \A o, k, l : R!Meta(o, k, l) = K!Meta(o, k, l)
  BY DEF R!Meta, R!MarkK, R!MarkV, K!Meta, K!MarkK, K!MarkV
<1>2. \A o, k, v : R!Bytes(o, k, v) = K!Bytes(o, k, v)
  BY <1>1 DEF R!Bytes, K!Bytes
<1>3. \A a, o, k, v : R!Acked(a, o, k, v) = K!Acked(a, o, k, v)
  BY DEF R!Acked, K!Acked
<1>4. R!NoReply = K!NoReply
  BY DEF R!NoReply, K!NoReply
<1>5. /\ R!META_LEN = K!META_LEN
      /\ \A o : R!KEY_OFF(o) = K!KEY_OFF(o)
      /\ \A o, m : (R!read_meta(o, m) <=> K!read_meta(o, m)) /\ R!VAL_OFF(o, m) = K!VAL_OFF(o, m)
  BY DEF R!read_meta, K!read_meta, R!META_LEN, K!META_LEN,
         R!MarkK, R!MarkV, K!MarkK, K!MarkV, R!KEY_OFF, K!KEY_OFF, R!VAL_OFF, K!VAL_OFF
<1>6. /\ \A o, n : R!logfs_read(o, n) = K!logfs_read(o, n)
      /\ \A c : R!MetaOf(c) = K!MetaOf(c)
      /\ \A a, b : R!Least(a, b) = K!Least(a, b)
  BY DEF R!Cells, K!Cells, R!Least, K!Least, R!MetaOf, K!MetaOf, R!Fields, K!Fields, R!logfs_read, K!logfs_read
<1>7. R!Init <=> K!Init
  BY <1>4 DEF R!Init, K!Init
<1>8. R!kvraw_open <=> K!kvraw_open
  BY <1>2, <1>3, <1>4 DEF R!kvraw_open, K!kvraw_open
<1>9. R!kvraw_close <=> K!kvraw_close
  BY <1>4 DEF R!kvraw_close, K!kvraw_close
<1>10. \A o, k, v : R!AppendEnds(o, k, v) <=> K!AppendEnds(o, k, v)
  BY <1>2, <1>3 DEF R!AppendEnds, K!AppendEnds
<1>11. \A o, k, v : R!AppendFails(o, k, v) <=> K!AppendFails(o, k, v)
  BY <1>2, <1>3 DEF R!AppendFails, K!AppendFails
<1>12. \A o, rk, rv : R!kvraw_lookup(o, rk, rv) <=> K!kvraw_lookup(o, rk, rv)
  BY <1>5, <1>6 DEF R!kvraw_lookup, K!kvraw_lookup
<1>13. QED
  BY <1>4, <1>7, <1>8, <1>9, <1>10, <1>11, <1>12

LEMMA IndexTerms ==
  /\ I!NoRef = P!NoRef /\ I!NoKey = P!NoKey /\ I!NoTable = P!NoTable
  /\ \A t : I!Slots(t) = P!Slots(t)
  /\ \A c : I!KeyOf(c) = P!KeyOf(c)
  /\ \A t, k : I!Ends(t, k) = P!Ends(t, k) /\ I!SlotFor(t, k) = P!SlotFor(t, k)
  /\ \A t, k : I!update(t, k) = P!update(t, k) /\ I!lookup(t, k) = P!lookup(t, k)
<1>1. I!NoRef = P!NoRef /\ I!NoKey = P!NoKey
  BY DEF I!NoRef, P!NoRef, I!NoKey, P!NoKey
<1>2. \A c : I!Table(c) = P!Table(c)
  BY <1>1 DEF I!Table, P!Table
<1>3. \A t : I!Slots(t) = P!Slots(t)
  BY DEF I!Slots, P!Slots
<1>4. \A t, k, n : I!Probe(t, k, n) = P!Probe(t, k, n)
  BY DEF I!Probe, P!Probe
<1>5. \A S : I!First(S) = P!First(S)
  BY DEF I!First, P!First
<1>6. \A t, k : I!Ends(t, k) = P!Ends(t, k)
  BY <1>1, <1>3, <1>4, Zenon DEF I!Ends, P!Ends
<1>7. \A t, k : I!SlotFor(t, k) = P!SlotFor(t, k)
  BY <1>4, <1>5, <1>6 DEF I!SlotFor, P!SlotFor
<1>8. \A t, k : I!update(t, k) = P!update(t, k) /\ I!lookup(t, k) = P!lookup(t, k)
  BY <1>1, <1>6, <1>7, ZenonT(60) DEF I!update, P!update, I!lookup, P!lookup
<1>9. \A c : I!KeyOf(c) = P!KeyOf(c)
  BY DEF I!KeyOf, P!KeyOf
<1>10. I!NoTable = P!NoTable
  BY <1>2 DEF I!NoTable, P!NoTable
<1>11. QED
  BY <1>1, <1>3, <1>6, <1>7, <1>8, <1>9, <1>10

LEMMA IndexSteps ==
  /\ I!Init <=> P!Init
  /\ I!index_open <=> P!index_open
  /\ I!index_close <=> P!index_close
  /\ \A c : I!index_update(c) <=> P!index_update(c)
  /\ I!Rehash <=> P!Rehash
  /\ I!GrowEnds <=> P!GrowEnds
  /\ \A o : I!Store(o) <=> P!Store(o)
<1>1. \A c : I!Table(c) = P!Table(c) /\ I!Larger(c) = P!Larger(c)
  BY DEF I!Table, P!Table, I!NoKey, P!NoKey, I!Larger, P!Larger
<1>2. \A t : I!Loaded(t) <=> P!Loaded(t)
  BY DEF I!Loaded, P!Loaded
<1>3. \A t, k : I!Place(t, k) <=> P!Place(t, k)
  BY IndexTerms DEF I!Place, P!Place
<1>4. \A t, s : I!Moved(t, s) = P!Moved(t, s)
  BY IndexTerms DEF I!Moved, P!Moved
<1>5. I!Init <=> P!Init
  BY IndexTerms DEF I!Init, P!Init
<1>6. (I!index_open <=> P!index_open) /\ (I!index_close <=> P!index_close)
  BY IndexTerms DEF I!index_open, P!index_open, I!index_close, P!index_close
<1>7. \A c : I!index_update(c) <=> P!index_update(c)
  BY IndexTerms, <1>1, <1>2, <1>3 DEF I!index_update, P!index_update
<1>8. I!Rehash <=> P!Rehash
  BY IndexTerms, <1>4 DEF I!Rehash, P!Rehash
<1>9. I!GrowEnds <=> P!GrowEnds
  BY IndexTerms, <1>3 DEF I!GrowEnds, P!GrowEnds
<1>10. \A o : I!Store(o) <=> P!Store(o)
  BY IndexTerms DEF I!Store, P!Store
<1>11. QED
  BY <1>5, <1>6, <1>7, <1>8, <1>9, <1>10

-----------------------------------------------------------------------------
(***************************************************************************)
(* The inductive invariant: those of the two parts, and what joins them.   *)
(***************************************************************************)
Walking == {"chain", "full", "finish"}
Writing == pc \in Walking \union {"index"} /\ req.op # "lookup"

(* Which step of the table each phase of a call leaves it in.                *)
Phase ==
  /\ pc \in Walking \union {"closed", "idle", "index"}
  /\ pc = "closed" <=> ~isOpen
  /\ pc = "closed" => ipc = "closed"
  /\ pc \in Walking \union {"idle"} => ipc = "idle"
  /\ pc = "index" => ipc \in {"idle", "rehash", "exit"} /\ req.op # "lookup"

(* What a call was given. Only a whole log is written to, and the table was  *)
(* asked for the cell of the key that is written.                            *)
Asking ==
  /\ pc \in Walking \union {"index"} => req.key \in KeyBytes /\ req.val \in ValBytes
  /\ Writing => ~torn /\ tries < MaxAppends /\ arg = P!KeyOf(HashOf[req.key])

AllClean == \A k \in 1 .. Len(acked) : acked[k].clean

(* Every offset in a table is one that kvraw_append returned.                *)
OffsIn(t, S) == \A j \in P!Slots(t) : t.maps[j].off \in S
Offsets == OffsIn(tab, K!Starts) /\ (ipc = "rehash" => OffsIn(new, K!Starts))

(* A walk is at a record, and at or below the one its chain began with.      *)
Walk ==
  /\ pc \in Walking => off \in K!Starts
  /\ pc \in {"chain", "full"} => off # 0
  /\ Writing /\ pc # "index" => ref # P!NoRef /\ off <= tab.maps[ref].off

Joined == Phase /\ Asking /\ AllClean /\ Offsets /\ Walk
Inv == K!IInv /\ P!IInv /\ P!IInv2 /\ Joined

(* Every step of the database is one of KVRaw or leaves the log alone, and   *)
(* a step of Index or leaves the table alone.                                *)
LEMMA StepsOfParts ==
  Inv /\ [Next]_vars => [K!Next]_(K!vars) /\ [P!Next]_(P!vars)
<1> SUFFICES ASSUME Inv, [Next]_vars
             PROVE  [K!Next]_(K!vars) /\ [P!Next]_(P!vars)
  OBVIOUS
<1> USE DEF K!vars, P!vars, rawVars, indexVars
<1>1. CASE kvdb_open
  <2>1. CASE UNCHANGED <<rawVars, indexVars>>
    BY <2>1
  <2>2. CASE R!kvraw_open /\ I!index_open
    BY <2>2, KVRawSteps, IndexSteps DEF K!Next, P!Next
  <2>3. QED
    BY <1>1, <2>1, <2>2, Zenon DEF kvdb_open
<1>2. CASE kvdb_close
  BY <1>2, KVRawSteps, IndexSteps DEF kvdb_close, K!Next, P!Next
<1>3. ASSUME NEW k \in KeyBytes, NEW want, kvdb_lookup(k, want)
      PROVE  UNCHANGED <<rawVars, indexVars>>
  BY <1>3 DEF kvdb_lookup, RawIdle
<1>4. ASSUME NEW r, r.key \in KeyBytes, mutate(r)
      PROVE  UNCHANGED rawVars /\ P!Next
  <2>1. HashOf[r.key] \in Code
    BY <1>4, DatabaseAssumption
  <2>2. P!index_update(HashOf[r.key]) /\ UNCHANGED rawVars
    BY <1>4, IndexSteps DEF mutate, RawIdle
  <2>3. QED
    BY <2>1, <2>2 DEF P!Next
<1>5. CASE Call
  <2>1. \A op, k, v, want : Request(op, k, v, want).key = k
    BY DEF Request
  <2>2. CASE \E k \in KeyBytes, want \in BOOLEAN : kvdb_lookup(k, want)
    BY <1>3, <2>2
  <2>3. CASE \E k \in KeyBytes, want \in BOOLEAN : mutate(Request("remove", k, None, want))
    BY <1>4, <2>1, <2>3
  <2>4. CASE \E k \in KeyBytes, op \in {"insert", "update", "replace"}, v \in ValBytes \ {None} :
               mutate(Request(op, k, v, FALSE))
    BY <1>4, <2>1, <2>4, ZenonT(60)
  <2>5. QED
    BY <1>5, <2>2, <2>3, <2>4, Zenon DEF Call
<1>6. CASE Grow
  BY <1>6, IndexSteps DEF Grow, RawIdle, P!Next
<1>7. CASE IndexUpdated \/ LookupReturns \/ MutateRejects
  BY <1>7 DEF IndexUpdated, LookupReturns, MutateRejects, RawIdle
<1>8. ASSUME pc \in {"chain", "full"}, NEW n \in Nat, NEW room \in Nat,
             R!kvraw_lookup(off, n, room)
      PROVE  K!Next
  <2>1. off \in K!Asked
    BY <1>8 DEF Inv, Joined, Walk, Walking, K!Asked
  <2>2. QED
    BY <1>8, <2>1, KVRawSteps DEF K!Next
<1>9. ASSUME NEW k \in KeyBytes PROVE Len(k) \in Nat /\ Least(Len(k), BUF) \in Nat
  <2>1. k \in Seq(Nat)
    BY DatabaseAssumption
  <2>2. QED
    BY <2>1, DatabaseAssumption DEF Least
<1>10. CASE ChainRead
  <2>1. req.key \in KeyBytes /\ pc = "chain"
    BY <1>10 DEF ChainRead, Inv, Joined, Asking, Walking
  <2>2. R!kvraw_lookup(off, Least(Len(req.key), BUF), IF req.want THEN ROOM ELSE 0)
        /\ UNCHANGED indexVars
    BY <1>10 DEF ChainRead
  <2>3. (IF req.want THEN ROOM ELSE 0) \in Nat
    BY DatabaseAssumption
  <2>4. QED
    BY <1>8, <1>9, <2>1, <2>2, <2>3
<1>11. CASE ChainFull
  <2>1. req.key \in KeyBytes /\ pc = "full" /\ UNCHANGED indexVars
    BY <1>11 DEF ChainFull, Inv, Joined, Asking, Walking
  <2>2. isOpen
    BY <2>1 DEF Inv, Joined, Phase
  <2>3. R!kvraw_lookup(off, Len(req.key), 0)
    <3>1. CASE R!kvraw_lookup(off, Len(req.key), 0)
      BY <3>1
    <3>2. CASE reply' = [rc |-> "io", at |-> off] /\ UNCHANGED <<isOpen, disk, size, torn, acked, tries>>
      BY <2>2, <3>2 DEF R!kvraw_lookup
    <3>3. QED
      BY <1>11, <3>1, <3>2, Zenon DEF ChainFull
  <2>4. QED
    BY <1>8, <1>9, <2>1, <2>3
<1>12. ASSUME MutateAppends \/ MutateFails
       PROVE  /\ K!Next
              /\ tab.maps[ref].off \in K!Starts /\ req.key \in KeyBytes /\ req.val \in ValBytes
  <2>1. pc = "finish" /\ req.op # "lookup" /\ Writing
    BY <1>12 DEF MutateAppends, MutateFails, Writing, Walking
  <2>2. /\ isOpen /\ tries < MaxAppends /\ req.key \in KeyBytes /\ req.val \in ValBytes
        /\ ref # P!NoRef
    BY <2>1 DEF Inv, Joined, Phase, Asking, Walk, Walking
  <2>3. ref \in P!Slots(tab)
    BY <2>2 DEF Inv, P!IInv, P!TypeOK
  <2>4. tab.maps[ref].off \in K!Starts
    BY <2>3 DEF Inv, Joined, Offsets, OffsIn
  <2>5. /\ K!AppendEnds(tab.maps[ref].off, req.key, req.val)
             \/ K!AppendFails(tab.maps[ref].off, req.key, req.val)
        /\ tries' = tries + 1 /\ reply' = K!NoReply /\ UNCHANGED isOpen
    BY <1>12, KVRawSteps DEF MutateAppends, MutateFails, LinkOf
  <2>6. K!kvraw_append
    BY <2>2, <2>4, <2>5, Zenon DEF K!kvraw_append
  <2>7. QED
    BY <2>2, <2>4, <2>6 DEF K!Next
<1>13. CASE MutateAppends
  <2>1. P!Store(size) /\ size \in Nat
    BY <1>13, IndexSteps DEF MutateAppends, Inv, K!IInv, K!Typed
  <2>2. QED
    BY <1>12, <1>13, <2>1 DEF P!Next
<1>14. CASE MutateFails
  BY <1>12, <1>14 DEF MutateFails
<1>15. CASE UNCHANGED vars
  BY <1>15 DEF vars
<1>16. QED
  BY <1>1, <1>2, <1>5, <1>6, <1>7, <1>10, <1>11, <1>13, <1>14, <1>15, Zenon DEF Next

-----------------------------------------------------------------------------
(* Tables keep what they hold while they are updated, moved and created.     *)
LEMMA NewTableOffs ==
  ASSUME NEW c, NEW S, 0 \in S
  PROVE  OffsIn(P!Table(c), S)
  BY DEF OffsIn, P!Table, P!Slots

LEMMA UpdateOffs ==
  ASSUME NEW t, P!IsTable(t), NEW S, 0 \in S, OffsIn(t, S), NEW key
  PROVE  OffsIn(P!update(t, key), S) /\ P!Slots(P!update(t, key)) = P!Slots(t)
<1> DEFINE j == P!SlotFor(t, key)
           u == [t EXCEPT !.size = @ + 1, !.maps[j] = [key |-> key, off |-> 0]]
<1> HIDE DEF j
<1>1. /\ t.maps \in [P!Slots(t) -> P!Slot] /\ DOMAIN t = {"size", "capacity", "maps"}
  BY DEF P!IsTable
<1>2. u.capacity = t.capacity /\ u.maps = [t.maps EXCEPT ![j] = [key |-> key, off |-> 0]]
  BY <1>1
<1> HIDE DEF u
<1>3. P!Slots(u) = P!Slots(t)
  BY <1>2 DEF P!Slots
<1>4. \A s \in P!Slots(t) : u.maps[s] = t.maps[s] \/ u.maps[s] = [key |-> key, off |-> 0]
  BY <1>1, <1>2
<1>5. OffsIn(u, S)
  BY <1>3, <1>4 DEF OffsIn
<1>6. P!update(t, key) = t \/ P!update(t, key) = u
  BY DEF P!update, u, j
<1>7. QED
  BY <1>3, <1>5, <1>6

LEMMA StoreOffs ==
  ASSUME NEW t, P!IsTable(t), NEW S, OffsIn(t, S), NEW j, NEW o \in S
  PROVE  OffsIn([t EXCEPT !.maps[j].off = o], S)
<1> DEFINE u == [t EXCEPT !.maps[j].off = o]
<1>1. /\ t.maps \in [P!Slots(t) -> P!Slot] /\ DOMAIN t = {"size", "capacity", "maps"}
  BY DEF P!IsTable
<1>2. u.capacity = t.capacity /\ u.maps = [t.maps EXCEPT ![j].off = o]
  BY <1>1
<1> HIDE DEF u
<1>3. P!Slots(u) = P!Slots(t)
  BY <1>2 DEF P!Slots
<1>4. \A s \in P!Slots(t) : u.maps[s].off = t.maps[s].off \/ u.maps[s].off = o
  BY <1>1, <1>2 DEF P!Slot
<1>5. OffsIn(u, S)
  BY <1>3, <1>4 DEF OffsIn
<1>6. QED
  BY <1>5 DEF u

LEMMA PlaceOffs ==
  ASSUME NEW t, P!IsTable(t), NEW S, 0 \in S, OffsIn(t, S), NEW key, P!Place(t, key)
  PROVE  OffsIn(tab', S) /\ ipc' \in {"idle", "exit"} /\ arg' = key
  BY UpdateOffs DEF P!Place

(* So no step of the table brings in an offset that was not there: the only  *)
(* other one is the one that a caller stores.                                *)
LEMMA IndexOffs ==
  ASSUME P!IInv, P!IInv2, NEW S, 0 \in S, OffsIn(tab, S), ipc = "rehash" => OffsIn(new, S),
         \/ P!index_open \/ P!index_close \/ \E c \in Code : P!index_update(c)
         \/ P!Rehash \/ P!GrowEnds \/ UNCHANGED <<ipc, tab, new>>
  PROVE  OffsIn(tab', S) /\ (ipc' = "rehash" => OffsIn(new', S))
<1>1. P!IsTable(tab) /\ P!IsTable(new) /\ P!Tight(new)
  BY DEF P!IInv, P!TypeOK
<1>2. CASE P!index_open
  BY <1>2 DEF P!index_open
<1>3. CASE P!index_close
  BY <1>3, NewTableOffs DEF P!index_close, P!NoTable
<1>4. ASSUME NEW c \in Code, P!index_update(c)
      PROVE  OffsIn(tab', S) /\ (ipc' = "rehash" => OffsIn(new', S))
  <2>1. ipc = "idle"
    BY <1>4 DEF P!index_update
  <2>2. CASE P!Place(tab, P!KeyOf(c))
    BY <1>1, <2>2, PlaceOffs
  <2>3. CASE UNCHANGED <<ipc, tab>>
    BY <2>1, <2>3
  <2>4. CASE new' = P!Table(P!Larger(tab.capacity)) /\ UNCHANGED tab
    BY <2>4, NewTableOffs
  <2>5. QED
    BY <1>4, <2>2, <2>3, <2>4 DEF P!index_update
<1>5. CASE P!Rehash
  <2>1. ipc = "rehash" /\ i < tab.capacity /\ tab' = tab
    BY <1>5 DEF P!Rehash
  <2>2. OffsIn(new, S)
    BY <2>1
  <2>3. i \in P!Slots(tab)
    <3>1. i \in 0 .. tab.capacity /\ tab.capacity \in Nat
      BY <1>1 DEF P!IInv, P!TypeOK, P!IsTable
    <3>2. QED
      BY <2>1, <3>1 DEF P!Slots
  <2> DEFINE slot == tab.maps[i]
  <2>4. slot \in P!Slot /\ slot.off \in S
    BY <1>1, <2>3 DEF P!IsTable, OffsIn
  <2>5. CASE new' = new
    BY <2>1, <2>2, <2>5
  <2>6. CASE slot.key # P!NoKey /\ P!Ends(new, slot.key) # {} /\ new' = P!Moved(new, slot)
    <3>1. slot.key \in 1 .. Width - 1
      BY <2>4, <2>6 DEF P!Slot, P!NoKey
    <3>2. P!IsTable(P!update(new, slot.key))
      BY <1>1, <2>6, <3>1, PartsAssume, P!UpdateKeeps
    <3>3. OffsIn(P!update(new, slot.key), S)
      BY <1>1, <2>2, UpdateOffs
    <3>4. OffsIn(P!Moved(new, slot), S)
      BY <2>4, <3>2, <3>3, StoreOffs DEF P!Moved
    <3>5. QED
      BY <2>1, <2>6, <3>4
  <2>7. QED
    BY <1>5, <2>5, <2>6 DEF P!Rehash
<1>6. CASE P!GrowEnds
  <2>1. OffsIn(new, S) /\ P!Place(new, arg)
    BY <1>6 DEF P!GrowEnds
  <2>2. QED
    BY <1>1, <2>1, PlaceOffs
<1>7. CASE UNCHANGED <<ipc, tab, new>>
  BY <1>7
<1>8. QED
  BY <1>2, <1>3, <1>4, <1>5, <1>6, <1>7

(* Where a record that was read points to.                                   *)
LinkDown ==
  reply.rc = "ok" /\ reply.at \in K!Starts /\ reply.at # 0 =>
    reply.off \in K!Starts /\ reply.off \in Nat /\ reply.off < reply.at

LEMMA ReadGoesDown == K!IInv /\ AllClean => LinkDown
<1> SUFFICES ASSUME K!IInv, AllClean, reply.rc = "ok", reply.at \in K!Starts, reply.at # 0
             PROVE  reply.off \in K!Starts /\ reply.off \in Nat /\ reply.off < reply.at
  BY DEF LinkDown
<1>1. K!Typed /\ K!Linked /\ K!LookupFaithful
  BY DEF K!IInv
<1>2. DOMAIN acked = 1 .. Len(acked)
  BY <1>1, K!EntryTypes, PartsAssume
<1>3. PICK k \in 1 .. Len(acked) : acked[k].at = reply.at
  BY <1>2 DEF K!Starts
<1>4. acked[k].clean
  BY <1>3 DEF AllClean
<1>5. acked[k] \in K!CleanRecords
  BY <1>2, <1>4 DEF K!CleanRecords
<1>6. reply.off = acked[k].off
  BY <1>1, <1>3, <1>5 DEF K!LookupFaithful
<1>7. PICK l \in 1 .. Len(acked) : acked[l].at = acked[k].off /\ acked[l].at < acked[k].at
  BY <1>1, <1>3, <1>4 DEF K!Linked
<1>8. reply.off \in Nat
  BY DEF K!IInv, K!LinkRead
<1>9. QED
  BY <1>2, <1>3, <1>6, <1>7, <1>8 DEF K!Starts

-----------------------------------------------------------------------------
LEMMA SentinelStart ==
  ASSUME K!IInv, isOpen
  PROVE  0 \in K!Starts
<1>1. K!Typed /\ K!Handle
  BY DEF K!IInv
<1>2. DOMAIN acked = 1 .. Len(acked) /\ Len(acked) \in Nat /\ acked \in Seq(K!Entry)
  BY <1>1, K!EntryTypes, PartsAssume DEF K!Typed
<1>3. acked # <<>> /\ acked[1].at = 0
  BY <1>1 DEF K!Handle
<1>4. Len(acked) # 0
  BY <1>2, <1>3, EmptySeq
<1>5. QED
  BY <1>2, <1>3, <1>4 DEF K!Starts

LEMMA AppendStarts ==
  ASSUME K!IInv, AllClean, ~torn, NEW o, NEW k, NEW v, K!AppendEnds(o, k, v)
  PROVE  AllClean' /\ K!Starts \subseteq K!Starts' /\ size \in K!Starts'
<1> DEFINE e == K!Acked(size, o, k, v)
<1>1. e.at = size /\ e.clean
  BY DEF K!Acked
<1>2. acked' = Append(acked, e)
  BY DEF K!AppendEnds
<1> HIDE DEF e
<1>3. acked \in Seq(K!Entry \union {e})
  <2>1. acked \in Seq(K!Entry)
    BY DEF K!IInv, K!Typed
  <2>2. QED
    BY <2>1
<1>4. /\ Len(acked') = Len(acked) + 1 /\ Len(acked) \in Nat
      /\ acked'[Len(acked) + 1] = e
      /\ \A n \in 1 .. Len(acked) : acked'[n] = acked[n]
      /\ DOMAIN acked = 1 .. Len(acked) /\ DOMAIN acked' = 1 .. Len(acked')
  BY <1>2, <1>3, AppendProperties, LenProperties
<1>5. AllClean'
  BY <1>1, <1>4 DEF AllClean
<1>6. K!Starts \subseteq K!Starts'
  BY <1>4 DEF K!Starts
<1>7. size \in K!Starts'
  BY <1>1, <1>4 DEF K!Starts
<1>8. QED
  BY <1>5, <1>6, <1>7

(* A handle that is opened or closed.                                        *)
LEMMA FreshStarts ==
  ASSUME K!IInv, K!kvraw_open \/ K!kvraw_close
  PROVE  AllClean' /\ (isOpen' => 0 \in K!Starts')
<1>1. CASE K!kvraw_open
  <2>1. PICK junk \in Junk : acked' = <<K!Acked(0, junk, <<0>>, <<0>>)>>
    BY <1>1 DEF K!kvraw_open
  <2>2. ~torn
    BY <1>1 DEF K!kvraw_open, K!IInv, K!Handle
  <2> DEFINE e == K!Acked(0, junk, <<0>>, <<0>>)
  <2>3. e.at = 0 /\ e.clean
    BY <2>2 DEF K!Acked
  <2> HIDE DEF e
  <2>4. acked' = <<e>>
    BY <2>1 DEF e
  <2>5. AllClean'
    BY <2>3, <2>4 DEF AllClean
  <2>6. 0 \in K!Starts'
    BY <2>3, <2>4 DEF K!Starts
  <2>7. QED
    BY <2>5, <2>6
<1>2. CASE K!kvraw_close
  BY <1>2 DEF K!kvraw_close, AllClean
<1>3. QED
  BY <1>1, <1>2

-----------------------------------------------------------------------------
(* Steps, by what they leave alone.                                          *)
LEMMA SameLog ==
  ASSUME AllClean, UNCHANGED acked
  PROVE  AllClean' /\ K!Starts' = K!Starts
  BY DEF AllClean, K!Starts

LEMMA SameTable ==
  ASSUME Inv, UNCHANGED <<acked, indexVars>>
  PROVE  AllClean' /\ Offsets' /\ K!Starts' = K!Starts
<1>1. AllClean /\ Offsets
  BY DEF Inv, Joined
<1>2. AllClean' /\ K!Starts' = K!Starts
  BY <1>1, SameLog
<1>3. Offsets'
  BY <1>1, <1>2 DEF Offsets, OffsIn, indexVars, P!Slots
<1>4. QED
  BY <1>2, <1>3

(* A call that is over has nothing left of it to be right about.             *)
LEMMA CallOver ==
  ASSUME pc' = "idle", isOpen', ipc' = "idle", AllClean', Offsets'
  PROVE  Joined'
  BY DEF Joined, Phase, Asking, Walk, Writing, Walking

(* A call that walks on.                                                     *)
LEMMA WalksOn ==
  ASSUME Inv, pc \in Walking \union {"index"}, ipc = "idle",
         pc' \in Walking, pc' \in {"chain", "full"} => off' # 0,
         off' \in K!Starts,
         req.op # "lookup" => ref # P!NoRef /\ off' <= tab.maps[ref].off,
         UNCHANGED <<isOpen, torn, acked, tries, req, indexVars>>
  PROVE  Joined'
<1>1. AllClean' /\ Offsets' /\ K!Starts' = K!Starts
  BY SameTable
<1>2. Phase'
  BY DEF Inv, Joined, Phase, Walking, indexVars
<1>3. Asking'
  <2>1. req.key \in KeyBytes /\ req.val \in ValBytes
    BY DEF Inv, Joined, Asking
  <2>2. req.op # "lookup" => ~torn /\ tries < MaxAppends /\ arg = P!KeyOf(HashOf[req.key])
    BY DEF Inv, Joined, Asking, Writing
  <2>3. QED
    BY <2>1, <2>2 DEF Asking, Writing, indexVars, P!KeyOf
<1>4. Walk'
  BY <1>1 DEF Walk, Writing, Walking, indexVars, P!NoRef
<1>5. QED
  BY <1>1, <1>2, <1>3, <1>4 DEF Joined

(* What the walk of a call stands at.                                        *)
LEMMA AtRecord ==
  ASSUME Inv, pc \in Walking
  PROVE  /\ isOpen /\ ipc = "idle" /\ off \in K!Starts /\ off \in Nat
         /\ req.key \in KeyBytes /\ req.val \in ValBytes
         /\ req.op # "lookup" =>
              /\ ref \in P!Slots(tab) /\ ref # P!NoRef
              /\ tab.maps[ref].off \in Nat /\ off <= tab.maps[ref].off
              /\ ~torn /\ tries < MaxAppends
<1>1. isOpen /\ ipc = "idle" /\ off \in K!Starts
  BY DEF Inv, Joined, Phase, Walk, Walking
<1>2. off \in Nat
  BY <1>1, K!StartsAreRecords, PartsAssume DEF Inv, K!IInv
<1>3. req.key \in KeyBytes /\ req.val \in ValBytes
  BY DEF Inv, Joined, Asking
<1>4. ASSUME req.op # "lookup"
      PROVE  /\ ref # P!NoRef /\ off <= tab.maps[ref].off
             /\ ~torn /\ tries < MaxAppends
  BY <1>4 DEF Inv, Joined, Asking, Walk, Writing, Walking
<1>5. ref \in P!Slots(tab) \union {P!NoRef} /\ P!IsTable(tab)
  BY DEF Inv, P!IInv, P!TypeOK
<1>6. \A j \in P!Slots(tab) : tab.maps[j].off \in Nat
  BY <1>5 DEF P!IsTable, P!Slot
<1>7. QED
  BY <1>1, <1>2, <1>3, <1>4, <1>5, <1>6

-----------------------------------------------------------------------------
LEMMA OpenJoins ==
  ASSUME Inv, kvdb_open \/ kvdb_close
  PROVE  Joined'
<1>1. CASE kvdb_open /\ UNCHANGED <<rawVars, indexVars, pc>>
  <2>1. pc = "closed" /\ pc' = "closed" /\ isOpen' = isOpen /\ ipc' = ipc
    BY <1>1 DEF kvdb_open, rawVars, indexVars
  <2>2. Phase' /\ Asking' /\ Walk'
    BY <2>1 DEF Inv, Joined, Phase, Asking, Walk, Writing, Walking
  <2>3. QED
    BY <1>1, <2>2, SameTable DEF Joined, rawVars
<1>2. CASE K!kvraw_open /\ P!index_open /\ pc' = "idle"
  <2>1. P!IInv /\ P!IInv2 /\ ipc = "closed" /\ ipc' = "idle" /\ tab' = tab /\ isOpen'
    BY <1>2 DEF P!index_open, K!kvraw_open, Inv
  <2>2. AllClean' /\ 0 \in K!Starts'
    BY <1>2, <2>1, FreshStarts DEF Inv
  <2>3. tab = P!Table(0)
    BY <2>1 DEF P!IInv2, P!Held, P!NoTable
  <2>4. Offsets'
    BY <2>1, <2>2, <2>3, NewTableOffs DEF Offsets
  <2>5. QED
    BY <1>2, <2>1, <2>2, <2>4, CallOver
<1>3. CASE K!kvraw_close /\ P!index_close /\ pc' = "closed"
  <2>1. ~isOpen' /\ ipc' = "closed" /\ tab' = P!Table(0)
    BY <1>3 DEF K!kvraw_close, P!index_close, P!NoTable
  <2>2. AllClean'
    BY <1>3, FreshStarts DEF Inv
  <2>3. Offsets'
    BY <2>1 DEF Offsets, OffsIn, P!Table, P!Slots
  <2>4. Phase' /\ Asking' /\ Walk'
    BY <1>3, <2>1 DEF Phase, Asking, Walk, Writing, Walking
  <2>5. QED
    BY <2>2, <2>3, <2>4 DEF Joined
<1>4. QED
  BY <1>1, <1>2, <1>3, KVRawSteps, IndexSteps, Zenon DEF kvdb_open, kvdb_close

LEMMA LookupJoins ==
  ASSUME Inv, NEW k \in KeyBytes, NEW want, kvdb_lookup(k, want)
  PROVE  Joined'
<1> DEFINE r == Request("lookup", k, None, want)
           o == Cell(tab, HashOf[k])
<1>1. /\ pc = "idle" /\ ipc = "idle" /\ isOpen
      /\ UNCHANGED <<isOpen, torn, acked, tries, indexVars>>
  BY DEF kvdb_lookup, RawIdle, rawVars, Inv, Joined, Phase, Walking
<1>2. AllClean' /\ Offsets' /\ K!Starts' = K!Starts
  BY <1>1, SameTable
<1>3. CASE Return(r, 1, None)
  BY <1>1, <1>2, <1>3, CallOver DEF Return, indexVars
<1>4. CASE o # 0 /\ WalkTo(o) /\ req' = r
  <2>1. o \in K!Starts
    <3> DEFINE j == P!lookup(tab, P!KeyOf(HashOf[k]))
    <3>1. o = IF j = P!NoRef THEN 0 ELSE tab.maps[j].off
      BY IndexTerms DEF Cell
    <3>2. j \in P!Slots(tab)
      <4>1. P!KeyOf(HashOf[k]) \in 1 .. Width - 1
        BY DatabaseAssumption, PartsAssume, P!KeyOfType
      <4>2. P!IsTable(tab)
        BY DEF Inv, P!IInv, P!TypeOK
      <4>3. j # P!NoRef
        BY <1>4, <3>1
      <4>4. QED
        BY <4>1, <4>2, <4>3, PartsAssume, P!ProbeEnds DEF P!lookup
    <3>3. QED
      BY <1>4, <3>1, <3>2 DEF Inv, Joined, Offsets, OffsIn
  <2>2. pc' = "chain" /\ off' = o /\ req'.op = "lookup" /\ req'.key = k /\ req'.val = <<>>
    BY <1>4 DEF WalkTo, Request, None
  <2>3. Phase' /\ Asking'
    BY <1>1, <2>2, DatabaseAssumption DEF Phase, Asking, Writing, Walking, indexVars
  <2>4. Walk'
    BY <1>2, <1>4, <2>1, <2>2 DEF Walk, Writing, Walking
  <2>5. QED
    BY <1>2, <2>3, <2>4 DEF Joined
<1>5. QED
  BY <1>3, <1>4 DEF kvdb_lookup

LEMMA MutateJoins ==
  ASSUME Inv, NEW r, r.key \in KeyBytes, r.val \in ValBytes, r.op # "lookup", mutate(r)
  PROVE  Joined'
<1>1. /\ pc = "idle" /\ pc' = "index" /\ req' = r /\ ~torn /\ tries < MaxAppends
      /\ P!index_update(HashOf[r.key]) /\ UNCHANGED <<isOpen, torn, acked, tries>>
  BY IndexSteps DEF mutate, RawIdle, rawVars
<1>2. ipc = "idle" /\ isOpen /\ AllClean /\ Offsets /\ P!IInv /\ P!IInv2 /\ K!IInv
  BY <1>1 DEF Inv, Joined, Phase, Walking
<1>3. AllClean' /\ K!Starts' = K!Starts
  BY <1>1, <1>2, SameLog
<1>4. ipc' \in {"idle", "rehash", "exit"} /\ arg' = P!KeyOf(HashOf[r.key])
  BY <1>1, <1>2 DEF P!index_update, P!Place
<1>5. HashOf[r.key] \in Code
  BY DatabaseAssumption
<1>6. Offsets'
  <2>1. OffsIn(tab', K!Starts) /\ (ipc' = "rehash" => OffsIn(new', K!Starts))
    BY <1>1, <1>2, <1>5, SentinelStart, IndexOffs DEF Offsets
  <2>2. QED
    BY <1>3, <2>1 DEF Offsets
<1>7. Phase' /\ Asking' /\ Walk'
  BY <1>1, <1>2, <1>4 DEF Phase, Asking, Walk, Writing, Walking, P!KeyOf
<1>8. QED
  BY <1>3, <1>6, <1>7 DEF Joined

LEMMA GrowJoins ==
  ASSUME Inv, Grow
  PROVE  Joined'
<1>1. /\ pc = "index" /\ (P!Rehash \/ P!GrowEnds)
      /\ UNCHANGED <<isOpen, torn, acked, tries, pc, req>>
  BY IndexSteps DEF Grow, RawIdle, rawVars, callVars
<1>2. ipc = "rehash" /\ ipc' \in {"idle", "rehash", "exit"} /\ arg' = arg
  BY <1>1 DEF P!Rehash, P!GrowEnds, P!Place
<1>3. isOpen /\ AllClean /\ Offsets /\ P!IInv /\ P!IInv2 /\ K!IInv
  BY <1>1 DEF Inv, Joined, Phase, Walking
<1>4. AllClean' /\ K!Starts' = K!Starts
  BY <1>1, <1>3, SameLog
<1>5. Offsets'
  <2>1. OffsIn(tab', K!Starts) /\ (ipc' = "rehash" => OffsIn(new', K!Starts))
    BY <1>1, <1>3, SentinelStart, IndexOffs DEF Offsets
  <2>2. QED
    BY <1>4, <2>1 DEF Offsets
<1>6. Phase' /\ Asking' /\ Walk'
  BY <1>1, <1>2 DEF Inv, Joined, Phase, Asking, Walk, Writing, Walking, P!KeyOf
<1>7. QED
  BY <1>4, <1>5, <1>6 DEF Joined

(* The walk itself: it goes where the record it read points to, or stays.    *)
LEMMA ReadJoins ==
  ASSUME Inv, K!IInv', ChainRead \/ ChainFull
  PROVE  Joined'
<1>1. pc \in {"chain", "full"} /\ UNCHANGED indexVars
  BY DEF ChainRead, ChainFull
<1>2. /\ pc \in Walking /\ pc \in Walking \union {"index"} /\ isOpen /\ ipc = "idle"
      /\ off \in K!Starts /\ off \in Nat /\ off # 0
      /\ req.op # "lookup" => /\ ref # P!NoRef /\ off <= tab.maps[ref].off
                              /\ tab.maps[ref].off \in Nat
  <2>1. pc \in Walking /\ pc \in Walking \union {"index"}
    BY <1>1 DEF Walking
  <2>2. off # 0
    BY <1>1 DEF Inv, Joined, Walk
  <2>3. QED
    BY <2>1, <2>2, AtRecord
<1>3. UNCHANGED <<isOpen, disk, size, torn, acked, tries>> /\ reply'.at = off
  <2>1. \A n, room : R!kvraw_lookup(off, n, room) =>
          UNCHANGED <<isOpen, disk, size, torn, acked, tries>> /\ reply'.at = off
    BY DEF R!kvraw_lookup
  <2>2. CASE ChainRead
    BY <2>1, <2>2 DEF ChainRead
  <2>3. CASE ChainFull
    <3>1. CASE R!kvraw_lookup(off, Len(req.key), 0)
      BY <2>1, <3>1
    <3>2. CASE reply' = [rc |-> "io", at |-> off] /\ UNCHANGED <<isOpen, disk, size, torn, acked, tries>>
      BY <3>2
    <3>3. QED
      BY <2>3, <3>1, <3>2, Zenon DEF ChainFull
  <2>4. QED
    BY <2>2, <2>3
<1>4. AllClean' /\ Offsets' /\ K!Starts' = K!Starts
  BY <1>1, <1>3, SameTable
<1>5. reply'.rc = "ok" => reply'.off \in K!Starts' /\ reply'.off \in Nat /\ reply'.off < off
  <2>1. K!IInv' /\ AllClean' => LinkDown'
    BY ReadGoesDown, PTL
  <2>2. QED
    BY <1>2, <1>3, <1>4, <2>1 DEF LinkDown
<1>6. CASE Return(req, -1, None)
  <2>1. pc' = "idle" /\ isOpen' /\ ipc' = "idle"
    BY <1>1, <1>2, <1>3, <1>6 DEF Return, indexVars
  <2>2. QED
    BY <1>4, <2>1, CallOver
<1>7. CASE reply'.rc = "ok" /\ WalkTo(reply'.off) /\ req' = req
  <2>1. /\ off' \in K!Starts /\ off' < off /\ off' \in Nat
        /\ pc' \in Walking /\ (pc' \in {"chain", "full"} => off' # 0)
    BY <1>4, <1>5, <1>7 DEF WalkTo, Walking
  <2>2. req.op # "lookup" => ref # P!NoRef /\ off' <= tab.maps[ref].off
    BY <1>2, <2>1
  <2>3. QED
    BY <1>1, <1>2, <1>3, <1>7, <2>1, <2>2, WalksOn
<1>8. CASE pc' \in {"full", "finish"} /\ UNCHANGED <<off, req>>
  <2>1. pc' \in Walking
    BY <1>8 DEF Walking
  <2>2. QED
    BY <1>1, <1>2, <1>3, <1>8, <2>1, WalksOn
<1>9. QED
  BY <1>6, <1>7, <1>8, Zenon DEF ChainRead, ChainFull

LEMMA UpdatedJoins ==
  ASSUME Inv, IndexUpdated
  PROVE  Joined'
<1>1. /\ pc = "index" /\ ipc = "idle" /\ req.op # "lookup"
      /\ UNCHANGED <<rawVars, indexVars>>
  BY DEF IndexUpdated, RawIdle, Inv, Joined, Phase
<1>2. isOpen /\ isOpen' = isOpen /\ ipc' = "idle" /\ AllClean' /\ Offsets'
  BY <1>1, SameTable DEF Inv, Joined, Phase, rawVars, indexVars
<1>3. CASE Return(req, -1, None)
  BY <1>2, <1>3, CallOver DEF Return
<1>4. CASE ref # P!NoRef /\ WalkTo(tab.maps[ref].off) /\ req' = req
  <2> DEFINE o == tab.maps[ref].off
  <2>1. P!IsTable(tab) /\ ref \in P!Slots(tab)
    BY <1>4 DEF Inv, P!IInv, P!TypeOK
  <2>2. o \in Nat
    BY <2>1 DEF P!IsTable, P!Slot
  <2>3. o \in K!Starts
    BY <2>1 DEF Inv, Joined, Offsets, OffsIn
  <2>4. /\ off' = o /\ off' <= o /\ pc' \in Walking
        /\ pc' \in {"chain", "full"} => off' # 0
    BY <1>4, <2>2 DEF WalkTo, Walking
  <2>5. pc \in Walking \union {"index"}
    BY <1>1
  <2>6. QED
    BY <1>1, <1>4, <2>3, <2>4, <2>5, WalksOn DEF rawVars
<1>5. QED
  BY <1>3, <1>4, IndexTerms DEF IndexUpdated

LEMMA RejectJoins ==
  ASSUME Inv, LookupReturns \/ MutateRejects
  PROVE  Joined'
<1>1. pc = "finish" /\ pc' = "idle" /\ UNCHANGED <<rawVars, indexVars>>
  BY DEF LookupReturns, MutateRejects, RawIdle, Return
<1>2. isOpen /\ ipc = "idle"
  BY <1>1, AtRecord DEF Walking
<1>3. QED
  BY <1>1, <1>2, SameTable, CallOver DEF rawVars, indexVars

LEMMA AppendJoins ==
  ASSUME Inv, MutateAppends \/ MutateFails
  PROVE  Joined'
<1>1. /\ pc = "finish" /\ pc' = "idle" /\ req.op # "lookup" /\ UNCHANGED isOpen
  BY DEF MutateAppends, MutateFails, Return
<1>2. /\ isOpen /\ ipc = "idle" /\ ~torn /\ AllClean /\ Offsets /\ K!IInv
      /\ P!IsTable(tab)
  BY <1>1, AtRecord DEF Walking, Inv, Joined, P!IInv, P!TypeOK
<1>3. CASE MutateAppends
  <2>1. K!AppendEnds(LinkOf, req.key, req.val) /\ P!Store(size)
    BY <1>3, KVRawSteps, IndexSteps DEF MutateAppends
  <2>2. AllClean' /\ K!Starts \subseteq K!Starts' /\ size \in K!Starts'
    BY <1>2, <2>1, AppendStarts
  <2>3. ipc' = "idle" /\ tab' = [tab EXCEPT !.maps[ref].off = size]
    BY <1>2, <2>1 DEF P!Store
  <2>4. OffsIn(tab, K!Starts')
    BY <1>2, <2>2 DEF Offsets, OffsIn
  <2>5. OffsIn(tab', K!Starts')
    BY <1>2, <2>2, <2>3, <2>4, StoreOffs
  <2>6. Offsets'
    BY <2>3, <2>5 DEF Offsets
  <2>7. QED
    BY <1>1, <1>2, <2>2, <2>3, <2>6, CallOver
<1>4. CASE MutateFails
  <2>1. UNCHANGED <<acked, indexVars>>
    BY <1>4 DEF MutateFails, R!AppendFails
  <2>2. QED
    BY <1>1, <1>2, <2>1, SameTable, CallOver DEF indexVars
<1>5. QED
  BY <1>3, <1>4

LEMMA JoinedNext == Inv /\ K!IInv' /\ [Next]_vars => Joined'
<1> SUFFICES ASSUME Inv, K!IInv', [Next]_vars PROVE Joined'
  OBVIOUS
<1>1. CASE Call
  <2>1. \A op, k, v, want :
          LET r == Request(op, k, v, want) IN r.op = op /\ r.key = k /\ r.val = v
    BY DEF Request
  <2>2. None \in ValBytes
    BY DatabaseAssumption DEF None
  <2>3. CASE \E k \in KeyBytes, want \in BOOLEAN : kvdb_lookup(k, want)
    BY <2>3, LookupJoins
  <2>4. CASE \E k \in KeyBytes, want \in BOOLEAN : mutate(Request("remove", k, None, want))
    BY <2>1, <2>2, <2>4, MutateJoins
  <2>5. CASE \E k \in KeyBytes, op \in {"insert", "update", "replace"}, v \in ValBytes \ {None} :
               mutate(Request(op, k, v, FALSE))
    <3>1. PICK k \in KeyBytes, op \in {"insert", "update", "replace"}, v \in ValBytes \ {None} :
            mutate(Request(op, k, v, FALSE))
      BY <2>5
    <3>2. op # "lookup" /\ v \in ValBytes
      OBVIOUS
    <3> DEFINE r == Request(op, k, v, FALSE)
    <3>3. r.op = op /\ r.key = k /\ r.val = v
      BY DEF Request
    <3>4. mutate(r)
      BY <3>1
    <3> HIDE DEF r
    <3>5. r.op # "lookup" /\ r.key \in KeyBytes /\ r.val \in ValBytes
      BY <3>2, <3>3
    <3>6. QED
      BY <3>4, <3>5, MutateJoins
  <2>6. QED
    BY <1>1, <2>3, <2>4, <2>5, Zenon DEF Call
<1>2. CASE UNCHANGED vars
  <2>1. UNCHANGED <<rawVars, indexVars, pc, req, off>>
    BY <1>2 DEF vars, callVars
  <2>2. AllClean' /\ Offsets' /\ K!Starts' = K!Starts
    BY <2>1, SameTable DEF rawVars
  <2>3. Phase' /\ Asking' /\ Walk'
    BY <2>1, <2>2 DEF Inv, Joined, Phase, Asking, Walk, Writing, rawVars, indexVars,
                      P!KeyOf, P!NoRef
  <2>4. QED
    BY <2>2, <2>3 DEF Joined
<1>3. QED
  BY <1>1, <1>2, OpenJoins, GrowJoins, ReadJoins, UpdatedJoins, RejectJoins, AppendJoins, Zenon
  DEF Next

LEMMA InvInit == Init => Inv
<1> SUFFICES ASSUME Init PROVE Inv
  OBVIOUS
<1>1. K!Init /\ P!Init /\ pc = "closed"
  BY KVRawSteps, IndexSteps DEF Init
<1>2. K!IInv /\ P!IInv /\ P!IInv2
  BY <1>1, PartsAssume, K!InvInit, P!IndexInvInit, P!SecondInvInit
<1>3. ~isOpen /\ acked = <<>> /\ ipc = "closed" /\ tab = P!Table(0)
  BY <1>1 DEF K!Init, P!Init, P!NoTable
<1>4. Phase /\ Asking /\ Walk
  BY <1>1, <1>3 DEF Phase, Asking, Walk, Writing, Walking
<1>5. AllClean
  BY <1>3 DEF AllClean
<1>6. Offsets
  BY <1>3 DEF Offsets, OffsIn, P!Table, P!Slots
<1>7. QED
  BY <1>2, <1>4, <1>5, <1>6 DEF Inv, Joined

LEMMA InvNext == Inv /\ [Next]_vars => Inv'
<1>1. Inv /\ [Next]_vars => K!IInv' /\ P!IInv' /\ P!IInv2'
  BY StepsOfParts, PartsAssume, K!InvNext, P!IndexInvNext, P!SecondInvNext DEF Inv
<1>2. QED
  BY <1>1, JoinedNext DEF Inv

LEMMA Invariant == Spec => []Inv
<1>1. QED
  BY InvInit, InvNext, PTL DEF Spec

-----------------------------------------------------------------------------
(* Theorem: kvdb.c uses kvraw.c as KVRaw has it used, whatever the table     *)
(* does in between: it reads and links to offsets that kvraw_append returned *)
(* and to those that the record just read points to, and to no others. So    *)
(* what is proved of every run of KVRaw holds of the log in the database.    *)
THEOREM RunsKVRaw == Spec => K!Spec
<1>1. Init => K!Init
  BY KVRawSteps DEF Init
<1>2. QED
  BY <1>1, Invariant, StepsOfParts, PTL DEF Spec, K!Spec

(* Theorem: and it uses index.c as Index has it used: one update at a time,  *)
(* and at most one store through the pointer it was given.                   *)
THEOREM RunsIndex == Spec => P!Spec
<1>1. Init => P!Init
  BY IndexSteps DEF Init
<1>2. QED
  BY <1>1, Invariant, StepsOfParts, PTL DEF Spec, P!Spec

(* Theorem: from index_update to the append that goes through it, the        *)
(* pointer of a call that writes is to the cell of its own key, and the cell *)
(* still has the offset its walk began with (kvdb.c, mutate).                *)
THEOREM RefStaysCurrent == Spec => []RefIsCurrent
<1>1. Inv => RefIsCurrent
  <2> SUFFICES ASSUME Inv, pc \in Walking, req.op # "lookup"
               PROVE  /\ ref \in P!Slots(tab) /\ off <= tab.maps[ref].off
                      /\ tab.maps[ref].key = P!KeyOf(HashOf[req.key])
    BY IndexTerms DEF RefIsCurrent, Walking
  <2>1. ref \in P!Slots(tab) /\ ref # P!NoRef /\ off <= tab.maps[ref].off
    BY AtRecord
  <2>2. tab.maps[ref].key = arg
    BY <2>1 DEF Inv, P!IInv2, P!Held
  <2>3. arg = P!KeyOf(HashOf[req.key])
    BY DEF Inv, Joined, Asking, Writing
  <2>4. QED
    BY <2>1, <2>2, <2>3
<1>2. QED
  BY <1>1, Invariant, PTL

-----------------------------------------------------------------------------
(***************************************************************************)
(* Database implements KVDB, and by what is proved of KVDB the map: the    *)
(* bytes of the log and the slots of the table are the log and the index   *)
(* of KVDB.                                                                *)
(***************************************************************************)
(* The instance DB of Database, with the theorems about KVDB.                *)
S == INSTANCE KVDBProofs WITH
       Key <- KeyBytes, Val <- Values, HashCode <- I!Keys,
       Hash <- Chain, Prefix <- Start, LongKey <- Long,
       MaxLog <- MaxAppends, MaxDrift <- MaxAppends,
       pc <- phase, req <- running, size <- items, off <- place

LEMMA KeyFacts ==
  /\ \A k \in KeyBytes : k \in Seq(Nat) /\ Len(k) \in Nat /\ Len(k) # 0
  /\ \A v \in ValBytes : v \in Seq(Nat) /\ Len(v) \in Nat /\ (v = None <=> Len(v) = 0)
<1>1. \A k \in Seq(Nat) : Len(k) \in Nat /\ (k = <<>> <=> Len(k) = 0)
  BY EmptySeq, LenProperties
<1>2. QED
  BY <1>1, DatabaseAssumption DEF None

LEMMA Bounds == PTR \in Nat /\ PTR # 0 /\ BUF \in Nat /\ PTR <= BUF
  BY DatabaseAssumption

LEMMA LeastOf ==
  ASSUME NEW a \in Nat, NEW b \in Nat
  PROVE  Least(a, b) \in Nat /\ Least(a, b) <= a /\ Least(a, b) <= b /\ Least(a, b) \in {a, b}
  BY DEF Least

LEMMA StartSize ==
  ASSUME NEW a \in KeyBytes, NEW b \in KeyBytes, Start[a] = Start[b]
  PROVE  Len(a) = Len(b) /\ SubSeq(a, 1, Least(Len(a), PTR)) = SubSeq(b, 1, Least(Len(b), PTR))
<1>1. Start[a] = <<Len(a), SubSeq(a, 1, Least(Len(a), PTR))>>
  BY DEF Start
<1>2. Start[b] = <<Len(b), SubSeq(b, 1, Least(Len(b), PTR))>>
  BY DEF Start
<1> HIDE DEF Start
<1>3. \A w, x, y, z : <<w, x>> = <<y, z>> => w = y /\ x = z
  OBVIOUS
<1>4. <<Len(a), SubSeq(a, 1, Least(Len(a), PTR))>> = <<Len(b), SubSeq(b, 1, Least(Len(b), PTR))>>
  BY <1>1, <1>2
<1>5. QED
  BY <1>3, <1>4, Zenon

(* What is assumed of KVDB holds: short keys are what their first bytes are. *)
LEMMA StoreAssumes == S!KVDBAssumption
<1>1. None \notin KeyBytes \union Values
  BY DatabaseAssumption DEF None, Values
<1>2. Chain \in [KeyBytes -> I!Keys]
  BY DatabaseAssumption DEF Chain, I!Keys
<1>3. ASSUME NEW j \in KeyBytes, NEW k \in KeyBytes, Start[j] = Start[k], k \notin Long
      PROVE  j = k
  <2>1. Len(j) = Len(k) /\ SubSeq(j, 1, Least(Len(j), PTR)) = SubSeq(k, 1, Least(Len(k), PTR))
    BY <1>3, StartSize
  <2>2. /\ Len(k) \in Nat /\ j \in Seq(Nat) /\ k \in Seq(Nat)
    BY KeyFacts
  <2>3. Len(k) <= PTR
    BY <1>3, <2>2, Bounds DEF Long
  <2>4. Least(Len(k), PTR) = Len(k)
    BY <2>3 DEF Least
  <2>5. SubSeq(j, 1, Len(j)) = j /\ SubSeq(k, 1, Len(k)) = k
    BY <2>2, SubSeqFull
  <2>6. QED
    BY <2>1, <2>4, <2>5
<1>4. Long \subseteq KeyBytes
  BY DEF Long
<1>5. IsFiniteSet(KeyBytes) /\ MaxAppends \in Nat
  BY DatabaseAssumption
<1>6. S!IsFiniteSet(KeyBytes)
  BY <1>5 DEF IsFiniteSet, S!IsFiniteSet
<1>7. QED
  BY <1>1, <1>2, <1>3, <1>4, <1>5, <1>6 DEF S!KVDBAssumption

-----------------------------------------------------------------------------
(* DB, as Database has it, and S, which has the theorems, are one.           *)
LEMMA SameInstance ==
  /\ DB!Init <=> S!Init
  /\ DB!Next <=> S!Next
  /\ DB!vars = S!vars
<1>1. /\ \A o, k, v, w : DB!Request(o, k, v, w) = S!Request(o, k, v, w)
      /\ \A o, k, rc, got : DB!Reply(o, k, rc, got) = S!Reply(o, k, rc, got)
      /\ DB!Pos = S!Pos /\ (DB!Found <=> S!Found)
  BY DEF DB!Request, S!Request, DB!Reply, S!Reply, DB!Pos, S!Pos, DB!Found, S!Found
<1>2. /\ DB!NoReply = S!NoReply /\ DB!NoRequest = S!NoRequest
  BY <1>1 DEF DB!NoReply, S!NoReply, DB!NoRequest, S!NoRequest
<1>3. /\ \A p : DB!WalkTo(p) <=> S!WalkTo(p)
      /\ \A op : (DB!Admits(op) <=> S!Admits(op)) /\ DB!SizeStep(op) = S!SizeStep(op)
                 /\ DB!WasteStep(op) = S!WasteStep(op)
  BY <1>1 DEF DB!WalkTo, S!WalkTo, DB!Admits, S!Admits, DB!SizeStep, S!SizeStep,
              DB!WasteStep, S!WasteStep
<1>4. /\ \A r, rc, got : DB!Return(r, rc, got) <=> S!Return(r, rc, got)
      /\ DB!Fresh <=> S!Fresh
      /\ \A k, v : DB!kvraw_append(k, v) <=> S!kvraw_append(k, v)
  BY <1>1, <1>2 DEF DB!Return, S!Return, DB!Fresh, S!Fresh, DB!kvraw_append, S!kvraw_append
<1>5. DB!Init <=> S!Init
  BY <1>2 DEF DB!Init, S!Init
<1>6. (DB!kvdb_open <=> S!kvdb_open) /\ (DB!kvdb_close <=> S!kvdb_close)
  BY <1>1, <1>4 DEF DB!kvdb_open, S!kvdb_open, DB!kvdb_close, S!kvdb_close
<1>7. \A k, w : DB!kvdb_lookup(k, w) <=> S!kvdb_lookup(k, w)
  BY <1>1, <1>2, <1>3, <1>4 DEF DB!kvdb_lookup, S!kvdb_lookup
<1>8. \A r : DB!mutate(r) <=> S!mutate(r)
  BY <1>2, <1>3, <1>4 DEF DB!mutate, S!mutate
<1>9. DB!Call <=> S!Call
  BY <1>1, <1>7, <1>8 DEF DB!Call, S!Call, DB!kvdb_insert, S!kvdb_insert, DB!kvdb_update,
     S!kvdb_update, DB!kvdb_replace, S!kvdb_replace, DB!kvdb_remove, S!kvdb_remove
<1>10. DB!ChainRead <=> S!ChainRead
  BY <1>1, <1>3, <1>4 DEF DB!ChainRead, S!ChainRead
<1>11. DB!ChainFull <=> S!ChainFull
  BY <1>3, <1>4 DEF DB!ChainFull, S!ChainFull
<1>12. (DB!LookupReturns <=> S!LookupReturns) /\ (DB!MutateRejects <=> S!MutateRejects)
  BY <1>1, <1>3, <1>4 DEF DB!LookupReturns, S!LookupReturns, DB!MutateRejects, S!MutateRejects
<1>13. DB!MutateAppends <=> S!MutateAppends
  BY <1>3, <1>4 DEF DB!MutateAppends, S!MutateAppends
<1>14. DB!MutateFails <=> S!MutateFails
  BY <1>3, <1>4 DEF DB!MutateFails, S!MutateFails
<1>15. DB!Next <=> S!Next
  BY <1>6, <1>9, <1>10, <1>11, <1>12, <1>13, <1>14 DEF DB!Next, S!Next, DB!Step, S!Step
<1>16. DB!vars = S!vars
  BY DEF DB!vars, S!vars
<1>17. QED
  BY <1>5, <1>15, <1>16

-----------------------------------------------------------------------------
(***************************************************************************)
(* The view of a log: its records and their positions, as functions of     *)
(* what was appended.                                                      *)
(***************************************************************************)
IsLog(s) ==
  /\ s \in Seq(K!Entry)
  /\ s # <<>> => s[1].at = 0
  /\ \A k, l \in 1 .. Len(s) : k < l => s[k].at < s[l].at
  /\ \A k \in 2 .. Len(s) : \E l \in 1 .. Len(s) : s[l].at = s[k].off /\ l < k

PlaceIn(s, o) ==
  LET at == {p \in 2 .. Len(s) : s[p].at = o}
  IN IF o = 0 THEN 0 ELSE IF at = {} THEN Len(s) ELSE (CHOOSE p \in at : TRUE) - 1
Size(s) == IF s = <<>> THEN 0 ELSE Len(s) - 1
RecordOf(s, r) == [off |-> PlaceIn(s, r.off), key |-> r.key, val |-> r.val]
LogOf(s) == [p \in 1 .. Size(s) |-> RecordOf(s, s[p + 1])]
Rec == [off : Nat, key : Seq(Nat), val : Seq(Nat)]
LastOf(s) == [k \in KeyBytes |-> Newest({p \in 1 .. Size(s) : s[p + 1].key = k})]

LEMMA LogFacts ==
  ASSUME NEW s, IsLog(s)
  PROVE  /\ Len(s) \in Nat /\ Size(s) \in Nat /\ DOMAIN s = 1 .. Len(s)
         /\ s # <<>> => 1 \in 1 .. Len(s) /\ Size(s) = Len(s) - 1
         /\ \A p \in 1 .. Size(s) : p + 1 \in 2 .. Len(s) /\ p + 1 \in 1 .. Len(s)
         /\ \A k \in 1 .. Len(s) :
              /\ s[k].at \in Nat /\ s[k].off \in Nat
              /\ s[k].key \in Seq(Nat) /\ s[k].val \in Seq(Nat)
<1>1. s \in Seq(K!Entry)
  BY DEF IsLog
<1>2. Len(s) \in Nat /\ DOMAIN s = 1 .. Len(s) /\ (s # <<>> => Len(s) # 0)
  BY <1>1, EmptySeq, LenProperties
<1>3. \A k \in 1 .. Len(s) : s[k] \in K!Entry
  BY <1>1, ElementOfSeq
<1>4. QED
  BY <1>2, <1>3, EmptySeq DEF Size, K!Entry

(* An offset that was given out is that of one record.                       *)
LEMMA PlaceOfRecord ==
  ASSUME NEW s, IsLog(s), NEW k \in 1 .. Len(s)
  PROVE  PlaceIn(s, s[k].at) = k - 1 /\ (s[k].at = 0 <=> k = 1)
<1>1. /\ Len(s) \in Nat /\ k \in Int /\ \A l \in 1 .. Len(s) : s[l].at \in Nat
  BY LogFacts
<1>2. s # <<>> /\ 1 \in 1 .. Len(s)
  BY <1>1, EmptySeq
<1>3. s[1].at = 0 /\ \A i1, i2 \in 1 .. Len(s) : i1 < i2 => s[i1].at < s[i2].at
  BY <1>2 DEF IsLog
<1>4. CASE k = 1
  BY <1>3, <1>4 DEF PlaceIn
<1>5. CASE k # 1
  <2>1. s[k].at # 0
    BY <1>1, <1>2, <1>3, <1>5
  <2>2. {p \in 2 .. Len(s) : s[p].at = s[k].at} = {k}
    <3>1. ASSUME NEW p \in 2 .. Len(s), s[p].at = s[k].at PROVE p = k
      <4>1. p \in 1 .. Len(s)
        BY <1>1
      <4>2. ~(p < k) /\ ~(k < p)
        BY <1>1, <1>3, <3>1, <4>1
      <4>3. QED
        BY <1>1, <4>2
    <3>2. k \in 2 .. Len(s)
      BY <1>1, <1>5
    <3>3. QED
      BY <3>1, <3>2
  <2>3. QED
    BY <1>5, <2>1, <2>2 DEF PlaceIn
<1>6. QED
  BY <1>4, <1>5

(* What the record at a position is.                                         *)
LEMMA RecordIs ==
  ASSUME NEW s, IsLog(s)
  PROVE  /\ LogOf(s) \in Seq(Rec)
         /\ Len(LogOf(s)) = Size(s) /\ Size(s) \in Nat /\ DOMAIN LogOf(s) = 1 .. Size(s)
         /\ \A p \in 1 .. Size(s) :
              /\ p + 1 \in 2 .. Len(s)
              /\ LogOf(s)[p] = RecordOf(s, s[p + 1])
              /\ LogOf(s)[p].off = PlaceIn(s, s[p + 1].off)
              /\ LogOf(s)[p].key = s[p + 1].key /\ LogOf(s)[p].val = s[p + 1].val
<1>1. Size(s) \in Nat /\ \A p \in 1 .. Size(s) : p + 1 \in 2 .. Len(s) /\ p + 1 \in 1 .. Len(s)
  BY LogFacts
<1>2. ASSUME NEW p \in 1 .. Size(s)
      PROVE  /\ RecordOf(s, s[p + 1]) \in Rec
             /\ RecordOf(s, s[p + 1]).off = PlaceIn(s, s[p + 1].off)
             /\ RecordOf(s, s[p + 1]).key = s[p + 1].key
             /\ RecordOf(s, s[p + 1]).val = s[p + 1].val
  <2>1. PICK l \in 1 .. Len(s) : s[l].at = s[p + 1].off
    BY <1>1 DEF IsLog
  <2>2. PlaceIn(s, s[p + 1].off) \in Nat
    BY <2>1, PlaceOfRecord
  <2>3. s[p + 1].key \in Seq(Nat) /\ s[p + 1].val \in Seq(Nat)
    BY <1>1, LogFacts
  <2>4. QED
    BY <2>2, <2>3 DEF RecordOf, Rec
<1>3. LogOf(s) \in [1 .. Size(s) -> Rec]
  BY <1>2 DEF LogOf
<1>4. LogOf(s) \in Seq(Rec)
  BY <1>1, <1>3, SeqDef
<1>5. Len(LogOf(s)) = Size(s) /\ DOMAIN LogOf(s) = 1 .. Size(s)
  BY <1>1, <1>3
<1>6. \A p \in 1 .. Size(s) : LogOf(s)[p] = RecordOf(s, s[p + 1])
  BY DEF LogOf
<1>7. QED
  BY <1>1, <1>2, <1>4, <1>5, <1>6

LEMMA NewestIs ==
  ASSUME NEW of \in SUBSET Nat, NEW p \in of, \A r \in of : r <= p
  PROVE  Newest(of) = p
<1>1. of # {} /\ p \in Nat /\ \E q \in of : \A r \in of : r <= q
  OBVIOUS
<1>2. Newest(of) \in of /\ \A r \in of : r <= Newest(of)
  BY <1>1 DEF Newest
<1>3. Newest(of) <= p /\ p <= Newest(of) /\ p \in Nat /\ Newest(of) \in Nat
  BY <1>2
<1> HIDE DEF Newest
<1>4. QED
  BY <1>3

(* A record is added: the others stay where they are.                        *)
LEMMA Added ==
  ASSUME NEW s, IsLog(s), s # <<>>, NEW e \in K!Entry, NEW t, t = Append(s, e), IsLog(t)
  PROVE  /\ Len(t) = Len(s) + 1 /\ Len(s) \in Nat /\ Len(s) # 0
         /\ \A k \in 1 .. Len(s) : t[k] = s[k]
         /\ t[Len(s) + 1] = e /\ t # <<>>
         /\ Size(s) = Len(s) - 1 /\ Size(t) = Len(s) /\ Size(t) = Size(s) + 1
<1>1. s \in Seq(K!Entry) /\ t \in Seq(K!Entry)
  BY DEF IsLog
<1>2. Len(s) \in Nat /\ Len(s) # 0
  BY <1>1, EmptySeq, LenProperties
<1>3. /\ Len(t) = Len(s) + 1 /\ t[Len(s) + 1] = e
      /\ \A k \in 1 .. Len(s) : t[k] = s[k]
  BY <1>1, AppendProperties
<1>4. t # <<>>
  BY <1>1, <1>2, <1>3, EmptySeq
<1>5. QED
  BY <1>2, <1>3, <1>4 DEF Size

LEMMA PlaceAdded ==
  ASSUME NEW s, IsLog(s), s # <<>>, NEW e \in K!Entry, NEW t, t = Append(s, e), IsLog(t)
  PROVE  /\ \A k \in 1 .. Len(s) : PlaceIn(t, s[k].at) = PlaceIn(s, s[k].at)
         /\ PlaceIn(t, e.at) = Len(s)
<1>1. /\ Len(t) = Len(s) + 1 /\ Len(s) \in Nat
      /\ \A k \in 1 .. Len(s) : t[k] = s[k]
      /\ t[Len(s) + 1] = e
  BY Added
<1>2. ASSUME NEW k \in 1 .. Len(s) PROVE PlaceIn(t, s[k].at) = PlaceIn(s, s[k].at)
  <2>1. k \in 1 .. Len(t) /\ t[k] = s[k]
    BY <1>1
  <2>2. PlaceIn(t, t[k].at) = k - 1 /\ PlaceIn(s, s[k].at) = k - 1
    BY <2>1, PlaceOfRecord
  <2>3. QED
    BY <2>1, <2>2
<1>3. PlaceIn(t, e.at) = Len(s)
  <2>1. Len(s) + 1 \in 1 .. Len(t)
    BY <1>1
  <2>2. PlaceIn(t, t[Len(s) + 1].at) = (Len(s) + 1) - 1
    BY <2>1, PlaceOfRecord
  <2>3. QED
    BY <1>1, <2>2
<1>4. QED
  BY <1>2, <1>3

LEMMA LogAdded ==
  ASSUME NEW s, IsLog(s), s # <<>>, NEW e \in K!Entry, NEW t, t = Append(s, e), IsLog(t)
  PROVE  LogOf(t) = Append(LogOf(s), RecordOf(s, e))
<1> DEFINE r == RecordOf(s, e)
           n == Size(s)
<1>1. /\ Len(t) = Len(s) + 1 /\ Len(s) \in Nat
      /\ \A k \in 1 .. Len(s) : t[k] = s[k]
      /\ t[Len(s) + 1] = e
  BY Added
<1>0. n = Len(s) - 1 /\ Size(t) = n + 1
  BY Added
<1>2. /\ LogOf(s) \in Seq(Rec) /\ Len(LogOf(s)) = n /\ n \in Nat
      /\ \A p \in 1 .. n : p + 1 \in 2 .. Len(s) /\ LogOf(s)[p] = RecordOf(s, s[p + 1])
  BY RecordIs
<1>3. /\ LogOf(t) \in Seq(Rec) /\ Len(LogOf(t)) = n + 1
      /\ \A p \in 1 .. n + 1 : p + 1 \in 2 .. Len(t) /\ LogOf(t)[p] = RecordOf(t, t[p + 1])
  BY <1>0, RecordIs
<1>4. ASSUME NEW k \in 2 .. Len(t)
      PROVE  RecordOf(t, t[k]) = RecordOf(s, t[k])
  <2>1. PICK l \in 1 .. Len(t) : t[l].at = t[k].off /\ l < k
    BY DEF IsLog
  <2>2. l \in 1 .. Len(s)
    BY <1>1, <2>1
  <2>3. PlaceIn(t, s[l].at) = PlaceIn(s, s[l].at)
    BY <2>2, PlaceAdded
  <2>4. t[l] = s[l]
    BY <1>1, <2>2
  <2>5. PlaceIn(t, t[k].off) = PlaceIn(s, t[k].off)
    BY <2>1, <2>3, <2>4
  <2>6. QED
    BY <2>5 DEF RecordOf
<1>5. n + 1 \in 1 .. n + 1 /\ (n + 1) + 1 = Len(s) + 1
  BY <1>0, <1>1, <1>2
<1>6. LogOf(t)[n + 1] = r
  BY <1>1, <1>3, <1>4, <1>5
<1>7. r \in Rec
  <2>1. LogOf(t)[n + 1] \in Rec
    BY <1>3, <1>5, ElementOfSeq
  <2>2. QED
    BY <1>6, <2>1
<1> HIDE DEF r, n
<1>8. ASSUME NEW p \in 1 .. n PROVE LogOf(t)[p] = LogOf(s)[p]
  <2>1. p \in 1 .. n + 1 /\ p + 1 \in 1 .. Len(s) /\ p + 1 \in 2 .. Len(t)
    BY <1>0, <1>1, <1>2, <1>3
  <2>2. t[p + 1] = s[p + 1]
    BY <1>1, <2>1
  <2>3. LogOf(t)[p] = RecordOf(s, t[p + 1])
    BY <1>3, <1>4, <2>1
  <2>4. QED
    BY <1>2, <2>2, <2>3
<1>9. /\ Append(LogOf(s), r) \in Seq(Rec) /\ Len(Append(LogOf(s), r)) = n + 1
      /\ Append(LogOf(s), r)[n + 1] = r
      /\ \A p \in 1 .. n : Append(LogOf(s), r)[p] = LogOf(s)[p]
  BY <1>2, <1>7, AppendProperties
<1>10. \A p \in 1 .. n + 1 : LogOf(t)[p] = Append(LogOf(s), r)[p]
  BY <1>2, <1>6, <1>8, <1>9
<1>11. LogOf(t) = Append(LogOf(s), r)
  BY <1>3, <1>9, <1>10, SeqEqual
<1>12. QED
  BY <1>11 DEF r

LEMMA LastAdded ==
  ASSUME NEW s, IsLog(s), s # <<>>, NEW e \in K!Entry, NEW t, t = Append(s, e), IsLog(t),
         e.key \in KeyBytes
  PROVE  LastOf(t) = [LastOf(s) EXCEPT ![e.key] = Len(s)]
<1> DEFINE n == Size(s)
           Of(u, m, k) == {p \in 1 .. m : u[p + 1].key = k}
<1>1. /\ Len(s) \in Nat /\ \A k \in 1 .. Len(s) : t[k] = s[k]
      /\ t[Len(s) + 1] = e /\ Len(s) # 0
  BY Added
<1>0. n = Len(s) - 1 /\ Size(t) = n + 1
  BY Added
<1>2. \A p \in 1 .. n : t[p + 1] = s[p + 1] /\ p \in 1 .. n + 1
  BY <1>0, <1>1
<1>3. n \in Nat /\ n + 1 = Len(s) /\ t[(n + 1) + 1] = e
  BY <1>0, <1>1
<1> HIDE DEF n
<1>4. Newest(Of(t, n + 1, e.key)) = n + 1
  <2>1. n + 1 \in Of(t, n + 1, e.key) /\ Of(t, n + 1, e.key) \in SUBSET Nat
    BY <1>3
  <2>2. \A r \in Of(t, n + 1, e.key) : r <= n + 1
    BY <1>3
  <2>3. QED
    BY <2>1, <2>2, NewestIs
<1>5. ASSUME NEW k \in KeyBytes, k # e.key
      PROVE  Of(t, n + 1, k) = Of(s, n, k)
  <2>1. \A p \in 1 .. n + 1 : p \in 1 .. n \/ p = n + 1
    BY <1>3
  <2>2. QED
    BY <1>2, <1>3, <1>5, <2>1
<1>6. LastOf(t) = [k \in KeyBytes |-> Newest(Of(t, n + 1, k))]
  BY <1>0 DEF LastOf, n
<1>7. LastOf(s) = [k \in KeyBytes |-> Newest(Of(s, n, k))]
  BY DEF LastOf, n
<1> HIDE DEF Of
<1>8. QED
  BY <1>3, <1>4, <1>5, <1>6, <1>7

-----------------------------------------------------------------------------
(***************************************************************************)
(* The view of a state: log, last, index, place and drift of Database, by  *)
(* what was appended and what the table holds.                             *)
(***************************************************************************)
IndexOf(s, c) == [h \in P!Keys |-> PlaceIn(s, c[h])]
LiveOf(l, m) == {k \in KeyBytes : m[k] # 0 /\ l[m[k]].val # None}
DeadOf(l, m) == {p \in 1 .. Len(l) : l[p].val # None /\ m[l[p].key] # p}
DriftOf(l, m, n, w) ==
  [size |-> n - Cardinality(LiveOf(l, m)), waste |-> w - Cardinality(DeadOf(l, m))]

Ordered == \A k, l \in 1 .. Len(acked) : k < l => acked[k].at < acked[l].at
Base == K!IInv /\ AllClean /\ Ordered
View ==
  /\ IsLog(acked) /\ (isOpen <=> acked # <<>>)
  /\ log = LogOf(acked) /\ last = LastOf(acked)
  /\ index = IndexOf(acked, P!cells)
  /\ place = PlaceIn(acked, off)
  /\ drift = DriftOf(log, last, items, waste)

LEMMA AckedIsLog == Base => IsLog(acked)
<1> SUFFICES ASSUME Base PROVE IsLog(acked)
  OBVIOUS
<1>1. K!Typed /\ K!Handle /\ K!Linked /\ Ordered /\ AllClean
  BY DEF Base, K!IInv
<1>2. /\ acked \in Seq(K!Entry) /\ Len(acked) \in Nat
      /\ \A k \in 1 .. Len(acked) : acked[k].at \in Nat
  BY <1>1, PartsAssume, K!EntryTypes DEF K!Typed
<1>3. acked # <<>> => acked[1].at = 0
  BY <1>1 DEF K!Handle
<1>4. ASSUME NEW k \in 2 .. Len(acked)
      PROVE  \E l \in 1 .. Len(acked) : acked[l].at = acked[k].off /\ l < k
  <2>1. k \in 1 .. Len(acked) /\ 1 \in 1 .. Len(acked) /\ 1 < k
    BY <1>2
  <2>2. acked # <<>>
    BY <1>2, <2>1, EmptySeq
  <2>3. acked[k].at # 0 /\ acked[k].clean
    BY <1>1, <1>2, <1>3, <2>1, <2>2 DEF Ordered, AllClean
  <2>4. PICK l \in 1 .. Len(acked) : acked[l].at = acked[k].off /\ acked[l].at < acked[k].at
    BY <1>1, <2>1, <2>3 DEF K!Linked
  <2>5. ~(k < l) /\ k # l
    BY <1>1, <1>2, <2>1, <2>4 DEF Ordered
  <2>6. l < k
    BY <2>1, <2>5, <1>2
  <2>7. QED
    BY <2>4, <2>6
<1>5. QED
  BY <1>1, <1>2, <1>3, <1>4 DEF IsLog, Ordered

LEMMA DecodedIs ==
  ASSUME Base, NEW k \in 1 .. Len(acked)
  PROVE  R!Decoded(acked[k].at) = [off |-> acked[k].off, key |-> acked[k].key, val |-> acked[k].val]
<1> DEFINE r == acked[k]
<1>1. K!Typed /\ K!Kept /\ AllClean
  BY DEF Base, K!IInv
<1>2. r.at \in Nat /\ r.off \in Nat /\ r.off < WORD /\ r.key \in K!Keys /\ r.val \in K!Vals
  BY <1>1, PartsAssume, K!EntryTypes
<1>3. disk \in Seq(Nat) /\ size \in Nat /\ size <= Len(disk) /\ Len(disk) <= Capacity
  BY <1>1 DEF K!Typed
<1>4. K!PlacedIn(disk, size, r.at, r.off, r.key, r.val)
  BY <1>1 DEF K!Kept, AllClean, K!Placed
<1> HIDE DEF r
<1>5. K!Decoded(r.at) = [off |-> r.off, key |-> r.key, val |-> r.val]
  BY <1>2, <1>3, <1>4, PartsAssume, K!PlacedIsRead, SMTT(30)
<1>6. R!Decoded(r.at) = K!Decoded(r.at)
  BY DEF R!Decoded, K!Decoded, R!MetaAt, K!MetaAt, R!Fields, K!Fields, R!Cells, K!Cells,
         R!KEY_OFF, K!KEY_OFF, R!VAL_OFF, K!VAL_OFF, R!META_LEN, K!META_LEN
<1>7. QED
  BY <1>5, <1>6 DEF r

LEMMA ViewHolds == Base => View
<1> SUFFICES ASSUME Base PROVE View
  OBVIOUS
<1>1. IsLog(acked) /\ (isOpen <=> acked # <<>>)
  BY AckedIsLog DEF Base, K!IInv, K!Handle
<1>2. \A o : Position(o) = PlaceIn(acked, o)
  BY DEF Position, PlaceIn
<1>3. /\ Size(acked) \in Nat
      /\ \A p \in 1 .. Size(acked) : p + 1 \in 1 .. Len(acked)
                                     /\ LogOf(acked)[p] = RecordOf(acked, acked[p + 1])
                                     /\ LogOf(acked)[p].key = acked[p + 1].key
      /\ LogOf(acked) \in Seq(Rec)
      /\ Len(LogOf(acked)) = Size(acked) /\ DOMAIN LogOf(acked) = 1 .. Size(acked)
  BY <1>1, LogFacts, RecordIs
<1>4. log = LogOf(acked)
  <2>1. ASSUME NEW p \in 1 .. Size(acked)
        PROVE  Record(p) = RecordOf(acked, acked[p + 1])
    <3>1. R!Decoded(acked[p + 1].at)
            = [off |-> acked[p + 1].off, key |-> acked[p + 1].key, val |-> acked[p + 1].val]
      BY <1>3, DecodedIs
    <3>2. QED
      BY <1>2, <3>1 DEF Record, RecordOf
  <2>2. log = [p \in 1 .. Size(acked) |-> Record(p)]
    BY DEF log, Size
  <2>3. QED
    BY <2>1, <2>2 DEF LogOf
<1>5. last = LastOf(acked)
  <2>1. ASSUME NEW k \in KeyBytes
        PROVE  {p \in DOMAIN log : log[p].key = k}
                 = {p \in 1 .. Size(acked) : acked[p + 1].key = k}
    BY <1>3, <1>4
  <2>2. last = [k \in KeyBytes |-> Newest({p \in DOMAIN log : log[p].key = k})]
    BY DEF last
  <2>3. QED
    BY <2>1, <2>2 DEF LastOf
<1>6. index = IndexOf(acked, P!cells)
  <2>1. I!Keys = P!Keys
    BY IndexTerms DEF I!Keys, P!Keys
  <2>2. I!cells = P!cells
    BY <2>1, IndexTerms DEF I!cells, P!cells
  <2>3. QED
    BY <1>2, <2>1, <2>2 DEF index, IndexOf
<1>7. place = PlaceIn(acked, off)
  BY <1>2 DEF place
<1>8. drift = DriftOf(log, last, items, waste)
  <2>1. DOMAIN log = 1 .. Len(log)
    BY <1>3, <1>4
  <2>2. QED
    BY <2>1 DEF drift, DriftOf, LiveOf, DeadOf
<1>9. QED
  BY <1>1, <1>4, <1>5, <1>6, <1>7, <1>8 DEF View
(* A step that appends nothing and leaves the counters alone.                *)
LEMMA SameView ==
  ASSUME View, View', UNCHANGED <<acked, tab, items, waste>>
  PROVE  UNCHANGED <<log, index, last, drift>>
<1>1. P!cells' = P!cells
  BY DEF P!cells, P!lookup, P!SlotFor, P!Ends, P!Slots, P!Probe
<1>2. QED
  BY <1>1 DEF View

LEMMA AtPlace ==
  ASSUME View, NEW k \in 1 .. Len(acked)
  PROVE  /\ PlaceIn(acked, acked[k].at) = k - 1 /\ k - 1 \in Nat
         /\ acked[k].at = 0 <=> k = 1
         /\ k # 1 => /\ k - 1 \in S!Pos
                     /\ log[k - 1].off = PlaceIn(acked, acked[k].off)
                     /\ log[k - 1].key = acked[k].key /\ log[k - 1].val = acked[k].val
<1>1. IsLog(acked) /\ log = LogOf(acked)
  BY DEF View
<1>2. /\ Len(acked) \in Nat /\ acked # <<>> /\ Size(acked) = Len(acked) - 1
  BY <1>1, LogFacts, EmptySeq
<1>3. PlaceIn(acked, acked[k].at) = k - 1 /\ (acked[k].at = 0 <=> k = 1)
  BY <1>1, PlaceOfRecord
<1>4. ASSUME k # 1
      PROVE  /\ k - 1 \in S!Pos
             /\ log[k - 1].off = PlaceIn(acked, acked[k].off)
             /\ log[k - 1].key = acked[k].key /\ log[k - 1].val = acked[k].val
  <2>1. k - 1 \in 1 .. Size(acked) /\ (k - 1) + 1 = k
    BY <1>2, <1>4
  <2>2. Len(log) = Size(acked)
    BY <1>1, RecordIs
  <2>3. QED
    BY <1>1, <2>1, <2>2, RecordIs DEF S!Pos
<1>5. k - 1 \in Nat
  BY <1>2
<1>6. QED
  BY <1>3, <1>4, <1>5

(* An offset that was given out is where a walk can be.                      *)
LEMMA StartPlace ==
  ASSUME View, NEW o \in K!Starts
  PROVE  /\ PlaceIn(acked, o) \in Nat /\ (PlaceIn(acked, o) = 0 <=> o = 0)
         /\ o # 0 => \E k \in 1 .. Len(acked) :
                       k # 1 /\ acked[k].at = o /\ k - 1 = PlaceIn(acked, o)
<1>1. PICK k \in 1 .. Len(acked) : acked[k].at = o
  BY LogFacts DEF View, K!Starts
<1>2. /\ PlaceIn(acked, o) = k - 1 /\ k - 1 \in Nat /\ (o = 0 <=> k = 1)
  BY <1>1, AtPlace
<1>3. QED
  BY <1>1, <1>2

-----------------------------------------------------------------------------
(* Calls that return and walks that go on are so in KVDB.                    *)
LEMMA Replies ==
  /\ \A o, k, v, w : S!Request(o, k, v, w) = Request(o, k, v, w)
  /\ \A o, k, rc, got : S!Reply(o, k, rc, got) = Reply(o, k, rc, got)
  /\ S!NoRequest = NoRequest /\ S!NoReply = NoReply
<1>1. /\ \A o, k, v, w : S!Request(o, k, v, w) = Request(o, k, v, w)
      /\ \A o, k, rc, got : S!Reply(o, k, rc, got) = Reply(o, k, rc, got)
  BY DEF S!Request, Request, S!Reply, Reply
<1>2. QED
  BY <1>1 DEF S!NoRequest, NoRequest, S!NoReply, NoReply

LEMMA PlaceOfZero == \A s : PlaceIn(s, 0) = 0
  BY DEF PlaceIn

LEMMA Returns ==
  ASSUME View', NEW r, NEW rc, NEW got, Return(r, rc, got)
  PROVE  S!Return(r, rc, got)
<1>1. phase' = "idle" /\ running' = NoRequest
  BY DEF Return, phase, running
<1>2. place' = 0
  BY PlaceOfZero DEF View, Return
<1>3. QED
  BY <1>1, <1>2, Replies DEF Return, S!Return

LEMMA WalksTo ==
  ASSUME View, View', acked' = acked, NEW o \in K!Starts, WalkTo(o)
  PROVE  S!WalkTo(PlaceIn(acked, o))
<1>1. PlaceIn(acked, o) = 0 <=> o = 0
  BY StartPlace
<1>2. place' = PlaceIn(acked, o)
  BY DEF View, WalkTo
<1>3. phase' = IF o = 0 THEN "finish" ELSE "chain"
  BY DEF WalkTo, phase
<1>4. QED
  BY <1>1, <1>2, <1>3 DEF S!WalkTo

-----------------------------------------------------------------------------
(***************************************************************************)
(* What a read finds, of a record of the log.                              *)
(***************************************************************************)
FieldRead(n, c, s, room) == n = Len(s) /\ c = SubSeq(s, 1, Least(Len(s), room))
ReadOf(r, a) ==
  /\ r.off = a.off
  /\ FieldRead(r.key_len, r.key, a.key, r.room[1])
  /\ FieldRead(r.val_len, r.val, a.val, r.room[2])
ReadsRecords ==
  reply.rc = "ok" => \A k \in 1 .. Len(acked) : acked[k].at = reply.at => ReadOf(reply, acked[k])

LEMMA ReadsHold == Base => ReadsRecords
<1> SUFFICES ASSUME Base, reply.rc = "ok", NEW k \in 1 .. Len(acked), acked[k].at = reply.at
             PROVE  ReadOf(reply, acked[k])
  BY DEF ReadsRecords
<1> DEFINE r == acked[k]
<1>1. K!Typed /\ K!LookupFaithful /\ AllClean
  BY DEF Base, K!IInv
<1>2. DOMAIN acked = 1 .. Len(acked)
  BY <1>1, PartsAssume, K!EntryTypes
<1>3. r \in K!CleanRecords
  BY <1>1, <1>2 DEF AllClean, K!CleanRecords
<1>4. \A a, b : K!Least(a, b) = Least(a, b)
  BY DEF K!Least, Least
<1> HIDE DEF r
<1>5. /\ reply.off = r.off
      /\ reply.key_len = Len(r.key) /\ reply.val_len = Len(r.val)
      /\ reply.key = SubSeq(r.key, 1, Least(Len(r.key), reply.room[1]))
      /\ reply.val = SubSeq(r.val, 1, Least(Len(r.val), reply.room[2]))
  <2>1. reply.rc # "none" /\ reply.rc # "io" /\ reply.at = r.at
    BY DEF r
  <2>2. /\ reply.off = r.off
        /\ reply.key_len = Len(r.key) /\ reply.val_len = Len(r.val)
        /\ reply.key = SubSeq(r.key, 1, K!Least(Len(r.key), reply.room[1]))
        /\ reply.val = SubSeq(r.val, 1, K!Least(Len(r.val), reply.room[2]))
    BY <1>1, <1>3, <2>1, Zenon DEF K!LookupFaithful
  <2>3. QED
    BY <1>4, <2>2
<1>6. ReadOf(reply, r)
  BY <1>5 DEF ReadOf, FieldRead
<1>7. QED
  BY <1>6 DEF r

(* The first bytes of what the speculative read gave are those of the key.   *)
LEMMA FirstBytes ==
  ASSUME NEW a \in Seq(Nat), NEW m \in Nat, NEW n \in Nat, n <= m, m <= Len(a)
  PROVE  SubSeq(SubSeq(a, 1, m), 1, n) = SubSeq(a, 1, n)
<1>1. Len(a) \in Nat /\ \A p \in 1 .. Len(a) : a[p] \in Nat
  BY LenProperties, ElementOfSeq
<1>2. /\ SubSeq(a, 1, m) \in Seq(Nat) /\ Len(SubSeq(a, 1, m)) = m
      /\ \A p \in 1 .. m : SubSeq(a, 1, m)[p] = a[p]
  <2>1. \A p \in 1 .. m : a[p] \in Nat
    BY <1>1
  <2>2. QED
    BY <2>1, SubSeqProperties
<1>3. /\ SubSeq(a, 1, n) \in Seq(Nat) /\ Len(SubSeq(a, 1, n)) = n
      /\ \A p \in 1 .. n : SubSeq(a, 1, n)[p] = a[p]
  <2>1. \A p \in 1 .. n : a[p] \in Nat
    BY <1>1
  <2>2. QED
    BY <2>1, SubSeqProperties
<1> DEFINE b == SubSeq(a, 1, m)
<1>4. /\ SubSeq(b, 1, n) \in Seq(Nat) /\ Len(SubSeq(b, 1, n)) = n
      /\ \A p \in 1 .. n : SubSeq(b, 1, n)[p] = b[p]
  <2>1. \A p \in 1 .. n : b[p] \in Nat
    BY <1>1, <1>2
  <2> HIDE DEF b
  <2>2. QED
    BY <2>1, SubSeqProperties
<1>5. \A p \in 1 .. n : SubSeq(b, 1, n)[p] = SubSeq(a, 1, n)[p]
  BY <1>2, <1>3, <1>4
<1> HIDE DEF b
<1>6. SubSeq(b, 1, n) = SubSeq(a, 1, n)
  BY <1>3, <1>4, <1>5, SeqEqual
<1>7. QED
  BY <1>6 DEF b

LEMMA StartIs ==
  ASSUME NEW a \in KeyBytes, NEW k \in KeyBytes
  PROVE  Start[a] = Start[k] <=>
           /\ Len(a) = Len(k)
           /\ SubSeq(a, 1, Least(Len(k), PTR)) = SubSeq(k, 1, Least(Len(k), PTR))
<1>1. CASE Start[a] = Start[k]
  <2>1. Len(a) = Len(k) /\ SubSeq(a, 1, Least(Len(a), PTR)) = SubSeq(k, 1, Least(Len(k), PTR))
    BY <1>1, StartSize
  <2>2. QED
    BY <1>1, <2>1
<1>2. CASE /\ Len(a) = Len(k)
           /\ SubSeq(a, 1, Least(Len(k), PTR)) = SubSeq(k, 1, Least(Len(k), PTR))
  <2>1. Start[a] = <<Len(a), SubSeq(a, 1, Least(Len(a), PTR))>>
    BY DEF Start
  <2>2. Start[k] = <<Len(k), SubSeq(k, 1, Least(Len(k), PTR))>>
    BY DEF Start
  <2>3. SubSeq(a, 1, Least(Len(a), PTR)) = SubSeq(k, 1, Least(Len(k), PTR)) /\ Len(a) = Len(k)
    BY <1>2
  <2>4. QED
    BY <1>2, <2>1, <2>2, <2>3
<1>3. QED
  BY <1>1, <1>2

(* The read of as much of a key as the buffer holds, compared as the code    *)
(* does, compares the lengths and the first bytes.                           *)
LEMMA SpeculativeRead ==
  ASSUME NEW a \in KeyBytes, NEW k \in KeyBytes, NEW n, NEW c,
         FieldRead(n, c, a, Least(Len(k), BUF))
  PROVE  (n # Len(k) \/ SubSeq(c, 1, Least(Len(k), PTR)) # SubSeq(k, 1, Least(Len(k), PTR)))
           <=> Start[a] # Start[k]
<1>1. a \in Seq(Nat) /\ Len(a) \in Nat /\ Len(k) \in Nat
  BY KeyFacts
<1>2. n = Len(a) /\ c = SubSeq(a, 1, Least(Len(a), Least(Len(k), BUF)))
  BY DEF FieldRead
<1>3. CASE Len(a) # Len(k)
  BY <1>2, <1>3, StartIs
<1>4. CASE Len(a) = Len(k)
  <2> DEFINE l == Len(k)  m == Least(l, Least(l, BUF))  p == Least(l, PTR)
  <2>1. m \in Nat /\ p \in Nat /\ p <= m /\ m <= l
    BY <1>1, Bounds DEF Least
  <2>2. c = SubSeq(a, 1, m)
    BY <1>2, <1>4
  <2>3. m <= Len(a)
    BY <1>4, <2>1
  <2> HIDE DEF m, p
  <2>4. SubSeq(c, 1, p) = SubSeq(a, 1, p)
    BY <1>1, <2>1, <2>2, <2>3, FirstBytes
  <2>5. SubSeq(c, 1, Least(Len(k), PTR)) = SubSeq(a, 1, Least(Len(k), PTR))
    BY <2>4 DEF p
  <2>6. QED
    BY <1>2, <1>4, <2>5, StartIs
<1>5. QED
  BY <1>3, <1>4

(* A read with room for all of a field gives the field; with none, nothing.  *)
LEMMA WholeRead ==
  ASSUME NEW s \in Seq(Nat), NEW room \in Nat, NEW n, NEW c, FieldRead(n, c, s, room)
  PROVE  /\ n = Len(s)
         /\ Len(s) <= room => c = s
         /\ room = 0 => c = <<>>
<1>1. n = Len(s) /\ c = SubSeq(s, 1, Least(Len(s), room)) /\ Len(s) \in Nat
  BY LenProperties DEF FieldRead
<1>2. ASSUME Len(s) <= room PROVE c = s
  <2>1. Least(Len(s), room) = Len(s)
    BY <1>2 DEF Least
  <2>2. QED
    BY <1>1, <2>1, SubSeqFull
<1>3. ASSUME room = 0 PROVE c = <<>>
  <2>1. Least(Len(s), room) = 0
    BY <1>1, <1>3 DEF Least
  <2>2. SubSeq(s, 1, 0) = <<>>
    BY SubSeqEmpty
  <2>3. QED
    BY <1>1, <2>1, <2>2
<1>4. QED
  BY <1>1, <1>2, <1>3

-----------------------------------------------------------------------------
(***************************************************************************)
(* What is carried along with the invariants of Database and of KVDB.      *)
(***************************************************************************)
WalkRead ==
  /\ pc = "full" => \A k \in 1 .. Len(acked) :
                      acked[k].at = off => Len(acked[k].key) = Len(req.key)
  /\ pc = "finish" /\ off # 0 => \A k \in 1 .. Len(acked) :
                                   acked[k].at = off => val_len = Len(acked[k].val)
Ext ==
  /\ Ordered /\ Len(acked) <= tries + 1
  /\ pc = "index" => req \in S!Requests
  /\ WalkRead
  /\ drift.size + drift.waste <= tries
RInv == Inv /\ Ext /\ S!IInv

LEMMA RInvBase == RInv => Base
  BY DEF RInv, Inv, Joined, Ext, Base

LEMMA RequestIs ==
  ASSUME NEW r \in S!Requests
  PROVE  /\ r.key \in KeyBytes /\ r.val \in ValBytes /\ r.want \in BOOLEAN
         /\ r.op \in {"insert", "update", "replace", "remove", "lookup"}
         /\ r.op # "lookup" => r = Request(r.op, r.key, r.val, r.want)
<1>1. None \in ValBytes
  BY DatabaseAssumption DEF None
<1>2. QED
  BY <1>1 DEF S!Requests, S!Writers, S!Readers, Values, Request

(* The record that a walk is at.                                             *)
Stands(k) ==
  /\ k \in 1 .. Len(acked) /\ acked[k].at = off
  /\ place \in S!Pos
  /\ log[place].off = PlaceIn(acked, acked[k].off) /\ acked[k].off \in K!Starts
  /\ log[place].key = acked[k].key /\ log[place].val = acked[k].val
  /\ acked[k].key \in KeyBytes /\ acked[k].val \in ValBytes

LEMMA WalkStands ==
  ASSUME RInv, pc \in Walking
  PROVE  /\ req \in S!Requests /\ running = req /\ phase = pc
         /\ off \in K!Starts /\ place \in Nat /\ (place = 0 <=> off = 0)
         /\ off # 0 => \E k \in 1 .. Len(acked) : Stands(k)
<1>1. View
  BY RInvBase, ViewHolds
<1>2. running = req /\ phase = pc
  BY DEF Walking, running, phase
<1>3. req \in S!Requests
  BY <1>2 DEF RInv, S!IInv, S!TypeOK, Walking
<1>4. off \in K!Starts
  BY DEF RInv, Inv, Joined, Walk
<1>5. place = PlaceIn(acked, off)
  BY <1>1 DEF View
<1>6. place \in Nat /\ (place = 0 <=> off = 0)
  BY <1>1, <1>4, <1>5, StartPlace
<1>7. ASSUME off # 0 PROVE \E k \in 1 .. Len(acked) : Stands(k)
  <2>1. PICK k \in 1 .. Len(acked) : k # 1 /\ acked[k].at = off /\ k - 1 = place
    BY <1>1, <1>4, <1>5, <1>7, StartPlace
  <2>2. /\ place \in S!Pos /\ log[place].off = PlaceIn(acked, acked[k].off)
        /\ log[place].key = acked[k].key /\ log[place].val = acked[k].val
    BY <1>1, <2>1, AtPlace
  <2>3. acked[k].off \in K!Starts
    <3>1. k \in 2 .. Len(acked)
      BY <2>1
    <3>2. PICK l \in 1 .. Len(acked) : acked[l].at = acked[k].off
      BY <1>1, <3>1 DEF View, IsLog
    <3>3. QED
      BY <1>1, <3>2, LogFacts DEF View, K!Starts
  <2>4. log[place].key \in KeyBytes /\ log[place].val \in Values \union {None}
    BY <2>2, S!RecordAt, StoreAssumes DEF RInv, S!IInv
  <2>5. Values \union {None} = ValBytes
    BY DatabaseAssumption DEF Values, None
  <2>6. QED
    BY <2>1, <2>2, <2>3, <2>4, <2>5 DEF Stands
<1>8. QED
  BY <1>2, <1>3, <1>4, <1>6, <1>7

LEMMA ReadRecord ==
  ASSUME NEW k \in 1 .. Len(acked), acked[k].at = off, ReadsRecords', acked' = acked,
         NEW n, NEW room, R!kvraw_lookup(off, n, room), reply'.rc = "ok"
  PROVE  /\ reply'.off = acked[k].off
         /\ FieldRead(reply'.key_len, reply'.key, acked[k].key, n)
         /\ FieldRead(reply'.val_len, reply'.val, acked[k].val, room)
<1>1. reply'.at = off /\ reply'.room = <<n, room>>
  BY DEF R!kvraw_lookup
<1>2. ReadOf(reply', acked[k])
  BY <1>1 DEF ReadsRecords
<1>3. reply'.room[1] = n /\ reply'.room[2] = room
  BY <1>1
<1>4. QED
  BY <1>2, <1>3 DEF ReadOf

LEMMA ChainReadIs ==
  ASSUME RInv, View', ReadsRecords', ChainRead
  PROVE  S!ChainRead
<1> DEFINE n == Least(Len(req.key), BUF)
           room == IF req.want THEN ROOM ELSE 0
<1>1. /\ pc = "chain" /\ R!kvraw_lookup(off, n, room)
      /\ UNCHANGED <<acked, tab, items, waste, torn>>
  BY DEF ChainRead, R!kvraw_lookup, Counters, indexVars
<1>2. View
  BY RInvBase, ViewHolds
<1>3. off # 0
  BY <1>1 DEF RInv, Inv, Joined, Walk
<1>4. /\ req \in S!Requests /\ running = req /\ phase = "chain"
      /\ \E k \in 1 .. Len(acked) : Stands(k)
  BY <1>1, <1>3, WalkStands DEF Walking
<1>5. PICK k \in 1 .. Len(acked) : Stands(k)
  BY <1>4
<1>6. UNCHANGED <<log, index, items, waste, torn, last, drift>>
  BY <1>1, <1>2, SameView
<1>7. CASE Return(req, -1, None)
  <2>1. S!Return(running, -1, None)
    BY <1>4, <1>7, Returns
  <2>2. QED
    BY <1>4, <1>6, <2>1 DEF S!ChainRead
<1>8. CASE /\ reply'.rc = "ok"
           /\ buf' = IF reply'.val # None THEN reply'.val ELSE buf
           /\ IF Differs(req.key)
              THEN WalkTo(reply'.off) /\ UNCHANGED val_len
              ELSE /\ pc' = IF Len(req.key) > PTR THEN "full" ELSE "finish"
                   /\ val_len' = reply'.val_len /\ UNCHANGED off
           /\ UNCHANGED <<req, res>>
  <2>1. /\ reply'.off = acked[k].off
        /\ FieldRead(reply'.key_len, reply'.key, acked[k].key, n)
        /\ FieldRead(reply'.val_len, reply'.val, acked[k].val, room)
    BY <1>1, <1>5, <1>8, ReadRecord DEF Stands
  <2>2. /\ acked[k].key \in KeyBytes /\ acked[k].val \in ValBytes
        /\ req.key \in KeyBytes /\ req.want \in BOOLEAN
    BY <1>4, <1>5, RequestIs DEF Stands
  <2>3. Differs(req.key) <=> Start[acked[k].key] # Start[req.key]
    <3> DEFINE c == reply'.key  l == reply'.key_len  q == req.key  a == acked[k].key
    <3>1. Differs(q) <=> l # Len(q) \/ SubSeq(c, 1, Least(Len(q), PTR)) # SubSeq(q, 1, Least(Len(q), PTR))
      BY DEF Differs
    <3>2. FieldRead(l, c, a, Least(Len(q), BUF)) /\ a \in KeyBytes /\ q \in KeyBytes
      BY <2>1, <2>2
    <3> HIDE DEF c, l, q, a
    <3>3. (l # Len(q) \/ SubSeq(c, 1, Least(Len(q), PTR)) # SubSeq(q, 1, Least(Len(q), PTR)))
            <=> Start[a] # Start[q]
      BY <3>2, SpeculativeRead
    <3>4. Differs(q) <=> Start[a] # Start[q]
      BY <3>1, <3>3, Zenon
    <3>5. QED
      BY <3>4 DEF q, a
  <2>4. buf' = IF running.want /\ log[place].val # None THEN log[place].val ELSE buf
    <3>1. acked[k].val \in Seq(Nat) /\ Len(acked[k].val) <= ROOM /\ ROOM \in Nat
      BY <2>2, KeyFacts, DatabaseAssumption
    <3>2. CASE req.want = TRUE
      <4>1. room = ROOM
        BY <3>2
      <4> HIDE DEF room
      <4>2. reply'.val = acked[k].val
        BY <2>1, <3>1, <4>1, WholeRead
      <4>3. QED
        BY <1>4, <1>5, <1>8, <3>2, <4>2 DEF Stands
    <3>3. CASE req.want = FALSE
      <4>1. room = 0 /\ 0 \in Nat
        BY <3>3
      <4> HIDE DEF room
      <4>2. reply'.val = None
        BY <2>1, <3>1, <4>1, WholeRead DEF None
      <4>3. QED
        BY <1>4, <1>8, <3>3, <4>2
    <3>4. QED
      BY <2>2, <3>2, <3>3
  <2>5. running' = req' /\ running' = running
    <3>1. pc' # "index"
      BY <1>8 DEF WalkTo
    <3>2. QED
      BY <1>4, <1>8, <3>1 DEF running
  <2>6. CASE Differs(req.key)
    <3>1. WalkTo(acked[k].off) /\ acked[k].off \in K!Starts
      BY <1>5, <1>8, <2>1, <2>6 DEF Stands
    <3>2. S!WalkTo(log[place].off)
      BY <1>1, <1>2, <1>5, <3>1, WalksTo DEF Stands
    <3>3. Start[log[place].key] # Start[running.key] /\ place \in S!Pos
      BY <1>4, <1>5, <2>3, <2>6 DEF Stands
    <3>4. QED
      BY <1>4, <1>6, <1>8, <2>4, <2>5, <3>2, <3>3 DEF S!ChainRead
  <2>7. CASE ~Differs(req.key)
    <3>1. Start[log[place].key] = Start[running.key] /\ place \in S!Pos
      BY <1>4, <1>5, <2>3, <2>7 DEF Stands
    <3>2. running.key \in Long <=> Len(req.key) > PTR
      BY <1>4, <2>2 DEF Long
    <3>3. phase' = IF running.key \in Long THEN "full" ELSE "finish"
      BY <1>8, <2>7, <3>2 DEF phase
    <3>4. place' = place
      BY <1>1, <1>2, <1>8, <2>7 DEF View
    <3>5. QED
      BY <1>4, <1>6, <1>8, <2>4, <2>5, <3>1, <3>3, <3>4 DEF S!ChainRead
  <2>8. QED
    BY <2>6, <2>7
<1>9. QED
  BY <1>7, <1>8 DEF ChainRead

LEMMA ChainFullIs ==
  ASSUME RInv, View', ReadsRecords', ChainFull
  PROVE  S!ChainFull
<1>1. /\ pc = "full" /\ UNCHANGED <<acked, tab, items, waste, torn>>
      /\ reply'.rc = "ok" => R!kvraw_lookup(off, Len(req.key), 0)
  <2>1. CASE R!kvraw_lookup(off, Len(req.key), 0)
    BY <2>1 DEF ChainFull, R!kvraw_lookup, Counters, indexVars
  <2>2. CASE reply' = [rc |-> "io", at |-> off] /\ UNCHANGED <<isOpen, disk, size, torn, acked, tries>>
    BY <2>2 DEF ChainFull, Counters, indexVars
  <2>3. QED
    BY <2>1, <2>2, Zenon DEF ChainFull
<1>2. View
  BY RInvBase, ViewHolds
<1>3. off # 0
  BY <1>1 DEF RInv, Inv, Joined, Walk
<1>4. /\ req \in S!Requests /\ running = req /\ phase = "full"
      /\ \E k \in 1 .. Len(acked) : Stands(k)
  BY <1>1, <1>3, WalkStands DEF Walking
<1>5. PICK k \in 1 .. Len(acked) : Stands(k)
  BY <1>4
<1>6. UNCHANGED <<log, index, items, waste, torn, last, drift>>
  BY <1>1, <1>2, SameView
<1>7. CASE Return(req, -1, None)
  <2>1. S!Return(running, -1, None)
    BY <1>4, <1>7, Returns
  <2>2. QED
    BY <1>4, <1>6, <2>1 DEF S!ChainFull
<1>8. CASE /\ reply'.rc = "ok"
           /\ IF reply'.key = req.key
              THEN pc' = "finish" /\ val_len' = reply'.val_len /\ UNCHANGED off
              ELSE WalkTo(reply'.off) /\ UNCHANGED val_len
           /\ UNCHANGED <<req, res, buf>>
  <2>1. /\ reply'.off = acked[k].off
        /\ FieldRead(reply'.key_len, reply'.key, acked[k].key, Len(req.key))
    BY <1>1, <1>5, <1>8, ReadRecord DEF Stands
  <2>2. reply'.key = acked[k].key
    <3> DEFINE q == req.key  a == acked[k].key  l == reply'.key_len  c == reply'.key
    <3>1. /\ a \in KeyBytes /\ q \in KeyBytes /\ Len(a) = Len(q) /\ FieldRead(l, c, a, Len(q))
      BY <1>1, <1>4, <1>5, <2>1, RequestIs DEF Stands, RInv, Ext, WalkRead
    <3> HIDE DEF q, a, l, c
    <3>2. a \in Seq(Nat) /\ Len(q) \in Nat /\ Len(a) <= Len(q)
      BY <3>1, KeyFacts
    <3>3. c = a
      BY <3>1, <3>2, WholeRead
    <3>4. QED
      BY <3>3 DEF a, c
  <2>3. running' = req' /\ running' = running
    <3>1. pc' # "index"
      BY <1>8 DEF WalkTo
    <3>2. QED
      BY <1>4, <1>8, <3>1 DEF running
  <2>4. CASE reply'.key = req.key
    <3>1. log[place].key = running.key
      BY <1>4, <1>5, <2>2, <2>4 DEF Stands
    <3>2. phase' = "finish"
      BY <1>8, <2>4 DEF phase
    <3>3. place' = place
      BY <1>1, <1>2, <1>8, <2>4 DEF View
    <3>4. QED
      BY <1>4, <1>6, <1>8, <2>3, <3>1, <3>2, <3>3 DEF S!ChainFull
  <2>5. CASE reply'.key # req.key
    <3>1. WalkTo(acked[k].off) /\ acked[k].off \in K!Starts
      BY <1>5, <1>8, <2>1, <2>5 DEF Stands
    <3>2. S!WalkTo(log[place].off)
      BY <1>1, <1>2, <1>5, <3>1, WalksTo DEF Stands
    <3>3. log[place].key # running.key
      BY <1>4, <1>5, <2>2, <2>5 DEF Stands
    <3>4. QED
      BY <1>4, <1>6, <1>8, <2>3, <3>2, <3>3 DEF S!ChainFull
  <2>6. QED
    BY <2>4, <2>5
<1>9. QED
  BY <1>7, <1>8 DEF ChainFull

(* What the walk found, for either of the two.                               *)
LEMMA FoundIs ==
  ASSUME RInv, pc = "finish"
  PROVE  /\ Found <=> S!Found
         /\ \A op : (Admits(op) <=> S!Admits(op)) /\ SizeStep(op) = S!SizeStep(op)
                    /\ WasteStep = S!WasteStep(op)
<1>1. place = 0 <=> off = 0
  BY WalkStands DEF Walking
<1>2. Found <=> S!Found
  <2>1. CASE off = 0
    BY <1>1, <2>1 DEF Found, S!Found
  <2>2. CASE off # 0
    <3>1. PICK k \in 1 .. Len(acked) : Stands(k)
      BY <2>2, WalkStands DEF Walking
    <3> DEFINE v == acked[k].val
    <3>2. v \in ValBytes /\ log[place].val = v
      BY <3>1 DEF Stands
    <3>3. val_len = Len(v)
      BY <2>2, <3>1 DEF Stands, RInv, Ext, WalkRead
    <3> HIDE DEF v
    <3>4. v = None <=> Len(v) = 0
      BY <3>2, KeyFacts
    <3>5. QED
      BY <1>1, <2>2, <3>2, <3>3, <3>4 DEF Found, S!Found
  <2>3. QED
    BY <2>1, <2>2
<1>3. QED
  BY <1>2 DEF Admits, S!Admits, SizeStep, S!SizeStep, WasteStep, S!WasteStep

LEMMA LookupReturnsIs ==
  ASSUME RInv, View', LookupReturns
  PROVE  S!LookupReturns
<1>1. pc = "finish" /\ req.op = "lookup" /\ UNCHANGED <<acked, tab, items, waste, torn>>
  BY DEF LookupReturns, Counters, RawIdle, rawVars, indexVars
<1>2. View
  BY RInvBase, ViewHolds
<1>3. running = req /\ phase = "finish"
  BY <1>1, WalkStands DEF Walking
<1>4. UNCHANGED <<log, index, items, waste, torn, last, drift>>
  BY <1>1, <1>2, SameView
<1>5. IF S!Found THEN Return(req, 0, buf) ELSE Return(req, 1, None)
  BY <1>1, FoundIs DEF LookupReturns
<1>6. IF S!Found THEN S!Return(running, 0, buf) ELSE S!Return(running, 1, None)
  BY <1>3, <1>5, Returns
<1>7. QED
  BY <1>1, <1>3, <1>4, <1>6 DEF S!LookupReturns

LEMMA MutateRejectsIs ==
  ASSUME RInv, View', MutateRejects
  PROVE  S!MutateRejects
<1>1. /\ pc = "finish" /\ req.op # "lookup" /\ ~Admits(req.op) /\ Return(req, 1, None)
      /\ UNCHANGED <<acked, tab, items, waste, torn>>
  BY DEF MutateRejects, Counters, RawIdle, rawVars, indexVars
<1>2. View
  BY RInvBase, ViewHolds
<1>3. running = req /\ phase = "finish"
  BY <1>1, WalkStands DEF Walking
<1>4. UNCHANGED <<log, index, items, waste, torn, last, drift>>
  BY <1>1, <1>2, SameView
<1>5. S!Return(running, 1, None) /\ ~S!Admits(running.op)
  BY <1>1, <1>3, FoundIs, Returns
<1>6. QED
  BY <1>1, <1>3, <1>4, <1>5 DEF S!MutateRejects

-----------------------------------------------------------------------------
(* A handle that is opened or closed has the log and the index of KVDB.      *)
LEMMA EmptyLog ==
  ASSUME NEW s, IsLog(s), Size(s) = 0
  PROVE  LogOf(s) = <<>> /\ LastOf(s) = [k \in KeyBytes |-> 0]
<1>1. LogOf(s) \in Seq(Rec) /\ Len(LogOf(s)) = 0
  BY RecordIs
<1>2. LogOf(s) = <<>>
  BY <1>1, EmptySeq
<1>3. \A k \in KeyBytes : {p \in 1 .. 0 : s[p + 1].key = k} = {}
  OBVIOUS
<1>4. Newest({}) = 0
  BY DEF Newest
<1>5. LastOf(s) = [k \in KeyBytes |-> 0]
  BY <1>3, <1>4 DEF LastOf
<1>6. QED
  BY <1>2, <1>5

LEMMA EmptyDrift == DriftOf(<<>>, [k \in KeyBytes |-> 0], 0, 0) = [size |-> 0, waste |-> 0]
<1>1. LiveOf(<<>>, [k \in KeyBytes |-> 0]) = {}
  BY DEF LiveOf
<1>2. DeadOf(<<>>, [k \in KeyBytes |-> 0]) = {}
  BY EmptySeq DEF DeadOf
<1>3. Cardinality({}) = 0
  BY FS_EmptySet
<1>4. DriftOf(<<>>, [k \in KeyBytes |-> 0], 0, 0)
        = [size |-> 0 - Cardinality({}), waste |-> 0 - Cardinality({})]
  BY <1>1, <1>2 DEF DriftOf
<1>5. QED
  BY <1>3, <1>4

EmptyHandle == Size(acked) = 0 /\ tab = P!NoTable /\ items = 0 /\ waste = 0 /\ off = 0
EmptyStore ==
  /\ log = <<>> /\ index = [h \in I!Keys |-> 0] /\ last = [k \in KeyBytes |-> 0]
  /\ place = 0 /\ drift = [size |-> 0, waste |-> 0]

LEMMA EmptyIs == View /\ EmptyHandle => EmptyStore
<1> SUFFICES ASSUME View, EmptyHandle PROVE EmptyStore
  OBVIOUS
<1>1. log = <<>> /\ last = [k \in KeyBytes |-> 0]
  BY EmptyLog DEF View, EmptyHandle
<1>2. place = 0
  BY PlaceOfZero DEF View, EmptyHandle
<1>3. drift = [size |-> 0, waste |-> 0]
  BY <1>1, EmptyDrift DEF View, EmptyHandle
<1>4. I!Keys = P!Keys
  BY IndexTerms DEF I!Keys, P!Keys
<1>5. ASSUME NEW h \in P!Keys PROVE P!cells[h] = 0
  <2>1. h \in 1 .. Width - 1
    BY P!KeysType, PartsAssume
  <2>2. P!OffIn(P!NoTable, h) = 0
    BY <2>1, P!OffInEmpty, PartsAssume
  <2>3. P!cells = [key \in P!Keys |-> P!OffIn(tab, key)]
    BY P!CellsAre, PartsAssume
  <2>4. QED
    BY <2>2, <2>3 DEF EmptyHandle
<1>6. index = [h \in I!Keys |-> 0]
  <2>1. \A h \in P!Keys : PlaceIn(acked, P!cells[h]) = 0
    BY <1>5, PlaceOfZero
  <2>2. QED
    BY <1>4, <2>1 DEF View, IndexOf
<1>7. QED
  BY <1>1, <1>2, <1>3, <1>6 DEF EmptyStore

LEMMA FreshIs ==
  ASSUME View', Size(acked') = 0, tab' = P!NoTable, torn' = FALSE,
         pc' \in {"idle", "closed"}, Fresh
  PROVE  S!Fresh
<1>1. items' = 0 /\ waste' = 0 /\ req' = NoRequest /\ off' = 0 /\ buf' = None
  BY DEF Fresh
<1>2. EmptyHandle'
  BY <1>1 DEF EmptyHandle
<1>3. View' /\ EmptyHandle' => EmptyStore'
  BY EmptyIs, PTL
<1>4. running' = S!NoRequest
  BY <1>1, Replies DEF running
<1>5. QED
  BY <1>1, <1>2, <1>3, <1>4 DEF EmptyStore, S!Fresh

LEMMA ClosedIs ==
  ASSUME RInv, pc = "closed"
  PROVE  acked = <<>> /\ tab = P!NoTable /\ torn = FALSE /\ phase = "closed"
<1>1. ~isOpen /\ ipc = "closed" /\ K!IInv /\ P!IInv2
  BY DEF RInv, Inv, Joined, Phase
<1>2. acked = <<>> /\ torn = FALSE
  BY <1>1 DEF K!IInv, K!Handle, K!Typed
<1>3. tab = P!NoTable
  BY <1>1 DEF P!IInv2, P!Held
<1>4. QED
  BY <1>2, <1>3 DEF phase

LEMMA OpenIs ==
  ASSUME RInv, View', kvdb_open
  PROVE  S!kvdb_open
<1>1. pc = "closed" /\ Fresh /\ phase = "closed"
  BY ClosedIs DEF kvdb_open
<1>2. CASE R!kvraw_open /\ I!index_open /\ pc' = "idle" /\ res' = Reply("open", None, 0, None)
  <2>1. tab' = P!NoTable
    BY <1>1, <1>2, ClosedIs DEF I!index_open
  <2>2. Size(acked') = 0
    <3>1. PICK e : acked' = <<e>>
      BY <1>2 DEF R!kvraw_open
    <3>2. <<e>> # <<>> /\ Len(<<e>>) = 1
      OBVIOUS
    <3>3. QED
      BY <3>1, <3>2 DEF Size
  <2>3. torn' = FALSE
    BY <1>2 DEF R!kvraw_open
  <2>4. S!Fresh
    BY <1>1, <1>2, <2>1, <2>2, <2>3, FreshIs
  <2>5. phase' = "idle" /\ res' = S!Reply("open", None, 0, None)
    BY <1>2, Replies DEF phase
  <2>6. QED
    BY <1>1, <2>4, <2>5 DEF S!kvdb_open
<1>3. CASE UNCHANGED <<rawVars, indexVars, pc>> /\ res' = Reply("open", None, -1, None)
  <2>1. tab' = P!NoTable /\ torn' = FALSE /\ acked' = <<>>
    BY <1>1, <1>3, ClosedIs DEF rawVars, indexVars
  <2>2. Size(acked') = 0
    BY <2>1 DEF Size
  <2>3. S!Fresh
    BY <1>1, <1>3, <2>1, <2>2, FreshIs
  <2>4. phase' = "closed" /\ res' = S!Reply("open", None, -1, None)
    BY <1>1, <1>3, Replies DEF phase
  <2>5. QED
    BY <1>1, <2>3, <2>4 DEF S!kvdb_open
<1>4. QED
  BY <1>2, <1>3 DEF kvdb_open

LEMMA CloseIs ==
  ASSUME RInv, View', kvdb_close
  PROVE  S!kvdb_close
<1>1. /\ pc = "idle" /\ Fresh /\ phase = "idle" /\ pc' = "closed"
      /\ res' = Reply("close", None, 0, None)
  BY DEF kvdb_close, phase
<1>2. tab' = P!NoTable /\ torn' = FALSE /\ acked' = <<>>
  BY IndexSteps DEF kvdb_close, R!kvraw_close, P!index_close
<1>3. Size(acked') = 0
  BY <1>2 DEF Size
<1>4. S!Fresh
  BY <1>1, <1>2, <1>3, FreshIs
<1>5. phase' = "closed" /\ res' = S!Reply("close", None, 0, None)
  BY <1>1, Replies DEF phase
<1>6. QED
  BY <1>1, <1>4, <1>5 DEF S!kvdb_close

-----------------------------------------------------------------------------
(* Calls that begin: the chain begins where the table says.                  *)
LEMMA CellStarts ==
  ASSUME Inv, isOpen, NEW h \in P!Keys
  PROVE  P!cells[h] \in K!Starts
<1> DEFINE j == P!lookup(tab, h)
<1>1. P!cells[h] = IF j = P!NoRef THEN 0 ELSE tab.maps[j].off
  BY DEF P!cells
<1>2. 0 \in K!Starts
  BY SentinelStart DEF Inv
<1>3. j # P!NoRef => j \in P!Slots(tab)
  <2>1. h \in 0 .. Width - 1
    BY P!KeysType, PartsAssume
  <2>2. P!IsTable(tab)
    BY DEF Inv, P!IInv, P!TypeOK
  <2>3. QED
    BY <2>1, <2>2, PartsAssume, P!ProbeEnds DEF P!lookup
<1>4. QED
  BY <1>1, <1>2, <1>3 DEF Inv, Joined, Offsets, OffsIn

LEMMA ChainIs ==
  ASSUME NEW k \in KeyBytes
  PROVE  /\ Chain[k] = P!KeyOf(HashOf[k]) /\ Chain[k] \in P!Keys
         /\ Cell(tab, HashOf[k]) = P!cells[Chain[k]]
<1>1. Chain[k] = P!KeyOf(HashOf[k]) /\ HashOf[k] \in Code
  BY IndexTerms, DatabaseAssumption DEF Chain
<1>2. Chain[k] \in P!Keys
  BY <1>1 DEF P!Keys
<1>3. P!cells[Chain[k]] = Cell(tab, HashOf[k])
  BY <1>1, <1>2, IndexTerms DEF P!cells, Cell
<1>4. QED
  BY <1>1, <1>2, <1>3

LEMMA IndexIs ==
  ASSUME RInv, isOpen, NEW k \in KeyBytes
  PROVE  /\ index[Chain[k]] = PlaceIn(acked, P!cells[Chain[k]])
         /\ P!cells[Chain[k]] \in K!Starts
         /\ index[Chain[k]] = 0 <=> P!cells[Chain[k]] = 0
<1>1. View
  BY RInvBase, ViewHolds
<1>2. Chain[k] \in P!Keys /\ P!cells[Chain[k]] \in K!Starts
  BY ChainIs, CellStarts DEF RInv
<1>3. index[Chain[k]] = PlaceIn(acked, P!cells[Chain[k]])
  BY <1>1, <1>2 DEF View, IndexOf
<1>4. QED
  BY <1>1, <1>2, <1>3, StartPlace

LEMMA LookupIs ==
  ASSUME RInv, View', NEW k \in KeyBytes, NEW want, kvdb_lookup(k, want)
  PROVE  S!kvdb_lookup(k, want)
<1> DEFINE r == Request("lookup", k, None, want)
           o == P!cells[Chain[k]]
<1>1. /\ pc = "idle" /\ UNCHANGED <<acked, tab, items, waste, torn>>
      /\ \/ o = 0 /\ Return(r, 1, None)
         \/ o # 0 /\ WalkTo(o) /\ req' = r /\ res' = NoReply /\ UNCHANGED buf
  BY ChainIs DEF kvdb_lookup, Counters, RawIdle, rawVars, indexVars
<1>2. View
  BY RInvBase, ViewHolds
<1>3. isOpen /\ phase = "idle"
  BY <1>1 DEF RInv, Inv, Joined, Phase, phase
<1>4. UNCHANGED <<log, index, items, waste, torn, last, drift>>
  BY <1>1, <1>2, SameView
<1>5. /\ index[Chain[k]] = PlaceIn(acked, o) /\ o \in K!Starts
      /\ index[Chain[k]] = 0 <=> o = 0
  BY <1>3, IndexIs
<1>6. S!Request("lookup", k, None, want) = r /\ S!NoReply = NoReply
  BY Replies
<1> HIDE DEF r, o
<1>7. CASE o = 0 /\ Return(r, 1, None)
  <2>1. S!Return(r, 1, None) /\ index[Chain[k]] = 0
    BY <1>5, <1>7, Returns
  <2>2. QED
    BY <1>3, <1>4, <1>6, <2>1 DEF S!kvdb_lookup
<1>8. CASE o # 0 /\ WalkTo(o) /\ req' = r /\ res' = NoReply /\ UNCHANGED buf
  <2>1. S!WalkTo(index[Chain[k]]) /\ index[Chain[k]] # 0
    BY <1>1, <1>2, <1>5, <1>8, WalksTo
  <2>2. running' = r
    BY <1>8 DEF WalkTo, running
  <2>3. QED
    BY <1>3, <1>4, <1>6, <1>8, <2>1, <2>2 DEF S!kvdb_lookup
<1>9. QED
  BY <1>1, <1>7, <1>8

LEMMA UpdatedIs ==
  ASSUME RInv, View', IndexUpdated
  PROVE  S!mutate(req) /\ req \in S!Requests /\ req.op # "lookup"
<1>1. /\ pc = "index" /\ ipc = "idle" /\ UNCHANGED <<acked, tab, items, waste, torn>>
      /\ IF ref = P!NoRef THEN Return(req, -1, None)
         ELSE WalkTo(tab.maps[ref].off) /\ res' = NoReply /\ UNCHANGED <<req, buf>>
  BY IndexTerms DEF IndexUpdated, Counters, RawIdle, rawVars, indexVars
<1>2. View
  BY RInvBase, ViewHolds
<1>3. /\ isOpen /\ phase = "idle" /\ req \in S!Requests /\ req.op # "lookup" /\ ~torn
      /\ tries < MaxAppends /\ arg = P!KeyOf(HashOf[req.key]) /\ req.key \in KeyBytes
  BY <1>1 DEF RInv, Inv, Joined, Phase, Asking, Writing, Walking, phase, Ext
<1>4. UNCHANGED <<log, index, items, waste, torn, last, drift>>
  BY <1>1, <1>2, SameView
<1>5. Len(log) < MaxAppends
  <2>1. acked # <<>> /\ Len(acked) <= tries + 1 /\ tries \in Nat /\ MaxAppends \in Nat
    <3>1. acked # <<>>
      BY <1>2, <1>3 DEF View
    <3>2. Len(acked) <= tries + 1
      BY DEF RInv, Ext
    <3>3. tries \in 0 .. MaxAppends /\ MaxAppends \in Nat
      BY DatabaseAssumption DEF RInv, Inv, K!IInv, K!Typed
    <3>4. QED
      BY <3>1, <3>2, <3>3
  <2>2. Len(log) = Len(acked) - 1 /\ Len(acked) \in Nat
    BY <1>2, <2>1, RecordIs, LogFacts DEF View, Size
  <2>3. QED
    BY <1>3, <2>1, <2>2
<1>6. CASE ref = P!NoRef
  <2>1. S!Return(req, -1, None)
    BY <1>1, <1>6, Returns
  <2>2. QED
    BY <1>3, <1>4, <1>5, <2>1 DEF S!mutate
<1>7. CASE ref # P!NoRef
  <2>1. P!cells[arg] = tab.maps[ref].off
    BY <1>7, P!RefIsCell, PartsAssume DEF RInv, Inv
  <2>2. arg = Chain[req.key]
    BY <1>3, ChainIs
  <2>3. /\ index[Chain[req.key]] = PlaceIn(acked, tab.maps[ref].off)
        /\ tab.maps[ref].off \in K!Starts
    BY <1>3, <2>1, <2>2, IndexIs
  <2>4. S!WalkTo(index[Chain[req.key]])
    BY <1>1, <1>2, <1>7, <2>3, WalksTo
  <2>5. running' = req
    BY <1>1, <1>7 DEF WalkTo, running
  <2>6. QED
    BY <1>1, <1>3, <1>4, <1>5, <1>7, <2>4, <2>5, Replies DEF S!mutate
<1>8. QED
  BY <1>3, <1>6, <1>7

(* The steps of the table itself are none of KVDB's.                         *)
LEMMA Stutters ==
  ASSUME RInv, View', UNCHANGED <<acked, items, waste, off, buf, res, torn>>,
         P!cells' = P!cells, phase' = phase, running' = running
  PROVE  UNCHANGED S!vars
<1>1. View
  BY RInvBase, ViewHolds
<1>2. UNCHANGED <<log, index, last, place, drift>>
  BY <1>1 DEF View
<1>3. QED
  BY <1>2 DEF S!vars

LEMMA MutateIs ==
  ASSUME RInv, View', NEW r, r.key \in KeyBytes, mutate(r)
  PROVE  UNCHANGED S!vars
<1>1. /\ pc = "idle" /\ pc' = "index" /\ P!index_update(HashOf[r.key])
      /\ UNCHANGED <<acked, items, waste, off, buf, res, torn>>
  BY IndexSteps DEF mutate, Counters, RawIdle, rawVars
<1>2. HashOf[r.key] \in Code
  BY DatabaseAssumption
<1>3. P!cells' = P!cells
  BY <1>1, <1>2, P!OnlyStoresChange, PartsAssume DEF RInv, Inv
<1>4. phase = "idle" /\ phase' = "idle" /\ running' = NoRequest
  BY <1>1 DEF phase, running
<1>5. running = NoRequest
  BY <1>4, Replies DEF RInv, S!IInv, S!TypeOK
<1>6. QED
  BY <1>1, <1>3, <1>4, <1>5, Stutters

LEMMA GrowIs ==
  ASSUME RInv, View', Grow
  PROVE  UNCHANGED S!vars
<1>1. /\ pc = "index" /\ pc' = "index" /\ (P!Rehash \/ P!GrowEnds)
      /\ UNCHANGED <<acked, items, waste, off, buf, res, torn>>
  BY IndexSteps DEF Grow, RawIdle, rawVars, callVars
<1>2. P!cells' = P!cells
  BY <1>1, P!OnlyStoresChange, PartsAssume DEF RInv, Inv
<1>3. phase' = phase /\ running' = running
  BY <1>1 DEF phase, running
<1>4. QED
  BY <1>1, <1>2, <1>3, Stutters

-----------------------------------------------------------------------------
(* The append: the record goes to the end of the log and to the head of the  *)
(* chain of its key.                                                         *)
LEMMA SameCardinality == \A T : Cardinality(T) = S!Cardinality(T)
  BY DEF Cardinality, S!Cardinality

LEMMA Counted ==
  ASSUME RInv
  PROVE  /\ S!LiveKeys = LiveOf(log, last) /\ S!DeadRecords = DeadOf(log, last)
         /\ Cardinality(LiveOf(log, last)) \in Nat /\ Cardinality(DeadOf(log, last)) \in Nat
         /\ items \in Int /\ waste \in Int
<1>1. S!LiveKeys = LiveOf(log, last) /\ S!DeadRecords = DeadOf(log, last)
  BY DEF S!LiveKeys, LiveOf, S!DeadRecords, DeadOf, S!Pos
<1>2. S!TypeOK
  BY DEF RInv, S!IInv
<1>3. S!IsFiniteSet(S!LiveKeys) /\ S!IsFiniteSet(S!DeadRecords)
  BY <1>2, S!CountedFinite, StoreAssumes
<1>4. IsFiniteSet(LiveOf(log, last)) /\ IsFiniteSet(DeadOf(log, last))
  BY <1>1, <1>3 DEF IsFiniteSet, S!IsFiniteSet
<1>5. Cardinality(LiveOf(log, last)) \in Nat /\ Cardinality(DeadOf(log, last)) \in Nat
  BY <1>4, FS_CardinalityType
<1>6. QED
  BY <1>1, <1>2, <1>5 DEF S!TypeOK

LEMMA Writes ==
  ASSUME RInv, MutateAppends \/ MutateFails
  PROVE  /\ pc = "finish" /\ phase = "finish" /\ running = req
         /\ req.op # "lookup" /\ S!Admits(req.op) /\ isOpen /\ ~torn
         /\ req.key \in KeyBytes /\ req.val \in ValBytes
         /\ req.op \in {"insert", "update", "replace", "remove"}
         /\ tries' = tries + 1 /\ tries < MaxAppends /\ tries \in Nat /\ size \in Nat
         /\ ref # P!NoRef /\ tab.maps[ref].off \in Nat
         /\ arg = Chain[req.key] /\ arg \in P!Keys /\ P!cells[arg] = tab.maps[ref].off
<1>1. pc = "finish" /\ req.op # "lookup" /\ Admits(req.op) /\ tries' = tries + 1
  BY DEF MutateAppends, MutateFails
<1>2. running = req /\ phase = "finish" /\ req \in S!Requests
  BY <1>1, WalkStands DEF Walking
<1>3. S!Admits(req.op)
  BY <1>1, FoundIs
<1>4. /\ req.key \in KeyBytes /\ req.val \in ValBytes
      /\ req.op \in {"insert", "update", "replace", "remove"}
  BY <1>1, <1>2, RequestIs
<1>5. isOpen /\ ~torn /\ ref # P!NoRef /\ tab.maps[ref].off \in Nat /\ tries < MaxAppends
  BY <1>1, AtRecord DEF Walking, RInv
<1>6. tries \in Nat /\ size \in Nat
  BY DEF RInv, Inv, K!IInv, K!Typed
<1>7. arg = P!KeyOf(HashOf[req.key])
  BY <1>1 DEF RInv, Inv, Joined, Asking, Writing, Walking
<1>8. arg = Chain[req.key] /\ arg \in P!Keys
  BY <1>4, <1>7, ChainIs
<1>9. P!cells[arg] = tab.maps[ref].off
  BY <1>5, P!RefIsCell, PartsAssume DEF RInv, Inv
<1>10. QED
  BY <1>1, <1>2, <1>3, <1>4, <1>5, <1>6, <1>8, <1>9

LEMMA LogAppendIs ==
  ASSUME RInv, View', MutateAppends
  PROVE  S!kvraw_append(req.key, req.val)
<1> DEFINE k == req.key
           v == req.val
           l == tab.maps[ref].off
           e == K!Acked(size, l, k, v)
<1>1. /\ isOpen /\ k \in KeyBytes /\ v \in ValBytes /\ size \in Nat /\ l \in Nat
      /\ arg = Chain[k] /\ arg \in P!Keys /\ P!cells[arg] = l
  BY Writes
<1>2. acked' = Append(acked, e) /\ P!Store(size)
  BY KVRawSteps, IndexSteps DEF MutateAppends, K!AppendEnds, LinkOf
<1>3. e.at = size /\ e.off = l /\ e.key = k /\ e.val = v
  BY DEF K!Acked
<1>4. e \in K!Entry
  <2>1. k \in Seq(Nat) /\ v \in Seq(Nat)
    BY <1>1, KeyFacts
  <2>2. e = [at |-> size, off |-> l, key |-> k, val |-> v, clean |-> ~torn]
    BY DEF K!Acked
  <2> HIDE DEF e, k, v, l
  <2>3. QED
    BY <1>1, <2>1, <2>2 DEF K!Entry
<1>5. View /\ acked # <<>>
  BY <1>1, RInvBase, ViewHolds DEF View
<1>6. IsLog(acked) /\ IsLog(acked')
  BY <1>5 DEF View
<1> HIDE DEF e, l, k, v
<1>7. /\ LogOf(acked') = Append(LogOf(acked), RecordOf(acked, e))
      /\ LastOf(acked') = [LastOf(acked) EXCEPT ![k] = Len(acked)]
      /\ \A m \in 1 .. Len(acked) : PlaceIn(acked', acked[m].at) = PlaceIn(acked, acked[m].at)
      /\ PlaceIn(acked', size) = Len(acked)
  <2>1. LogOf(acked') = Append(LogOf(acked), RecordOf(acked, e))
    BY <1>2, <1>4, <1>5, <1>6, LogAdded
  <2>2. e.key \in KeyBytes
    BY <1>1, <1>3
  <2>3. LastOf(acked') = [LastOf(acked) EXCEPT ![e.key] = Len(acked)]
    BY <1>2, <1>4, <1>5, <1>6, <2>2, LastAdded
  <2>4. /\ \A m \in 1 .. Len(acked) : PlaceIn(acked', acked[m].at) = PlaceIn(acked, acked[m].at)
        /\ PlaceIn(acked', e.at) = Len(acked)
    BY <1>2, <1>4, <1>5, <1>6, PlaceAdded
  <2>5. QED
    BY <1>3, <2>1, <2>3, <2>4
<1>8. Len(log) + 1 = Len(acked)
  <2>1. log = LogOf(acked)
    BY <1>5 DEF View
  <2>2. Len(log) = Size(acked) /\ Size(acked) = Len(acked) - 1 /\ Len(acked) \in Nat
    BY <1>5, <1>6, <2>1, RecordIs, LogFacts
  <2>3. QED
    BY <2>2
<1>9. index[Chain[k]] = PlaceIn(acked, l)
  BY <1>1, IndexIs
<1>10. log' = Append(log, [off |-> index[Chain[k]], key |-> k, val |-> v])
  <2>1. RecordOf(acked, e) = [off |-> index[Chain[k]], key |-> k, val |-> v]
    BY <1>3, <1>9 DEF RecordOf
  <2>2. QED
    BY <1>5, <1>7, <2>1 DEF View
<1>11. last' = [last EXCEPT ![k] = Len(acked)]
  BY <1>5, <1>7 DEF View
<1>12. index' = [index EXCEPT ![Chain[k]] = Len(acked)]
  <2>1. P!cells' = [P!cells EXCEPT ![arg] = size]
    BY <1>1, <1>2, P!StoreChanges, PartsAssume DEF RInv, Inv
  <2>2. index = IndexOf(acked, P!cells) /\ index' = IndexOf(acked', P!cells')
    BY <1>5 DEF View
  <2>3. ASSUME NEW h \in P!Keys, h # arg
        PROVE  PlaceIn(acked', P!cells[h]) = PlaceIn(acked, P!cells[h])
    <3>1. P!cells[h] \in K!Starts
      BY <1>1, CellStarts DEF RInv
    <3>2. PICK m \in 1 .. Len(acked) : acked[m].at = P!cells[h]
      BY <1>6, <3>1, LogFacts DEF K!Starts
    <3>3. QED
      BY <1>7, <3>2
  <2>4. DOMAIN P!cells = P!Keys
    BY DEF P!cells
  <2>5. P!cells'[arg] = size /\ \A h \in P!Keys : h # arg => P!cells'[h] = P!cells[h]
    BY <1>1, <2>1, <2>4
  <2>6. QED
    BY <1>1, <1>7, <2>2, <2>3, <2>5 DEF IndexOf
<1>13. S!kvraw_append(k, v)
  BY <1>8, <1>10, <1>11, <1>12 DEF S!kvraw_append
<1>14. QED
  BY <1>13 DEF k, v

LEMMA AppendIs ==
  ASSUME RInv, View', MutateAppends
  PROVE  S!MutateAppends
<1>1. /\ phase = "finish" /\ running = req /\ req.op # "lookup" /\ S!Admits(req.op)
      /\ req.op \in {"insert", "update", "replace", "remove"}
  BY Writes
<1>2. S!kvraw_append(req.key, req.val)
  BY LogAppendIs
<1>3. /\ items' = items + S!SizeStep(req.op) /\ waste' = waste + S!WasteStep(req.op)
  BY FoundIs DEF MutateAppends, Count
<1>4. torn' = torn /\ Return(req, 0, IF req.op = "remove" THEN buf ELSE None)
  BY DEF MutateAppends, R!AppendEnds
<1>5. S!Return(req, 0, IF req.op = "remove" THEN buf ELSE None)
  BY <1>4, Returns
<1>6. drift' = drift
  <2> DEFINE a == S!SizeStep(req.op)
             b == S!WasteStep(req.op)
             n == Cardinality(LiveOf(log, last))
             w == Cardinality(DeadOf(log, last))
  <2>1. /\ S!Cardinality(S!LiveKeys') = S!Cardinality(S!LiveKeys) + a
        /\ S!Cardinality(S!DeadRecords') = S!Cardinality(S!DeadRecords) + b
    BY <1>1, <1>2, S!AppendMoves, StoreAssumes DEF RInv, S!IInv
  <2>2. S!LiveKeys' = LiveOf(log', last') /\ S!DeadRecords' = DeadOf(log', last')
    BY DEF S!LiveKeys, LiveOf, S!DeadRecords, DeadOf, S!Pos
  <2>3. /\ Cardinality(LiveOf(log', last')) = n + a
        /\ Cardinality(DeadOf(log', last')) = w + b
    BY <2>1, <2>2, Counted, SameCardinality
  <2>4. drift' = [size |-> items' - Cardinality(LiveOf(log', last')),
                  waste |-> waste' - Cardinality(DeadOf(log', last'))]
    BY DEF View, DriftOf
  <2>5. drift = [size |-> items - n, waste |-> waste - w]
    BY RInvBase, ViewHolds DEF View, DriftOf
  <2>6. n \in Nat /\ w \in Nat /\ items \in Int /\ waste \in Int
    BY Counted
  <2>7. a \in Int /\ b \in Int
    BY <1>1 DEF S!SizeStep, S!WasteStep
  <2> HIDE DEF a, b, n, w
  <2>8. (items + a) - (n + a) = items - n /\ (waste + b) - (w + b) = waste - w
    BY <2>6, <2>7
  <2>9. items' = items + a /\ waste' = waste + b
    BY <1>3 DEF a, b
  <2>10. QED
    BY <2>3, <2>4, <2>5, <2>8, <2>9
<1>7. QED
  BY <1>1, <1>2, <1>3, <1>4, <1>5, <1>6 DEF S!MutateAppends

(* The append that fails: update has moved its counters by then.             *)
LEMMA FailIs ==
  ASSUME RInv, View', K!IInv', MutateFails
  PROVE  S!MutateFails
<1>1. /\ phase = "finish" /\ running = req /\ req.op # "lookup" /\ S!Admits(req.op)
      /\ tries < MaxAppends /\ tries \in Nat
  BY Writes
<1>2. UNCHANGED <<acked, tab>> /\ Return(req, -1, None)
  BY DEF MutateFails, R!AppendFails, indexVars
<1>3. torn' \in BOOLEAN
  BY DEF K!IInv, K!Typed
<1>4. View
  BY RInvBase, ViewHolds
<1>5. log' = log /\ index' = index /\ last' = last
  <2>1. P!cells' = P!cells
    BY <1>2 DEF P!cells, P!lookup, P!SlotFor, P!Ends, P!Slots, P!Probe
  <2>2. QED
    BY <1>2, <1>4, <2>1 DEF View
<1>6. S!Return(req, -1, None)
  BY <1>2, Returns
<1>7. CASE req.op # "update"
  <2>1. UNCHANGED <<items, waste>>
    BY <1>7 DEF MutateFails, Counters
  <2>2. drift' = drift
    BY <1>2, <1>4, <2>1, SameView
  <2>3. QED
    BY <1>1, <1>3, <1>5, <1>6, <1>7, <2>1, <2>2 DEF S!MutateFails
<1>8. CASE req.op = "update"
  <2> DEFINE a == S!SizeStep("update")
             b == S!WasteStep("update")
             n == Cardinality(LiveOf(log, last))
             w == Cardinality(DeadOf(log, last))
  <2>1. items' = items + a /\ waste' = waste + b
    <3>1. pc = "finish"
      BY Writes
    <3>2. QED
      BY <1>8, <3>1, FoundIs DEF MutateFails, Count
  <2>2. drift' = [size |-> items' - n, waste |-> waste' - w]
    BY <1>5 DEF View, DriftOf
  <2>3. drift = [size |-> items - n, waste |-> waste - w]
    BY <1>4 DEF View, DriftOf
  <2>4. n \in Nat /\ w \in Nat /\ items \in Int /\ waste \in Int
    BY Counted
  <2>5. a \in Int /\ b \in Int
    BY DEF S!SizeStep, S!WasteStep
  <2>6. drift.size + drift.waste < MaxAppends
    BY <1>1, <2>3, <2>4, DatabaseAssumption DEF RInv, Ext
  <2> HIDE DEF a, b, n, w
  <2>7. (items + a) - n = (items - n) + a /\ (waste + b) - w = (waste - w) + b
    BY <2>4, <2>5
  <2>8. drift' = [size |-> drift.size + a, waste |-> drift.waste + b]
    BY <2>1, <2>2, <2>3, <2>7
  <2>9. QED
    BY <1>1, <1>3, <1>5, <1>6, <1>8, <2>1, <2>6, <2>8 DEF S!MutateFails, a, b
<1>9. QED
  BY <1>7, <1>8

-----------------------------------------------------------------------------
(***************************************************************************)
(* The invariant is kept, and every step is one of KVDB or none.           *)
(***************************************************************************)
LEMMA LogGrows ==
  ASSUME K!IInv, Ordered, Len(acked) <= tries + 1, [K!Next]_(K!vars)
  PROVE  Ordered' /\ Len(acked') <= tries' + 1
<1>1. /\ acked \in Seq(K!Entry) /\ Len(acked) \in Nat /\ tries \in Nat /\ size \in Nat
      /\ \A k \in 1 .. Len(acked) : acked[k].at \in Nat /\ acked[k].at < size
  BY K!EntryTypes, PartsAssume DEF K!IInv, K!Typed
<1>2. CASE K!kvraw_open
  <2>1. PICK e : acked' = <<e>>
    BY <1>2 DEF K!kvraw_open
  <2>2. Len(acked') = 1 /\ tries' = 0
    BY <1>2, <2>1 DEF K!kvraw_open
  <2>3. QED
    BY <2>2 DEF Ordered
<1>3. CASE K!kvraw_close
  <2>1. acked' = <<>> /\ tries' = 0 /\ Len(<<>>) = 0
    BY <1>3, EmptySeq DEF K!kvraw_close
  <2>2. QED
    BY <2>1 DEF Ordered
<1>4. CASE UNCHANGED <<acked, tries>>
  BY <1>4 DEF Ordered
<1>5. CASE K!kvraw_append
  <2>1. PICK off_ \in K!Starts, k \in KeyBytes, v \in ValBytes :
          K!AppendEnds(off_, k, v) \/ K!AppendFails(off_, k, v)
    BY <1>5 DEF K!kvraw_append
  <2>2. tries' = tries + 1
    BY <1>5 DEF K!kvraw_append
  <2>3. CASE K!AppendFails(off_, k, v)
    <3>1. acked' = acked
      BY <2>3 DEF K!AppendFails
    <3>2. QED
      BY <1>1, <2>2, <3>1 DEF Ordered
  <2>4. CASE K!AppendEnds(off_, k, v)
    <3> DEFINE e == K!Acked(size, off_, k, v)
    <3>1. e.at = size /\ acked' = Append(acked, e)
      BY <2>4 DEF K!AppendEnds, K!Acked
    <3> HIDE DEF e
    <3>2. acked \in Seq(K!Entry \union {e})
      BY <1>1
    <3>3. /\ Len(acked') = Len(acked) + 1 /\ acked'[Len(acked) + 1] = e
          /\ \A m \in 1 .. Len(acked) : acked'[m] = acked[m]
      BY <3>1, <3>2, AppendProperties
    <3>4. ASSUME NEW m \in 1 .. Len(acked'), NEW n \in 1 .. Len(acked'), m < n
          PROVE  acked'[m].at < acked'[n].at
      <4>1. m \in 1 .. Len(acked) /\ acked'[m] = acked[m]
        BY <1>1, <3>3, <3>4
      <4>2. CASE n = Len(acked) + 1
        BY <1>1, <3>1, <3>3, <4>1, <4>2
      <4>3. CASE n # Len(acked) + 1
        <5>1. n \in 1 .. Len(acked) /\ acked'[n] = acked[n]
          BY <1>1, <3>3, <4>3
        <5>2. QED
          BY <3>4, <4>1, <5>1 DEF Ordered
      <4>4. QED
        BY <4>2, <4>3
    <3>5. QED
      BY <1>1, <2>2, <3>3, <3>4 DEF Ordered
  <2>5. QED
    BY <2>1, <2>3, <2>4
<1>6. ASSUME NEW o, NEW room_k, NEW room_v, K!kvraw_lookup(o, room_k, room_v)
      PROVE  UNCHANGED <<acked, tries>>
  BY <1>6 DEF K!kvraw_lookup
<1>7. QED
  BY <1>2, <1>3, <1>4, <1>5, <1>6 DEF K!Next, K!vars

LEMMA CallIs ==
  ASSUME Call
  PROVE  \/ \E k \in KeyBytes, want \in BOOLEAN : kvdb_lookup(k, want)
         \/ \E r \in S!Requests : mutate(r)
<1>1. /\ \A k \in KeyBytes, want \in BOOLEAN : Request("remove", k, None, want) \in S!Requests
      /\ \A k \in KeyBytes, op \in {"insert", "update", "replace"}, v \in ValBytes \ {None} :
           Request(op, k, v, FALSE) \in S!Requests
  BY DEF Request, S!Requests, S!Readers, S!Writers, Values
<1>2. QED
  BY <1>1, Zenon DEF Call

LEMMA MutateIsCall ==
  ASSUME NEW r \in S!Requests, r.op # "lookup", S!mutate(r)
  PROVE  S!Call
<1>1. r.key \in KeyBytes /\ r.op \in {"insert", "update", "replace", "remove"}
  BY RequestIs
<1>2. r = S!Request(r.op, r.key, r.val, r.want)
  BY RequestIs, Replies
<1>3. CASE r.op = "remove"
  <2>1. r.val = None /\ r.want \in BOOLEAN
    BY <1>3 DEF S!Requests, S!Writers, S!Readers
  <2>2. S!kvdb_remove(r.key, r.want)
    BY <1>2, <1>3, <2>1 DEF S!kvdb_remove
  <2>3. QED
    BY <1>1, <2>1, <2>2 DEF S!Call
<1>4. CASE r.op # "remove"
  <2>1. r.val \in Values /\ r.want = FALSE
    BY <1>4 DEF S!Requests, S!Writers, S!Readers
  <2>2. S!kvdb_insert(r.key, r.val) \/ S!kvdb_update(r.key, r.val) \/ S!kvdb_replace(r.key, r.val)
    BY <1>1, <1>2, <1>4, <2>1 DEF S!kvdb_insert, S!kvdb_update, S!kvdb_replace
  <2>3. QED
    BY <1>1, <2>1, <2>2 DEF S!Call
<1>5. QED
  BY <1>3, <1>4

LEMMA StepIs ==
  ASSUME RInv, View', ReadsRecords', K!IInv', [Next]_vars
  PROVE  [S!Next]_(S!vars)
<1>1. CASE Call
  <2>1. ASSUME NEW k \in KeyBytes, NEW want \in BOOLEAN, kvdb_lookup(k, want)
        PROVE  S!Call
    BY <2>1, LookupIs DEF S!Call
  <2>2. ASSUME NEW r \in S!Requests, mutate(r)
        PROVE  UNCHANGED S!vars
    BY <2>2, RequestIs, MutateIs
  <2>3. QED
    BY <1>1, <2>1, <2>2, CallIs DEF S!Next
<1>2. CASE IndexUpdated
  BY <1>2, UpdatedIs, MutateIsCall DEF S!Next
<1>3. CASE UNCHANGED vars
  <2>1. UNCHANGED <<acked, tab, items, waste, off, buf, res, torn, pc, req>>
    BY <1>3 DEF vars, rawVars, indexVars, callVars
  <2>2. P!cells' = P!cells
    BY <2>1 DEF P!cells, P!lookup, P!SlotFor, P!Ends, P!Slots, P!Probe
  <2>3. phase' = phase /\ running' = running
    BY <2>1 DEF phase, running
  <2>4. QED
    BY <2>1, <2>2, <2>3, Stutters
<1>4. CASE kvdb_open \/ kvdb_close
  BY <1>4, OpenIs, CloseIs DEF S!Next
<1>5. CASE Grow
  BY <1>5, GrowIs
<1>6. CASE ChainRead \/ ChainFull \/ LookupReturns \/ MutateRejects \/ MutateAppends \/ MutateFails
  BY <1>6, ChainReadIs, ChainFullIs, LookupReturnsIs, MutateRejectsIs, AppendIs, FailIs
     DEF S!Next, S!Step
<1>7. QED
  BY <1>1, <1>2, <1>3, <1>4, <1>5, <1>6 DEF Next

(* The walk knows the length of what it stands at.                           *)
LEMMA WalkReadNext ==
  ASSUME RInv, View', ReadsRecords', [Next]_vars
  PROVE  WalkRead'
<1>1. CASE pc' \notin {"full", "finish"} \/ (pc' = "finish" /\ off' = 0)
  BY <1>1 DEF WalkRead
<1>2. ASSUME NEW o, WalkTo(o) PROVE WalkRead'
  BY <1>1, <1>2 DEF WalkTo
<1>3. ASSUME NEW r, NEW rc, NEW got, Return(r, rc, got) PROVE WalkRead'
  BY <1>1, <1>3 DEF Return
<1>4. CASE ChainRead
  <2>1. CASE Return(req, -1, None)
    BY <1>3, <2>1
  <2>2. CASE reply'.rc = "ok" /\ WalkTo(reply'.off)
    BY <1>2, <2>2
  <2>3. CASE /\ reply'.rc = "ok" /\ ~Differs(req.key) /\ pc' \in {"full", "finish"}
             /\ val_len' = reply'.val_len /\ UNCHANGED <<off, req>>
    <3>1. PICK n, room : R!kvraw_lookup(off, n, room)
      BY <1>4 DEF ChainRead
    <3>2. acked' = acked
      BY <3>1 DEF R!kvraw_lookup
    <3>3. ASSUME NEW k \in 1 .. Len(acked), acked[k].at = off
          PROVE  Len(acked[k].key) = Len(req.key) /\ val_len' = Len(acked[k].val)
      <4>1. /\ FieldRead(reply'.key_len, reply'.key, acked[k].key, n)
            /\ FieldRead(reply'.val_len, reply'.val, acked[k].val, room)
        BY <2>3, <3>1, <3>2, <3>3, ReadRecord
      <4>2. reply'.key_len = Len(acked[k].key) /\ reply'.val_len = Len(acked[k].val)
        BY <4>1 DEF FieldRead
      <4>3. reply'.key_len = Len(req.key)
        BY <2>3 DEF Differs
      <4>4. QED
        BY <2>3, <4>2, <4>3
    <3>4. QED
      BY <2>3, <3>2, <3>3 DEF WalkRead
  <2>4. QED
    BY <1>4, <2>1, <2>2, <2>3 DEF ChainRead
<1>5. CASE ChainFull
  <2>1. CASE Return(req, -1, None)
    BY <1>3, <2>1
  <2>2. CASE reply'.rc = "ok" /\ WalkTo(reply'.off)
    BY <1>2, <2>2
  <2>3. CASE reply'.rc = "ok" /\ pc' = "finish" /\ val_len' = reply'.val_len /\ UNCHANGED off
    <3>1. R!kvraw_lookup(off, Len(req.key), 0)
      <4>1. CASE reply' = [rc |-> "io", at |-> off]
        BY <2>3, <4>1
      <4>2. QED
        BY <1>5, <4>1, Zenon DEF ChainFull
    <3>2. acked' = acked
      BY <3>1 DEF R!kvraw_lookup
    <3>3. ASSUME NEW k \in 1 .. Len(acked), acked[k].at = off
          PROVE  val_len' = Len(acked[k].val)
      <4>1. FieldRead(reply'.val_len, reply'.val, acked[k].val, 0)
        BY <2>3, <3>1, <3>2, <3>3, ReadRecord
      <4>2. QED
        BY <2>3, <4>1 DEF FieldRead
    <3>4. QED
      BY <2>3, <3>2, <3>3 DEF WalkRead
  <2>4. QED
    BY <1>5, <2>1, <2>2, <2>3 DEF ChainFull
<1>6. CASE UNCHANGED vars
  <2>1. UNCHANGED <<acked, pc, off, req, val_len>>
    BY <1>6 DEF vars, rawVars, callVars
  <2>2. QED
    BY <2>1 DEF WalkRead, RInv, Ext
<1>7. CASE Call
  <2>1. ASSUME NEW k \in KeyBytes, NEW want \in BOOLEAN, kvdb_lookup(k, want)
        PROVE  WalkRead'
    BY <1>2, <1>3, <2>1 DEF kvdb_lookup
  <2>2. ASSUME NEW r \in S!Requests, mutate(r) PROVE WalkRead'
    BY <1>1, <2>2 DEF mutate
  <2>3. QED
    BY <1>7, <2>1, <2>2, CallIs
<1>8. CASE kvdb_open \/ kvdb_close \/ Grow
  <2>1. pc' \notin {"full", "finish"}
    BY <1>8, ClosedIs DEF kvdb_open, kvdb_close, Grow, callVars, phase
  <2>2. QED
    BY <1>1, <2>1
<1>9. CASE IndexUpdated \/ LookupReturns \/ MutateRejects \/ MutateAppends \/ MutateFails
  BY <1>2, <1>3, <1>9 DEF IndexUpdated, LookupReturns, MutateRejects, MutateAppends, MutateFails
<1>10. QED
  BY <1>4, <1>5, <1>6, <1>7, <1>8, <1>9 DEF Next

LEMMA RequestedNext ==
  ASSUME RInv, [Next]_vars, pc' = "index"
  PROVE  req' \in S!Requests
<1>1. ASSUME NEW r, NEW rc, NEW got, Return(r, rc, got) PROVE FALSE
  BY <1>1 DEF Return
<1>2. ASSUME NEW o, WalkTo(o) PROVE FALSE
  BY <1>2 DEF WalkTo
<1>3. CASE Call
  <2>1. ASSUME NEW k \in KeyBytes, NEW want \in BOOLEAN, kvdb_lookup(k, want) PROVE FALSE
    BY <1>1, <1>2, <2>1 DEF kvdb_lookup
  <2>2. ASSUME NEW r \in S!Requests, mutate(r) PROVE req' = r
    BY <2>2 DEF mutate
  <2>3. QED
    BY <1>3, <2>1, <2>2, CallIs
<1>4. CASE Grow \/ UNCHANGED vars
  <2>1. pc = "index" /\ req' = req
    BY <1>4 DEF Grow, vars, callVars
  <2>2. QED
    BY <2>1 DEF RInv, Ext
<1>5. CASE kvdb_open \/ kvdb_close
  BY <1>5 DEF kvdb_open, kvdb_close
<1>6. CASE ChainRead \/ ChainFull
  BY <1>1, <1>2, <1>6 DEF ChainRead, ChainFull
<1>7. CASE IndexUpdated \/ LookupReturns \/ MutateRejects \/ MutateAppends \/ MutateFails
  BY <1>1, <1>2, <1>7 DEF IndexUpdated, LookupReturns, MutateRejects, MutateAppends, MutateFails
<1>8. QED
  BY <1>3, <1>4, <1>5, <1>6, <1>7 DEF Next

(* Only a failed update moves drift, and it is an append.                    *)
LEMMA DriftNext ==
  ASSUME RInv, View', ReadsRecords', K!IInv', [Next]_vars
  PROVE  drift'.size + drift'.waste <= tries'
<1>1. drift.size + drift.waste <= tries /\ tries \in Nat /\ tries' \in Nat
  BY DEF RInv, Ext, Inv, K!IInv, K!Typed
<1>2. drift.size \in Int /\ drift.waste \in Int
  BY DEF RInv, S!IInv, S!TypeOK
<1>3. CASE drift' = drift /\ tries' = tries
  BY <1>1, <1>3
<1>4. CASE kvdb_open \/ kvdb_close
  <2>1. S!Fresh
    BY <1>4, OpenIs, CloseIs DEF S!kvdb_open, S!kvdb_close
  <2>2. drift' = [size |-> 0, waste |-> 0]
    BY <2>1 DEF S!Fresh
  <2>3. QED
    BY <1>1, <2>2
<1>5. CASE Call
  <2>1. ASSUME NEW k \in KeyBytes, NEW want \in BOOLEAN, kvdb_lookup(k, want)
        PROVE  drift' = drift /\ tries' = tries
    BY <2>1, LookupIs DEF S!kvdb_lookup, kvdb_lookup, RawIdle, rawVars
  <2>2. ASSUME NEW r \in S!Requests, mutate(r)
        PROVE  drift' = drift /\ tries' = tries
    BY <2>2, RequestIs, MutateIs DEF S!vars, mutate, RawIdle, rawVars
  <2>3. QED
    BY <1>3, <1>5, <2>1, <2>2, CallIs
<1>6. CASE IndexUpdated
  BY <1>3, <1>6, UpdatedIs DEF S!mutate, IndexUpdated, RawIdle, rawVars
<1>7. CASE Grow
  BY <1>3, <1>7, GrowIs DEF S!vars, Grow, RawIdle, rawVars
<1>8. CASE ChainRead \/ ChainFull
  <2>1. drift' = drift
    BY <1>8, ChainReadIs, ChainFullIs DEF S!ChainRead, S!ChainFull
  <2>2. tries' = tries
    <3>1. CASE ChainRead
      BY <3>1 DEF ChainRead, R!kvraw_lookup
    <3>2. CASE ChainFull
      BY <3>2 DEF ChainFull, R!kvraw_lookup
    <3>3. QED
      BY <1>8, <3>1, <3>2
  <2>3. QED
    BY <1>3, <2>1, <2>2
<1>9. CASE LookupReturns \/ MutateRejects
  <2>1. drift' = drift
    BY <1>9, LookupReturnsIs, MutateRejectsIs DEF S!LookupReturns, S!MutateRejects
  <2>2. QED
    BY <1>3, <1>9, <2>1 DEF LookupReturns, MutateRejects, RawIdle, rawVars
<1>10. CASE MutateAppends
  <2>1. drift' = drift /\ tries' = tries + 1
    BY <1>10, AppendIs DEF S!MutateAppends, MutateAppends
  <2>2. QED
    BY <1>1, <1>2, <2>1
<1>11. CASE MutateFails
  <2>1. S!MutateFails /\ tries' = tries + 1
    BY <1>11, FailIs DEF MutateFails
  <2>2. CASE drift' = drift
    BY <1>1, <1>2, <2>1, <2>2
  <2>3. CASE drift' = [size  |-> drift.size + S!SizeStep("update"),
                       waste |-> drift.waste + S!WasteStep("update")]
    <3>1. \/ S!SizeStep("update") = 0 /\ S!WasteStep("update") = 1
          \/ S!SizeStep("update") = 1 /\ S!WasteStep("update") = 0
      BY DEF S!SizeStep, S!WasteStep
    <3>2. /\ drift'.size = drift.size + S!SizeStep("update")
          /\ drift'.waste = drift.waste + S!WasteStep("update")
      BY <2>3
    <3>3. QED
      BY <1>1, <1>2, <2>1, <3>1, <3>2
  <2>4. QED
    BY <2>1, <2>2, <2>3 DEF S!MutateFails
<1>12. CASE UNCHANGED vars
  <2>1. UNCHANGED <<acked, tab, items, waste, tries>>
    BY <1>12 DEF vars, rawVars, indexVars, callVars
  <2>2. drift' = drift
    BY <2>1, RInvBase, ViewHolds, SameView
  <2>3. QED
    BY <1>3, <2>1, <2>2
<1>13. QED
  BY <1>4, <1>5, <1>6, <1>7, <1>8, <1>9, <1>10, <1>11, <1>12 DEF Next

LEMMA ExtNext ==
  ASSUME RInv, View', ReadsRecords', K!IInv', Ordered', Len(acked') <= tries' + 1, [Next]_vars
  PROVE  Ext'
  BY RequestedNext, WalkReadNext, DriftNext DEF Ext

LEMMA ViewInit ==
  ASSUME Init
  PROVE  S!Init /\ Ext
<1>1. Inv /\ acked = <<>> /\ tries = 0 /\ torn = FALSE /\ tab = P!NoTable
  BY InvInit, IndexTerms DEF Init, R!Init, I!Init
<1>2. Ordered /\ Len(acked) <= tries + 1
  BY <1>1, EmptySeq DEF Ordered
<1>3. View
  BY <1>1, <1>2, ViewHolds DEF Base, Inv, Joined
<1>4. EmptyHandle
  BY <1>1 DEF EmptyHandle, Size, Init
<1>5. EmptyStore
  BY <1>3, <1>4, EmptyIs
<1>6. phase = "closed" /\ running = S!NoRequest /\ res = S!NoReply
  BY Replies DEF Init, phase, running
<1>7. S!Init
  BY <1>1, <1>5, <1>6 DEF S!Init, EmptyStore, Init
<1>8. Ext
  BY <1>1, <1>2, <1>5 DEF Ext, WalkRead, Init, EmptyStore
<1>9. QED
  BY <1>7, <1>8

LEMMA RInvInit == Init => RInv
  BY ViewInit, InvInit, S!InvInit, StoreAssumes DEF RInv

LEMMA RInvStep ==
  RInv /\ [Next]_vars => RInv' /\ [S!Next]_(S!vars)
<1>1. RInv /\ [Next]_vars => Inv' /\ Ordered' /\ Len(acked') <= tries' + 1
  BY InvNext, StepsOfParts, LogGrows DEF RInv, Ext, Inv
<1>2. Inv' /\ Ordered' => Base'
  BY DEF Base, Inv, Joined
<1>3. Base' => View' /\ ReadsRecords'
  BY ViewHolds, ReadsHold, PTL
<1>4. RInv /\ [Next]_vars => Inv' /\ Ext' /\ [S!Next]_(S!vars)
  BY <1>1, <1>2, <1>3, ExtNext, StepIs DEF Inv
<1>5. S!IInv /\ [S!Next]_(S!vars) => S!IInv'
  BY S!InvNext, StoreAssumes
<1>6. QED
  BY <1>4, <1>5 DEF RInv

-----------------------------------------------------------------------------
(* Theorem: kvdb.c over the bytes of kvraw.c and the hash table of index.c   *)
(* does what KVDB says of records and a map, whatever is rehashed between    *)
(* two steps of a call. So whatever is proved of KVDB holds of the three     *)
(* files together.                                                           *)
THEOREM ImplementsStore == Spec => ImplementsKVDB
<1>1. Init => RInv /\ DB!Init
  BY RInvInit, ViewInit, SameInstance
<1>2. RInv /\ [Next]_vars => RInv' /\ [DB!Next]_(DB!vars)
  BY RInvStep, SameInstance DEF DB!vars, S!vars
<1>3. QED
  BY <1>1, <1>2, PTL DEF Spec, ImplementsKVDB, DB!Spec

(* Theorem: the bytes of the log and the slots of the table implement the    *)
(* map of KVMap: each call takes effect once, when it returns, with the      *)
(* reply that the map gives. (kvdb.h:24-57 against kvdb.c, kvraw.c, index.c) *)
THEOREM BytesImplementMap == Spec => S!ImplementsMap
<1>1. Init => RInv /\ S!Init
  BY RInvInit, ViewInit
<1>2. RInv /\ [Next]_vars => RInv' /\ [S!Next]_(S!vars)
  BY RInvStep
<1>3. Spec => S!Spec
  BY <1>1, <1>2, PTL DEF Spec, S!Spec
<1>4. QED
  BY <1>3, S!Refinement, StoreAssumes
=============================================================================
