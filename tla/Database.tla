------------------------------ MODULE Database ------------------------------
(***************************************************************************)
(* kvdb.c on top of kvraw.c and index.c as they are: the chain walk reads  *)
(* records out of the bytes of KVRaw, and finds and moves the chains' heads *)
(* through the hash table of Index, which may be rehashed within a call.   *)
(*                                                                         *)
(* KVDB says what this is in terms of records and of a map; here it is     *)
(* shown to be that. "mutate" is cut where its code is: index_update, the  *)
(* reads of chain_lookup, and the append through the pointer "ref".        *)
(***************************************************************************)
EXTENDS Integers, Sequences, FiniteSets

CONSTANTS
  KeyBytes, ValBytes, Junk, MaxAppends,           \* of KVRaw
  WORD, KEY_LENS, VAL_LENS, Capacity,             \* of KVRaw
  Code, Width, Slack, LoadNum, LoadDen, Offset,   \* of Index
  HashOf,  \* [KeyBytes -> Code]: hash() of index.c
  PTR,     \* sizeof (key_) in chain_lookup (8)
  BUF,     \* sizeof (buf) in chain_lookup (256)
  ROOM     \* room in a caller's buffer, enough for any value

ASSUME DatabaseAssumption ==
  /\ KeyBytes \subseteq Seq(Nat) \ {<<>>} /\ IsFiniteSet(KeyBytes)
  /\ ValBytes \subseteq Seq(Nat) /\ <<>> \in ValBytes
  /\ \A k \in KeyBytes : Len(k) < KEY_LENS
  /\ \A v \in ValBytes : Len(v) < VAL_LENS
  /\ WORD \in Nat /\ KEY_LENS \in Nat \ {0, 1} /\ VAL_LENS \in Nat \ {0, 1}
  /\ Capacity \in Nat /\ Capacity + 5 + KEY_LENS + VAL_LENS <= WORD
  /\ Junk \subseteq 0 .. WORD - 1 /\ Junk # {} /\ MaxAppends \in Nat
  /\ Width \in Nat \ {0, 1} /\ Code \subseteq 0 .. Width - 1 /\ Slack \in Nat \ {0}
  /\ LoadNum \in Nat /\ LoadDen \in Nat /\ 0 < LoadNum /\ LoadNum < LoadDen
  /\ HashOf \in [KeyBytes -> Code]
  /\ PTR \in Nat \ {0} /\ BUF \in Nat /\ PTR <= BUF
  /\ ROOM \in Nat /\ \A v \in ValBytes : Len(v) <= ROOM

VARIABLES
  isOpen, disk, size, torn, acked, tries, reply,  \* of KVRaw
  ipc, tab, new, i, arg, ref,                     \* of Index
  pc,           \* where the running call is
  items, waste, \* kvdb->size, kvdb->waste
  req,          \* the arguments of the running call
  off,          \* (*off) in chain_lookup
  val_len,      \* val_len_ after the walk: the length of the value found
  buf,          \* the caller's buffer
  res           \* the reply of the last call

rawVars == <<isOpen, disk, size, torn, acked, tries, reply>>
indexVars == <<ipc, tab, new, i, arg, ref>>
callVars == <<pc, items, waste, req, off, val_len, buf, res>>
vars == <<rawVars, indexVars, callVars>>

R == INSTANCE KVRaw WITH KeyRooms <- Nat, ValRooms <- Nat, Past <- Nat
I == INSTANCE Index WITH pc <- ipc

None == <<>>
Request(op, k, v, want) == [op |-> op, key |-> k, val |-> v, want |-> want]
Reply(op, k, rc, got) == [op |-> op, key |-> k, rc |-> rc, got |-> got]
NoReply == Reply("none", None, 0, None)
NoRequest == Request("none", None, None, FALSE)

Init ==
  /\ R!Init /\ I!Init
  /\ pc = "closed" /\ items = 0 /\ waste = 0 /\ req = NoRequest
  /\ off = 0 /\ val_len = 0 /\ buf = None /\ res = NoReply

Fresh ==
  /\ items' = 0 /\ waste' = 0 /\ req' = NoRequest
  /\ off' = 0 /\ val_len' = 0 /\ buf' = None

kvdb_open ==
  /\ pc = "closed"
  /\ \/ R!kvraw_open /\ I!index_open /\ pc' = "idle" /\ res' = Reply("open", None, 0, None)
     \/ UNCHANGED <<rawVars, indexVars, pc>> /\ res' = Reply("open", None, -1, None)
  /\ Fresh

kvdb_close ==
  /\ pc = "idle" /\ R!kvraw_close /\ I!index_close
  /\ pc' = "closed" /\ res' = Reply("close", None, 0, None)
  /\ Fresh

Return(r, rc, got) ==
  /\ pc' = "idle" /\ req' = NoRequest /\ off' = 0 /\ val_len' = 0 /\ buf' = None
  /\ res' = Reply(r.op, r.key, rc, got)

WalkTo(o) == off' = o /\ pc' = IF o = 0 THEN "finish" ELSE "chain"
Counters == UNCHANGED <<items, waste>>
\* A step that calls nothing of kvraw.c.
RawIdle == UNCHANGED rawVars

-----------------------------------------------------------------------------
\* The cell of a hash code, 0 if it has none.
Cell(t, code) ==
  LET j == I!lookup(t, I!KeyOf(code)) IN IF j = I!NoRef THEN 0 ELSE t.maps[j].off

kvdb_lookup(k, want) ==
  LET r == Request("lookup", k, None, want)
      o == Cell(tab, HashOf[k])
  IN /\ pc = "idle"
     /\ \/ o = 0 /\ Return(r, 1, None)
        \/ o # 0 /\ WalkTo(o) /\ req' = r /\ res' = NoReply /\ UNCHANGED <<val_len, buf>>
     /\ Counters /\ RawIdle /\ UNCHANGED indexVars

\* mutate begins: index_update, whose rehash takes its own steps.
mutate(r) ==
  /\ pc = "idle" /\ ~torn /\ tries < MaxAppends
  /\ I!index_update(HashOf[r.key])
  /\ pc' = "index" /\ req' = r
  /\ Counters /\ RawIdle /\ UNCHANGED <<off, val_len, buf, res>>

Grow == pc = "index" /\ (I!Rehash \/ I!GrowEnds) /\ RawIdle /\ UNCHANGED callVars

\* "off = (*ref)".
IndexUpdated ==
  /\ pc = "index" /\ ipc = "idle"
  /\ IF ref = I!NoRef
     THEN Return(req, -1, None)
     ELSE WalkTo(tab.maps[ref].off) /\ res' = NoReply /\ UNCHANGED <<req, val_len, buf>>
  /\ Counters /\ RawIdle /\ UNCHANGED indexVars

-----------------------------------------------------------------------------
Least(a, b) == IF a <= b THEN a ELSE b

\* The record read is not the key's: another length, or other first bytes.
Differs(k) ==
  LET n == Least(Len(k), PTR)
  IN reply'.key_len # Len(k) \/ SubSeq(reply'.key, 1, n) # SubSeq(k, 1, n)

\* The speculative read.
ChainRead ==
  LET room == IF req.want THEN ROOM ELSE 0
  IN /\ pc = "chain"
     /\ R!kvraw_lookup(off, Least(Len(req.key), BUF), room)
     /\ IF reply'.rc # "ok" THEN Return(req, -1, None)
        ELSE /\ buf' = IF reply'.val # None THEN reply'.val ELSE buf
             /\ IF Differs(req.key)
                THEN WalkTo(reply'.off) /\ UNCHANGED val_len
                ELSE /\ pc' = IF Len(req.key) > PTR THEN "full" ELSE "finish"
                     /\ val_len' = reply'.val_len /\ UNCHANGED off
             /\ UNCHANGED <<req, res>>
     /\ Counters /\ UNCHANGED indexVars

\* The read of a long key, without its value. Before it, malloc may fail.
ChainFull ==
  /\ pc = "full"
  /\ \/ R!kvraw_lookup(off, Len(req.key), 0)
     \/ reply' = [rc |-> "io", at |-> off] /\ UNCHANGED <<isOpen, disk, size, torn, acked, tries>>
  /\ IF reply'.rc # "ok" THEN Return(req, -1, None)
     ELSE /\ IF reply'.key = req.key
             THEN pc' = "finish" /\ val_len' = reply'.val_len /\ UNCHANGED off
             ELSE WalkTo(reply'.off) /\ UNCHANGED val_len
          /\ UNCHANGED <<req, res, buf>>
  /\ Counters /\ UNCHANGED indexVars

Found == off # 0 /\ val_len # 0

LookupReturns ==
  /\ pc = "finish" /\ req.op = "lookup"
  /\ IF Found THEN Return(req, 0, buf) ELSE Return(req, 1, None)
  /\ Counters /\ RawIdle /\ UNCHANGED indexVars

Admits(op) ==
  CASE op = "insert" -> ~Found
    [] op = "update" -> TRUE
    [] OTHER         -> Found

MutateRejects ==
  /\ pc = "finish" /\ req.op # "lookup" /\ ~Admits(req.op)
  /\ Return(req, 1, None)
  /\ Counters /\ RawIdle /\ UNCHANGED indexVars

SizeStep(op) ==
  CASE op = "remove" -> -1
    [] op = "insert" -> 1
    [] op = "update" -> IF Found THEN 0 ELSE 1
    [] OTHER         -> 0
WasteStep == IF Found THEN 1 ELSE 0
Count(op) == items' = items + SizeStep(op) /\ waste' = waste + WasteStep

\* Mutant: the record links to the head of the walk's end, not of its chain.
LinkOf_WalkEnd == off
\* kvraw_append reads its link through the pointer.
LinkOf == tab.maps[ref].off

\* The record goes to the log and its offset through the pointer.
MutateAppends ==
  /\ pc = "finish" /\ req.op # "lookup" /\ Admits(req.op)
  /\ R!AppendEnds(LinkOf, req.key, req.val) /\ tries' = tries + 1
  /\ reply' = R!NoReply /\ UNCHANGED isOpen
  /\ I!Store(size)
  /\ Count(req.op)
  /\ Return(req, 0, IF req.op = "remove" THEN buf ELSE None)

MutateFails ==
  /\ pc = "finish" /\ req.op # "lookup" /\ Admits(req.op)
  /\ R!AppendFails(LinkOf, req.key, req.val) /\ tries' = tries + 1
  /\ reply' = R!NoReply /\ UNCHANGED isOpen
  /\ UNCHANGED indexVars
  /\ IF req.op = "update" THEN Count("update") ELSE Counters
  /\ Return(req, -1, None)

Call ==
  \E k \in KeyBytes :
    \/ \E want \in BOOLEAN :
         kvdb_lookup(k, want) \/ mutate(Request("remove", k, None, want))
    \/ \E op \in {"insert", "update", "replace"}, v \in ValBytes \ {None} :
         mutate(Request(op, k, v, FALSE))

Next ==
  \/ kvdb_open \/ kvdb_close \/ Call
  \/ Grow \/ IndexUpdated \/ ChainRead \/ ChainFull
  \/ LookupReturns \/ MutateRejects \/ MutateAppends \/ MutateFails

Spec == Init /\ [][Next]_vars

-----------------------------------------------------------------------------
(***************************************************************************)
(* Properties.                                                             *)
(***************************************************************************)
\* The pointer that index_update gave a call that writes is, until its append
\* goes through it, to the cell of its own key, which still has the offset
\* its walk began with: a rehash in between has moved neither from under it
\* (kvdb.c:119-123 and the four calls of kvraw_append).
RefIsCurrent ==
  pc \in {"chain", "full", "finish"} /\ req.op # "lookup" =>
    /\ ref \in I!Slots(tab) /\ tab.maps[ref].key = I!KeyOf(HashOf[req.key])
    /\ off <= tab.maps[ref].off

(* The database over bytes and hash table implements KVDB: the records of    *)
(* KVDB's log are those the bytes hold where kvraw_append said it put them,  *)
(* a byte offset is the position of the record there, and the map is what    *)
(* lookups in the table find. The codes 0 and 1, which index.c takes for one *)
(* another, have one chain. (kvdb.c, kvraw.c, index.c)                       *)
Position(o) ==
  LET at == {p \in 2 .. Len(acked) : acked[p].at = o}
  IN IF o = 0 THEN 0 ELSE IF at = {} THEN Len(acked) ELSE (CHOOSE p \in at : TRUE) - 1
Record(p) ==
  LET d == R!Decoded(acked[p + 1].at)
  IN [off |-> Position(d.off), key |-> d.key, val |-> d.val]
log == [p \in 1 .. (IF acked = <<>> THEN 0 ELSE Len(acked) - 1) |-> Record(p)]
Newest(of) == IF of = {} THEN 0 ELSE CHOOSE p \in of : \A r \in of : r <= p
last ==
  LET recs == log
  IN [k \in KeyBytes |-> Newest({p \in DOMAIN recs : recs[p].key = k})]
drift ==
  LET recs == log
      newest == last
      live == {k \in KeyBytes : newest[k] # 0 /\ recs[newest[k]].val # None}
      dead == {p \in DOMAIN recs : recs[p].val # None /\ newest[recs[p].key] # p}
  IN [size |-> items - Cardinality(live), waste |-> waste - Cardinality(dead)]

phase == IF pc = "index" THEN "idle" ELSE pc
running == IF pc = "index" THEN NoRequest ELSE req
index == [h \in I!Keys |-> Position(I!cells[h])]
place == Position(off)

Values == ValBytes \ {None}
Chain == [k \in KeyBytes |-> I!KeyOf(HashOf[k])]
Start == [k \in KeyBytes |-> <<Len(k), SubSeq(k, 1, Least(Len(k), PTR))>>]
Long == {k \in KeyBytes : Len(k) > PTR}

DB == INSTANCE KVDB WITH
        Key <- KeyBytes, Val <- Values, HashCode <- I!Keys,
        Hash <- Chain, Prefix <- Start, LongKey <- Long,
        MaxLog <- MaxAppends, MaxDrift <- MaxAppends,
        pc <- phase, req <- running, size <- items, off <- place
ImplementsKVDB == DB!Spec
=============================================================================
