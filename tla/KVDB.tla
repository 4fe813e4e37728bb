-------------------------------- MODULE KVDB --------------------------------
(***************************************************************************)
(* kvdb.c over kvraw.c and index.c: a log of records, one chain of records *)
(* per hash code, and the walk along a chain that decides every call.      *)
(*                                                                         *)
(* The unit of the log is the record: position p >= 1 stands for the byte  *)
(* offset of the p-th record after the sentinel that kvraw_open writes at  *)
(* offset 0, so 0 ends a chain here as in the code. KVRaw relates records  *)
(* to bytes, Index relates the map "index" to the hash table.              *)
(*                                                                         *)
(* Every kvraw_lookup of the walk is a step of its own: each may fail. The *)
(* handle has one user at a time, as the code requires (no lock).          *)
(***************************************************************************)
EXTENDS Integers, Sequences, FiniteSets

CONSTANTS
  Key, Val, None,
  HashCode,   \* what hash() returns
  Hash,       \* [Key -> HashCode]; keys may collide
  Prefix,     \* [Key -> S]: the length of a key and its first 8 bytes
  LongKey,    \* keys longer than 8 bytes, sizeof (key_) in chain_lookup
  MaxLog,     \* bound: records appended to one handle
  MaxDrift    \* bound: kvdb_update calls whose append failed

ASSUME KVDBAssumption ==
  /\ None \notin Key \union Val
  /\ IsFiniteSet(Key)
  /\ Hash \in [Key -> HashCode]
  /\ LongKey \subseteq Key
  /\ \A j, k \in Key : (Prefix[j] = Prefix[k] /\ k \notin LongKey) => j = k
  /\ MaxLog \in Nat /\ MaxDrift \in Nat

VARIABLES
  pc,     \* where the running call is: see TypeOK
  log,    \* the records; val = None is a record of value length 0
  index,  \* hash code -> position of its newest record, 0 when there is none
  size,   \* kvdb->size
  waste,  \* kvdb->waste
  req,    \* the arguments of the running call
  off,    \* (*off) in chain_lookup: the record the walk is at
  buf,    \* the caller's value buffer, None when it was never written
  res,    \* the reply of the last call, NoReply while a call runs
  torn,   \* an append failed after part of its bytes reached the log
  last,   \* history: position of the newest record of each key, or 0
  drift   \* history: kvdb_update calls that moved a counter and then failed

vars == <<pc, log, index, size, waste, req, off, buf, res, torn, last, drift>>

Writers == {"insert", "update", "replace"}
Readers == {"remove", "lookup"}
Request(op, k, v, want) == [op |-> op, key |-> k, val |-> v, want |-> want]
Reply(op, k, rc, got) == [op |-> op, key |-> k, rc |-> rc, got |-> got]
NoReply == Reply("none", None, 0, None)
NoRequest == Request("none", None, None, FALSE)

Pos == 1 .. Len(log)

(***************************************************************************)
(* The type invariant. (kvdb.c:19-24, kvraw.c:18-21, index.c:14-21)        *)
(***************************************************************************)
Record == [off : Nat, key : Key, val : Val \union {None}]
Requests ==
  [op : Writers, key : Key, val : Val, want : {FALSE}]
    \union [op : Readers, key : Key, val : {None}, want : BOOLEAN]
ReplyType ==
  [op : Writers \union Readers \union {"none", "open", "close"},
   key : Key \union {None}, rc : {-1, 0, 1}, got : Val \union {None}]

TypeOK ==
  /\ pc \in {"closed", "idle", "chain", "full", "finish"}
  /\ log \in Seq(Record)
  /\ index \in [HashCode -> Nat]
  /\ size \in Int /\ waste \in Int
  /\ pc \in {"chain", "full", "finish"} => req \in Requests
  /\ pc \in {"closed", "idle"} => req = NoRequest
  /\ off \in Nat /\ (pc = "full" => off \in Pos)
  /\ buf \in Val \union {None}
  /\ res \in ReplyType
  /\ torn \in BOOLEAN
  /\ last \in [Key -> Nat]
  /\ drift \in [size : Nat, waste : Nat]

-----------------------------------------------------------------------------
Init ==
  /\ pc = "closed"
  /\ log = <<>> /\ index = [h \in HashCode |-> 0] /\ size = 0 /\ waste = 0
  /\ req = NoRequest /\ off = 0 /\ buf = None /\ torn = FALSE
  /\ res = NoReply
  /\ last = [k \in Key |-> 0] /\ drift = [size |-> 0, waste |-> 0]

\* kvdb_open and kvdb_close leave no record and no index entry behind.
Fresh ==
  /\ log' = <<>> /\ index' = [h \in HashCode |-> 0] /\ size' = 0 /\ waste' = 0
  /\ req' = NoRequest /\ off' = 0 /\ buf' = None /\ torn' = FALSE
  /\ last' = [k \in Key |-> 0] /\ drift' = [size |-> 0, waste |-> 0]

\* Either malloc, logfs_open, the sentinel's append or index_open may fail.
kvdb_open ==
  /\ pc = "closed"
  /\ \/ pc' = "idle" /\ res' = Reply("open", None, 0, None)
     \/ pc' = "closed" /\ res' = Reply("open", None, -1, None)
  /\ Fresh

kvdb_close ==
  /\ pc = "idle"
  /\ pc' = "closed" /\ res' = Reply("close", None, 0, None)
  /\ Fresh

-----------------------------------------------------------------------------
\* The running call (its request is r) returns rc and the value got; its
\* locals are gone and the buffer is the caller's again.
Return(r, rc, got) ==
  /\ pc' = "idle" /\ req' = NoRequest /\ off' = 0 /\ buf' = None
  /\ res' = Reply(r.op, r.key, rc, got)

\* Mutant: the walk does not advance (no "(*off) = off_").
WalkTo_Stays(p) == off' = (IF off = 0 THEN p ELSE off) /\ pc' = IF off' = 0 THEN "finish" ELSE "chain"

\* The walk moves to position p, or is over when the chain is.
WalkTo(p) == off' = p /\ pc' = IF p = 0 THEN "finish" ELSE "chain"

\* kvdb_lookup: index_lookup, which also reports a slot that holds offset 0.
kvdb_lookup(k, want) ==
  LET r == Request("lookup", k, None, want)
      ref == index[Hash[k]]
  IN /\ pc = "idle"
     /\ \/ ref = 0 /\ Return(r, 1, None)
        \/ ref # 0 /\ WalkTo(ref) /\ req' = r /\ res' = NoReply /\ UNCHANGED buf
     /\ UNCHANGED <<log, index, size, waste, torn, last, drift>>

\* mutate: index_update, which fails when the table cannot grow. No writer is
\* called again on a handle whose log is torn: KVRaw shows what that would do.
mutate(r) ==
  /\ pc = "idle" /\ ~torn
  /\ Len(log) < MaxLog
  /\ \/ Return(r, -1, None)
     \/ WalkTo(index[Hash[r.key]]) /\ req' = r /\ res' = NoReply /\ UNCHANGED buf
  /\ UNCHANGED <<log, index, size, waste, torn, last, drift>>

kvdb_insert(k, v) == mutate(Request("insert", k, v, FALSE))
kvdb_update(k, v) == mutate(Request("update", k, v, FALSE))
kvdb_replace(k, v) == mutate(Request("replace", k, v, FALSE))
kvdb_remove(k, want) == mutate(Request("remove", k, None, want))

-----------------------------------------------------------------------------
\* Mutant: a long key is read again at the next record (no "off_ = (*off)").
ChainRead_MovesOn ==
  /\ pc = "chain"
  /\ \/ Return(req, -1, None)
     \/ /\ off \in Pos
        /\ buf' = IF req.want /\ log[off].val # None THEN log[off].val ELSE buf
        /\ \/ /\ Prefix[log[off].key] # Prefix[req.key]
              /\ WalkTo(log[off].off)
           \/ /\ Prefix[log[off].key] = Prefix[req.key] /\ req.key \in LongKey
              /\ pc' = "full" /\ off' = log[off].off
           \/ /\ Prefix[log[off].key] = Prefix[req.key] /\ req.key \notin LongKey
              /\ pc' = "finish" /\ UNCHANGED off
        /\ UNCHANGED <<req, res>>
  /\ UNCHANGED <<log, index, size, waste, torn, last, drift>>

\* chain_lookup's speculative kvraw_lookup: the first 8 bytes of the key and,
\* into the caller's buffer, the value of a record that may not be the one.
\* read_meta refuses a position outside the log.
ChainRead ==
  /\ pc = "chain"
  /\ \/ Return(req, -1, None)
     \/ /\ off \in Pos
        /\ buf' = IF req.want /\ log[off].val # None THEN log[off].val ELSE buf
        /\ \/ /\ Prefix[log[off].key] # Prefix[req.key]
              /\ WalkTo(log[off].off)
           \/ /\ Prefix[log[off].key] = Prefix[req.key]
              /\ pc' = IF req.key \in LongKey THEN "full" ELSE "finish"
              /\ UNCHANGED off
        /\ UNCHANGED <<req, res>>
  /\ UNCHANGED <<log, index, size, waste, torn, last, drift>>

\* Mutant: a long key whose first bytes agree is taken for the key.
ChainFull_TrustsPrefix ==
  /\ pc = "full"
  /\ pc' = "finish"
  /\ UNCHANGED <<off, buf, req, res, log, index, size, waste, torn, last, drift>>

\* chain_lookup for a long key: read the record again with the whole key.
\* The malloc and the read may fail; the value is not read again.
ChainFull ==
  /\ pc = "full"
  /\ \/ Return(req, -1, None)
     \/ /\ log[off].key = req.key
        /\ pc' = "finish"
        /\ UNCHANGED <<off, buf, req, res>>
     \/ /\ log[off].key # req.key
        /\ WalkTo(log[off].off)
        /\ UNCHANGED <<buf, req, res>>
  /\ UNCHANGED <<log, index, size, waste, torn, last, drift>>

\* Mutant: a tombstone counts as a value.
Found_Tombstone == off # 0

\* "off && val_len_" after the walk: a record of the key, and not a tombstone.
Found == off # 0 /\ log[off].val # None

LookupReturns ==
  /\ pc = "finish" /\ req.op = "lookup"
  /\ IF Found THEN Return(req, 0, buf) ELSE Return(req, 1, None)
  /\ UNCHANGED <<log, index, size, waste, torn, last, drift>>

\* What each mode requires of the key before it appends.
Admits(op) ==
  CASE op = "insert" -> ~Found
    [] op = "update" -> TRUE
    [] OTHER         -> Found

MutateRejects ==
  /\ pc = "finish" /\ req.op # "lookup" /\ ~Admits(req.op)
  /\ Return(req, 1, None)
  /\ UNCHANGED <<log, index, size, waste, torn, last, drift>>

\* The counters each mode moves when the append succeeds.
SizeStep(op) ==
  CASE op = "remove" -> -1
    [] op = "insert" -> 1
    [] op = "update" -> IF Found THEN 0 ELSE 1
    [] OTHER         -> 0

\* Mutant: the value a removal drops is not counted as waste.
WasteStep_NotRemoved(op) == IF Found /\ op # "remove" THEN 1 ELSE 0
WasteStep(op) == IF Found THEN 1 ELSE 0

\* Mutant: the reference is overwritten before it is saved in the record.
kvraw_append_LateLink(k, v) ==
  LET p == Len(log) + 1
  IN /\ log' = Append(log, [off |-> 0, key |-> k, val |-> v])
     /\ index' = [index EXCEPT ![Hash[k]] = p]
     /\ last' = [last EXCEPT ![k] = p]

\* kvraw_append(..., ref): the new record points to what the index pointed to
\* and the index points to the new record.
kvraw_append(k, v) ==
  LET p == Len(log) + 1
  IN /\ log' = Append(log, [off |-> index[Hash[k]], key |-> k, val |-> v])
     /\ index' = [index EXCEPT ![Hash[k]] = p]
     /\ last' = [last EXCEPT ![k] = p]

MutateAppends ==
  /\ pc = "finish" /\ req.op # "lookup" /\ Admits(req.op)
  /\ kvraw_append(req.key, req.val)
  /\ size' = size + SizeStep(req.op)
  /\ waste' = waste + WasteStep(req.op)
  /\ Return(req, 0, IF req.op = "remove" THEN buf ELSE None)
  /\ UNCHANGED <<torn, drift>>

\* The append fails, before or after part of the record is in the log. Update
\* has moved its counter by then; the other modes have not.
MutateFails ==
  /\ pc = "finish" /\ req.op # "lookup" /\ Admits(req.op)
  /\ req.op = "update" => drift.size + drift.waste < MaxDrift
  /\ torn' \in BOOLEAN
  /\ IF req.op = "update"
       THEN /\ size' = size + SizeStep("update")
            /\ waste' = waste + WasteStep("update")
            /\ drift' = [size  |-> drift.size + SizeStep("update"),
                         waste |-> drift.waste + WasteStep("update")]
       ELSE UNCHANGED <<size, waste, drift>>
  /\ Return(req, -1, None)
  /\ UNCHANGED <<log, index, last>>

-----------------------------------------------------------------------------
Call ==
  \E k \in Key :
    \/ \E want \in BOOLEAN : kvdb_lookup(k, want) \/ kvdb_remove(k, want)
    \/ \E v \in Val : kvdb_insert(k, v) \/ kvdb_update(k, v) \/ kvdb_replace(k, v)

Step ==
  ChainRead \/ ChainFull \/ LookupReturns
    \/ MutateRejects \/ MutateAppends \/ MutateFails

Next == kvdb_open \/ kvdb_close \/ Call \/ Step

Spec == Init /\ [][Next]_vars

\* The program runs a call to its end once it is made. No failure is owed to
\* it: a step that makes the call return -1 does not count as progress.
Progress == Step /\ res'.rc # -1
FairSpec == Spec /\ WF_vars(Progress)

-----------------------------------------------------------------------------
(***************************************************************************)
(* Properties.                                                             *)
(***************************************************************************)

WithHash(h) == {p \in Pos : Hash[log[p].key] = h}
WithKey(k) == {p \in Pos : log[p].key = k}

\* q is the greatest element of S below p, or 0 when there is none.
IsNewest(q, p, S) ==
  /\ q \in S \union {0} /\ q < p
  /\ \A r \in S : r < p => r <= q

(* Chains: the index holds the newest record of each hash code and every     *)
(* record points to the next older one of its hash code. So no record is     *)
(* unreachable, chains never cross, and no walk leaves the log or reaches    *)
(* the sentinel. (kvraw.c:138-151 with the reference taken at kvdb.c:119)    *)
ChainsComplete ==
  /\ \A h \in HashCode : IsNewest(index[h], Len(log) + 1, WithHash(h))
  /\ \A p \in Pos : IsNewest(log[p].off, p, WithHash(Hash[log[p].key]))

(* Walk: at every step of a call no record of the key being looked for was   *)
(* passed over, and a walk that is over stands on the newest record of the   *)
(* key, or at 0 when there is none, even when other keys share its hash      *)
(* code and its first 8 bytes. (chain_lookup, kvdb.c:39-102)                 *)
WalkFindsNewest ==
  /\ pc \in {"chain", "full", "finish"} =>
       /\ off \in WithHash(Hash[req.key]) \union {0}
       /\ \A p \in WithKey(req.key) : p <= off
  /\ pc \in {"chain", "full"} => off # 0
  /\ pc = "finish" => off \in WithKey(req.key) \union {0}

LiveKeys == {k \in Key : last[k] # 0 /\ log[last[k]].val # None}
DeadRecords == {p \in Pos : log[p].val # None /\ last[log[p].key] # p}

(* Counters: kvdb_size is the number of keys that have a value and           *)
(* kvdb_waste the number of values no longer reachable, off by exactly the   *)
(* kvdb_update calls that failed to append. (kvdb.c:136-201)                 *)
CountersExact ==
  /\ size = Cardinality(LiveKeys) + drift.size
  /\ waste = Cardinality(DeadRecords) + drift.waste

(* The database's own test expects kvdb_size to be the number of keys after  *)
(* every call that succeeded. (main.c:101, main.c:158, main.c:260)           *)
SizeCountsKeys ==
  pc = "idle" /\ res.rc = 0 => size = Cardinality(LiveKeys)

(* Every call returns: a walk goes down its chain and ends.                  *)
(* (the while loop of chain_lookup, kvdb.c:39)                               *)
CallsReturn == (req # NoRequest) ~> (req = NoRequest)

(* The store implements the map of KVMap: each call takes effect once, when  *)
(* it returns, with the reply the map gives; a call that returns -1 leaves   *)
(* the map as it was. (kvdb.h:24-57)                                         *)
store == [k \in Key |-> IF last[k] = 0 THEN None ELSE log[last[k]].val]
Map == INSTANCE KVMap WITH isOpen <- pc # "closed"
ImplementsMap == Map!Spec
=============================================================================
