----------------------------- MODULE KVDBProofs -----------------------------
(***************************************************************************)
(* Proofs about KVDB, for every set of keys, values and hash codes, every  *)
(* hash function and every length of the log.                              *)
(***************************************************************************)
EXTENDS KVDB, TLAPS, FiniteSetTheorems, SequenceTheorems

(* What a step of each kind of action does to the type of the state.         *)
LEMMA ReturnType ==
  ASSUME NEW r \in Requests, NEW rc \in {-1, 0, 1}, NEW got \in Val \union {None},
         Return(r, rc, got)
  PROVE  /\ pc' = "idle" /\ req' = NoRequest /\ off' = 0 /\ buf' = None
         /\ res' \in ReplyType
  BY DEF Return, Requests, Reply, ReplyType

LEMMA FreshType ==
  ASSUME Fresh
  PROVE  /\ log' \in Seq(Record) /\ index' \in [HashCode -> Nat]
         /\ size' \in Int /\ waste' \in Int
         /\ req' = NoRequest /\ off' \in Nat /\ buf' \in Val \union {None}
         /\ torn' \in BOOLEAN /\ last' \in [Key -> Nat]
         /\ drift' \in [size : Nat, waste : Nat]
<1>1. log' \in Seq(Record)
  BY EmptySeq DEF Fresh
<1>2. torn' \in BOOLEAN
  BY DEF Fresh
<1>3. QED
  BY <1>1, <1>2 DEF Fresh

LEMMA RunningRequest ==
  ASSUME TypeOK, pc \in {"chain", "full", "finish"}
  PROVE  req \in Requests
  BY DEF TypeOK

LEMMA RecordAt ==
  ASSUME TypeOK, NEW p \in Pos
  PROVE  /\ log[p] \in Record /\ log[p].off \in Nat /\ log[p].key \in Key
         /\ log[p].val \in Val \union {None}
<1>1. log[p] \in Record
  BY ElementOfSeq DEF TypeOK, Pos
<1>2. QED
  BY <1>1 DEF Record

(* Every call is a lookup or a mutation with a well-formed request. *)
LEMMA CallCases ==
  ASSUME Call
  PROVE  \/ \E k \in Key, want \in BOOLEAN : kvdb_lookup(k, want)
         \/ \E r \in Requests : mutate(r) /\ r.op # "lookup"
<1>1. ASSUME NEW k \in Key, NEW want \in BOOLEAN, kvdb_remove(k, want)
      PROVE  \E r \in Requests : mutate(r) /\ r.op # "lookup"
  <2>1. Request("remove", k, None, want) \in Requests
    BY DEF Request, Requests, Readers
  <2>2. QED
    BY <1>1, <2>1 DEF kvdb_remove, Request
<1>2. ASSUME NEW k \in Key, NEW v \in Val,
             kvdb_insert(k, v) \/ kvdb_update(k, v) \/ kvdb_replace(k, v)
      PROVE  \E r \in Requests : mutate(r) /\ r.op # "lookup"
  <2>1. \A op \in Writers : Request(op, k, v, FALSE) \in Requests
    BY DEF Request, Requests
  <2>2. \A op \in Writers : Request(op, k, v, FALSE).op # "lookup"
    BY DEF Request, Writers
  <2>3. QED
    BY <1>2, <2>1, <2>2 DEF kvdb_insert, kvdb_update, kvdb_replace, Writers
<1>3. QED
  BY <1>1, <1>2 DEF Call

(* kvraw_append adds one record after the others and touches no old one. *)
LEMMA AppendFacts ==
  ASSUME TypeOK, NEW k \in Key, NEW v \in Val \union {None}, kvraw_append(k, v)
  PROVE  LET p == Len(log) + 1
         IN /\ log' \in Seq(Record) /\ Len(log) \in Nat /\ Len(log') = p
            /\ Pos' = Pos \union {p} /\ p \notin Pos /\ Pos = 1 .. Len(log)
            /\ \A q \in Pos : log'[q] = log[q]
            /\ log'[p] = [off |-> index[Hash[k]], key |-> k, val |-> v]
            /\ Hash[k] \in HashCode
            /\ index' \in [HashCode -> Nat] /\ last' \in [Key -> Nat]
            /\ index'[Hash[k]] = p /\ last'[k] = p
            /\ \A h \in HashCode : h # Hash[k] => index'[h] = index[h]
            /\ \A j \in Key : j # k => last'[j] = last[j]
<1> DEFINE p == Len(log) + 1
           rec == [off |-> index[Hash[k]], key |-> k, val |-> v]
<1>1. Hash[k] \in HashCode
  BY KVDBAssumption
<1>2. log \in Seq(Record) /\ rec \in Record
  BY <1>1 DEF TypeOK, Record
<1>3. /\ log' = Append(log, rec) /\ index' = [index EXCEPT ![Hash[k]] = p]
      /\ last' = [last EXCEPT ![k] = p]
  BY DEF kvraw_append
<1>4. /\ log' \in Seq(Record) /\ Len(log') = p /\ log'[p] = rec
      /\ \A q \in 1 .. Len(log) : log'[q] = log[q]
  BY <1>2, <1>3, AppendProperties
<1>5. Len(log) \in Nat /\ Pos = 1 .. Len(log) /\ Pos' = 1 .. p
  BY <1>2, <1>4, LenProperties DEF Pos
<1>6. Pos' = Pos \union {p} /\ p \notin Pos
  BY <1>5
<1>7. QED
  BY <1>1, <1>3, <1>4, <1>5, <1>6 DEF TypeOK

(* The type after the step that appends. *)
LEMMA MutateAppendsType ==
  ASSUME TypeOK, MutateAppends
  PROVE  TypeOK'
<1>1. req \in Requests /\ req.key \in Key /\ req.val \in Val \union {None}
  BY RunningRequest DEF MutateAppends, Requests
<1>2. kvraw_append(req.key, req.val)
  BY DEF MutateAppends
<1>3. size' \in Int /\ waste' \in Int
  BY DEF MutateAppends, TypeOK, SizeStep, WasteStep
<1>4. (IF req.op = "remove" THEN buf ELSE None) \in Val \union {None}
  BY DEF TypeOK
<1>5. QED
  <2>1. /\ pc' = "idle" /\ req' = NoRequest /\ off' = 0 /\ buf' = None
        /\ res' \in ReplyType
    BY <1>1, <1>4, ReturnType DEF MutateAppends
  <2>2. log' \in Seq(Record) /\ index' \in [HashCode -> Nat] /\ last' \in [Key -> Nat]
    BY <1>1, <1>2, AppendFacts
  <2>3. torn' \in BOOLEAN /\ drift' \in [size : Nat, waste : Nat]
    BY DEF MutateAppends, TypeOK
  <2>4. QED
    BY <1>3, <2>1, <2>2, <2>3 DEF TypeOK

(* The type after an append that failed. *)
LEMMA MutateFailsType ==
  ASSUME TypeOK, MutateFails
  PROVE  TypeOK'
<1>1. /\ pc' = "idle" /\ req' = NoRequest /\ off' = 0 /\ buf' = None
      /\ res' \in ReplyType
  BY RunningRequest, ReturnType DEF MutateFails
<1>2. log' \in Seq(Record) /\ index' \in [HashCode -> Nat] /\ last' \in [Key -> Nat]
  BY DEF MutateFails, TypeOK
<1>3. size' \in Int /\ waste' \in Int /\ drift' \in [size : Nat, waste : Nat]
  <2>1. SizeStep("update") \in {0, 1} /\ WasteStep("update") \in {0, 1}
    BY DEF SizeStep, WasteStep
  <2>2. CASE req.op = "update"
    BY <2>1, <2>2 DEF MutateFails, TypeOK
  <2>3. CASE req.op # "update"
    BY <2>3 DEF MutateFails, TypeOK
  <2>4. QED
    BY <2>2, <2>3
<1>4. torn' \in BOOLEAN
  BY DEF MutateFails
<1>5. QED
  BY <1>1, <1>2, <1>3, <1>4 DEF TypeOK

(* The initial state and the step of the type invariant. *)
LEMMA InitType == Init => TypeOK
<1> SUFFICES ASSUME Init PROVE TypeOK
  OBVIOUS
<1>1. log \in Seq(Record) /\ res \in ReplyType
  BY EmptySeq DEF Init, NoReply, Reply, ReplyType
<1>2. torn \in BOOLEAN
  BY DEF Init
<1>3. index \in [HashCode -> Nat] /\ last \in [Key -> Nat]
      /\ drift \in [size : Nat, waste : Nat]
  BY DEF Init
<1>4. QED
  BY <1>1, <1>2, <1>3 DEF Init, TypeOK

LEMMA NextType == TypeOK /\ [Next]_vars => TypeOK'
<1> SUFFICES ASSUME TypeOK, [Next]_vars
             PROVE  TypeOK'
  OBVIOUS
<1>1. CASE kvdb_open
  <2>1. res' \in ReplyType
    BY <1>1 DEF kvdb_open, Reply, ReplyType
  <2>2. QED
    BY <1>1, <2>1, FreshType DEF kvdb_open, TypeOK
<1>2. CASE kvdb_close
  <2>1. res' \in ReplyType
    BY <1>2 DEF kvdb_close, Reply, ReplyType
  <2>2. QED
    BY <1>2, <2>1, FreshType DEF kvdb_close, TypeOK
<1>3. ASSUME NEW k \in Key, NEW want \in BOOLEAN, kvdb_lookup(k, want)
      PROVE  TypeOK'
  <2> DEFINE r == Request("lookup", k, None, want)
  <2>1. r \in Requests
    BY DEF Requests, Request, Readers
  <2>2. CASE Return(r, 1, None)
    BY <1>3, <2>1, <2>2, ReturnType DEF kvdb_lookup, TypeOK
  <2>3. CASE WalkTo(index[Hash[k]]) /\ req' = r /\ res' = NoReply /\ UNCHANGED buf
    BY <1>3, <2>1, <2>3, KVDBAssumption
      DEF kvdb_lookup, TypeOK, WalkTo, NoReply, Reply, ReplyType
  <2>4. QED
    BY <1>3, <2>2, <2>3 DEF kvdb_lookup
<1>4. ASSUME NEW r \in Requests, mutate(r)
      PROVE  TypeOK'
  <2>1. r.key \in Key
    BY DEF Requests
  <2>2. CASE Return(r, -1, None)
    BY <1>4, <2>2, ReturnType DEF mutate, TypeOK
  <2>3. CASE WalkTo(index[Hash[r.key]]) /\ req' = r /\ res' = NoReply /\ UNCHANGED buf
    BY <1>4, <2>1, <2>3, KVDBAssumption DEF mutate, TypeOK, WalkTo, NoReply, Reply, ReplyType
  <2>4. QED
    BY <1>4, <2>2, <2>3 DEF mutate
<1>5. CASE ChainRead
  <2>1. req \in Requests
    BY <1>5, RunningRequest DEF ChainRead
  <2>2. CASE Return(req, -1, None)
    BY <1>5, <2>1, <2>2, ReturnType DEF ChainRead, TypeOK
  <2>3. CASE off \in Pos /\ UNCHANGED <<req, res>>
    <3>1. log[off] \in Record /\ log[off].off \in Nat /\ Pos' = Pos
      BY <1>5, <2>3, RecordAt DEF ChainRead, Pos
    <3>2. buf' \in Val \union {None} \/ Return(req, -1, None)
      BY <1>5, <3>1 DEF ChainRead, TypeOK, Record
    <3>3. CASE WalkTo(log[off].off)
      BY <1>5, <2>1, <2>2, <2>3, <3>1, <3>2, <3>3 DEF ChainRead, TypeOK, WalkTo, Record
    <3>4. CASE pc' = (IF req.key \in LongKey THEN "full" ELSE "finish") /\ UNCHANGED off
      BY <1>5, <2>1, <2>2, <2>3, <3>1, <3>2, <3>4 DEF ChainRead, TypeOK
    <3>5. QED
      BY <1>5, <2>2, <2>3, <3>3, <3>4 DEF ChainRead
  <2>4. QED
    BY <1>5, <2>2, <2>3 DEF ChainRead
<1>6. CASE ChainFull
  <2>1. req \in Requests
    BY <1>6, RunningRequest DEF ChainFull
  <2>2. CASE Return(req, -1, None)
    BY <1>6, <2>1, <2>2, ReturnType DEF ChainFull, TypeOK
  <2>3. CASE pc' = "finish" /\ UNCHANGED <<off, buf, req, res>>
    BY <1>6, <2>1, <2>3 DEF ChainFull, TypeOK
  <2>4. CASE WalkTo(log[off].off) /\ UNCHANGED <<buf, req, res>>
    <3>1. off \in Pos /\ log[off].off \in Nat
      BY <1>6, RecordAt DEF ChainFull, TypeOK
    <3>2. pc' \in {"finish", "chain"} /\ off' \in Nat
      BY <2>4, <3>1 DEF WalkTo
    <3>3. QED
      BY <1>6, <2>1, <2>4, <3>2 DEF ChainFull, TypeOK
  <2>5. QED
    BY <1>6, <2>2, <2>3, <2>4 DEF ChainFull
<1>7. CASE LookupReturns
  BY <1>7, RunningRequest, ReturnType DEF LookupReturns, TypeOK
<1>8. CASE MutateRejects
  BY <1>8, RunningRequest, ReturnType DEF MutateRejects, TypeOK
<1>9. CASE MutateAppends
  BY <1>9, MutateAppendsType DEF MutateAppends
<1>10. CASE MutateFails
  BY <1>10, MutateFailsType
<1>11. CASE UNCHANGED vars
  BY <1>11 DEF vars, TypeOK, Pos
<1>12. QED
  BY <1>1, <1>2, <1>3, <1>4, <1>5, <1>6, <1>7, <1>8, <1>9, <1>10, <1>11, CallCases
    DEF Next, Step

(* Theorem: the type invariant, in particular that a request is held exactly *)
(* while a call runs.                                                        *)
THEOREM TypeCorrect == Spec => []TypeOK
  BY InitType, NextType, PTL DEF Spec

-----------------------------------------------------------------------------
(***************************************************************************)
(* The safety invariants. None of them is inductive alone: the chains give *)
(* the walk what it relies on, the walk tells the counters whether the key *)
(* has a value, and the history variable "last" names the newest record of *)
(* a key without a search of the log.                                      *)
(***************************************************************************)
(* last[k] is what its comment says it is. *)
LastIsNewest == \A k \in Key : IsNewest(last[k], Len(log) + 1, WithKey(k))

IInv ==
  /\ TypeOK
  /\ ChainsComplete
  /\ LastIsNewest
  /\ WalkFindsNewest
  /\ CountersExact

-----------------------------------------------------------------------------
(* Steps that leave the log, the index and the history alone. *)
LogSame == UNCHANGED <<log, index, last>>

LEMMA LogSameKeeps ==
  ASSUME ChainsComplete, LastIsNewest, LogSame
  PROVE  ChainsComplete' /\ LastIsNewest' /\ LiveKeys' = LiveKeys
         /\ DeadRecords' = DeadRecords
         /\ (\A h \in HashCode : WithHash(h)' = WithHash(h))
         /\ (\A k \in Key : WithKey(k)' = WithKey(k))
         /\ Pos' = Pos
  BY DEF LogSame, ChainsComplete, LastIsNewest, IsNewest, WithHash, WithKey, Pos,
         LiveKeys, DeadRecords

(* A new record changes only the chain and the key it belongs to. *)
LEMMA AppendKeeps ==
  ASSUME TypeOK, ChainsComplete, LastIsNewest,
         NEW k \in Key, NEW v \in Val \union {None}, kvraw_append(k, v)
  PROVE  ChainsComplete' /\ LastIsNewest'
<1> DEFINE p == Len(log) + 1
<1>1. /\ Len(log) \in Nat /\ Len(log') = p /\ Pos = 1 .. Len(log)
      /\ Pos' = Pos \union {p} /\ p \notin Pos
      /\ \A q \in Pos : log'[q] = log[q]
      /\ log'[p] = [off |-> index[Hash[k]], key |-> k, val |-> v]
      /\ Hash[k] \in HashCode /\ index'[Hash[k]] = p /\ last'[k] = p
      /\ \A h \in HashCode : h # Hash[k] => index'[h] = index[h]
      /\ \A j \in Key : j # k => last'[j] = last[j]
  BY AppendFacts
<1> DEFINE NewChain(h) == {q \in Pos' : Hash[log'[q].key] = h}
<1>2. \A h \in HashCode :
        NewChain(h) = IF h = Hash[k] THEN WithHash(h) \union {p} ELSE WithHash(h)
  BY <1>1 DEF WithHash
<1>3. \A j \in Key :
        WithKey(j)' = IF j = k THEN WithKey(j) \union {p} ELSE WithKey(j)
  <2>1. \A j : WithKey(j)' = {q \in Pos' : log'[q].key = j}
    BY DEF WithKey
  <2>2. QED
    BY <1>1, <2>1 DEF WithKey
<1>4. \A q \in Pos : q \in Nat /\ q < p /\ q > 0
  BY <1>1
<1>5. ChainsComplete'
  <2>1. ASSUME NEW h \in HashCode PROVE IsNewest(index'[h], p + 1, NewChain(h))
    <3>1. IsNewest(index[h], p, WithHash(h)) /\ WithHash(h) \subseteq Pos
      BY DEF ChainsComplete, WithHash
    <3>2. CASE h = Hash[k]
      BY <1>1, <1>2, <1>4, <3>1, <3>2 DEF IsNewest
    <3>3. CASE h # Hash[k]
      BY <1>1, <1>2, <1>4, <3>1, <3>3 DEF IsNewest
    <3>4. QED
      BY <3>2, <3>3
  <2>2. ASSUME NEW q \in Pos'
        PROVE  IsNewest(log'[q].off, q, NewChain(Hash[log'[q].key]))
    <3>1. CASE q = p
      <4>1. IsNewest(index[Hash[k]], p, WithHash(Hash[k]))
        BY <1>1 DEF ChainsComplete
      <4>2. log'[q].off = index[Hash[k]] /\ log'[q].key = k
        BY <1>1, <3>1
      <4>3. NewChain(Hash[k]) = WithHash(Hash[k]) \union {p}
        BY <1>1, <1>2
      <4>4. QED
        BY <1>1, <3>1, <4>1, <4>2, <4>3 DEF IsNewest
    <3>2. CASE q \in Pos
      <4> DEFINE h == Hash[log[q].key]
      <4>1. IsNewest(log[q].off, q, WithHash(h)) /\ log'[q] = log[q]
        BY <1>1, <3>2 DEF ChainsComplete
      <4>2. h \in HashCode
        BY <3>2, RecordAt, KVDBAssumption
      <4>3. NewChain(h) \in {WithHash(h), WithHash(h) \union {p}}
        BY <1>2, <4>2
      <4>4. IsNewest(log[q].off, q, NewChain(h))
        BY <1>1, <1>4, <3>2, <4>1, <4>3 DEF IsNewest
      <4>5. QED
        BY <4>1, <4>4
    <3>3. QED
      BY <1>1, <3>1, <3>2
  <2>3. QED
    BY <1>1, <2>1, <2>2 DEF ChainsComplete, WithHash
<1>6. LastIsNewest'
  <2>1. ASSUME NEW j \in Key PROVE IsNewest(last'[j], Len(log') + 1, WithKey(j)')
    <3>1. IsNewest(last[j], p, WithKey(j)) /\ WithKey(j) \subseteq Pos
      BY DEF LastIsNewest, WithKey
    <3>2. CASE j = k
      BY <1>1, <1>3, <1>4, <3>1, <3>2 DEF IsNewest
    <3>3. CASE j # k
      BY <1>1, <1>3, <1>4, <3>1, <3>3 DEF IsNewest
    <3>4. QED
      BY <3>2, <3>3
  <2>2. QED
    BY <2>1 DEF LastIsNewest
<1>7. QED
  BY <1>5, <1>6

-----------------------------------------------------------------------------
(* A record of the key is a record of its hash code. *)
LEMMA KeyInChain ==
  ASSUME NEW k \in Key, NEW p \in WithKey(k)
  PROVE  p \in Pos /\ p \in WithHash(Hash[k]) /\ log[p].key = k
  BY DEF WithKey, WithHash

(* Where a walk starts: the head of the chain. *)
LEMMA WalkStarts ==
  ASSUME TypeOK, ChainsComplete, NEW k \in Key
  PROVE  /\ index[Hash[k]] \in WithHash(Hash[k]) \union {0}
         /\ \A p \in WithKey(k) : p <= index[Hash[k]]
<1>1. Hash[k] \in HashCode
  BY KVDBAssumption
<1>2. IsNewest(index[Hash[k]], Len(log) + 1, WithHash(Hash[k]))
  BY <1>1 DEF ChainsComplete
<1>3. \A p \in Pos : p < Len(log) + 1
  BY LenProperties DEF TypeOK, Pos
<1>4. QED
  BY <1>2, <1>3, KeyInChain DEF IsNewest

(* Where it goes on: past a record of another key, to the next of the chain. *)
LEMMA WalkAdvances ==
  ASSUME TypeOK, ChainsComplete, NEW k \in Key,
         off \in WithHash(Hash[k]), \A p \in WithKey(k) : p <= off,
         log[off].key # k
  PROVE  /\ log[off].off \in WithHash(Hash[k]) \union {0}
         /\ \A p \in WithKey(k) : p <= log[off].off
<1>1. off \in Pos /\ Hash[log[off].key] = Hash[k]
  BY DEF WithHash
<1>2. IsNewest(log[off].off, off, WithHash(Hash[k]))
  BY <1>1 DEF ChainsComplete
<1>3. ASSUME NEW p \in WithKey(k)
      PROVE  p \in WithHash(Hash[k]) /\ p < off
  <2>1. p \in Pos /\ p \in WithHash(Hash[k]) /\ log[p].key = k /\ p <= off
    BY KeyInChain
  <2>2. p \in Int /\ off \in Int
    BY <1>1, <2>1, LenProperties DEF Pos, TypeOK
  <2>3. QED
    BY <2>1, <2>2
<1>4. QED
  BY <1>2, <1>3 DEF IsNewest

(* A walk that is over stands on the newest record of its key. *)
LEMMA FoundIsLast ==
  ASSUME TypeOK, LastIsNewest, WalkFindsNewest, pc = "finish"
  PROVE  req.key \in Key /\ off = last[req.key]
<1>1. req.key \in Key
  BY RunningRequest DEF Requests
<1>2. IsNewest(last[req.key], Len(log) + 1, WithKey(req.key))
  BY <1>1 DEF LastIsNewest
<1>3. off \in WithKey(req.key) \union {0} /\ \A p \in WithKey(req.key) : p <= off
  BY DEF WalkFindsNewest
<1>4. WithKey(req.key) \subseteq Pos /\ \A p \in Pos : p \in Nat /\ p > 0 /\ p < Len(log) + 1
  BY LenProperties DEF WithKey, Pos, TypeOK
<1>5. QED
  BY <1>1, <1>2, <1>3, <1>4 DEF IsNewest

(* Every step keeps the walk right. *)
LEMMA WalkKeeps ==
  ASSUME TypeOK, ChainsComplete, LastIsNewest, WalkFindsNewest, [Next]_vars
  PROVE  WalkFindsNewest'
<1>1. CASE pc' \in {"idle", "closed"}
  BY <1>1 DEF WalkFindsNewest
<1> DEFINE Starts(r) == WalkTo(index[Hash[r.key]]) /\ req' = r
<1>2. ASSUME NEW r \in Requests, Starts(r), LogSame
      PROVE  WalkFindsNewest'
  <2>1. r.key \in Key
    BY DEF Requests
  <2>2. /\ index[Hash[r.key]] \in WithHash(Hash[r.key]) \union {0}
        /\ \A p \in WithKey(r.key) : p <= index[Hash[r.key]]
    BY <2>1, WalkStarts
  <2>3. QED
    BY <1>2, <2>2 DEF WalkFindsNewest, WalkTo, WithHash, WithKey, Pos, LogSame
<1>3. CASE ChainRead \/ ChainFull
  <2>1. CASE Return(req, -1, None)
    BY <1>1, <2>1 DEF Return
  <2> DEFINE k == req.key
  <2>2. /\ k \in Key /\ off \in WithHash(Hash[k])
        /\ \A p \in WithKey(k) : p <= off
    BY <1>3, RunningRequest DEF ChainRead, ChainFull, Requests, WalkFindsNewest
  <2>3. off \in Pos /\ log[off].key \in Key
    BY <2>2, RecordAt DEF WithHash
  <2>4. CASE log[off].key # k /\ WalkTo(log[off].off) /\ LogSame /\ UNCHANGED req
    <3>1. /\ log[off].off \in WithHash(Hash[k]) \union {0}
          /\ \A p \in WithKey(k) : p <= log[off].off
      BY <2>2, <2>4, WalkAdvances
    <3>2. QED
      BY <2>4, <3>1 DEF WalkFindsNewest, WalkTo, WithHash, WithKey, Pos, LogSame
  <2>5. CASE /\ pc' \in {"full", "finish"} /\ (pc' = "finish" => log[off].key = k)
             /\ LogSame /\ UNCHANGED <<req, off>>
    <3>1. off # 0
      BY <1>3 DEF ChainRead, ChainFull, WalkFindsNewest
    <3>2. pc' = "finish" => off \in WithKey(k)
      BY <2>3, <2>5 DEF WithKey
    <3>3. QED
      BY <2>2, <2>5, <3>1, <3>2 DEF WalkFindsNewest, WithHash, WithKey, Pos, LogSame
  <2>6. CASE ChainRead
    <3>1. Prefix[log[off].key] = Prefix[k] /\ k \notin LongKey => log[off].key = k
      BY <2>2, <2>3, KVDBAssumption
    <3>2. LogSame
      BY <2>6 DEF ChainRead, LogSame
    <3>3. CASE Prefix[log[off].key] # Prefix[k]
      BY <2>1, <2>4, <2>6, <3>2, <3>3 DEF ChainRead
    <3>4. CASE Prefix[log[off].key] = Prefix[k]
      BY <2>1, <2>5, <2>6, <3>1, <3>2, <3>4 DEF ChainRead
    <3>5. QED
      BY <3>3, <3>4
  <2>7. CASE ChainFull
    BY <2>1, <2>4, <2>5, <2>7 DEF ChainFull, LogSame
  <2>8. QED
    BY <1>3, <2>6, <2>7
<1>4. ASSUME NEW k \in Key, NEW want \in BOOLEAN, kvdb_lookup(k, want)
      PROVE  WalkFindsNewest'
  <2> DEFINE r == Request("lookup", k, None, want)
  <2>1. r \in Requests /\ r.key = k
    BY DEF Requests, Request, Readers
  <2>2. CASE Return(r, 1, None)
    BY <1>1, <2>2 DEF Return
  <2>3. CASE WalkTo(index[Hash[k]]) /\ req' = r
    BY <1>2, <1>4, <2>1, <2>3 DEF kvdb_lookup, LogSame
  <2>4. QED
    BY <1>4, <2>2, <2>3 DEF kvdb_lookup
<1>5. ASSUME NEW r \in Requests, mutate(r)
      PROVE  WalkFindsNewest'
  <2>1. CASE Return(r, -1, None)
    BY <1>1, <2>1 DEF Return
  <2>2. CASE WalkTo(index[Hash[r.key]]) /\ req' = r
    BY <1>2, <1>5, <2>2 DEF mutate, LogSame
  <2>3. QED
    BY <1>5, <2>1, <2>2 DEF mutate
<1>6. CASE LookupReturns \/ MutateRejects \/ MutateAppends \/ MutateFails
  BY <1>1, <1>6 DEF LookupReturns, MutateRejects, MutateAppends, MutateFails, Return
<1>7. CASE kvdb_open \/ kvdb_close
  BY <1>1, <1>7 DEF kvdb_open, kvdb_close
<1>8. CASE UNCHANGED vars
  BY <1>8 DEF vars, WalkFindsNewest, WithHash, WithKey, Pos
<1>9. QED
  BY <1>3, <1>4, <1>5, <1>6, <1>7, <1>8, CallCases DEF Next, Step

-----------------------------------------------------------------------------
(* Sets the counters count are finite. *)
LEMMA CountedFinite ==
  ASSUME TypeOK
  PROVE  IsFiniteSet(LiveKeys) /\ IsFiniteSet(DeadRecords)
<1>1. IsFiniteSet(Pos)
  BY LenProperties, FS_Interval DEF Pos, TypeOK
<1>2. LiveKeys \subseteq Key /\ DeadRecords \subseteq Pos
  BY DEF LiveKeys, DeadRecords
<1>3. QED
  BY <1>1, <1>2, FS_Subset, KVDBAssumption

(* An empty log: nothing to count. *)
LEMMA EmptyCounters ==
  ASSUME log = <<>>, last = [k \in Key |-> 0], index = [h \in HashCode |-> 0],
         size = 0, waste = 0, drift = [size |-> 0, waste |-> 0]
  PROVE  ChainsComplete /\ LastIsNewest /\ CountersExact
<1>1. Len(log) = 0 /\ Pos = {}
  BY DEF Pos
<1>2. LiveKeys = {} /\ DeadRecords = {}
  BY <1>1 DEF LiveKeys, DeadRecords
<1>3. ChainsComplete /\ LastIsNewest
  BY <1>1 DEF ChainsComplete, LastIsNewest, IsNewest, WithHash, WithKey
<1>4. QED
  BY <1>2, <1>3, FS_EmptySet DEF CountersExact

(* The walk has found a value exactly when its key has one. *)
LEMMA FoundIsLive ==
  ASSUME TypeOK, LastIsNewest, WalkFindsNewest, pc = "finish"
  PROVE  /\ req.key \in Key /\ (Found <=> req.key \in LiveKeys)
         /\ off = last[req.key] /\ off \in WithKey(req.key) \union {0}
  BY FoundIsLast DEF Found, LiveKeys, WalkFindsNewest

(* What a new record of k does to the sets that are counted. *)
LEMMA AppendCounts ==
  ASSUME TypeOK, LastIsNewest,
         NEW k \in Key, NEW v \in Val \union {None}, kvraw_append(k, v)
  PROVE  /\ LiveKeys' = IF v # None THEN LiveKeys \union {k} ELSE LiveKeys \ {k}
         /\ DeadRecords' = IF k \in LiveKeys THEN DeadRecords \union {last[k]}
                                              ELSE DeadRecords
         /\ k \in LiveKeys => last[k] \notin DeadRecords
<1> DEFINE p == Len(log) + 1
<1>1. /\ Len(log) \in Nat /\ Pos = 1 .. Len(log)
      /\ Pos' = Pos \union {p} /\ p \notin Pos
      /\ \A q \in Pos : log'[q] = log[q]
      /\ log'[p] = [off |-> index[Hash[k]], key |-> k, val |-> v]
      /\ last'[k] = p /\ \A j \in Key : j # k => last'[j] = last[j]
  BY AppendFacts
<1>2. \A j \in Key : last[j] \in WithKey(j) \union {0}
  BY DEF LastIsNewest, IsNewest
<1>3. \A j \in Key : last[j] # 0 => last[j] \in Pos /\ log[last[j]].key = j
  BY <1>2 DEF WithKey
<1>4. LiveKeys' = IF v # None THEN LiveKeys \union {k} ELSE LiveKeys \ {k}
  <2>1. \A j \in Key : j # k => (j \in LiveKeys' <=> j \in LiveKeys)
    BY <1>1, <1>3 DEF LiveKeys
  <2>2. k \in LiveKeys' <=> v # None
    BY <1>1 DEF LiveKeys
  <2>3. LiveKeys \subseteq Key /\ LiveKeys' \subseteq Key
    BY DEF LiveKeys
  <2>4. QED
    BY <2>1, <2>2, <2>3
<1>5. DeadRecords' = IF k \in LiveKeys THEN DeadRecords \union {last[k]}
                                       ELSE DeadRecords
  <2>1. p \notin DeadRecords'
    BY <1>1 DEF DeadRecords
  <2>2. DeadRecords \subseteq Pos /\ DeadRecords' \subseteq Pos'
    BY DEF DeadRecords
  <2>3. ASSUME NEW q \in Pos
        PROVE  q \in DeadRecords' <=> q \in DeadRecords \/ (k \in LiveKeys /\ q = last[k])
    <3>1. log[q].key \in Key /\ log'[q] = log[q] /\ q # p
      BY <1>1, RecordAt
    <3>2. CASE log[q].key = k
      BY <1>1, <1>3, <3>1, <3>2 DEF DeadRecords, LiveKeys
    <3>3. CASE log[q].key # k
      BY <1>1, <1>3, <3>1, <3>3 DEF DeadRecords, LiveKeys
    <3>4. QED
      BY <3>2, <3>3
  <2>4. k \in LiveKeys => last[k] \in Pos
    BY <1>3 DEF LiveKeys
  <2>5. DeadRecords' \subseteq Pos
    BY <1>1, <2>1, <2>2
  <2>6. CASE k \in LiveKeys
    BY <2>2, <2>3, <2>4, <2>5, <2>6
  <2>7. CASE k \notin LiveKeys
    BY <2>2, <2>3, <2>5, <2>7
  <2>8. QED
    BY <2>6, <2>7
<1>6. k \in LiveKeys => last[k] \notin DeadRecords
  BY <1>3 DEF LiveKeys, DeadRecords
<1>7. QED
  BY <1>4, <1>5, <1>6

(* So their sizes move by what the mode of the call says. *)
LEMMA AppendMoves ==
  ASSUME TypeOK, LastIsNewest, WalkFindsNewest,
         pc = "finish", req.op # "lookup", Admits(req.op), kvraw_append(req.key, req.val)
  PROVE  /\ Cardinality(LiveKeys) \in Nat /\ Cardinality(DeadRecords) \in Nat
         /\ Cardinality(LiveKeys') = Cardinality(LiveKeys) + SizeStep(req.op)
         /\ Cardinality(DeadRecords') = Cardinality(DeadRecords) + WasteStep(req.op)
<1> DEFINE k == req.key
           v == req.val
           found == k \in LiveKeys
<1>1. /\ k \in Key /\ v \in Val \union {None} /\ req.op \in Writers \union {"remove"}
      /\ v # None <=> req.op # "remove"
  BY RunningRequest, KVDBAssumption DEF Requests, Writers, Readers
<1>2. Found <=> found
  BY FoundIsLive
<1>3. /\ req.op = "insert" => ~found
      /\ req.op \in {"replace", "remove"} => found
  BY <1>2 DEF Admits
<1>4. /\ LiveKeys' = IF v # None THEN LiveKeys \union {k} ELSE LiveKeys \ {k}
      /\ DeadRecords' = IF found THEN DeadRecords \union {last[k]} ELSE DeadRecords
      /\ found => last[k] \notin DeadRecords
  BY <1>1, AppendCounts
<1> DEFINE live == Cardinality(LiveKeys)
           dead == Cardinality(DeadRecords)
<1>5. /\ IsFiniteSet(LiveKeys) /\ live \in Nat
      /\ IsFiniteSet(DeadRecords) /\ dead \in Nat
  BY CountedFinite, FS_CardinalityType
<1>6. Cardinality(LiveKeys') = live + SizeStep(req.op)
  <2>1. Cardinality(LiveKeys \union {k}) = IF found THEN live ELSE live + 1
    BY <1>5, FS_AddElement
  <2>2. Cardinality(LiveKeys \ {k}) = IF found THEN live - 1 ELSE live
    BY <1>5, FS_RemoveElement
  <2>3. QED
    BY <1>1, <1>2, <1>3, <1>4, <1>5, <2>1, <2>2 DEF SizeStep, Writers
<1>7. Cardinality(DeadRecords') = dead + WasteStep(req.op)
  <2>1. found => Cardinality(DeadRecords \union {last[k]}) = dead + 1
    BY <1>4, <1>5, FS_AddElement
  <2>2. QED
    BY <1>2, <1>4, <1>5, <2>1 DEF WasteStep
<1>8. QED
  BY <1>5, <1>6, <1>7

(* Every append moves the counters by what it does to those sets. *)
LEMMA CountersAppend ==
  ASSUME TypeOK, LastIsNewest, WalkFindsNewest, CountersExact, MutateAppends
  PROVE  CountersExact'
<1> DEFINE live == Cardinality(LiveKeys)
           dead == Cardinality(DeadRecords)
<1>1. /\ live \in Nat /\ dead \in Nat
      /\ Cardinality(LiveKeys') = live + SizeStep(req.op)
      /\ Cardinality(DeadRecords') = dead + WasteStep(req.op)
  BY AppendMoves DEF MutateAppends
<1>2. size = live + drift.size /\ waste = dead + drift.waste
  BY DEF CountersExact
<1>3. /\ size' = size + SizeStep(req.op) /\ waste' = waste + WasteStep(req.op)
      /\ drift' = drift
  BY DEF MutateAppends
<1>4. /\ SizeStep(req.op) \in Int /\ WasteStep(req.op) \in Int
       /\ drift.size \in Nat /\ drift.waste \in Nat
  BY DEF SizeStep, WasteStep, TypeOK
<1>5. QED
  BY <1>1, <1>2, <1>3, <1>4 DEF CountersExact

(* Steps that append nothing move a counter and its drift together. *)
LEMMA CountersFail ==
  ASSUME TypeOK, ChainsComplete, LastIsNewest, CountersExact, MutateFails
  PROVE  CountersExact'
<1>1. LiveKeys' = LiveKeys /\ DeadRecords' = DeadRecords
  BY LogSameKeeps DEF MutateFails, LogSame
<1>2. Cardinality(LiveKeys) \in Nat /\ Cardinality(DeadRecords) \in Nat
  BY CountedFinite, FS_CardinalityType
<1>3. /\ drift.size \in Nat /\ drift.waste \in Nat
      /\ SizeStep("update") \in Int /\ WasteStep("update") \in Int
  BY DEF TypeOK, SizeStep, WasteStep
<1>4. CASE req.op = "update"
  BY <1>1, <1>2, <1>3, <1>4 DEF MutateFails, CountersExact
<1>5. CASE req.op # "update"
  BY <1>1, <1>5 DEF MutateFails, CountersExact
<1>6. QED
  BY <1>4, <1>5

-----------------------------------------------------------------------------
(* The inductive invariant. *)
LEMMA InvInit == Init => IInv
<1>1. Init => TypeOK
  BY InitType
<1>2. Init => ChainsComplete /\ LastIsNewest /\ CountersExact
  BY EmptyCounters DEF Init
<1>3. Init => WalkFindsNewest
  BY DEF Init, WalkFindsNewest
<1>4. QED
  BY <1>1, <1>2, <1>3 DEF IInv

LEMMA FreshCounters ==
  ASSUME Fresh
  PROVE  ChainsComplete' /\ LastIsNewest' /\ CountersExact'
<1>1. Len(log') = 0 /\ Pos' = {}
  BY DEF Fresh, Pos
<1>2. LiveKeys' = {} /\ DeadRecords' = {}
  BY <1>1 DEF Fresh, LiveKeys, DeadRecords
<1>3. ChainsComplete' /\ LastIsNewest'
  BY <1>1 DEF Fresh, ChainsComplete, LastIsNewest, IsNewest, WithHash, WithKey
<1>4. QED
  BY <1>2, <1>3, FS_EmptySet DEF Fresh, CountersExact

LEMMA InvNext == IInv /\ [Next]_vars => IInv'
<1> SUFFICES ASSUME IInv, [Next]_vars PROVE IInv'
  OBVIOUS
<1>1. TypeOK /\ ChainsComplete /\ LastIsNewest /\ WalkFindsNewest /\ CountersExact
  BY DEF IInv
<1>2. TypeOK'
  BY <1>1, NextType
<1>3. WalkFindsNewest'
  BY <1>1, WalkKeeps
<1>4. CASE LogSame /\ UNCHANGED <<size, waste, drift>>
  BY <1>1, <1>2, <1>3, <1>4, LogSameKeeps DEF IInv, CountersExact
<1>5. CASE kvdb_open \/ kvdb_close
  BY <1>2, <1>3, <1>5, FreshCounters DEF IInv, kvdb_open, kvdb_close
<1>6. CASE Call
  BY <1>4, <1>6, CallCases DEF kvdb_lookup, mutate, LogSame
<1>7. CASE ChainRead \/ ChainFull \/ LookupReturns \/ MutateRejects
  BY <1>4, <1>7 DEF ChainRead, ChainFull, LookupReturns, MutateRejects, LogSame
<1>8. CASE MutateAppends
  <2>1. req.key \in Key /\ req.val \in Val \union {None}
    BY <1>1, <1>8, RunningRequest DEF MutateAppends, Requests
  <2>2. ChainsComplete' /\ LastIsNewest'
    BY <1>1, <1>8, <2>1, AppendKeeps DEF MutateAppends
  <2>3. CountersExact'
    BY <1>1, <1>8, CountersAppend
  <2>4. QED
    BY <1>2, <1>3, <2>2, <2>3 DEF IInv
<1>9. CASE MutateFails
  <2>1. ChainsComplete' /\ LastIsNewest'
    BY <1>1, <1>9, LogSameKeeps DEF MutateFails, LogSame
  <2>2. CountersExact'
    BY <1>1, <1>9, CountersFail
  <2>3. QED
    BY <1>2, <1>3, <2>1, <2>2 DEF IInv
<1>10. CASE UNCHANGED vars
  BY <1>4, <1>10 DEF vars, LogSame
<1>11. QED
  BY <1>5, <1>6, <1>7, <1>8, <1>9, <1>10 DEF Next, Step

THEOREM Invariant == Spec => []IInv
  BY InvInit, InvNext, PTL DEF Spec

(* Theorem: whatever is appended, in whatever order, every record stays on   *)
(* the chain of its hash code, newest first (kvraw_append, kvdb.c:119-203).  *)
THEOREM ChainsAreComplete == Spec => []ChainsComplete
<1>1. IInv => ChainsComplete
  BY DEF IInv
<1>2. QED
  BY Invariant, <1>1, PTL

(* Theorem: a walk never passes over a record of the key it looks for, for   *)
(* any number of keys that share a hash code or their first bytes            *)
(* (chain_lookup).                                                           *)
THEOREM WalksFindTheNewest == Spec => []WalkFindsNewest
<1>1. IInv => WalkFindsNewest
  BY DEF IInv
<1>2. QED
  BY Invariant, <1>1, PTL

(* Theorem: kvdb_size and kvdb_waste are the numbers of keys with a value    *)
(* and of values out of reach, up to the kvdb_update calls that failed.      *)
THEOREM CountersAreExact == Spec => []CountersExact
<1>1. IInv => CountersExact
  BY DEF IInv
<1>2. QED
  BY Invariant, <1>1, PTL

-----------------------------------------------------------------------------
(***************************************************************************)
(* KVDB implements KVMap: the log, the index and the walks are a map whose *)
(* calls take effect when they return.                                     *)
(***************************************************************************)
(* What the walk leaves in the caller's buffer: the value of the record it   *)
(* stands on, when the caller asked for one. Values of the records it passed *)
(* over are overwritten before anybody looks.                                *)
BufferHoldsValue ==
  /\ pc \in {"closed", "idle"} => buf = None
  /\ pc \in {"chain", "full", "finish"} /\ req.want = FALSE => buf = None
  /\ pc \in {"full", "finish"} /\ req.want # FALSE /\ off # 0 /\ log[off].val # None
       => buf = log[off].val

LEMMA BufferNext ==
  ASSUME TypeOK, BufferHoldsValue, [Next]_vars
  PROVE  BufferHoldsValue'
<1>1. CASE pc' \in {"idle", "closed"} /\ buf' = None
  BY <1>1 DEF BufferHoldsValue
<1>2. ASSUME NEW r, Return(r, -1, None) \/ Return(r, 1, None)
      PROVE  BufferHoldsValue'
  BY <1>1, <1>2 DEF Return
<1>3. ASSUME pc = "idle", NEW p, WalkTo(p), UNCHANGED buf
      PROVE  BufferHoldsValue'
  <2>1. buf' = None /\ off' = p /\ pc' \in {"chain", "finish"}
        /\ (pc' = "finish" => off' = 0)
    BY <1>3 DEF BufferHoldsValue, WalkTo
  <2>2. QED
    BY <2>1 DEF BufferHoldsValue
<1>4. CASE ChainRead
  <2>1. CASE Return(req, -1, None)
    BY <1>2, <2>1
  <2>2. CASE /\ buf' = IF req.want /\ log[off].val # None THEN log[off].val ELSE buf
             /\ UNCHANGED <<log, req>> /\ pc' \in {"chain", "full", "finish"}
             /\ pc' \in {"full", "finish"} => off' = off \/ off' = 0
    <3>1. req.want \in BOOLEAN
      BY <1>4, RunningRequest DEF ChainRead, Requests
    <3>2. CASE req.want = FALSE
      BY <1>4, <2>2, <3>2 DEF BufferHoldsValue, ChainRead
    <3>3. CASE req.want = TRUE
      BY <1>4, <2>2, <3>3 DEF BufferHoldsValue, ChainRead
    <3>4. QED
      BY <3>1, <3>2, <3>3
  <2>3. QED
    BY <1>4, <2>1, <2>2 DEF ChainRead, WalkTo
<1>5. CASE ChainFull
  <2>1. CASE Return(req, -1, None)
    BY <1>2, <2>1
  <2>2. CASE pc' = "finish" /\ UNCHANGED <<off, buf, req, log>>
    BY <1>5, <2>2 DEF BufferHoldsValue, ChainFull
  <2>3. CASE WalkTo(log[off].off) /\ UNCHANGED <<buf, req, log>>
    BY <1>5, <2>3 DEF BufferHoldsValue, ChainFull, WalkTo
  <2>4. QED
    BY <1>5, <2>1, <2>2, <2>3 DEF ChainFull
<1>6. CASE Call
  <2>1. ASSUME NEW k \in Key, NEW want \in BOOLEAN, kvdb_lookup(k, want)
        PROVE  BufferHoldsValue'
    BY <1>2, <1>3, <2>1 DEF kvdb_lookup
  <2>2. ASSUME NEW r \in Requests, mutate(r)
        PROVE  BufferHoldsValue'
    BY <1>2, <1>3, <2>2 DEF mutate
  <2>3. QED
    BY <1>6, <2>1, <2>2, CallCases
<1>7. CASE LookupReturns \/ MutateRejects \/ MutateAppends \/ MutateFails
  BY <1>1, <1>7 DEF LookupReturns, MutateRejects, MutateAppends, MutateFails, Return
<1>8. CASE kvdb_open \/ kvdb_close
  BY <1>1, <1>8 DEF kvdb_open, kvdb_close, Fresh
<1>9. CASE UNCHANGED vars
  BY <1>9 DEF vars, BufferHoldsValue
<1>10. QED
  BY <1>4, <1>5, <1>6, <1>7, <1>8, <1>9 DEF Next, Step

-----------------------------------------------------------------------------
(* What the map makes of the log. *)
LEMMA StoreOf ==
  ASSUME NEW k \in Key
  PROVE  /\ store[k] = (IF last[k] = 0 THEN None ELSE log[last[k]].val)
         /\ (store[k] # None <=> k \in LiveKeys)
  BY DEF store, LiveKeys

LEMMA StoreSame ==
  ASSUME LogSame
  PROVE  store' = store
  BY DEF LogSame, store

LEMMA StoreAppend ==
  ASSUME TypeOK, LastIsNewest,
         NEW k \in Key, NEW v \in Val \union {None}, kvraw_append(k, v)
  PROVE  store' = [store EXCEPT ![k] = v]
<1> DEFINE p == Len(log) + 1
<1>1. /\ Len(log) \in Nat /\ Pos = 1 .. Len(log)
      /\ \A q \in Pos : log'[q] = log[q]
      /\ log'[p] = [off |-> index[Hash[k]], key |-> k, val |-> v]
      /\ last'[k] = p /\ \A j \in Key : j # k => last'[j] = last[j]
  BY AppendFacts
<1>2. \A j \in Key : last[j] # 0 => last[j] \in Pos
  BY DEF LastIsNewest, IsNewest, WithKey
<1>3. ASSUME NEW j \in Key
      PROVE  (IF last'[j] = 0 THEN None ELSE log'[last'[j]].val)
               = IF j = k THEN v ELSE store[j]
  <2>1. CASE j = k
    BY <1>1, <2>1
  <2>2. CASE j # k
    BY <1>1, <1>2, <2>2, StoreOf
  <2>3. QED
    BY <2>1, <2>2
<1>4. QED
  BY <1>3 DEF store

(* A call that returns without an append: the map rejects it or fails it. *)
LEMMA ReturnsFail ==
  ASSUME NEW r \in Requests, Return(r, -1, None), LogSame, pc # "closed"
  PROVE  Map!Next
<1>1. /\ r.op \in Map!Writers \union Map!Readers /\ r.key \in Key
      /\ res' = Map!Reply(r.op, r.key, -1, None) /\ pc' # "closed" /\ store' = store
  BY StoreSame DEF Requests, Return, Reply, Map!Reply, Writers, Readers,
                   Map!Writers, Map!Readers
<1>2. Map!Fail(r.op, r.key)
  BY <1>1 DEF Map!Fail
<1>3. QED
  BY <1>1, <1>2 DEF Map!Next

LEMMA ReturnsReject ==
  ASSUME NEW r \in Requests, Return(r, 1, None), LogSame, pc # "closed",
         ~Map!Accepts(r.op, r.key)
  PROVE  Map!Next
<1>1. /\ r.op \in Map!Writers \union Map!Readers /\ r.key \in Key
      /\ res' = Map!Reply(r.op, r.key, 1, None) /\ pc' # "closed" /\ store' = store
  BY StoreSame DEF Requests, Return, Reply, Map!Reply, Writers, Readers,
                   Map!Writers, Map!Readers
<1>2. Map!Reject(r.op, r.key)
  BY <1>1 DEF Map!Reject
<1>3. QED
  BY <1>1, <1>2 DEF Map!Next

(* A call that starts. *)
LEMMA Begins ==
  ASSUME res' = NoReply, LogSame, pc # "closed", pc' # "closed"
  PROVE  Map!Next
<1>1. Map!Begin
  BY StoreSame DEF Map!Begin, Map!NoReply, Map!Reply, NoReply, Reply
<1>2. QED
  BY <1>1 DEF Map!Next

-----------------------------------------------------------------------------
(* What the walk decides is what the map would: the key has a value. *)
LEMMA Decides ==
  ASSUME IInv, pc = "finish"
  PROVE  /\ req \in Requests
         /\ Found <=> store[req.key] # None
         /\ Found => off # 0 /\ log[off].val = store[req.key] /\ log[off].val # None
         /\ req.op # "lookup" => (Admits(req.op) <=> Map!Accepts(req.op, req.key))
<1>1. req \in Requests
  BY RunningRequest DEF IInv
<1>2. /\ req.key \in Key /\ (Found <=> req.key \in LiveKeys)
      /\ off = last[req.key]
  BY FoundIsLive DEF IInv
<1>3. Found <=> store[req.key] # None
  BY <1>2, StoreOf
<1>4. Found => off # 0 /\ log[off].val = store[req.key] /\ log[off].val # None
  BY <1>2, StoreOf DEF Found
<1>5. req.op # "lookup" => (Admits(req.op) <=> Map!Accepts(req.op, req.key))
  BY <1>3 DEF Admits, Map!Accepts
<1>6. QED
  BY <1>1, <1>3, <1>4, <1>5

LEMMA StepImplements ==
  ASSUME IInv, BufferHoldsValue, [Next]_vars
  PROVE  [Map!Next]_(Map!vars)
<1>1. TypeOK /\ ChainsComplete /\ LastIsNewest /\ WalkFindsNewest
  BY DEF IInv
<1>2. CASE kvdb_open
  <2>1. Map!Open
    <3>1. store' = Map!Empty
      BY <1>2 DEF kvdb_open, Fresh, store, Map!Empty
    <3>2. QED
      BY <1>2, <3>1 DEF kvdb_open, Reply, Map!Open, Map!Reply
  <2>2. QED
    BY <2>1 DEF Map!Next
<1>3. CASE kvdb_close
  <2>1. Map!Close
    <3>1. store' = Map!Empty
      BY <1>3 DEF kvdb_close, Fresh, store, Map!Empty
    <3>2. QED
      BY <1>3, <3>1 DEF kvdb_close, Reply, Map!Close, Map!Reply
  <2>2. QED
    BY <2>1 DEF Map!Next
<1>4. ASSUME NEW k \in Key, NEW want \in BOOLEAN, kvdb_lookup(k, want)
      PROVE  Map!Next
  <2> DEFINE r == Request("lookup", k, None, want)
  <2>1. LogSame /\ pc = "idle"
    BY <1>4 DEF kvdb_lookup, LogSame
  <2>2. r \in Requests /\ r.op = "lookup" /\ r.key = k
    BY DEF Requests, Request, Readers
  <2>3. CASE index[Hash[k]] = 0 /\ Return(r, 1, None)
    <3>1. last[k] = 0
      <4>1. \A p \in WithKey(k) : p <= 0 /\ p \in Pos
        BY <1>1, <2>3, WalkStarts, KeyInChain
      <4>2. last[k] \in WithKey(k) \union {0} /\ last[k] \in Nat
        BY <1>1 DEF LastIsNewest, IsNewest, TypeOK
      <4>3. QED
        BY <4>1, <4>2, LenProperties, <1>1 DEF Pos, TypeOK
    <3>2. ~Map!Accepts(r.op, r.key)
      BY <2>2, <3>1, StoreOf DEF Map!Accepts
    <3>3. QED
      BY <2>1, <2>2, <2>3, <3>2, ReturnsReject
  <2>4. CASE WalkTo(index[Hash[k]]) /\ res' = NoReply
    BY <2>1, <2>4, Begins DEF WalkTo
  <2>5. QED
    BY <1>4, <2>3, <2>4 DEF kvdb_lookup
<1>5. ASSUME NEW r \in Requests, mutate(r)
      PROVE  Map!Next
  <2>1. LogSame /\ pc = "idle"
    BY <1>5 DEF mutate, LogSame
  <2>2. CASE Return(r, -1, None)
    BY <2>1, <2>2, ReturnsFail
  <2>3. CASE WalkTo(index[Hash[r.key]]) /\ res' = NoReply
    BY <2>1, <2>3, Begins DEF WalkTo
  <2>4. QED
    BY <1>5, <2>2, <2>3 DEF mutate
<1>6. CASE ChainRead \/ ChainFull
  <2>1. LogSame /\ pc \in {"chain", "full"} /\ req \in Requests
    BY <1>1, <1>6, RunningRequest DEF ChainRead, ChainFull, LogSame
  <2>2. CASE Return(req, -1, None)
    BY <2>1, <2>2, ReturnsFail
  <2>3. CASE pc' # "closed" /\ UNCHANGED res
    BY <2>1, <2>3, StoreSame DEF Map!vars
  <2>4. QED
    BY <1>6, <2>2, <2>3 DEF ChainRead, ChainFull, WalkTo
<1>7. CASE LookupReturns
  <2>1. LogSame /\ pc = "finish" /\ req.op = "lookup"
    BY <1>7 DEF LookupReturns, LogSame
  <2>2. CASE Found /\ Return(req, 0, buf)
    <3>1. buf = IF req.want THEN store[req.key] ELSE None
      <4>1. req.want \in BOOLEAN
        BY <2>1, Decides DEF Requests
      <4>2. CASE req.want = FALSE
        BY <2>1, <4>2 DEF BufferHoldsValue
      <4>3. CASE req.want = TRUE
        BY <2>1, <2>2, <4>3, Decides DEF BufferHoldsValue
      <4>4. QED
        BY <4>1, <4>2, <4>3
    <3>2. /\ req.key \in Key /\ req.want \in BOOLEAN
          /\ "lookup" \in Map!Readers /\ store' = store
          /\ store[req.key] # None
      BY <2>1, <2>2, Decides, StoreSame DEF Requests, Map!Readers
    <3>3. Map!Read("lookup", req.key, req.want)
      BY <2>1, <2>2, <3>1, <3>2 DEF Map!Read, Map!Accepts, Map!Reply, Reply, Return
    <3>4. QED
      BY <3>2, <3>3 DEF Map!Next
  <2>3. CASE ~Found /\ Return(req, 1, None)
    <3>1. req \in Requests /\ ~Map!Accepts(req.op, req.key)
      BY <2>1, <2>3, Decides DEF Map!Accepts
    <3>2. QED
      BY <2>1, <2>3, <3>1, ReturnsReject
  <2>4. QED
    BY <1>7, <2>2, <2>3 DEF LookupReturns
<1>8. CASE MutateRejects
  <2>1. /\ LogSame /\ pc = "finish" /\ Return(req, 1, None)
        /\ req \in Requests /\ ~Map!Accepts(req.op, req.key)
    BY <1>8, Decides DEF MutateRejects, LogSame
  <2>2. QED
    BY <2>1, ReturnsReject
<1>9. CASE MutateAppends
  <2> DEFINE k == req.key
  <2>1. /\ pc = "finish" /\ req \in Requests /\ req.op # "lookup"
        /\ Map!Accepts(req.op, k)
        /\ Return(req, 0, IF req.op = "remove" THEN buf ELSE None)
        /\ kvraw_append(k, req.val)
    BY <1>9, Decides DEF MutateAppends
  <2>2. k \in Key /\ req.val \in Val \union {None}
    BY <2>1 DEF Requests
  <2>3. store' = [store EXCEPT ![k] = req.val]
    BY <1>1, <2>1, <2>2, StoreAppend
  <2>4. CASE req.op = "remove"
    <3>1. req.val = None /\ req.want \in BOOLEAN /\ "remove" \in Map!Readers
      BY <2>1, <2>4 DEF Requests, Writers, Map!Readers
    <3>2. Found
      BY <1>9, <2>4 DEF MutateAppends, Admits
    <3>3. buf = IF req.want THEN store[k] ELSE None
      <4>1. CASE req.want = FALSE
        BY <2>1, <4>1 DEF BufferHoldsValue
      <4>2. CASE req.want = TRUE
        BY <2>1, <3>2, <4>2, Decides DEF BufferHoldsValue
      <4>3. QED
        BY <3>1, <4>1, <4>2
    <3>4. Map!Read("remove", k, req.want)
      BY <2>1, <2>3, <2>4, <3>1, <3>3 DEF Map!Read, Map!Reply, Reply, Return
    <3>5. QED
      BY <2>2, <3>1, <3>4 DEF Map!Next
  <2>5. CASE req.op # "remove"
    <3>1. req.val \in Val /\ req.op \in Map!Writers
      BY <2>1, <2>5 DEF Requests, Readers, Writers, Map!Writers
    <3>2. Map!Write(req.op, k, req.val)
      BY <2>1, <2>3, <2>5, <3>1 DEF Map!Write, Map!Reply, Reply, Return
    <3>3. QED
      BY <2>2, <3>1, <3>2 DEF Map!Next
  <2>6. QED
    BY <2>4, <2>5
<1>10. CASE MutateFails
  <2>1. /\ LogSame /\ pc = "finish" /\ Return(req, -1, None) /\ req \in Requests
    BY <1>10, Decides DEF MutateFails, LogSame
  <2>2. QED
    BY <2>1, ReturnsFail
<1>11. CASE UNCHANGED vars
  BY <1>11, StoreSame DEF vars, Map!vars, LogSame
<1>12. QED
  BY <1>2, <1>3, <1>4, <1>5, <1>6, <1>7, <1>8, <1>9, <1>10, <1>11, CallCases
    DEF Next, Step

(* Theorem: every behaviour of the store is a behaviour of the map: a call   *)
(* answers what the map answers, in particular through tombstones, shared    *)
(* hash codes and shared first bytes, and a failed call changes nothing a    *)
(* later call can see.                                                       *)
THEOREM Refinement == Spec => ImplementsMap
<1>1. Init => Map!Init /\ BufferHoldsValue
  BY DEF Init, store, NoReply, Reply, BufferHoldsValue,
         Map!Init, Map!Empty, Map!NoReply, Map!Reply
<1>2. IInv /\ BufferHoldsValue /\ [Next]_vars => BufferHoldsValue'
  BY BufferNext DEF IInv
<1>3. IInv /\ BufferHoldsValue /\ [Next]_vars => [Map!Next]_(Map!vars)
  BY StepImplements
<1>4. QED
  BY Invariant, <1>1, <1>2, <1>3, PTL DEF Spec, ImplementsMap, Map!Spec
=============================================================================
