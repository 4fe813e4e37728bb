------------------------------- MODULE KVMap -------------------------------
(***************************************************************************)
(* What kvdb.h promises its callers, with no log, no index and no chains:  *)
(* a map from keys to non-empty values and the reply of the last call.     *)
(*                                                                         *)
(* The return codes are those of kvdb.h ("-1|0|+1"): 0 when the call took  *)
(* effect, +1 when the key is there and must not be (insert) or is not     *)
(* there and must be (remove, replace, lookup), -1 when the storage        *)
(* underneath failed, and then the map is as it was.                       *)
(***************************************************************************)
EXTENDS Integers

CONSTANTS
  Key,    \* keys
  Val,    \* non-empty values: every writer asserts val_len # 0
  None    \* "no value", "no key": neither a key nor a value

VARIABLES
  isOpen,  \* the handle returned by kvdb_open is alive
  store,   \* the value of each key, None when the key is absent
  res      \* the reply of the last call, NoReply while a call runs

vars == <<isOpen, store, res>>

Writers == {"insert", "update", "replace"}
Readers == {"remove", "lookup"}
Reply(op, k, rc, got) == [op |-> op, key |-> k, rc |-> rc, got |-> got]
NoReply == Reply("none", None, 0, None)
Empty == [k \in Key |-> None]

Init ==
  /\ isOpen = FALSE
  /\ store = Empty
  /\ res = NoReply

\* kvdb_open starts from an empty map, whatever an earlier handle stored.
Open ==
  /\ ~isOpen
  /\ \/ isOpen' = TRUE /\ res' = Reply("open", None, 0, None)
     \/ isOpen' = FALSE /\ res' = Reply("open", None, -1, None)
  /\ store' = Empty

Close ==
  /\ isOpen
  /\ isOpen' = FALSE
  /\ store' = Empty
  /\ res' = Reply("close", None, 0, None)

\* A call has started and has not returned.
Begin ==
  /\ isOpen
  /\ res' = NoReply
  /\ UNCHANGED <<isOpen, store>>

Accepts(op, k) ==
  CASE op = "update" -> TRUE
    [] op = "insert" -> store[k] = None
    [] OTHER         -> store[k] # None

Write(op, k, v) ==
  /\ isOpen
  /\ Accepts(op, k)
  /\ store' = [store EXCEPT ![k] = v]
  /\ res' = Reply(op, k, 0, None)
  /\ UNCHANGED isOpen

Read(op, k, want) ==
  /\ isOpen
  /\ Accepts(op, k)
  /\ store' = IF op = "remove" THEN [store EXCEPT ![k] = None] ELSE store
  /\ res' = Reply(op, k, 0, IF want THEN store[k] ELSE None)
  /\ UNCHANGED isOpen

Reject(op, k) ==
  /\ isOpen
  /\ ~Accepts(op, k)
  /\ res' = Reply(op, k, 1, None)
  /\ UNCHANGED <<isOpen, store>>

Fail(op, k) ==
  /\ isOpen
  /\ res' = Reply(op, k, -1, None)
  /\ UNCHANGED <<isOpen, store>>

Next ==
  \/ Open
  \/ Close
  \/ Begin
  \/ \E k \in Key :
       \/ \E op \in Writers, v \in Val : Write(op, k, v)
       \/ \E op \in Readers, want \in BOOLEAN : Read(op, k, want)
       \/ \E op \in Writers \union Readers : Reject(op, k) \/ Fail(op, k)

Spec == Init /\ [][Next]_vars
=============================================================================
