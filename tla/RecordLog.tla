----------------------------- MODULE RecordLog -----------------------------
(***************************************************************************)
(* What the layers above kvraw.c rely on: records are added at the end,    *)
(* one at a time, and a record that was added never changes. KVDB writes   *)
(* its variable "log" in this way; KVRaw implements it with bytes.         *)
(***************************************************************************)
EXTENDS Integers, Sequences

CONSTANTS Record

VARIABLES recs

Init == recs = <<>>

\* A handle is opened, with its sentinel.
Open == recs = <<>> /\ Len(recs') = 1 /\ recs' \in Seq(Record)

Close == recs # <<>> /\ recs' = <<>>

Add ==
  /\ recs # <<>>
  /\ recs' \in Seq(Record)
  /\ Len(recs') = Len(recs) + 1
  /\ \A i \in 1 .. Len(recs) : recs'[i] = recs[i]

Next == Open \/ Close \/ Add

Spec == Init /\ [][Next]_recs
=============================================================================
