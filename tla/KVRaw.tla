------------------------------- MODULE KVRaw -------------------------------
(***************************************************************************)
(* kvraw.c over logfs.h: records laid out in an append-only log of bytes.  *)
(*                                                                         *)
(* "disk" is what reached the log, cell by cell; a cell stands for a byte  *)
(* of a key or a value and for a whole field of struct meta, so META_LEN   *)
(* is 5 here. Offsets and sums of offsets and lengths are modulo 2^64, and *)
(* a cell that is read as a field is cut to its width.                     *)
(*                                                                         *)
(* logfs is external: an append may fail after any part of its bytes, and  *)
(* those bytes stay (logfs.h has no call that removes any), while          *)
(* kvraw->size, where the next record is taken to start, does not move.    *)
(* The two disagree from then on: the log is torn. A read from beyond what *)
(* was appended may fail or give anything.                                 *)
(***************************************************************************)
EXTENDS Integers, Sequences, FiniteSets

CONSTANTS
  KeyBytes,   \* keys: non-empty sequences of cells
  ValBytes,   \* values: sequences of cells, <<>> for the tombstone of a removal
  Junk,       \* what the uninitialized "off" of kvraw_open may hold
  KeyRooms, ValRooms,  \* room in the buffers of the callers of kvraw_lookup
  WORD,       \* numbers of a uint64_t (2^64)
  KEY_LENS, VAL_LENS,  \* numbers of the lengths' fields (2^16 and 2^32)
  Capacity,   \* cells that the block device has
  Past,       \* what a read from beyond the log may give
  MaxAppends  \* bound: kvraw_append calls on one handle

META_LEN == 5

\* A block device is smaller than 2^64 by more than the longest record.
ASSUME KVRawAssumption ==
  /\ KeyBytes \subseteq Seq(Nat) \ {<<>>} /\ ValBytes \subseteq Seq(Nat)
  /\ \A k \in KeyBytes : Len(k) < KEY_LENS
  /\ \A v \in ValBytes : Len(v) < VAL_LENS
  /\ WORD \in Nat /\ KEY_LENS \in Nat \ {0, 1} /\ VAL_LENS \in Nat \ {0, 1}
  /\ Capacity \in Nat /\ Capacity + META_LEN + KEY_LENS + VAL_LENS <= WORD
  /\ Junk \subseteq 0 .. WORD - 1 /\ Junk # {} /\ MaxAppends \in Nat
  /\ KeyRooms \subseteq Nat /\ ValRooms \subseteq Nat /\ Past \subseteq Nat

VARIABLES
  isOpen,  \* kvraw_open returned a handle
  disk,    \* the cells in the log
  size,    \* kvraw->size
  torn,    \* an append on this handle failed with some of its cells in the log
  acked,   \* history: what every successful append was given and returned
  tries,   \* history: calls of kvraw_append
  reply    \* the last kvraw_lookup, NoReply after any other call

vars == <<isOpen, disk, size, torn, acked, tries, reply>>

\* An appended record: where the caller was told it is, what it holds, and
\* whether the log was whole when it was appended.
Acked(at, off, k, v) == [at |-> at, off |-> off, key |-> k, val |-> v, clean |-> ~torn]
NoReply == [rc |-> "none", at |-> 0]

-----------------------------------------------------------------------------
MarkK == 75
MarkV == 86
Meta(off, key_len, val_len) == <<MarkK, MarkV, off, key_len, val_len>>
Bytes(off, k, v) == Meta(off, Len(k), Len(v)) \o k \o v
Cells(from, n) == SubSeq(disk, from + 1, from + n)

logfs_read(o, n) == IF o + n <= Len(disk) THEN {Cells(o, n)} ELSE [1 .. n -> Past]

\* The struct meta in the cells of c from o on.
Fields(c, o) ==
  [mark |-> <<c[o + 1], c[o + 2]>>, off |-> c[o + 3] % WORD,
   key_len |-> c[o + 4] % KEY_LENS, val_len |-> c[o + 5] % VAL_LENS]
MetaOf(c) == Fields(c, 0)
MetaAt(o) == Fields(disk, o)

\* Mutant: the record's own lengths are not held against the end of the log.
read_meta_NoEnd(o, meta) ==
  /\ (o + META_LEN) % WORD <= size
  /\ meta.mark = <<MarkK, MarkV>>

\* read_meta accepts offset o, where it reads meta: a mark, and a record that
\* ends within size unless a sum wraps.
read_meta(o, meta) ==
  /\ (o + META_LEN) % WORD <= size
  /\ meta.mark = <<MarkK, MarkV>>
  /\ (o + META_LEN + meta.key_len + meta.val_len) % WORD <= size

\* Mutant: off by one.
KEY_OFF_Short(o) == (o + META_LEN - 1) % WORD
KEY_OFF(o) == (o + META_LEN) % WORD
\* Mutant: the value is read where the key is.
VAL_OFF_AtKey(o, meta) == (o + META_LEN) % WORD
VAL_OFF(o, meta) == (o + META_LEN + meta.key_len) % WORD

Least(a, b) == IF a <= b THEN a ELSE b

-----------------------------------------------------------------------------
Init ==
  /\ isOpen = FALSE /\ disk = <<>> /\ size = 0 /\ torn = FALSE
  /\ acked = <<>> /\ tries = 0 /\ reply = NoReply

\* The append of the sentinel links to whatever "off" held.
kvraw_open ==
  /\ ~isOpen
  /\ \E junk \in Junk :
       LET b == Bytes(junk, <<0>>, <<0>>)
       IN /\ Len(b) <= Capacity
          /\ disk' = b /\ size' = Len(b)
          /\ acked' = <<Acked(0, junk, <<0>>, <<0>>)>>
  /\ isOpen' = TRUE /\ torn' = FALSE /\ tries' = 0 /\ reply' = NoReply

\* kvraw_open failed after a malloc, logfs_open or the sentinel; its cleanup
\* and kvraw_close leave nothing.
kvraw_close ==
  /\ isOpen
  /\ isOpen' = FALSE /\ disk' = <<>> /\ size' = 0 /\ torn' = FALSE
  /\ acked' = <<>> /\ tries' = 0 /\ reply' = NoReply

Starts == {acked[i].at : i \in DOMAIN acked}

\* Mutant: the size moves although the appends fail.
AppendFails_SizeFirst(off, k, v) ==
  /\ \E n \in 0 .. Len(Bytes(off, k, v)) :
       /\ Len(disk) + n <= Capacity
       /\ disk' = disk \o SubSeq(Bytes(off, k, v), 1, n) /\ torn' = (torn \/ n > 0)
  /\ size' = size + Len(Bytes(off, k, v)) /\ UNCHANGED acked

\* One of the three logfs_append calls fails, having added any number of cells.
AppendFails(off, k, v) ==
  /\ \E n \in 0 .. Len(Bytes(off, k, v)) :
       /\ Len(disk) + n <= Capacity
       /\ disk' = disk \o SubSeq(Bytes(off, k, v), 1, n) /\ torn' = (torn \/ n > 0)
  /\ UNCHANGED <<size, acked>>

\* Mutant: the record links to itself, the reference being overwritten first.
AppendEnds_LateLink(off, k, v) ==
  LET b == Bytes(size, k, v)
  IN /\ Len(disk) + Len(b) <= Capacity
     /\ disk' = disk \o b /\ size' = size + Len(b)
     /\ acked' = Append(acked, Acked(size, off, k, v))
     /\ UNCHANGED torn

AppendEnds(off, k, v) ==
  LET b == Bytes(off, k, v)
  IN /\ Len(disk) + Len(b) <= Capacity
     /\ disk' = disk \o b /\ size' = size + Len(b)
     /\ acked' = Append(acked, Acked(size, off, k, v))
     /\ UNCHANGED torn

\* off is 0 or what an earlier call stored there: kvdb.c keeps it in the index.
kvraw_append ==
  /\ isOpen /\ tries < MaxAppends
  /\ \E off \in Starts, k \in KeyBytes, v \in ValBytes :
       AppendEnds(off, k, v) \/ AppendFails(off, k, v)
  /\ tries' = tries + 1 /\ reply' = NoReply /\ UNCHANGED isOpen

\* Where the chain walk of kvdb.c looks: at a record it was given the offset
\* of, or where the record it has just read points to.
Asked == (Starts \union (IF reply.rc = "ok" THEN {reply.off} ELSE {})) \ {0}

\* The buffers hold room_k and room_v cells; the lengths returned are those of
\* the record. Without a record at o the call fails; the reads may fail too.
kvraw_lookup(o, room_k, room_v) ==
  /\ isOpen
  /\ \/ reply' = [rc |-> "io", at |-> o]
     \/ \E c \in logfs_read(o, META_LEN) :
          \/ ~read_meta(o, MetaOf(c)) /\ reply' = [rc |-> "corrupt", at |-> o]
          \/ LET meta == MetaOf(c)
             IN /\ read_meta(o, meta)
                /\ \E k \in logfs_read(KEY_OFF(o), Least(meta.key_len, room_k)),
                      v \in logfs_read(VAL_OFF(o, meta), Least(meta.val_len, room_v)) :
                     reply' = [rc |-> "ok", at |-> o, off |-> meta.off,
                               key_len |-> meta.key_len, val_len |-> meta.val_len,
                               room |-> <<room_k, room_v>>, key |-> k, val |-> v]
  /\ UNCHANGED <<isOpen, disk, size, torn, acked, tries>>

Next ==
  \/ kvraw_open
  \/ kvraw_close
  \/ kvraw_append
  \/ \E o \in Asked, room_k \in KeyRooms, room_v \in ValRooms : kvraw_lookup(o, room_k, room_v)

Spec == Init /\ [][Next]_vars

-----------------------------------------------------------------------------
(***************************************************************************)
(* Properties.                                                             *)
(***************************************************************************)
TypeOK ==
  /\ isOpen \in BOOLEAN /\ torn \in BOOLEAN
  /\ disk \in Seq(Nat) /\ size \in 0 .. Len(disk)
  /\ Len(disk) <= Capacity /\ (~torn => size = Len(disk))
  /\ tries \in 0 .. MaxAppends
  /\ \A i \in DOMAIN acked : acked[i].at \in 0 .. size

\* The record a read at r.at must find.
HoldsAt(r) ==
  LET meta == MetaAt(r.at)
  IN /\ read_meta(r.at, meta)
     /\ meta.off = r.off /\ meta.key_len = Len(r.key) /\ meta.val_len = Len(r.val)
     /\ Cells(KEY_OFF(r.at), Len(r.key)) = r.key
     /\ Cells(VAL_OFF(r.at, meta), Len(r.val)) = r.val

CleanRecords == {acked[i] : i \in {j \in DOMAIN acked : acked[j].clean}}

(* Reads: a lookup of a record appended to a whole log, made at any later     *)
(* time and also after the log was torn, finds the record: its link, its      *)
(* lengths, and as much of its key and value as the buffers hold. It never    *)
(* reports corrupt data there. (kvraw_lookup against kvraw_append)            *)
LookupFaithful ==
  \A r \in CleanRecords :
    reply.rc # "none" /\ reply.at = r.at =>
      \/ reply.rc = "io"
      \/ /\ reply.rc = "ok" /\ reply.off = r.off
         /\ reply.key_len = Len(r.key) /\ reply.val_len = Len(r.val)
         /\ reply.key = SubSeq(r.key, 1, Least(Len(r.key), reply.room[1]))
         /\ reply.val = SubSeq(r.val, 1, Least(Len(r.val), reply.room[2]))

(* Walks: from a record appended to a whole log a walk goes to records of the *)
(* same kind, each below the one before, until it reaches the sentinel.       *)
(* (the offsets kvraw_append returns, and the loop of chain_lookup)           *)
WalkStaysOnRecords ==
  \A r \in CleanRecords :
    r.at # 0 => \E q \in CleanRecords : q.at = MetaAt(r.at).off /\ q.at < r.at

(* Bounds: what a lookup gives is from within kvraw->size. On a torn log the  *)
(* link it follows may have been misread; even then it gives nothing from     *)
(* beyond, unless the link is so near 2^64 that adding the length of a struct *)
(* meta wraps. (the two length checks of read_meta, kvraw.c:36, 44-46, and    *)
(* the links that kvraw_append stores)                                        *)
ReadsWithinSize ==
  reply.rc = "ok" =>
    \/ reply.at + META_LEN + Len(reply.key) + Len(reply.val) <= size
    \/ torn /\ reply.at + META_LEN >= WORD

(* The database's own test looks up what it has just inserted and takes       *)
(* anything but the record for an error: every append that succeeded reads    *)
(* back. (main.c:97-100)                                                      *)
AppendsReadBack == \A i \in DOMAIN acked : HoldsAt(acked[i])

(* The bytes implement RecordLog: whatever is appended or fails, the records  *)
(* appended to a whole log stay as they are. The records are decoded from the *)
(* bytes, so this fails as soon as a cell of one of them is read elsewhere.   *)
Decoded(o) ==
  LET meta == MetaAt(o)
  IN [off |-> meta.off,
      key |-> Cells(KEY_OFF(o), meta.key_len),
      val |-> Cells(VAL_OFF(o, meta), meta.val_len)]
NumClean == Cardinality({i \in DOMAIN acked : acked[i].clean})
AppendedRecord ==
  [off : Nat, key : KeyBytes \union {<<0>>}, val : ValBytes \union {<<0>>}]
Log == INSTANCE RecordLog WITH
         Record <- AppendedRecord,
         recs <- [i \in 1 .. NumClean |-> Decoded(acked[i].at)]
ImplementsLog == Log!Spec
=============================================================================
