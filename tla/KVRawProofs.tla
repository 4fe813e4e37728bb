---------------------------- MODULE KVRawProofs ----------------------------
(***************************************************************************)
(* Proofs about KVRaw, for any keys and values, any number of appends and  *)
(* any of them failing at any cell: what was appended to a whole log is    *)
(* read back, walks stay on such records, no read leaves the log, and the  *)
(* bytes implement a log of records.                                       *)
(***************************************************************************)
EXTENDS KVRaw, TLAPS, SequenceTheorems, FiniteSetTheorems

Entry == [at : Nat, off : Nat, key : Seq(Nat), val : Seq(Nat), clean : BOOLEAN]
Keys == KeyBytes \union {<<0>>}
Vals == ValBytes \union {<<0>>}

Typed ==
  /\ isOpen \in BOOLEAN /\ torn \in BOOLEAN /\ tries \in 0 .. MaxAppends
  /\ disk \in Seq(Nat) /\ size \in Nat /\ size <= Len(disk) /\ Len(disk) <= Capacity
  /\ ~torn => size = Len(disk)
  /\ acked \in Seq(Entry)
  /\ \A k \in 1 .. Len(acked) :
       /\ acked[k].key \in Keys /\ acked[k].val \in Vals
       /\ acked[k].at < size /\ acked[k].off < WORD

(* A handle has its sentinel, and nothing is left of a closed one.           *)
Handle ==
  /\ isOpen <=> acked # <<>>
  /\ ~isOpen => ~torn /\ size = 0
  /\ isOpen => acked[1].at = 0 /\ acked[1].clean

(* Once the log is torn it stays so: the records appended before come first. *)
CleanFirst ==
  \E m \in 0 .. Len(acked) :
    /\ \A k \in 1 .. Len(acked) : acked[k].clean <=> k <= m
    /\ ~torn => m = Len(acked)

(* The cells of a record are where its caller was told that it starts.       *)
PlacedIn(d, end, at, off, k, v) ==
  /\ at + 5 + Len(k) + Len(v) <= end
  /\ d[at + 1] = MarkK /\ d[at + 2] = MarkV /\ d[at + 3] = off
  /\ d[at + 4] = Len(k) /\ d[at + 5] = Len(v)
  /\ \A c \in 1 .. Len(k) : d[at + 5 + c] = k[c]
  /\ \A c \in 1 .. Len(v) : d[at + 5 + Len(k) + c] = v[c]
Placed(r) == PlacedIn(disk, size, r.at, r.off, r.key, r.val)
Kept == \A k \in 1 .. Len(acked) : acked[k].clean => Placed(acked[k])

(* Such a record links to an earlier one of the same kind, or is the         *)
(* sentinel.                                                                 *)
Linked ==
  \A k \in 1 .. Len(acked) :
    acked[k].clean /\ acked[k].at # 0 =>
      \E l \in 1 .. Len(acked) :
        acked[l].clean /\ acked[l].at = acked[k].off /\ acked[l].at < acked[k].at

(* A link read is a number of its field, and in a whole log it is the offset *)
(* of a record.                                                              *)
LinkRead ==
  reply.rc = "ok" => reply.off \in 0 .. WORD - 1 /\ (~torn => reply.off \in Starts)

IInv ==
  /\ Typed /\ Handle /\ CleanFirst /\ Kept /\ Linked /\ LinkRead
  /\ LookupFaithful /\ ReadsWithinSize

-----------------------------------------------------------------------------
(* What the keys and values of appends are.                                  *)
LEMMA KeysAreCells ==
  /\ \A k \in Keys : k \in Seq(Nat) /\ Len(k) \in Nat \ {0} /\ Len(k) < KEY_LENS
  /\ \A v \in Vals : v \in Seq(Nat) /\ Len(v) \in Nat /\ Len(v) < VAL_LENS
<1>1. <<0>> \in Seq(Nat) /\ Len(<<0>>) = 1
  OBVIOUS
<1>2. \A k \in KeyBytes : k \in Seq(Nat) /\ k # <<>> /\ Len(k) < KEY_LENS
  BY KVRawAssumption
<1>3. \A k \in Seq(Nat) : Len(k) \in Nat /\ (k # <<>> => Len(k) # 0)
  BY EmptySeq, LenProperties
<1>4. \A v \in ValBytes : v \in Seq(Nat) /\ Len(v) < VAL_LENS
  BY KVRawAssumption
<1>5. 1 < KEY_LENS /\ 1 < VAL_LENS
  BY KVRawAssumption
<1>6. QED
  BY <1>1, <1>2, <1>3, <1>4, <1>5 DEF Keys, Vals

(* Numbers that fit their width are not cut, and what is cut fits.           *)
LEMMA ModSmall ==
  ASSUME NEW w \in Nat, NEW x \in Nat, x < w
  PROVE  x % w = x
  OBVIOUS

LEMMA ModRange ==
  ASSUME NEW w \in Nat \ {0}, NEW x \in Nat
  PROVE  x % w \in Nat /\ x % w < w
  OBVIOUS

(* A device leaves room in an offset for one more record of any lengths.     *)
LEMMA Widths ==
  /\ WORD \in Nat \ {0} /\ KEY_LENS \in Nat \ {0} /\ VAL_LENS \in Nat \ {0}
  /\ Capacity \in Nat /\ Capacity + 5 + KEY_LENS + VAL_LENS <= WORD
  BY KVRawAssumption DEF META_LEN

(* Adding cells at the end of the log leaves those before alone.             *)
LEMMA AddCells ==
  ASSUME NEW d \in Seq(Nat), NEW b \in Seq(Nat)
  PROVE  /\ d \o b \in Seq(Nat) /\ Len(d \o b) = Len(d) + Len(b)
         /\ \A c \in 1 .. Len(d) : (d \o b)[c] = d[c]
         /\ \A c \in 1 .. Len(b) : (d \o b)[Len(d) + c] = b[c]
         /\ Len(d) \in Nat /\ Len(b) \in Nat
<1>1. Len(d) \in Nat /\ Len(b) \in Nat
  BY LenProperties
<1>2. QED
  BY <1>1, ConcatProperties

(* The cells that an append of a record adds.                                *)
AreCellsOf(b, off, k, v) ==
  /\ b \in Seq(Nat) /\ Len(b) = 5 + Len(k) + Len(v)
  /\ b[1] = MarkK /\ b[2] = MarkV /\ b[3] = off
  /\ b[4] = Len(k) /\ b[5] = Len(v)
  /\ \A c \in 1 .. Len(k) : b[5 + c] = k[c]
  /\ \A c \in 1 .. Len(v) : b[5 + Len(k) + c] = v[c]
  /\ Len(k) \in Nat /\ Len(v) \in Nat

LEMMA CellsOfRecord ==
  ASSUME NEW off \in Nat, NEW k \in Keys, NEW v \in Vals
  PROVE  AreCellsOf(Bytes(off, k, v), off, k, v)
<1> DEFINE b == Bytes(off, k, v)
           m == Meta(off, Len(k), Len(v))
           mk == m \o k
<1>0. b = mk \o v
  BY DEF Bytes
<1> HIDE DEF b
<1>1. k \in Seq(Nat) /\ Len(k) \in Nat /\ v \in Seq(Nat) /\ Len(v) \in Nat
  BY KeysAreCells
<1>2. /\ m \in Seq(Nat) /\ Len(m) = 5
      /\ m[1] = MarkK /\ m[2] = MarkV /\ m[3] = off /\ m[4] = Len(k) /\ m[5] = Len(v)
  BY <1>1 DEF Meta, MarkK, MarkV
<1> HIDE DEF m
<1>3. /\ mk \in Seq(Nat) /\ Len(mk) = 5 + Len(k)
      /\ \A c \in 1 .. 5 : mk[c] = m[c]
      /\ \A c \in 1 .. Len(k) : mk[5 + c] = k[c]
  <2> HIDE DEF mk
  <2>1. /\ mk \in Seq(Nat) /\ Len(mk) = Len(m) + Len(k)
        /\ \A c \in 1 .. Len(m) : mk[c] = m[c]
        /\ \A c \in 1 .. Len(k) : mk[Len(m) + c] = k[c]
    BY <1>1, <1>2, AddCells, Zenon DEF mk
  <2>2. QED
    BY <1>2, <2>1
<1> HIDE DEF mk
<1>4. /\ b \in Seq(Nat) /\ Len(b) = 5 + Len(k) + Len(v)
      /\ \A c \in 1 .. 5 + Len(k) : b[c] = mk[c]
      /\ \A c \in 1 .. Len(v) : b[5 + Len(k) + c] = v[c]
  <2> DEFINE e == mk \o v
  <2> HIDE DEF e
  <2>1. /\ e \in Seq(Nat) /\ Len(e) = Len(mk) + Len(v)
        /\ \A c \in 1 .. Len(mk) : e[c] = mk[c]
        /\ \A c \in 1 .. Len(v) : e[Len(mk) + c] = v[c]
    BY <1>1, <1>3, AddCells, Zenon DEF e
  <2>2. e = b
    BY <1>0 DEF e
  <2>3. QED
    BY <1>3, <2>1, <2>2
<1>6. ASSUME NEW c \in 1 .. 5 PROVE b[c] = m[c]
  <2>1. c \in 1 .. 5 + Len(k)
    BY <1>1
  <2>2. QED
    BY <1>3, <1>4, <2>1
<1>7. ASSUME NEW c \in 1 .. Len(k) PROVE b[5 + c] = k[c]
  <2>1. 5 + c \in 1 .. 5 + Len(k)
    BY <1>1
  <2>2. QED
    BY <1>3, <1>4, <2>1
<1>8. QED
  BY <1>1, <1>2, <1>4, <1>6, <1>7, SMTT(40) DEF AreCellsOf, b

(* A record stays placed as long as no cell below the size changes.          *)
LEMMA PlacedStays ==
  ASSUME NEW at \in Nat, NEW off, NEW k \in Seq(Nat), NEW v \in Seq(Nat),
         NEW d, NEW d2, NEW end \in Nat, NEW end2 \in Nat, end <= end2,
         PlacedIn(d, end, at, off, k, v), \A c \in 1 .. end : d2[c] = d[c]
  PROVE  PlacedIn(d2, end2, at, off, k, v)
<1>1. /\ Len(k) \in Nat /\ Len(v) \in Nat
      /\ at + 5 + Len(k) + Len(v) <= end
  BY LenProperties DEF PlacedIn
<1>2. ASSUME NEW c \in 1 .. 5 + Len(k) + Len(v) PROVE d2[at + c] = d[at + c]
  <2>1. at + c \in 1 .. end
    BY <1>1
  <2>2. QED
    BY <2>1
<1>3. /\ d2[at + 1] = d[at + 1] /\ d2[at + 2] = d[at + 2] /\ d2[at + 3] = d[at + 3]
      /\ d2[at + 4] = d[at + 4] /\ d2[at + 5] = d[at + 5]
  BY <1>1, <1>2
<1>4. \A c \in 1 .. Len(k) : d2[at + 5 + c] = d[at + 5 + c]
  BY <1>1
<1>5. \A c \in 1 .. Len(v) : d2[at + 5 + Len(k) + c] = d[at + 5 + Len(k) + c]
  BY <1>1
<1>6. at + 5 + Len(k) + Len(v) <= end2
  BY <1>1
<1>7. QED
  BY <1>3, <1>4, <1>5, <1>6, Zenon DEF PlacedIn

(* A record that was added at the end of a whole log is placed there.        *)
LEMMA PlacedAtEnd ==
  ASSUME NEW d \in Seq(Nat), NEW off, NEW k, NEW v, NEW b, AreCellsOf(b, off, k, v)
  PROVE  PlacedIn(d \o b, Len(d) + Len(b), Len(d), off, k, v)
<1> DEFINE e == d \o b
           n == Len(d)
<1>1. /\ b \in Seq(Nat) /\ Len(b) = 5 + Len(k) + Len(v)
      /\ b[1] = MarkK /\ b[2] = MarkV /\ b[3] = off
      /\ b[4] = Len(k) /\ b[5] = Len(v)
      /\ \A c \in 1 .. Len(k) : b[5 + c] = k[c]
      /\ \A c \in 1 .. Len(v) : b[5 + Len(k) + c] = v[c]
      /\ Len(k) \in Nat /\ Len(v) \in Nat
  BY DEF AreCellsOf
<1>2. n \in Nat /\ \A c \in 1 .. Len(b) : e[n + c] = b[c]
  BY <1>1, AddCells
<1> HIDE DEF e, n
<1>3. ASSUME NEW c \in 1 .. 5 PROVE e[n + c] = b[c]
  <2>1. c \in 1 .. Len(b)
    BY <1>1, SMTT(40)
  <2>2. QED
    BY <1>2, <2>1
<1>4. ASSUME NEW c \in 1 .. Len(k) PROVE e[n + 5 + c] = k[c]
  <2>1. 5 + c \in 1 .. Len(b) /\ n + 5 + c = n + (5 + c)
    BY <1>1, <1>2
  <2>2. QED
    BY <1>1, <1>2, <2>1
<1>5. ASSUME NEW c \in 1 .. Len(v) PROVE e[n + 5 + Len(k) + c] = v[c]
  <2>1. /\ 5 + Len(k) + c \in 1 .. Len(b)
        /\ n + 5 + Len(k) + c = n + (5 + Len(k) + c)
    BY <1>1, <1>2
  <2>2. QED
    BY <1>1, <1>2, <2>1
<1>6. n + 5 + Len(k) + Len(v) <= n + Len(b)
  BY <1>1, <1>2
<1>7. /\ e[n + 1] = b[1] /\ e[n + 2] = b[2] /\ e[n + 3] = b[3]
      /\ e[n + 4] = b[4] /\ e[n + 5] = b[5]
  BY <1>3
<1>8. PlacedIn(e, n + Len(b), n, off, k, v)
  BY <1>1, <1>4, <1>5, <1>6, <1>7, Zenon DEF PlacedIn
<1>9. QED
  BY <1>8 DEF e, n

(* A part of the log, cell by cell.                                          *)
LEMMA CellsProperties ==
  ASSUME disk \in Seq(Nat), NEW from \in Nat, NEW n \in Nat, from + n <= Len(disk)
  PROVE  /\ Cells(from, n) \in Seq(Nat) /\ Len(Cells(from, n)) = n
         /\ \A c \in 1 .. n : Cells(from, n)[c] = disk[from + c]
<1> DEFINE lo == from + 1
           hi == from + n
           part == SubSeq(disk, lo, hi)
<1>1. Len(disk) \in Nat /\ \A c \in 1 .. Len(disk) : disk[c] \in Nat
  BY LenProperties, ElementOfSeq
<1>2. /\ lo \in Int /\ hi \in Int /\ hi - lo + 1 = n
      /\ \A c \in lo .. hi : disk[c] \in Nat
      /\ \A c \in 1 .. n : lo + c - 1 = from + c
      /\ (IF lo <= hi THEN hi - lo + 1 ELSE 0) = n
  BY <1>1
<1> HIDE DEF lo, hi
<1>3. /\ part \in Seq(Nat) /\ Len(part) = (IF lo <= hi THEN hi - lo + 1 ELSE 0)
      /\ \A c \in 1 .. hi - lo + 1 : part[c] = disk[lo + c - 1]
  BY <1>2, SubSeqProperties
<1>4. Cells(from, n) = part
  BY DEF Cells, lo, hi
<1> HIDE DEF part
<1>5. QED
  BY <1>2, <1>3, <1>4

(* Cells that agree with a sequence, and its beginnings.                     *)
LEMMA CellsAgree ==
  ASSUME disk \in Seq(Nat), NEW from \in Nat, NEW s \in Seq(Nat),
         from + Len(s) <= Len(disk), \A c \in 1 .. Len(s) : disk[from + c] = s[c],
         NEW n \in 0 .. Len(s)
  PROVE  Cells(from, n) = SubSeq(s, 1, n)
<1> DEFINE left == Cells(from, n)
           right == SubSeq(s, 1, n)
<1>1. Len(s) \in Nat /\ Len(disk) \in Nat /\ n \in Nat /\ from + n <= Len(disk)
  BY LenProperties
<1>2. /\ left \in Seq(Nat) /\ Len(left) = n
      /\ \A c \in 1 .. n : left[c] = disk[from + c]
  BY <1>1, CellsProperties
<1>3. \A c \in 1 .. n : s[c] \in Nat
  <2>1. \A c \in 1 .. n : c \in 1 .. Len(s)
    BY <1>1
  <2>2. QED
    BY <2>1, ElementOfSeq
<1> HIDE DEF left
<1>4. /\ right \in Seq(Nat) /\ Len(right) = n
      /\ \A c \in 1 .. n : right[c] = s[c]
  BY <1>1, <1>3, SubSeqProperties
<1> HIDE DEF right
<1>5. ASSUME NEW c \in 1 .. n PROVE left[c] = right[c]
  <2>1. c \in 1 .. Len(s)
    BY <1>1
  <2>2. QED
    BY <1>2, <1>4, <2>1
<1>6. left = right
  BY <1>2, <1>4, <1>5, SeqEqual
<1>7. QED
  BY <1>6 DEF left, right

(* The fields of a struct meta.                                              *)
LEMMA MetaFields ==
  \A c : MetaOf(c) = [mark |-> <<c[1], c[2]>>, off |-> c[3] % WORD,
                      key_len |-> c[4] % KEY_LENS, val_len |-> c[5] % VAL_LENS]
<1>1. 0 + 1 = 1 /\ 0 + 2 = 2 /\ 0 + 3 = 3 /\ 0 + 4 = 4 /\ 0 + 5 = 5
  OBVIOUS
<1>2. QED
  BY <1>1, Zenon DEF MetaOf, Fields

(* What is read at o as a struct meta, where the log has cells.              *)
LEMMA MetaIsRead ==
  ASSUME disk \in Seq(Nat), NEW o \in Nat, o + 5 <= Len(disk)
  PROVE  /\ logfs_read(o, META_LEN) = {Cells(o, META_LEN)}
         /\ MetaOf(Cells(o, META_LEN)) = MetaAt(o)
         /\ MetaAt(o).mark = <<disk[o + 1], disk[o + 2]>>
         /\ MetaAt(o).off = disk[o + 3] % WORD
         /\ MetaAt(o).key_len = disk[o + 4] % KEY_LENS
         /\ MetaAt(o).val_len = disk[o + 5] % VAL_LENS
<1> DEFINE c == Cells(o, META_LEN)
<1>1. META_LEN = 5 /\ 5 \in Nat
  BY DEF META_LEN
<1>2. \A n \in 1 .. 5 : c[n] = disk[o + n]
  BY <1>1, CellsProperties
<1> HIDE DEF c
<1>3. /\ c[1] = disk[o + 1] /\ c[2] = disk[o + 2] /\ c[3] = disk[o + 3]
      /\ c[4] = disk[o + 4] /\ c[5] = disk[o + 5]
  BY <1>2
<1>4. MetaOf(c) = MetaAt(o)
  BY <1>3, MetaFields, Zenon DEF MetaAt, Fields
<1>5. logfs_read(o, META_LEN) = {Cells(o, META_LEN)}
  BY <1>1 DEF logfs_read
<1>6. QED
  BY <1>4, <1>5 DEF c, MetaAt, Fields

(* A record that is placed is read: the mark, the link and lengths, and as   *)
(* much of the key and value as is asked for.                                *)
LEMMA PlacedIsRead ==
  ASSUME disk \in Seq(Nat), size \in Nat, size <= Len(disk), Len(disk) <= Capacity,
         NEW at \in Nat, NEW off \in Nat, off < WORD,
         NEW k \in Keys, NEW v \in Vals,
         PlacedIn(disk, size, at, off, k, v)
  PROVE  /\ at + 5 + Len(k) + Len(v) <= size
         /\ read_meta(at, MetaAt(at))
         /\ MetaAt(at).off = off /\ MetaAt(at).key_len = Len(k)
         /\ MetaAt(at).val_len = Len(v)
         /\ \A n \in 0 .. Len(k) : Cells(KEY_OFF(at), n) = SubSeq(k, 1, n)
         /\ \A n \in 0 .. Len(v) : Cells(VAL_OFF(at, MetaAt(at)), n) = SubSeq(v, 1, n)
         /\ Decoded(at) = [off |-> off, key |-> k, val |-> v]
<1>0. /\ k \in Seq(Nat) /\ Len(k) \in Nat /\ Len(k) < KEY_LENS
      /\ v \in Seq(Nat) /\ Len(v) \in Nat /\ Len(v) < VAL_LENS
  BY KeysAreCells
<1>1. Len(disk) \in Nat /\ at + 5 + Len(k) + Len(v) <= size
  BY LenProperties DEF PlacedIn
<1>2. /\ disk[at + 1] = 75 /\ disk[at + 2] = 86 /\ disk[at + 3] = off
      /\ disk[at + 4] = Len(k) /\ disk[at + 5] = Len(v)
  BY Zenon DEF PlacedIn, MarkK, MarkV
<1>3. /\ MetaAt(at).mark = <<MarkK, MarkV>> /\ MetaAt(at).off = off
      /\ MetaAt(at).key_len = Len(k) /\ MetaAt(at).val_len = Len(v)
  <2>1. at + 5 <= Len(disk)
    BY <1>0, <1>1
  <2>2. off % WORD = off /\ Len(k) % KEY_LENS = Len(k) /\ Len(v) % VAL_LENS = Len(v)
    BY <1>0, ModSmall, Widths
  <2>3. QED
    BY ZenonT(60), <1>2, <2>1, <2>2, MetaIsRead DEF MarkK, MarkV
<1>4. /\ (at + 5) % WORD = at + 5
      /\ (at + 5 + Len(k)) % WORD = at + 5 + Len(k)
      /\ (at + 5 + Len(k) + Len(v)) % WORD = at + 5 + Len(k) + Len(v)
  <2>1. /\ at + 5 \in Nat /\ at + 5 + Len(k) \in Nat /\ at + 5 + Len(k) + Len(v) \in Nat
        /\ at + 5 + Len(k) + Len(v) < WORD /\ at + 5 + Len(k) < WORD /\ at + 5 < WORD
    BY <1>0, <1>1, Widths
  <2>2. QED
    BY <2>1, ModSmall, Widths
<1>5. read_meta(at, MetaAt(at))
  <2>1. at + 5 <= size
    BY <1>0, <1>1
  <2>2. QED
    BY <1>1, <1>3, <1>4, <2>1 DEF read_meta, META_LEN
<1>6. KEY_OFF(at) = at + 5 /\ VAL_OFF(at, MetaAt(at)) = at + 5 + Len(k)
  BY <1>3, <1>4 DEF KEY_OFF, VAL_OFF, META_LEN
<1>7. \A n \in 0 .. Len(k) : Cells(at + 5, n) = SubSeq(k, 1, n)
  <2>1. /\ at + 5 \in Nat /\ at + 5 + Len(k) <= Len(disk)
    BY <1>0, <1>1
  <2>2. \A c \in 1 .. Len(k) : disk[at + 5 + c] = k[c]
    BY Zenon DEF PlacedIn
  <2>3. QED
    BY <1>0, <2>1, <2>2, CellsAgree
<1>8. \A n \in 0 .. Len(v) : Cells(at + 5 + Len(k), n) = SubSeq(v, 1, n)
  <2>1. /\ at + 5 + Len(k) \in Nat /\ at + 5 + Len(k) + Len(v) <= Len(disk)
    BY <1>0, <1>1
  <2>2. \A c \in 1 .. Len(v) : disk[at + 5 + Len(k) + c] = v[c]
    BY Zenon DEF PlacedIn
  <2>3. QED
    BY <1>0, <2>1, <2>2, CellsAgree
<1>9. SubSeq(k, 1, Len(k)) = k /\ SubSeq(v, 1, Len(v)) = v
  BY <1>0, SubSeqFull
<1>10. Decoded(at) = [off |-> off, key |-> k, val |-> v]
  <2>0. Len(k) \in 0 .. Len(k) /\ Len(v) \in 0 .. Len(v)
    BY <1>0
  <2>1. /\ Cells(KEY_OFF(at), Len(k)) = k
        /\ Cells(VAL_OFF(at, MetaAt(at)), Len(v)) = v
    BY <1>6, <1>7, <1>8, <1>9, <2>0, Zenon
  <2>2. /\ Cells(KEY_OFF(at), MetaAt(at).key_len) = k
        /\ Cells(VAL_OFF(at, MetaAt(at)), MetaAt(at).val_len) = v
    BY <1>3, <2>1, Zenon
  <2>3. QED
    BY <1>3, <2>1, <2>2 DEF Decoded
<1>11. QED
  BY <1>1, <1>3, <1>5, <1>6, <1>7, <1>8, <1>10
-----------------------------------------------------------------------------
(* The entries of the history, field by field.                               *)
LEMMA EntryTypes ==
  ASSUME Typed
  PROVE  /\ DOMAIN acked = 1 .. Len(acked) /\ Len(acked) \in Nat
         /\ \A k \in 1 .. Len(acked) :
              /\ acked[k] \in Entry
              /\ acked[k].at \in Nat /\ acked[k].off \in Nat /\ acked[k].clean \in BOOLEAN
              /\ acked[k].key \in Seq(Nat) /\ acked[k].val \in Seq(Nat)
              /\ acked[k].at < size /\ acked[k].off < WORD
              /\ acked[k].key \in Keys /\ acked[k].val \in Vals
<1>1. acked \in Seq(Entry)
  BY DEF Typed
<1>2. DOMAIN acked = 1 .. Len(acked) /\ Len(acked) \in Nat
  BY <1>1, LenProperties
<1>3. \A k \in 1 .. Len(acked) : acked[k] \in Entry
  BY <1>1, ElementOfSeq
<1>4. \A k \in 1 .. Len(acked) :
        /\ acked[k].at < size /\ acked[k].off < WORD
        /\ acked[k].key \in Keys /\ acked[k].val \in Vals
  BY DEF Typed
<1>5. QED
  BY <1>2, <1>3, <1>4 DEF Entry

(* What a caller may link to: a record, and one that is read back as long as *)
(* the log is whole.                                                         *)
LEMMA StartsAreRecords ==
  ASSUME Typed, CleanFirst, NEW off \in Starts
  PROVE  /\ off \in Nat /\ off < size
         /\ ~torn => \E l \in 1 .. Len(acked) : acked[l].clean /\ acked[l].at = off
<1>1. PICK l \in 1 .. Len(acked) : off = acked[l].at
  BY EntryTypes DEF Starts
<1>2. ~torn => acked[l].clean
  BY DEF CleanFirst
<1>3. QED
  BY <1>1, <1>2, EntryTypes

(* Any step that hands out no record and forgets the reply.                  *)
LEMMA NothingRead ==
  ASSUME reply' = NoReply
  PROVE  LinkRead' /\ LookupFaithful' /\ ReadsWithinSize'
<1>1. reply'.rc = "none"
  BY DEF NoReply
<1>2. QED
  BY <1>1 DEF LinkRead, LookupFaithful, ReadsWithinSize

(* The records of a whole log stay where they are when cells are added.      *)
LEMMA KeptStays ==
  ASSUME Typed, Kept, NEW b \in Seq(Nat), disk' = disk \o b,
         size' \in Nat, size <= size', NEW k \in 1 .. Len(acked), acked[k].clean
  PROVE  PlacedIn(disk', size', acked[k].at, acked[k].off, acked[k].key, acked[k].val)
<1>1. \A c \in 1 .. size : disk'[c] = disk[c]
  <2>1. disk \in Seq(Nat) /\ Len(disk) \in Nat /\ size \in Nat /\ size <= Len(disk)
    BY LenProperties DEF Typed
  <2>2. \A c \in 1 .. Len(disk) : disk'[c] = disk[c]
    BY <2>1, AddCells
  <2>3. QED
    BY <2>1, <2>2
<1>2. PlacedIn(disk, size, acked[k].at, acked[k].off, acked[k].key, acked[k].val)
  BY DEF Kept, Placed
<1>3. /\ acked[k].at \in Nat /\ acked[k].key \in Seq(Nat) /\ acked[k].val \in Seq(Nat)
      /\ size \in Nat
  BY EntryTypes DEF Typed
<1>4. QED
  BY <1>1, <1>2, <1>3, PlacedStays

(* A handle is opened: its log holds the sentinel, which links to whatever   *)
(* off held.                                                                 *)
LEMMA OpenKeeps ==
  ASSUME IInv, kvraw_open
  PROVE  IInv'
<1>1. PICK junk \in Junk :
        /\ disk' = Bytes(junk, <<0>>, <<0>>) /\ size' = Len(Bytes(junk, <<0>>, <<0>>))
        /\ acked' = <<Acked(0, junk, <<0>>, <<0>>)>>
        /\ Len(Bytes(junk, <<0>>, <<0>>)) <= Capacity
  BY DEF kvraw_open
<1> DEFINE b == Bytes(junk, <<0>>, <<0>>)
           e == Acked(0, junk, <<0>>, <<0>>)
<1>2. /\ ~isOpen /\ ~torn /\ isOpen' = TRUE /\ torn' = FALSE /\ tries' = 0
      /\ reply' = NoReply
  BY DEF kvraw_open, IInv, Handle
<1>3. junk \in Nat /\ junk < WORD /\ <<0>> \in Keys /\ <<0>> \in Vals
  BY KVRawAssumption DEF Keys, Vals
<1>4. AreCellsOf(b, junk, <<0>>, <<0>>)
  BY <1>3, CellsOfRecord
<1>5. b \in Seq(Nat) /\ Len(b) = 7
  BY <1>4 DEF AreCellsOf
<1> HIDE DEF b
<1>6. PlacedIn(b, Len(b), 0, junk, <<0>>, <<0>>)
  <2>1. <<>> \in Seq(Nat) /\ Len(<<>>) = 0 /\ <<>> \o b = b /\ 0 + Len(b) = Len(b)
    BY <1>5, ConcatEmptySeq
  <2>2. PlacedIn(<<>> \o b, Len(<<>>) + Len(b), Len(<<>>), junk, <<0>>, <<0>>)
    BY <1>4, <2>1, PlacedAtEnd
  <2>3. QED
    BY <2>1, <2>2
<1>7. /\ e.at = 0 /\ e.off = junk /\ e.key = <<0>> /\ e.val = <<0>> /\ e.clean = TRUE
      /\ e \in Entry
  BY <1>2, <1>3, KeysAreCells DEF Acked, Entry
<1> HIDE DEF e
<1>8. acked' = <<e>> /\ disk' = b /\ size' = Len(b) /\ Len(b) <= Capacity
  BY <1>1 DEF e, b
<1>9. acked' \in Seq(Entry) /\ Len(acked') = 1 /\ acked'[1] = e /\ acked' # <<>>
  BY <1>7, <1>8
<1>10. Typed'
  <2>1. isOpen' \in BOOLEAN /\ torn' \in BOOLEAN
    BY <1>2
  <2>2. tries' \in 0 .. MaxAppends
    BY <1>2, KVRawAssumption
  <2>3. /\ disk' \in Seq(Nat) /\ size' \in Nat /\ size' <= Len(disk')
        /\ size' = Len(disk') /\ size' = 7 /\ Len(disk') <= Capacity
    <3>1. 7 \in Nat /\ 7 <= 7
      OBVIOUS
    <3>2. QED
      BY <1>5, <1>8, <3>1, Zenon
  <2>4. ASSUME NEW l \in 1 .. Len(acked')
        PROVE  /\ acked'[l].key \in Keys /\ acked'[l].val \in Vals
               /\ acked'[l].at < size' /\ acked'[l].off < WORD
    <3>1. l = 1
      BY <1>9
    <3>2. 0 < size'
      BY <2>3
    <3>3. QED
      BY <1>3, <1>7, <1>9, <3>1, <3>2
  <2>5. QED
    BY <1>9, <2>1, <2>2, <2>3, <2>4, Zenon DEF Typed
<1>11. Handle' /\ CleanFirst'
  BY <1>2, <1>7, <1>9 DEF Handle, CleanFirst
<1>12. Kept'
  BY <1>6, <1>7, <1>8, <1>9 DEF Kept, Placed
<1>13. Linked'
  BY <1>7, <1>9 DEF Linked
<1>14. QED
  BY <1>2, <1>10, <1>11, <1>12, <1>13, NothingRead DEF IInv

(* A handle is closed, and its log with it.                                  *)
LEMMA CloseKeeps ==
  ASSUME IInv, kvraw_close
  PROVE  IInv'
<1>1. /\ isOpen' = FALSE /\ disk' = <<>> /\ size' = 0 /\ torn' = FALSE
      /\ acked' = <<>> /\ tries' = 0 /\ reply' = NoReply
  BY DEF kvraw_close
<1>2. Typed'
  <2>1. /\ <<>> \in Seq(Nat) /\ <<>> \in Seq(Entry) /\ Len(<<>>) = 0 /\ 0 \in Nat
        /\ 0 <= 0 /\ 1 .. 0 = {} /\ 0 \in 0 .. MaxAppends /\ 0 <= Capacity
    BY KVRawAssumption
  <2>2. isOpen' \in BOOLEAN /\ torn' \in BOOLEAN
    BY <1>1
  <2>3. QED
    BY <1>1, <2>1, <2>2, Zenon DEF Typed
<1>3. Handle' /\ CleanFirst' /\ Kept' /\ Linked'
  BY <1>1 DEF Handle, CleanFirst, Kept, Linked
<1>4. QED
  BY <1>1, <1>2, <1>3, NothingRead DEF IInv

(* A record is added behind the others: it is placed there if the log is     *)
(* whole, and the others stay.                                               *)
LEMMA AppendKeeps ==
  ASSUME IInv, isOpen, NEW off \in Starts, NEW k \in KeyBytes, NEW v \in ValBytes,
         AppendEnds(off, k, v),
         isOpen' = isOpen, tries' \in 0 .. MaxAppends, reply' = NoReply
  PROVE  IInv'
<1> DEFINE b == Bytes(off, k, v)
           e == Acked(size, off, k, v)
           n == Len(acked)
<1>1. /\ Typed /\ Handle /\ CleanFirst /\ Kept /\ Linked
      /\ torn \in BOOLEAN /\ disk \in Seq(Nat) /\ size \in Nat /\ size <= Len(disk)
      /\ Len(disk) <= Capacity
      /\ (~torn => size = Len(disk)) /\ acked \in Seq(Entry) /\ acked # <<>>
  BY DEF IInv, Typed, Handle
<1>2. /\ disk' = disk \o b /\ size' = size + Len(b) /\ acked' = Append(acked, e)
      /\ torn' = torn /\ Len(disk) + Len(b) <= Capacity
  BY DEF AppendEnds
<1>3. off \in Nat /\ k \in Keys /\ v \in Vals /\ off < size /\ off < WORD
  <2>1. off \in Nat /\ k \in Keys /\ v \in Vals /\ off < size
    BY <1>1, StartsAreRecords DEF Keys, Vals
  <2>2. off < WORD
    BY <1>1, <2>1, Widths, LenProperties
  <2>3. QED
    BY <2>1, <2>2
<1>4. AreCellsOf(b, off, k, v)
  BY <1>3, CellsOfRecord
<1>5. b \in Seq(Nat) /\ Len(b) \in Nat /\ Len(b) > 0
  BY <1>4 DEF AreCellsOf
<1> HIDE DEF b
<1>6. /\ disk' \in Seq(Nat) /\ Len(disk') = Len(disk) + Len(b) /\ Len(disk) \in Nat
      /\ Len(disk') <= Capacity
  BY <1>1, <1>2, <1>5, AddCells
<1>7. /\ e.at = size /\ e.off = off /\ e.key = k /\ e.val = v /\ e.clean = ~torn
      /\ e \in Entry
  BY <1>1, <1>3, KeysAreCells DEF Acked, Entry
<1> HIDE DEF e
<1>8. /\ acked' \in Seq(Entry) /\ n \in Nat /\ Len(acked') = n + 1
      /\ acked'[n + 1] = e /\ \A l \in 1 .. n : acked'[l] = acked[l]
      /\ acked' # <<>>
  BY <1>1, <1>2, <1>7, AppendProperties
<1>9. \A l \in 1 .. n + 1 : l = n + 1 \/ l \in 1 .. n
  BY <1>8
<1>10. size' \in Nat /\ size < size'
  BY <1>1, <1>2, <1>5
<1>11. Typed'
  <2>1. \A l \in 1 .. n : /\ acked[l].key \in Keys /\ acked[l].val \in Vals
                          /\ acked[l].at < size' /\ acked[l].off < WORD
    BY SMTT(30), <1>1, <1>10, EntryTypes DEF Typed
  <2>2. ASSUME NEW l \in 1 .. Len(acked')
        PROVE  /\ acked'[l].key \in Keys /\ acked'[l].val \in Vals
               /\ acked'[l].at < size' /\ acked'[l].off < WORD
    BY <1>3, <1>7, <1>8, <1>9, <1>10, <2>1
  <2>3. size' <= Len(disk') /\ (~torn' => size' = Len(disk'))
    <3>1. size + Len(b) <= Len(disk) + Len(b)
      BY <1>1, <1>5, <1>6
    <3>2. size' <= Len(disk')
      BY <1>2, <1>6, <3>1, Zenon
    <3>3. ~torn' => size + Len(b) = Len(disk) + Len(b)
      BY <1>1, <1>2, Zenon
    <3>4. QED
      BY <1>2, <1>6, <3>2, <3>3, Zenon
  <2>4. isOpen' \in BOOLEAN /\ torn' \in BOOLEAN
    BY <1>1, <1>2 DEF Typed
  <2>5. QED
    BY <1>6, <1>8, <1>10, <2>2, <2>3, <2>4 DEF Typed
<1>12. Handle'
  <2>1. 1 \in 1 .. n
    BY <1>1, EmptySeq, LenProperties
  <2>2. QED
    BY <1>1, <1>2, <1>8, <2>1 DEF Handle
<1>13. CleanFirst'
  <2>1. PICK m \in 0 .. n : /\ \A l \in 1 .. n : acked[l].clean <=> l <= m
                            /\ ~torn => m = n
    BY <1>1 DEF CleanFirst
  <2>2. ASSUME NEW l \in 1 .. n PROVE acked'[l].clean <=> l <= m
    <3>1. acked'[l] = acked[l]
      BY <1>8
    <3>2. QED
      BY <2>1, <3>1, Zenon
  <2>3. acked'[n + 1].clean = ~torn
    BY <1>7, <1>8, Zenon
  <2>4. CASE torn
    <3>1. m \in 0 .. n + 1 /\ ~(n + 1 <= m)
      BY <1>8
    <3>2. \A l \in 1 .. n + 1 : acked'[l].clean <=> l <= m
      BY <1>9, <2>2, <2>3, <2>4, <3>1, Zenon
    <3>3. QED
      BY <1>2, <1>8, <2>4, <3>1, <3>2, Zenon DEF CleanFirst
  <2>5. CASE ~torn
    <3>0. m = n
      BY <2>1, <2>5, Zenon
    <3>1. \A l \in 1 .. n : l <= m
      BY <1>8, <3>0
    <3>2. n + 1 \in 0 .. n + 1 /\ \A l \in 1 .. n + 1 : l <= n + 1
      BY <1>8
    <3>3. \A l \in 1 .. n + 1 : acked'[l].clean
      BY <1>9, <2>2, <2>3, <2>5, <3>1, Zenon
    <3>4. \A l \in 1 .. n + 1 : acked'[l].clean <=> l <= n + 1
      BY <3>2, <3>3, Zenon
    <3>5. QED
      BY <1>8, <3>2, <3>4, Zenon DEF CleanFirst
  <2>6. QED
    BY <2>4, <2>5
<1>14. Kept'
  <2>1. ASSUME NEW l \in 1 .. n + 1, acked'[l].clean
        PROVE  PlacedIn(disk', size', acked'[l].at, acked'[l].off, acked'[l].key, acked'[l].val)
    <3>1. CASE l \in 1 .. n
      <4>1. acked'[l] = acked[l] /\ acked[l].clean /\ size <= size'
        BY <1>1, <1>8, <1>10, <2>1, <3>1
      <4>2. PlacedIn(disk', size', acked[l].at, acked[l].off, acked[l].key, acked[l].val)
        BY <1>1, <1>2, <1>5, <1>10, <3>1, <4>1, KeptStays, Zenon
      <4>3. QED
        BY <4>1, <4>2, Zenon
    <3>2. CASE l = n + 1
      <4>1. size = Len(disk)
        BY <1>1, <1>7, <1>8, <2>1, <3>2
      <4>2. PlacedIn(disk', size', size, off, k, v)
        BY <1>1, <1>2, <1>4, <4>1, PlacedAtEnd
      <4>3. QED
        BY <1>7, <1>8, <3>2, <4>2
    <3>3. QED
      BY <1>9, <3>1, <3>2
  <2>2. QED
    BY <1>8, <2>1 DEF Kept, Placed
<1>15. Linked'
  <2>1. ASSUME NEW l \in 1 .. n + 1, acked'[l].clean, acked'[l].at # 0
        PROVE  \E q \in 1 .. n : acked[q].clean /\ acked[q].at = acked'[l].off
                                /\ acked[q].at < acked'[l].at
    <3>1. CASE l \in 1 .. n
      BY <1>1, <1>8, <2>1, <3>1 DEF Linked
    <3>2. CASE l = n + 1
      BY <1>1, <1>3, <1>7, <1>8, <2>1, <3>2, StartsAreRecords
    <3>3. QED
      BY <1>9, <3>1, <3>2
  <2>2. \A q \in 1 .. n : q \in 1 .. n + 1
    BY <1>8
  <2>3. QED
    BY <1>8, <2>1, <2>2 DEF Linked
<1>16. QED
  BY <1>11, <1>12, <1>13, <1>14, <1>15, NothingRead DEF IInv

(* A failed append leaves some cells behind the log, and the log torn if     *)
(* there are any.                                                            *)
LEMMA AppendFailsKeeps ==
  ASSUME IInv, isOpen, NEW off \in Starts, NEW k \in KeyBytes, NEW v \in ValBytes,
         AppendFails(off, k, v),
         isOpen' = isOpen, tries' \in 0 .. MaxAppends, reply' = NoReply
  PROVE  IInv'
<1>1. PICK n \in 0 .. Len(Bytes(off, k, v)) :
        /\ Len(disk) + n <= Capacity
        /\ disk' = disk \o SubSeq(Bytes(off, k, v), 1, n)
        /\ torn' = (torn \/ n > 0) /\ UNCHANGED <<size, acked>>
  BY DEF AppendFails
<1> DEFINE b == Bytes(off, k, v)
           p == SubSeq(b, 1, n)
<1>2. /\ Typed /\ Handle /\ CleanFirst /\ Kept /\ Linked
      /\ torn \in BOOLEAN /\ disk \in Seq(Nat) /\ size \in Nat /\ size <= Len(disk)
      /\ (~torn => size = Len(disk))
  BY DEF IInv, Typed
<1>3. off \in Nat /\ k \in Keys /\ v \in Vals
  BY <1>2, StartsAreRecords DEF Keys, Vals
<1>4. b \in Seq(Nat) /\ Len(b) \in Nat
  BY <1>3, CellsOfRecord, LenProperties DEF AreCellsOf
<1>5. n \in 0 .. Len(b) /\ disk' = disk \o p
  BY <1>1
<1> HIDE DEF b
<1>6. p \in Seq(Nat) /\ Len(p) = n /\ n \in Nat
  <2>1. n \in Nat /\ \A c \in 1 .. n : b[c] \in Nat
    BY <1>4, <1>5, ElementOfSeq
  <2>2. QED
    BY <2>1, SubSeqProperties
<1> HIDE DEF p
<1>7. /\ disk' \in Seq(Nat) /\ Len(disk') = Len(disk) + n /\ Len(disk) \in Nat
      /\ Len(disk') <= Capacity
  BY <1>1, <1>2, <1>5, <1>6, AddCells
<1>8. Typed'
  <2>1. size <= Len(disk') /\ (~torn' => size = Len(disk'))
    <3>1. size <= Len(disk')
      BY <1>2, <1>6, <1>7
    <3>2. n > 0 \/ (n = 0 /\ Len(disk') = Len(disk))
      BY <1>6, <1>7
    <3>3. QED
      BY <1>1, <1>2, <3>1, <3>2, Zenon
  <2>2. torn' \in BOOLEAN
    BY <1>1
  <2>3. QED
    BY <1>1, <1>2, <1>7, <2>1, <2>2 DEF Typed
<1>9. Handle' /\ CleanFirst' /\ Linked'
  BY <1>1, <1>2 DEF Handle, CleanFirst, Linked
<1>10. Kept'
  <2>1. ASSUME NEW l \in 1 .. Len(acked), acked[l].clean
        PROVE  PlacedIn(disk', size', acked[l].at, acked[l].off, acked[l].key, acked[l].val)
    <3>1. size' = size /\ size' \in Nat /\ size <= size'
      BY <1>1, <1>2
    <3>2. QED
      BY <1>2, <1>5, <1>6, <2>1, <3>1, KeptStays, Zenon
  <2>2. QED
    BY <1>1, <2>1 DEF Kept, Placed
<1>11. QED
  BY <1>8, <1>9, <1>10, NothingRead DEF IInv

(* An offset that a lookup is given is a number of its field, and in a whole *)
(* log the place of a record.                                                *)
LEMMA AskedFor ==
  ASSUME Typed, CleanFirst, LinkRead, NEW o \in Asked
  PROVE  /\ o \in Nat /\ o < WORD
         /\ ~torn => \E l \in 1 .. Len(acked) : acked[l].clean /\ acked[l].at = o
<1>1. size < WORD
  BY Widths, LenProperties DEF Typed
<1>2. size \in Nat /\ WORD \in Nat
  BY Widths DEF Typed
<1>3. CASE o \in Starts
  BY <1>1, <1>2, <1>3, StartsAreRecords
<1>4. CASE o \notin Starts
  <2>1. reply.rc = "ok" /\ o = reply.off
    BY <1>4 DEF Asked
  <2>2. o \in Nat /\ o < WORD /\ torn
    BY <1>2, <1>4, <2>1 DEF LinkRead
  <2>3. QED
    BY <2>2
<1>5. QED
  BY <1>3, <1>4

(* A record of a whole log is read as it was appended.                       *)
LEMMA CleanIsRead ==
  ASSUME Typed, Kept, NEW l \in 1 .. Len(acked), acked[l].clean, NEW o, acked[l].at = o
  PROVE  /\ o \in Nat /\ o + 5 + Len(acked[l].key) + Len(acked[l].val) <= size
         /\ read_meta(o, MetaAt(o))
         /\ MetaAt(o).off = acked[l].off
         /\ MetaAt(o).key_len = Len(acked[l].key) /\ MetaAt(o).val_len = Len(acked[l].val)
         /\ \A n \in 0 .. Len(acked[l].key) :
              Cells(KEY_OFF(o), n) = SubSeq(acked[l].key, 1, n)
         /\ \A n \in 0 .. Len(acked[l].val) :
              Cells(VAL_OFF(o, MetaAt(o)), n) = SubSeq(acked[l].val, 1, n)
         /\ Len(acked[l].key) \in Nat /\ Len(acked[l].val) \in Nat
<1> DEFINE at == acked[l].at
           off == acked[l].off
           key == acked[l].key
           val == acked[l].val
<1>1. at \in Nat /\ off \in Nat /\ off < WORD /\ key \in Keys /\ val \in Vals
  BY EntryTypes, Zenon
<1>2. PlacedIn(disk, size, at, off, key, val) /\ at = o
  BY DEF Kept, Placed
<1>3. disk \in Seq(Nat) /\ size \in Nat /\ size <= Len(disk) /\ Len(disk) <= Capacity
  BY DEF Typed
<1> HIDE DEF at, off, key, val
<1>4. Len(key) \in Nat /\ Len(val) \in Nat
  BY <1>1, KeysAreCells
<1>5. /\ at + 5 + Len(key) + Len(val) <= size
      /\ read_meta(at, MetaAt(at))
      /\ MetaAt(at).off = off
      /\ MetaAt(at).key_len = Len(key) /\ MetaAt(at).val_len = Len(val)
      /\ \A n \in 0 .. Len(key) : Cells(KEY_OFF(at), n) = SubSeq(key, 1, n)
      /\ \A n \in 0 .. Len(val) : Cells(VAL_OFF(at, MetaAt(at)), n) = SubSeq(val, 1, n)
  BY SMTT(60), <1>1, <1>2, <1>3, PlacedIsRead
<1>6. QED
  BY <1>1, <1>2, <1>4, <1>5, Zenon DEF key, val, off

(* What read_meta accepts within the log, at an offset that META_LEN can be  *)
(* added to, ends within the size; and so does what is read of it.           *)
LEMMA AcceptedIsWithin ==
  ASSUME Typed, NEW o \in Nat, o + 5 < WORD, NEW c \in logfs_read(o, META_LEN),
         read_meta(o, MetaOf(c)), NEW nk \in 0 .. MetaOf(c).key_len,
         NEW nv \in 0 .. MetaOf(c).val_len,
         NEW k \in logfs_read(KEY_OFF(o), nk), NEW v \in logfs_read(VAL_OFF(o, MetaOf(c)), nv)
  PROVE  /\ c = Cells(o, META_LEN)
         /\ k = Cells(KEY_OFF(o), nk) /\ v = Cells(VAL_OFF(o, MetaOf(c)), nv)
         /\ o + 5 + Len(k) + Len(v) <= size
<1>1. /\ disk \in Seq(Nat) /\ Len(disk) \in Nat /\ size \in Nat /\ size <= Len(disk)
      /\ Len(disk) <= Capacity
  BY LenProperties DEF Typed
<1>2. o + 5 \in Nat /\ (o + 5) % WORD = o + 5
  BY ModSmall, Widths
<1>3. o + 5 <= size
  BY <1>2 DEF read_meta, META_LEN
<1>4. o + 5 <= Len(disk) /\ o + 4 \in 1 .. Len(disk) /\ o + 5 \in 1 .. Len(disk)
  BY <1>1, <1>3
<1>5. c = Cells(o, META_LEN) /\ MetaOf(c) = MetaAt(o)
  BY <1>1, <1>4, MetaIsRead
<1> DEFINE kl == MetaOf(c).key_len
           vl == MetaOf(c).val_len
<1>6. kl \in Nat /\ kl < KEY_LENS /\ vl \in Nat /\ vl < VAL_LENS
  <2>1. disk[o + 4] \in Nat /\ disk[o + 5] \in Nat
    BY <1>1, <1>4, ElementOfSeq
  <2>2. kl = disk[o + 4] % KEY_LENS /\ vl = disk[o + 5] % VAL_LENS
    BY <1>1, <1>4, <1>5, MetaIsRead
  <2> HIDE DEF kl, vl
  <2>3. QED
    BY <2>1, <2>2, ModRange, Widths
<1>7. read_meta(o, MetaOf(c)) => (o + 5 + kl + vl) % WORD <= size
  BY DEF read_meta, META_LEN
<1>8. KEY_OFF(o) = o + 5 /\ VAL_OFF(o, MetaOf(c)) = (o + 5 + kl) % WORD
  BY <1>2 DEF KEY_OFF, VAL_OFF, META_LEN
<1>9. nk \in 0 .. kl /\ nv \in 0 .. vl
  OBVIOUS
<1> HIDE DEF kl, vl
<1>10. /\ o + 5 + kl \in Nat /\ o + 5 + kl + vl \in Nat
       /\ o + 5 + kl < WORD /\ o + 5 + kl + vl < WORD
  BY <1>1, <1>3, <1>6, Widths
<1>11. (o + 5 + kl) % WORD = o + 5 + kl /\ (o + 5 + kl + vl) % WORD = o + 5 + kl + vl
  BY <1>10, ModSmall, Widths
<1>12. o + 5 + kl + vl <= size
  BY <1>7, <1>11
<1>13. /\ nk \in Nat /\ nv \in Nat /\ o + 5 + nk <= Len(disk) /\ o + 5 + kl + nv <= Len(disk)
       /\ o + 5 + nk + nv <= size
  BY <1>1, <1>6, <1>9, <1>12
<1>14. k = Cells(o + 5, nk) /\ v = Cells(o + 5 + kl, nv)
  BY <1>8, <1>11, <1>13 DEF logfs_read
<1>15. Len(k) = nk /\ Len(v) = nv
  BY <1>1, <1>10, <1>13, <1>14, CellsProperties
<1>16. QED
  BY <1>5, <1>8, <1>11, <1>13, <1>14, <1>15

(* The fields of what a read gives for a struct meta.                        *)
LEMMA FieldsAreNumbers ==
  ASSUME disk \in Seq(Nat), NEW o \in Nat, NEW c \in logfs_read(o, META_LEN)
  PROVE  c[3] \in Nat /\ c[4] \in Nat /\ c[5] \in Nat
<1>1. CASE o + 5 <= Len(disk)
  <2>1. c = Cells(o, 5)
    BY <1>1 DEF logfs_read, META_LEN
  <2>2. c \in Seq(Nat) /\ Len(c) = 5
    BY <1>1, <2>1, CellsProperties
  <2>3. 3 \in 1 .. Len(c) /\ 4 \in 1 .. Len(c) /\ 5 \in 1 .. Len(c)
    BY <2>2
  <2>4. QED
    BY <2>2, <2>3, ElementOfSeq
<1>2. CASE ~(o + 5 <= Len(disk))
  <2>1. c \in [1 .. 5 -> Past]
    BY <1>2 DEF logfs_read, META_LEN
  <2>2. Past \subseteq Nat
    BY KVRawAssumption
  <2>3. \A n \in 1 .. 5 : c[n] \in Nat
    BY <2>1, <2>2
  <2>4. 3 \in 1 .. 5 /\ 4 \in 1 .. 5 /\ 5 \in 1 .. 5
    OBVIOUS
  <2>5. QED
    BY <2>3, <2>4, Zenon
<1>3. QED
  BY <1>1, <1>2

(* A lookup changes the reply only. Where it finds a record that was         *)
(* appended to a whole log it hands that one out.                            *)
LEMMA LookupKeeps ==
  ASSUME IInv, NEW o \in Asked, NEW room_k \in KeyRooms, NEW room_v \in ValRooms,
         kvraw_lookup(o, room_k, room_v)
  PROVE  IInv'
<1>1. /\ isOpen' = isOpen /\ disk' = disk /\ size' = size /\ torn' = torn
      /\ acked' = acked /\ tries' = tries
  BY DEF kvraw_lookup
<1>2. /\ Typed /\ Handle /\ CleanFirst /\ Kept /\ Linked /\ LinkRead
      /\ disk \in Seq(Nat) /\ size \in Nat /\ size <= Len(disk)
  BY DEF IInv, Typed
<1>3. Typed' /\ Handle' /\ CleanFirst' /\ Kept' /\ Linked'
  BY <1>1, <1>2 DEF Typed, Handle, CleanFirst, Kept, Placed, Linked
<1>4. /\ o \in Nat /\ o < WORD
      /\ ~torn => \E l \in 1 .. Len(acked) : acked[l].clean /\ acked[l].at = o
  BY <1>2, AskedFor
<1>5. CASE reply' = [rc |-> "io", at |-> o]
  <2>1. reply'.rc = "io"
    BY <1>5
  <2>2. QED
    BY <1>3, <2>1 DEF IInv, LinkRead, LookupFaithful, ReadsWithinSize
<1>6. ASSUME NEW l \in 1 .. Len(acked), acked[l].clean, acked[l].at = o
      PROVE  /\ o + 5 < WORD /\ o + 5 <= Len(disk) /\ read_meta(o, MetaAt(o))
             /\ logfs_read(o, META_LEN) = {Cells(o, META_LEN)}
             /\ MetaOf(Cells(o, META_LEN)) = MetaAt(o)
  <2>1. /\ o + 5 + Len(acked[l].key) + Len(acked[l].val) <= size
        /\ read_meta(o, MetaAt(o))
        /\ Len(acked[l].key) \in Nat /\ Len(acked[l].val) \in Nat
    BY <1>2, <1>6, CleanIsRead
  <2>2. Len(disk) \in Nat /\ Len(disk) <= Capacity
    BY <1>2, LenProperties DEF Typed
  <2>3. o + 5 < WORD /\ o + 5 <= Len(disk)
    <3>1. o \in Nat /\ size \in Nat /\ size <= Len(disk)
      BY <1>2, <1>4
    <3>2. \A m \in Nat, n \in Nat : o + 5 + m + n <= size => o + 5 <= size
      BY <3>1
    <3>3. o + 5 <= size
      BY <2>1, <3>2, Zenon
    <3>4. QED
      BY <2>2, <3>1, <3>3, Widths
  <2>4. QED
    BY <1>2, <1>4, <2>1, <2>3, MetaIsRead
<1>7. ASSUME NEW c \in logfs_read(o, META_LEN), ~read_meta(o, MetaOf(c)),
             reply' = [rc |-> "corrupt", at |-> o]
      PROVE  IInv'
  <2>1. reply'.rc = "corrupt" /\ reply'.at = o
    BY <1>7
  <2>2. \A r \in CleanRecords : r.at # o
    <3>1. SUFFICES ASSUME NEW i \in 1 .. Len(acked), acked[i].clean, acked[i].at = o
                   PROVE  FALSE
      BY <1>2, EntryTypes DEF CleanRecords
    <3>2. MetaOf(c) = MetaAt(o) /\ read_meta(o, MetaAt(o))
      BY <1>6, <3>1
    <3>3. QED
      BY <1>7, <3>2
  <2>3. CleanRecords' = CleanRecords
    BY <1>1 DEF CleanRecords
  <2>4. LookupFaithful'
    BY <2>1, <2>2, <2>3 DEF LookupFaithful
  <2>5. LinkRead' /\ ReadsWithinSize'
    BY <2>1 DEF LinkRead, ReadsWithinSize
  <2>6. QED
    BY <1>3, <2>4, <2>5 DEF IInv
<1>8. ASSUME NEW c \in logfs_read(o, META_LEN), read_meta(o, MetaOf(c)),
             NEW k \in logfs_read(KEY_OFF(o), Least(MetaOf(c).key_len, room_k)),
             NEW v \in logfs_read(VAL_OFF(o, MetaOf(c)), Least(MetaOf(c).val_len, room_v)),
             reply' = [rc |-> "ok", at |-> o, off |-> MetaOf(c).off,
                       key_len |-> MetaOf(c).key_len, val_len |-> MetaOf(c).val_len,
                       room |-> <<room_k, room_v>>, key |-> k, val |-> v]
      PROVE  IInv'
  <2> DEFINE kl == MetaOf(c).key_len
             vl == MetaOf(c).val_len
             nk == Least(kl, room_k)
             nv == Least(vl, room_v)
  <2>1. /\ reply'.rc = "ok" /\ reply'.at = o /\ reply'.off = MetaOf(c).off
        /\ reply'.key_len = kl /\ reply'.val_len = vl
        /\ reply'.room[1] = room_k /\ reply'.room[2] = room_v
        /\ reply'.key = k /\ reply'.val = v
    BY <1>8
  <2>2. MetaOf(c).off \in 0 .. WORD - 1 /\ kl \in Nat /\ vl \in Nat
    <3>1. c[3] \in Nat /\ c[4] \in Nat /\ c[5] \in Nat
      BY <1>2, <1>4, FieldsAreNumbers
    <3>2. /\ MetaOf(c).off = c[3] % WORD /\ kl = c[4] % KEY_LENS /\ vl = c[5] % VAL_LENS
      BY MetaFields
    <3> HIDE DEF kl, vl
    <3>3. /\ c[3] % WORD \in Nat /\ c[3] % WORD < WORD
          /\ c[4] % KEY_LENS \in Nat /\ c[5] % VAL_LENS \in Nat
      BY <3>1, ModRange, Widths
    <3>4. QED
      BY <3>2, <3>3, Widths
  <2>3. nk \in 0 .. kl /\ nv \in 0 .. vl
    <3> HIDE DEF kl, vl
    <3>1. QED
      BY <2>2, KVRawAssumption DEF Least
  <2>4. ASSUME o + 5 < WORD
        PROVE  /\ c = Cells(o, META_LEN)
               /\ k = Cells(KEY_OFF(o), nk) /\ v = Cells(VAL_OFF(o, MetaOf(c)), nv)
               /\ o + 5 + Len(k) + Len(v) <= size
    BY <1>2, <1>4, <1>8, <2>3, <2>4, AcceptedIsWithin
  <2> HIDE DEF kl, vl, nk, nv
  <2>5. LinkRead'
    <3>1. ASSUME ~torn PROVE MetaOf(c).off \in Starts
      <4>1. PICK l \in 1 .. Len(acked) : acked[l].clean /\ acked[l].at = o
        BY <1>4, <3>1
      <4>2. MetaOf(c) = MetaAt(o)
        BY <1>6, <2>4, <4>1
      <4>3. MetaAt(o).off = acked[l].off
        BY <1>2, <4>1, CleanIsRead
      <4>4. o # 0
        BY DEF Asked
      <4>5. QED
        BY <1>2, <4>1, <4>2, <4>3, <4>4, EntryTypes DEF Linked, Starts
    <3>2. Starts' = Starts
      BY <1>1 DEF Starts
    <3>3. QED
      BY <1>1, <2>1, <2>2, <3>1, <3>2 DEF LinkRead
  <2>6. ReadsWithinSize'
    <3>1. CASE o + 5 < WORD
      <4>1. o + 5 + Len(k) + Len(v) <= size
        BY <2>4, <3>1
      <4>2. QED
        BY <1>1, <2>1, <4>1 DEF ReadsWithinSize, META_LEN
    <3>2. CASE ~(o + 5 < WORD)
      <4>1. torn
        BY <1>4, <1>6, <3>2
      <4>2. o + 5 >= WORD
        BY <1>4, <3>2, Widths
      <4>3. QED
        BY <1>1, <2>1, <4>1, <4>2 DEF ReadsWithinSize, META_LEN
    <3>3. QED
      BY <3>1, <3>2
  <2>7. LookupFaithful'
    <3>1. SUFFICES ASSUME NEW i \in 1 .. Len(acked), acked[i].clean, acked[i].at = o
          PROVE  /\ MetaOf(c).off = acked[i].off
                 /\ kl = Len(acked[i].key) /\ vl = Len(acked[i].val)
                 /\ k = SubSeq(acked[i].key, 1, nk) /\ v = SubSeq(acked[i].val, 1, nv)
      <4>1. \A r \in CleanRecords' :
              \E i \in 1 .. Len(acked) : acked[i].clean /\ r = acked[i]
        BY <1>1, <1>2, EntryTypes DEF CleanRecords
      <4>2. QED
        BY <2>1, <4>1, ZenonT(60) DEF LookupFaithful, nk, nv
    <3>2. o + 5 < WORD
      BY <1>6, <3>1
    <3>3. /\ c = Cells(o, META_LEN)
          /\ k = Cells(KEY_OFF(o), nk) /\ v = Cells(VAL_OFF(o, MetaOf(c)), nv)
      BY <2>4, <3>2
    <3>4. MetaOf(c) = MetaAt(o)
      BY <1>6, <3>1, <3>3
    <3>5. /\ MetaAt(o).off = acked[i].off
          /\ MetaAt(o).key_len = Len(acked[i].key) /\ MetaAt(o).val_len = Len(acked[i].val)
          /\ \A n \in 0 .. Len(acked[i].key) :
               Cells(KEY_OFF(o), n) = SubSeq(acked[i].key, 1, n)
          /\ \A n \in 0 .. Len(acked[i].val) :
               Cells(VAL_OFF(o, MetaAt(o)), n) = SubSeq(acked[i].val, 1, n)
      BY <1>2, <3>1, CleanIsRead, Zenon
    <3>6. kl = Len(acked[i].key) /\ vl = Len(acked[i].val)
      BY <3>4, <3>5, Zenon DEF kl, vl
    <3>7. QED
      BY <2>3, <3>3, <3>4, <3>5, <3>6, Zenon
  <2>8. QED
    BY <1>3, <2>5, <2>6, <2>7 DEF IInv
<1>9. QED
  BY <1>5, <1>7, <1>8 DEF kvraw_lookup

-----------------------------------------------------------------------------
(* Before kvraw_open there is no log.                                        *)
LEMMA InvInit == Init => IInv
<1> SUFFICES ASSUME Init PROVE IInv
  OBVIOUS
<1>1. /\ isOpen = FALSE /\ disk = <<>> /\ size = 0 /\ torn = FALSE
      /\ acked = <<>> /\ tries = 0 /\ reply = NoReply
  BY DEF Init
<1>2. Typed
  <2>1. /\ <<>> \in Seq(Nat) /\ <<>> \in Seq(Entry) /\ Len(<<>>) = 0 /\ 0 \in Nat
        /\ 0 <= 0 /\ 1 .. 0 = {} /\ 0 \in 0 .. MaxAppends /\ 0 <= Capacity
    BY KVRawAssumption
  <2>2. isOpen \in BOOLEAN /\ torn \in BOOLEAN
    BY <1>1
  <2>3. QED
    BY <1>1, <2>1, <2>2, Zenon DEF Typed
<1>3. Handle /\ CleanFirst /\ Kept /\ Linked
  BY <1>1 DEF Handle, CleanFirst, Kept, Linked
<1>4. LinkRead /\ LookupFaithful /\ ReadsWithinSize
  <2>1. reply.rc = "none"
    BY <1>1 DEF NoReply
  <2>2. QED
    BY <2>1 DEF LinkRead, LookupFaithful, ReadsWithinSize
<1>5. QED
  BY <1>2, <1>3, <1>4 DEF IInv

(* Every call keeps the invariant.                                           *)
LEMMA InvNext == IInv /\ [Next]_vars => IInv'
<1> SUFFICES ASSUME IInv, [Next]_vars PROVE IInv'
  OBVIOUS
<1>1. CASE kvraw_open
  BY <1>1, OpenKeeps
<1>2. CASE kvraw_close
  BY <1>2, CloseKeeps
<1>3. CASE kvraw_append
  <2>1. PICK off \in Starts, k \in KeyBytes, v \in ValBytes :
          AppendEnds(off, k, v) \/ AppendFails(off, k, v)
    BY <1>3 DEF kvraw_append
  <2>2. isOpen /\ isOpen' = isOpen /\ reply' = NoReply
    BY <1>3 DEF kvraw_append
  <2>3. tries' \in 0 .. MaxAppends
    BY SMTT(30), <1>3, KVRawAssumption DEF kvraw_append, IInv, Typed
  <2>4. QED
    BY <2>1, <2>2, <2>3, AppendKeeps, AppendFailsKeeps
<1>4. ASSUME NEW o \in Asked, NEW room_k \in KeyRooms, NEW room_v \in ValRooms,
             kvraw_lookup(o, room_k, room_v)
      PROVE  IInv'
  BY <1>4, LookupKeeps
<1>5. CASE UNCHANGED vars
  <2>1. /\ isOpen' = isOpen /\ disk' = disk /\ size' = size /\ torn' = torn
        /\ acked' = acked /\ tries' = tries /\ reply' = reply
    BY <1>5 DEF vars
  <2>2. Typed' /\ Handle' /\ CleanFirst' /\ Kept' /\ Linked'
    BY <2>1 DEF IInv, Typed, Handle, CleanFirst, Kept, Placed, Linked
  <2>3. LinkRead' /\ LookupFaithful' /\ ReadsWithinSize'
    BY <2>1 DEF IInv, LinkRead, Starts, LookupFaithful, CleanRecords, ReadsWithinSize
  <2>4. QED
    BY <2>2, <2>3 DEF IInv
<1>6. QED
  BY <1>1, <1>2, <1>3, <1>4, <1>5 DEF Next

LEMMA Invariant == Spec => []IInv
<1>1. QED
  BY InvInit, InvNext, PTL DEF Spec

(* kvraw->size never exceeds the log, equals its length as long as no append *)
(* has failed midway, and every record that was handed out starts within it. *)
THEOREM TypeCorrect == Spec => []TypeOK
<1>1. IInv => TypeOK
  <2> SUFFICES ASSUME IInv PROVE TypeOK
    OBVIOUS
  <2>1. Typed
    BY DEF IInv
  <2>2. size \in 0 .. Len(disk)
    BY <2>1, LenProperties DEF Typed
  <2>3. \A i \in DOMAIN acked : acked[i].at \in 0 .. size
    BY <2>1, EntryTypes DEF Typed
  <2>4. QED
    BY <2>1, <2>2, <2>3, Zenon DEF Typed, TypeOK
<1>2. QED
  BY <1>1, Invariant, PTL

(* kvraw_lookup finds what kvraw_append put in a whole log, however many     *)
(* appends came, or failed, since.                                           *)
THEOREM ReadsAreFaithful == Spec => []LookupFaithful
<1>1. IInv => LookupFaithful
  BY DEF IInv
<1>2. QED
  BY <1>1, Invariant, PTL

(* A kvraw_lookup that succeeds gives out nothing from beyond kvraw->size,   *)
(* unless the log is torn and the offset so large that read_meta's first sum *)
(* wraps.                                                                    *)
THEOREM ReadsStayInLog == Spec => []ReadsWithinSize
<1>1. IInv => ReadsWithinSize
  BY DEF IInv
<1>2. QED
  BY <1>1, Invariant, PTL

(* The walk of kvdb.c from such a record goes down to the sentinel over      *)
(* records of the same kind.                                                 *)
THEOREM WalksStayOnRecords == Spec => []WalkStaysOnRecords
<1>1. ASSUME IInv PROVE WalkStaysOnRecords
  <2>1. Typed /\ Kept /\ Linked /\ disk \in Seq(Nat) /\ size \in Nat /\ size <= Len(disk)
    BY <1>1 DEF IInv, Typed
  <2>2. SUFFICES ASSUME NEW i \in 1 .. Len(acked), acked[i].clean, acked[i].at # 0
                 PROVE  \E q \in CleanRecords :
                          q.at = MetaAt(acked[i].at).off /\ q.at < acked[i].at
    BY <2>1, EntryTypes DEF WalkStaysOnRecords, CleanRecords
  <2>3. PlacedIn(disk, size, acked[i].at, acked[i].off, acked[i].key, acked[i].val)
    BY <2>1, <2>2 DEF Kept, Placed
  <2>4. MetaAt(acked[i].at).off = acked[i].off
    <3>1. Len(disk) <= Capacity
      BY <2>1 DEF Typed
    <3>2. QED
      BY <2>1, <2>2, <2>3, <3>1, EntryTypes, PlacedIsRead, Zenon
  <2>5. PICK l \in 1 .. Len(acked) :
          acked[l].clean /\ acked[l].at = acked[i].off /\ acked[l].at < acked[i].at
    BY <2>1, <2>2 DEF Linked
  <2>6. acked[l] \in CleanRecords
    BY <2>1, <2>5, EntryTypes DEF CleanRecords
  <2>7. QED
    BY <2>4, <2>5, <2>6
<1>2. QED
  BY <1>1, Invariant, PTL

-----------------------------------------------------------------------------
(***************************************************************************)
(* The log of records. Those appended to a whole log are the first m, and  *)
(* the bytes at each of them say what was appended.                        *)
(***************************************************************************)
IsPrefixOf(m) ==
  /\ m \in 0 .. Len(acked)
  /\ \A k \in 1 .. Len(acked) : acked[k].clean <=> k <= m
Written(m) ==
  [i \in 1 .. m |-> [off |-> acked[i].off, key |-> acked[i].key, val |-> acked[i].val]]
Recs == [i \in 1 .. NumClean |-> Decoded(acked[i].at)]

(* There is one number of records that were appended to a whole log.         *)
LEMMA NumCleanIs ==
  ASSUME Typed, NEW m, IsPrefixOf(m)
  PROVE  NumClean = m
<1>1. m \in Nat /\ m <= Len(acked) /\ Len(acked) \in Nat
  BY EntryTypes DEF IsPrefixOf
<1>2. {i \in DOMAIN acked : acked[i].clean} = 1 .. m
  <2>1. ASSUME NEW i PROVE i \in DOMAIN acked /\ acked[i].clean <=> i \in 1 .. m
    <3>1. i \in 1 .. m <=> i \in 1 .. Len(acked) /\ i <= m
      BY <1>1
    <3>2. i \in 1 .. Len(acked) => (acked[i].clean <=> i <= m)
      BY DEF IsPrefixOf
    <3>3. QED
      BY <3>1, <3>2, EntryTypes, Zenon
  <2>2. QED
    BY <2>1
<1>3. Cardinality(1 .. m) = m
  <2>1. Cardinality(1 .. m) = IF 1 > m THEN 0 ELSE m - 1 + 1
    BY <1>1, FS_Interval
  <2>2. QED
    BY <1>1, <2>1
<1>4. QED
  BY <1>2, <1>3 DEF NumClean

(* What the bytes decode to is what was appended.                            *)
LEMMA RecsAreWritten ==
  ASSUME Typed, Kept, NEW m, IsPrefixOf(m)
  PROVE  Recs = Written(m) /\ Written(m) \in Seq(AppendedRecord) /\ Len(Written(m)) = m
<1>1. m \in Nat /\ m <= Len(acked) /\ Len(acked) \in Nat
  BY EntryTypes DEF IsPrefixOf
<1>2. ASSUME NEW i \in 1 .. m
      PROVE  /\ i \in 1 .. Len(acked)
             /\ Decoded(acked[i].at)
                  = [off |-> acked[i].off, key |-> acked[i].key, val |-> acked[i].val]
             /\ Written(m)[i] \in AppendedRecord
  <2>1. i \in 1 .. Len(acked) /\ i <= m
    BY <1>1
  <2>2. acked[i].clean
    BY <2>1 DEF IsPrefixOf
  <2>3. PlacedIn(disk, size, acked[i].at, acked[i].off, acked[i].key, acked[i].val)
    BY <2>1, <2>2 DEF Kept, Placed
  <2>4. /\ acked[i].at \in Nat /\ acked[i].off \in Nat
        /\ acked[i].key \in Keys /\ acked[i].val \in Vals /\ acked[i].off < WORD
        /\ disk \in Seq(Nat) /\ size \in Nat /\ size <= Len(disk) /\ Len(disk) <= Capacity
    BY <2>1, EntryTypes DEF Typed
  <2>5. Decoded(acked[i].at)
          = [off |-> acked[i].off, key |-> acked[i].key, val |-> acked[i].val]
    BY <2>3, <2>4, PlacedIsRead
  <2>6. acked[i].key \in KeyBytes \union {<<0>>} /\ acked[i].val \in ValBytes \union {<<0>>}
    BY <2>1 DEF Typed, Keys, Vals
  <2>7. Written(m)[i] \in AppendedRecord
    BY <2>4, <2>6 DEF Written, AppendedRecord
  <2>8. QED
    BY <2>1, <2>5, <2>7
<1>3. NumClean = m
  BY NumCleanIs
<1>4. Recs = Written(m)
  BY <1>2, <1>3 DEF Recs, Written
<1>5. Written(m) \in [1 .. m -> AppendedRecord]
  BY <1>2 DEF Written
<1>6. QED
  BY <1>1, <1>4, <1>5, LenProperties, IsASeq

(* In every state: how many such records there are, and what they hold.      *)
RecsKnown ==
  /\ IsPrefixOf(NumClean) /\ NumClean \in Nat /\ (~torn => NumClean = Len(acked))
  /\ Recs = Written(NumClean) /\ Recs \in Seq(AppendedRecord) /\ Len(Recs) = NumClean

LEMMA RecsAreKnown == IInv => RecsKnown
<1> SUFFICES ASSUME IInv PROVE RecsKnown
  OBVIOUS
<1>1. Typed /\ CleanFirst /\ Kept
  BY DEF IInv
<1>2. PICK m \in 0 .. Len(acked) : IsPrefixOf(m) /\ (~torn => m = Len(acked))
  BY <1>1, Zenon DEF CleanFirst, IsPrefixOf
<1>3. m \in Nat /\ NumClean = m
  BY <1>1, <1>2, NumCleanIs
<1>4. Recs = Written(m) /\ Written(m) \in Seq(AppendedRecord) /\ Len(Written(m)) = m
  BY <1>1, <1>2, RecsAreWritten
<1>5. QED
  BY <1>2, <1>3, <1>4, Zenon DEF RecsKnown

(* Opening, closing and an append to a whole log are the steps of RecordLog; *)
(* every other call changes no record.                                       *)
LEMMA LogStep == IInv /\ IInv' /\ [Next]_vars => [Log!Next]_Recs
<1>0. IInv' => RecsKnown'
  BY RecsAreKnown, PTL
<1> SUFFICES ASSUME IInv, IInv', [Next]_vars PROVE Log!Next \/ Recs' = Recs
  OBVIOUS
<1> DEFINE n == Len(acked)
           m == NumClean
           m2 == NumClean'
<1>1. RecsKnown /\ RecsKnown' /\ Typed /\ Typed' /\ Handle /\ Handle'
  BY <1>0, RecsAreKnown DEF IInv
<1>2. /\ m \in Nat /\ m <= n /\ (~torn => m = n) /\ n \in Nat
      /\ \A k \in 1 .. n : acked[k].clean <=> k <= m
      /\ Recs = Written(m) /\ Recs \in Seq(AppendedRecord) /\ Len(Recs) = m
  <2>1. /\ m \in Nat /\ m \in 0 .. n /\ (~torn => m = n)
        /\ \A k \in 1 .. n : acked[k].clean <=> k <= m
        /\ Recs = Written(m) /\ Recs \in Seq(AppendedRecord) /\ Len(Recs) = m
    BY <1>1, Zenon DEF RecsKnown, IsPrefixOf
  <2>2. n \in Nat
    BY <1>1, EntryTypes
  <2>3. m <= n
    BY <2>1, <2>2
  <2>4. QED
    BY <2>1, <2>2, <2>3, Zenon
<1>3. /\ m2 \in Nat /\ m2 <= Len(acked') /\ (~torn' => m2 = Len(acked'))
      /\ \A k \in 1 .. Len(acked') : acked'[k].clean <=> k <= m2
      /\ Recs' \in Seq(AppendedRecord) /\ Len(Recs') = m2
      /\ Recs' = [i \in 1 .. m2 |->
                     [off |-> acked'[i].off, key |-> acked'[i].key, val |-> acked'[i].val]]
  <2>1. /\ m2 \in Nat /\ m2 \in 0 .. Len(acked') /\ (~torn' => m2 = Len(acked'))
        /\ \A k \in 1 .. Len(acked') : acked'[k].clean <=> k <= m2
        /\ Recs' \in Seq(AppendedRecord) /\ Len(Recs') = m2
    BY <1>1, Zenon DEF RecsKnown, IsPrefixOf
  <2>2. m2 <= Len(acked')
    BY <2>1
  <2>3. QED
    BY <1>1, <2>1, <2>2, Zenon DEF RecsKnown, Written
<1> HIDE DEF m, m2
<1>4. CASE acked' = acked
  <2>1. m2 = m
    <3>1. \A k \in 1 .. n : k <= m2 <=> k <= m
      BY <1>2, <1>3, <1>4, Zenon
    <3>2. m2 <= n
      BY <1>3, <1>4
    <3>3. QED
      BY <1>2, <1>3, <3>1, <3>2
  <2>2. QED
    BY <1>2, <1>3, <1>4, <2>1 DEF Written
<1>5. CASE kvraw_open
  <2>1. ~isOpen /\ ~torn /\ isOpen' = TRUE /\ torn' = FALSE /\ Len(acked') = 1 /\ acked = <<>>
    BY <1>1, <1>5 DEF kvraw_open, Handle
  <2>2. m = 0 /\ m2 = 1
    BY <1>2, <1>3, <2>1
  <2>3. Recs = <<>>
    BY <1>2, <2>2, EmptySeq
  <2>4. Log!Open
    BY <1>3, <2>2, <2>3 DEF Log!Open, Recs
  <2>5. QED
    BY <2>4 DEF Log!Next
<1>6. CASE kvraw_close
  <2>1. isOpen /\ acked' = <<>> /\ acked # <<>> /\ acked[1].clean
    BY <1>1, <1>6 DEF kvraw_close, Handle
  <2>2. Len(acked') = 0 /\ n # 0
    BY <1>1, <2>1, EmptySeq DEF Typed
  <2>3. m # 0 /\ m2 = 0
    BY <1>2, <1>3, <2>1, <2>2
  <2>4. Recs # <<>> /\ Recs' = <<>>
    BY <1>2, <1>3, <2>3, EmptySeq
  <2>5. Log!Close
    BY <2>4 DEF Log!Close, Recs
  <2>6. QED
    BY <2>5 DEF Log!Next
<1>7. ASSUME NEW off \in Starts, NEW k \in KeyBytes, NEW v \in ValBytes,
             AppendEnds(off, k, v), isOpen
      PROVE  Log!Next \/ Recs' = Recs
  <2> DEFINE e == Acked(size, off, k, v)
  <2>1. acked' = Append(acked, e) /\ torn' = torn /\ e.clean = ~torn
    BY <1>7 DEF AppendEnds, Acked
  <2> HIDE DEF e
  <2>2. /\ Len(acked') = n + 1 /\ acked'[n + 1] = e
        /\ \A l \in 1 .. n : acked'[l] = acked[l]
    <3>1. acked \in Seq(Entry) /\ e \in Entry
      <4>1. off \in Nat /\ k \in Keys /\ v \in Vals /\ size \in Nat /\ torn \in BOOLEAN
        BY <1>1, EntryTypes DEF Starts, Keys, Vals, Typed
      <4>2. k \in Seq(Nat) /\ v \in Seq(Nat)
        BY <4>1, KeysAreCells
      <4>3. QED
        BY <1>1, <4>1, <4>2 DEF e, Acked, Entry, Typed
    <3>2. QED
      BY <2>1, <3>1, AppendProperties
  <2>3. ASSUME m <= m2
        PROVE  \A i \in 1 .. m : Recs'[i] = Recs[i]
    <3>1. ASSUME NEW i \in 1 .. m PROVE Recs'[i] = Recs[i]
      <4>1. i \in 1 .. m2 /\ i \in 1 .. n
        BY <1>2, <1>3, <2>3
      <4>2. acked'[i] = acked[i]
        BY <2>2, <4>1
      <4>3. QED
        BY <1>2, <1>3, <4>1, <4>2 DEF Written
    <3>2. QED
      BY <3>1
  <2>4. CASE torn
    <3>1. ~(n + 1 <= m2)
      <4>1. n + 1 \in 1 .. Len(acked')
        BY <1>2, <2>2
      <4>2. ~acked'[n + 1].clean
        BY <2>1, <2>2, <2>4, Zenon
      <4>3. QED
        BY <1>3, <4>1, <4>2, Zenon
    <3>2. \A l \in 1 .. n : l <= m2 <=> l <= m
      <4>1. ASSUME NEW l \in 1 .. n PROVE l \in 1 .. Len(acked') /\ acked'[l] = acked[l]
        BY <1>2, <2>2
      <4>2. QED
        BY <1>2, <1>3, <4>1, Zenon
    <3>3. m2 = m
      BY <1>2, <1>3, <3>1, <3>2
    <3>4. Recs' = Recs
      BY <1>2, <1>3, <2>3, <3>3, SeqEqual
    <3>5. QED
      BY <3>4
  <2>5. CASE ~torn
    <3>1. m = n /\ m2 = n + 1
      BY <1>2, <1>3, <2>1, <2>2, <2>5, Zenon
    <3>2. Recs # <<>>
      <4>1. acked # <<>> /\ n # 0
        BY <1>1, <1>7, EmptySeq DEF Handle, Typed
      <4>2. QED
        BY <1>2, <3>1, <4>1, EmptySeq
    <3>3. \A i \in 1 .. Len(Recs) : Recs'[i] = Recs[i]
      BY <1>2, <2>3, <3>1
    <3>4. Len(Recs') = Len(Recs) + 1
      BY <1>2, <1>3, <3>1
    <3>5. Log!Add
      BY <1>3, <3>2, <3>3, <3>4, Zenon DEF Log!Add, Recs
    <3>6. QED
      BY <3>5 DEF Log!Next
  <2>6. QED
    BY <2>4, <2>5
<1>8. ASSUME NEW off, NEW k, NEW v, AppendFails(off, k, v)
      PROVE  acked' = acked
  BY <1>8 DEF AppendFails
<1>9. ASSUME NEW o, NEW room_k, NEW room_v, kvraw_lookup(o, room_k, room_v)
      PROVE  acked' = acked
  BY <1>9 DEF kvraw_lookup
<1>10. CASE UNCHANGED vars
  BY <1>4, <1>10 DEF vars
<1>11. QED
  BY <1>4, <1>5, <1>6, <1>7, <1>8, <1>9, <1>10 DEF Next, kvraw_append

(* The bytes implement a log of records: whatever is appended or fails       *)
(* midway, what was appended to a whole log is what the bytes decode to.     *)
THEOREM BytesImplementLog == Spec => ImplementsLog
<1>1. Init => Log!Init
  <2> SUFFICES ASSUME Init PROVE Recs = <<>>
    BY DEF Log!Init, Recs
  <2>1. RecsKnown /\ acked = <<>>
    BY InvInit, RecsAreKnown DEF Init
  <2>2. Len(Recs) = 0 /\ Recs \in Seq(AppendedRecord)
    BY <2>1 DEF RecsKnown, IsPrefixOf
  <2>3. QED
    BY <2>2, EmptySeq
<1>2. IInv /\ IInv' /\ [Next]_vars => [Log!Next]_Recs
  BY LogStep
<1>3. QED
  BY <1>1, <1>2, Invariant, PTL DEF Spec, ImplementsLog, Log!Spec, Recs

=============================================================================
