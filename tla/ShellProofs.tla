---------------------------- MODULE ShellProofs ----------------------------
(***************************************************************************)
(* Proofs about Shell, for any number and size of slots, any size of the   *)
(* settings behind them and any letters: editor and bytes agree, earlier   *)
(* lines and the settings stay, and a command gets its line.               *)
(***************************************************************************)
EXTENDS Shell, TLAPS, SequenceTheorems, WellFoundedInduction

End == slot(H + 1)
Text == Char \ {Z}

\* A memory in which every string ends.
Ending(m) == m \in [Memory -> Char] /\ m[End] = Z

\* The string at p in m has length l.
Line(m, p, l) ==
  /\ l \in 0 .. End - p /\ m[p + l] = Z
  /\ \A k \in 0 .. l - 1 : m[p + k] # Z

(* No slot of the history beyond the one being edited has a line in it.      *)
Unused == \A k \in top + 1 .. H - 1 : mem[slot(k)] = Z

Cursor == i \in 0 .. n /\ n = strlen(mem, buf)

IInv ==
  /\ TypeOK /\ Cursor /\ Unused
  /\ Len(log) = top /\ HistoryKept /\ SettingsKept /\ CommandSeesLine

-----------------------------------------------------------------------------
(***************************************************************************)
(* Places in memory.                                                       *)
(***************************************************************************)
LEMMA SlotsAre ==
  /\ H \in Nat \ {0} /\ N \in Nat \ {0, 1} /\ TERMIOS \in 1 .. N
  /\ \A k \in Nat : slot(k) \in Nat /\ slot(k + 1) = slot(k) + N
  /\ \A k, l \in Nat : k <= l => slot(k) <= slot(l)
<1>1. H \in Nat \ {0} /\ N \in Nat \ {0, 1} /\ TERMIOS \in 1 .. N
  BY ShellAssumption
<1>2. \A k \in Nat : slot(k) \in Nat /\ slot(k + 1) = slot(k) + N
  BY <1>1 DEF slot
<1>3. ASSUME NEW k \in Nat, NEW l \in Nat, k <= l PROVE slot(k) <= slot(l)
  <2>1. l - k \in Nat /\ (l - k) * N \in Nat
    BY <1>1, <1>3
  <2>2. l * N = k * N + (l - k) * N
    BY <1>1
  <2>3. QED
    BY <1>1, <2>1, <2>2 DEF slot
<1>4. QED
  BY <1>1, <1>2, <1>3

(* The slot being edited, the place behind it and the settings.              *)
LEMMA Places ==
  ASSUME top \in 0 .. H
  PROVE  /\ buf \in Nat /\ End \in Nat /\ Memory = 0 .. End
         /\ slot(top + 1) = buf + N /\ buf + N <= End
         /\ top = H => End = buf + N
         /\ top < H => buf + N <= slot(H)
         /\ slot(H) \in Nat /\ End = slot(H) + N
         /\ TermiosBytes \subseteq slot(H) .. End - 1
         /\ buf \in Memory /\ buf + N \in Memory
<1>1. top \in Nat /\ H \in Nat /\ top + 1 \in Nat /\ H + 1 \in Nat
  BY SlotsAre
<1>2. /\ buf \in Nat /\ slot(top + 1) = buf + N
      /\ slot(H) \in Nat /\ slot(H + 1) = slot(H) + N
  BY <1>1, SlotsAre DEF buf
<1>3. slot(top + 1) <= slot(H + 1)
  BY <1>1, SlotsAre
<1>4. top < H => slot(top + 1) <= slot(H)
  BY <1>1, SlotsAre
<1>5. End = slot(H + 1) /\ Memory = 0 .. End /\ End \in Nat
  BY <1>2, SlotsAre DEF End, Memory
<1>6. TERMIOS \in 1 .. N /\ N \in Nat /\ N # 0
  BY SlotsAre
<1>7. TermiosBytes \subseteq slot(H) .. End - 1
  BY <1>2, <1>5, <1>6 DEF TermiosBytes
<1>8. top = H => End = buf + N
  BY <1>2, <1>5
<1>9. QED
  BY <1>1, <1>2, <1>3, <1>4, <1>5, <1>6, <1>7, <1>8

LEMMA Characters == Z \in Char /\ Blank \in Text /\ Saved \in Text /\ Letters \subseteq Text
  BY ShellAssumption DEF Char, Text, Z, Blank, Saved

-----------------------------------------------------------------------------
(***************************************************************************)
(* Least and greatest numbers.                                             *)
(***************************************************************************)
Below == {ss \in Nat \X Nat : ss[1] < ss[2]}

LEMMA MinIs ==
  ASSUME NEW S \in SUBSET Nat, S # {}
  PROVE  Min(S) \in S /\ \A x \in S : Min(S) <= x
<1>1. IsWellFoundedOn(Below, Nat)
  BY NatLessThanWellFounded, Zenon DEF OpToRel, Below
<1>2. PICK x \in S : \A y \in S : <<y, x>> \notin Below
  BY <1>1, WFMin
<1>3. ASSUME NEW y \in S PROVE x <= y
  <2>1. ~(y < x)
    BY <1>2 DEF Below
  <2>2. QED
    BY <2>1
<1>4. QED
  BY <1>3 DEF Min

LEMMA MaxIs ==
  ASSUME NEW b \in Nat, NEW S \in SUBSET (0 .. b), S # {}
  PROVE  Max(S) \in S /\ \A x \in S : x <= Max(S)
<1> DEFINE gaps == {b - x : x \in S}
<1>1. gaps \in SUBSET Nat /\ gaps # {}
  <2>1. \A x \in S : b - x \in Nat
    OBVIOUS
  <2>2. QED
    BY <2>1
<1>2. Min(gaps) \in gaps /\ \A y \in gaps : Min(gaps) <= y
  BY <1>1, MinIs
<1>3. PICK x \in S : Min(gaps) = b - x
  BY <1>2
<1>4. \A y \in S : x >= y
  BY <1>2, <1>3
<1>5. QED
  BY <1>4 DEF Max

LEMMA MinOfTwo ==
  ASSUME NEW a \in Nat, NEW b \in Nat
  PROVE  Min({a, b}) \in {a, b} /\ Min({a, b}) <= a /\ Min({a, b}) <= b
  BY MinIs

-----------------------------------------------------------------------------
(***************************************************************************)
(* Strings in memory.                                                      *)
(***************************************************************************)
LEMMA StrlenIs ==
  ASSUME NEW m, Ending(m), NEW p \in Memory
  PROVE  Line(m, p, strlen(m, p))
<1>1. End \in Nat /\ Memory = 0 .. End /\ p \in 0 .. End
  BY SlotsAre DEF End, Memory
<1> DEFINE ends == {k \in 0 .. End - p : m[p + k] = Z}
<1>2. End - p \in ends
  BY <1>1 DEF Ending
<1>3. ends \in SUBSET Nat /\ ends # {}
  BY <1>1, <1>2
<1>4. strlen(m, p) = Min(ends)
  BY DEF strlen, End
<1>5. Min(ends) \in ends /\ \A x \in ends : Min(ends) <= x
  BY <1>3, MinIs
<1>6. ASSUME NEW k \in 0 .. Min(ends) - 1 PROVE m[p + k] # Z
  BY <1>1, <1>5
<1>7. QED
  BY <1>4, <1>5, <1>6 DEF Line

LEMMA StrlenUnique ==
  ASSUME NEW m, Ending(m), NEW p \in Memory, NEW l, Line(m, p, l)
  PROVE  strlen(m, p) = l
<1>1. End \in Nat /\ p \in 0 .. End
  BY SlotsAre DEF End, Memory
<1>2. Line(m, p, strlen(m, p))
  BY StrlenIs
<1>3. QED
  BY <1>1, <1>2 DEF Line

LEMMA LineFrom ==
  ASSUME NEW m, NEW p \in Memory, NEW l, Line(m, p, l), NEW a \in 0 .. l
  PROVE  p + a \in Memory /\ Line(m, p + a, l - a)
<1>1. End \in Nat /\ Memory = 0 .. End
  BY SlotsAre DEF End, Memory
<1>2. l \in 0 .. End - p
  BY DEF Line
<1>3. ASSUME NEW k \in 0 .. l - a - 1 PROVE m[p + a + k] # Z
  <2>1. a + k \in 0 .. l - 1 /\ p + (a + k) = p + a + k
    BY <1>1, <1>2
  <2>2. QED
    BY <2>1 DEF Line
<1>4. p + a + (l - a) = p + l
  BY <1>1, <1>2
<1>5. QED
  BY <1>1, <1>2, <1>3, <1>4 DEF Line

LEMMA StrIs ==
  ASSUME NEW m, Ending(m), NEW p \in Memory
  PROVE  /\ Str(m, p) \in Seq(Text) /\ Len(Str(m, p)) = strlen(m, p)
         /\ \A k \in 1 .. strlen(m, p) : Str(m, p)[k] = m[p + k - 1]
<1>1. End \in Nat /\ Memory = 0 .. End /\ p \in 0 .. End
  BY SlotsAre DEF End, Memory
<1>2. Line(m, p, strlen(m, p))
  BY StrlenIs
<1>3. strlen(m, p) \in 0 .. End - p
  BY <1>2 DEF Line
<1>4. ASSUME NEW k \in 1 .. strlen(m, p) PROVE m[p + k - 1] \in Text
  <2>1. k - 1 \in 0 .. strlen(m, p) - 1 /\ p + (k - 1) = p + k - 1 /\ p + k - 1 \in Memory
    BY <1>1, <1>3
  <2>2. m[p + k - 1] # Z
    BY <1>2, <2>1 DEF Line
  <2>3. QED
    BY <2>1, <2>2 DEF Ending, Text
<1>5. Str(m, p) \in [1 .. strlen(m, p) -> Text]
  BY <1>4 DEF Str
<1>6. QED
  BY <1>3, <1>5, SeqDef DEF Str

LEMMA StrSame ==
  ASSUME NEW m, Ending(m), NEW d, Ending(d), NEW p \in Memory,
         \A q \in p .. p + strlen(m, p) : d[q] = m[q]
  PROVE  Str(d, p) = Str(m, p)
<1>1. End \in Nat /\ Memory = 0 .. End /\ p \in 0 .. End
  BY SlotsAre DEF End, Memory
<1>2. Line(m, p, strlen(m, p))
  BY StrlenIs
<1>3. strlen(m, p) \in 0 .. End - p
  BY <1>2 DEF Line
<1>4. Line(d, p, strlen(m, p))
  <2>1. \A k \in 0 .. strlen(m, p) : d[p + k] = m[p + k]
    BY <1>1, <1>3
  <2>2. QED
    BY <1>2, <1>3, <2>1 DEF Line
<1>5. strlen(d, p) = strlen(m, p)
  BY <1>4, StrlenUnique
<1>6. \A k \in 1 .. strlen(m, p) : d[p + k - 1] = m[p + k - 1]
  BY <1>1, <1>3
<1>7. QED
  BY <1>5, <1>6 DEF Str

-----------------------------------------------------------------------------
(***************************************************************************)
(* What the keys do to the memory.                                         *)
(***************************************************************************)
LEMMA Ends == End \in Nat /\ Memory = 0 .. End
  BY SlotsAre DEF End, Memory

LEMMA ByteIs ==
  ASSUME NEW m, Ending(m), NEW p \in Memory, NEW c \in Char, p # End \/ c = Z
  PROVE  /\ Ending(Byte(m, p, c))
         /\ \A q \in Memory : Byte(m, p, c)[q] = IF q = p THEN c ELSE m[q]
<1>1. End \in Memory
  BY Ends
<1>2. Byte(m, p, c) \in [Memory -> Char]
  BY DEF Ending, Byte
<1>3. \A q \in Memory : Byte(m, p, c)[q] = IF q = p THEN c ELSE m[q]
  BY DEF Ending, Byte
<1>4. QED
  BY <1>1, <1>2, <1>3 DEF Ending

(* A character of the line is taken out.                                     *)
LEMMA TakenOut ==
  ASSUME NEW m, Ending(m), NEW p \in Memory, NEW l, Line(m, p, l), NEW a \in 0 .. l - 1,
         NEW d, d = memmove(m, p + a, p + a + 1, l - a)
  PROVE  /\ Ending(d) /\ Line(d, p, l - 1)
         /\ \A q \in Memory : q < p \/ q >= p + l => d[q] = m[q]
<1>1. End \in Nat /\ Memory = 0 .. End /\ p \in Nat /\ l \in Nat /\ p + l <= End
  BY Ends DEF Line
<1>2. \A q \in Memory : d[q] = IF q \in p + a .. p + l - 1 THEN m[q + 1] ELSE m[q]
  <2>1. \A q \in Memory : p + a + 1 + q - (p + a) = q + 1
    BY <1>1
  <2>2. p + a + (l - a) - 1 = p + l - 1
    BY <1>1
  <2>3. QED
    BY <2>1, <2>2 DEF memmove
<1>3. \A q \in p + a .. p + l - 1 : q + 1 \in Memory
  BY <1>1
<1>4. d \in [Memory -> Char]
  <2>1. \A q \in Memory : d[q] \in Char
    BY <1>2, <1>3 DEF Ending
  <2>2. DOMAIN d = Memory /\ d = [q \in Memory |-> d[q]]
    BY DEF memmove
  <2>3. QED
    BY <2>1, <2>2
<1>5. d[End] = Z
  BY <1>1, <1>2 DEF Ending
<1>6. d[p + (l - 1)] = Z
  <2>1. p + (l - 1) \in p + a .. p + l - 1 /\ p + (l - 1) + 1 = p + l
    BY <1>1
  <2>2. m[p + l] = Z
    BY DEF Line
  <2>3. QED
    BY <1>1, <1>2, <2>1, <2>2
<1>7. ASSUME NEW k \in 0 .. l - 1 - 1 PROVE d[p + k] # Z
  <2>1. \A x \in 0 .. l - 1 : m[p + x] # Z
    BY DEF Line
  <2>2. p + k \in Memory /\ k \in 0 .. l - 1 /\ k + 1 \in 0 .. l - 1 /\ p + k + 1 = p + (k + 1)
    BY <1>1
  <2>3. m[p + k] # Z /\ m[p + k + 1] # Z
    BY <2>1, <2>2
  <2>4. QED
    BY <1>2, <2>2, <2>3
<1>8. \A q \in Memory : q < p \/ q >= p + l => d[q] = m[q]
  BY <1>1, <1>2
<1>9. QED
  BY <1>1, <1>4, <1>5, <1>6, <1>7, <1>8 DEF Ending, Line

(* A character is put into the line.                                         *)
LEMMA PutIn ==
  ASSUME NEW m, Ending(m), NEW p \in Memory, NEW l, Line(m, p, l), NEW a \in 0 .. l,
         NEW c \in Text, p + l + 1 \in Memory, NEW d \in [Memory -> Char],
         \A q \in Memory : d[q] = IF q = p + a THEN c
                                  ELSE IF q \in p + a + 1 .. p + l THEN m[q - 1]
                                  ELSE IF q = p + l + 1 THEN Z ELSE m[q]
  PROVE  Ending(d) /\ Line(d, p, l + 1)
<1>1. End \in Nat /\ Memory = 0 .. End /\ p \in Nat /\ l \in Nat /\ p + l + 1 <= End
  BY Ends DEF Line
<1>2. d[End] = Z
  BY <1>1 DEF Ending
<1>3. d[p + (l + 1)] = Z
  BY <1>1
<1>4. ASSUME NEW k \in 0 .. l PROVE d[p + k] # Z
  <2>1. \A x \in 0 .. l - 1 : m[p + x] # Z
    BY DEF Line
  <2>2. CASE k < a
    <3>1. p + k \in Memory /\ k \in 0 .. l - 1 /\ d[p + k] = m[p + k]
      BY <1>1, <2>2
    <3>2. QED
      BY <2>1, <3>1
  <2>3. CASE k = a
    <3>1. p + k \in Memory /\ p + k = p + a
      BY <1>1, <2>3
    <3>2. d[p + k] = c
      BY <3>1
    <3>3. c # Z
      BY Zenon DEF Text
    <3>4. QED
      BY <3>2, <3>3, Zenon
  <2>4. CASE k > a
    <3>1. p + k \in Memory /\ k - 1 \in 0 .. l - 1 /\ p + k \in p + a + 1 .. p + l
          /\ p + k - 1 = p + (k - 1) /\ p + k # p + a
      BY <1>1, <2>4
    <3>2. PICK q \in Memory : q = p + k
      BY <3>1
    <3>3. d[q] = m[q - 1]
      <4>1. q # p + a /\ q \in p + a + 1 .. p + l
        BY <3>1, <3>2
      <4>2. QED
        BY <4>1, Zenon
    <3>4. m[p + (k - 1)] # Z /\ q - 1 = p + (k - 1)
      BY <2>1, <3>1, <3>2
    <3>5. QED
      BY <3>2, <3>3, <3>4, Zenon
  <2>5. QED
    BY <2>2, <2>3, <2>4
<1>5. QED
  BY <1>1, <1>2, <1>3, <1>4 DEF Ending, Line

(* A line is recalled: N bytes are written.                                  *)
LEMMA CopiedIs ==
  ASSUME NEW m, Ending(m), NEW from \in Memory, NEW to \in Memory, to + N <= End,
         NEW d, d = strncpy(m, to, from)
  PROVE  Ending(d) /\ \A q \in Memory : q < to \/ q >= to + N => d[q] = m[q]
<1>1. End \in Nat /\ Memory = 0 .. End /\ N \in Nat
  BY Ends, SlotsAre
<1> DEFINE l == Min({strlen(m, from), N})
<1>2. strlen(m, from) \in 0 .. End - from
  BY StrlenIs DEF Line
<1>3. l \in Nat /\ l <= strlen(m, from)
  BY <1>1, <1>2, MinOfTwo
<1>4. d = [q \in Memory |-> IF q \in to .. to + N - 1
                            THEN IF q - to < l THEN m[from + q - to] ELSE Z
                            ELSE m[q]]
  BY DEF strncpy
<1> HIDE DEF l
<1>5. ASSUME NEW q \in Memory PROVE d[q] \in Char
  <2>1. q \in to .. to + N - 1 /\ q - to < l => from + q - to \in Memory
    BY <1>1, <1>2, <1>3
  <2>2. QED
    BY <1>4, <2>1, Characters DEF Ending
<1>6. d \in [Memory -> Char]
  BY <1>4, <1>5
<1>7. \A q \in Memory : q < to \/ q >= to + N => d[q] = m[q]
  BY <1>1, <1>4
<1>8. QED
  BY <1>1, <1>6, <1>7 DEF Ending

-----------------------------------------------------------------------------
(***************************************************************************)
(* The keys that edit the line, but for Return.                            *)
(***************************************************************************)
\* Nothing is written before the slot of the line, and behind it only the end
\* of a line, unless the line is in the last slot of the history.
Within ==
  /\ Ending(mem')
  /\ \A q \in Memory : q < buf => mem'[q] = mem[q]
  /\ top # H - 1 => /\ \A q \in Memory : q > buf + N => mem'[q] = mem[q]
                    /\ mem'[buf + N] \in {mem[buf + N], Z}

\* The line fits its slot, unless that is the last one of the history.
LEMMA LineFits ==
  ASSUME top \in 0 .. H, Ending(mem), Unused, top # H - 1
  PROVE  mem[buf + N] = Z /\ strlen(mem, buf) <= N
<1>1. mem[buf + N] = Z
  <2>1. CASE top = H
    BY <2>1, Places DEF Ending
  <2>2. CASE top < H - 1
    <3>1. top + 1 \in top + 1 .. H - 1
      BY <2>2, SlotsAre
    <3>2. QED
      BY <3>1, Places DEF Unused
  <2>3. QED
    BY <2>1, <2>2, SlotsAre
<1>2. Line(mem, buf, strlen(mem, buf))
  BY StrlenIs, Places
<1>3. buf \in Nat /\ N \in Nat /\ strlen(mem, buf) \in Nat
  BY <1>2, Places, SlotsAre DEF Line
<1>4. ~(N < strlen(mem, buf))
  BY <1>1, <1>2, <1>3 DEF Line
<1>5. QED
  BY <1>1, <1>3, <1>4

(* The facts about a state from which the keys start.                        *)
LEMMA State ==
  ASSUME IInv
  PROVE  /\ top \in 0 .. H /\ Ending(mem) /\ j \in 0 .. top
         /\ buf \in Memory /\ Line(mem, buf, n) /\ n \in Nat /\ i \in 0 .. n /\ i \in Nat
         /\ buf + n <= End /\ buf + n \in Memory /\ buf + i \in Memory
         /\ top # H - 1 => n <= N
<1>1. top \in 0 .. H /\ Ending(mem) /\ j \in 0 .. top /\ i \in 0 .. n /\ n = strlen(mem, buf)
  BY DEF IInv, TypeOK, Cursor, Ending, End
<1>2. buf \in Memory /\ buf \in Nat /\ Memory = 0 .. End /\ End \in Nat
  BY <1>1, Places
<1>3. Line(mem, buf, n)
  BY <1>1, <1>2, StrlenIs
<1>4. n \in 0 .. End - buf
  BY <1>3 DEF Line
<1>5. top # H - 1 => n <= N
  BY <1>1, LineFits DEF IInv
<1>6. QED
  BY <1>1, <1>2, <1>3, <1>4, <1>5

(* A line of the history is in its slot.                                     *)
LEMMA LogIsBefore ==
  ASSUME IInv, NEW k \in 1 .. Len(log), Len(log[k]) < N
  PROVE  /\ slot(k - 1) \in Memory /\ Str(mem, slot(k - 1)) = log[k]
         /\ slot(k - 1) + strlen(mem, slot(k - 1)) < buf
<1>1. top \in 0 .. H /\ Ending(mem) /\ Len(log) = top
  BY State DEF IInv
<1>2. k - 1 \in Nat /\ k - 1 + 1 = k /\ k \in Nat /\ top \in Nat /\ k <= top
  BY <1>1
<1>3. slot(k) <= buf /\ slot(k) = slot(k - 1) + N /\ slot(k - 1) \in Nat /\ buf \in Nat /\ N \in Nat
  <2>1. slot(k - 1 + 1) = slot(k - 1) + N /\ slot(k) <= slot(top)
    BY <1>2, SlotsAre
  <2>2. slot(k - 1) \in Nat
    BY <1>2, SlotsAre
  <2>3. QED
    BY <1>1, <1>2, <2>1, <2>2, Places, SlotsAre DEF buf
<1>4. slot(k - 1) \in Memory
  BY <1>1, <1>3, Places
<1>5. Str(mem, slot(k - 1)) = log[k]
  BY DEF IInv, HistoryKept
<1>6. Len(log[k]) = strlen(mem, slot(k - 1)) /\ strlen(mem, slot(k - 1)) \in Nat
  BY <1>1, <1>4, <1>5, StrIs, StrlenIs DEF Line
<1>7. QED
  BY <1>3, <1>4, <1>5, <1>6

(* What is written from the slot of the line on changes no earlier line.     *)
LEMMA HistoryStays ==
  ASSUME IInv, Ending(mem'), \A q \in Memory : q < buf => mem'[q] = mem[q],
         NEW k \in 1 .. Len(log), Len(log[k]) < N
  PROVE  Str(mem', slot(k - 1)) = log[k]
<1>1. /\ slot(k - 1) \in Memory /\ Str(mem, slot(k - 1)) = log[k]
      /\ slot(k - 1) + strlen(mem, slot(k - 1)) < buf
  BY LogIsBefore
<1>2. Ending(mem) /\ buf \in Memory /\ Memory = 0 .. End /\ End \in Nat
  BY State, Ends
<1>3. strlen(mem, slot(k - 1)) \in Nat
  BY <1>1, <1>2, StrlenIs DEF Line
<1>4. \A q \in slot(k - 1) .. slot(k - 1) + strlen(mem, slot(k - 1)) :
        q \in Memory /\ q < buf
  BY <1>1, <1>2, <1>3
<1>5. QED
  BY <1>1, <1>2, <1>4, StrSame

LEMMA NothingSeen == last = NoLine => CommandSeesLine /\ last.slot \in 0 .. H
<1>1. SUFFICES ASSUME last = NoLine PROVE CommandSeesLine /\ last.slot \in 0 .. H
  OBVIOUS
<1>2. last.slot = 0 /\ last.seen = <<>> /\ last.typed = <<>>
  BY <1>1 DEF NoLine
<1>3. Len(<<>>) = 0
  BY EmptySeq
<1>4. Min({0, N}) = 0
  <2>1. 0 \in Nat /\ N \in Nat
    BY SlotsAre
  <2>2. Min({0, N}) \in {0, N} /\ Min({0, N}) <= 0
    BY <2>1, MinOfTwo
  <2>3. QED
    BY <2>1, <2>2
<1>5. SubSeq(<<>>, 1, 0) = <<>>
  OBVIOUS
<1>6. QED
  BY <1>2, <1>3, <1>4, <1>5, SlotsAre DEF CommandSeesLine

LEMMA EditKeeps ==
  ASSUME IInv, Within, UNCHANGED <<top, done, log>>, last' = NoLine,
         j' \in 0 .. top, n' = strlen(mem', buf), i' \in 0 .. n', i' \in Nat
  PROVE  IInv'
<1>1. top \in 0 .. H /\ Ending(mem) /\ buf' = buf
  BY State DEF buf
<1>2. n' \in Nat
  BY <1>1, StrlenIs, Places DEF Within, Line
<1>3. CommandSeesLine' /\ last'.slot \in 0 .. H
  <2>1. (last = NoLine)'
    BY DEF NoLine
  <2>2. (CommandSeesLine /\ last.slot \in 0 .. H)'
    BY <2>1, NothingSeen, PTL
  <2>3. QED
    BY <2>2
<1>4. TypeOK'
  BY <1>1, <1>2, <1>3 DEF TypeOK, IInv, Within, Ending, End
<1>5. Cursor'
  BY <1>1 DEF Cursor
<1>6. Unused'
  <2>1. SUFFICES ASSUME NEW k \in top + 1 .. H - 1 PROVE mem'[slot(k)] = Z
    BY DEF Unused
  <2>2. top \in Nat /\ H \in Nat /\ k \in Nat /\ top # H - 1 /\ top + 1 <= k /\ k <= H
    BY <1>1, SlotsAre
  <2>3. slot(k) \in Memory /\ (k # top + 1 => slot(k) > buf + N) /\ slot(top + 1) = buf + N
    <3>1. slot(k) <= slot(H) /\ slot(k) \in Nat
      BY <2>2, SlotsAre
    <3>2. k # top + 1 => slot(top + 2) <= slot(k)
      BY <2>2, SlotsAre
    <3>3. slot(top + 2) = slot(top + 1) + N
      <4>1. top + 1 \in Nat /\ top + 1 + 1 = top + 2
        BY <2>2
      <4>2. QED
        BY <4>1, SlotsAre
    <3>4. slot(top + 1) = buf + N /\ buf \in Nat /\ N \in Nat /\ N # 0
      BY <1>1, Places, SlotsAre
    <3>5. slot(H) \in 0 .. End /\ Memory = 0 .. End
      BY <1>1, Places, SlotsAre
    <3>6. QED
      BY <3>1, <3>2, <3>3, <3>4, <3>5, Ends
  <2>4. mem[slot(k)] = Z
    BY DEF IInv, Unused
  <2>5. CASE k = top + 1
    <3>1. mem'[buf + N] \in {mem[buf + N], Z}
      BY <2>2 DEF Within
    <3>2. slot(k) = buf + N
      BY <2>3, <2>5
    <3>3. QED
      BY <2>4, <3>1, <3>2
  <2>6. CASE k # top + 1
    BY <2>2, <2>3, <2>4, <2>6 DEF Within
  <2>7. QED
    BY <2>5, <2>6
<1>7. Len(log') = top'
  BY DEF IInv
<1>8. HistoryKept'
  BY HistoryStays DEF Within, HistoryKept
<1>9. SettingsKept'
  <2>1. SUFFICES ASSUME top < H - 1, NEW p \in TermiosBytes PROVE mem'[p] = Saved
    BY DEF SettingsKept, TermiosBytes, slot
  <2>2. mem[p] = Saved
    BY <2>1 DEF IInv, SettingsKept
  <2>3. p \in Memory /\ p > buf + N
    <3>1. top + 1 \in Nat /\ top + 1 <= H - 1 /\ H - 1 \in Nat /\ H - 1 + 1 = H
      BY <1>1, <2>1, SlotsAre
    <3>2. slot(top + 1) <= slot(H - 1) /\ slot(H) = slot(H - 1) + N
      BY <3>1, SlotsAre
    <3>3. slot(H - 1) \in Nat
      BY <3>1, SlotsAre
    <3>4. p \in slot(H) .. End - 1
      BY <1>1, Places
    <3>5. slot(top + 1) = buf + N /\ buf \in Nat /\ N \in Nat /\ N # 0 /\ Memory = 0 .. End
      BY <1>1, Places, SlotsAre
    <3>6. p \in Nat /\ p >= slot(H) /\ p < End
      BY <1>1, <3>4, Places
    <3>7. QED
      BY <3>2, <3>3, <3>5, <3>6, Ends
  <2>4. QED
    BY <1>1, <2>1, <2>2, <2>3 DEF Within
<1>10. QED
  BY <1>3, <1>4, <1>5, <1>6, <1>7, <1>8, <1>9 DEF IInv

LEMMA RecallKeeps ==
  ASSUME IInv, NEW k \in 0 .. top, Recall(k)
  PROVE  IInv'
<1> DEFINE cleared == Byte(mem, buf, Z)
<1>1. top \in 0 .. H /\ Ending(mem) /\ buf \in Memory /\ buf + N <= End
  BY State, Places
<1>2. /\ Ending(cleared)
      /\ \A q \in Memory : cleared[q] = IF q = buf THEN Z ELSE mem[q]
  BY <1>1, ByteIs, Characters
<1>3. /\ mem' = IF k = top THEN cleared ELSE strncpy(cleared, buf, slot(k))
      /\ i' = strlen(mem', buf) /\ n' = i' /\ j' = k
      /\ UNCHANGED <<top, done, log>> /\ last' = NoLine
  BY DEF Recall, Edited
<1> HIDE DEF cleared
<1>4. slot(k) \in Memory
  <2>1. k \in Nat /\ top \in Nat /\ k <= top
    BY <1>1
  <2>2. slot(k) \in Nat /\ slot(k) <= slot(top)
    BY <2>1, SlotsAre
  <2>3. QED
    BY <1>1, <2>2, Ends DEF buf
<1>5. /\ Ending(mem')
      /\ \A q \in Memory : q < buf \/ q >= buf + N => mem'[q] = mem[q]
  <2>1. buf \in Nat /\ N \in Nat /\ N # 0 /\ Memory = 0 .. End
    BY <1>1, Places, SlotsAre
  <2>2. CASE k = top
    BY <1>2, <1>3, <2>1, <2>2
  <2>3. CASE k # top
    <3>1. mem' = strncpy(cleared, buf, slot(k))
      BY <1>3, <2>3
    <3>2. Ending(mem') /\ \A q \in Memory : q < buf \/ q >= buf + N => mem'[q] = cleared[q]
      BY <1>1, <1>2, <1>4, <3>1, CopiedIs
    <3>3. QED
      BY <1>2, <2>1, <3>2
  <2>4. QED
    BY <2>2, <2>3
<1>6. Within
  <2>1. buf \in Nat /\ N \in Nat /\ buf + N \in Memory /\ Memory = 0 .. End /\ End \in Nat
    BY <1>1, Places, SlotsAre
  <2>2. QED
    BY <1>5, <2>1 DEF Within
<1>7. strlen(mem', buf) \in Nat
  BY <1>1, <1>5, StrlenIs DEF Line
<1>8. QED
  BY <1>1, <1>3, <1>6, <1>7, EditKeeps

LEMMA MoveKeeps ==
  ASSUME IInv, Left \/ Right
  PROVE  IInv'
<1>1. i \in 0 .. n /\ n \in Nat /\ i' \in {i - 1, 0, i + 1, n}
      /\ (i' = i - 1 => i > 0) /\ (i' = i + 1 => i < n)
      /\ n = strlen(mem, buf) /\ j \in 0 .. top
  BY State DEF Left, Right, IInv, Cursor
<1>2. UNCHANGED <<top, done, log, mem, j, n>> /\ last' = NoLine
  BY DEF Left, Right, Edited
<1>3. Within
  BY <1>2, State DEF Within
<1>4. i' \in 0 .. n' /\ i' \in Nat
  BY <1>1, <1>2
<1>5. QED
  BY <1>1, <1>2, <1>3, <1>4, EditKeeps

LEMMA CutKeeps ==
  ASSUME IInv, Cut
  PROVE  IInv'
<1>1. /\ top \in 0 .. H /\ Ending(mem) /\ buf \in Memory /\ buf + i \in Memory /\ i \in Nat
      /\ i <= n /\ n \in Nat /\ (top # H - 1 => n <= N) /\ j \in 0 .. top
  BY State
<1>2. /\ mem' = Byte(mem, buf + i, Z) /\ i' = strlen(mem', buf) /\ n' = i'
      /\ UNCHANGED <<top, done, log, j>> /\ last' = NoLine
  BY DEF Cut, Edited
<1>3. Ending(mem') /\ \A q \in Memory : mem'[q] = IF q = buf + i THEN Z ELSE mem[q]
  BY <1>1, <1>2, ByteIs, Characters
<1>4. buf \in Nat /\ N \in Nat /\ Memory = 0 .. End /\ End \in Nat /\ buf + N \in Memory
  BY <1>1, Places, SlotsAre
<1>5. Within
  <2>1. \A q \in Memory : q < buf => mem'[q] = mem[q]
    BY <1>1, <1>3, <1>4
  <2>2. top # H - 1 => \A q \in Memory : q > buf + N => mem'[q] = mem[q]
    BY <1>1, <1>3, <1>4
  <2>3. mem'[buf + N] \in {mem[buf + N], Z}
    BY <1>3, <1>4
  <2>4. QED
    BY <1>3, <2>1, <2>2, <2>3 DEF Within
<1>6. strlen(mem', buf) \in Nat
  BY <1>1, <1>3, StrlenIs DEF Line
<1>7. QED
  BY <1>1, <1>2, <1>5, <1>6, EditKeeps

(* Control-D takes out the character at the cursor, Backspace the one before *)
LEMMA TakeOutKeeps ==
  ASSUME IInv, NEW a \in 0 .. n - 1,
         mem' = memmove(mem, buf + a, buf + a + 1, n - a), n' = n - 1,
         i' \in 0 .. n', UNCHANGED <<top, done, log, j>>, last' = NoLine
  PROVE  IInv'
<1>1. /\ top \in 0 .. H /\ Ending(mem) /\ buf \in Memory /\ Line(mem, buf, n)
      /\ n \in Nat /\ (top # H - 1 => n <= N) /\ j \in 0 .. top
  BY State
<1>2. /\ Ending(mem') /\ Line(mem', buf, n - 1)
      /\ \A q \in Memory : q < buf \/ q >= buf + n => mem'[q] = mem[q]
  BY <1>1, TakenOut
<1>3. strlen(mem', buf) = n'
  BY <1>1, <1>2, StrlenUnique
<1>4. buf \in Nat /\ N \in Nat /\ Memory = 0 .. End /\ End \in Nat /\ buf + N \in Memory
  BY <1>1, Places, SlotsAre
<1>5. Within
  BY <1>1, <1>2, <1>4 DEF Within
<1>6. i' \in Nat
  BY <1>1
<1>7. QED
  BY <1>1, <1>3, <1>5, <1>6, EditKeeps

LEMMA DeleteKeeps ==
  ASSUME IInv, Delete
  PROVE  IInv'
<1>1. /\ Ending(mem) /\ buf \in Memory /\ Line(mem, buf, n) /\ n \in Nat /\ i \in 0 .. n
      /\ buf + n <= End
  BY State
<1>2. /\ n > i /\ mem' = memmove(mem, buf + i, buf + i + 1, strlen(mem, buf + i + 1) + 1)
      /\ n' = n - 1 /\ UNCHANGED <<top, done, log, j, i>> /\ last' = NoLine
  BY DEF Delete, Edited
<1>3. buf \in Nat /\ buf + (i + 1) = buf + i + 1 /\ i + 1 \in 0 .. n
  BY <1>1, <1>2, Ends
<1>4. buf + i + 1 \in Memory /\ Line(mem, buf + i + 1, n - (i + 1))
  BY <1>1, <1>3, LineFrom
<1>5. strlen(mem, buf + i + 1) = n - (i + 1)
  BY <1>1, <1>4, StrlenUnique
<1>6. strlen(mem, buf + i + 1) + 1 = n - i
  BY <1>1, <1>5
<1>7. i \in 0 .. n - 1 /\ i' \in 0 .. n'
  BY <1>1, <1>2
<1>8. QED
  BY <1>2, <1>6, <1>7, TakeOutKeeps

LEMMA BackspaceKeeps ==
  ASSUME IInv, Backspace
  PROVE  IInv'
<1>1. /\ Ending(mem) /\ buf \in Memory /\ Line(mem, buf, n) /\ n \in Nat /\ i \in 0 .. n
      /\ buf + n <= End
  BY State
<1>2. /\ 0 < i /\ mem' = memmove(mem, buf + i - 1, buf + i, strlen(mem, buf + i) + 1)
      /\ i' = i - 1 /\ n' = n - 1 /\ UNCHANGED <<top, done, log, j>> /\ last' = NoLine
  BY DEF Backspace, Edited
<1>3. buf \in Nat /\ buf + i - 1 = buf + (i - 1) /\ buf + i = buf + (i - 1) + 1 /\ i - 1 \in 0 .. n - 1
  BY <1>1, <1>2, Ends
<1>4. buf + i \in Memory /\ Line(mem, buf + i, n - i)
  BY <1>1, LineFrom
<1>5. strlen(mem, buf + i) = n - i
  BY <1>1, <1>4, StrlenUnique
<1>6. strlen(mem, buf + i) + 1 = n - (i - 1) /\ i' \in 0 .. n'
  BY <1>1, <1>2, <1>3, <1>5
<1>7. mem' = memmove(mem, buf + (i - 1), buf + (i - 1) + 1, n - (i - 1))
  BY <1>2, <1>3, <1>6
<1>8. QED
  BY <1>2, <1>3, <1>6, <1>7, TakeOutKeeps

(* A blank or a letter is put in at the cursor.                              *)
LEMMA PutInKeeps ==
  ASSUME IInv, NEW c \in Text, n < N, mem' \in [Memory -> Char],
         \A q \in Memory : mem'[q] = IF q = buf + i THEN c
                                     ELSE IF q \in buf + i + 1 .. buf + n THEN mem[q - 1]
                                     ELSE IF q = buf + n + 1 THEN Z ELSE mem[q],
         i' = i + 1, n' = n + 1, UNCHANGED <<top, done, log, j>>, last' = NoLine
  PROVE  IInv'
<1>1. /\ top \in 0 .. H /\ Ending(mem) /\ buf \in Memory /\ Line(mem, buf, n)
      /\ n \in Nat /\ i \in 0 .. n /\ i \in Nat /\ j \in 0 .. top
  BY State
<1>2. buf \in Nat /\ N \in Nat /\ Memory = 0 .. End /\ End \in Nat /\ buf + N \in Memory
  BY <1>1, Places, SlotsAre
<1>3. buf + n + 1 \in Memory /\ buf + n + 1 <= buf + N
  BY <1>1, <1>2
<1>4. Ending(mem') /\ Line(mem', buf, n + 1)
  BY <1>1, <1>3, PutIn
<1>5. strlen(mem', buf) = n'
  BY <1>1, <1>4, StrlenUnique
<1>6. Within
  <2>1. \A q \in Memory : q < buf \/ q > buf + N => mem'[q] = mem[q]
    BY <1>1, <1>2, <1>3, SMTT(40)
  <2>2. mem'[buf + N] \in {mem[buf + N], Z}
    <3>1. CASE n + 1 = N
      BY <1>1, <1>2, <3>1
    <3>2. CASE n + 1 # N
      BY <1>1, <1>2, <3>2
    <3>3. QED
      BY <3>1, <3>2
  <2>3. QED
    BY <1>4, <2>1, <2>2 DEF Within
<1>7. i' \in 0 .. n' /\ i' \in Nat
  BY <1>1
<1>8. QED
  BY <1>1, <1>5, <1>6, <1>7, EditKeeps

LEMMA SpaceKeeps ==
  ASSUME IInv, Space
  PROVE  IInv'
<1>1. /\ top \in 0 .. H /\ Ending(mem) /\ buf \in Memory /\ Line(mem, buf, n)
      /\ n \in Nat /\ i \in 0 .. n /\ buf + i \in Memory
  BY State
<1> DEFINE moved == memmove(mem, buf + i + 1, buf + i, strlen(mem, buf + i) + 1)
<1>2. /\ n < N /\ mem' = Byte(moved, buf + i, Blank)
      /\ i' = i + 1 /\ n' = n + 1 /\ UNCHANGED <<top, done, log, j>> /\ last' = NoLine
  BY SlotsAre, <1>1 DEF Space, Edited
<1>3. buf \in Nat /\ N \in Nat /\ Memory = 0 .. End /\ End \in Nat /\ buf + N <= End
  BY <1>1, Places, SlotsAre
<1>4. strlen(mem, buf + i) = n - i
  BY <1>1, LineFrom, StrlenUnique
<1>5. moved = [q \in Memory |-> IF q \in buf + i + 1 .. buf + n + 1 THEN mem[q - 1] ELSE mem[q]]
  <2>1. buf + i + 1 + (strlen(mem, buf + i) + 1) - 1 = buf + n + 1
    BY <1>1, <1>3, <1>4
  <2>2. \A q \in Memory : buf + i + q - (buf + i + 1) = q - 1
    BY <1>1, <1>3
  <2>3. QED
    BY <2>1, <2>2 DEF memmove
<1>6. mem' = [moved EXCEPT ![buf + i] = Blank]
  BY <1>2 DEF Byte
<1> HIDE DEF moved
<1>7. moved \in [Memory -> Char]
  <2>1. \A q \in buf + i + 1 .. buf + n + 1 : q - 1 \in Memory
    BY <1>1, <1>2, <1>3
  <2>2. ASSUME NEW q \in Memory PROVE moved[q] \in Char
    <3>1. mem \in [Memory -> Char]
      BY <1>1 DEF Ending
    <3>2. moved[q] = IF q \in buf + i + 1 .. buf + n + 1 THEN mem[q - 1] ELSE mem[q]
      BY <1>5
    <3>3. CASE q \in buf + i + 1 .. buf + n + 1
      BY <2>1, <3>1, <3>2, <3>3, Zenon
    <3>4. CASE q \notin buf + i + 1 .. buf + n + 1
      BY <3>1, <3>2, <3>4, Zenon
    <3>5. QED
      BY <3>3, <3>4
  <2>3. QED
    BY <1>5, <2>2
<1>8. mem' \in [Memory -> Char]
  BY <1>6, <1>7, Characters DEF Text
<1>9. ASSUME NEW q \in Memory
      PROVE  mem'[q] = IF q = buf + i THEN Blank
                       ELSE IF q \in buf + i + 1 .. buf + n THEN mem[q - 1]
                       ELSE IF q = buf + n + 1 THEN Z ELSE mem[q]
  <2>1. mem'[q] = IF q = buf + i THEN Blank ELSE moved[q]
    BY <1>6, <1>7
  <2>2. mem[buf + n + 1 - 1] = Z
    <3>1. buf + n + 1 - 1 = buf + n
      BY <1>1, <1>3
    <3>2. QED
      BY <1>1, <3>1 DEF Line
  <2>3. moved[q] = IF q \in buf + i + 1 .. buf + n + 1 THEN mem[q - 1] ELSE mem[q]
    BY <1>5
  <2>4. QED
    BY <1>1, <1>3, <2>1, <2>2, <2>3
<1>10. QED
  BY <1>2, <1>8, <1>9, Characters, PutInKeeps

LEMMA PrintableKeeps ==
  ASSUME IInv, Printable
  PROVE  IInv'
<1>1. /\ top \in 0 .. H /\ Ending(mem) /\ buf \in Memory /\ Line(mem, buf, n)
      /\ n \in Nat /\ i \in 0 .. n /\ buf + i \in Memory
  BY State
<1> DEFINE moved == IF i < n THEN memmove(mem, buf + i + 1, buf + i, strlen(mem, buf + i))
                    ELSE mem
<1>2. PICK c \in Letters : mem' = Byte(Byte(moved, buf + i, c), buf + n + 1, Z)
  BY DEF Printable
<1>3. /\ n + 1 < N /\ i' = i + 1 /\ n' = n + 1
      /\ UNCHANGED <<top, done, log, j>> /\ last' = NoLine
  BY DEF Printable, Fits, Edited
<1>4. buf \in Nat /\ N \in Nat /\ Memory = 0 .. End /\ End \in Nat /\ buf + N <= End
  BY <1>1, Places, SlotsAre
<1>5. strlen(mem, buf + i) = n - i
  BY <1>1, LineFrom, StrlenUnique
<1>6. /\ moved \in [Memory -> Char]
      /\ \A q \in Memory : moved[q] = IF q \in buf + i + 1 .. buf + n THEN mem[q - 1] ELSE mem[q]
  <2>1. CASE i < n
    <3>1. buf + i + 1 + (n - i) - 1 = buf + n
      BY <1>1, <1>4
    <3>2. \A q \in Memory : buf + i + q - (buf + i + 1) = q - 1
      BY <1>1, <1>4
    <3>3. moved = [q \in Memory |-> IF q \in buf + i + 1 .. buf + n THEN mem[q - 1] ELSE mem[q]]
      BY <1>5, <2>1, <3>1, <3>2 DEF memmove
    <3>4. \A q \in buf + i + 1 .. buf + n : q - 1 \in Memory
      BY <1>1, <1>3, <1>4
    <3>5. ASSUME NEW q \in Memory PROVE moved[q] \in Char
      <4>1. mem \in [Memory -> Char]
        BY <1>1 DEF Ending
      <4>2. moved[q] = IF q \in buf + i + 1 .. buf + n THEN mem[q - 1] ELSE mem[q]
        BY <3>3
      <4>3. CASE q \in buf + i + 1 .. buf + n
        BY <3>4, <4>1, <4>2, <4>3, Zenon
      <4>4. CASE q \notin buf + i + 1 .. buf + n
        BY <4>1, <4>2, <4>4, Zenon
      <4>5. QED
        BY <4>3, <4>4
    <3>6. \A q \in Memory : moved[q] = IF q \in buf + i + 1 .. buf + n THEN mem[q - 1] ELSE mem[q]
      BY <3>3
    <3>7. moved \in [Memory -> Char]
      BY <3>3, <3>5
    <3>8. QED
      BY <3>6, <3>7
  <2>2. CASE ~(i < n)
    <3>1. moved = mem /\ buf + i + 1 > buf + n
      BY <1>1, <1>4, <2>2
    <3>2. QED
      BY <1>1, <1>4, <3>1 DEF Ending
  <2>3. QED
    BY <2>1, <2>2
<1>7. mem' = [[moved EXCEPT ![buf + i] = c] EXCEPT ![buf + n + 1] = Z]
  BY <1>2 DEF Byte
<1> HIDE DEF moved
<1>8. c \in Text /\ c \in Char /\ Z \in Char
  BY Characters DEF Text
<1>9. mem' \in [Memory -> Char]
  BY <1>6, <1>7, <1>8
<1>10. ASSUME NEW q \in Memory
       PROVE  mem'[q] = IF q = buf + i THEN c
                        ELSE IF q \in buf + i + 1 .. buf + n THEN mem[q - 1]
                        ELSE IF q = buf + n + 1 THEN Z ELSE mem[q]
  <2>1. mem'[q] = IF q = buf + n + 1 THEN Z ELSE IF q = buf + i THEN c ELSE moved[q]
    BY <1>6, <1>7
  <2>2. moved[q] = IF q \in buf + i + 1 .. buf + n THEN mem[q - 1] ELSE mem[q]
    BY <1>6
  <2>3. buf + i # buf + n + 1
    BY <1>1, <1>4
  <2>4. QED
    BY <1>1, <1>4, <2>1, <2>2, <2>3
<1>11. n < N
  BY <1>1, <1>3, <1>4
<1>12. QED
  BY <1>3, <1>8, <1>9, <1>10, <1>11, PutInKeeps

-----------------------------------------------------------------------------
(***************************************************************************)
(* Blanks around a line.                                                   *)
(***************************************************************************)
LEMMA TrimmedIs ==
  ASSUME NEW s \in Seq(Text)
  PROVE  Trimmed(s) \in Seq(Text) /\ Len(Trimmed(s)) \in 0 .. Len(s)
<1> DEFINE solid == {k \in DOMAIN s : s[k] # Blank}
<1>1. Len(s) \in Nat /\ DOMAIN s = 1 .. Len(s) /\ \A k \in 1 .. Len(s) : s[k] \in Text
  BY LenProperties, ElementOfSeq
<1>2. solid \in SUBSET (0 .. Len(s)) /\ solid \in SUBSET Nat /\ solid \in SUBSET (1 .. Len(s))
  BY <1>1
<1>3. Trimmed(s) = IF solid = {} THEN <<>> ELSE SubSeq(s, Min(solid), Max(solid))
  BY DEF Trimmed
<1> HIDE DEF solid
<1>4. CASE solid = {}
  <2>1. Trimmed(s) = <<>>
    BY <1>3, <1>4
  <2>2. QED
    BY <1>1, <2>1, EmptySeq
<1>5. CASE solid # {}
  <2>1. Min(solid) \in solid /\ \A x \in solid : Min(solid) <= x
    BY <1>2, <1>5, MinIs
  <2>2. Max(solid) \in solid
    BY <1>1, <1>2, <1>5, MaxIs
  <2>3. Trimmed(s) = SubSeq(s, Min(solid), Max(solid))
    BY <1>3, <1>5
  <2>4. PICK a \in 1 .. Len(s), b \in 1 .. Len(s) :
          a <= b /\ a = Min(solid) /\ b = Max(solid)
    BY <1>2, <2>1, <2>2
  <2>5. SubSeq(s, a, b) \in Seq(Text) /\ Len(SubSeq(s, a, b)) = b - a + 1
    <3>1. a \in 1 .. Len(s) + 1 /\ b \in a - 1 .. Len(s) /\ ~(a > b)
      BY <1>1, <2>4
    <3>2. SubSeq(s, a, b) \in Seq(Text)
      BY <1>1, <3>1, <2>4, SubSeqProperties
    <3>3. Len(SubSeq(s, a, b)) = IF a <= b THEN b - a + 1 ELSE 0
      BY <1>1, <3>1, <2>4, SubSeqProperties
    <3>4. QED
      BY <3>2, <3>3, <2>4
  <2>6. QED
    BY <1>1, <2>3, <2>4, <2>5
<1>6. QED
  BY <1>4, <1>5

(* The string at p without the blanks around it, in its place.               *)
LEMMA TrimIs ==
  ASSUME NEW m, Ending(m), NEW p \in Memory
  PROVE  LET d == shell_strtrim(m, p)
             t == Trimmed(Str(m, p))
         IN /\ t \in Seq(Text) /\ Len(t) \in 0 .. strlen(m, p)
            /\ Ending(d) /\ Line(d, p, Len(t))
            /\ \A k \in 1 .. Len(t) : d[p + k - 1] = t[k]
            /\ d[p + strlen(m, p)] = Z
            /\ \A q \in Memory : q < p \/ q > p + strlen(m, p) => d[q] = m[q]
<1> DEFINE d == shell_strtrim(m, p)
<1> DEFINE t == Trimmed(Str(m, p))
<1>1. End \in Nat /\ Memory = 0 .. End /\ p \in Nat
  BY Ends
<1>2. Line(m, p, strlen(m, p))
  BY StrlenIs
<1>3. strlen(m, p) \in Nat /\ p + strlen(m, p) <= End /\ m[p + strlen(m, p)] = Z
  BY <1>1, <1>2 DEF Line
<1>4. t \in Seq(Text) /\ Len(t) \in 0 .. strlen(m, p)
  BY StrIs, TrimmedIs
<1> HIDE DEF t
<1>5. Len(t) \in Nat /\ Len(t) <= strlen(m, p) /\ \A k \in 1 .. Len(t) : t[k] \in Text
  BY <1>3, <1>4, ElementOfSeq
<1> DEFINE laid == [q \in Memory |-> IF q \in p .. p + Len(t) - 1 THEN t[q - p + 1] ELSE m[q]]
<1>6. d = Byte(laid, p + Len(t), Z)
  BY DEF shell_strtrim, t
<1> HIDE DEF d
<1>7. DOMAIN laid = Memory /\ laid = [q \in Memory |-> laid[q]]
  OBVIOUS
<1>8. \A q \in Memory : laid[q] = IF q \in p .. p + Len(t) - 1 THEN t[q - p + 1] ELSE m[q]
  OBVIOUS
<1> HIDE DEF laid
<1>9. \A q \in p .. p + Len(t) - 1 : q - p + 1 \in 1 .. Len(t)
  BY <1>1, <1>5
<1>10. ASSUME NEW q \in Memory PROVE laid[q] \in Char
  <2>1. m \in [Memory -> Char] /\ Text \subseteq Char
    BY DEF Ending, Text
  <2>2. CASE q \in p .. p + Len(t) - 1
    BY <1>5, <1>8, <1>9, <2>1, <2>2, Zenon
  <2>3. CASE q \notin p .. p + Len(t) - 1
    BY <1>8, <2>1, <2>3, Zenon
  <2>4. QED
    BY <2>2, <2>3
<1>11. laid \in [Memory -> Char]
  BY <1>7, <1>10
<1>12. End \notin p .. p + Len(t) - 1
  BY <1>1, <1>3, <1>5
<1>13. Ending(laid)
  <2>1. laid[End] = m[End]
    BY <1>1, <1>8, <1>12
  <2>2. QED
    BY <1>11, <2>1 DEF Ending
<1>14. p + Len(t) \in Memory
  BY <1>1, <1>3, <1>5
<1>15. Ending(d) /\ \A q \in Memory : d[q] = IF q = p + Len(t) THEN Z ELSE laid[q]
  BY <1>6, <1>13, <1>14, ByteIs, Characters
<1>16. ASSUME NEW k \in 1 .. Len(t) PROVE d[p + k - 1] = t[k]
  <2>1. PICK q \in Memory : q = p + k - 1
    BY <1>1, <1>3, <1>5
  <2>2. q \in p .. p + Len(t) - 1 /\ q - p + 1 = k /\ q # p + Len(t)
    BY <1>1, <1>5, <2>1
  <2>3. d[q] = laid[q] /\ laid[q] = t[q - p + 1]
    BY <1>8, <1>15, <2>2, Zenon
  <2>4. QED
    BY <2>1, <2>2, <2>3, Zenon
<1>17. Line(d, p, Len(t))
  <2>1. Len(t) \in 0 .. End - p
    BY <1>1, <1>3, <1>5
  <2>2. d[p + Len(t)] = Z
    BY <1>14, <1>15
  <2>3. ASSUME NEW k \in 0 .. Len(t) - 1 PROVE d[p + k] # Z
    <3>1. k + 1 \in 1 .. Len(t) /\ p + (k + 1) - 1 = p + k
      BY <1>1, <1>5
    <3>2. d[p + (k + 1) - 1] = t[k + 1] /\ t[k + 1] \in Text
      BY <1>5, <1>16, <3>1
    <3>3. t[k + 1] # Z
      BY <3>2 DEF Text
    <3>4. QED
      BY <3>1, <3>2, <3>3, Zenon
  <2>4. QED
    BY <2>1, <2>2, <2>3 DEF Line
<1>18. d[p + strlen(m, p)] = Z
  <2>1. PICK q \in Memory : q = p + strlen(m, p)
    BY <1>1, <1>3
  <2>2. q \notin p .. p + Len(t) - 1
    BY <1>1, <1>3, <1>5, <2>1
  <2>3. laid[q] = m[q] /\ m[q] = Z
    BY <1>3, <1>8, <2>1, <2>2, Zenon
  <2>4. QED
    BY <1>15, <2>1, <2>3
<1>19. ASSUME NEW q \in Memory, q < p \/ q > p + strlen(m, p) PROVE d[q] = m[q]
  <2>1. q \notin p .. p + Len(t) - 1 /\ q # p + Len(t)
    BY <1>1, <1>3, <1>5, <1>19
  <2>2. QED
    BY <1>8, <1>15, <2>1, Zenon
<1>20. QED
  BY <1>4, <1>15, <1>16, <1>17, <1>18, <1>19 DEF d, t

-----------------------------------------------------------------------------
(***************************************************************************)
(* Return.                                                                 *)
(***************************************************************************)
(* The next line is cleared before the command sees this one, which is cut   *)
(* to the size of a slot.                                                    *)
LEMMA ClearedIs ==
  ASSUME NEW m, NEW p \in Memory, NEW l, Line(m, p, l), p + N \in Memory,
         NEW d, \A q \in Memory : d[q] = IF q = p + N THEN Z ELSE m[q],
         NEW k \in Nat, k \in {l, N}, k <= l, k <= N
  PROVE  Line(d, p, k)
<1>1. /\ End \in Nat /\ Memory = 0 .. End /\ p \in Nat /\ N \in Nat /\ N # 0
      /\ l \in Nat /\ p + l <= End
  BY Ends, SlotsAre DEF Line
<1>2. \A q \in Memory : d[q] = IF q = p + N THEN Z ELSE m[q]
  OBVIOUS
<1>3. k \in {l, N} /\ k <= l /\ k <= N /\ k \in Nat
  OBVIOUS
<1>4. \A x \in 0 .. l - 1 : m[p + x] # Z
  BY DEF Line
<1>5. d[p + k] = Z
  <2>1. CASE k = N
    BY <1>2, <2>1
  <2>2. CASE k = l
    <3>1. m[p + l] = Z /\ p + l \in Memory
      BY <1>1 DEF Line
    <3>2. QED
      BY <1>2, <2>2, <3>1
  <2>3. QED
    BY <1>3, <2>1, <2>2
<1>6. ASSUME NEW x \in 0 .. k - 1 PROVE d[p + x] # Z
  <2>1. p + x \in Memory /\ p + x # p + N /\ x \in 0 .. l - 1
    BY <1>1, <1>3
  <2>2. d[p + x] = m[p + x] /\ m[p + x] # Z
    BY <1>2, <1>4, <2>1
  <2>3. QED
    BY <2>2
<1>7. k \in 0 .. End - p
  BY <1>1, <1>3
<1>8. Line(d, p, k)
  BY <1>5, <1>6, <1>7 DEF Line
<1>9. QED
  BY <1>8

(* The command writes nothing but the line it is given.                      *)
LEMMA DispatchIs ==
  ASSUME NEW m, Ending(m), NEW p \in Memory, NEW l, Line(m, p, l),
         NEW d, d = Dispatch(m, p)
  PROVE  /\ Ending(d) /\ d[p + l] = Z
         /\ \A q \in Memory : q < p \/ q > p + l => d[q] = m[q]
<1>1. /\ End \in Nat /\ Memory = 0 .. End /\ p \in Nat /\ l \in Nat /\ p + l <= End
      /\ m[p + l] = Z
  BY Ends DEF Line
<1>2. CASE m[p] \notin Letters
  <2>1. d = m
    BY <1>2 DEF Dispatch
  <2>2. QED
    BY <1>1, <2>1
<1>3. CASE m[p] \in Letters
  <2>1. m[p] # Z
    BY <1>3, Characters DEF Text
  <2>2. l # 0
    BY <1>1, <2>1
  <2>3. 1 \in 0 .. l
    BY <1>1, <2>2
  <2>4. p + 1 \in Memory /\ Line(m, p + 1, l - 1)
    BY <2>3, LineFrom
  <2>5. PICK r \in Memory : r = p + 1
    BY <2>4
  <2>6. strlen(m, r) = l - 1 /\ d = shell_strtrim(m, r)
    BY <1>3, <2>4, <2>5, StrlenUnique DEF Dispatch
  <2>7. /\ Ending(d) /\ d[r + strlen(m, r)] = Z
        /\ \A q \in Memory : q < r \/ q > r + strlen(m, r) => d[q] = m[q]
    <3>1. /\ Ending(shell_strtrim(m, r)) /\ shell_strtrim(m, r)[r + strlen(m, r)] = Z
          /\ \A q \in Memory : q < r \/ q > r + strlen(m, r) => shell_strtrim(m, r)[q] = m[q]
      BY TrimIs
    <3>2. QED
      BY <2>6, <3>1, Zenon
  <2>8. r + strlen(m, r) = p + l
    BY <1>1, <2>5, <2>6
  <2>9. QED
    BY <1>1, <2>5, <2>7, <2>8
<1>4. QED
  BY <1>2, <1>3

LEMMA NextSlotIs ==
  ASSUME top \in 0 .. H
  PROVE  NextSlot = IF top < H THEN top + 1 ELSE H
<1>1. top \in Nat /\ top + 1 \in Nat /\ H \in Nat /\ top <= H
  BY SlotsAre
<1>2. Min({top + 1, H}) \in {top + 1, H} /\ Min({top + 1, H}) <= top + 1 /\ Min({top + 1, H}) <= H
  BY <1>1, MinOfTwo
<1>3. QED
  BY <1>1, <1>2 DEF NextSlot

(* A line of blanks.                                                         *)
LEMMA EmptyKeeps ==
  ASSUME IInv, NEW d, d = shell_strtrim(mem, buf), strlen(d, buf) = 0,
         mem' = d, Restart(d, top), last' = NoLine, UNCHANGED <<done, log>>
  PROVE  IInv'
<1>1. /\ top \in 0 .. H /\ Ending(mem) /\ buf \in Memory /\ n \in Nat
      /\ (top # H - 1 => n <= N) /\ n = strlen(mem, buf)
  BY State DEF IInv, Cursor
<1>2. buf \in Nat /\ N \in Nat /\ Memory = 0 .. End /\ End \in Nat /\ buf + N \in Memory
  BY <1>1, Places, SlotsAre
<1>3. /\ Ending(d) /\ d[buf + n] = Z
      /\ \A q \in Memory : q < buf \/ q > buf + n => d[q] = mem[q]
  BY <1>1, TrimIs
<1>4. Within
  <2>1. top # H - 1 => mem'[buf + N] \in {mem[buf + N], Z}
    BY <1>1, <1>2, <1>3
  <2>2. \A q \in Memory : q < buf => mem'[q] = mem[q]
    BY <1>3
  <2>3. top # H - 1 => \A q \in Memory : q > buf + N => mem'[q] = mem[q]
    BY <1>1, <1>2, <1>3
  <2>4. QED
    BY <1>3, <2>1, <2>2, <2>3 DEF Within
<1>5. j' = top /\ i' = 0 /\ n' = strlen(mem', buf) /\ n' = 0 /\ top' = top
  BY DEF Restart, buf
<1>6. j' \in 0 .. top /\ i' \in 0 .. n' /\ i' \in Nat
  BY <1>1, <1>5, SlotsAre
<1>7. QED
  BY <1>4, <1>5, <1>6, EditKeeps

(* A line with something in it, in a slot of the history.                    *)
LEMMA EnteredKeeps ==
  ASSUME IInv, top < H, NEW tr, tr = shell_strtrim(mem, buf), strlen(tr, buf) # 0,
         NEW cl, cl = Byte(tr, slot(top + 1), Z), NEW af, af = Dispatch(cl, buf),
         mem' = af, Restart(af, top + 1), done' \in BOOLEAN,
         last' = [typed |-> Trimmed(Str(mem, buf)), seen |-> Str(cl, buf), slot |-> top],
         log' = Append(log, Str(af, buf))
  PROVE  IInv'
<1> DEFINE t == Trimmed(Str(mem, buf))
<1> DEFINE k == Min({Len(t), N})
<1>1. /\ top \in 0 .. H /\ top \in Nat /\ Ending(mem) /\ buf \in Memory /\ n \in Nat
      /\ (top # H - 1 => n <= N) /\ n = strlen(mem, buf) /\ H \in Nat
  BY State, SlotsAre DEF IInv, Cursor
<1>2. /\ buf \in Nat /\ N \in Nat /\ N # 0 /\ Memory = 0 .. End /\ End \in Nat
      /\ buf + N \in Memory /\ slot(top + 1) = buf + N
  BY <1>1, Places, SlotsAre
<1>3. /\ t \in Seq(Text) /\ Len(t) \in 0 .. n
      /\ Ending(tr) /\ Line(tr, buf, Len(t))
      /\ \A x \in 1 .. Len(t) : tr[buf + x - 1] = t[x]
      /\ \A q \in Memory : q < buf \/ q > buf + n => tr[q] = mem[q]
  BY <1>1, TrimIs, ZenonT(60)
<1>4. cl = Byte(tr, buf + N, Z)
  BY <1>2
<1> HIDE DEF t
<1>5. /\ Ending(cl) /\ Line(cl, buf, k) /\ k \in 0 .. N /\ k <= Len(t)
      /\ \A q \in Memory : cl[q] = IF q = buf + N THEN Z ELSE tr[q]
  <2>1. PICK l : l = Len(t)
    OBVIOUS
  <2>2. /\ Ending(tr) /\ Line(tr, buf, l) /\ l \in Nat
        /\ buf \in Memory /\ buf + N \in Memory /\ N \in Nat
    BY <1>1, <1>2, <1>3, <2>1
  <2>3. k \in {l, N} /\ k <= l /\ k <= N /\ k \in Nat
    <3>1. k = Min({l, N})
      BY <2>1
    <3>2. Min({l, N}) \in {l, N} /\ Min({l, N}) <= l /\ Min({l, N}) <= N
      BY <2>2, MinOfTwo
    <3>3. QED
      BY <2>2, <3>1, <3>2
  <2> HIDE DEF k
  <2>4. Ending(cl) /\ \A q \in Memory : cl[q] = IF q = buf + N THEN Z ELSE tr[q]
    BY <1>4, <2>2, ByteIs, Characters
  <2>5. Line(cl, buf, k)
    BY <2>2, <2>4, <2>3, ClearedIs
  <2>6. QED
    BY <2>1, <2>2, <2>4, <2>5, <2>3
<1> HIDE DEF k
<1>6. /\ Ending(af) /\ af[buf + k] = Z
      /\ \A q \in Memory : q < buf \/ q > buf + k => af[q] = cl[q]
  <2>1. Ending(cl) /\ buf \in Memory /\ Line(cl, buf, k)
    BY <1>1, <1>5
  <2>2. QED
    BY <2>1, DispatchIs
<1>7. k \in Nat /\ k <= N /\ Len(t) \in Nat /\ Len(t) <= n /\ k <= n
  BY <1>1, <1>2, <1>3, <1>5
<1>8. /\ \A q \in Memory : q < buf => af[q] = mem[q]
      /\ top # H - 1 => \A q \in Memory : q > buf + N => af[q] = mem[q]
  BY <1>1, <1>2, <1>3, <1>5, <1>6, <1>7, SMTT(40)
<1>9. af[buf + N] = Z
  <2>1. CASE k = N
    BY <1>6, <2>1
  <2>2. CASE k # N
    BY <1>2, <1>5, <1>6, <1>7, <2>2
  <2>3. QED
    BY <2>1, <2>2
<1>10. top' = top + 1 /\ j' = top + 1 /\ i' = 0 /\ n' = 0 /\ n' = strlen(af, buf + N)
  <2>1. Line(af, buf + N, 0)
    BY <1>2, <1>9 DEF Line
  <2>2. strlen(af, buf + N) = 0
    BY <1>2, <1>6, <2>1, StrlenUnique
  <2>3. QED
    BY <1>2, <2>2 DEF Restart
<1>11. Str(af, buf) \in Seq(Char)
  <2>1. Str(af, buf) \in Seq(Text)
    BY <1>1, <1>6, StrIs
  <2>2. Text \subseteq Char
    BY DEF Text
  <2>3. QED
    BY <2>1, <2>2, SeqMonotonic
<1>12. log \in Seq(Seq(Char)) /\ Len(log) = top
  BY DEF IInv, TypeOK
<1>13. /\ log' \in Seq(Seq(Char)) /\ Len(log') = top + 1
       /\ \A x \in 1 .. Len(log) : log'[x] = log[x]
       /\ log'[top + 1] = Str(af, buf)
  BY <1>11, <1>12, AppendProperties
<1>14. TypeOK'
  <2>1. last'.slot = top
    OBVIOUS
  <2>2. top' \in 0 .. H /\ j' \in 0 .. top' /\ i' \in Nat /\ n' \in Nat
    BY <1>1, <1>10
  <2>3. mem' \in [Memory -> Char] /\ mem'[slot(H + 1)] = Z
    BY <1>6 DEF Ending, End
  <2>4. QED
    BY <1>1, <1>13, <2>1, <2>2, <2>3 DEF TypeOK
<1>15. Cursor'
  <2>1. buf' = buf + N
    BY <1>2, <1>10 DEF buf
  <2>2. QED
    BY <1>10, <2>1 DEF Cursor
<1>16. Unused'
  <2>1. SUFFICES ASSUME NEW x \in top + 2 .. H - 1 PROVE af[slot(x)] = Z
    BY <1>1, <1>10 DEF Unused
  <2>2. x \in Nat /\ top + 2 <= x /\ x <= H /\ top # H - 1 /\ x \in top + 1 .. H - 1
    BY <1>1
  <2>3. slot(top + 2) <= slot(x) /\ slot(x) <= slot(H) /\ slot(x) \in Nat
    <3>1. top + 2 \in Nat /\ x \in Nat /\ H \in Nat /\ top + 2 <= x /\ x <= H
      BY <1>1, <2>2
    <3>2. QED
      BY <3>1, SlotsAre
  <2>4. slot(top + 2) = slot(top + 1) + N
    <3>1. top + 1 \in Nat /\ top + 1 + 1 = top + 2
      BY <1>1
    <3>2. QED
      BY <3>1, SlotsAre
  <2>5. slot(H) \in Nat /\ slot(H) <= End
    BY <1>1, <1>2, Places
  <2>6. slot(x) \in Memory /\ slot(x) > buf + N
    BY <1>2, <2>3, <2>4, <2>5
  <2>7. mem[slot(x)] = Z
    BY <2>2 DEF IInv, Unused
  <2>8. QED
    BY <1>8, <2>2, <2>6, <2>7
<1>17. HistoryKept'
  <2>1. SUFFICES ASSUME NEW x \in 1 .. top + 1, Len(log'[x]) < N
                 PROVE  Str(mem', slot(x - 1)) = log'[x]
    BY <1>13 DEF HistoryKept, Str, strlen, slot
  <2>2. CASE x = top + 1
    <3>1. slot(x - 1) = buf
      BY <1>1, <2>2 DEF buf
    <3>2. QED
      BY <1>13, <2>2, <3>1
  <2>3. CASE x # top + 1
    <3>1. x \in 1 .. Len(log)
      BY <1>1, <1>12, <2>3
    <3>2. log'[x] = log[x]
      BY <1>13, <3>1
    <3>3. Len(log[x]) < N /\ Ending(mem')
      BY <1>6, <2>1, <3>2
    <3>4. Str(mem', slot(x - 1)) = log[x]
      BY <1>8, <3>1, <3>3, HistoryStays
    <3>5. QED
      BY <3>2, <3>4
  <2>4. QED
    BY <2>2, <2>3
<1>18. SettingsKept'
  <2>1. SUFFICES ASSUME top + 1 < H - 1, NEW p \in TermiosBytes PROVE af[p] = Saved
    BY <1>10 DEF SettingsKept, TermiosBytes, slot
  <2>2. mem[p] = Saved
    BY <1>1, <2>1 DEF IInv, SettingsKept
  <2>3. p \in slot(H) .. End - 1 /\ slot(H) \in Nat
    BY <1>1, Places
  <2>4. slot(top + 2) <= slot(H) /\ slot(top + 2) = slot(top + 1) + N
    <3>1. top + 1 \in Nat /\ top + 1 + 1 = top + 2 /\ top + 2 <= H /\ top + 2 \in Nat
      BY <1>1, <2>1
    <3>2. QED
      BY <1>1, <3>1, SlotsAre
  <2>5. p \in Memory /\ p > buf + N
    BY <1>2, <2>3, <2>4
  <2>6. QED
    BY <1>1, <1>8, <2>1, <2>2, <2>5
<1>19. CommandSeesLine'
  <2>1. Str(cl, buf) = SubSeq(t, 1, k)
    <3>1. strlen(cl, buf) = k
      BY <1>1, <1>5, StrlenUnique
    <3>2. ASSUME NEW x \in 1 .. k PROVE cl[buf + x - 1] = t[x]
      <4>1. PICK q \in Memory : q = buf + x - 1
        BY <1>2, <1>7
      <4>2. q # buf + N /\ x \in 1 .. Len(t)
        BY <1>2, <1>5, <1>7, <4>1
      <4>3. cl[q] = tr[q]
        BY <1>5, <4>2
      <4>4. QED
        BY <1>3, <4>1, <4>2, <4>3
    <3>3. Str(cl, buf) = [x \in 1 .. k |-> t[x]]
      BY <3>1, <3>2 DEF Str
    <3>4. SubSeq(t, 1, k) = [x \in 1 .. k |-> t[x]]
      <4>1. k \in 0 .. Len(t)
        BY <1>5, <1>7
      <4>2. SubSeq(t, 1, k) = Restrict(t, 1 .. k)
        BY <1>3, <4>1, SubSeqRestrict
      <4>3. QED
        BY <4>2 DEF Restrict
    <3>5. QED
      BY <3>3, <3>4
  <2>2. last'.seen = Str(cl, buf) /\ last'.typed = t /\ last'.slot = top
    BY DEF t
  <2>3. QED
    BY <2>1, <2>2 DEF CommandSeesLine, k
<1>20. QED
  BY <1>13, <1>14, <1>15, <1>16, <1>17, <1>18, <1>19, <1>10 DEF IInv

(* A line entered behind the history is cleared before the command sees it.  *)
LEMMA FullKeeps ==
  ASSUME IInv, top = H, NEW cl, cl = Byte(shell_strtrim(mem, buf), slot(H), Z),
         NEW af, af = Dispatch(cl, buf),
         mem' = af, Restart(af, H), done' \in BOOLEAN, last'.slot = H, log' = log
  PROVE  IInv'
<1> DEFINE tr == shell_strtrim(mem, buf)
<1>1. /\ top \in 0 .. H /\ Ending(mem) /\ buf \in Memory /\ H \in Nat /\ n = strlen(mem, buf)
  BY State, SlotsAre DEF IInv, Cursor
<1>2. /\ buf \in Nat /\ N \in Nat /\ N # 0 /\ Memory = 0 .. End /\ End \in Nat
      /\ End = buf + N /\ slot(H) = buf
  BY <1>1, Places, SlotsAre DEF buf
<1>3. Ending(tr) /\ \A q \in Memory : q < buf => tr[q] = mem[q]
  BY <1>1, TrimIs
<1>4. cl = Byte(tr, buf, Z)
  BY <1>2
<1> HIDE DEF tr
<1>5. Ending(cl) /\ \A q \in Memory : cl[q] = IF q = buf THEN Z ELSE tr[q]
  BY <1>1, <1>3, <1>4, ByteIs, Characters
<1>6. Line(cl, buf, 0)
  BY <1>1, <1>2, <1>5 DEF Line
<1>7. /\ Ending(af) /\ af[buf + 0] = Z
      /\ \A q \in Memory : q < buf \/ q > buf + 0 => af[q] = cl[q]
  BY <1>1, <1>5, <1>6, DispatchIs
<1>8. \A q \in Memory : q < buf => af[q] = mem[q]
  BY <1>2, <1>3, <1>5, <1>7
<1>9. top' = H /\ j' = H /\ i' = 0 /\ n' = 0 /\ n' = strlen(af, buf) /\ buf' = buf
  <2>1. Line(af, buf, 0)
    BY <1>2, <1>7 DEF Line
  <2>2. strlen(af, buf) = 0
    BY <1>1, <1>7, <2>1, StrlenUnique
  <2>3. QED
    BY <1>2, <2>2 DEF Restart, buf
<1>10. TypeOK'
  <2>1. mem' \in [Memory -> Char] /\ mem'[slot(H + 1)] = Z
    BY <1>7 DEF Ending, End
  <2>2. log' \in Seq(Seq(Char))
    BY DEF IInv, TypeOK
  <2>3. top' \in 0 .. H /\ j' \in 0 .. top' /\ i' \in Nat /\ n' \in Nat /\ last'.slot \in 0 .. H
    BY <1>1, <1>9
  <2>4. QED
    BY <2>1, <2>2, <2>3 DEF TypeOK
<1>11. Cursor'
  BY <1>9 DEF Cursor
<1>12. Unused'
  BY <1>1, <1>9 DEF Unused
<1>13. Len(log') = top'
  BY <1>9 DEF IInv
<1>14. HistoryKept'
  BY <1>7, <1>8, HistoryStays DEF HistoryKept
<1>15. SettingsKept'
  BY <1>1, <1>9 DEF SettingsKept
<1>16. CommandSeesLine'
  BY <1>1 DEF CommandSeesLine
<1>17. QED
  BY <1>10, <1>11, <1>12, <1>13, <1>14, <1>15, <1>16 DEF IInv

LEMMA EnterKeeps ==
  ASSUME IInv, Enter
  PROVE  IInv'
<1> DEFINE tr == shell_strtrim(mem, buf)
<1> DEFINE cl == Byte(tr, slot(NextSlot), Z)
<1> DEFINE af == Dispatch(cl, buf)
<1>1. top \in 0 .. H
  BY State
<1>2. CASE strlen(tr, buf) = 0
  <2>1. mem' = tr /\ Restart(tr, top) /\ last' = NoLine /\ UNCHANGED <<done, log>>
    BY <1>2 DEF Enter
  <2>2. QED
    BY <1>2, <2>1, EmptyKeeps
<1>3. CASE strlen(tr, buf) # 0
  <2>1. /\ mem' = af /\ Restart(af, NextSlot) /\ done' = Quits(af, buf)
        /\ last' = [typed |-> Trimmed(Str(mem, buf)), seen |-> Str(cl, buf), slot |-> top]
        /\ log' = IF top < H THEN Append(log, Str(af, buf)) ELSE log
    BY <1>3 DEF Enter
  <2>2. done' \in BOOLEAN
    BY <2>1 DEF Quits
  <2>3. CASE top < H
    <3>1. NextSlot = top + 1
      BY <1>1, <2>3, NextSlotIs
    <3>2. log' = Append(log, Str(af, buf))
      BY <2>1, <2>3
    <3>3. cl = Byte(tr, slot(top + 1), Z) /\ Restart(af, top + 1)
      BY <2>1, <3>1
    <3>4. mem' = af /\ last' = [typed |-> Trimmed(Str(mem, buf)), seen |-> Str(cl, buf), slot |-> top]
      BY <2>1
    <3> HIDE DEF tr, cl, af
    <3>5. tr = shell_strtrim(mem, buf) /\ af = Dispatch(cl, buf)
      BY DEF tr, af
    <3>6. QED
      BY <1>3, <2>2, <2>3, <3>2, <3>3, <3>4, <3>5, EnteredKeeps
  <2>4. CASE ~(top < H)
    <3>1. top = H
      BY <1>1, <2>4, SlotsAre
    <3>2. NextSlot = H
      BY <1>1, <2>4, NextSlotIs
    <3>3. cl = Byte(shell_strtrim(mem, buf), slot(H), Z) /\ Restart(af, H) /\ log' = log
      BY <2>1, <2>4, <3>2
    <3>4. mem' = af /\ last'.slot = H
      BY <2>1, <3>1
    <3> HIDE DEF tr, cl, af
    <3>5. af = Dispatch(cl, buf)
      BY DEF af
    <3>6. QED
      BY <2>2, <3>1, <3>3, <3>4, <3>5, FullKeeps
  <2>5. QED
    BY <2>3, <2>4
<1>4. QED
  BY <1>2, <1>3

-----------------------------------------------------------------------------
(***************************************************************************)
(* The theorems.                                                           *)
(***************************************************************************)
LEMMA InitHolds == Init => IInv
<1>1. SUFFICES ASSUME Init PROVE IInv
  OBVIOUS
<1>2. /\ top = 0 /\ j = 0 /\ i = 0 /\ n = 0 /\ done = FALSE /\ log = <<>> /\ last = NoLine
      /\ \A p \in Memory : mem[p] = IF p \in TermiosBytes THEN Saved ELSE Z
      /\ mem = [p \in Memory |-> IF p \in TermiosBytes THEN Saved ELSE Z]
  BY <1>1 DEF Init
<1>3. top \in 0 .. H /\ H \in Nat /\ H # 0 /\ N \in Nat /\ N # 0
  BY <1>2, SlotsAre
<1>4. /\ buf \in Memory /\ Memory = 0 .. End /\ End \in Nat /\ slot(H) \in Nat
      /\ End = slot(H) + N /\ TermiosBytes \subseteq slot(H) .. End - 1
  BY <1>3, Places
<1>5. Ending(mem)
  <2>1. mem \in [Memory -> Char]
    BY <1>2, Characters DEF Text
  <2>2. End \in Memory /\ End \notin TermiosBytes
    BY <1>4
  <2>3. QED
    BY <1>2, <2>1, <2>2 DEF Ending
<1>6. \A p \in Memory : p < slot(H) => mem[p] = Z
  BY <1>2, <1>4
<1>7. \A k \in 0 .. H - 1 : slot(k) \in Memory /\ slot(k) < slot(H)
  <2>1. SUFFICES ASSUME NEW k \in 0 .. H - 1 PROVE slot(k) \in Memory /\ slot(k) < slot(H)
    OBVIOUS
  <2>2. k \in Nat /\ k + 1 \in Nat /\ k + 1 <= H /\ H \in Nat
    BY <1>3
  <2>3. slot(k) \in Nat /\ slot(k + 1) = slot(k) + N /\ slot(k + 1) <= slot(H)
    BY <2>2, SlotsAre
  <2>4. QED
    BY <1>3, <1>4, <2>3
<1>8. mem[buf] = Z
  <2>1. 0 \in 0 .. H - 1 /\ buf = slot(0)
    BY <1>2, <1>3 DEF buf
  <2>2. QED
    BY <1>6, <1>7, <2>1
<1>9. Cursor
  <2>1. Line(mem, buf, 0)
    BY <1>4, <1>8 DEF Line
  <2>2. strlen(mem, buf) = 0
    BY <1>4, <1>5, <2>1, StrlenUnique
  <2>3. QED
    BY <1>2, <2>2 DEF Cursor
<1>10. Unused
  BY <1>2, <1>3, <1>6, <1>7 DEF Unused
<1>11. Len(log) = top /\ HistoryKept
  <2>1. Len(log) = 0
    BY <1>2, EmptySeq
  <2>2. QED
    BY <1>2, <2>1 DEF HistoryKept
<1>12. SettingsKept
  <2>1. TermiosBytes \subseteq Memory
    BY <1>4
  <2>2. QED
    BY <1>2, <2>1 DEF SettingsKept
<1>13. CommandSeesLine /\ last.slot \in 0 .. H
  BY <1>2, NothingSeen
<1>14. TypeOK
  <2>1. log \in Seq(Seq(Char))
    BY <1>2, EmptySeq
  <2>2. j \in 0 .. top /\ i \in Nat /\ n \in Nat
    BY <1>2
  <2>3. done \in BOOLEAN
    BY <1>2
  <2>4. mem \in [Memory -> Char] /\ mem[slot(H + 1)] = Z
    BY <1>5 DEF Ending, End
  <2>5. QED
    BY <1>3, <1>13, <2>1, <2>2, <2>3, <2>4 DEF TypeOK
<1>15. QED
  BY <1>9, <1>10, <1>11, <1>12, <1>13, <1>14 DEF IInv

LEMMA NextKeeps == IInv /\ [Next]_vars => IInv'
<1>1. SUFFICES ASSUME IInv, [Next]_vars PROVE IInv'
  OBVIOUS
<1>2. top \in 0 .. H /\ j \in 0 .. top /\ top \in Nat
  BY <1>1, State, SlotsAre
<1>3. CASE Up
  <2>1. j - 1 \in 0 .. top /\ Recall(j - 1)
    BY <1>2, <1>3 DEF Up
  <2>2. QED
    BY <1>1, <2>1, RecallKeeps
<1>4. CASE Down
  <2>1. j + 1 \in 0 .. top /\ Recall(j + 1)
    BY <1>2, <1>4 DEF Down
  <2>2. QED
    BY <1>1, <2>1, RecallKeeps
<1>5. CASE Left \/ Right
  BY <1>1, <1>5, MoveKeeps
<1>6. CASE Cut
  BY <1>1, <1>6, CutKeeps
<1>7. CASE Delete
  BY <1>1, <1>7, DeleteKeeps
<1>8. CASE Backspace
  BY <1>1, <1>8, BackspaceKeeps
<1>9. CASE Space
  BY <1>1, <1>9, SpaceKeeps
<1>10. CASE Printable
  BY <1>1, <1>10, PrintableKeeps
<1>11. CASE Enter
  BY <1>1, <1>11, EnterKeeps
<1>12. CASE UNCHANGED vars
  BY <1>1, <1>12 DEF vars, IInv, TypeOK, Cursor, Unused, HistoryKept, SettingsKept,
                     CommandSeesLine, TermiosBytes, Str, strlen, slot, buf, Memory, Char
<1>13. QED
  BY <1>1, <1>3, <1>4, <1>5, <1>6, <1>7, <1>8, <1>9, <1>10, <1>11, <1>12 DEF Next, Stopped

LEMMA IInvHolds == Spec => []IInv
  BY InitHolds, NextKeeps, PTL DEF Spec

\* Every key leaves the editor's places, the history and the line within their
\* arrays, the slot behind the last one included (shell.c:77-215).
THEOREM TypeCorrect == Spec => []TypeOK
<1>1. IInv => TypeOK
  BY DEF IInv
<1>2. QED
  BY <1>1, IInvHolds, PTL

\* The length that read_line() counts is that of the string in memory, the
\* cursor stands in it, and it stays within its slot in every slot but the last
\* (shell.c:96-185).
THEOREM CursorStaysInLine == Spec => []CursorInLine
<1>1. IInv => CursorInLine
  BY State DEF IInv, Cursor, CursorInLine
<1>2. QED
  BY <1>1, IInvHolds, PTL

\* No key changes an entered line that left room for its end: it is written
\* from the slot of the edited line on only (shell.c:96-197).
THEOREM HistoryStaysKept == Spec => []HistoryKept
<1>1. IInv => HistoryKept
  BY DEF IInv
<1>2. QED
  BY <1>1, IInvHolds, PTL

\* restore() puts back the settings configure() saved, unless the last slot of
\* the history was reached (shell.c:30-58).
THEOREM SettingsStayKept == Spec => []SettingsKept
<1>1. IInv => SettingsKept
  BY DEF IInv
<1>2. QED
  BY <1>1, IInvHolds, PTL

\* A command gets the line that was typed into a slot of the history, trimmed
\* and cut to the size of a slot (shell.c:187-209).
THEOREM CommandsSeeTheirLine == Spec => []CommandSeesLine
<1>1. IInv => CommandSeesLine
  BY DEF IInv
<1>2. QED
  BY <1>1, IInvHolds, PTL
=============================================================================
