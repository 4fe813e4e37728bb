------------------------------- MODULE Shell -------------------------------
(***************************************************************************)
(* shell.c: the line editor and its history, over the bytes of "state".    *)
(*                                                                         *)
(* "mem" is the array history[H][N] with the termios that the struct has   *)
(* behind it, and what lies behind that: a string is what stands in memory *)
(* from an address to the next zero, whichever slot that is in, as for     *)
(* safe_strlen. One action is one pass of the loop of read_line(), that is *)
(* one key. Drawing on the terminal is left out. Commands are main.c's     *)
(* with faces of one letter, of which "q" without an argument quits.       *)
(***************************************************************************)
EXTENDS Integers, Sequences, FiniteSetsExt

CONSTANTS
  H,        \* history slots (96)
  N,        \* bytes per slot (160)
  TERMIOS,  \* bytes of struct termios (60, fewer than N)
  Letters   \* the characters that are typed, other than blanks

ASSUME ShellAssumption ==
  /\ H \in Nat \ {0} /\ N \in Nat \ {0, 1} /\ TERMIOS \in 1 .. N
  /\ Letters \intersect {"0", " ", "t"} = {}

VARIABLES
  mem,    \* the bytes of state.history, of state.termios and what follows
  top,    \* state.n, and state.i: the slot the line is edited in
  j,      \* read_line's place in the history
  i, n,   \* read_line's cursor and length of the line
  done,   \* the loop of shell() has ended
  log,    \* history: the lines handed to fnc, as fnc left them
  last    \* history: the line just handed to fnc, and its slot, or NoLine

vars == <<mem, top, j, i, n, done, log, last>>

Z == "0"   \* the byte zero
Blank == " "
Saved == "t"   \* a byte of the terminal's settings
NoLine == [typed |-> <<>>, seen |-> <<>>, slot |-> 0]

slot(k) == k * N
buf == slot(top)
Memory == 0 .. slot(H + 1)
TermiosBytes == slot(H) .. slot(H) + TERMIOS - 1

-----------------------------------------------------------------------------
strlen(m, p) == Min({k \in 0 .. slot(H + 1) - p : m[p + k] = Z})
Str(m, p) == [k \in 1 .. strlen(m, p) |-> m[p + k - 1]]
Byte(m, p, c) == [m EXCEPT ![p] = c]
memmove(m, to, from, len) ==
  [p \in Memory |-> IF p \in to .. to + len - 1 THEN m[from + p - to] ELSE m[p]]
strncpy(m, to, from) ==
  LET l == Min({strlen(m, from), N})
  IN [p \in Memory |-> IF p \in to .. to + N - 1
                       THEN IF p - to < l THEN m[from + p - to] ELSE Z
                       ELSE m[p]]

Trimmed(s) ==
  LET solid == {k \in DOMAIN s : s[k] # Blank}
  IN IF solid = {} THEN <<>> ELSE SubSeq(s, Min(solid), Max(solid))

\* Mutant: the end of the trimmed string is not marked.
shell_strtrim_Unmarked(m, p) ==
  LET t == Trimmed(Str(m, p))
  IN [q \in Memory |-> IF q \in p .. p + Len(t) - 1 THEN t[q - p + 1] ELSE m[q]]
shell_strtrim(m, p) ==
  LET t == Trimmed(Str(m, p))
  IN Byte([q \in Memory |-> IF q \in p .. p + Len(t) - 1 THEN t[q - p + 1] ELSE m[q]],
          p + Len(t), Z)

-----------------------------------------------------------------------------
\* configure() has saved the settings; the slots are zero as any static.
Init ==
  /\ mem = [p \in Memory |-> IF p \in TermiosBytes THEN Saved ELSE Z]
  /\ top = 0 /\ j = 0 /\ i = 0 /\ n = 0 /\ done = FALSE
  /\ log = <<>> /\ last = NoLine

Editing == ~done
Edited == UNCHANGED <<top, done, log>> /\ last' = NoLine

\* The line becomes what slot k holds, or nothing in the slot it is edited in.
Recall(k) ==
  /\ j' = k
  /\ LET cleared == Byte(mem, buf, Z)
     IN mem' = IF k = top THEN cleared ELSE strncpy(cleared, buf, slot(k))
  /\ i' = strlen(mem', buf) /\ n' = i'
  /\ Edited

Up == Editing /\ 0 < j /\ Recall(j - 1)
\* Mutant: one step past the line being edited.
Down_Past == Editing /\ top >= j /\ Recall(j + 1)
Down == Editing /\ top > j /\ Recall(j + 1)

Right ==
  /\ Editing /\ i' = (IF i < n THEN i + 1 ELSE n)
  /\ Edited /\ UNCHANGED <<mem, j, n>>
Left ==
  /\ Editing /\ i' = (IF i > 0 THEN i - 1 ELSE 0)
  /\ Edited /\ UNCHANGED <<mem, j, n>>

\* Control-K cuts the line at the cursor.
Cut ==
  /\ Editing
  /\ mem' = Byte(mem, buf + i, Z) /\ i' = strlen(mem', buf) /\ n' = i'
  /\ Edited /\ UNCHANGED j

\* Control-D.
Delete ==
  /\ Editing /\ n > i
  /\ mem' = memmove(mem, buf + i, buf + i + 1, strlen(mem, buf + i + 1) + 1)
  /\ n' = n - 1
  /\ Edited /\ UNCHANGED <<j, i>>

\* Mutant: the length of the line stays.
Backspace_KeepsLength ==
  /\ Editing /\ 0 < i
  /\ mem' = memmove(mem, buf + i - 1, buf + i, strlen(mem, buf + i) + 1)
  /\ i' = i - 1
  /\ Edited /\ UNCHANGED <<j, n>>
Backspace ==
  /\ Editing /\ 0 < i
  /\ mem' = memmove(mem, buf + i - 1, buf + i, strlen(mem, buf + i) + 1)
  /\ i' = i - 1 /\ n' = n - 1
  /\ Edited /\ UNCHANGED j

\* A space or a tab: the end of the line moves along, behind the slot when
\* the line has N bytes.
Space ==
  /\ Editing /\ N > n
  /\ mem' = Byte(memmove(mem, buf + i + 1, buf + i, strlen(mem, buf + i) + 1),
                 buf + i, Blank)
  /\ i' = i + 1 /\ n' = n + 1
  /\ Edited /\ UNCHANGED j

\* Mutant: the line is not held against the size of its slot.
Fits_Always == TRUE
Fits == n + 1 < N

Printable ==
  /\ Editing /\ Fits
  /\ \E c \in Letters :
       LET moved == IF i < n
                    THEN memmove(mem, buf + i + 1, buf + i, strlen(mem, buf + i))
                    ELSE mem
       IN mem' = Byte(Byte(moved, buf + i, c), buf + n + 1, Z)
  /\ i' = i + 1 /\ n' = n + 1
  /\ Edited /\ UNCHANGED j

\* shell_fnc of main.c trims the argument where it stands, in the history,
\* and is told to quit by "q" without one.
Dispatch(m, p) ==
  IF m[p] \in Letters THEN shell_strtrim(m, p + 1) ELSE m
Quits(m, p) == m[p] = "q" /\ m[p + 1] = Z

\* The next read_line() edits in slot t.
Restart(m, t) ==
  /\ top' = t /\ j' = t /\ i' = strlen(m, slot(t)) /\ n' = i'

\* Mutant: the last slot is used again for the next line.
NextSlot_Reused == Min({top + 1, H - 1})
NextSlot == Min({top + 1, H})

\* Return: a line with something in it moves the history on, and the next
\* slot is cleared before fnc sees the line.
Enter ==
  /\ Editing
  /\ LET trimmed == shell_strtrim(mem, buf)
         cleared == Byte(trimmed, slot(NextSlot), Z)
         after == Dispatch(cleared, buf)
     IN IF strlen(trimmed, buf) = 0
        THEN /\ mem' = trimmed /\ Restart(trimmed, top)
             /\ last' = NoLine /\ UNCHANGED <<done, log>>
        ELSE /\ mem' = after /\ Restart(after, NextSlot)
             /\ done' = Quits(after, buf)
             /\ last' = [typed |-> Trimmed(Str(mem, buf)), seen |-> Str(cleared, buf), slot |-> top]
             /\ log' = IF top < H THEN Append(log, Str(after, buf)) ELSE log

Stopped == done /\ UNCHANGED vars

Next ==
  \/ Up \/ Down \/ Right \/ Left \/ Cut \/ Delete \/ Backspace
  \/ Space \/ Printable \/ Enter
  \/ Stopped

Spec == Init /\ [][Next]_vars

-----------------------------------------------------------------------------
Char == {Z, Blank, Saved} \cup Letters

\* The places in the history and in the line stay within their arrays, the
\* slot behind the last one included (shell.c:189-191).
TypeOK ==
  /\ mem \in [Memory -> Char] /\ mem[slot(H + 1)] = Z
  /\ top \in 0 .. H /\ j \in 0 .. top /\ i \in Nat /\ n \in Nat /\ done \in BOOLEAN
  /\ log \in Seq(Seq(Char)) /\ last.slot \in 0 .. H

\* Through every sequence of keys the cursor and the length that the editor
\* counts stay with the string in memory: keys that count, keys that measure
\* it again and lines recalled from the history agree (shell.c:77-185). The
\* line stays within its slot, except that one of N bytes recalled into the
\* last slot goes on into the settings (shell.c:100-104).
CursorInLine ==
  ~done => i \in 0 .. n /\ n = strlen(mem, buf) /\ (top # H - 1 => n <= N)

\* A line that left room for its end is still in the history as its command
\* left it, whatever was typed, recalled or entered since.
HistoryKept ==
  \A k \in 1 .. Len(log) : Len(log[k]) < N => Str(mem, slot(k - 1)) = log[k]

\* The settings that restore() puts back are those configure() saved, as long
\* as the line being edited has a slot behind it in the history.
SettingsKept == top < H - 1 => \A p \in TermiosBytes : mem[p] = Saved

\* fnc is given the line that was typed, without the blanks around it and up
\* to the size of a slot, as long as it was typed into a slot of the history.
CommandSeesLine ==
  last.slot < H => last.seen = SubSeq(last.typed, 1, Min({Len(last.typed), N}))
=============================================================================
