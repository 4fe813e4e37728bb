-------------------------------- MODULE Jitc --------------------------------
(***************************************************************************)
(* p1: main() from the generated C to the value printed, with jitc.c, for  *)
(* several processes at once.                                              *)
(*                                                                         *)
(* Every process writes the same out.c and has gcc write the same out.so:  *)
(* both are absolute paths (main.c:92-93). gcc is external: cc1 reads      *)
(* out.c, and only if that compiles ld makes a new out.so in place of the  *)
(* old one and fills it. A program is the chunks that stdio writes of it.  *)
(* The names of the specification and its parts begin with Jitc, so that a *)
(* module can extend this one and Parser.                                  *)
(***************************************************************************)
EXTENDS Integers, Sequences, FiniteSetsExt

CONSTANTS
  Proc,    \* the processes
  Size,    \* how many chunks the program of each has
  Nobody   \* not a process

ASSUME JitcAssumption ==
  /\ Nobody \notin Proc /\ Size \in [Proc -> Nat \ {0}]

VARIABLES
  outc,    \* the chunks in out.c
  outso,   \* the file named out.so: whose gcc makes it, from which program, if whole
  main,    \* where main() is
  written, \* the chunks main() has done with
  lost,    \* how many of these did not reach out.c
  gcc,     \* where the child is, or how it ended
  obj,     \* whose program the child compiled
  jitc,    \* what jitc_open returned: "null", a "live" handle or a "freed" one
  lib,     \* whose program was loaded
  printed, \* whose value was printed
  ub,      \* history: freed memory was used
  failed,  \* history: the system failed a call, or killed the process
  disturbed \* history: another wrote or removed a file between fopen and dlopen

files == <<outc, outso>>
JitcVars == <<outc, outso, main, written, lost, gcc, obj, jitc, lib, printed, ub, failed, disturbed>>

Hole == <<Nobody, 0>>
Program(q) == [k \in 1 .. Size[q] |-> <<q, k>>]
NoFile == [by |-> Nobody, prog |-> Nobody, whole |-> FALSE]
Mixed == Nobody   \* a program that is nobody's

JitcInit ==
  /\ outc = <<>> /\ outso = NoFile
  /\ main = [p \in Proc |-> "start"] /\ written = [p \in Proc |-> 0]
  /\ lost = [p \in Proc |-> 0]
  /\ gcc = [p \in Proc |-> "none"] /\ obj = [p \in Proc |-> Nobody]
  /\ jitc = [p \in Proc |-> "null"] /\ lib = [p \in Proc |-> Nobody]
  /\ printed = [p \in Proc |-> Nobody]
  /\ ub = [p \in Proc |-> FALSE] /\ failed = [p \in Proc |-> FALSE]
  /\ disturbed = [p \in Proc |-> FALSE]

Goto(p, l) == main' = [main EXCEPT ![p] = l]
GccGoto(p, l) == gcc' = [gcc EXCEPT ![p] = l]
SystemFails(p) == failed' = [failed EXCEPT ![p] = TRUE]

\* A file changes under the other processes that are using it.
Disturb(p) ==
  disturbed' = [q \in Proc |->
    disturbed[q] \/ (q # p /\ main[q] \in {"write", "fork", "wait", "open"})]

-----------------------------------------------------------------------------
(***************************************************************************)
(* main(): generate C.                                                     *)
(***************************************************************************)
OpenC(p) ==
  /\ main[p] = "start"
  /\ \/ outc' = <<>> /\ Goto(p, "write") /\ Disturb(p) /\ UNCHANGED failed
     \/ Goto(p, "error") /\ SystemFails(p) /\ UNCHANGED <<outc, disturbed>>
  /\ UNCHANGED <<outso, written, lost, gcc, obj, jitc, lib, printed, ub>>

\* A write goes where the process's own offset is, also if another has cut
\* the file off below it.
WriteAt(f, k, c) ==
  [j \in 1 .. Max({Len(f), k}) |-> IF j = k THEN c ELSE IF j <= Len(f) THEN f[j] ELSE Hole]

\* The buffer is written when it is full, and by fclose. When that fails main()
\* does not see it, and what comes next is written where this should be.
WriteC(p) ==
  /\ main[p] = "write"
  /\ \/ /\ outc' = WriteAt(outc, written[p] - lost[p] + 1, <<p, written[p] + 1>>)
        /\ Disturb(p) /\ UNCHANGED <<lost, failed>>
     \/ /\ lost' = [lost EXCEPT ![p] = @ + 1] /\ SystemFails(p)
        /\ UNCHANGED <<outc, disturbed>>
  /\ written' = [written EXCEPT ![p] = @ + 1]
  /\ Goto(p, IF written'[p] = Size[p] THEN "fork" ELSE "write")
  /\ UNCHANGED <<outso, gcc, obj, jitc, lib, printed, ub>>

-----------------------------------------------------------------------------
(***************************************************************************)
(* jitc_compile and the child.                                             *)
(***************************************************************************)
Fork(p) ==
  /\ main[p] = "fork"
  /\ \/ Goto(p, "wait") /\ GccGoto(p, "cc1") /\ UNCHANGED failed
     \/ Goto(p, "wait") /\ GccGoto(p, "exit 1") /\ SystemFails(p)   \* execv failed
     \/ Goto(p, "error") /\ SystemFails(p) /\ UNCHANGED gcc
  /\ UNCHANGED <<outc, outso, written, lost, obj, jitc, lib, printed, ub, disturbed>>

Authors == {outc[k][1] : k \in DOMAIN outc}
Gap == \E k \in DOMAIN outc \ {1} : outc[k][2] # outc[k - 1][2] + 1
Cc1(p) ==
  /\ gcc[p] = "cc1"
  /\ \/ \E q \in Proc : /\ outc = Program(q) /\ obj' = [obj EXCEPT ![p] = q]
                        /\ GccGoto(p, "ld") /\ UNCHANGED failed
     \/ /\ Cardinality(Authors) > 1 \/ Gap   \* text in parts may happen to be C
        /\ obj' = [obj EXCEPT ![p] = Mixed] /\ GccGoto(p, "ld") /\ UNCHANGED failed
     \/ /\ \A q \in Proc : outc # Program(q)
        /\ GccGoto(p, "exit 1") /\ UNCHANGED <<obj, failed>>
  /\ UNCHANGED <<outc, outso, main, written, lost, jitc, lib, printed, ub, disturbed>>

\* gcc finds no memory, or is killed.
GccFails(p) ==
  /\ gcc[p] \in {"cc1", "ld"}
  /\ GccGoto(p, "exit 1") \/ GccGoto(p, "killed")
  /\ SystemFails(p)
  /\ UNCHANGED <<outc, outso, main, written, lost, obj, jitc, lib, printed, ub, disturbed>>

Ld(p) ==
  /\ gcc[p] = "ld"
  /\ outso' = [by |-> p, prog |-> obj[p], whole |-> FALSE]
  /\ GccGoto(p, "fill") /\ Disturb(p)
  /\ UNCHANGED <<outc, main, written, lost, obj, jitc, lib, printed, ub, failed>>

\* The file it fills may have lost its name to another or to file_delete.
LdEnds(p) ==
  /\ gcc[p] = "fill"
  /\ outso' = IF outso.by = p THEN [outso EXCEPT !.whole = TRUE] ELSE outso
  /\ GccGoto(p, "exit 0") /\ Disturb(p)
  /\ UNCHANGED <<outc, main, written, lost, obj, jitc, lib, printed, ub, failed>>

\* Mutant: only a failed waitpid is reported.
Succeeded_Exited(p) == gcc[p] \in {"exit 0", "exit 1"}
\* WIFEXITED and WEXITSTATUS of the status.
Succeeded(p) == gcc[p] = "exit 0"

\* Mutant: the child is not waited for.
WaitPid_NoHang(p) ==
  /\ main[p] = "wait"
  /\ Goto(p, IF gcc[p] \in {"exit 1", "killed"} THEN "error" ELSE "open")
  /\ UNCHANGED <<outc, outso, written, lost, gcc, obj, jitc, lib, printed, ub, failed, disturbed>>
WaitPid(p) ==
  /\ main[p] = "wait"
  /\ \/ /\ gcc[p] \in {"exit 0", "exit 1", "killed"}
        /\ Goto(p, IF Succeeded(p) THEN "open" ELSE "error") /\ UNCHANGED failed
     \/ Goto(p, "error") /\ SystemFails(p)
  /\ UNCHANGED <<outc, outso, written, lost, gcc, obj, jitc, lib, printed, ub, disturbed>>

-----------------------------------------------------------------------------
(***************************************************************************)
(* jitc_open, jitc_lookup, jitc_close and the rest of main().              *)
(***************************************************************************)
\* When dlopen fails the handle is freed, and returned.
jitc_open(p) ==
  /\ main[p] = "open"
  /\ \/ /\ outso.whole
        /\ jitc' = [jitc EXCEPT ![p] = "live"] /\ lib' = [lib EXCEPT ![p] = outso.prog]
        /\ UNCHANGED failed
     \/ ~outso.whole /\ jitc' = [jitc EXCEPT ![p] = "freed"] /\ UNCHANGED <<lib, failed>>
     \/ /\ jitc' \in {[jitc EXCEPT ![p] = "freed"], jitc}   \* dlopen or malloc failed
        /\ SystemFails(p) /\ UNCHANGED lib
  /\ Goto(p, "lookup")
  /\ UNCHANGED <<outc, outso, written, lost, gcc, obj, printed, ub, disturbed>>

\* Mutant: the module stays loaded when it has no "evaluate".
CloseAfterFailure_None(p) == UNCHANGED jitc
CloseAfterFailure(p) == jitc' = [jitc EXCEPT ![p] = "closed"]

\* dlsym on a handle read from freed memory, and jitc_close of that memory,
\* end the program, or fail.
jitc_lookup(p) ==
  /\ main[p] = "lookup"
  /\ \/ jitc[p] = "live" /\ Goto(p, "call") /\ UNCHANGED <<jitc, failed, ub>>
     \/ /\ jitc[p] = "live" /\ CloseAfterFailure(p)
        /\ Goto(p, "error") /\ SystemFails(p) /\ UNCHANGED ub
     \/ jitc[p] = "null" /\ Goto(p, "error") /\ UNCHANGED <<jitc, failed, ub>>
     \/ /\ jitc[p] = "freed" /\ ub' = [ub EXCEPT ![p] = TRUE]
        /\ Goto(p, "error") \/ Goto(p, "fault")
        /\ UNCHANGED <<jitc, failed>>
  /\ UNCHANGED <<outc, outso, written, lost, gcc, obj, lib, printed, disturbed>>

Call(p) ==
  /\ main[p] = "call"
  /\ printed' = [printed EXCEPT ![p] = lib[p]] /\ Goto(p, "delete")
  /\ UNCHANGED <<outc, outso, written, lost, gcc, obj, jitc, lib, ub, failed, disturbed>>

\* Whatever is at the path now.
file_delete(p) ==
  /\ main[p] = "delete"
  /\ outso' = NoFile /\ Goto(p, "close") /\ Disturb(p)
  /\ UNCHANGED <<outc, written, lost, gcc, obj, jitc, lib, printed, ub, failed>>

jitc_close(p) ==
  /\ main[p] = "close"
  /\ jitc' = [jitc EXCEPT ![p] = "closed"] /\ Goto(p, "ok")
  /\ UNCHANGED <<outc, outso, written, lost, gcc, obj, lib, printed, ub, failed, disturbed>>

\* Ctrl-C, say. The child goes on.
Kill(p) ==
  /\ main[p] \notin {"ok", "error", "fault", "killed"}
  /\ Goto(p, "killed") /\ SystemFails(p)
  /\ UNCHANGED <<outc, outso, written, lost, gcc, obj, jitc, lib, printed, ub, disturbed>>

-----------------------------------------------------------------------------
Main(p) ==
  \/ OpenC(p) \/ WriteC(p) \/ Fork(p) \/ WaitPid(p)
  \/ jitc_open(p) \/ jitc_lookup(p) \/ Call(p) \/ file_delete(p) \/ jitc_close(p)
Child(p) == Cc1(p) \/ GccFails(p) \/ Ld(p) \/ LdEnds(p)

JitcNext == \E p \in Proc : Main(p) \/ Child(p) \/ Kill(p)

JitcSpec == JitcInit /\ [][JitcNext]_JitcVars

-----------------------------------------------------------------------------
(***************************************************************************)
(* Properties.                                                             *)
(***************************************************************************)
\* A main() that returns has closed the module it loaded (main.c:135-149).
JitcTypeOK ==
  /\ outc \in Seq((Proc \union {Nobody}) \X Nat)
  /\ outso \in [by : Proc \union {Nobody}, prog : Proc \union {Nobody}, whole : BOOLEAN]
  /\ \A p \in Proc :
       /\ main[p] \in {"start", "write", "fork", "wait", "open", "lookup", "call", "delete",
                     "close", "ok", "error", "fault", "killed"}
       /\ gcc[p] \in {"none", "cc1", "ld", "fill", "exit 0", "exit 1", "killed"}
       /\ jitc[p] \in {"null", "live", "freed", "closed"}
       /\ main[p] \in {"ok", "error"} => jitc[p] # "live"
       /\ written[p] \in 0 .. Size[p] /\ lost[p] \in 0 .. written[p]
       /\ {obj[p], lib[p], printed[p]} \subseteq Proc \union {Nobody}

\* A process prints the value of its own expression unless another was at
\* the two files while it used them, or a write to out.c failed, which main()
\* never looks at: what an earlier process left behind, also one that was
\* killed, is not taken for its own (main.c:115-144).
OwnValue ==
  \A p \in Proc :
    main[p] \in {"delete", "close", "ok"} /\ ~disturbed[p] /\ lost[p] = 0 => printed[p] = p

\* Freed memory is used only after a dlopen that failed, and dlopen fails by
\* itself only where another process was at the files (jitc.c:79-97).
UseNeedsFailure == \A p \in Proc : ub[p] => failed[p] \/ disturbed[p]
=============================================================================
