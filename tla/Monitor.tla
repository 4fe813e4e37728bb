------------------------------ MODULE Monitor ------------------------------
(***************************************************************************)
(* p5/main.c: the loop over /proc/stat, the handler of SIGINT, cpu_util's  *)
(* differences of unsigned counters, and us_sleep of system.c.             *)
(*                                                                         *)
(* p5 is compiled with -ansi, where signal() of glibc has the semantics of *)
(* System V: the disposition is back to the default once the handler has   *)
(* been entered, and a second SIGINT ends the process. Of the seven        *)
(* counters the idle time stands alone; the other six are one here.        *)
(***************************************************************************)
EXTENDS Integers

CONSTANTS
  Width,   \* 2^32: unsigned is computed modulo Width
  Growth,  \* bound: growth of the sum of the counters between two samples
  MaxTime, \* bound: the value of the counters
  Ticks    \* parts of us_sleep's half second a signal can fall into

ASSUME MonitorAssumption ==
  /\ Width \in Nat \ {0} /\ Growth \in 0 .. Width - 1
  /\ MaxTime \in Nat /\ Ticks \in Nat \ {0}

VARIABLES
  pc,       \* where main() is, or how it ended
  done,     \* the flag
  handler,  \* SIGINT goes to _signal_
  open,     \* files open
  left,     \* what nanosleep has left to sleep
  vector3_, sum_,  \* cpu_util's static counters
  idle, other,     \* what the kernel had counted at the last sample
  grown,    \* history: by how much idle time and the sum had grown then
  shown,    \* the numerator and the denominator of cpu_util's quotient
  sampled   \* history: "no" sample yet, the "first", or "later" ones

loopVars == <<pc, open, left>>
sampleVars == <<vector3_, sum_, idle, other, grown, shown, sampled>>
vars == <<loopVars, done, handler, sampleVars>>

Running == {"start", "test", "open", "read", "sleep", "close"}

Init ==
  /\ pc = "start" /\ done = FALSE /\ handler = FALSE /\ open = 0 /\ left = 0
  /\ vector3_ = 0 /\ sum_ = 0 /\ shown = <<0, 0>>
  /\ \E a, b \in 0 .. MaxTime : idle = a /\ other = b
  /\ grown = <<0, 0>> /\ sampled = "no"

-----------------------------------------------------------------------------
signal ==
  /\ pc = "start"
  /\ \/ handler' = TRUE /\ pc' = "test"
     \/ handler' = FALSE /\ pc' = "error"
  /\ UNCHANGED <<done, open, left, sampleVars>>

\* SIGINT between any two steps, also within nanosleep: us_sleep then sleeps
\* for what was left.
SIGINT ==
  /\ pc \in Running
  /\ IF handler THEN done' = TRUE /\ UNCHANGED pc ELSE pc' = "killed" /\ UNCHANGED done
  /\ handler' = FALSE
  /\ UNCHANGED <<open, left, sampleVars>>

\* Mutant: the flag is not volatile, and the compiler reads it once.
Stops_Cached == FALSE
Stops == done

Test ==
  /\ pc = "test" /\ pc' = IF Stops THEN "end" ELSE "open"
  /\ UNCHANGED <<done, handler, open, left, sampleVars>>

fopen ==
  /\ pc = "open"
  /\ \/ pc' = "read" /\ open' = open + 1
     \/ pc' = "error" /\ UNCHANGED open
  /\ UNCHANGED <<done, handler, left, sampleVars>>

Minus(a, b) == (a - b) % Width

\* Mutant: the sum of the last sample is not kept.
Remember_IdleOnly(v3, s) == vector3_' = v3 /\ UNCHANGED sum_
Remember(v3, s) == vector3_' = v3 /\ sum_' = s

\* The counters of a line are taken modulo the width of unsigned. The kernel
\* may take time back from the count of waiting for I/O.
cpu_util(a, b) ==
  LET v3 == a % Width
      sum == (v3 + (b % Width)) % Width
  IN /\ shown' = <<Minus(v3, vector3_), Minus(sum, sum_)>>
     /\ Remember(v3, sum)
     /\ idle' = a /\ other' = b /\ grown' = <<a - idle, (a + b) - (idle + other)>>
     /\ sampled' = IF sampled = "no" THEN "first" ELSE "later"

Sample ==
  \E a \in idle .. idle + Growth, b \in other - 1 .. other + Growth :
    /\ a <= MaxTime /\ b \in 0 .. MaxTime /\ a + b <= idle + other + Growth
    /\ cpu_util(a, b)

\* fgets fails, or the line has not seven numbers: the next sample takes more
\* time in.
Read ==
  /\ pc = "read" /\ pc' = "sleep" /\ left' = Ticks
  /\ Sample \/ UNCHANGED sampleVars
  /\ UNCHANGED <<done, handler, open>>

nanosleep ==
  /\ pc = "sleep" /\ left' = left - 1
  /\ pc' = IF left = 1 THEN "close" ELSE "sleep"
  /\ UNCHANGED <<done, handler, open, sampleVars>>

\* Mutant: the loop is left before the file is closed.
fclose_Skipped ==
  /\ pc = "close" /\ open' = (IF done THEN open ELSE open - 1) /\ pc' = "test"
  /\ UNCHANGED <<done, handler, left, sampleVars>>
fclose ==
  /\ pc = "close" /\ open' = open - 1 /\ pc' = "test"
  /\ UNCHANGED <<done, handler, left, sampleVars>>

Step == signal \/ Test \/ fopen \/ Read \/ nanosleep \/ fclose
Next == Step \/ SIGINT

Spec == Init /\ [][Next]_vars
\* The process is scheduled, and nothing owes it a signal.
FairSpec == Spec /\ WF_vars(Step)

-----------------------------------------------------------------------------
(***************************************************************************)
(* Properties.                                                             *)
(***************************************************************************)
\* At most the one file of this pass of the loop is open, and main() returns
\* with none, whenever the signal came (main.c:85-97).
TypeOK ==
  /\ pc \in Running \union {"end", "error", "killed"}
  /\ done \in BOOLEAN /\ handler \in BOOLEAN /\ left \in 0 .. Ticks
  /\ {vector3_, sum_, shown[1], shown[2]} \subseteq 0 .. Width - 1
  /\ idle \in 0 .. MaxTime /\ other \in 0 .. MaxTime
  /\ pc \in Running \union {"end", "error"} => open = IF pc \in {"read", "sleep", "close"} THEN 1 ELSE 0

\* From the second sample on the two differences of cpu_util are how much
\* the idle time and the sum have grown, also when counters have wrapped in
\* between, unless the sum has gone back (main.c:59-67).
UtilExact == sampled = "later" /\ grown[2] >= 0 => shown = grown

\* Once SIGINT was handled the program ends, wherever in the loop it came
\* (main.c:20-26, 85).
SignalEnds == done ~> pc \notin Running
=============================================================================
