--------------------------- MODULE MonitorProofs ---------------------------
(***************************************************************************)
(* Proofs about Monitor, for any width of the counters and any growth      *)
(* below it: the one file is closed on every way out, and the differences  *)
(* of the wrapped counters are how much time has gone by.                  *)
(***************************************************************************)
EXTENDS Monitor, TLAPS

(* Dividing a number of either sign.                                         *)
LEMMA DivMod ==
  ASSUME NEW a \in Int, NEW c \in Nat \ {0}
  PROVE  a = c * (a \div c) + (a % c) /\ a \div c \in Int /\ a % c \in 0 .. c - 1
OBVIOUS

(* Numbers that differ by a multiple of c have the same remainder.           *)
LEMMA SameRemainder ==
  ASSUME NEW c \in Nat \ {0}, NEW a \in Int, NEW b \in Int, NEW k \in Int, a = b + c * k
  PROVE  a % c = b % c
<1> DEFINE p == a \div c
           q == b \div c
           r == a % c
           s == b % c
           d == q + k - p
<1>1. /\ p \in Int /\ q \in Int /\ r \in 0 .. c - 1 /\ s \in 0 .. c - 1
      /\ a = c * p + r /\ b = c * q + s
  BY DivMod
<1> HIDE DEF p, q, r, s
<1>2. d \in Int /\ r - s = c * d
  BY <1>1
<1> HIDE DEF d
<1>3. CASE d <= -1
  <2>1. c * d <= -c
    BY <1>2, <1>3
  <2>2. QED
    BY <1>1, <1>2, <2>1
<1>4. CASE d >= 1
  <2>1. c * d >= c
    BY <1>2, <1>4
  <2>2. QED
    BY <1>1, <1>2, <2>1
<1>5. CASE d = 0
  BY <1>1, <1>2, <1>5 DEF r, s
<1>6. QED
  BY <1>2, <1>3, <1>4, <1>5

(* Sums and differences may be taken of the remainders.                      *)
LEMMA SumsOfRemainders ==
  ASSUME NEW c \in Nat \ {0}, NEW a \in Int, NEW b \in Int
  PROVE  /\ ((a % c) + (b % c)) % c = (a + b) % c
         /\ ((a % c) - (b % c)) % c = (a - b) % c
<1> DEFINE p == a \div c
           q == b \div c
           r == a % c
           s == b % c
<1>1. /\ p \in Int /\ q \in Int /\ r \in Int /\ s \in Int
      /\ a = c * p + r /\ b = c * q + s
  BY DivMod
<1> HIDE DEF p, q, r, s
<1>2. /\ a + b = (r + s) + c * (p + q) /\ p + q \in Int
      /\ a - b = (r - s) + c * (p - q) /\ p - q \in Int
      /\ r + s \in Int /\ r - s \in Int /\ a + b \in Int /\ a - b \in Int
  BY <1>1
<1>3. (a + b) % c = (r + s) % c /\ (a - b) % c = (r - s) % c
  BY <1>2, SameRemainder
<1>4. QED
  BY <1>3 DEF r, s

(* A number below c is its own remainder.                                    *)
LEMMA SmallRemainder ==
  ASSUME NEW c \in Nat \ {0}, NEW a \in 0 .. c - 1
  PROVE  a % c = a
OBVIOUS

-----------------------------------------------------------------------------
(* What cpu_util's static counters hold: the remainders of what the kernel   *)
(* had counted at the last sample.                                           *)
Remembers ==
  /\ sampled \in {"no", "first", "later"}
  /\ sampled # "no" => vector3_ = idle % Width /\ sum_ = (idle + other) % Width

IInv ==
  /\ TypeOK /\ Remembers /\ UtilExact
  /\ pc = "sleep" => left # 0

(* A sample: the counters are remembered, and the differences shown are the  *)
(* growth unless the sum has gone back.                                      *)
LEMMA SampleKeeps ==
  ASSUME IInv, Sample
  PROVE  /\ {vector3_', sum_', shown'[1], shown'[2]} \subseteq 0 .. Width - 1
         /\ idle' \in 0 .. MaxTime /\ other' \in 0 .. MaxTime
         /\ Remembers' /\ UtilExact'
<1>1. PICK a \in idle .. idle + Growth, b \in other - 1 .. other + Growth :
        /\ a <= MaxTime /\ b \in 0 .. MaxTime /\ a + b <= idle + other + Growth
        /\ cpu_util(a, b)
  BY DEF Sample
<1> DEFINE v3 == a % Width
           sum == (v3 + (b % Width)) % Width
           one == Minus(v3, vector3_)
           two == Minus(sum, sum_)
           dIdle == a - idle
           dSum == (a + b) - (idle + other)
<1>2. /\ idle \in Nat /\ other \in Nat /\ idle <= MaxTime /\ MaxTime \in Nat
      /\ vector3_ \in 0 .. Width - 1 /\ sum_ \in 0 .. Width - 1
      /\ Width \in Nat \ {0} /\ Growth \in 0 .. Width - 1
  BY MonitorAssumption DEF IInv, TypeOK
<1>3. /\ a \in Nat /\ b \in Nat /\ a \in 0 .. MaxTime /\ b \in 0 .. MaxTime
      /\ dIdle \in 0 .. Width - 1 /\ dSum \in Int /\ dSum <= Width - 1
  BY <1>1, <1>2
<1>4. /\ shown' = <<one, two>> /\ vector3_' = v3 /\ sum_' = sum
      /\ idle' = a /\ other' = b /\ grown' = <<dIdle, dSum>>
      /\ sampled' = IF sampled = "no" THEN "first" ELSE "later"
  BY <1>1 DEF cpu_util, Remember
<1>5. sum = (a + b) % Width
  <2>1. a \in Int /\ b \in Int /\ Width \in Nat \ {0}
    BY <1>2, <1>3
  <2>2. ((a % Width) + (b % Width)) % Width = (a + b) % Width
    BY <2>1, SumsOfRemainders, Zenon
  <2>3. QED
    BY <2>2
<1>6. v3 \in 0 .. Width - 1 /\ sum \in 0 .. Width - 1
  BY <1>2, <1>3, <1>5, DivMod
<1>7. one \in 0 .. Width - 1 /\ two \in 0 .. Width - 1
  BY <1>2, <1>6, DivMod DEF Minus
<1>8. ASSUME sampled # "no"
      PROVE  one = dIdle % Width /\ two = dSum % Width
  <2>1. vector3_ = idle % Width /\ sum_ = (idle + other) % Width
    BY <1>8 DEF IInv, Remembers
  <2>2. /\ a \in Int /\ idle \in Int /\ a + b \in Int /\ idle + other \in Int
        /\ Width \in Nat \ {0}
    BY <1>2, <1>3
  <2>3. /\ ((a % Width) - (idle % Width)) % Width = (a - idle) % Width
        /\ (((a + b) % Width) - ((idle + other) % Width)) % Width
             = ((a + b) - (idle + other)) % Width
    BY <2>2, SumsOfRemainders, Zenon
  <2>4. QED
    BY <1>5, <2>1, <2>3, Zenon DEF Minus
<1> HIDE DEF v3, sum, one, two, dIdle, dSum
<1>9. UtilExact'
  <2>1. SUFFICES ASSUME sampled' = "later", dSum >= 0
                 PROVE  one = dIdle /\ two = dSum
    BY <1>4 DEF UtilExact
  <2>2. dSum \in 0 .. Width - 1
    BY <1>2, <1>3, <2>1
  <2>3. sampled # "no"
    BY <1>4, <2>1
  <2>4. QED
    BY <1>2, <1>3, <1>8, <2>2, <2>3, SmallRemainder
<1>10. Remembers'
  BY <1>4, <1>5 DEF Remembers, IInv, v3
<1>11. QED
  BY <1>3, <1>4, <1>6, <1>7, <1>9, <1>10

(* The counters of the process start at 0, before the first sample.          *)
LEMMA InvInit == Init => IInv
<1> SUFFICES ASSUME Init PROVE IInv
  OBVIOUS
<1>1. 0 \in 0 .. Ticks /\ 0 \in 0 .. Width - 1
  BY MonitorAssumption
<1>2. /\ pc = "start" /\ done = FALSE /\ handler = FALSE /\ open = 0 /\ left = 0
      /\ vector3_ = 0 /\ sum_ = 0 /\ shown = <<0, 0>> /\ sampled = "no"
      /\ idle \in 0 .. MaxTime /\ other \in 0 .. MaxTime
  BY DEF Init
<1>3. TypeOK
  BY <1>1, <1>2 DEF TypeOK, Running
<1>4. QED
  BY <1>2, <1>3 DEF IInv, Remembers, UtilExact

(* Every step of the loop, and a signal at any of them.                      *)
LEMMA InvNext == IInv /\ [Next]_vars => IInv'
<1> SUFFICES ASSUME IInv, [Next]_vars PROVE IInv'
  OBVIOUS
<1> USE DEF IInv, TypeOK, Running, loopVars, sampleVars
<1>1. CASE signal
  BY <1>1 DEF signal, Remembers, UtilExact
<1>2. CASE Test
  BY <1>2 DEF Test, Stops, Remembers, UtilExact
<1>3. CASE fopen
  BY <1>3 DEF fopen, Remembers, UtilExact
<1>4. CASE Read
  <2>1. Ticks \in 0 .. Ticks /\ Ticks # 0
    BY MonitorAssumption
  <2>2. CASE UNCHANGED sampleVars
    BY <1>4, <2>1, <2>2 DEF Read, Remembers, UtilExact
  <2>3. CASE Sample
    <3>1. /\ {vector3_', sum_', shown'[1], shown'[2]} \subseteq 0 .. Width - 1
          /\ idle' \in 0 .. MaxTime /\ other' \in 0 .. MaxTime
          /\ Remembers' /\ UtilExact'
      BY <2>3, SampleKeeps
    <3>2. QED
      BY <1>4, <2>1, <3>1 DEF Read
  <2>4. QED
    BY <1>4, <2>2, <2>3 DEF Read
<1>5. CASE nanosleep
  <2>1. left \in 0 .. Ticks /\ left # 0 /\ Ticks \in Nat
    BY <1>5, MonitorAssumption DEF nanosleep
  <2>2. left - 1 \in 0 .. Ticks /\ (left # 1 => left - 1 # 0)
    BY <2>1
  <2>3. QED
    BY <1>5, <2>2 DEF nanosleep, Remembers, UtilExact
<1>6. CASE fclose
  BY <1>6 DEF fclose, Remembers, UtilExact
<1>7. CASE SIGINT
  BY <1>7 DEF SIGINT, Remembers, UtilExact
<1>8. CASE UNCHANGED vars
  BY <1>8 DEF vars, Remembers, UtilExact
<1>9. QED
  BY <1>1, <1>2, <1>3, <1>4, <1>5, <1>6, <1>7, <1>8 DEF Next, Step

LEMMA Invariant == Spec => []IInv
<1>1. QED
  BY InvInit, InvNext, PTL DEF Spec

(* Theorem: wherever the signal comes, exactly the file of this pass of the  *)
(* loop is open, and none when main() returns (main.c:85-97).                *)
THEOREM TypeCorrect == Spec => []TypeOK
<1>1. IInv => TypeOK
  BY DEF IInv
<1>2. QED
  BY <1>1, Invariant, PTL

(* Theorem: the differences of the wrapped counters are the growth of the    *)
(* idle time and of the sum, whatever the width, as long as the sum has not  *)
(* gone back and has grown by less than the width (cpu_util, main.c:59-67).  *)
THEOREM UtilIsExact == Spec => []UtilExact
<1>1. IInv => UtilExact
  BY DEF IInv
<1>2. QED
  BY <1>1, Invariant, PTL
=============================================================================
