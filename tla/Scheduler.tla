----------------------------- MODULE Scheduler -----------------------------
(***************************************************************************)
(* scheduler.c and the calls main.c makes to it: threads are created, each *)
(* at the head of a list, and scheduler_execute() is to run them all.      *)
(*                                                                         *)
(* "state" is static and zero: there is no current thread until schedule() *)
(* has picked one, and thread_candidate() starts from the current thread.  *)
(* What the code does once a thread runs is left out: no execution gets    *)
(* there, as the run of this module shows.                                 *)
(***************************************************************************)
EXTENDS Integers, Sequences

CONSTANT Threads   \* calls of scheduler_create that main() makes (5)

VARIABLES
  pc,          \* main(): "create", "execute"; "schedule"; "exit" or "fault"
  list,        \* state.head: the threads, newest first, with their status
  freed,       \* threads whose memory was given back
  cur_thread,  \* state.cur_thread, NULL or a thread
  rc           \* what main() returns

vars == <<pc, list, freed, cur_thread, rc>>

NULL == 0
Newest == Len(list) + 1

-----------------------------------------------------------------------------
Init ==
  /\ pc = "create" /\ list = <<>> /\ freed = {} /\ cur_thread = NULL /\ rc = 0

\* main() goes on creating until a call fails or all are made.
scheduler_create ==
  /\ pc = "create" /\ Len(list) < Threads
  /\ \/ /\ list' = <<[id |-> Newest, status |-> "STATUS_"]>> \o list
        /\ pc' = IF Newest = Threads THEN "execute" ELSE "create"
        /\ UNCHANGED <<freed, rc>>
     \/ /\ UNCHANGED <<list, freed>> /\ rc' = -1 /\ pc' = "exit"
     \* The thread is in the list before its stack is allocated.
     \/ /\ list' = <<[id |-> Newest, status |-> "STATUS_"]>> \o list
        /\ freed' = freed \cup {Newest} /\ rc' = -1 /\ pc' = "exit"
  /\ UNCHANGED cur_thread

scheduler_execute ==
  /\ pc = "execute" /\ pc' = "schedule"
  /\ UNCHANGED <<list, freed, cur_thread, rc>>

\* thread_candidate() reads the link of the current thread first.
thread_candidate_Faults ==
  /\ pc = "schedule" /\ cur_thread = NULL /\ pc' = "fault"
  /\ UNCHANGED <<list, freed, cur_thread, rc>>

Next == scheduler_create \/ scheduler_execute \/ thread_candidate_Faults

Spec == Init /\ [][Next]_vars

-----------------------------------------------------------------------------
\* scheduler.h:47-48: scheduler_execute "returns after all user threads
\* (previously created) have terminated". It does not end in any other way.
ExecuteReturns == pc # "fault"
=============================================================================
