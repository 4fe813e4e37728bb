-------------------------------- MODULE AVL --------------------------------
(***************************************************************************)
(* avl.c: a balanced tree of counted words kept in storage class memory.   *)
(*                                                                         *)
(* The tree is memory that outlives the process, so a process that dies in *)
(* the middle of avl_insert leaves the stores it had made, in the order of *)
(* the program, and the next avl_open goes on from there. Every store to   *)
(* that memory is a step of its own here; the frames of the recursion in   *)
(* update() are "path", and "todo" holds the stores up to the next point   *)
(* where the code decides something. A word is a number, strcmp its order. *)
(*                                                                         *)
(* scm is external: scm_malloc and scm_strdup may fail, nothing that was   *)
(* stored is lost, and the region is mapped where it was before.           *)
(***************************************************************************)
EXTENDS Integers, Sequences, FiniteSetsExt

CONSTANTS
  Words,       \* the words that are inserted
  MaxInserts,      \* bound: calls of avl_insert
  MaxCrashInserts  \* bound: calls of avl_insert in a history with a crash

ASSUME AVLAssumption ==
  /\ Words \subseteq Nat \ {0} /\ MaxInserts \in Nat /\ MaxCrashInserts \in 0 .. MaxInserts

VARIABLES
  mem, root, items, unique,  \* in SCM: the nodes and struct state
  pc,      \* "closed", "ready", in update(): "down", "check", "back"; "fault"
  path,    \* the callers' frames in update(): node and the side descended
  cur,     \* the argument "root" of update() on the way down, its value after
  item,    \* the word of the last avl_insert of this process
  todo,    \* stores to make before the next decision
  rc,      \* what the last avl_insert returned, NoCall before it
  bag,     \* history: inserts begun per word, less those that got no memory
  calls,   \* history: calls of avl_insert
  crashed  \* history: the process died inside avl_insert since a truncate

scm == <<mem, root, items, unique>>
frame == <<path, cur, item, todo>>
history == <<bag, calls, crashed>>
vars == <<scm, pc, frame, rc, history>>

NULL == 0
NoCall == 1
Sides == {"left", "right"}
Other(s) == IF s = "left" THEN "right" ELSE "left"

-----------------------------------------------------------------------------
delta(n) == IF n = NULL THEN -1 ELSE mem[n].depth

balance(n) == delta(mem[n].left) - delta(mem[n].right)

depth(n) == Max({delta(mem[n].left), delta(mem[n].right)}) + 1

\* Mutants: the tree is let lean one further, and is rotated too early.
Leans_Late(n) == balance(n) \notin -2 .. 2
Leans_Early(n) == balance(n) # 0
Leans(n) == balance(n) \notin -1 .. 1

\* The side of n on which word i belongs.
Side(i, n) == IF i < mem[n].item THEN "left" ELSE "right"

\* The stores update() makes.
Link(n, s, v) == [op |-> "link", node |-> n, side |-> s, val |-> v]
SetDepth(n) == [op |-> "depth", node |-> n]
IncCount(n) == [op |-> "count", node |-> n]
IncItems == [op |-> "items"]
IncUnique == [op |-> "unique"]

\* Mutant: the lifted child takes its parent before the parent lets it go.
Rotate_Swapped(n, s) ==
  LET r == mem[n][s]
  IN <<Link(r, Other(s), n), Link(n, s, mem[r][Other(s)]), SetDepth(n), SetDepth(r)>>

\* rotate_right lifts the left child of n, rotate_left the right one.
Rotate(n, s) ==
  LET r == mem[n][s]
  IN <<Link(n, s, mem[r][Other(s)]), Link(r, Other(s), n), SetDepth(n), SetDepth(r)>>

\* rotate_left_right (s = "left") and rotate_right_left lift the inner
\* grandchild x, first above its parent and then above n.
RotateTwice(n, s) ==
  LET c == mem[n][s]
      x == mem[c][Other(s)]
  IN Rotate(c, Other(s))
     \o <<Link(n, s, x)>>
     \o <<Link(n, s, mem[x][Other(s)]), Link(x, Other(s), n), SetDepth(n), SetDepth(x)>>

\* Mutant: only the count of distinct words moves.
BumpStores_NoItems(n) == <<IncCount(n), SetDepth(n)>>
BumpStores(n) == <<IncCount(n), IncItems, SetDepth(n)>>

\* Mutant: the new node is counted where it is made and again as a hit.
NewStores_Twice(n) == <<IncCount(n), IncItems, IncUnique, IncCount(n)>>
NewStores(n) == <<IncCount(n), IncItems, IncUnique>>

-----------------------------------------------------------------------------
\* avl_exists: where the walk from the root for word i ends.
Find(i) ==
  LET at[k \in Nat] ==
        IF k = 0 THEN root
        ELSE LET n == at[k - 1]
             IN IF n = NULL THEN NULL
                ELSE IF mem[n].item = i THEN n ELSE mem[n][Side(i, n)]
  IN at[Len(mem)]

avl_exists(i) == IF Find(i) = NULL THEN 0 ELSE mem[Find(i)].count

\* avl_traverse: the nodes in the order fnc is called for them.
avl_traverse ==
  LET below[k \in Nat] ==
        [n \in 0 .. Len(mem) |->
           IF k = 0 \/ n = NULL THEN <<>>
           ELSE below[k - 1][mem[n].left] \o <<n>> \o below[k - 1][mem[n].right]]
  IN below[Len(mem)][root]

-----------------------------------------------------------------------------
Init ==
  /\ mem = <<>> /\ root = NULL /\ items = 0 /\ unique = 0
  /\ pc = "closed" /\ path = <<>> /\ cur = NULL /\ todo = <<>>
  /\ item = NULL /\ rc = NoCall
  /\ bag = [i \in Words |-> 0] /\ calls = 0 /\ crashed = FALSE

\* Mutant: the state of a truncated region is not cleared.
avl_open_Uncleared ==
  /\ pc \in {"closed", "fault"}
  /\ pc' = "ready"
  /\ \/ /\ mem' = <<>> /\ UNCHANGED <<root, items, unique>>
        /\ bag' = [i \in Words |-> 0] /\ crashed' = FALSE
     \/ UNCHANGED <<scm, bag, crashed>>
  /\ path' = <<>> /\ cur' = NULL /\ todo' = <<>> /\ item' = NULL /\ rc' = NoCall
  /\ UNCHANGED calls

\* A truncated region is empty, and its state is cleared; any other is as
\* the last process left it.
avl_open ==
  /\ pc \in {"closed", "fault"}
  /\ pc' = "ready"
  /\ \/ /\ mem' = <<>> /\ root' = NULL /\ items' = 0 /\ unique' = 0
        /\ bag' = [i \in Words |-> 0] /\ crashed' = FALSE
     \/ UNCHANGED <<scm, bag, crashed>>
  /\ path' = <<>> /\ cur' = NULL /\ todo' = <<>> /\ item' = NULL /\ rc' = NoCall
  /\ UNCHANGED calls

avl_close ==
  /\ pc = "ready" /\ pc' = "closed" /\ item' = NULL /\ rc' = NoCall
  /\ UNCHANGED <<scm, path, cur, todo, history>>

avl_insert ==
  /\ pc = "ready"
  /\ calls < IF crashed THEN MaxCrashInserts ELSE MaxInserts
  /\ pc' = "down" /\ cur' = root
  /\ \E i \in Words : item' = i /\ bag' = [bag EXCEPT ![i] = @ + 1]
  /\ calls' = calls + 1 /\ rc' = NoCall
  /\ UNCHANGED <<scm, path, todo, crashed>>

\* update() calls itself on the side where the word belongs.
Descend ==
  /\ pc = "down" /\ cur # NULL /\ mem[cur].item # item
  /\ path' = Append(path, [node |-> cur, side |-> Side(item, cur)])
  /\ cur' = mem[cur][Side(item, cur)]
  /\ UNCHANGED <<scm, pc, item, todo, rc, history>>

Bump ==
  /\ pc = "down" /\ cur # NULL /\ mem[cur].item = item
  /\ pc' = "back" /\ todo' = BumpStores(cur)
  /\ UNCHANGED <<scm, path, cur, item, rc, history>>

\* A cleared node with the word in it; nothing points to it yet.
Allocate ==
  /\ pc = "down" /\ cur = NULL
  /\ mem' = Append(mem, [item |-> item, count |-> 0, depth |-> 0,
                         left |-> NULL, right |-> NULL])
  /\ pc' = "back" /\ cur' = Len(mem') /\ todo' = NewStores(cur')
  /\ UNCHANGED <<root, items, unique, path, item, rc, history>>

\* No memory for the node or for its word: update() returns NULL.
AllocateFails ==
  /\ pc = "down" /\ cur = NULL
  /\ pc' = "back" /\ bag' = [bag EXCEPT ![item] = @ - 1]
  /\ UNCHANGED <<scm, frame, rc, calls, crashed>>

\* One store to the region.
Store ==
  /\ todo # <<>> /\ todo' = Tail(todo)
  /\ LET w == Head(todo)
     IN /\ mem' = CASE w.op = "link" -> [mem EXCEPT ![w.node][w.side] = w.val]
                    [] w.op = "depth" -> [mem EXCEPT ![w.node].depth = depth(w.node)]
                    [] w.op = "count" -> [mem EXCEPT ![w.node].count = @ + 1]
                    [] OTHER -> mem
        /\ items' = items + (IF w.op = "items" THEN 1 ELSE 0)
        /\ unique' = unique + (IF w.op = "unique" THEN 1 ELSE 0)
  /\ UNCHANGED <<root, pc, path, cur, item, rc, history>>

\* "root->left = update(...)": the caller stores what the callee returned,
\* NULL as well.
TakeResult ==
  /\ pc = "back" /\ todo = <<>> /\ path # <<>>
  /\ LET f == path[Len(path)]
     IN mem' = [mem EXCEPT ![f.node][f.side] = cur] /\ cur' = f.node
  /\ pc' = "check"
  /\ UNCHANGED <<root, items, unique, path, item, todo, rc, history>>

\* The rest of the frame: rotate if the node leans, then its depth. The code
\* looks only at the side it came from: it reads through a NULL child when
\* the node leans the other way.
Rebalance ==
  /\ pc = "check"
  /\ LET n == path[Len(path)].node
         s == path[Len(path)].side
         child == mem[n][s]
         inner == mem[child][Other(s)]
         outside == IF s = "left" THEN item < mem[child].item ELSE item > mem[child].item
         Finish(r, stores) ==
           /\ pc' = "back" /\ cur' = r /\ todo' = Append(stores, SetDepth(r))
           /\ path' = SubSeq(path, 1, Len(path) - 1)
         Fault == pc' = "fault" /\ UNCHANGED <<cur, todo, path>>
     IN \/ ~Leans(n) /\ Finish(n, <<>>)
        \/ Leans(n) /\ child = NULL /\ Fault
        \/ Leans(n) /\ child # NULL /\ outside /\ Finish(child, Rotate(n, s))
        \/ Leans(n) /\ child # NULL /\ ~outside /\ inner = NULL /\ Fault
        \/ Leans(n) /\ child # NULL /\ ~outside /\ inner # NULL
           /\ Finish(inner, RotateTwice(n, s))
  /\ UNCHANGED <<scm, item, rc, history>>

\* avl_insert has the value of the outermost update().
InsertReturns ==
  /\ pc = "back" /\ todo = <<>> /\ path = <<>>
  /\ IF cur = NULL THEN rc' = -1 /\ UNCHANGED root
                   ELSE rc' = 0 /\ root' = cur
  /\ pc' = "ready" /\ cur' = NULL
  /\ UNCHANGED <<mem, items, unique, path, item, todo, history>>

\* The process dies inside avl_insert: the region keeps what was stored.
Crash ==
  /\ pc \in {"down", "check", "back"} /\ calls < MaxCrashInserts
  /\ pc' = "closed" /\ crashed' = TRUE
  /\ path' = <<>> /\ cur' = NULL /\ todo' = <<>> /\ item' = NULL /\ rc' = NoCall
  /\ UNCHANGED <<scm, bag, calls>>

Next ==
  \/ avl_open \/ avl_close \/ avl_insert
  \/ Descend \/ Bump \/ Allocate \/ AllocateFails \/ Store
  \/ TakeResult \/ Rebalance \/ InsertReturns
  \/ Crash

Spec == Init /\ [][Next]_vars

-----------------------------------------------------------------------------
Quiet == pc \in {"closed", "ready"}

\* Every pointer leads to a node, every height and count is a number, and the
\* frames are nodes of the tree (struct node, avl.c:12-26).
TypeOK ==
  LET Ptr == 0 .. Len(mem)
  IN /\ mem \in Seq([item : Words, count : Nat, depth : Nat, left : Ptr, right : Ptr])
     /\ root \in Ptr /\ items \in Nat /\ unique \in Nat
     /\ pc \in {"closed", "ready", "down", "check", "back", "fault"}
     /\ path \in Seq([node : 1 .. Len(mem), side : Sides])
     /\ cur \in Ptr /\ item \in Words \cup {NULL} /\ rc \in {0, -1, NoCall}
     /\ bag \in [Words -> Nat] /\ calls \in 0 .. MaxInserts /\ crashed \in BOOLEAN

\* "list" prints the words in sorted order, each once, and exists finds each
\* of them: between calls, in the middle of a rotation, and on whatever tree
\* a process that died left behind (avl.c:136-144, 205-222 over any prefix of the
\* stores of update()).
ListingSorted ==
  LET l == avl_traverse
  IN /\ \A j \in 2 .. Len(l) : mem[l[j - 1]].item < mem[l[j]].item
     /\ \A j \in 1 .. Len(l) : Find(mem[l[j]].item) = l[j]

Height ==
  LET h[k \in Nat] ==
        [n \in 0 .. Len(mem) |->
           IF k = 0 \/ n = NULL THEN -1
           ELSE 1 + Max({h[k - 1][mem[n].left], h[k - 1][mem[n].right]})]
  IN h[Len(mem)]

\* The heights that update() and the rotations keep are the heights of the
\* subtrees, and no node leans by more than one, after every call of a
\* history in which no process died; a failed allocation disturbs neither
\* (avl.c:46-134).
Balanced ==
  (Quiet /\ ~crashed) =>
    \A n \in 1 .. Len(mem) :
      /\ mem[n].depth = Height[n]
      /\ Height[mem[n].left] - Height[mem[n].right] \in -1 .. 1

\* What exists, info and list report agrees with what was inserted: each word
\* with its count, the total of the counts and the number of distinct words.
\* An insert that got no memory, at the root or below, changes none of them.
CountsExact ==
  (Quiet /\ ~crashed) =>
    /\ \A i \in Words : avl_exists(i) = bag[i]
    /\ items = MapThenSumSet(LAMBDA i : bag[i], Words)
    /\ unique = Cardinality({i \in Words : bag[i] > 0})
    /\ Len(avl_traverse) = unique

\* No count exceeds the inserts of the word, not even in a tree that a dead
\* process left and later inserts rotated: a crash loses words, and makes up
\* or repeats none.
NothingInvented == \A i \in Words : avl_exists(i) <= bag[i]

\* update() reads through a NULL child (avl.c:112-128) only in a tree that a
\* dead process left unbalanced.
FaultNeedsCrash == pc = "fault" => crashed
=============================================================================
