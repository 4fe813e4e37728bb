----------------------------- MODULE AVLProofs -----------------------------
(***************************************************************************)
(* Proofs about AVL, for any words, any number of inserts and of crashes:  *)
(* between any two stores of update() the region is a search tree, which   *)
(* traversal and lookup agree on and in which no count was made up; as long*)
(* as no process died its heights are true, its nodes balanced, and no     *)
(* update() reads through NULL.                                            *)
(***************************************************************************)
EXTENDS AVL, TLAPS, SequenceTheorems, FiniteSetTheorems, WellFoundedInduction

(* A word that is on side s of word k.                                       *)
On(i, k, s) == IF s = "left" THEN i < k ELSE k < i

LEMMA OnSides ==
  ASSUME NEW i \in Nat, NEW k \in Nat, NEW s \in Sides
  PROVE  /\ ~On(i, i, s)
         /\ On(i, k, s) <=> On(k, i, Other(s))
         /\ ~(On(i, k, s) /\ On(i, k, Other(s)))
         /\ i # k => On(i, k, s) \/ On(i, k, Other(s))
         /\ \A j \in Nat : On(i, k, s) /\ On(k, j, s) => On(i, j, s)
  BY DEF On, Sides, Other

LEMMA OtherSide ==
  ASSUME NEW s \in Sides
  PROVE  Other(s) \in Sides /\ Other(s) # s /\ Other(Other(s)) = s /\ \A t \in Sides : t = s \/ t = Other(s)
  BY DEF Sides, Other

-----------------------------------------------------------------------------
(***************************************************************************)
(* Trees of references. A reference is a node and a side, or state->root;  *)
(* K is what they hold, I the words of the nodes. S are nodes and W says   *)
(* which words may be at and below each: a region in which both exist is a *)
(* search tree from the root, whatever else lies in it. The reference z    *)
(* need not be the only one to its node.                                   *)
(***************************************************************************)
RootRef == <<NULL, "root">>
NoRef == <<NULL, "none">>
From(S) == (S \X Sides) \cup {RootRef}
Part(I, W, a) == {w \in W[a[1]] : On(w, I[a[1]], a[2])}

Region(N, K, I, W) ==
  /\ N \in SUBSET (Nat \ {0})
  /\ K \in [From(N) -> N \cup {NULL}]
  /\ I \in [N -> Words]
  /\ W \in [N -> SUBSET {I[m] : m \in N}]

Tree(K, I, S, W, z) ==
  /\ \A a \in From(S) : K[a] # NULL => K[a] \in S
  /\ \A n \in S : I[n] \in W[n]
  /\ \A a \in S \X Sides : K[a] # NULL => W[K[a]] \subseteq Part(I, W, a)
  /\ \A a, b \in From(S) \ {z} : K[a] # NULL /\ K[a] = K[b] => a = b

(* The tree with v about to be stored at z.                                  *)
Loose(K, I, S, W, z, v) ==
  /\ Tree(K, I, S, W, z)
  /\ z \in From(S)
  /\ v # NULL => /\ v \in S
                 /\ \A a \in From(S) \ {z} : K[a] # v
                 /\ z # RootRef => W[v] \subseteq Part(I, W, z)
  /\ \A a \in From(S) \ {z} : K[z] # NULL /\ K[a] = K[z] => v # NULL /\ a[1] = v

(* The tree without r, the child of n on side s that is being lifted.        *)
Hanging(K, I, S, W, n, s, r) ==
  LET o == <<r, Other(s)>>
      y == K[<<r, s>>]
  IN /\ Tree(K, I, S, W, NoRef)
     /\ n \in S /\ r \notin S
     /\ K[<<n, s>>] = K[o]
     /\ I[r] \in Part(I, W, <<n, s>>)
     /\ K[o] # NULL => \A w \in W[K[o]] : On(w, I[r], Other(s))
     /\ y # NULL => /\ y \in S
                    /\ W[y] \subseteq W[n] /\ \A w \in W[y] : On(w, I[r], s)
                    /\ \A a \in From(S) : K[a] # y

LEMMA FromIs ==
  ASSUME NEW S
  PROVE  /\ RootRef \in From(S) /\ NoRef \notin From(S) /\ RootRef[1] = NULL
         /\ \A a \in From(S) : a # RootRef => a \in S \X Sides
         /\ \A a \in S \X Sides : a # RootRef /\ a \in From(S)
         /\ \A a \in S \X Sides : a = <<a[1], a[2]>> /\ a[1] \in S /\ a[2] \in Sides
<1>1. "root" \notin Sides /\ "none" \notin Sides /\ "root" # "none"
  BY DEF Sides
<1>2. QED
  BY <1>1 DEF From, RootRef, NoRef

LEMMA FromGrows ==
  ASSUME NEW T, NEW S \in SUBSET T
  PROVE  From(S) \subseteq From(T) /\ S \X Sides \subseteq T \X Sides
  BY DEF From

LEMMA Refs ==
  ASSUME NEW n, NEW s \in Sides
  PROVE  /\ \A S : n \in S => <<n, s>> \in From(S) /\ <<n, s>> \in S \X Sides
         /\ <<n, s>> # RootRef /\ <<n, s>> # NoRef
         /\ <<n, s>>[1] = n /\ <<n, s>>[2] = s
         /\ \A m : \A t : <<n, s>> = <<m, t>> => n = m /\ s = t
<1>1. "root" \notin Sides /\ "none" \notin Sides
  BY DEF Sides
<1>2. QED
  BY <1>1 DEF From, RootRef, NoRef

(* No word of a part is the word of its node.                                *)
LEMMA PartIs ==
  ASSUME NEW N, NEW K, NEW I, NEW W, Region(N, K, I, W), NEW n \in N, NEW s \in Sides
  PROVE  /\ Part(I, W, <<n, s>>) \subseteq W[n]
         /\ I[n] \notin Part(I, W, <<n, s>>)
         /\ \A w \in Part(I, W, <<n, s>>) : On(w, I[n], s)
         /\ \A w \in W[n] : On(w, I[n], s) => w \in Part(I, W, <<n, s>>)
         /\ I[n] \in Nat /\ W[n] \subseteq Nat
<1>1. I[n] \in Words /\ W[n] \subseteq Words /\ Words \subseteq Nat
  <2>1. \A m \in N : I[m] \in Words
    BY DEF Region
  <2>2. W[n] \subseteq {I[m] : m \in N}
    BY DEF Region
  <2>3. QED
    BY <2>1, <2>2, AVLAssumption
<1>2. I[n] \in Nat /\ W[n] \subseteq Nat
  BY <1>1
<1>3. ~On(I[n], I[n], s)
  BY <1>2, OnSides
<1>4. QED
  BY <1>2, <1>3 DEF Part

(* The loose node takes its place.                                           *)
LEMMA Attach ==
  ASSUME NEW N, NEW K, NEW I, NEW W, Region(N, K, I, W), NEW S \in SUBSET N,
         NEW z, NEW v, Loose(K, I, S, W, z, v)
  PROVE  Tree([K EXCEPT ![z] = v], I, S, W, NoRef)
<1> DEFINE L == [K EXCEPT ![z] = v]
<1>1. z \in From(S) /\ From(S) \subseteq From(N) /\ DOMAIN K = From(N)
  BY FromGrows DEF Loose, Region
<1>2. L[z] = v /\ \A a \in From(S) : a # z => L[a] = K[a]
  BY <1>1
<1> HIDE DEF L
<1>3. \A a \in From(S) : L[a] # NULL => L[a] \in S
  BY <1>2 DEF Loose, Tree
<1>4. \A n \in S : I[n] \in W[n]
  BY DEF Loose, Tree
<1>5. ASSUME NEW a \in S \X Sides, L[a] # NULL
      PROVE  W[L[a]] \subseteq Part(I, W, a)
  <2>1. a \in From(S) /\ a # RootRef
    BY FromIs
  <2>2. CASE a = z
    BY <1>2, <1>5, <2>1, <2>2 DEF Loose
  <2>3. CASE a # z
    BY <1>2, <1>5, <2>1, <2>3 DEF Loose, Tree
  <2>4. QED
    BY <2>2, <2>3
<1>6. ASSUME NEW a \in From(S), NEW b \in From(S), L[a] # NULL, L[a] = L[b]
      PROVE  a = b
  <2>1. CASE a = z \/ b = z
    BY <1>2, <1>6, <2>1 DEF Loose
  <2>2. CASE a # z /\ b # z
    BY <1>2, <1>6, <2>2 DEF Loose, Tree
  <2>3. QED
    BY <2>1, <2>2
<1>7. QED
  BY <1>3, <1>4, <1>5, <1>6 DEF L, Tree

(* If that never happens the loose node is lost, and the rest is a tree.     *)
LEMMA Lost ==
  ASSUME NEW N, NEW K, NEW I, NEW W, Region(N, K, I, W), NEW S \in SUBSET N,
         NEW z, NEW v, Loose(K, I, S, W, z, v)
  PROVE  \E T \in SUBSET S : Tree(K, I, T, W, NoRef) /\ (K[z] = v => T = S)
<1>1. CASE K[z] = NULL \/ K[z] = v
  <2>1. ASSUME NEW a \in From(S), NEW b \in From(S), K[a] # NULL, K[a] = K[b]
        PROVE  a = b
    BY <1>1, <2>1 DEF Loose, Tree
  <2>2. Tree(K, I, S, W, NoRef)
    BY <2>1 DEF Loose, Tree
  <2>3. QED
    BY <2>2
<1>2. CASE K[z] # NULL /\ K[z] # v
  <2> DEFINE T == S \ {v}
  <2>1. From(T) \subseteq From(S) /\ T \subseteq S /\ T \X Sides \subseteq S \X Sides
    <3>1. T \in SUBSET S
      OBVIOUS
    <3>2. QED
      BY <3>1, FromGrows
  <2>2. \A a \in From(S) : K[a] # NULL => K[a] \in T
    BY <1>2 DEF Loose, Tree
  <2>3. \A a \in From(T) : v # NULL => a[1] # v
    <3> HIDE DEF T
    <3>1. ASSUME NEW a \in From(T), v # NULL, a[1] = v PROVE FALSE
      <4>1. a # RootRef
        BY <3>1, FromIs
      <4>2. a[1] \in T
        BY <4>1, FromIs
      <4>3. QED
        BY <3>1, <4>2 DEF T
    <3>2. QED
      BY <3>1
  <2>4. ASSUME NEW a \in From(T), NEW b \in From(T), K[a] # NULL, K[a] = K[b]
        PROVE  a = b
    BY <1>2, <2>1, <2>3, <2>4 DEF Loose, Tree
  <2>5. Tree(K, I, T, W, NoRef)
    <3> HIDE DEF T
    <3>1. \A n \in T : I[n] \in W[n]
      BY <2>1 DEF Loose, Tree
    <3>2. \A a \in T \X Sides : K[a] # NULL => W[K[a]] \subseteq Part(I, W, a)
      BY <2>1 DEF Loose, Tree
    <3>3. QED
      BY <2>1, <2>2, <2>4, <3>1, <3>2 DEF Tree
  <2>6. QED
    BY <1>2, <2>5
<1>3. QED
  BY <1>1, <1>2

(* Rotating at n, first store: n takes the inner subtree of its child r.     *)
MayUnhook(N, K, I, S, W, n, s, r, v) ==
  /\ Region(N, K, I, W) /\ S \in SUBSET N /\ Tree(K, I, S, W, NoRef)
  /\ n \in S /\ s \in Sides /\ r = K[<<n, s>>] /\ r # NULL /\ v = K[<<r, Other(s)>>]

HasUnhooked(I, S, W, n, s, r, L, Q) == r \in S /\ r # n /\ Hanging(L, I, Q, W, n, s, r)

LEMMA Unhook ==
  ASSUME NEW N, NEW K, NEW I, NEW S, NEW W, NEW n, NEW s, NEW r, NEW v, MayUnhook(N, K, I, S, W, n, s, r, v),
         NEW L, L = [K EXCEPT ![<<n, s>>] = v], NEW Q, Q = S \ {r}
  PROVE  HasUnhooked(I, S, W, n, s, r, L, Q)
<1> DEFINE e == <<n, s>>
           o == <<r, Other(s)>>
           y == K[<<r, s>>]
           T == S \ {r}
<1> USE DEF MayUnhook
<1>1. /\ Other(s) \in Sides /\ Other(s) # s
      /\ e \in From(S) /\ e \in S \X Sides /\ e # NoRef /\ e # RootRef
  BY OtherSide, Refs
<1>2. r \in S /\ W[r] \subseteq Part(I, W, e) /\ I[r] \in W[r]
  BY <1>1 DEF Tree
<1>3. /\ o \in From(S) /\ o \in S \X Sides /\ o # NoRef /\ <<r, s>> \in From(S) /\ <<r, s>> \in S \X Sides
      /\ <<r, s>> # NoRef /\ o # <<r, s>>
  BY <1>1, <1>2, Refs
<1>4. r # n /\ I[r] \in Part(I, W, e) /\ W[r] \subseteq W[n] /\ r \in N /\ n \in N
  BY <1>2, PartIs
<1>5. DOMAIN K = From(N) /\ From(S) \subseteq From(N) /\ From(T) \subseteq From(S) /\ T \subseteq S /\ T \X Sides \subseteq S \X Sides
  BY FromGrows DEF Region
<1>6. L[e] = K[o] /\ \A a \in From(S) : a # e => L[a] = K[a]
  BY <1>1, <1>5
<1>7. \A a \in From(T) : a # o /\ a # <<r, s>>
  <2>1. ASSUME NEW a \in From(T), NEW t \in Sides, a = <<r, t>> PROVE FALSE
    <3>1. a # RootRef /\ a[1] = r
      BY <2>1, Refs
    <3>2. a[1] \in T
      BY <3>1, FromIs
    <3>3. QED
      BY <3>1, <3>2
  <2>2. QED
    BY <1>1, <2>1
<1>8. o # e /\ <<r, s>> # e
  BY <1>1, <1>4, Refs
<1>9. \A a \in From(S) : a # NoRef
  BY FromIs
<1> HIDE DEF T, e, o, y
\* r is gone, and its children have no other reference.
<1>10. \A a \in From(S) : K[a] = r => a = e
  BY <1>1, <1>9 DEF Tree, e
<1>11. ASSUME NEW t \in Sides, K[<<r, t>>] # NULL
       PROVE  /\ K[<<r, t>>] \in T
              /\ \A w \in W[K[<<r, t>>]] : On(w, I[r], t) /\ w \in W[r]
              /\ \A a \in From(S) : K[a] = K[<<r, t>>] => a = <<r, t>>
  <2>1. <<r, t>> \in From(S) /\ <<r, t>> \in S \X Sides /\ <<r, t>> # NoRef
    BY <1>2, Refs
  <2> DEFINE d == <<r, t>>
  <2>2. K[d] \in S /\ W[K[d]] \subseteq Part(I, W, d) /\ I[K[d]] \in W[K[d]]
    BY <1>11, <2>1 DEF Tree
  <2>3. I[K[d]] # I[r]
    BY <1>4, <2>2, PartIs
  <2>4. \A a \in From(S) : K[a] = K[d] => a = d
    BY <1>11, <2>1, <1>9 DEF Tree
  <2>5. \A w \in W[K[d]] : On(w, I[r], t) /\ w \in W[r]
    BY <1>4, <2>2, PartIs
  <2>6. QED
    BY <2>2, <2>3, <2>4, <2>5 DEF T
<1>12. ASSUME NEW a \in From(T)
       PROVE  /\ L[a] # NULL => L[a] \in T
              /\ y # NULL => L[a] # y
              /\ K[o] # NULL /\ a # e => L[a] # K[o]
  <2>1. a \in From(S) /\ a # o /\ a # <<r, s>>
    BY <1>5, <1>7
  <2>2. CASE a = e
    <3>1. L[a] = K[o]
      BY <1>6, <2>2
    <3>2. L[a] # NULL => L[a] \in T
      BY <3>1, <1>11, <1>1 DEF o
    <3>3. y # NULL => L[a] # y
      BY <3>1, <1>11, <1>1, <1>3 DEF o, y
    <3>4. QED
      BY <3>2, <3>3, <2>2
  <2>3. CASE a # e
    <3>1. L[a] = K[a] /\ L[a] # r
      BY <1>6, <2>1, <2>3, <1>10
    <3>2. L[a] # NULL => L[a] \in T
      BY <3>1, <2>1 DEF Tree, T
    <3>3. y # NULL => L[a] # y
      BY <3>1, <2>1, <1>11 DEF y
    <3>4. K[o] # NULL => L[a] # K[o]
      BY <3>1, <2>1, <1>11, <1>1 DEF o
    <3>5. QED
      BY <3>2, <3>3, <3>4
  <2>4. QED
    BY <2>2, <2>3
<1>13. ASSUME NEW a \in T \X Sides, L[a] # NULL
       PROVE  W[L[a]] \subseteq Part(I, W, a)
  <2>1. a \in From(S) /\ a \in S \X Sides
    BY <1>5, FromIs
  <2>2. CASE a = e
    <3>1. L[a] = K[o]
      BY <1>6, <2>2
    <3>2. ASSUME NEW w \in W[K[o]] PROVE w \in Part(I, W, e)
      <4>1. w \in W[r]
        BY <3>1, <3>2, <1>13, <1>11, <1>1 DEF o
      <4>2. QED
        BY <4>1, <1>2
    <3>3. QED
      BY <3>1, <3>2, <2>2
  <2>3. CASE a # e
    BY <1>6, <1>13, <2>1, <2>3 DEF Tree
  <2>4. QED
    BY <2>2, <2>3
<1>14. Tree(L, I, T, W, NoRef)
  <2>1. \A m \in T : I[m] \in W[m]
    BY <1>5 DEF Tree
  <2>2. ASSUME NEW a \in From(T), NEW b \in From(T), L[a] # NULL, L[a] = L[b]
        PROVE  a = b
    <3>1. CASE a # e /\ b # e
      BY <1>5, <1>6, <1>9, <2>2, <3>1 DEF Tree
    <3>2. CASE a = e \/ b = e
      BY <1>6, <1>12, <2>2, <3>2
    <3>3. QED
      BY <3>1, <3>2
  <2>3. QED
    BY <1>12, <1>13, <2>1, <2>2 DEF Tree
<1>15. L[o] = K[o] /\ L[<<r, s>>] = y /\ L[e] = K[o]
  BY <1>3, <1>6, <1>8 DEF y, o
<1>16. K[o] # NULL => \A w \in W[K[o]] : On(w, I[r], Other(s))
  BY <1>11, <1>1 DEF o
<1>17. y # NULL => y \in T /\ W[y] \subseteq W[n] /\ \A w \in W[y] : On(w, I[r], s)
  BY <1>11, <1>4 DEF y
<1>18. n \in T /\ r \notin T
  BY <1>4 DEF T
<1>19. Hanging(L, I, T, W, n, s, r)
  BY <1>4, <1>12, <1>14, <1>15, <1>16, <1>17, <1>18 DEF Hanging, o, e
<1>20. QED
  BY <1>2, <1>4, <1>19 DEF T, HasUnhooked

(* Second store: r takes n, and what may be below n is now below r.          *)
Below(I, W, n, s, r) == [W EXCEPT ![r] = W[n], ![n] = {w \in W[n] : On(w, I[r], Other(s))}]

MayHook(N, K, I, S, W, n, s, r, z) ==
  /\ Region(N, K, I, W) /\ S \in SUBSET N /\ s \in Sides /\ r \in N
  /\ Hanging(K, I, S, W, n, s, r) /\ z \in From(S) /\ K[z] = n

HasHooked(N, I, S, W, n, r, z, L, Q, V) ==
  /\ Region(N, L, I, V) /\ Loose(L, I, Q, V, z, r) /\ L[z] = n
  /\ \A m \in S : m # n => V[m] = W[m]

LEMMA Hook ==
  ASSUME NEW N, NEW K, NEW I, NEW S, NEW W, NEW n, NEW s, NEW r, NEW z, MayHook(N, K, I, S, W, n, s, r, z),
         NEW L, L = [K EXCEPT ![<<r, Other(s)>>] = n], NEW V, V = Below(I, W, n, s, r), NEW Q, Q = S \cup {r}
  PROVE  HasHooked(N, I, S, W, n, r, z, L, Q, V)
<1> DEFINE t == Other(s)
           e == <<n, s>>
           o == <<r, t>>
           b == <<r, s>>
           y == K[b]
           T == S \cup {r}
<1> USE DEF MayHook
<1>0. L = [K EXCEPT ![o] = n] /\ V = [W EXCEPT ![r] = W[n], ![n] = {w \in W[n] : On(w, I[r], t)}]
  BY DEF Below
<1>1. t \in Sides /\ t # s /\ \A u \in Sides : u = s \/ u = t
  BY OtherSide
<1>2. /\ Tree(K, I, S, W, NoRef) /\ n \in S /\ n \in N /\ r \notin S /\ n # r
      /\ T \in SUBSET N /\ S \in SUBSET T
  BY DEF Hanging
<1>3. /\ o \in From(T) /\ b \in From(T) /\ o # b /\ e \in From(S) /\ o # RootRef /\ b # RootRef
      /\ From(T) \subseteq From(N) /\ From(S) \subseteq From(T)
      /\ S \X Sides \subseteq From(S)
  <2>1. From(T) \subseteq From(N) /\ From(S) \subseteq From(T)
    BY <1>2, FromGrows
  <2>2. S \X Sides \subseteq From(S)
    BY FromIs
  <2>3. o \in From(T) /\ b \in From(T) /\ o # b /\ e \in From(S) /\ o # RootRef /\ b # RootRef
    BY <1>1, <1>2, Refs
  <2>4. QED
    BY <2>1, <2>2, <2>3
<1>4. \A a \in From(S) : a # o /\ a # b /\ a # NoRef
  <2>1. ASSUME NEW a \in From(S), NEW u \in Sides, a = <<r, u>> PROVE FALSE
    <3>1. a # RootRef /\ a[1] = r
      BY <2>1, Refs
    <3>2. a[1] \in S
      BY <3>1, FromIs
    <3>3. QED
      BY <3>1, <3>2, <1>2
  <2>2. QED
    BY <1>1, <2>1, FromIs
<1>5. \A a \in From(T) : a \in From(S) \/ a = o \/ a = b
  <2>1. ASSUME NEW a \in From(T), a \notin From(S) PROVE a = o \/ a = b
    <3>1. a # RootRef
      BY <2>1, FromIs
    <3>2. a \in T \X Sides /\ a = <<a[1], a[2]>> /\ a[1] \in T /\ a[2] \in Sides
      BY <2>1, <3>1, FromIs
    <3>3. a[1] \notin S
      BY <2>1, <3>2, Refs
    <3>4. QED
      BY <1>1, <3>2, <3>3
  <2>2. QED
    BY <2>1
<1>6. DOMAIN K = From(N) /\ DOMAIN W = N /\ W[n] \in SUBSET {I[m] : m \in N} /\ n \in N \cup {NULL}
  BY <1>2 DEF Region
<1>7. L[o] = n /\ L[b] = y /\ \A a \in From(S) : L[a] = K[a]
  BY <1>3, <1>4, <1>6
<1>8. V[r] = W[n] /\ V[n] = {w \in W[n] : On(w, I[r], t)} /\ \A m \in S : m # n => V[m] = W[m]
  BY <1>0, <1>2, <1>6
<1>9. Region(N, L, I, V)
  <2>1. L \in [From(N) -> N \cup {NULL}]
    BY <1>6, <1>3 DEF Region
  <2>2. V \in [N -> SUBSET {I[m] : m \in N}]
    <3>1. PICK P, X, Y : P = SUBSET {I[m] : m \in N} /\ X = W[n] /\ Y = {w \in W[n] : On(w, I[r], t)}
      OBVIOUS
    <3>2. X \in P /\ Y \in P /\ W \in [N -> P] /\ V = [W EXCEPT ![r] = X, ![n] = Y]
      BY <1>0, <1>6, <3>1 DEF Region
    <3>3. V \in [N -> P]
      BY <3>2
    <3>4. QED
      BY <3>1, <3>3
  <2>3. QED
    BY <2>1, <2>2 DEF Region
<1>10. /\ y # NULL => /\ y \in S /\ W[y] \subseteq W[n] /\ \A w \in W[y] : On(w, I[r], s)
                      /\ \A a \in From(S) : K[a] # y
       /\ K[e] # NULL => \A w \in W[K[e]] : On(w, I[r], t)
       /\ I[r] \in Part(I, W, e)
  BY DEF Hanging
<1> HIDE DEF T, e, o, y, b, t
<1>11. /\ I[r] \in W[n] /\ On(I[r], I[n], s) /\ On(I[n], I[r], t)
       /\ I[n] \in W[n] /\ I[r] \in Nat /\ I[n] \in Nat /\ W[n] \subseteq Nat
  <2>1. I[r] \in W[n] /\ On(I[r], I[n], s) /\ I[n] \in Nat /\ W[n] \subseteq Nat
    BY <1>2, <1>10, PartIs DEF e
  <2>2. I[n] \in W[n]
    BY <1>2 DEF Tree
  <2>3. On(I[n], I[r], t)
    <3>1. I[r] \in Nat
      BY <2>1
    <3>2. QED
      BY <2>1, <3>1, OnSides DEF t
  <2>4. QED
    BY <2>1, <2>2, <2>3
\* A child of n, on either side, is beyond r on side t.
<1>12. ASSUME NEW u \in Sides, K[<<n, u>>] # NULL
       PROVE  /\ K[<<n, u>>] \in S /\ K[<<n, u>>] # n
              /\ \A w \in W[K[<<n, u>>]] : w \in W[n] /\ On(w, I[n], u) /\ On(w, I[r], t)
  <2> DEFINE d == <<n, u>>
  <2>1. d \in S \X Sides /\ d \in From(S)
    BY <1>2, Refs
  <2>2. K[d] \in S /\ W[K[d]] \subseteq Part(I, W, d) /\ I[K[d]] \in W[K[d]]
    BY <1>2, <1>12, <2>1 DEF Tree
  <2>3. K[d] # n /\ \A w \in W[K[d]] : w \in W[n] /\ On(w, I[n], u)
    BY <1>2, <2>2, PartIs
  <2>4. ASSUME NEW w \in W[K[d]] PROVE On(w, I[r], t)
    <3>1. CASE u = s
      BY <3>1, <1>10, <1>12 DEF e
    <3>2. CASE u = t
      <4>1. On(w, I[n], t) /\ w \in Nat
        BY <2>3, <3>2, <1>11
      <4>2. QED
        BY <4>1, <1>1, <1>11, OnSides
    <3>3. QED
      BY <3>1, <3>2, <1>1
  <2>5. QED
    BY <2>2, <2>3, <2>4
<1>13. y # NULL => y # n
  BY <1>10
<1>14. \A a \in From(T) : L[a] # NULL => L[a] \in T
  <2>1. \A a \in From(S) : K[a] # NULL => K[a] \in S
    BY <1>2 DEF Tree
  <2>2. QED
    BY <2>1, <1>2, <1>5, <1>7, <1>10 DEF T
<1>15. \A m \in T : I[m] \in V[m]
  <2>1. \A m \in S : I[m] \in W[m]
    BY <1>2 DEF Tree
  <2>2. I[n] \in V[n] /\ I[r] \in V[r]
    BY <1>8, <1>11
  <2>3. QED
    BY <1>8, <2>1, <2>2 DEF T
<1>16. ASSUME NEW a \in T \X Sides, L[a] # NULL
       PROVE  V[L[a]] \subseteq Part(I, V, a)
  <2>1. a = <<a[1], a[2]>> /\ a[1] \in T /\ a[2] \in Sides /\ a \in From(T) /\ a # RootRef
    BY FromIs
  <2>2. CASE a = o
    <3>1. a[1] = r /\ a[2] = t
      BY <2>2, <1>1, Refs DEF o
    <3>2. QED
      BY <2>2, <3>1, <1>7, <1>8 DEF Part
  <2>3. CASE a = b
    <3>1. a[1] = r /\ a[2] = s
      BY <2>3, Refs DEF b
    <3>2. L[a] = y /\ y \in S /\ V[y] = W[y]
      BY <2>3, <1>7, <1>8, <1>10, <1>13, <1>16
    <3>3. QED
      BY <3>1, <3>2, <1>8, <1>10, <1>16 DEF Part
  <2>4. CASE a \in From(S) /\ a[1] = n
    <3>1. L[a] = K[a] /\ K[a] \in S /\ V[K[a]] = W[K[a]]
      BY <2>1, <2>4, <1>7, <1>8, <1>12, <1>16
    <3>2. \A w \in W[K[a]] : w \in W[n] /\ On(w, I[n], a[2]) /\ On(w, I[r], t)
      BY <2>1, <2>4, <3>1, <1>12, <1>16
    <3>3. QED
      BY <2>4, <3>1, <3>2, <1>8 DEF Part
  <2>5. CASE a \in From(S) /\ a[1] # n
    <3>1. a \in S \X Sides /\ a[1] \in S
      BY <2>1, <2>5, FromIs
    <3>2. L[a] = K[a] /\ K[a] \in S /\ W[K[a]] \subseteq Part(I, W, a)
      BY <2>5, <3>1, <1>2, <1>7, <1>16 DEF Tree
    <3>3. Part(I, V, a) = Part(I, W, a)
      BY <2>5, <3>1, <1>8 DEF Part
    <3>4. V[K[a]] \subseteq W[K[a]]
      BY <3>2, <1>8
    <3>5. QED
      BY <3>2, <3>3, <3>4
  <2>6. QED
    BY <2>1, <2>2, <2>3, <2>4, <2>5, <1>5
<1>17. ASSUME NEW a \in From(T), a # z, L[a] # NULL
       PROVE  /\ L[a] # r
              /\ L[a] = n => a = o
              /\ \A d \in From(T) \ {z} : L[d] = L[a] => a = d
  <2>1. ASSUME NEW d \in From(S), L[d] = n, d # z PROVE FALSE
    <3>1. n # NULL /\ K[d] = n
      BY <2>1, <1>2, <1>7 DEF Region, NULL
    <3>2. QED
      BY <2>1, <3>1, <1>2, <1>4 DEF Tree
  <2>2. \A d \in From(S) : L[d] # NULL => L[d] \in S
    BY <1>2, <1>7 DEF Tree
  <2>3. \A d \in From(S) : L[d] = y => y = NULL
    BY <1>7, <1>10
  <2>4. L[a] # r
    BY <1>2, <1>5, <1>7, <1>10, <2>2, <1>17
  <2>5. L[a] = n => a = o
    BY <1>2, <1>5, <1>7, <1>13, <2>1, <1>17
  <2>6. ASSUME NEW d \in From(T), d # z, L[d] = L[a] PROVE a = d
    <3>1. CASE a \in From(S) /\ d \in From(S)
      BY <3>1, <2>6, <1>2, <1>4, <1>7, <1>17 DEF Tree
    <3>2. CASE a = o
      BY <3>2, <2>6, <1>5, <1>7, <1>13, <2>1, <1>17
    <3>3. CASE d = o
      BY <3>3, <2>6, <1>5, <1>7, <1>13, <2>1, <1>17
    <3>4. CASE a = b \/ d = b
      BY <3>4, <2>6, <3>2, <3>3, <1>5, <1>7, <2>3, <1>17
    <3>5. QED
      BY <3>1, <3>2, <3>3, <3>4, <2>6, <1>5, <1>17
  <2>7. QED
    BY <2>4, <2>5, <2>6
<1>18. Tree(L, I, T, V, z)
  <2>1. ASSUME NEW a \in From(T) \ {z}, NEW d \in From(T) \ {z}, L[a] # NULL, L[a] = L[d] PROVE a = d
    BY <2>1, <1>17
  <2>2. QED
    BY <1>14, <1>15, <1>16, <2>1 DEF Tree
<1>19. z # RootRef => V[r] \subseteq Part(I, V, z)
  <2>1. ASSUME z # RootRef PROVE V[r] \subseteq Part(I, V, z)
    <3>1. z \in S \X Sides /\ z = <<z[1], z[2]>> /\ z[1] \in S /\ z[2] \in Sides
      BY <2>1, FromIs
    <3>2. n # NULL
      BY <1>2 DEF Region, NULL
    <3>3. W[n] \subseteq Part(I, W, z)
      BY <1>2, <3>1, <3>2 DEF Tree
    <3>4. z[1] # n
      <4>1. z[1] \in N
        BY <3>1
      <4>2. I[z[1]] \notin Part(I, W, z)
        BY <4>1, <3>1, PartIs
      <4>3. QED
        BY <4>2, <3>3, <1>11
    <3>5. Part(I, V, z) = Part(I, W, z)
      BY <3>1, <3>4, <1>8 DEF Part
    <3>6. QED
      BY <3>3, <3>5, <1>8
  <2>2. QED
    BY <2>1
<1>20. L[z] = n /\ z \in From(T)
  BY <1>3, <1>7
<1>21. Loose(L, I, T, V, z, r)
  <2>1. r \in T /\ r # NULL
    BY DEF T, Region, NULL
  <2>2. o[1] = r
    BY <1>1, Refs DEF o
  <2>3. \A a \in From(T) \ {z} : L[a] # r
    BY <1>17, <2>1
  <2>4. \A a \in From(T) \ {z} : L[z] # NULL /\ L[a] = L[z] => a[1] = r
    BY <1>17, <1>20, <2>2
  <2>5. QED
    BY <1>18, <1>19, <1>20, <2>1, <2>3, <2>4 DEF Loose
<1>22. QED
  BY <1>8, <1>9, <1>20, <1>21 DEF T, HasHooked

-----------------------------------------------------------------------------
(***************************************************************************)
(* The frames of the recursion: T[k] is the reference that the frame k     *)
(* descended by, T[0] state->root; i is the word looked for.               *)
(***************************************************************************)
Frames(L, T, K, I, S, W, i) ==
  /\ T[0] = RootRef
  /\ \A k \in 1 .. L : T[k] \in S \X Sides /\ On(i, I[T[k][1]], T[k][2])
  /\ \A j \in 0 .. L, k \in 1 .. L : k = j + 1 => K[T[j]] = T[k][1]
  /\ \A j, k \in 1 .. L : j < k => W[T[k][1]] \subseteq Part(I, W, T[j])

LEMMA FrameIs ==
  ASSUME NEW L \in Nat, NEW T, NEW K, NEW I, NEW S, NEW W, NEW i, Frames(L, T, K, I, S, W, i)
  PROVE  \A k \in 0 .. L :
           /\ T[k] \in From(S)
           /\ k # 0 => T[k] # RootRef /\ T[k] = <<T[k][1], T[k][2]>> /\ T[k][1] \in S /\ T[k][2] \in Sides
<1>1. ASSUME NEW k \in 0 .. L, k # 0 PROVE k \in 1 .. L /\ T[k] \in S \X Sides
  <2>1. k \in 1 .. L
    BY <1>1
  <2>2. QED
    BY <2>1 DEF Frames
<1>2. T[0] \in From(S)
  BY FromIs DEF Frames
<1>3. QED
  BY <1>1, <1>2, FromIs

(* What is below the last frame is on its side of every frame.               *)
LEMMA BelowFrames ==
  ASSUME NEW N, NEW K, NEW I, NEW W, Region(N, K, I, W), NEW S \in SUBSET N,
         NEW L \in Nat, NEW T, NEW i, Frames(L, T, K, I, S, W, i),
         NEW w, L # 0 => w \in Part(I, W, T[L])
  PROVE  \A k \in 1 .. L : w \in Part(I, W, T[k]) /\ w # I[T[k][1]]
<1> SUFFICES ASSUME NEW k \in 1 .. L
             PROVE  w \in Part(I, W, T[k]) /\ w # I[T[k][1]]
  OBVIOUS
<1>1. L # 0 /\ L \in 1 .. L /\ k \in 0 .. L /\ L \in 0 .. L /\ k # 0
  OBVIOUS
<1>2. /\ T[k] = <<T[k][1], T[k][2]>> /\ T[k][1] \in N /\ T[k][2] \in Sides
      /\ T[L] = <<T[L][1], T[L][2]>> /\ T[L][1] \in N /\ T[L][2] \in Sides
  BY <1>1, FrameIs
<1>3. w \in W[T[L][1]]
  BY <1>1, <1>2, PartIs
<1>4. w \in Part(I, W, T[k])
  <2>1. CASE k = L
    BY <2>1, <1>1
  <2>2. CASE k < L
    BY <2>2, <1>1, <1>3 DEF Frames
  <2>3. QED
    BY <2>1, <2>2, <1>1
<1>5. I[T[k][1]] \notin Part(I, W, T[k])
  <2>1. PICK n \in N, s \in Sides : n = T[k][1] /\ s = T[k][2]
    BY <1>2
  <2>2. T[k] = <<n, s>>
    BY <1>2, <2>1
  <2>3. I[n] \notin Part(I, W, <<n, s>>)
    BY PartIs
  <2>4. QED
    BY <2>1, <2>2, <2>3
<1>6. QED
  BY <1>4, <1>5

(* No node whose word may be below the last frame is in a frame.             *)
LEMMA NotInFrames ==
  ASSUME NEW N, NEW K, NEW I, NEW W, Region(N, K, I, W), NEW S \in SUBSET N,
         NEW L \in Nat, NEW T, NEW i, Frames(L, T, K, I, S, W, i),
         NEW m, L # 0 => I[m] \in Part(I, W, T[L])
  PROVE  \A k \in 1 .. L : T[k][1] # m
<1>1. PICK w : w = I[m]
  OBVIOUS
<1>2. \A k \in 1 .. L : w # I[T[k][1]]
  <2>1. L # 0 => w \in Part(I, W, T[L])
    BY <1>1
  <2>2. QED
    BY <2>1, BelowFrames
<1>3. QED
  BY <1>1, <1>2

LEMMA Push ==
  ASSUME NEW N, NEW K, NEW I, NEW W, Region(N, K, I, W), NEW S \in SUBSET N,
         Tree(K, I, S, W, NoRef),
         NEW L \in Nat, NEW T, NEW i, Frames(L, T, K, I, S, W, i),
         NEW n, n = K[T[L]], n # NULL, NEW s \in Sides, On(i, I[n], s),
         NEW U, \A k \in 0 .. L : U[k] = T[k], U[L + 1] = <<n, s>>
  PROVE  Frames(L + 1, U, K, I, S, W, i)
<1>1. L \in 0 .. L /\ 0 \in 0 .. L
  OBVIOUS
<1>2. n \in S /\ n \in N
  BY <1>1, FrameIs DEF Tree
<1>3. U[L + 1] \in S \X Sides /\ U[L + 1][1] = n /\ U[L + 1][2] = s
  BY <1>2
<1>4. L # 0 => W[n] \subseteq Part(I, W, T[L])
  BY <1>1, <1>2 DEF Frames, Tree
<1>5. ASSUME NEW k \in 1 .. L + 1
      PROVE  k = L + 1 \/ (k # L + 1 /\ k \in 1 .. L /\ k \in 0 .. L /\ U[k] = T[k])
  <2>1. k = L + 1 \/ (k # L + 1 /\ k \in 1 .. L /\ k \in 0 .. L)
    OBVIOUS
  <2>2. QED
    BY <2>1
<1>6. \A k \in 1 .. L + 1 : U[k] \in S \X Sides /\ On(i, I[U[k][1]], U[k][2])
  BY <1>3, <1>5 DEF Frames
<1>7. ASSUME NEW j \in 0 .. L + 1, NEW k \in 1 .. L + 1, k = j + 1
      PROVE  K[U[j]] = U[k][1]
  <2>1. j \in 0 .. L
    BY <1>7
  <2>2. CASE k = L + 1
    <3>1. j = L
      BY <2>1, <2>2, <1>7
    <3>2. QED
      BY <3>1, <2>2, <1>1, <1>3
  <2>3. CASE k # L + 1
    <3>1. k \in 1 .. L /\ U[k] = T[k] /\ U[j] = T[j]
      BY <2>1, <2>3, <1>5
    <3>2. QED
      BY <3>1, <2>1, <1>7 DEF Frames
  <2>4. QED
    BY <2>2, <2>3
<1>8. ASSUME NEW j \in 1 .. L + 1, NEW k \in 1 .. L + 1, j < k
      PROVE  W[U[k][1]] \subseteq Part(I, W, U[j])
  <2>1. j \in 1 .. L /\ U[j] = T[j] /\ L # 0
    <3>1. j # L + 1 /\ L # 0
      BY <1>8
    <3>2. QED
      BY <3>1, <1>5
  <2>2. CASE k = L + 1
    <3>1. \A w \in W[n] : \A q \in 1 .. L : w \in Part(I, W, T[q])
      BY <1>4, BelowFrames
    <3>2. QED
      BY <3>1, <2>1, <2>2, <1>3
  <2>3. CASE k # L + 1
    <3>1. k \in 1 .. L /\ U[k] = T[k]
      BY <2>3, <1>5
    <3>2. QED
      BY <3>1, <2>1, <1>8 DEF Frames
  <2>4. QED
    BY <2>2, <2>3
<1>9. U[0] = RootRef
  BY <1>1 DEF Frames
<1>10. QED
  BY <1>6, <1>7, <1>8, <1>9 DEF Frames

LEMMA Pop ==
  ASSUME NEW L \in Nat, NEW M \in Nat, L = M + 1,
         NEW T, NEW K, NEW I, NEW S, NEW W, NEW i, Frames(L, T, K, I, S, W, i),
         NEW U, \A k \in 0 .. M : U[k] = T[k]
  PROVE  Frames(M, U, K, I, S, W, i) /\ K[U[M]] = T[L][1] /\ T[L] \in S \X Sides
<1>1. /\ \A k \in 0 .. M : k \in 0 .. L
      /\ \A k \in 1 .. M : k \in 1 .. L /\ k \in 0 .. M
      /\ L \in 1 .. L /\ M \in 0 .. M /\ 0 \in 0 .. M
  OBVIOUS
<1>2. QED
  BY <1>1 DEF Frames

(* The frames after a change elsewhere.                                      *)
MayMove(L, T, K, I, S, W, i, R, J, Q, V) ==
  /\ Frames(L, T, K, I, S, W, i)
  /\ \A j \in 0 .. L : j # L => R[T[j]] = K[T[j]]
  /\ \A k \in 1 .. L : /\ T[k][1] \in Q /\ V[T[k][1]] = W[T[k][1]]
                        /\ J[T[k][1]] = I[T[k][1]]

LEMMA FramesKept ==
  ASSUME NEW L \in Nat, NEW T, NEW K, NEW I, NEW S, NEW W, NEW i, NEW R, NEW J, NEW Q, NEW V,
         MayMove(L, T, K, I, S, W, i, R, J, Q, V)
  PROVE  Frames(L, T, R, J, Q, V, i)
<1> USE DEF MayMove
<1>1. \A k \in 1 .. L : T[k] \in Q \X Sides
  <2>1. \A k \in 1 .. L : T[k] \in S \X Sides
    BY DEF Frames
  <2>2. QED
    BY <2>1
<1>2. \A k \in 1 .. L : Part(J, V, T[k]) = Part(I, W, T[k])
  BY DEF Part
<1>3. \A j \in 0 .. L, k \in 1 .. L : k = j + 1 => j # L
  OBVIOUS
<1>4. QED
  BY <1>1, <1>2, <1>3 DEF Frames

(* A new leaf v, for the empty place below the last frame: its word is one   *)
(* that may be below every frame from now on.                                *)
Grows(N, K, I, i, v, M, J, R) ==
  /\ v \in Nat \ {0} /\ v \notin N /\ M = N \cup {v}
  /\ J \in [M -> Words] /\ J[v] = i /\ \A m \in N : J[m] = I[m]
  /\ R \in [From(M) -> M \cup {NULL}] /\ \A a \in From(N) : R[a] = K[a]
  /\ \A s \in Sides : R[<<v, s>>] = NULL

LEMMA Leaf ==
  ASSUME NEW N, NEW K, NEW I, NEW W, Region(N, K, I, W), NEW S \in SUBSET N,
         Tree(K, I, S, W, NoRef),
         NEW L \in Nat, NEW T, NEW i \in Words, Frames(L, T, K, I, S, W, i), K[T[L]] = NULL,
         NEW v, NEW M, NEW J, NEW R, Grows(N, K, I, i, v, M, J, R)
  PROVE  \E V : /\ Region(M, R, J, V)
                /\ Loose(R, J, S \cup {v}, V, T[L], v)
                /\ Frames(L, T, R, J, S \cup {v}, V, i)
<1> USE DEF Grows
<1> DEFINE Q == S \cup {v}
           V == [m \in M |-> IF m = v THEN {i}
                             ELSE IF \E k \in 1 .. L : T[k][1] = m THEN W[m] \cup {i} ELSE W[m]]
           z == T[L]
<1>1. /\ N \in SUBSET (Nat \ {0}) /\ I \in [N -> Words] /\ K \in [From(N) -> N \cup {NULL}]
      /\ W \in [N -> SUBSET {I[m] : m \in N}]
  BY DEF Region
<1>2. S \subseteq Q /\ Q \subseteq M /\ v \notin S /\ v \in Q /\ S \subseteq N /\ N \subseteq M
  OBVIOUS
<1>3. /\ From(S) \subseteq From(N) /\ From(S) \subseteq From(Q) /\ S \X Sides \subseteq Q \X Sides
      /\ S \X Sides \subseteq From(S) /\ NoRef \notin From(S)
  BY <1>2, FromGrows, FromIs
<1>4. /\ \A m \in N : W[m] \subseteq V[m] /\ \A w \in V[m] : w \in W[m] \/ (w = i /\ \E k \in 1 .. L : T[k][1] = m)
      /\ V[v] = {i}
      /\ \A k \in 1 .. L : T[k][1] \in N => i \in V[T[k][1]]
  BY <1>2
<1>5. V \in [M -> SUBSET {J[m] : m \in M}]
  <2>1. \A m \in N : W[m] \subseteq {I[k] : k \in N}
    BY <1>1
  <2>2. {I[k] : k \in N} \subseteq {J[m] : m \in M} /\ i \in {J[m] : m \in M}
    BY <1>2
  <2>3. \A m \in M : V[m] \subseteq {J[k] : k \in M}
    BY <1>4, <2>1, <2>2
  <2>4. QED
    BY <2>3
<1> HIDE DEF V, Q, z
<1>6. Region(M, R, J, V)
  BY <1>1, <1>5 DEF Region
<1>7. \A a \in From(Q) : a \in From(S) \/ R[a] = NULL
  <2>1. ASSUME NEW a \in From(Q), a \notin From(S) PROVE R[a] = NULL
    <3>1. a # RootRef
      BY <2>1, FromIs
    <3>2. a = <<a[1], a[2]>> /\ a[1] \in Q /\ a[2] \in Sides
      BY <2>1, <3>1, FromIs
    <3>3. a[1] \notin S
      BY <2>1, <3>2, Refs
    <3>4. a[1] = v
      BY <3>2, <3>3 DEF Q
    <3>5. QED
      BY <3>2, <3>4
  <2>2. QED
    BY <2>1
<1>8. \A a \in From(S) : R[a] = K[a]
  BY <1>3
<1>9. \A k \in 1 .. L : T[k] \in S \X Sides /\ T[k][1] \in S /\ T[k][1] \in N /\ i \in Part(J, V, T[k])
  <2>1. ASSUME NEW k \in 1 .. L PROVE T[k] \in S \X Sides /\ T[k][1] \in S /\ T[k][1] \in N /\ i \in Part(J, V, T[k])
    <3>1. T[k] \in S \X Sides /\ On(i, I[T[k][1]], T[k][2])
      BY DEF Frames
    <3>2. T[k][1] \in S
      BY <3>1, FromIs
    <3>3. T[k][1] \in N /\ i \in V[T[k][1]] /\ J[T[k][1]] = I[T[k][1]]
      BY <1>2, <1>4, <3>2
    <3>4. QED
      BY <3>1, <3>2, <3>3 DEF Part
  <2>2. QED
    BY <2>1
<1>10. \A a \in S \X Sides : Part(I, W, a) \subseteq Part(J, V, a)
  <2>1. \A a \in S \X Sides : a[1] \in N
    BY <1>2, FromIs
  <2>2. QED
    BY <2>1, <1>4 DEF Part
<1>11. \A a \in From(Q) : R[a] # NULL => a \in From(S) /\ R[a] = K[a] /\ R[a] \in S
  BY <1>7, <1>8 DEF Tree
<1>12. \A m \in Q : J[m] \in V[m]
  BY <1>2, <1>4 DEF Q, Tree
<1>13. ASSUME NEW a \in Q \X Sides, R[a] # NULL
       PROVE  V[R[a]] \subseteq Part(J, V, a)
  <2>1. a \in From(Q) /\ a # RootRef
    BY FromIs
  <2>2. a \in From(S) /\ a \in S \X Sides /\ R[a] = K[a] /\ K[a] \in S /\ K[a] \in N /\ a # NoRef
    BY <1>2, <1>3, <1>11, <1>13, <2>1, FromIs
  <2>3. ASSUME NEW w \in W[K[a]] PROVE w \in Part(J, V, a)
    BY <2>2, <2>3, <1>10, <1>13 DEF Tree
  <2>4. ASSUME NEW k \in 1 .. L, T[k][1] = K[a] PROVE i \in Part(J, V, a)
    <3>1. PICK j \in 0 .. L : k = j + 1
      <4>1. k - 1 \in 0 .. L /\ k = (k - 1) + 1
        OBVIOUS
      <4>2. QED
        BY <4>1
    <3>2. K[T[j]] = K[a] /\ T[j] \in From(S) /\ T[j] # NoRef
      <4>1. T[j] \in From(S)
        BY FrameIs
      <4>2. K[T[j]] = T[k][1]
        BY <3>1 DEF Frames
      <4>3. QED
        BY <2>4, <4>1, <4>2, <1>3
    <3>3. T[j] = a
      BY <3>2, <2>2, <1>13 DEF Tree
    <3>4. j # 0
      BY <3>3, <2>1 DEF Frames
    <3>5. j \in 1 .. L
      BY <3>4
    <3>6. QED
      BY <3>3, <3>5, <1>9
  <2>5. QED
    BY <2>2, <2>3, <2>4, <1>4
<1>14. z \in From(S) /\ z \in From(Q) /\ R[z] = NULL
  <2>1. L \in 0 .. L
    OBVIOUS
  <2>2. z \in From(S)
    BY <2>1, FrameIs DEF z
  <2>3. QED
    BY <2>2, <1>3, <1>8 DEF z
<1>15. Tree(R, J, Q, V, z)
  <2>1. ASSUME NEW a \in From(Q) \ {z}, NEW b \in From(Q) \ {z}, R[a] # NULL, R[a] = R[b] PROVE a = b
    <3>1. a \in From(S) \ {NoRef} /\ b \in From(S) \ {NoRef} /\ K[a] # NULL /\ K[a] = K[b]
      BY <2>1, <1>3, <1>11
    <3>2. QED
      BY <3>1 DEF Tree
  <2>2. \A a \in From(Q) : R[a] # NULL => R[a] \in Q
    BY <1>11, <1>2
  <2>3. QED
    BY <2>1, <2>2, <1>12, <1>13 DEF Tree
<1>16. Loose(R, J, Q, V, z, v)
  <2>1. \A a \in From(Q) : R[a] # v
    <3>1. v # NULL
      BY DEF NULL
    <3>2. QED
      BY <3>1, <1>2, <1>11
  <2>2. z # RootRef => V[v] \subseteq Part(J, V, z)
    <3>1. ASSUME z # RootRef PROVE i \in Part(J, V, z)
      <4>1. L # 0
        BY <3>1 DEF z, Frames
      <4>2. L \in 1 .. L
        BY <4>1
      <4>3. QED
        BY <4>2, <1>9 DEF z
    <3>2. QED
      BY <3>1, <1>4
  <2>3. QED
    BY <2>1, <2>2, <1>2, <1>14, <1>15 DEF Loose
<1>17. Frames(L, T, R, J, Q, V, i)
  <2>1. \A k \in 1 .. L : T[k] \in Q \X Sides /\ On(i, J[T[k][1]], T[k][2])
    BY <1>2, <1>3, <1>9 DEF Frames
  <2>2. \A j \in 0 .. L, k \in 1 .. L : k = j + 1 => R[T[j]] = T[k][1]
    <3>1. \A j \in 0 .. L : R[T[j]] = K[T[j]]
      BY <1>8, FrameIs
    <3>2. QED
      BY <3>1 DEF Frames
  <2>3. ASSUME NEW j \in 1 .. L, NEW k \in 1 .. L, j < k
        PROVE  V[T[k][1]] \subseteq Part(J, V, T[j])
    <3>1. W[T[k][1]] \subseteq Part(I, W, T[j])
      BY <2>3 DEF Frames
    <3>2. W[T[k][1]] \subseteq Part(J, V, T[j])
      BY <3>1, <1>9, <1>10
    <3>3. QED
      BY <3>2, <1>4, <1>9
  <2>4. QED
    BY <2>1, <2>2, <2>3 DEF Frames
<1>18. QED
  BY <1>6, <1>16, <1>17 DEF Q, z

-----------------------------------------------------------------------------
(***************************************************************************)
(* The region as references, words and heights, and what a store does to   *)
(* these.                                                                  *)
(***************************************************************************)
Nodes == DOMAIN mem
kids == [a \in From(Nodes) |-> IF a = RootRef THEN root ELSE mem[a[1]][a[2]]]
words == [n \in Nodes |-> mem[n].item]
heights == [n \in Nodes |-> mem[n].depth]
counts == [n \in Nodes |-> mem[n].count]

Rec(P) == [item : Words, count : Nat, depth : Nat, left : P, right : P]
RegionOK == mem \in Seq(Rec(0 .. Len(mem))) /\ root \in 0 .. Len(mem)

LEMMA Views ==
  ASSUME RegionOK
  PROVE  /\ Nodes = 1 .. Len(mem) /\ Nodes \in SUBSET (Nat \ {0}) /\ Len(mem) \in Nat
         /\ Nodes \cup {NULL} = 0 .. Len(mem)
         /\ kids \in [From(Nodes) -> Nodes \cup {NULL}]
         /\ words \in [Nodes -> Words] /\ heights \in [Nodes -> Nat] /\ counts \in [Nodes -> Nat]
         /\ kids[RootRef] = root
         /\ \A n \in Nodes : /\ mem[n] \in Rec(0 .. Len(mem))
                             /\ words[n] = mem[n].item /\ heights[n] = mem[n].depth /\ counts[n] = mem[n].count
                             /\ \A s \in Sides : kids[<<n, s>>] = mem[n][s]
                             /\ kids[<<n, "left">>] = mem[n].left /\ kids[<<n, "right">>] = mem[n].right
<1>1. /\ Nodes = 1 .. Len(mem) /\ Nodes \in SUBSET (Nat \ {0}) /\ Len(mem) \in Nat
      /\ Nodes \cup {NULL} = 0 .. Len(mem)
      /\ \A n \in Nodes : mem[n] \in Rec(0 .. Len(mem))
  BY DEF RegionOK, Nodes, NULL
<1>2. ASSUME NEW n \in Nodes
      PROVE  /\ mem[n].item \in Words /\ mem[n].depth \in Nat /\ mem[n].count \in Nat
             /\ \A s \in Sides : mem[n][s] \in 0 .. Len(mem)
  <2>1. mem[n] \in Rec(0 .. Len(mem))
    BY <1>1
  <2>2. QED
    BY <2>1 DEF Rec, Sides
<1>3. words \in [Nodes -> Words] /\ heights \in [Nodes -> Nat] /\ counts \in [Nodes -> Nat]
  BY <1>2 DEF words, heights, counts
<1>4. ASSUME NEW a \in From(Nodes)
      PROVE  (IF a = RootRef THEN root ELSE mem[a[1]][a[2]]) \in Nodes \cup {NULL}
  <2>1. CASE a = RootRef
    BY <2>1, <1>1 DEF RegionOK
  <2>2. CASE a # RootRef
    <3>1. a[1] \in Nodes /\ a[2] \in Sides
      BY <2>2, FromIs
    <3>2. QED
      BY <2>2, <3>1, <1>1, <1>2
  <2>3. QED
    BY <2>1, <2>2
<1>5. kids \in [From(Nodes) -> Nodes \cup {NULL}]
  BY <1>4 DEF kids
<1>6. kids[RootRef] = root
  BY FromIs DEF kids
<1>7. ASSUME NEW n \in Nodes, NEW s \in Sides PROVE kids[<<n, s>>] = mem[n][s]
  <2>1. <<n, s>> \in From(Nodes) /\ <<n, s>> # RootRef /\ <<n, s>>[1] = n /\ <<n, s>>[2] = s
    BY Refs
  <2>2. QED
    BY <2>1 DEF kids
<1>8. ASSUME NEW n \in Nodes
      PROVE  kids[<<n, "left">>] = mem[n].left /\ kids[<<n, "right">>] = mem[n].right
  <2>1. "left" \in Sides /\ "right" \in Sides
    BY DEF Sides
  <2>2. kids[<<n, "left">>] = mem[n]["left"] /\ kids[<<n, "right">>] = mem[n]["right"]
    BY <2>1, <1>7
  <2>3. QED
    BY <2>2
<1>9. \A n \in Nodes : words[n] = mem[n].item /\ heights[n] = mem[n].depth /\ counts[n] = mem[n].count
  BY DEF words, heights, counts
<1>10. QED
  BY <1>1, <1>3, <1>5, <1>6, <1>7, <1>8, <1>9

Viewed ==
  /\ kids \in [From(Nodes) -> Nodes \cup {NULL}] /\ kids[RootRef] = root
  /\ \A n \in Nodes : /\ words[n] = mem[n].item /\ heights[n] = mem[n].depth /\ counts[n] = mem[n].count
                      /\ \A s \in Sides : kids[<<n, s>>] = mem[n][s]

LEMMA ViewsHold == RegionOK => Viewed
  BY Views DEF Viewed

(* One node of the region changes: what is in the views then.                *)
LEMMA NodeStored ==
  ASSUME RegionOK, NEW n \in Nodes, NEW q \in Rec(0 .. Len(mem)), q.item = mem[n].item,
         mem' = [mem EXCEPT ![n] = q], root' = root
  PROVE  /\ RegionOK' /\ Nodes' = Nodes /\ Len(mem') = Len(mem) /\ words' = words
         /\ \A m \in Nodes : mem'[m] = IF m = n THEN q ELSE mem[m]
         /\ kids'[RootRef] = root
         /\ DOMAIN kids' = DOMAIN kids /\ DOMAIN heights' = DOMAIN heights /\ DOMAIN counts' = DOMAIN counts
         /\ \A m \in Nodes : /\ heights'[m] = mem'[m].depth /\ counts'[m] = mem'[m].count
                             /\ \A s \in Sides : kids'[<<m, s>>] = mem'[m][s]
<1>1. /\ Nodes = 1 .. Len(mem) /\ Len(mem) \in Nat
      /\ \A m \in Nodes : mem[m] \in Rec(0 .. Len(mem))
  BY Views
<1>2. Len(mem') = Len(mem) /\ mem' \in Seq(Rec(0 .. Len(mem)))
      /\ \A m \in Nodes : mem'[m] = IF m = n THEN q ELSE mem[m]
  BY <1>1 DEF RegionOK
<1>3. RegionOK' /\ Nodes' = Nodes
  BY <1>1, <1>2 DEF RegionOK, Nodes
<1>4. \A m \in Nodes : mem'[m].item = mem[m].item
  BY <1>2
<1>5. words' = words
  BY <1>3, <1>4 DEF words
<1>6. /\ kids'[RootRef] = root
      /\ DOMAIN kids' = DOMAIN kids /\ DOMAIN heights' = DOMAIN heights /\ DOMAIN counts' = DOMAIN counts
      /\ \A m \in Nodes : heights'[m] = mem'[m].depth /\ counts'[m] = mem'[m].count
  BY <1>3, FromIs DEF kids, heights, counts
<1>7. ASSUME NEW m \in Nodes, NEW s \in Sides PROVE kids'[<<m, s>>] = mem'[m][s]
  <2>1. <<m, s>> \in From(Nodes) /\ <<m, s>> # RootRef /\ <<m, s>>[1] = m /\ <<m, s>>[2] = s
    BY Refs
  <2>2. QED
    BY <2>1, <1>3 DEF kids
<1>8. QED
  BY <1>2, <1>3, <1>5, <1>6, <1>7

LEMMA LinkStored ==
  ASSUME RegionOK, NEW n \in Nodes, NEW s \in Sides, NEW v \in Nodes \cup {NULL},
         mem' = [mem EXCEPT ![n][s] = v], root' = root
  PROVE  /\ RegionOK' /\ Nodes' = Nodes /\ Len(mem') = Len(mem)
         /\ words' = words /\ heights' = heights /\ counts' = counts
         /\ kids' = [kids EXCEPT ![<<n, s>>] = v]
<1> DEFINE P == 0 .. Len(mem)
           q == [mem[n] EXCEPT ![s] = v]
<1>1. /\ v \in P /\ \A m \in Nodes : mem[m] \in Rec(P)
      /\ kids \in [From(Nodes) -> Nodes \cup {NULL}] /\ kids[RootRef] = root
      /\ \A m \in Nodes : /\ heights[m] = mem[m].depth /\ counts[m] = mem[m].count
                          /\ \A t \in Sides : kids[<<m, t>>] = mem[m][t]
  BY Views
<1>2. q \in Rec(P) /\ q.item = mem[n].item /\ q.depth = mem[n].depth /\ q.count = mem[n].count
      /\ \A t \in Sides : q[t] = IF s = t THEN v ELSE mem[n][t]
  <2>1. mem[n] \in Rec(P)
    BY <1>1
  <2>2. QED
    BY <1>1, <2>1 DEF Rec, Sides
<1>3. mem' = [mem EXCEPT ![n] = q]
  OBVIOUS
<1> HIDE DEF q, P
<1>4. /\ RegionOK' /\ Nodes' = Nodes /\ Len(mem') = Len(mem) /\ words' = words
      /\ \A m \in Nodes : mem'[m] = IF m = n THEN q ELSE mem[m]
      /\ kids'[RootRef] = root
      /\ DOMAIN kids' = DOMAIN kids /\ DOMAIN heights' = DOMAIN heights /\ DOMAIN counts' = DOMAIN counts
      /\ \A m \in Nodes : /\ heights'[m] = mem'[m].depth /\ counts'[m] = mem'[m].count
                          /\ \A t \in Sides : kids'[<<m, t>>] = mem'[m][t]
  BY <1>2, <1>3, NodeStored DEF P
<1>5. heights' = heights
  <2>1. \A m \in Nodes : heights'[m] = heights[m]
    BY <1>1, <1>2, <1>4
  <2>2. QED
    BY <2>1, <1>4 DEF heights
<1>6. counts' = counts
  <2>1. \A m \in Nodes : counts'[m] = counts[m]
    BY <1>1, <1>2, <1>4
  <2>2. QED
    BY <2>1, <1>4 DEF counts
<1>7. \A a \in From(Nodes) : kids'[a] = IF a = <<n, s>> THEN v ELSE kids[a]
  <2>1. ASSUME NEW a \in From(Nodes), a # RootRef
        PROVE  kids'[a] = IF a = <<n, s>> THEN v ELSE kids[a]
    <3>1. PICK m \in Nodes, t \in Sides : a = <<m, t>>
      BY <2>1, FromIs
    <3>2. kids'[a] = mem'[m][t] /\ kids[a] = mem[m][t]
      <4>1. kids'[<<m, t>>] = mem'[m][t]
        BY <1>4
      <4>2. kids[<<m, t>>] = mem[m][t]
        BY <1>1
      <4>3. QED
        BY <3>1, <4>1, <4>2
    <3>3. a = <<n, s>> <=> m = n /\ t = s
      BY <3>1, Refs
    <3>4. m # n => mem'[m][t] = mem[m][t]
      BY <1>4
    <3>5. m = n => mem'[m][t] = IF s = t THEN v ELSE mem[m][t]
      <4>1. m = n => mem'[m] = q
        BY <1>4
      <4>2. q[t] = IF s = t THEN v ELSE mem[n][t]
        BY <1>2
      <4>3. QED
        BY <4>1, <4>2
    <3>6. QED
      BY <3>2, <3>3, <3>4, <3>5
  <2>2. RootRef # <<n, s>>
    BY Refs
  <2>3. QED
    BY <2>1, <2>2, <1>1, <1>4
<1>8. kids' = [kids EXCEPT ![<<n, s>>] = v]
  <2> DEFINE L == [kids EXCEPT ![<<n, s>>] = v]
  <2>1. DOMAIN L = From(Nodes) /\ \A a \in From(Nodes) : L[a] = IF a = <<n, s>> THEN v ELSE kids[a]
    BY <1>1
  <2>2. DOMAIN kids' = From(Nodes) /\ kids' = [a \in DOMAIN kids' |-> kids'[a]]
    BY <1>1, <1>4 DEF kids
  <2>3. L = [a \in From(Nodes) |-> L[a]]
    BY <2>1
  <2> HIDE DEF L
  <2>4. kids' = L
    BY <2>1, <2>2, <2>3, <1>7
  <2>5. QED
    BY <2>4 DEF L
<1>9. QED
  BY <1>4, <1>5, <1>6, <1>8

(* The depth and the count of a node.                                        *)
LEMMA DepthStored ==
  ASSUME RegionOK, NEW n \in Nodes, NEW d \in Nat,
         mem' = [mem EXCEPT ![n].depth = d], root' = root
  PROVE  /\ RegionOK' /\ Nodes' = Nodes /\ Len(mem') = Len(mem)
         /\ words' = words /\ kids' = kids /\ counts' = counts
         /\ heights' = [heights EXCEPT ![n] = d]
<1> DEFINE P == 0 .. Len(mem)
           q == [mem[n] EXCEPT !.depth = d]
<1>1. /\ \A m \in Nodes : mem[m] \in Rec(P)
      /\ kids \in [From(Nodes) -> Nodes \cup {NULL}] /\ kids[RootRef] = root
      /\ heights \in [Nodes -> Nat]
      /\ \A m \in Nodes : /\ heights[m] = mem[m].depth /\ counts[m] = mem[m].count
                          /\ \A t \in Sides : kids[<<m, t>>] = mem[m][t]
  BY Views
<1>2. q \in Rec(P) /\ q.item = mem[n].item /\ q.depth = d /\ q.count = mem[n].count
      /\ \A t \in Sides : q[t] = mem[n][t]
  <2>1. mem[n] \in Rec(P)
    BY <1>1
  <2>2. QED
    BY <2>1 DEF Rec, Sides
<1>3. mem' = [mem EXCEPT ![n] = q]
  OBVIOUS
<1> HIDE DEF q, P
<1>4. /\ RegionOK' /\ Nodes' = Nodes /\ Len(mem') = Len(mem) /\ words' = words
      /\ \A m \in Nodes : mem'[m] = IF m = n THEN q ELSE mem[m]
      /\ kids'[RootRef] = root
      /\ DOMAIN kids' = DOMAIN kids /\ DOMAIN heights' = DOMAIN heights /\ DOMAIN counts' = DOMAIN counts
      /\ \A m \in Nodes : /\ heights'[m] = mem'[m].depth /\ counts'[m] = mem'[m].count
                          /\ \A t \in Sides : kids'[<<m, t>>] = mem'[m][t]
  BY <1>2, <1>3, NodeStored DEF P
<1>5. heights' = [heights EXCEPT ![n] = d]
  <2>1. \A m \in Nodes : heights'[m] = IF m = n THEN d ELSE heights[m]
    BY <1>1, <1>2, <1>4
  <2>2. heights' = [m \in Nodes |-> heights'[m]]
    BY <1>4 DEF heights
  <2>3. QED
    BY <2>1, <2>2, <1>1
<1>6. counts' = counts
  <2>1. \A m \in Nodes : counts'[m] = counts[m]
    BY <1>1, <1>2, <1>4
  <2>2. QED
    BY <2>1, <1>4 DEF counts
<1>7. kids' = kids
  <2>1. \A m \in Nodes : \A t \in Sides : mem'[m][t] = mem[m][t]
    BY <1>2, <1>4
  <2>2. \A a \in From(Nodes) : kids'[a] = kids[a]
    <3>1. ASSUME NEW a \in From(Nodes), a # RootRef PROVE kids'[a] = kids[a]
      <4>1. PICK m \in Nodes, t \in Sides : a = <<m, t>>
        BY <3>1, FromIs
      <4>2. kids'[<<m, t>>] = mem'[m][t]
        BY <1>4
      <4>3. kids[<<m, t>>] = mem[m][t]
        BY <1>1
      <4>4. QED
        BY <4>1, <4>2, <4>3, <2>1
    <3>2. QED
      BY <3>1, <1>1, <1>4
  <2>3. QED
    BY <2>2, <1>1, <1>4 DEF kids
<1>8. QED
  BY <1>4, <1>5, <1>6, <1>7

LEMMA CountStored ==
  ASSUME RegionOK, NEW n \in Nodes,
         mem' = [mem EXCEPT ![n].count = @ + 1], root' = root
  PROVE  /\ RegionOK' /\ Nodes' = Nodes /\ Len(mem') = Len(mem)
         /\ words' = words /\ kids' = kids /\ heights' = heights
         /\ counts' = [counts EXCEPT ![n] = @ + 1]
<1> DEFINE P == 0 .. Len(mem)
           d == mem[n].count + 1
           q == [mem[n] EXCEPT !.count = d]
<1>1. /\ \A m \in Nodes : mem[m] \in Rec(P)
      /\ kids \in [From(Nodes) -> Nodes \cup {NULL}] /\ kids[RootRef] = root
      /\ counts \in [Nodes -> Nat]
      /\ \A m \in Nodes : /\ heights[m] = mem[m].depth /\ counts[m] = mem[m].count
                          /\ \A t \in Sides : kids[<<m, t>>] = mem[m][t]
  BY Views
<1>2. d \in Nat /\ d = counts[n] + 1
  BY <1>1
<1>3. mem' = [mem EXCEPT ![n] = q]
  OBVIOUS
<1> HIDE DEF d
<1>4. q \in Rec(P) /\ q.item = mem[n].item /\ q.count = d /\ q.depth = mem[n].depth
      /\ \A t \in Sides : q[t] = mem[n][t]
  <2>1. mem[n] \in Rec(P)
    BY <1>1
  <2>2. QED
    BY <2>1, <1>2 DEF Rec, Sides
<1> HIDE DEF q, P
<1>5. /\ RegionOK' /\ Nodes' = Nodes /\ Len(mem') = Len(mem) /\ words' = words
      /\ \A m \in Nodes : mem'[m] = IF m = n THEN q ELSE mem[m]
      /\ kids'[RootRef] = root
      /\ DOMAIN kids' = DOMAIN kids /\ DOMAIN heights' = DOMAIN heights /\ DOMAIN counts' = DOMAIN counts
      /\ \A m \in Nodes : /\ heights'[m] = mem'[m].depth /\ counts'[m] = mem'[m].count
                          /\ \A t \in Sides : kids'[<<m, t>>] = mem'[m][t]
  BY <1>3, <1>4, NodeStored DEF P
<1>6. counts' = [counts EXCEPT ![n] = @ + 1]
  <2>1. \A m \in Nodes : counts'[m] = IF m = n THEN d ELSE counts[m]
    <3>1. \A m \in Nodes : counts'[m] = mem'[m].count /\ counts[m] = mem[m].count
      BY <1>1, <1>5
    <3>2. \A m \in Nodes : (m = n => mem'[m].count = q.count) /\ (m # n => mem'[m].count = mem[m].count)
      BY <1>5
    <3>3. QED
      BY <3>1, <3>2, <1>4
  <2>2. counts' = [m \in Nodes |-> counts'[m]]
    BY <1>5 DEF counts
  <2>3. QED
    BY <2>1, <2>2, <1>1, <1>2
<1>7. heights' = heights
  <2>1. \A m \in Nodes : heights'[m] = heights[m]
    BY <1>1, <1>4, <1>5
  <2>2. QED
    BY <2>1, <1>5 DEF heights
<1>8. kids' = kids
  <2>1. \A m \in Nodes : \A t \in Sides : mem'[m][t] = mem[m][t]
    BY <1>4, <1>5
  <2>2. \A a \in From(Nodes) : kids'[a] = kids[a]
    <3>1. ASSUME NEW a \in From(Nodes), a # RootRef PROVE kids'[a] = kids[a]
      <4>1. PICK m \in Nodes, t \in Sides : a = <<m, t>>
        BY <3>1, FromIs
      <4>2. kids'[<<m, t>>] = mem'[m][t]
        BY <1>5
      <4>3. kids[<<m, t>>] = mem[m][t]
        BY <1>1
      <4>4. QED
        BY <4>1, <4>2, <4>3, <2>1
    <3>2. QED
      BY <3>1, <1>1, <1>5
  <2>3. QED
    BY <2>2, <1>1, <1>5 DEF kids
<1>9. QED
  BY <1>5, <1>6, <1>7, <1>8

LEMMA RootStored ==
  ASSUME RegionOK, NEW v \in Nodes \cup {NULL}, mem' = mem, root' = v
  PROVE  /\ RegionOK' /\ Nodes' = Nodes
         /\ words' = words /\ heights' = heights /\ counts' = counts
         /\ kids' = [kids EXCEPT ![RootRef] = v]
<1>1. Nodes \cup {NULL} = 0 .. Len(mem)
  BY Views
<1>2. RegionOK' /\ Nodes' = Nodes
  BY <1>1 DEF RegionOK, Nodes
<1>3. words' = words /\ heights' = heights /\ counts' = counts
  BY <1>2 DEF words, heights, counts
<1>4. kids' = [kids EXCEPT ![RootRef] = v]
  BY <1>2 DEF kids
<1>5. QED
  BY <1>2, <1>3, <1>4

LEMMA NodeAdded ==
  ASSUME RegionOK, NEW i \in Words, root' = root,
         mem' = Append(mem, [item |-> i, count |-> 0, depth |-> 0, left |-> NULL, right |-> NULL])
  PROVE  LET v == Len(mem')
         IN /\ RegionOK' /\ v \in Nat \ {0} /\ v \notin Nodes /\ Nodes' = Nodes \cup {v}
            /\ words'[v] = i /\ heights'[v] = 0 /\ counts'[v] = 0
            /\ \A s \in Sides : kids'[<<v, s>>] = NULL
            /\ \A n \in Nodes : words'[n] = words[n] /\ heights'[n] = heights[n] /\ counts'[n] = counts[n]
            /\ \A a \in From(Nodes) : kids'[a] = kids[a]
<1> DEFINE v == Len(mem) + 1
           q == [item |-> i, count |-> 0, depth |-> 0, left |-> NULL, right |-> NULL]
<1>1. /\ Nodes = 1 .. Len(mem) /\ Len(mem) \in Nat /\ mem \in Seq(Rec(0 .. Len(mem)))
      /\ \A n \in Nodes : mem[n] \in Rec(0 .. Len(mem))
      /\ kids[RootRef] = root
      /\ \A n \in Nodes : /\ words[n] = mem[n].item /\ heights[n] = mem[n].depth /\ counts[n] = mem[n].count
                          /\ \A s \in Sides : kids[<<n, s>>] = mem[n][s]
  BY Views DEF RegionOK
<1>2. q \in Rec(0 .. v) /\ q.item = i /\ q.count = 0 /\ q.depth = 0 /\ \A s \in Sides : q[s] = NULL
  BY <1>1 DEF Rec, Sides, NULL
<1>3. \A n \in Nodes : mem[n] \in Rec(0 .. v)
  <2>1. 0 .. Len(mem) \subseteq 0 .. v
    BY <1>1
  <2>2. QED
    BY <1>1, <2>1 DEF Rec
<1> HIDE DEF q
<1>4. Len(mem') = v /\ mem'[v] = q /\ \A n \in Nodes : mem'[n] = mem[n]
  BY <1>1 DEF q
<1>5. mem' \in Seq(Rec(0 .. v))
  <2>1. mem \in Seq(Rec(0 .. v))
    BY <1>1, <1>3
  <2>2. QED
    BY <2>1, <1>2 DEF q
<1>6. RegionOK' /\ Nodes' = Nodes \cup {v} /\ v \in Nat \ {0} /\ v \notin Nodes
  <2>1. Nodes' = 1 .. v
    BY <1>4, <1>5 DEF Nodes
  <2>2. RegionOK'
    BY <1>1, <1>4, <1>5 DEF RegionOK
  <2>3. QED
    BY <1>1, <2>1, <2>2
<1>7. /\ kids'[RootRef] = root
      /\ \A n \in Nodes' : /\ words'[n] = mem'[n].item /\ heights'[n] = mem'[n].depth /\ counts'[n] = mem'[n].count
                           /\ \A s \in Sides : kids'[<<n, s>>] = mem'[n][s]
  <2>1. (RegionOK => Viewed)'
    BY ViewsHold, PTL
  <2>2. QED
    BY <1>6, <2>1 DEF Viewed
<1> HIDE DEF v
<1>8. \A a \in From(Nodes) : kids'[a] = kids[a]
  <2>1. ASSUME NEW a \in From(Nodes), a # RootRef PROVE kids'[a] = kids[a]
    <3>1. PICK m \in Nodes, t \in Sides : a = <<m, t>>
      BY <2>1, FromIs
    <3>2. kids'[<<m, t>>] = mem'[m][t]
      BY <1>6, <1>7
    <3>3. kids[<<m, t>>] = mem[m][t]
      BY <1>1
    <3>4. QED
      BY <3>1, <3>2, <3>3, <1>4
  <2>2. QED
    BY <2>1, <1>1, <1>7
<1>9. words'[v] = i /\ heights'[v] = 0 /\ counts'[v] = 0
  BY <1>2, <1>4, <1>6, <1>7
<1>10. \A s \in Sides : kids'[<<v, s>>] = NULL
  BY <1>2, <1>4, <1>6, <1>7
<1>11. \A n \in Nodes : words'[n] = words[n] /\ heights'[n] = heights[n] /\ counts'[n] = counts[n]
  BY <1>1, <1>4, <1>6, <1>7
<1>12. QED
  BY <1>4, <1>6, <1>8, <1>9, <1>10, <1>11

-----------------------------------------------------------------------------
(***************************************************************************)
(* Heights: D is what the nodes hold as their depths.                      *)
(***************************************************************************)
Deep(D, v) == IF v = NULL THEN -1 ELSE D[v]
Higher(a, b) == IF a < b THEN b ELSE a
Due(K, D, n) == 1 + Higher(Deep(D, K[<<n, "left">>]), Deep(D, K[<<n, "right">>]))
Level(K, D, n) == Deep(D, K[<<n, "left">>]) - Deep(D, K[<<n, "right">>]) \in -1 .. 1
Settled(K, D, n) == D[n] = Due(K, D, n) /\ Level(K, D, n)

Sized(N, K, D) ==
  N \in SUBSET (Nat \ {0}) /\ K \in [From(N) -> N \cup {NULL}] /\ D \in [N -> Nat]

LEMMA DeepIs ==
  ASSUME NEW N, NEW K, NEW D, Sized(N, K, D), NEW v \in N \cup {NULL}
  PROVE  /\ Deep(D, v) \in Int /\ Deep(D, v) >= -1
         /\ (Deep(D, v) = -1 <=> v = NULL) /\ (v # NULL => v \in N /\ Deep(D, v) = D[v])
<1>1. v # NULL => v \in N /\ D[v] \in Nat
  BY DEF Sized
<1>2. QED
  BY <1>1 DEF Deep

LEMMA DueIs ==
  ASSUME NEW N, NEW K, NEW D, Sized(N, K, D), NEW n \in N, NEW s \in Sides
  PROVE  LET a == Deep(D, K[<<n, s>>])
             b == Deep(D, K[<<n, Other(s)>>])
         IN /\ a \in Int /\ b \in Int /\ a >= -1 /\ b >= -1
            /\ K[<<n, s>>] \in N \cup {NULL} /\ K[<<n, Other(s)>>] \in N \cup {NULL}
            /\ Due(K, D, n) = 1 + Higher(a, b) /\ Due(K, D, n) \in Nat
            /\ Level(K, D, n) <=> a - b \in -1 .. 1
<1> DEFINE a == Deep(D, K[<<n, s>>])
           b == Deep(D, K[<<n, Other(s)>>])
<1>1. Other(s) \in Sides
  BY OtherSide
<1>2. K[<<n, s>>] \in N \cup {NULL} /\ K[<<n, Other(s)>>] \in N \cup {NULL}
  BY <1>1, Refs DEF Sized
<1>3. a \in Int /\ b \in Int /\ a >= -1 /\ b >= -1
  BY <1>2, DeepIs
<1>4. \/ a = Deep(D, K[<<n, "left">>]) /\ b = Deep(D, K[<<n, "right">>])
      \/ b = Deep(D, K[<<n, "left">>]) /\ a = Deep(D, K[<<n, "right">>])
  BY DEF Sides, Other
<1> HIDE DEF a, b
<1>5. Due(K, D, n) = 1 + Higher(a, b) /\ (Level(K, D, n) <=> a - b \in -1 .. 1)
  BY <1>3, <1>4 DEF Due, Level, Higher
<1>6. Due(K, D, n) \in Nat
  BY <1>3, <1>5 DEF Higher
<1>7. QED
  BY <1>2, <1>3, <1>5, <1>6 DEF a, b

(* What the code reads: delta, balance and depth of a node.                  *)
LEMMA Reads ==
  ASSUME RegionOK, NEW n \in Nodes
  PROVE  /\ depth(n) = Due(kids, heights, n) /\ depth(n) \in Nat
         /\ Leans(n) <=> ~Level(kids, heights, n)
<1>1. Sized(Nodes, kids, heights)
  BY Views DEF Sized
<1>2. mem[n].left = kids[<<n, "left">>] /\ mem[n].right = kids[<<n, "right">>]
  BY Views
<1>3. \A v \in Nodes \cup {NULL} : delta(v) = Deep(heights, v)
  BY Views DEF delta, Deep
<1>4. "left" \in Sides /\ Other("left") = "right"
  BY DEF Sides, Other
<1> DEFINE a == Deep(heights, kids[<<n, "left">>])
           b == Deep(heights, kids[<<n, "right">>])
<1>5. a \in Int /\ b \in Int /\ Due(kids, heights, n) \in Nat
      /\ delta(mem[n].left) = a /\ delta(mem[n].right) = b
  BY <1>1, <1>2, <1>3, <1>4, DueIs
<1> HIDE DEF a, b
<1>6. Max({a, b}) = Higher(a, b)
  BY <1>5 DEF Max, Higher
<1>7. depth(n) = Due(kids, heights, n)
  BY <1>5, <1>6 DEF depth, Due, Higher, a, b
<1>8. Leans(n) <=> ~Level(kids, heights, n)
  BY <1>5 DEF Leans, balance, Level, a, b
<1>9. QED
  BY <1>5, <1>7, <1>8

(* Every node but those of U has its height, and does not lean.              *)
Rest(N, K, D, U) == \A n \in N \ U : Settled(K, D, n)

(* The node of z has the height that goes with e below z.                    *)
Awaits(K, D, z, e) ==
  z # RootRef => LET b == Deep(D, K[<<z[1], Other(z[2])>>])
                 IN D[z[1]] = 1 + Higher(e, b) /\ e - b \in -1 .. 1

(* A height h of c that is new comes from the side on which i belongs.       *)
Grown(K, I, D, i, c, h) ==
  h = 0 \/ \E s \in Sides : /\ On(i, I[c], s)
                            /\ Deep(D, K[<<c, s>>]) = h - 1
                            /\ Deep(D, K[<<c, Other(s)>>]) = h - 2

(* v is below z where there was a subtree of height e before the insertion.  *)
Arrived(K, I, D, i, v, e) ==
  IF v = NULL THEN e = -1 ELSE D[v] = e \/ (D[v] = e + 1 /\ Grown(K, I, D, i, v, D[v]))

(* v will be.                                                                *)
Coming(N, K, I, D, i, z, v, e) ==
  /\ Awaits(K, D, z, e) /\ Rest(N, K, D, {z[1], v})
  /\ IF v = NULL THEN e = -1
     ELSE Level(K, D, v) /\ (Due(K, D, v) = e \/ (Due(K, D, v) = e + 1 /\ Grown(K, I, D, i, v, Due(K, D, v))))

(* The heights at a rotation that lifts r above n.                           *)
TurnDue(N, K, D, z, n, s, r, d) ==
  /\ Awaits(K, D, z, d + 2) /\ Rest(N, K, D, {z[1], n, r})
  /\ Deep(D, K[<<n, Other(s)>>]) = d
  /\ Deep(D, K[<<r, s>>]) = d + 1 /\ Deep(D, K[<<r, Other(s)>>]) \in {d - 1, d}

(* The same when r is below n again, and n does not have its depth yet.      *)
TurnedDue(N, K, D, z, n, s, r, d) ==
  /\ Awaits(K, D, z, d + 2) /\ Rest(N, K, D, {z[1], n, r}) /\ K[<<r, Other(s)>>] = n
  /\ Deep(D, K[<<n, Other(s)>>]) = d
  /\ Deep(D, K[<<r, s>>]) = d + 1 /\ Deep(D, K[<<n, s>>]) \in {d - 1, d}

(* The heights at a double rotation that lifts x above c and above n.        *)
TwiceDue(N, K, D, z, n, s, c, x, d) ==
  /\ Awaits(K, D, z, d + 2) /\ Rest(N, K, D, {z[1], n, c, x})
  /\ Deep(D, K[<<n, Other(s)>>]) = d /\ Deep(D, K[<<c, s>>]) = d
  /\ Deep(D, K[<<x, s>>]) \in {d - 1, d} /\ Deep(D, K[<<x, Other(s)>>]) \in {d - 1, d}

LEMMA SettledKept ==
  ASSUME NEW N, NEW K, NEW D, Sized(N, K, D), NEW L, NEW E, Sized(N, L, E), NEW n \in N,
         E[n] = D[n], \A s \in Sides : Deep(E, L[<<n, s>>]) = Deep(D, K[<<n, s>>])
  PROVE  /\ Settled(L, E, n) <=> Settled(K, D, n)
         /\ Due(L, E, n) = Due(K, D, n)
         /\ Level(L, E, n) <=> Level(K, D, n)
<1>1. "left" \in Sides /\ "right" \in Sides
  BY DEF Sides
<1>2. QED
  BY <1>1 DEF Settled, Due, Level

LEMMA RestAwaits ==
  ASSUME NEW N, NEW K, NEW D, Sized(N, K, D), NEW z \in From(N), NEW U, z[1] \notin U, Rest(N, K, D, U)
  PROVE  Awaits(K, D, z, Deep(D, K[z])) /\ Deep(D, K[z]) \in Int
<1>1. K[z] \in N \cup {NULL} /\ Deep(D, K[z]) \in Int
  BY DeepIs DEF Sized
<1>2. ASSUME z # RootRef PROVE Awaits(K, D, z, Deep(D, K[z]))
  <2>1. z = <<z[1], z[2]>> /\ z[1] \in N /\ z[2] \in Sides
    BY <1>2, FromIs
  <2>2. Settled(K, D, z[1])
    BY <2>1 DEF Rest
  <2>3. K[z] = K[<<z[1], z[2]>>]
    BY <2>1
  <2>4. QED
    BY <2>1, <2>2, <2>3, DueIs DEF Settled, Awaits
<1>3. QED
  BY <1>1, <1>2 DEF Awaits

(* The place of z is taken.                                                  *)
MayArrive(N, K, I, D, i, z, v, e) ==
  /\ Sized(N, K, D) /\ z \in From(N) /\ v \in N \cup {NULL} /\ e \in Int
  /\ Coming(N, K, I, D, i, z, v, e)
  /\ v # NULL => D[v] = Due(K, D, v) /\ v # z[1]

HasArrived(N, L, I, D, i, z, v, e) ==
  /\ Sized(N, L, D)
  /\ Rest(N, L, D, {z[1]}) /\ Awaits(L, D, z, e) /\ Arrived(L, I, D, i, v, e) /\ L[z] = v

LEMMA Arrives ==
  ASSUME NEW N, NEW K, NEW I, NEW D, NEW i, NEW z, NEW v, NEW e, MayArrive(N, K, I, D, i, z, v, e),
         NEW L, L = [K EXCEPT ![z] = v]
  PROVE  HasArrived(N, L, I, D, i, z, v, e)
<1> USE DEF MayArrive, HasArrived
<1>1. Sized(N, L, D)
  BY DEF Sized
<1>2. \A n \in N, s \in Sides : n # z[1] => L[<<n, s>>] = K[<<n, s>>]
  <2>1. ASSUME NEW n \in N, NEW s \in Sides, n # z[1] PROVE L[<<n, s>>] = K[<<n, s>>]
    <3>1. <<n, s>> \in From(N) /\ <<n, s>> # z
      BY <2>1, Refs
    <3>2. QED
      BY <3>1 DEF Sized
  <2>2. QED
    BY <2>1
<1>3. ASSUME NEW n \in N, n # z[1] PROVE Settled(L, D, n) <=> Settled(K, D, n)
  <2>1. ASSUME NEW s \in Sides PROVE Deep(D, L[<<n, s>>]) = Deep(D, K[<<n, s>>])
    <3>1. L[<<n, s>>] = K[<<n, s>>]
      BY <1>2, <1>3
    <3>2. QED
      BY <3>1
  <2>2. QED
    BY <1>1, <2>1, SettledKept, ZenonT(60)
<1>4. Rest(N, L, D, {z[1]})
  <2>1. ASSUME NEW n \in N, n # z[1] PROVE Settled(K, D, n)
    <3>1. CASE n = v
      <4>1. v # NULL
        BY <3>1 DEF Sized, NULL
      <4>2. QED
        BY <3>1, <4>1 DEF Coming, Settled
    <3>2. CASE n # v
      BY <2>1, <3>2 DEF Coming, Rest
    <3>3. QED
      BY <3>1, <3>2
  <2>2. QED
    BY <2>1, <1>3 DEF Rest
<1>5. Awaits(L, D, z, e)
  <2>1. ASSUME z # RootRef PROVE L[<<z[1], Other(z[2])>>] = K[<<z[1], Other(z[2])>>]
    <3>1. z = <<z[1], z[2]>> /\ z[1] \in N /\ z[2] \in Sides
      BY <2>1, FromIs
    <3>2. <<z[1], Other(z[2])>> # z /\ <<z[1], Other(z[2])>> \in From(N)
      BY <3>1, OtherSide, Refs
    <3>3. QED
      BY <3>2 DEF Sized
  <2>2. QED
    BY <2>1 DEF Coming, Awaits
<1>6. v # NULL => (Grown(L, I, D, i, v, D[v]) <=> Grown(K, I, D, i, v, D[v]))
  BY <1>2, OtherSide DEF Grown
<1>7. Arrived(L, I, D, i, v, e)
  BY <1>6 DEF Coming, Arrived
<1>8. L[z] = v
  BY DEF Sized
<1>9. QED
  BY <1>1, <1>4, <1>5, <1>7, <1>8

(* A node that does not lean, and one that does, after an arrival below.     *)
LEMMA Stands ==
  ASSUME NEW N, NEW K, NEW D, Sized(N, K, D), NEW I, NEW i, NEW n \in N, NEW s \in Sides, NEW e \in Int,
         Awaits(K, D, <<n, s>>, e), Arrived(K, I, D, i, K[<<n, s>>], e), On(i, I[n], s), Level(K, D, n)
  PROVE  Due(K, D, n) = D[n] \/ (Due(K, D, n) = D[n] + 1 /\ Grown(K, I, D, i, n, Due(K, D, n)))
<1> DEFINE a == Deep(D, K[<<n, s>>])
           b == Deep(D, K[<<n, Other(s)>>])
<1>1. /\ a \in Int /\ b \in Int /\ a >= -1 /\ b >= -1
      /\ K[<<n, s>>] \in N \cup {NULL} /\ Due(K, D, n) = 1 + Higher(a, b) /\ a - b \in -1 .. 1
  BY DueIs
<1>2. D[n] = 1 + Higher(e, b) /\ e - b \in -1 .. 1
  BY Refs DEF Awaits
<1>3. a = e \/ a = e + 1
  BY <1>1, DeepIs DEF Arrived, Deep
<1> HIDE DEF a, b
<1>4. Due(K, D, n) = D[n] \/ (Due(K, D, n) = D[n] + 1 /\ a = Due(K, D, n) - 1 /\ b = Due(K, D, n) - 2)
  BY <1>1, <1>2, <1>3 DEF Higher
<1>5. QED
  BY <1>4 DEF Grown, a, b

(* The inner child x of c has been lifted above c, which has no depth yet.   *)
TwicedDue(N, K, D, z, n, s, c, x, d) ==
  /\ Awaits(K, D, z, d + 2) /\ Rest(N, K, D, {z[1], n, c, x}) /\ K[<<x, s>>] = c
  /\ Deep(D, K[<<n, Other(s)>>]) = d /\ Deep(D, K[<<c, s>>]) = d
  /\ Deep(D, K[<<c, Other(s)>>]) \in {d - 1, d} /\ Deep(D, K[<<x, Other(s)>>]) \in {d - 1, d}

(* A store to a reference of a node that is not settled anyway.              *)
MayLink(N, K, D, z, e, U, n, s, v) ==
  /\ Sized(N, K, D) /\ n \in N /\ s \in Sides /\ v \in N \cup {NULL}
  /\ n \in U /\ Rest(N, K, D, U)
  /\ z \in From(N) /\ z[1] # n /\ Awaits(K, D, z, e)

HasLink(N, K, D, z, e, U, n, s, v, L) ==
  /\ Sized(N, L, D) /\ Rest(N, L, D, U) /\ Awaits(L, D, z, e)
  /\ \A m \in N, t \in Sides : m # n \/ t # s => L[<<m, t>>] = K[<<m, t>>]
  /\ L[<<n, s>>] = v

LEMMA LinkKeeps ==
  ASSUME NEW N, NEW K, NEW D, NEW z, NEW e, NEW U, NEW n, NEW s, NEW v, MayLink(N, K, D, z, e, U, n, s, v),
         NEW L, L = [K EXCEPT ![<<n, s>>] = v]
  PROVE  HasLink(N, K, D, z, e, U, n, s, v, L)
<1> USE DEF MayLink
<1>1. Sized(N, L, D) /\ L[<<n, s>>] = v
  BY Refs DEF Sized
<1>2. \A m \in N, t \in Sides : m # n \/ t # s => L[<<m, t>>] = K[<<m, t>>]
  BY Refs DEF Sized
<1>3. ASSUME NEW m \in N \ U PROVE Settled(L, D, m)
  <2>1. m \in N /\ Settled(K, D, m) /\ m # n
    BY DEF Rest
  <2>2. \A t \in Sides : Deep(D, L[<<m, t>>]) = Deep(D, K[<<m, t>>])
    BY <1>2, <2>1
  <2>3. QED
    BY <1>1, <2>1, <2>2, SettledKept
<1>4. z # RootRef => L[<<z[1], Other(z[2])>>] = K[<<z[1], Other(z[2])>>]
  <2>1. ASSUME z # RootRef PROVE L[<<z[1], Other(z[2])>>] = K[<<z[1], Other(z[2])>>]
    <3>1. z[1] \in N /\ z[2] \in Sides
      BY <2>1, FromIs
    <3>2. QED
      BY <3>1, <1>2, OtherSide
  <2>2. QED
    BY <2>1
<1>5. Awaits(L, D, z, e)
  BY <1>4 DEF Awaits
<1>6. QED
  BY <1>1, <1>2, <1>3, <1>5 DEF Rest, HasLink

(* The depth of a node v that only z and nodes not settled lead to.          *)
MayDepth(N, K, D, z, e, U, v) ==
  /\ Sized(N, K, D) /\ v \in N
  /\ z \in From(N) /\ Awaits(K, D, z, e) /\ z[1] # v
  /\ z[1] \in U /\ Rest(N, K, D, U)
  /\ \A n \in N, s \in Sides : K[<<n, s>>] = v /\ <<n, s>> # z => n \in U /\ n # v /\ n # z[1]

HasDepth(N, K, D, z, e, U, v, E) ==
  /\ Sized(N, K, E) /\ Rest(N, K, E, U \cup {v}) /\ Awaits(K, E, z, e)
  /\ Due(K, E, v) = Due(K, D, v) /\ E[v] = Due(K, E, v)
  /\ Level(K, E, v) <=> Level(K, D, v)
  /\ \A u \in N \cup {NULL} : u # v => Deep(E, u) = Deep(D, u)

LEMMA DepthKeeps ==
  ASSUME NEW N, NEW K, NEW D, NEW z, NEW e, NEW U, NEW v, MayDepth(N, K, D, z, e, U, v),
         NEW E, E = [D EXCEPT ![v] = Due(K, D, v)]
  PROVE  HasDepth(N, K, D, z, e, U, v, E)
<1> USE DEF MayDepth
<1>1. Due(K, D, v) \in Nat
  <2>1. "left" \in Sides
    BY DEF Sides
  <2>2. QED
    BY <2>1, DueIs
<1>2. Sized(N, K, E) /\ E[v] = Due(K, D, v) /\ \A n \in N : n # v => E[n] = D[n]
  BY <1>1 DEF Sized
<1>3. \A u \in N \cup {NULL} : u # v => Deep(E, u) = Deep(D, u)
  BY <1>2 DEF Deep
<1>4. \A n \in N, s \in Sides : K[<<n, s>>] \in N \cup {NULL}
  BY Refs DEF Sized
<1>5. ASSUME NEW n \in N, n \notin U \/ n = v, NEW s \in Sides
      PROVE  Deep(E, K[<<n, s>>]) = Deep(D, K[<<n, s>>])
  <2>1. K[<<n, s>>] # v
    <3>1. <<n, s>> # z
      BY <1>5, Refs
    <3>2. QED
      BY <3>1, <1>5
  <2>2. QED
    BY <2>1, <1>3, <1>4
<1>6. ASSUME NEW n \in N, n \notin U \cup {v} PROVE Settled(K, E, n)
  <2>1. Settled(K, D, n) /\ E[n] = D[n]
    BY <1>6, <1>2 DEF Rest
  <2>2. QED
    BY <1>2, <1>5, <1>6, <2>1, SettledKept, ZenonT(60)
<1>7. Rest(N, K, E, U \cup {v})
  BY <1>6 DEF Rest
<1>8. Due(K, E, v) = Due(K, D, v) /\ (Level(K, E, v) <=> Level(K, D, v))
  <2>1. "left" \in Sides /\ "right" \in Sides
    BY DEF Sides
  <2>2. QED
    BY <1>5, <2>1 DEF Due, Level
<1>9. Awaits(K, E, z, e)
  <2>1. ASSUME z # RootRef
        PROVE  E[z[1]] = D[z[1]] /\ Deep(E, K[<<z[1], Other(z[2])>>]) = Deep(D, K[<<z[1], Other(z[2])>>])
    <3>1. z = <<z[1], z[2]>> /\ z[1] \in N /\ z[2] \in Sides
      BY <2>1, FromIs
    <3>2. Other(z[2]) \in Sides /\ <<z[1], Other(z[2])>> # z
      BY <3>1, OtherSide, Refs
    <3>3. K[<<z[1], Other(z[2])>>] # v
      BY <3>1, <3>2
    <3>4. QED
      BY <3>1, <3>2, <3>3, <1>2, <1>3, <1>4
  <2>2. QED
    BY <2>1 DEF Awaits
<1>10. QED
  BY <1>2, <1>3, <1>7, <1>8, <1>9 DEF HasDepth

(* After the second store n gets its depth, and r can have its own.          *)
MayTurned(N, K, D, z, n, s, r, d) ==
  /\ Sized(N, K, D) /\ z \in From(N) /\ n \in N /\ s \in Sides /\ r \in N /\ d \in Int
  /\ n # r /\ z[1] # n /\ z[1] # r
  /\ TurnedDue(N, K, D, z, n, s, r, d)
  /\ \A m \in N, t \in Sides : K[<<m, t>>] = n /\ <<m, t>> # z => m = r /\ t = Other(s)

LEMMA TurnedComes ==
  ASSUME NEW N, NEW K, NEW D, NEW z, NEW n, NEW s, NEW r, NEW d, MayTurned(N, K, D, z, n, s, r, d),
         NEW E, E = [D EXCEPT ![n] = Due(K, D, n)], NEW I, NEW i
  PROVE  Coming(N, K, I, E, i, z, r, d + 2)
<1> USE DEF MayTurned
<1>1. /\ Sized(N, K, E) /\ Rest(N, K, E, {z[1], n, r} \cup {n}) /\ Awaits(K, E, z, d + 2)
      /\ Due(K, E, n) = Due(K, D, n) /\ E[n] = Due(K, E, n)
      /\ Level(K, E, n) <=> Level(K, D, n)
      /\ \A u \in N \cup {NULL} : u # n => Deep(E, u) = Deep(D, u)
  <2>1. PICK U, e : U = {z[1], n, r} /\ e = d + 2
    OBVIOUS
  <2>2. Awaits(K, D, z, e) /\ Rest(N, K, D, U) /\ z[1] \in U
    BY <2>1 DEF TurnedDue
  <2>3. \A m \in N, t \in Sides : K[<<m, t>>] = n /\ <<m, t>> # z => m \in U /\ m # n /\ m # z[1]
    BY <2>1
  <2>4. /\ Sized(N, K, E) /\ Rest(N, K, E, U \cup {n}) /\ Awaits(K, E, z, e)
        /\ Due(K, E, n) = Due(K, D, n) /\ E[n] = Due(K, E, n)
        /\ Level(K, E, n) <=> Level(K, D, n)
        /\ \A u \in N \cup {NULL} : u # n => Deep(E, u) = Deep(D, u)
    <3>1. MayDepth(N, K, D, z, e, U, n)
      BY <2>2, <2>3 DEF MayDepth
    <3>2. HasDepth(N, K, D, z, e, U, n, E)
      BY <3>1, DepthKeeps
    <3>3. QED
      BY <3>2 DEF HasDepth
  <2>5. QED
    BY <2>1, <2>4
<1>2. Other(s) \in Sides /\ Other(s) # s /\ Other(Other(s)) = s
  BY OtherSide
<1>3. /\ Deep(D, K[<<n, Other(s)>>]) = d /\ Deep(D, K[<<n, s>>]) \in {d - 1, d}
      /\ Deep(D, K[<<r, s>>]) = d + 1 /\ K[<<r, Other(s)>>] = n
  BY DEF TurnedDue
<1>4. Due(K, D, n) = d + 1 /\ Level(K, D, n)
  <2>1. /\ Due(K, D, n) = 1 + Higher(Deep(D, K[<<n, s>>]), Deep(D, K[<<n, Other(s)>>]))
        /\ Level(K, D, n) <=> Deep(D, K[<<n, s>>]) - Deep(D, K[<<n, Other(s)>>]) \in -1 .. 1
    BY DueIs
  <2>2. QED
    BY <1>3, <2>1 DEF Higher
<1>5. Settled(K, E, n) /\ Deep(E, n) = d + 1
  <2>1. n # NULL
    BY DEF Sized, NULL
  <2>2. QED
    BY <1>1, <1>4, <2>1 DEF Settled, Deep
<1>6. Rest(N, K, E, {z[1], r})
  BY <1>1, <1>5 DEF Rest
<1>7. Deep(E, K[<<r, s>>]) = d + 1 /\ Deep(E, K[<<r, Other(s)>>]) = d + 1
  <2>1. K[<<r, s>>] # n
    <3>1. <<r, s>> # z
      BY Refs
    <3>2. QED
      BY <3>1, <1>2
  <2>2. K[<<r, s>>] \in N \cup {NULL}
    BY Refs DEF Sized
  <2>3. QED
    BY <2>1, <2>2, <1>1, <1>3, <1>5
<1>8. Due(K, E, r) = d + 2 /\ Level(K, E, r)
  <2>1. /\ Due(K, E, r) = 1 + Higher(Deep(E, K[<<r, s>>]), Deep(E, K[<<r, Other(s)>>]))
        /\ Level(K, E, r) <=> Deep(E, K[<<r, s>>]) - Deep(E, K[<<r, Other(s)>>]) \in -1 .. 1
    BY <1>1, DueIs
  <2>2. QED
    BY <1>7, <2>1 DEF Higher
<1>9. r # NULL
  BY DEF Sized, NULL
<1>10. QED
  BY <1>1, <1>6, <1>8, <1>9 DEF Coming

(* c gets its depth after the first half of a double rotation.               *)
MayTwiced(N, K, D, z, n, s, c, x, d) ==
  /\ Sized(N, K, D) /\ z \in From(N) /\ n \in N /\ s \in Sides /\ c \in N /\ x \in N /\ d \in Int
  /\ n # c /\ n # x /\ c # x /\ z[1] # n /\ z[1] # c /\ z[1] # x
  /\ TwicedDue(N, K, D, z, n, s, c, x, d)
  /\ \A m \in N, t \in Sides : K[<<m, t>>] = c => (m = n /\ t = s) \/ (m = x /\ t = s)

LEMMA TwicedTurns ==
  ASSUME NEW N, NEW K, NEW D, NEW z, NEW n, NEW s, NEW c, NEW x, NEW d, MayTwiced(N, K, D, z, n, s, c, x, d),
         NEW E, E = [D EXCEPT ![c] = Due(K, D, c)]
  PROVE  TurnDue(N, K, E, z, n, s, x, d)
<1> USE DEF MayTwiced
<1>1. /\ Sized(N, K, E) /\ Rest(N, K, E, {z[1], n, c, x} \cup {c}) /\ Awaits(K, E, z, d + 2)
      /\ Due(K, E, c) = Due(K, D, c) /\ E[c] = Due(K, E, c)
      /\ Level(K, E, c) <=> Level(K, D, c)
      /\ \A u \in N \cup {NULL} : u # c => Deep(E, u) = Deep(D, u)
  <2>1. PICK U, e : U = {z[1], n, c, x} /\ e = d + 2
    OBVIOUS
  <2>2. Awaits(K, D, z, e) /\ Rest(N, K, D, U) /\ z[1] \in U
    BY <2>1 DEF TwicedDue
  <2>3. \A m \in N, t \in Sides : K[<<m, t>>] = c /\ <<m, t>> # z => m \in U /\ m # c /\ m # z[1]
    BY <2>1
  <2>4. /\ Sized(N, K, E) /\ Rest(N, K, E, U \cup {c}) /\ Awaits(K, E, z, e)
        /\ Due(K, E, c) = Due(K, D, c) /\ E[c] = Due(K, E, c)
        /\ Level(K, E, c) <=> Level(K, D, c)
        /\ \A u \in N \cup {NULL} : u # c => Deep(E, u) = Deep(D, u)
    <3>1. MayDepth(N, K, D, z, e, U, c)
      BY <2>2, <2>3 DEF MayDepth
    <3>2. HasDepth(N, K, D, z, e, U, c, E)
      BY <3>1, DepthKeeps
    <3>3. QED
      BY <3>2 DEF HasDepth
  <2>5. QED
    BY <2>1, <2>4
<1>2. Other(s) \in Sides /\ Other(s) # s
  BY OtherSide
<1>3. /\ Deep(D, K[<<n, Other(s)>>]) = d /\ Deep(D, K[<<c, s>>]) = d
      /\ Deep(D, K[<<c, Other(s)>>]) \in {d - 1, d} /\ Deep(D, K[<<x, Other(s)>>]) \in {d - 1, d}
      /\ K[<<x, s>>] = c
  BY DEF TwicedDue
<1>4. Due(K, D, c) = d + 1 /\ Level(K, D, c)
  <2>1. /\ Due(K, D, c) = 1 + Higher(Deep(D, K[<<c, s>>]), Deep(D, K[<<c, Other(s)>>]))
        /\ Level(K, D, c) <=> Deep(D, K[<<c, s>>]) - Deep(D, K[<<c, Other(s)>>]) \in -1 .. 1
    BY DueIs
  <2>2. QED
    BY <1>3, <2>1 DEF Higher
<1>5. Settled(K, E, c) /\ Deep(E, c) = d + 1
  <2>1. c # NULL
    BY DEF Sized, NULL
  <2>2. QED
    BY <1>1, <1>4, <2>1 DEF Settled, Deep
<1>6. Rest(N, K, E, {z[1], n, x})
  BY <1>1, <1>5 DEF Rest
<1>7. /\ Deep(E, K[<<n, Other(s)>>]) = d /\ Deep(E, K[<<x, s>>]) = d + 1
      /\ Deep(E, K[<<x, Other(s)>>]) \in {d - 1, d}
  <2>1. K[<<n, Other(s)>>] # c /\ K[<<x, Other(s)>>] # c
    BY <1>2
  <2>2. K[<<n, Other(s)>>] \in N \cup {NULL} /\ K[<<x, Other(s)>>] \in N \cup {NULL}
    BY <1>2, Refs DEF Sized
  <2>3. QED
    BY <2>1, <2>2, <1>1, <1>3, <1>5
<1>8. QED
  BY <1>1, <1>6, <1>7 DEF TurnDue

(* What the links of a rotation do to the heights: nothing.                  *)
LEMMA TurnUnhooked ==
  ASSUME NEW N, NEW K, NEW D, Sized(N, K, D), NEW z \in From(N), NEW n \in N, NEW s \in Sides,
         NEW r \in N, n # r, z[1] # n, NEW v \in N \cup {NULL},
         NEW d \in Int, TurnDue(N, K, D, z, n, s, r, d),
         NEW L, L = [K EXCEPT ![<<n, s>>] = v]
  PROVE  Sized(N, L, D) /\ TurnDue(N, L, D, z, n, s, r, d)
<1>1. PICK U, e, t : U = {z[1], n, r} /\ e = d + 2 /\ t = s
  OBVIOUS
<1>2. Other(s) \in Sides /\ Other(s) # s /\ t \in Sides
  BY <1>1, OtherSide
<1>3. Awaits(K, D, z, e) /\ Rest(N, K, D, U)
  BY <1>1 DEF TurnDue
<1>4. L = [K EXCEPT ![<<n, t>>] = v] /\ n \in U
  BY <1>1
<1>5. /\ Sized(N, L, D) /\ Rest(N, L, D, U) /\ Awaits(L, D, z, e)
      /\ \A m \in N, u \in Sides : m # n \/ u # t => L[<<m, u>>] = K[<<m, u>>]
      /\ L[<<n, t>>] = v
  <2>1. MayLink(N, K, D, z, e, U, n, t, v)
    BY <1>2, <1>3, <1>4 DEF MayLink
  <2>2. HasLink(N, K, D, z, e, U, n, t, v, L)
    BY <1>4, <2>1, LinkKeeps
  <2>3. QED
    BY <2>2 DEF HasLink
<1>6. /\ L[<<n, Other(s)>>] = K[<<n, Other(s)>>] /\ L[<<r, s>>] = K[<<r, s>>]
      /\ L[<<r, Other(s)>>] = K[<<r, Other(s)>>]
  BY <1>1, <1>2, <1>5
<1>7. QED
  BY <1>1, <1>5, <1>6 DEF TurnDue

LEMMA TurnHooked ==
  ASSUME NEW N, NEW K, NEW D, Sized(N, K, D), NEW z \in From(N), NEW n \in N, NEW s \in Sides,
         NEW r \in N, n # r, z[1] # n, z[1] # r,
         NEW d \in Int, TurnDue(N, K, D, z, n, s, r, d), K[<<n, s>>] = K[<<r, Other(s)>>],
         NEW L, L = [K EXCEPT ![<<r, Other(s)>>] = n]
  PROVE  Sized(N, L, D) /\ TurnedDue(N, L, D, z, n, s, r, d)
<1>1. PICK U, e, t : U = {z[1], n, r} /\ e = d + 2 /\ t = Other(s)
  OBVIOUS
<1>2. Other(s) \in Sides /\ Other(s) # s /\ t \in Sides
  BY <1>1, OtherSide
<1>3. Awaits(K, D, z, e) /\ Rest(N, K, D, U)
  BY <1>1 DEF TurnDue
<1>4. L = [K EXCEPT ![<<r, t>>] = n] /\ r \in U
  BY <1>1
<1>5. /\ Sized(N, L, D) /\ Rest(N, L, D, U) /\ Awaits(L, D, z, e)
      /\ \A m \in N, u \in Sides : m # r \/ u # t => L[<<m, u>>] = K[<<m, u>>]
      /\ L[<<r, t>>] = n
  <2>1. MayLink(N, K, D, z, e, U, r, t, n)
    BY <1>2, <1>3, <1>4 DEF MayLink
  <2>2. HasLink(N, K, D, z, e, U, r, t, n, L)
    BY <1>4, <2>1, LinkKeeps
  <2>3. QED
    BY <2>2 DEF HasLink
<1>6. /\ L[<<n, Other(s)>>] = K[<<n, Other(s)>>] /\ L[<<r, s>>] = K[<<r, s>>]
      /\ L[<<n, s>>] = K[<<r, Other(s)>>] /\ L[<<r, Other(s)>>] = n
  BY <1>1, <1>2, <1>5
<1>7. QED
  BY <1>1, <1>5, <1>6 DEF TurnDue, TurnedDue

LEMMA TwiceUnhooked ==
  ASSUME NEW N, NEW K, NEW D, Sized(N, K, D), NEW z \in From(N), NEW n \in N, NEW s \in Sides,
         NEW c \in N, NEW x \in N, n # c, n # x, c # x, z[1] # c, NEW v \in N \cup {NULL},
         NEW d \in Int, TwiceDue(N, K, D, z, n, s, c, x, d),
         NEW L, L = [K EXCEPT ![<<c, Other(s)>>] = v]
  PROVE  Sized(N, L, D) /\ TwiceDue(N, L, D, z, n, s, c, x, d)
<1>1. PICK U, e, t : U = {z[1], n, c, x} /\ e = d + 2 /\ t = Other(s)
  OBVIOUS
<1>2. Other(s) \in Sides /\ Other(s) # s /\ t \in Sides
  BY <1>1, OtherSide
<1>3. Awaits(K, D, z, e) /\ Rest(N, K, D, U)
  BY <1>1 DEF TwiceDue
<1>4. L = [K EXCEPT ![<<c, t>>] = v] /\ c \in U
  BY <1>1
<1>5. /\ Sized(N, L, D) /\ Rest(N, L, D, U) /\ Awaits(L, D, z, e)
      /\ \A m \in N, u \in Sides : m # c \/ u # t => L[<<m, u>>] = K[<<m, u>>]
      /\ L[<<c, t>>] = v
  <2>1. MayLink(N, K, D, z, e, U, c, t, v)
    BY <1>2, <1>3, <1>4 DEF MayLink
  <2>2. HasLink(N, K, D, z, e, U, c, t, v, L)
    BY <1>4, <2>1, LinkKeeps
  <2>3. QED
    BY <2>2 DEF HasLink
<1>6. /\ L[<<n, Other(s)>>] = K[<<n, Other(s)>>] /\ L[<<c, s>>] = K[<<c, s>>]
      /\ L[<<x, s>>] = K[<<x, s>>] /\ L[<<x, Other(s)>>] = K[<<x, Other(s)>>]
  BY <1>1, <1>2, <1>5
<1>7. QED
  BY <1>1, <1>5, <1>6 DEF TwiceDue

LEMMA TwiceHooked ==
  ASSUME NEW N, NEW K, NEW D, Sized(N, K, D), NEW z \in From(N), NEW n \in N, NEW s \in Sides,
         NEW c \in N, NEW x \in N, n # c, n # x, c # x, z[1] # x,
         NEW d \in Int, TwiceDue(N, K, D, z, n, s, c, x, d), K[<<c, Other(s)>>] = K[<<x, s>>],
         NEW L, L = [K EXCEPT ![<<x, s>>] = c]
  PROVE  Sized(N, L, D) /\ TwicedDue(N, L, D, z, n, s, c, x, d)
<1>1. PICK U, e, t : U = {z[1], n, c, x} /\ e = d + 2 /\ t = s
  OBVIOUS
<1>2. Other(s) \in Sides /\ Other(s) # s /\ t \in Sides
  BY <1>1, OtherSide
<1>3. Awaits(K, D, z, e) /\ Rest(N, K, D, U)
  BY <1>1 DEF TwiceDue
<1>4. L = [K EXCEPT ![<<x, t>>] = c] /\ x \in U
  BY <1>1
<1>5. /\ Sized(N, L, D) /\ Rest(N, L, D, U) /\ Awaits(L, D, z, e)
      /\ \A m \in N, u \in Sides : m # x \/ u # t => L[<<m, u>>] = K[<<m, u>>]
      /\ L[<<x, t>>] = c
  <2>1. MayLink(N, K, D, z, e, U, x, t, c)
    BY <1>2, <1>3, <1>4 DEF MayLink
  <2>2. HasLink(N, K, D, z, e, U, x, t, c, L)
    BY <1>4, <2>1, LinkKeeps
  <2>3. QED
    BY <2>2 DEF HasLink
<1>6. /\ L[<<n, Other(s)>>] = K[<<n, Other(s)>>] /\ L[<<c, s>>] = K[<<c, s>>] /\ L[<<x, s>>] = c
      /\ L[<<c, Other(s)>>] = K[<<x, s>>] /\ L[<<x, Other(s)>>] = K[<<x, Other(s)>>]
  BY <1>1, <1>2, <1>5
<1>7. QED
  BY <1>1, <1>5, <1>6 DEF TwiceDue, TwicedDue

-----------------------------------------------------------------------------
(***************************************************************************)
(* The inductive invariant. S are the nodes that the process that died     *)
(* left in the tree, all of them as long as none did; in each phase of     *)
(* avl_insert S and some W are a tree but for the node that is being moved,*)
(* and the heights are those of the phase.                                 *)
(***************************************************************************)
trail == [k \in 0 .. Len(path) |-> IF k = 0 THEN RootRef ELSE <<path[k].node, path[k].side>>]
here == trail[Len(path)]

Types ==
  /\ RegionOK /\ items \in Nat /\ unique \in Nat
  /\ pc \in {"closed", "ready", "down", "check", "back", "fault"}
  /\ path \in Seq([node : Nodes, side : Sides])
  /\ cur \in Nodes \cup {NULL} /\ item \in Words \cup {NULL} /\ rc \in {0, -1, NoCall}
  /\ bag \in [Words -> Nat] /\ calls \in 0 .. MaxInserts /\ crashed \in BOOLEAN

Flow ==
  /\ pc # "back" => todo = <<>>
  /\ pc \in {"closed", "ready"} => path = <<>>
  /\ pc \in {"down", "check", "back"} => item \in Words

(* The word is in the bag before its node is, and before its count.          *)
Owed == pc = "down" \/ (todo # <<>> /\ Head(todo).op = "count")
Counted ==
  /\ \A n \in Nodes : /\ counts[n] <= bag[words[n]]
                      /\ words[n] = item /\ Owed => counts[n] < bag[item]
  /\ pc = "down" => bag[item] > 0
  /\ \A k \in DOMAIN todo : todo[k].op = "count" => k = 1 /\ words[todo[k].node] = item

Placed(S, W) == S \in SUBSET Nodes /\ Region(Nodes, kids, words, W)
Idle(S, W) == Placed(S, W) /\ Tree(kids, words, S, W, NoRef)
Stack(S, W) == Placed(S, W) /\ Frames(Len(path), trail, kids, words, S, W, item)
Whole(S) == S = Nodes /\ Rest(Nodes, kids, heights, {})

Going(S, W) ==
  /\ Idle(S, W) /\ Stack(S, W) /\ cur = kids[here]
  /\ crashed \/ Whole(S)

Checking(S, W) ==
  /\ path # <<>> /\ Idle(S, W) /\ Stack(S, W)
  /\ \/ crashed
     \/ /\ S = Nodes /\ Rest(Nodes, kids, heights, {here[1]})
        /\ \E e \in Int : /\ Awaits(kids, heights, here, e)
                          /\ Arrived(kids, words, heights, item, kids[here], e)

(* update() has its value, and stores what is not a pointer.                 *)
Plain == {SetDepth(n) : n \in Nodes} \cup {IncCount(n) : n \in Nodes} \cup {IncItems, IncUnique}

Comes ==
  /\ \E e \in Int : Coming(Nodes, kids, words, heights, item, here, cur, e)
  /\ \A k \in DOMAIN todo : todo[k].op = "depth" => todo[k] = SetDepth(cur)
  /\ (\A k \in DOMAIN todo : todo[k].op # "depth") => (cur = NULL \/ heights[cur] = Due(kids, heights, cur))

Turned ==
  \E n \in Nodes, s \in Sides, d \in Int :
    /\ cur # NULL /\ kids[here] = n /\ n # cur
    /\ todo = <<SetDepth(n), SetDepth(cur), SetDepth(cur)>>
    /\ TurnedDue(Nodes, kids, heights, here, n, s, cur, d)

Returning(S, W) ==
  /\ Stack(S, W) /\ Loose(kids, words, S, W, here, cur)
  /\ cur = NULL => kids[here] = NULL
  /\ todo \in Seq(Plain)
  /\ crashed \/ (S = Nodes /\ (Comes \/ Turned))

(* A rotation before its first and its second link.                          *)
Turn5(n, s, r, x) == <<Link(n, s, x), Link(r, Other(s), n), SetDepth(n), SetDepth(r), SetDepth(r)>>
Turn4(n, s, r) == <<Link(r, Other(s), n), SetDepth(n), SetDepth(r), SetDepth(r)>>

Turns(n, s) == \E d \in Int : TurnDue(Nodes, kids, heights, here, n, s, cur, d)

First(S, W, n, s) ==
  /\ Idle(S, W) /\ Stack(S, W) /\ n \in S /\ s \in Sides
  /\ kids[here] = n /\ kids[<<n, s>>] = cur /\ cur # NULL
  /\ todo = Turn5(n, s, cur, kids[<<cur, Other(s)>>])
  /\ crashed \/ (S = Nodes /\ Turns(n, s))

Second(S, W, n, s) ==
  /\ Stack(S, W) /\ s \in Sides /\ cur # NULL
  /\ Hanging(kids, words, S, W, n, s, cur) /\ kids[here] = n
  /\ todo = Turn4(n, s, cur)
  /\ crashed \/ (S \cup {cur} = Nodes /\ Turns(n, s))

(* A double rotation before its first two links, and before cur, which has   *)
(* c below it by then, is stored below n.                                    *)
Twice6(n, s, x, y) ==
  <<Link(n, s, x), Link(n, s, y), Link(x, Other(s), n), SetDepth(n), SetDepth(x), SetDepth(x)>>
Twice7(n, s, x, y) ==
  <<SetDepth(x), Link(n, s, x), Link(n, s, y), Link(x, Other(s), n), SetDepth(n), SetDepth(x), SetDepth(x)>>
Twice8(n, s, c, x, y) ==
  <<SetDepth(c), SetDepth(x), Link(n, s, x), Link(n, s, y), Link(x, Other(s), n),
    SetDepth(n), SetDepth(x), SetDepth(x)>>
Twice9(n, s, c, x, y) ==
  <<Link(x, s, c), SetDepth(c), SetDepth(x), Link(n, s, x), Link(n, s, y), Link(x, Other(s), n),
    SetDepth(n), SetDepth(x), SetDepth(x)>>
Twice10(n, s, c, x, b, y) ==
  <<Link(c, Other(s), b), Link(x, s, c), SetDepth(c), SetDepth(x), Link(n, s, x), Link(n, s, y),
    Link(x, Other(s), n), SetDepth(n), SetDepth(x), SetDepth(x)>>

Twists(n, s, c) == \E d \in Int : TwiceDue(Nodes, kids, heights, here, n, s, c, cur, d)
Twisted(n, s, c) == \E d \in Int : TwicedDue(Nodes, kids, heights, here, n, s, c, cur, d)

TwiceFirst(S, W, n, s, c) ==
  /\ Idle(S, W) /\ Stack(S, W) /\ n \in S /\ s \in Sides /\ c # NULL /\ cur # NULL
  /\ kids[here] = n /\ kids[<<n, s>>] = c /\ kids[<<c, Other(s)>>] = cur
  /\ todo = Twice10(n, s, c, cur, kids[<<cur, s>>], kids[<<cur, Other(s)>>])
  /\ crashed \/ (S = Nodes /\ Twists(n, s, c))

TwiceSecond(S, W, n, s, c) ==
  /\ Stack(S, W) /\ n \in S /\ s \in Sides /\ cur # NULL
  /\ kids[here] = n /\ kids[<<n, s>>] = c /\ Hanging(kids, words, S, W, c, Other(s), cur)
  /\ todo = Twice9(n, s, c, cur, kids[<<cur, Other(s)>>])
  /\ crashed \/ (S \cup {cur} = Nodes /\ Twists(n, s, c))

Lifted(S, W, n, s, c) ==
  /\ Stack(S, W) /\ n \in S /\ s \in Sides /\ cur # NULL /\ c # NULL /\ c # cur
  /\ kids[here] = n /\ kids[<<n, s>>] = c /\ kids[<<cur, s>>] = c
  /\ Loose(kids, words, S, W, <<n, s>>, cur)
  /\ \/ /\ todo = Twice8(n, s, c, cur, kids[<<cur, Other(s)>>])
        /\ crashed \/ (S = Nodes /\ Twisted(n, s, c))
     \/ /\ todo = Twice7(n, s, cur, kids[<<cur, Other(s)>>]) \/ todo = Twice6(n, s, cur, kids[<<cur, Other(s)>>])
        /\ crashed \/ (S = Nodes /\ Turns(n, s))

Shape(S, W) ==
  \/ pc \in {"closed", "ready"} /\ Idle(S, W) /\ (crashed \/ Whole(S))
  \/ pc = "fault" /\ crashed /\ Idle(S, W)
  \/ pc = "down" /\ Going(S, W)
  \/ pc = "check" /\ Checking(S, W)
  \/ pc = "back" /\ Returning(S, W)
  \/ pc = "back" /\ \E n, s : First(S, W, n, s) \/ Second(S, W, n, s)
  \/ pc = "back" /\ \E n, s, c : TwiceFirst(S, W, n, s, c) \/ TwiceSecond(S, W, n, s, c) \/ Lifted(S, W, n, s, c)

IInv == Types /\ Flow /\ Counted /\ \E S, W : Shape(S, W)

-----------------------------------------------------------------------------
LEMMA Same ==
  ASSUME RegionOK, mem' = mem, root' = root
  PROVE  /\ RegionOK' /\ Nodes' = Nodes /\ Len(mem') = Len(mem)
         /\ kids' = kids /\ words' = words /\ heights' = heights /\ counts' = counts
<1>1. RegionOK' /\ Nodes' = Nodes
  BY DEF RegionOK, Nodes
<1>2. QED
  BY <1>1 DEF kids, words, heights, counts

LEMMA TrailIs ==
  ASSUME path \in Seq([node : Nodes, side : Sides])
  PROVE  /\ Len(path) \in Nat /\ here = trail[Len(path)] /\ trail[0] = RootRef
         /\ \A k \in 1 .. Len(path) : /\ trail[k] = <<path[k].node, path[k].side>>
                                      /\ trail[k][1] = path[k].node /\ trail[k][2] = path[k].side
                                      /\ path[k].node \in Nodes /\ path[k].side \in Sides
         /\ path = <<>> <=> Len(path) = 0
         /\ path = <<>> => here = RootRef
         /\ path # <<>> => /\ Len(path) \in 1 .. Len(path) /\ here # RootRef
                           /\ here = <<path[Len(path)].node, path[Len(path)].side>>
                           /\ here[1] = path[Len(path)].node /\ here[2] = path[Len(path)].side
<1>1. Len(path) \in Nat /\ (path = <<>> <=> Len(path) = 0)
  OBVIOUS
<1>2. \A k \in 1 .. Len(path) : path[k].node \in Nodes /\ path[k].side \in Sides
  <2>1. ASSUME NEW k \in 1 .. Len(path) PROVE path[k].node \in Nodes /\ path[k].side \in Sides
    <3>1. PICK A : A = [node : Nodes, side : Sides]
      OBVIOUS
    <3>2. path \in Seq(A)
      BY <3>1
    <3>3. path[k] \in A
      BY <3>2, ElementOfSeq
    <3>4. QED
      BY <3>1, <3>3
  <2>2. QED
    BY <2>1
<1>3. trail[0] = RootRef /\ \A k \in 1 .. Len(path) : trail[k] = <<path[k].node, path[k].side>>
  BY <1>1 DEF trail
<1>4. path # <<>> => Len(path) \in 1 .. Len(path)
  BY <1>1
<1>5. \A k \in 1 .. Len(path) : trail[k] # RootRef
  <2>1. ASSUME NEW k \in 1 .. Len(path) PROVE trail[k] # RootRef
    <3>1. PICK n, s : n = path[k].node /\ s = path[k].side
      OBVIOUS
    <3>2. trail[k] = <<n, s>> /\ s \in Sides
      BY <1>2, <1>3, <3>1
    <3>3. QED
      BY <3>2, Refs
  <2>2. QED
    BY <2>1
<1>6. QED
  BY <1>1, <1>2, <1>3, <1>4, <1>5 DEF here

LEMMA SameTrail ==
  ASSUME path' = path PROVE trail' = trail /\ here' = here
  BY DEF trail, here

LEMMA TrailPushed ==
  ASSUME path \in Seq([node : Nodes, side : Sides]), NEW n, NEW s,
         path' = Append(path, [node |-> n, side |-> s])
  PROVE  /\ Len(path') = Len(path) + 1 /\ \A k \in 0 .. Len(path) : trail'[k] = trail[k]
         /\ trail'[Len(path) + 1] = <<n, s>> /\ here' = <<n, s>>
<1>1. /\ Len(path') = Len(path) + 1 /\ Len(path) \in Nat
      /\ \A k \in 1 .. Len(path) : path'[k] = path[k]
      /\ path'[Len(path) + 1] = [node |-> n, side |-> s]
  <2>1. PICK A, e : A = [node : Nodes, side : Sides] /\ e = [node |-> n, side |-> s]
    OBVIOUS
  <2>2. path \in Seq(A) /\ path' = Append(path, e)
    BY <2>1
  <2>3. /\ Len(path') = Len(path) + 1 /\ Len(path) \in Nat
        /\ \A k \in 1 .. Len(path) : path'[k] = path[k]
        /\ path'[Len(path) + 1] = e
    BY <2>2
  <2>4. QED
    BY <2>1, <2>3
<1>2. \A k \in 0 .. Len(path) : trail'[k] = trail[k]
  BY <1>1 DEF trail
<1>3. trail'[Len(path) + 1] = <<n, s>>
  BY <1>1 DEF trail
<1>4. QED
  BY <1>1, <1>2, <1>3 DEF here

LEMMA TrailPopped ==
  ASSUME path \in Seq([node : Nodes, side : Sides]), path # <<>>,
         path' = SubSeq(path, 1, Len(path) - 1)
  PROVE  /\ Len(path') \in Nat /\ Len(path) = Len(path') + 1
         /\ \A k \in 0 .. Len(path') : trail'[k] = trail[k]
         /\ path' \in Seq([node : Nodes, side : Sides])
<1>1. /\ Len(path') = Len(path) - 1 /\ Len(path) \in Nat \ {0}
      /\ \A k \in 1 .. Len(path') : path'[k] = path[k]
      /\ path' \in Seq([node : Nodes, side : Sides])
  <2>1. PICK A : A = [node : Nodes, side : Sides]
    OBVIOUS
  <2>2. path \in Seq(A)
    BY <2>1
  <2>3. PICK M \in Nat : Len(path) = M + 1
    <3>1. Len(path) \in Nat /\ Len(path) # 0
      BY <2>2
    <3>2. Len(path) - 1 \in Nat /\ Len(path) = (Len(path) - 1) + 1
      BY <3>1
    <3>3. QED
      BY <3>2
  <2>4. path' = SubSeq(path, 1, M)
    BY <2>3
  <2>5. Len(path') = M /\ path' \in Seq(A) /\ \A k \in 1 .. M : path'[k] = path[k]
    BY <2>2, <2>3, <2>4
  <2>6. QED
    BY <2>1, <2>3, <2>5
<1>2. ASSUME NEW k \in 0 .. Len(path') PROVE trail'[k] = trail[k]
  <2>1. k \in 0 .. Len(path) /\ (k # 0 => k \in 1 .. Len(path'))
    BY <1>1
  <2>2. QED
    BY <1>1, <2>1 DEF trail
<1>3. QED
  BY <1>1, <1>2

(* A node that is in the tree may be taken for a loose one.                  *)
LEMMA TakeOut ==
  ASSUME NEW N, NEW K, NEW I, NEW W, Region(N, K, I, W), NEW S \in SUBSET N,
         Tree(K, I, S, W, NoRef), NEW z \in From(S)
  PROVE  Loose(K, I, S, W, z, K[z])
<1>1. \A a \in From(S) : a # NoRef
  BY FromIs
<1>2. Tree(K, I, S, W, z)
  BY <1>1 DEF Tree
<1>3. z # RootRef => z \in S \X Sides
  BY FromIs
<1>4. QED
  BY <1>1, <1>2, <1>3 DEF Loose, Tree

(* A node whose word is on side s of n, where n is at z.                     *)
LEMMA Deeper ==
  ASSUME NEW N, NEW K, NEW I, NEW W, Region(N, K, I, W), NEW n \in N, NEW s \in Sides,
         NEW m \in N, I[m] \in Part(I, W, <<n, s>>), NEW z, z # RootRef => W[n] \subseteq Part(I, W, z)
  PROVE  m # n /\ (z # RootRef => I[m] \in Part(I, W, z))
  BY PartIs

MayBeneath(N, K, I, S, W, L, T, i, m) ==
  /\ Region(N, K, I, W) /\ S \in SUBSET N /\ L \in Nat /\ Frames(L, T, K, I, S, W, i)
  /\ m \in N /\ (T[L] # RootRef => I[m] \in Part(I, W, T[L]))

LEMMA Beneath ==
  ASSUME NEW N, NEW K, NEW I, NEW S, NEW W, NEW L, NEW T, NEW i, NEW m, MayBeneath(N, K, I, S, W, L, T, i, m)
  PROVE  \A k \in 0 .. L : T[k][1] # m
<1> USE DEF MayBeneath
<1>1. L # 0 => T[L] # RootRef
  BY FrameIs
<1>2. \A k \in 1 .. L : T[k][1] # m
  BY <1>1, NotInFrames
<1>3. T[0][1] # m
  <2>1. m # NULL
    BY DEF Region, NULL
  <2>2. QED
    BY <2>1, FromIs DEF Frames
<1>4. \A k \in 0 .. L : k = 0 \/ k \in 1 .. L
  OBVIOUS
<1>5. QED
  BY <1>2, <1>3, <1>4

(* The frames after a store to a node that is not in them.                   *)
MayPass(N, K, I, S, W, L, T, i, m, Q, V) ==
  /\ Region(N, K, I, W) /\ S \in SUBSET N /\ L \in Nat /\ Frames(L, T, K, I, S, W, i)
  /\ \A k \in 0 .. L : T[k][1] # m
  /\ \A k \in 1 .. L : T[k][1] \in Q /\ V[T[k][1]] = W[T[k][1]]

HasPassed(K, I, L, T, i, Q, V, R) == Frames(L, T, R, I, Q, V, i) /\ R[T[L]] = K[T[L]]

LEMMA FramesPass ==
  ASSUME NEW N, NEW K, NEW I, NEW S, NEW W, NEW L, NEW T, NEW i, NEW m, NEW Q, NEW V,
         MayPass(N, K, I, S, W, L, T, i, m, Q, V),
         NEW t, NEW v, NEW R, R = [K EXCEPT ![<<m, t>>] = v]
  PROVE  HasPassed(K, I, L, T, i, Q, V, R)
<1> USE DEF MayPass
<1>1. From(S) \subseteq From(N) /\ DOMAIN K = From(N)
  BY FromGrows DEF Region
<1>2. \A j \in 0 .. L : R[T[j]] = K[T[j]]
  <2>1. ASSUME NEW j \in 0 .. L PROVE R[T[j]] = K[T[j]]
    <3>1. T[j] \in From(N)
      BY <1>1, FrameIs
    <3>2. T[j] # <<m, t>>
      OBVIOUS
    <3>3. QED
      BY <1>1, <3>1, <3>2
  <2>2. QED
    BY <2>1
<1>4. Frames(L, T, R, I, Q, V, i)
  <2>1. MayMove(L, T, K, I, S, W, i, R, I, Q, V)
    BY <1>2 DEF MayMove
  <2>2. QED
    BY <2>1, FramesKept
<1>5. L \in 0 .. L
  OBVIOUS
<1>6. QED
  BY <1>2, <1>4, <1>5 DEF HasPassed

(* The frames after the result is stored at the last of them.                *)
LEMMA FramesTake ==
  ASSUME NEW N, NEW K, NEW I, NEW W, Region(N, K, I, W), NEW S \in SUBSET N,
         NEW L \in Nat, NEW T, NEW i, Frames(L, T, K, I, S, W, i), \A n \in S : I[n] \in W[n],
         NEW v, NEW R, R = [K EXCEPT ![T[L]] = v]
  PROVE  Frames(L, T, R, I, S, W, i)
<1>1. From(S) \subseteq From(N) /\ DOMAIN K = From(N)
  BY FromGrows DEF Region
<1>2. ASSUME NEW j \in 0 .. L, j # L PROVE R[T[j]] = K[T[j]]
  <2>1. T[j] \in From(N)
    BY <1>1, FrameIs
  <2>2. T[j] # T[L]
    <3>1. L \in 0 .. L /\ L # 0 /\ L \in 1 .. L
      BY <1>2
    <3>2. CASE j = 0
      <4>1. T[L] # RootRef
        BY <3>1, FrameIs
      <4>2. QED
        BY <3>2, <4>1 DEF Frames
    <3>3. CASE j # 0
      <4>1. j \in 1 .. L /\ j < L
        BY <3>3, <1>2
      <4>2. W[T[L][1]] \subseteq Part(I, W, T[j]) /\ T[L][1] \in S
        BY <4>1, <3>1, FrameIs DEF Frames
      <4>3. T[j] = <<T[j][1], T[j][2]>> /\ T[j][1] \in N /\ T[j][2] \in Sides
        BY <3>3, FrameIs
      <4>4. I[T[j][1]] \notin Part(I, W, T[j])
        <5>1. PICK n \in N, t \in Sides : n = T[j][1] /\ t = T[j][2] /\ T[j] = <<n, t>>
          BY <4>3
        <5>2. QED
          BY <5>1, PartIs
      <4>5. QED
        BY <4>2, <4>4
    <3>4. QED
      BY <3>2, <3>3
  <2>3. QED
    BY <1>1, <2>1, <2>2
<1>3. ASSUME NEW k \in 1 .. L PROVE T[k][1] \in S
  BY FrameIs
<1>4. MayMove(L, T, K, I, S, W, i, R, I, S, W)
  BY <1>2, <1>3 DEF MayMove
<1>5. QED
  BY <1>4, FramesKept

-----------------------------------------------------------------------------
(* What a step that stores nothing leaves as it was.                         *)
LEMMA Unstored ==
  ASSUME RegionOK, mem' = mem, root' = root, NEW CONSTANT S, NEW CONSTANT W
  PROVE  /\ Placed(S, W) => Placed(S, W)'
         /\ Idle(S, W) => Idle(S, W)'
         /\ Whole(S) => Whole(S)'
  BY Same DEF Placed, Idle, Whole

LEMMA UnstoredStack ==
  ASSUME RegionOK, mem' = mem, root' = root, path' = path, item' = item, NEW CONSTANT S, NEW CONSTANT W
  PROVE  Stack(S, W) => Stack(S, W)' /\ here' = here
<1>1. path' = path => trail' = trail /\ here' = here /\ Len(path') = Len(path)
  BY SameTrail
<1>2. QED
  BY <1>1, Same DEF Placed, Stack

LEMMA EmptyRegion ==
  ASSUME mem = <<>>, root = NULL
  PROVE  RegionOK /\ Nodes = {} /\ \E S, W : Idle(S, W) /\ Whole(S)
<1>1. RegionOK /\ Nodes = {} /\ Len(mem) = 0
  BY DEF RegionOK, Nodes, NULL
<1>2. From({}) = {RootRef}
  BY DEF From
<1>3. /\ kids \in [From({}) -> {NULL}] /\ kids[RootRef] = NULL /\ words \in [{} -> Words]
  BY <1>1, <1>2, Views DEF RegionOK
<1>4. PICK W : W = [n \in {} |-> {}]
  OBVIOUS
<1>5. Region({}, kids, words, W)
  BY <1>2, <1>3, <1>4 DEF Region
<1>6. Tree(kids, words, {}, W, NoRef)
  BY <1>2, <1>3 DEF Tree
<1>7. Idle({}, W) /\ Whole({})
  BY <1>1, <1>5, <1>6 DEF Idle, Placed, Whole, Rest
<1>8. QED
  BY <1>1, <1>7

LEMMA InvInit == Init => IInv
<1> SUFFICES ASSUME Init PROVE IInv
  OBVIOUS
<1> USE DEF Init
<1>1. RegionOK /\ Nodes = {} /\ \E S, W : Idle(S, W) /\ Whole(S)
  BY EmptyRegion
<1>2. PICK S, W : Idle(S, W) /\ Whole(S)
  BY <1>1
<1>3. Types
  <2>1. calls \in 0 .. MaxInserts
    BY AVLAssumption
  <2>2. path \in Seq([node : Nodes, side : Sides]) /\ bag \in [Words -> Nat]
    OBVIOUS
  <2>3. QED
    BY <1>1, <2>1, <2>2 DEF Types, NULL, NoCall
<1>4. Flow /\ Counted
  BY <1>1 DEF Flow, Counted
<1>5. Shape(S, W)
  BY <1>2 DEF Shape
<1>6. QED
  BY <1>3, <1>4, <1>5 DEF IInv

LEMMA StepOpen == IInv /\ avl_open => IInv'
<1> SUFFICES ASSUME IInv, avl_open PROVE IInv'
  OBVIOUS
<1> USE DEF avl_open
<1>1. CASE mem' = <<>> /\ root' = NULL /\ items' = 0 /\ unique' = 0 /\ bag' = [i \in Words |-> 0] /\ crashed' = FALSE
  <2>1. (mem = <<>> /\ root = NULL => RegionOK /\ Nodes = {} /\ \E S, W : Idle(S, W) /\ Whole(S))'
    BY EmptyRegion, PTL
  <2>2. RegionOK' /\ Nodes' = {} /\ \E S, W : (Idle(S, W) /\ Whole(S))'
    BY <1>1, <2>1
  <2>3. PICK S, W : (Idle(S, W) /\ Whole(S))'
    BY <2>2
  <2>4. Types'
    <3>1. path' \in Seq([node : Nodes', side : Sides]) /\ bag' \in [Words -> Nat]
      BY <1>1
    <3>2. calls' \in 0 .. MaxInserts
      BY DEF IInv, Types
    <3>3. QED
      BY <1>1, <2>2, <3>1, <3>2 DEF Types, NULL, NoCall
  <2>5. Flow' /\ Counted'
    BY <2>2 DEF Flow, Counted, Owed
  <2>6. Shape(S, W)'
    BY <2>3 DEF Shape
  <2>7. QED
    BY <2>4, <2>5, <2>6 DEF IInv
<1>2. CASE UNCHANGED <<scm, bag, crashed>>
  <2>1. PICK S, W : Shape(S, W)
    BY DEF IInv
  <2>2. mem' = mem /\ root' = root /\ RegionOK
    BY <1>2 DEF scm, IInv, Types
  <2>3. RegionOK' /\ Nodes' = Nodes /\ counts' = counts /\ words' = words
    BY <2>2, Same
  <2>4. Idle(S, W) /\ (crashed \/ Whole(S))
    BY <2>1 DEF Shape
  <2>5. Shape(S, W)'
    BY <1>2, <2>2, <2>4, Unstored DEF Shape
  <2>6. Types'
    BY <1>2, <2>3 DEF Types, NULL, NoCall, IInv, scm
  <2>7. Flow' /\ Counted'
    BY <1>2, <2>3 DEF Flow, Counted, Owed, IInv
  <2>8. QED
    BY <2>5, <2>6, <2>7 DEF IInv
<1>3. QED
  BY <1>1, <1>2

LEMMA StepClose == IInv /\ avl_close => IInv'
<1> SUFFICES ASSUME IInv, avl_close PROVE IInv'
  OBVIOUS
<1> USE DEF avl_close
<1>1. PICK S, W : Shape(S, W)
  BY DEF IInv
<1>2. mem' = mem /\ root' = root /\ RegionOK /\ path' = path /\ cur' = cur /\ todo' = todo
      /\ items' = items /\ unique' = unique /\ bag' = bag /\ calls' = calls /\ crashed' = crashed
  BY DEF scm, IInv, Types, history
<1>3. RegionOK' /\ Nodes' = Nodes /\ counts' = counts /\ words' = words
  BY <1>2, Same
<1>4. Idle(S, W) /\ (crashed \/ Whole(S))
  BY <1>1 DEF Shape
<1>5. Shape(S, W)'
  BY <1>2, <1>4, Unstored DEF Shape
<1>6. Types'
  BY <1>2, <1>3 DEF Types, NULL, NoCall, IInv
<1>7. Flow' /\ Counted'
  BY <1>2, <1>3 DEF Flow, Counted, Owed, IInv
<1>8. QED
  BY <1>5, <1>6, <1>7 DEF IInv

LEMMA StepInsert == IInv /\ avl_insert => IInv'
<1> SUFFICES ASSUME IInv, avl_insert PROVE IInv'
  OBVIOUS
<1> USE DEF avl_insert
<1>1. PICK S, W : Shape(S, W)
  BY DEF IInv
<1>2. PICK i \in Words : item' = i /\ bag' = [bag EXCEPT ![i] = @ + 1]
  OBVIOUS
<1>3. /\ mem' = mem /\ root' = root /\ RegionOK /\ path' = path /\ todo' = todo
      /\ items' = items /\ unique' = unique /\ crashed' = crashed /\ pc = "ready" /\ pc' = "down"
      /\ path = <<>> /\ todo = <<>> /\ bag \in [Words -> Nat] /\ calls \in 0 .. MaxInserts /\ calls' = calls + 1
  BY DEF scm, IInv, Types, Flow
<1>4. /\ RegionOK' /\ Nodes' = Nodes /\ counts' = counts /\ words' = words /\ kids' = kids /\ heights' = heights
      /\ counts \in [Nodes -> Nat] /\ words \in [Nodes -> Words] /\ kids[RootRef] = root
      /\ root \in Nodes \cup {NULL}
  BY <1>3, Same, Views DEF RegionOK
<1>5. Idle(S, W) /\ (crashed \/ Whole(S))
  BY <1>1, <1>3 DEF Shape
<1>6. Len(path') = 0 /\ trail'[0] = RootRef /\ here' = RootRef
  <2>1. path' = <<>>
    BY <1>3
  <2>2. QED
    BY <2>1 DEF trail, here
<1>7. Idle(S, W)' /\ (crashed \/ Whole(S))'
  BY <1>3, <1>5, Unstored
<1>8. Frames(0, trail', kids', words', S, W, item')
  BY <1>6 DEF Frames
<1>9. Stack(S, W)'
  BY <1>6, <1>7, <1>8 DEF Stack, Idle
<1>10. cur' = kids'[here']
  BY <1>4, <1>6
<1>11. Shape(S, W)'
  BY <1>3, <1>7, <1>9, <1>10 DEF Shape, Going
<1>12. Types'
  <2>1. calls' \in 0 .. MaxInserts
    <3>1. MaxInserts \in Nat /\ MaxCrashInserts \in 0 .. MaxInserts
      BY AVLAssumption
    <3>2. calls < MaxCrashInserts \/ calls < MaxInserts
      BY DEF avl_insert
    <3>3. QED
      BY <1>3, <3>1, <3>2
  <2>2. bag' \in [Words -> Nat]
    BY <1>2, <1>3
  <2>3. path' \in Seq([node : Nodes', side : Sides])
    BY <1>3
  <2>4. QED
    BY <1>2, <1>3, <1>4, <2>1, <2>2, <2>3 DEF Types, IInv, NoCall
<1>13. Flow'
  BY <1>2, <1>3 DEF Flow
<1>14. Counted'
  <2>1. \A n \in Nodes : counts[n] \in Nat /\ words[n] \in Words /\ counts[n] <= bag[words[n]]
    BY <1>4 DEF IInv, Counted
  <2>2. bag'[i] = bag[i] + 1 /\ \A j \in Words : bag[j] \in Nat /\ (j # i => bag'[j] = bag[j])
    BY <1>2, <1>3
  <2>3. ASSUME NEW n \in Nodes PROVE counts[n] <= bag'[words[n]] /\ (words[n] = i => counts[n] < bag'[i])
    BY <2>1, <2>2
  <2>4. bag'[i] > 0
    BY <2>2
  <2>5. QED
    BY <1>2, <1>3, <1>4, <2>3, <2>4 DEF Counted
<1>15. QED
  BY <1>11, <1>12, <1>13, <1>14 DEF IInv

(* Where the frames end, for the operations below.                           *)
LEMMA Spots ==
  ASSUME Types, NEW S, NEW W, Stack(S, W)
  PROVE  /\ Len(path) \in Nat /\ here = trail[Len(path)] /\ here \in From(S) /\ here \in From(Nodes)
         /\ S \in SUBSET Nodes /\ Region(Nodes, kids, words, W)
         /\ Frames(Len(path), trail, kids, words, S, W, item)
         /\ RegionOK /\ Sized(Nodes, kids, heights)
         /\ here # RootRef => /\ here = <<here[1], here[2]>> /\ here[1] \in S /\ here[2] \in Sides
                              /\ On(item, words[here[1]], here[2])
<1>1. /\ Len(path) \in Nat /\ here = trail[Len(path)]
      /\ S \in SUBSET Nodes /\ Region(Nodes, kids, words, W)
      /\ Frames(Len(path), trail, kids, words, S, W, item) /\ RegionOK
  BY TrailIs DEF Types, Stack, Placed
<1>2. Sized(Nodes, kids, heights)
  BY <1>1, Views DEF Sized
<1>3. Len(path) \in 0 .. Len(path) /\ (Len(path) # 0 => Len(path) \in 1 .. Len(path))
  BY <1>1
<1>4. here \in From(S) /\ (Len(path) # 0 => /\ here # RootRef /\ here = <<here[1], here[2]>>
                                           /\ here[1] \in S /\ here[2] \in Sides)
  BY <1>1, <1>3, FrameIs
<1>5. Len(path) # 0 => On(item, words[here[1]], here[2])
  BY <1>1, <1>3 DEF Frames
<1>6. Len(path) = 0 => here = RootRef
  BY <1>1 DEF Frames
<1>7. here \in From(Nodes)
  BY <1>1, <1>4, FromGrows
<1>8. QED
  BY <1>1, <1>2, <1>4, <1>5, <1>6, <1>7

LEMMA StepDescend == IInv /\ Descend => IInv'
<1> SUFFICES ASSUME IInv, Descend PROVE IInv'
  OBVIOUS
<1>1. PICK S, W : Shape(S, W)
  BY DEF IInv
<1>2. PICK n, s : n = cur /\ s = Side(item, cur)
  OBVIOUS
<1>3. /\ mem' = mem /\ root' = root /\ RegionOK /\ todo' = todo /\ todo = <<>> /\ item' = item /\ rc' = rc
      /\ items' = items /\ unique' = unique /\ crashed' = crashed /\ pc = "down" /\ pc' = pc
      /\ bag' = bag /\ calls' = calls /\ cur' = mem[n][s] /\ n # NULL /\ mem[n].item # item
      /\ path' = Append(path, [node |-> n, side |-> s])
      /\ item \in Words /\ path \in Seq([node : Nodes, side : Sides]) /\ n \in Nodes
  BY <1>2 DEF scm, history, IInv, Types, Flow, Descend
<1>4. /\ RegionOK' /\ Nodes' = Nodes /\ counts' = counts /\ words' = words /\ kids' = kids /\ heights' = heights
  BY <1>3, Same
<1>5. Idle(S, W) /\ Stack(S, W) /\ n = kids[here] /\ (crashed \/ Whole(S))
  BY <1>1, <1>2, <1>3 DEF Shape, Going
<1>6. /\ Len(path) \in Nat /\ here = trail[Len(path)]
      /\ S \in SUBSET Nodes /\ Region(Nodes, kids, words, W)
      /\ Frames(Len(path), trail, kids, words, S, W, item)
  BY <1>5, Spots DEF IInv
<1>7. s \in Sides /\ On(item, words[n], s) /\ kids[<<n, s>>] = mem[n][s] /\ words[n] = mem[n].item
  <2>1. words[n] = mem[n].item /\ words[n] \in Nat /\ item \in Nat
    BY <1>3, Views, AVLAssumption
  <2>2. s \in Sides /\ On(item, words[n], s)
    BY <1>2, <1>3, <2>1 DEF Side, Sides, On
  <2>3. QED
    BY <1>3, <2>1, <2>2, Views
<1>8. kids[<<n, s>>] \in Nodes \cup {NULL}
  <2>1. <<n, s>> \in From(Nodes)
    BY <1>3, <1>7, Refs
  <2>2. QED
    BY <1>3, <2>1, Views
<1>9. /\ Len(path') = Len(path) + 1 /\ \A k \in 0 .. Len(path) : trail'[k] = trail[k]
      /\ trail'[Len(path) + 1] = <<n, s>> /\ here' = <<n, s>>
  BY <1>3, TrailPushed
<1>10. Frames(Len(path) + 1, trail', kids, words, S, W, item)
  <2>1. Tree(kids, words, S, W, NoRef) /\ n = kids[trail[Len(path)]]
    BY <1>5, <1>6 DEF Idle
  <2>2. PICK L, T, U : L \in Nat /\ L = Len(path) /\ T = trail /\ U = trail'
    BY <1>6
  <2>3. \A k \in 0 .. L : U[k] = T[k]
    BY <1>9, <2>2
  <2>4. U[L + 1] = <<n, s>>
    BY <1>9, <2>2
  <2>5. Frames(L, T, kids, words, S, W, item) /\ n = kids[T[L]] /\ L \in Nat
    BY <1>6, <2>1, <2>2
  <2>6. Frames(L + 1, U, kids, words, S, W, item)
    <3>1. Region(Nodes, kids, words, W) /\ S \in SUBSET Nodes /\ n # NULL
      BY <1>3, <1>6
    <3>2. s \in Sides /\ On(item, words[n], s) /\ Tree(kids, words, S, W, NoRef)
      BY <1>7, <2>1
    <3>3. QED
      BY <2>3, <2>4, <2>5, <3>1, <3>2, Push
  <2>7. QED
    BY <2>2, <2>6
<1>11. Idle(S, W)' /\ (crashed \/ Whole(S))'
  BY <1>3, <1>5, Unstored
<1>12. Stack(S, W)'
  BY <1>3, <1>4, <1>9, <1>10, <1>11 DEF Stack, Idle
<1>13. cur' = kids'[here']
  BY <1>3, <1>4, <1>7, <1>9
<1>14. Shape(S, W)'
  BY <1>3, <1>11, <1>12, <1>13 DEF Shape, Going
<1>15. Types'
  <2>1. path' \in Seq([node : Nodes', side : Sides])
    BY <1>3, <1>4, <1>7
  <2>2. cur' \in Nodes' \cup {NULL}
    BY <1>3, <1>4, <1>7, <1>8
  <2>3. QED
    BY <1>3, <1>4, <2>1, <2>2 DEF Types, IInv
<1>16. Flow' /\ Counted'
  BY <1>3, <1>4 DEF Flow, Counted, Owed, IInv
<1>17. QED
  BY <1>14, <1>15, <1>16 DEF IInv

LEMMA Ops ==
  /\ \A n : SetDepth(n).op = "depth" /\ SetDepth(n).node = n
  /\ \A n : IncCount(n).op = "count" /\ IncCount(n).node = n
  /\ IncItems.op = "items" /\ IncUnique.op = "unique"
  /\ \A n, s, v : /\ Link(n, s, v).op = "link" /\ Link(n, s, v).node = n
                  /\ Link(n, s, v).side = s /\ Link(n, s, v).val = v
  /\ \A m, n : SetDepth(m) = SetDepth(n) => m = n
  BY DEF SetDepth, IncCount, IncItems, IncUnique, Link

(* The stores of update() that are not pointers.                             *)
LEMMA PlainIs ==
  /\ \A w \in Plain : w.op # "link"
  /\ \A w \in Plain : w.op = "depth" => \E n \in Nodes : w = SetDepth(n)
  /\ \A w \in Plain : w.op = "count" => \E n \in Nodes : w = IncCount(n)
  /\ \A n \in Nodes : SetDepth(n) \in Plain /\ IncCount(n) \in Plain
  /\ IncItems \in Plain /\ IncUnique \in Plain
<1>1. ASSUME NEW w \in Plain
      PROVE  (\E n \in Nodes : w = SetDepth(n) \/ w = IncCount(n)) \/ w = IncItems \/ w = IncUnique
  BY DEF Plain
<1>2. \A w \in Plain : w.op # "link"
  BY <1>1, Ops
<1>3. ASSUME NEW w \in Plain, w.op = "depth" PROVE \E n \in Nodes : w = SetDepth(n)
  BY <1>1, <1>3, Ops
<1>4. ASSUME NEW w \in Plain, w.op = "count" PROVE \E n \in Nodes : w = IncCount(n)
  BY <1>1, <1>4, Ops
<1>5. \A n \in Nodes : SetDepth(n) \in Plain /\ IncCount(n) \in Plain
  BY DEF Plain
<1>6. IncItems \in Plain /\ IncUnique \in Plain
  BY DEF Plain
<1>7. QED
  BY <1>2, <1>3, <1>4, <1>5, <1>6

LEMMA BumpPlain ==
  ASSUME NEW n, NEW A, SetDepth(n) \in A, IncCount(n) \in A, IncItems \in A
  PROVE  /\ BumpStores(n) \in Seq(A) /\ BumpStores(n) # <<>> /\ DOMAIN BumpStores(n) = 1 .. 3
         /\ BumpStores(n)[1] = IncCount(n) /\ BumpStores(n)[2] = IncItems /\ BumpStores(n)[3] = SetDepth(n)
         /\ Head(BumpStores(n)) = IncCount(n)
  BY DEF BumpStores

LEMMA NewPlain ==
  ASSUME NEW n, NEW A, IncCount(n) \in A, IncItems \in A, IncUnique \in A
  PROVE  /\ NewStores(n) \in Seq(A) /\ NewStores(n) # <<>> /\ DOMAIN NewStores(n) = 1 .. 3
         /\ NewStores(n)[1] = IncCount(n) /\ NewStores(n)[2] = IncItems /\ NewStores(n)[3] = IncUnique
         /\ Head(NewStores(n)) = IncCount(n)
  BY DEF NewStores

LEMMA StepBump == IInv /\ Bump => IInv'
<1> SUFFICES ASSUME IInv, Bump PROVE IInv'
  OBVIOUS
<1>1. PICK S, W : Shape(S, W)
  BY DEF IInv
<1>2. PICK n : n = cur
  OBVIOUS
<1>3. /\ mem' = mem /\ root' = root /\ RegionOK /\ todo' = BumpStores(n) /\ todo = <<>> /\ item' = item /\ rc' = rc
      /\ items' = items /\ unique' = unique /\ crashed' = crashed /\ pc = "down" /\ pc' = "back"
      /\ bag' = bag /\ calls' = calls /\ cur' = n /\ n # NULL /\ mem[n].item = item
      /\ path' = path /\ item \in Words /\ n \in Nodes
  BY <1>2 DEF scm, history, IInv, Types, Flow, Bump
<1>4. /\ RegionOK' /\ Nodes' = Nodes /\ counts' = counts /\ words' = words /\ kids' = kids /\ heights' = heights
      /\ words[n] = item
  BY <1>3, Same, Views
<1>5. Idle(S, W) /\ Stack(S, W) /\ n = kids[here] /\ (crashed \/ Whole(S))
  BY <1>1, <1>2, <1>3 DEF Shape, Going
<1>6. /\ here \in From(S) /\ here \in From(Nodes) /\ S \in SUBSET Nodes
      /\ Region(Nodes, kids, words, W) /\ Sized(Nodes, kids, heights)
  BY <1>5, Spots DEF IInv
<1>7. Stack(S, W)' /\ here' = here
  BY <1>3, <1>5, UnstoredStack
<1>8. Loose(kids, words, S, W, here, n)
  BY <1>5, <1>6, TakeOut DEF Idle
<1>9. /\ todo' \in Seq(Plain) /\ todo' # <<>> /\ DOMAIN todo' = 1 .. 3 /\ todo'[1] = IncCount(n)
      /\ todo'[2] = IncItems /\ todo'[3] = SetDepth(n) /\ Head(todo') = IncCount(n)
  BY <1>3, PlainIs, BumpPlain
<1>10. Plain' = Plain
  BY <1>4 DEF Plain
<1>11. ASSUME Whole(S) PROVE Comes'
  <2>1. PICK e : e = Deep(heights, kids[here])
    OBVIOUS
  <2>2. Rest(Nodes, kids, heights, {}) /\ Settled(kids, heights, n)
    BY <1>3, <1>11 DEF Whole, Rest
  <2>3. Awaits(kids, heights, here, e) /\ e \in Int
    <3>1. PICK U : U = {}
      OBVIOUS
    <3>2. here[1] \notin U /\ Rest(Nodes, kids, heights, U)
      BY <2>2, <3>1
    <3>3. QED
      BY <1>6, <2>1, <3>2, RestAwaits
  <2>4. e = heights[n]
    BY <1>3, <1>5, <2>1 DEF Deep
  <2>5. Coming(Nodes, kids, words, heights, item, here, n, e)
    BY <1>3, <2>2, <2>3, <2>4 DEF Coming, Rest, Settled
  <2>6. /\ \A k \in 1 .. 3 : todo'[k].op = "depth" => todo'[k] = SetDepth(n)
        /\ 3 \in 1 .. 3 /\ todo'[3].op = "depth"
    <3>1. todo'[1].op = "count" /\ todo'[2].op = "items" /\ todo'[3].op = "depth"
      BY <1>9, Ops
    <3>2. \A k \in 1 .. 3 : k = 1 \/ k = 2 \/ k = 3
      OBVIOUS
    <3>3. QED
      BY <1>9, <3>1, <3>2
  <2>7. QED
    BY <1>3, <1>4, <1>7, <1>9, <2>3, <2>5, <2>6 DEF Comes
<1>12. Returning(S, W)'
  <2>1. Loose(kids, words, S, W, here, cur)'
    BY <1>3, <1>4, <1>7, <1>8
  <2>2. (crashed \/ (S = Nodes /\ Comes))'
    BY <1>3, <1>4, <1>5, <1>11 DEF Whole
  <2>3. QED
    BY <1>3, <1>7, <1>9, <1>10, <2>1, <2>2 DEF Returning
<1>13. Shape(S, W)'
  BY <1>3, <1>12 DEF Shape
<1>14. Types'
  BY <1>3, <1>4 DEF Types, IInv
<1>15. Flow'
  BY <1>3 DEF Flow
<1>16. Counted'
  <2>1. Owed
    BY <1>3 DEF Owed
  <2>2. \A m \in Nodes : counts[m] <= bag[words[m]] /\ (words[m] = item => counts[m] < bag[item])
    BY <2>1 DEF IInv, Counted
  <2>3. \A k \in DOMAIN todo' : todo'[k].op = "count" => k = 1 /\ words[todo'[k].node] = item
    <3>1. todo'[1].op = "count" /\ todo'[1].node = n /\ todo'[2].op = "items" /\ todo'[3].op = "depth"
      BY <1>9, Ops
    <3>2. \A k \in 1 .. 3 : k = 1 \/ k = 2 \/ k = 3
      OBVIOUS
    <3>3. QED
      BY <1>4, <1>9, <3>1, <3>2
  <2>4. QED
    BY <1>3, <1>4, <2>2, <2>3 DEF Counted
<1>17. QED
  BY <1>13, <1>14, <1>15, <1>16 DEF IInv

(* The heights with a new leaf v for an empty place.                         *)
HeightsGrow(N, K, D, v, R, E) ==
  /\ v \notin N /\ Sized(N, K, D) /\ Sized(N \cup {v}, R, E)
  /\ \A a \in From(N) : R[a] = K[a]
  /\ \A m \in N : E[m] = D[m]
  /\ E[v] = 0 /\ \A s \in Sides : R[<<v, s>>] = NULL

LEMMA LeafHeights ==
  ASSUME NEW N, NEW K, NEW D, NEW v, NEW R, NEW E, HeightsGrow(N, K, D, v, R, E),
         NEW z \in From(N), K[z] = NULL, Rest(N, K, D, {}), NEW I, NEW i
  PROVE  Coming(N \cup {v}, R, I, E, i, z, v, -1) /\ E[v] = Due(R, E, v)
<1> USE DEF HeightsGrow
<1>1. "left" \in Sides /\ "right" \in Sides
  BY DEF Sides
<1>2. v \in Nat \ {0}
  BY DEF Sized
<1>3. Due(R, E, v) = 0 /\ Level(R, E, v)
  BY <1>1 DEF Due, Level, Deep, Higher
<1>4. \A u \in N \cup {NULL} : Deep(E, u) = Deep(D, u)
  BY DEF Deep
<1>5. ASSUME NEW m \in N, NEW s \in Sides
      PROVE  R[<<m, s>>] = K[<<m, s>>] /\ Deep(E, R[<<m, s>>]) = Deep(D, K[<<m, s>>])
  <2>1. <<m, s>> \in From(N)
    BY Refs
  <2>2. R[<<m, s>>] = K[<<m, s>>] /\ K[<<m, s>>] \in N \cup {NULL}
    BY <2>1 DEF Sized
  <2>3. QED
    BY <2>2, <1>4
<1>6. ASSUME NEW m \in N PROVE Settled(R, E, m)
  <2>1. Settled(K, D, m) /\ E[m] = D[m]
    BY DEF Rest
  <2>2. QED
    BY <2>1, <1>1, <1>5 DEF Settled, Due, Level
<1>7. Rest(N \cup {v}, R, E, {z[1], v})
  BY <1>6 DEF Rest
<1>8. Awaits(K, D, z, -1)
  <2>1. PICK U : U = {}
    OBVIOUS
  <2>2. z[1] \notin U /\ Rest(N, K, D, U)
    BY <2>1
  <2>3. Awaits(K, D, z, Deep(D, K[z]))
    BY <2>2, RestAwaits
  <2>4. QED
    BY <2>3 DEF Deep
<1>9. Awaits(R, E, z, -1)
  <2>1. ASSUME z # RootRef
        PROVE  E[z[1]] = D[z[1]] /\ Deep(E, R[<<z[1], Other(z[2])>>]) = Deep(D, K[<<z[1], Other(z[2])>>])
    <3>1. z[1] \in N /\ z[2] \in Sides
      BY <2>1, FromIs
    <3>2. Other(z[2]) \in Sides
      BY <3>1, OtherSide
    <3>3. QED
      BY <3>1, <3>2, <1>5
  <2>2. QED
    BY <2>1, <1>8 DEF Awaits
<1>10. v # NULL
  BY <1>2 DEF NULL
<1>11. QED
  BY <1>3, <1>7, <1>9, <1>10 DEF Coming, Grown

ViewTypes ==
  /\ Nodes = 1 .. Len(mem) /\ Nodes \in SUBSET (Nat \ {0})
  /\ kids \in [From(Nodes) -> Nodes \cup {NULL}] /\ words \in [Nodes -> Words]
  /\ heights \in [Nodes -> Nat] /\ counts \in [Nodes -> Nat] /\ Sized(Nodes, kids, heights)

LEMMA ViewsTyped == RegionOK => ViewTypes
  BY Views DEF ViewTypes, Sized

LEMMA StepAllocate == IInv /\ Allocate => IInv'
<1> SUFFICES ASSUME IInv, Allocate PROVE IInv'
  OBVIOUS
<1>1. PICK S, W : Shape(S, W)
  BY DEF IInv
<1>2. PICK v : v = Len(mem')
  OBVIOUS
<1>3. /\ mem' = Append(mem, [item |-> item, count |-> 0, depth |-> 0, left |-> NULL, right |-> NULL])
      /\ root' = root /\ RegionOK /\ todo' = NewStores(v) /\ todo = <<>> /\ item' = item /\ rc' = rc
      /\ items' = items /\ unique' = unique /\ crashed' = crashed /\ pc = "down" /\ pc' = "back"
      /\ bag' = bag /\ calls' = calls /\ cur' = v /\ cur = NULL
      /\ path' = path /\ item \in Words /\ path \in Seq([node : Nodes, side : Sides])
  BY <1>2 DEF history, IInv, Types, Flow, Allocate
<1>4. /\ RegionOK' /\ v \in Nat \ {0} /\ v \notin Nodes /\ Nodes' = Nodes \cup {v}
      /\ words'[v] = item /\ heights'[v] = 0 /\ counts'[v] = 0
      /\ \A s \in Sides : kids'[<<v, s>>] = NULL
      /\ \A n \in Nodes : words'[n] = words[n] /\ heights'[n] = heights[n] /\ counts'[n] = counts[n]
      /\ \A a \in From(Nodes) : kids'[a] = kids[a]
  BY <1>2, <1>3, NodeAdded
<1>5. ViewTypes /\ ViewTypes'
  <2>1. (RegionOK => ViewTypes)'
    BY ViewsTyped, PTL
  <2>2. QED
    BY <1>3, <1>4, <2>1, ViewsTyped
<1>6. Idle(S, W) /\ Stack(S, W) /\ kids[here] = NULL /\ (crashed \/ Whole(S))
  BY <1>1, <1>3 DEF Shape, Going
<1>7. /\ Len(path) \in Nat /\ here = trail[Len(path)] /\ here \in From(S) /\ here \in From(Nodes)
      /\ S \in SUBSET Nodes /\ Region(Nodes, kids, words, W)
      /\ Frames(Len(path), trail, kids, words, S, W, item) /\ Sized(Nodes, kids, heights)
  BY <1>6, Spots DEF IInv
<1>8. PICK V : /\ Region(Nodes', kids', words', V)
               /\ Loose(kids', words', S \cup {v}, V, here, v)
               /\ Frames(Len(path), trail, kids', words', S \cup {v}, V, item)
  <2>1. PICK M, J, R : M = Nodes' /\ J = words' /\ R = kids'
    OBVIOUS
  <2>2. /\ M = Nodes \cup {v} /\ J \in [M -> Words] /\ J[v] = item /\ \A m \in Nodes : J[m] = words[m]
        /\ R \in [From(M) -> M \cup {NULL}] /\ \A a \in From(Nodes) : R[a] = kids[a]
        /\ \A s \in Sides : R[<<v, s>>] = NULL
    BY <1>4, <1>5, <2>1 DEF ViewTypes
  <2>3. Tree(kids, words, S, W, NoRef) /\ kids[trail[Len(path)]] = NULL
    BY <1>6, <1>7 DEF Idle
  <2>4. \E V : /\ Region(M, R, J, V)
               /\ Loose(R, J, S \cup {v}, V, trail[Len(path)], v)
               /\ Frames(Len(path), trail, R, J, S \cup {v}, V, item)
    <3>1. Grows(Nodes, kids, words, item, v, M, J, R)
      BY <1>4, <2>2 DEF Grows
    <3>2. QED
      BY <1>3, <1>7, <2>3, <3>1, Leaf
  <2>5. QED
    BY <1>7, <2>1, <2>4
<1>9. PICK Q : Q = S \cup {v}
  OBVIOUS
<1>10. trail' = trail /\ here' = here /\ Len(path') = Len(path)
  BY <1>3, SameTrail
<1>11. Q \in SUBSET Nodes'
  BY <1>4, <1>7, <1>9
<1>12. Stack(Q, V)'
  BY <1>3, <1>8, <1>9, <1>10, <1>11 DEF Stack, Placed
<1>13. PICK A : A = Plain'
  OBVIOUS
<1>14. IncCount(v) \in A /\ IncItems \in A /\ IncUnique \in A
  BY <1>4, <1>13 DEF Plain
<1>15. /\ todo' \in Seq(A) /\ todo' # <<>> /\ DOMAIN todo' = 1 .. 3 /\ todo'[1] = IncCount(v)
       /\ todo'[2] = IncItems /\ todo'[3] = IncUnique /\ Head(todo') = IncCount(v)
  BY <1>3, <1>14, NewPlain
<1>16. /\ \A k \in DOMAIN todo' : todo'[k].op # "depth"
       /\ \A k \in DOMAIN todo' : todo'[k].op = "count" => k = 1 /\ todo'[k].node = v
  <2>1. todo'[1].op = "count" /\ todo'[1].node = v /\ todo'[2].op = "items" /\ todo'[3].op = "unique"
    BY <1>15, Ops
  <2>2. \A k \in 1 .. 3 : k = 1 \/ k = 2 \/ k = 3
    OBVIOUS
  <2>3. QED
    BY <1>15, <2>1, <2>2
<1>17. v # NULL
  BY <1>4 DEF NULL
<1>18. ASSUME Whole(S) PROVE Comes' /\ Q = Nodes'
  <2>1. Coming(Nodes \cup {v}, kids', words', heights', item, here, v, -1) /\ heights'[v] = Due(kids', heights', v)
    <3>1. Rest(Nodes, kids, heights, {})
      BY <1>18 DEF Whole
    <3>2. Sized(Nodes \cup {v}, kids', heights')
      BY <1>4, <1>5 DEF ViewTypes
    <3>3. PICK R, E, J : R = kids' /\ E = heights' /\ J = words'
      OBVIOUS
    <3>4. Coming(Nodes \cup {v}, R, J, E, item, here, v, -1) /\ E[v] = Due(R, E, v)
      <4>1. HeightsGrow(Nodes, kids, heights, v, R, E)
        BY <1>4, <1>7, <3>2, <3>3 DEF HeightsGrow
      <4>2. QED
        BY <1>6, <1>7, <3>1, <4>1, LeafHeights
    <3>5. QED
      BY <3>3, <3>4
  <2>2. -1 \in Int
    OBVIOUS
  <2>3. \E e \in Int : Coming(Nodes', kids', words', heights', item', here', cur', e)
    BY <1>3, <1>4, <1>10, <2>1, <2>2
  <2>4. QED
    BY <1>3, <1>4, <1>9, <1>16, <1>18, <2>1, <2>3 DEF Comes, Whole
<1>19. Returning(Q, V)'
  <2>1. Loose(kids, words, Q, V, here, cur)'
    BY <1>3, <1>8, <1>9, <1>10
  <2>2. (crashed \/ (Q = Nodes /\ Comes))'
    BY <1>3, <1>6, <1>18
  <2>3. QED
    BY <1>3, <1>12, <1>13, <1>15, <1>17, <2>1, <2>2 DEF Returning
<1>20. Shape(Q, V)'
  BY <1>3, <1>19 DEF Shape
<1>21. Types'
  <2>1. path' \in Seq([node : Nodes', side : Sides])
    <3>1. PICK B, C : B = [node : Nodes, side : Sides] /\ C = [node : Nodes', side : Sides]
      OBVIOUS
    <3>2. B \subseteq C /\ path \in Seq(B)
      BY <1>3, <1>4, <3>1
    <3>3. path \in Seq(C)
      BY <3>2
    <3>4. QED
      BY <1>3, <3>1, <3>3
  <2>2. QED
    BY <1>3, <1>4, <2>1 DEF Types, IInv
<1>22. Flow'
  BY <1>3 DEF Flow
<1>23. Counted'
  <2>1. Owed
    BY <1>3 DEF Owed
  <2>2. /\ \A m \in Nodes : counts[m] <= bag[words[m]] /\ (words[m] = item => counts[m] < bag[item])
        /\ bag[item] > 0 /\ bag[item] \in Nat
    BY <1>3, <2>1 DEF IInv, Counted, Types
  <2>3. ASSUME NEW m \in Nodes'
        PROVE  counts'[m] <= bag[words'[m]] /\ (words'[m] = item => counts'[m] < bag[item])
    BY <1>4, <2>2
  <2>4. \A k \in DOMAIN todo' : todo'[k].op = "count" => k = 1 /\ words'[todo'[k].node] = item
    BY <1>4, <1>16
  <2>5. QED
    BY <1>3, <2>3, <2>4 DEF Counted
<1>24. QED
  BY <1>20, <1>21, <1>22, <1>23 DEF IInv

LEMMA StepAllocateFails == IInv /\ AllocateFails => IInv'
<1> SUFFICES ASSUME IInv, AllocateFails PROVE IInv'
  OBVIOUS
<1>1. PICK S, W : Shape(S, W)
  BY DEF IInv
<1>2. /\ mem' = mem /\ root' = root /\ RegionOK /\ todo' = <<>> /\ todo = <<>> /\ item' = item /\ rc' = rc
      /\ items' = items /\ unique' = unique /\ crashed' = crashed /\ pc = "down" /\ pc' = "back"
      /\ bag' = [bag EXCEPT ![item] = @ - 1] /\ calls' = calls /\ cur' = NULL /\ cur = NULL
      /\ path' = path /\ item \in Words /\ bag \in [Words -> Nat]
  BY DEF scm, frame, IInv, Types, Flow, AllocateFails
<1>3. /\ RegionOK' /\ Nodes' = Nodes /\ counts' = counts /\ words' = words /\ kids' = kids /\ heights' = heights
      /\ counts \in [Nodes -> Nat] /\ words \in [Nodes -> Words]
  BY <1>2, Same, Views
<1>4. Idle(S, W) /\ Stack(S, W) /\ kids[here] = NULL /\ (crashed \/ Whole(S))
  BY <1>1, <1>2 DEF Shape, Going
<1>5. /\ here \in From(S) /\ here \in From(Nodes) /\ S \in SUBSET Nodes
      /\ Region(Nodes, kids, words, W) /\ Sized(Nodes, kids, heights)
  BY <1>4, Spots DEF IInv
<1>6. Stack(S, W)' /\ here' = here
  BY <1>2, <1>4, UnstoredStack
<1>7. Loose(kids, words, S, W, here, NULL)
  BY <1>4, <1>5, TakeOut DEF Idle
<1>8. ASSUME Whole(S) PROVE Comes'
  <2>1. PICK U, e : U = {} /\ e = Deep(heights, kids[here])
    OBVIOUS
  <2>2. here[1] \notin U /\ Rest(Nodes, kids, heights, U)
    BY <1>8, <2>1 DEF Whole
  <2>3. Awaits(kids, heights, here, e) /\ e \in Int
    BY <1>5, <2>1, <2>2, RestAwaits
  <2>4. e = -1
    BY <1>4, <2>1 DEF Deep
  <2>5. Coming(Nodes, kids, words, heights, item, here, NULL, e)
    BY <2>1, <2>2, <2>3, <2>4 DEF Coming, Rest
  <2>6. QED
    BY <1>2, <1>3, <1>6, <2>3, <2>5 DEF Comes
<1>9. Returning(S, W)'
  <2>1. Loose(kids, words, S, W, here, cur)' /\ (cur = NULL => kids[here] = NULL)'
    BY <1>2, <1>3, <1>4, <1>6, <1>7
  <2>2. (crashed \/ (S = Nodes /\ Comes))'
    BY <1>2, <1>3, <1>4, <1>8 DEF Whole
  <2>3. todo' \in Seq(Plain')
    BY <1>2
  <2>4. QED
    BY <1>6, <2>1, <2>2, <2>3 DEF Returning
<1>10. Shape(S, W)'
  BY <1>2, <1>9 DEF Shape
<1>11. /\ \A m \in Nodes : counts[m] \in Nat /\ words[m] \in Words /\ counts[m] <= bag[words[m]]
       /\ \A m \in Nodes : (words[m] = item) => (counts[m] < bag[item])
       /\ bag[item] > 0 /\ bag[item] \in Nat
  BY <1>2, <1>3 DEF IInv, Counted, Owed
<1>12. bag'[item] = bag[item] - 1 /\ bag' \in [Words -> Nat] /\ \A j \in Words : j # item => bag'[j] = bag[j]
  BY <1>2, <1>11
<1>13. Types'
  BY <1>2, <1>3, <1>12 DEF Types, IInv
<1>14. Flow'
  BY <1>2 DEF Flow
<1>15. Counted'
  <2>1. ~Owed'
    BY <1>2 DEF Owed
  <2>2. ASSUME NEW m \in Nodes PROVE counts[m] <= bag'[words[m]]
    <3>1. CASE words[m] = item
      <4>1. counts[m] \in Nat /\ counts[m] < bag[item] /\ bag[item] \in Nat
        BY <1>11, <3>1
      <4>2. bag'[words[m]] = bag[item] - 1
        BY <1>12, <3>1
      <4>3. QED
        BY <4>1, <4>2
    <3>2. CASE words[m] # item
      BY <1>11, <1>12, <3>2
    <3>3. QED
      BY <3>1, <3>2
  <2>3. QED
    BY <1>2, <1>3, <2>1, <2>2 DEF Counted
<1>16. QED
  BY <1>10, <1>13, <1>14, <1>15 DEF IInv

(* A process that dies leaves a tree, whatever it was at.                    *)
LEMMA Survives ==
  ASSUME NEW S, NEW W, Types, Shape(S, W)
  PROVE  \E T : Idle(T, W)
<1>1. CASE Returning(S, W)
  <2>1. S \in SUBSET Nodes /\ Region(Nodes, kids, words, W) /\ Loose(kids, words, S, W, here, cur)
    BY <1>1 DEF Returning, Stack, Placed
  <2>2. PICK T \in SUBSET S : Tree(kids, words, T, W, NoRef)
    BY <2>1, Lost
  <2>3. QED
    BY <2>1, <2>2 DEF Idle, Placed
<1>2. ASSUME NEW n, NEW s, NEW c, Lifted(S, W, n, s, c) PROVE \E T : Idle(T, W)
  <2>1. PICK z : z = <<n, s>>
    OBVIOUS
  <2>2. S \in SUBSET Nodes /\ Region(Nodes, kids, words, W) /\ Loose(kids, words, S, W, z, cur)
    BY <1>2, <2>1 DEF Lifted, Stack, Placed
  <2>3. PICK T \in SUBSET S : Tree(kids, words, T, W, NoRef)
    BY <2>2, Lost
  <2>4. QED
    BY <2>2, <2>3 DEF Idle, Placed
<1>3. ASSUME NEW n, NEW s, Second(S, W, n, s) PROVE \E T : Idle(T, W)
  BY <1>3 DEF Second, Hanging, Stack, Idle
<1>4. ASSUME NEW n, NEW s, NEW c, TwiceSecond(S, W, n, s, c) PROVE \E T : Idle(T, W)
  BY <1>4 DEF TwiceSecond, Hanging, Stack, Idle
<1>5. ASSUME NEW n, NEW s, First(S, W, n, s) PROVE \E T : Idle(T, W)
  BY <1>5 DEF First
<1>6. ASSUME NEW n, NEW s, NEW c, TwiceFirst(S, W, n, s, c) PROVE \E T : Idle(T, W)
  BY <1>6 DEF TwiceFirst
<1>7. Going(S, W) \/ Checking(S, W) => Idle(S, W)
  BY DEF Going, Checking
<1>8. QED
  BY <1>1, <1>2, <1>3, <1>4, <1>5, <1>6, <1>7 DEF Shape

LEMMA StepCrash == IInv /\ Crash => IInv'
<1> SUFFICES ASSUME IInv, Crash PROVE IInv'
  OBVIOUS
<1>1. PICK S, W : Shape(S, W)
  BY DEF IInv
<1>2. PICK T : Idle(T, W)
  BY <1>1, Survives DEF IInv
<1>3. /\ mem' = mem /\ root' = root /\ RegionOK /\ path' = <<>> /\ cur' = NULL /\ todo' = <<>> /\ item' = NULL
      /\ items' = items /\ unique' = unique /\ bag' = bag /\ calls' = calls /\ crashed' = TRUE
      /\ pc' = "closed" /\ rc' = NoCall
  BY DEF scm, IInv, Types, Crash
<1>4. RegionOK' /\ Nodes' = Nodes /\ counts' = counts /\ words' = words
  BY <1>3, Same
<1>5. Shape(T, W)'
  BY <1>2, <1>3, Unstored DEF Shape
<1>6. Types'
  <2>1. path' \in Seq([node : Nodes', side : Sides])
    BY <1>3
  <2>2. QED
    BY <1>3, <1>4, <2>1 DEF Types, NULL, NoCall, IInv
<1>7. Flow' /\ Counted'
  BY <1>3, <1>4 DEF Flow, Counted, Owed, IInv
<1>8. QED
  BY <1>5, <1>6, <1>7 DEF IInv

(* Only a frame that returns has no store left to make.                      *)
LEMMA NoneLeft ==
  ASSUME NEW S, NEW W, Shape(S, W), pc = "back", todo = <<>>
  PROVE  Returning(S, W)
<1>1. ASSUME NEW n, NEW s, First(S, W, n, s) \/ Second(S, W, n, s) PROVE FALSE
  BY <1>1 DEF First, Second, Turn5, Turn4
<1>2. ASSUME NEW n, NEW s, NEW c, TwiceFirst(S, W, n, s, c) \/ TwiceSecond(S, W, n, s, c) PROVE FALSE
  BY <1>2 DEF TwiceFirst, TwiceSecond, Twice10, Twice9
<1>3. ASSUME NEW n, NEW s, NEW c, Lifted(S, W, n, s, c) PROVE FALSE
  BY <1>3 DEF Lifted, Twice6, Twice7, Twice8
<1>4. QED
  BY <1>1, <1>2, <1>3 DEF Shape

LEMMA StepInsertReturns == IInv /\ InsertReturns => IInv'
<1> SUFFICES ASSUME IInv, InsertReturns PROVE IInv'
  OBVIOUS
<1>1. PICK S, W : Shape(S, W)
  BY DEF IInv
<1>2. /\ mem' = mem /\ RegionOK /\ path' = <<>> /\ path = <<>> /\ cur' = NULL /\ todo' = <<>> /\ todo = <<>>
      /\ item' = item /\ item \in Words
      /\ items' = items /\ unique' = unique /\ bag' = bag /\ calls' = calls /\ crashed' = crashed
      /\ pc = "back" /\ pc' = "ready" /\ rc' \in {0, -1} /\ cur \in Nodes \cup {NULL}
      /\ cur = NULL => root' = root
      /\ cur # NULL => root' = cur
  BY DEF history, IInv, Types, Flow, InsertReturns
<1>3. Returning(S, W)
  BY <1>1, <1>2, NoneLeft
<1>4. here = RootRef /\ here[1] = NULL
  <2>1. here = RootRef
    BY <1>2, TrailIs DEF IInv, Types
  <2>2. QED
    BY <2>1, FromIs
<1>5. /\ here \in From(S) /\ here \in From(Nodes) /\ S \in SUBSET Nodes
      /\ Region(Nodes, kids, words, W) /\ Sized(Nodes, kids, heights)
      /\ Loose(kids, words, S, W, here, cur) /\ (cur = NULL => kids[here] = NULL)
  BY <1>3, Spots DEF IInv, Returning
<1>6. root' = cur
  <2>1. kids[RootRef] = root
    BY <1>2, Views
  <2>2. QED
    BY <1>2, <1>4, <1>5, <2>1
<1>7. /\ RegionOK' /\ Nodes' = Nodes /\ words' = words /\ heights' = heights /\ counts' = counts
      /\ kids' = [kids EXCEPT ![RootRef] = cur]
  BY <1>2, <1>6, RootStored
<1>8. Tree(kids', words, S, W, NoRef)
  BY <1>4, <1>5, <1>7, Attach
<1>9. Region(Nodes, kids', words, W)
  <2>1. (RegionOK => ViewTypes)'
    BY ViewsTyped, PTL
  <2>2. kids' \in [From(Nodes) -> Nodes \cup {NULL}]
    BY <1>7, <2>1 DEF ViewTypes
  <2>3. QED
    BY <1>5, <2>2 DEF Region
<1>10. Idle(S, W)'
  BY <1>5, <1>7, <1>8, <1>9 DEF Idle, Placed
<1>11. ASSUME ~crashed PROVE Whole(S)'
  <2>1. S = Nodes /\ Comes
    BY <1>2, <1>3, <1>11 DEF Returning, Turned
  <2>2. PICK e \in Int : Coming(Nodes, kids, words, heights, item, here, cur, e)
    BY <2>1 DEF Comes
  <2>3. cur = NULL \/ heights[cur] = Due(kids, heights, cur)
    BY <1>2, <2>1 DEF Comes
  <2>4. PICK L : L = [kids EXCEPT ![here] = cur]
    OBVIOUS
  <2>5. Rest(Nodes, L, heights, {here[1]})
    <3>1. cur # NULL => heights[cur] = Due(kids, heights, cur) /\ cur # here[1]
      BY <1>4, <2>3
    <3>2. MayArrive(Nodes, kids, words, heights, item, here, cur, e)
      BY <1>2, <1>5, <2>2, <3>1 DEF MayArrive
    <3>3. HasArrived(Nodes, L, words, heights, item, here, cur, e)
      BY <2>4, <3>2, Arrives
    <3>4. QED
      BY <3>3 DEF HasArrived
  <2>6. NULL \notin Nodes
    BY <1>2, Views DEF NULL
  <2>7. Rest(Nodes, L, heights, {})
    BY <1>4, <2>5, <2>6 DEF Rest
  <2>8. QED
    BY <1>4, <1>7, <2>1, <2>4, <2>7 DEF Whole
<1>12. Shape(S, W)'
  BY <1>2, <1>10, <1>11 DEF Shape
<1>13. Types'
  <2>1. path' \in Seq([node : Nodes', side : Sides])
    BY <1>2
  <2>2. QED
    BY <1>2, <1>7, <2>1 DEF Types, IInv
<1>14. Flow' /\ Counted'
  BY <1>2, <1>7 DEF Flow, Counted, Owed, IInv
<1>15. QED
  BY <1>12, <1>13, <1>14 DEF IInv

(* What is stored at a reference of the tree.                                *)
LEMMA TakenIsTree ==
  ASSUME NEW S, NEW W, Types, Stack(S, W), Loose(kids, words, S, W, here, cur),
         RegionOK', Nodes' = Nodes, words' = words, kids' = [kids EXCEPT ![here] = cur]
  PROVE  Region(Nodes', kids', words', W) /\ Tree(kids', words', S, W, NoRef)
<1>1. S \in SUBSET Nodes /\ Region(Nodes, kids, words, W)
  BY Spots
<1>2. Tree(kids', words', S, W, NoRef)
  BY <1>1, Attach
<1>3. (RegionOK => ViewTypes)'
  BY ViewsTyped, PTL
<1>4. kids' \in [From(Nodes) -> Nodes \cup {NULL}]
  BY <1>3 DEF ViewTypes
<1>5. Region(Nodes', kids', words', W)
  BY <1>1, <1>4 DEF Region
<1>6. QED
  BY <1>2, <1>5

(* A loose node is not in the frames.                                        *)
LEMMA LooseApart ==
  ASSUME NEW S, NEW W, Types, Stack(S, W), NEW z, NEW v, Loose(kids, words, S, W, z, v), v # NULL,
         z = here \/ (z \in S \X Sides /\ kids[here] = z[1])
  PROVE  v \in S /\ \A k \in 0 .. Len(path) : trail[k][1] # v
<1>1. /\ Len(path) \in Nat /\ here = trail[Len(path)] /\ here \in From(S)
      /\ S \in SUBSET Nodes /\ Region(Nodes, kids, words, W)
      /\ Frames(Len(path), trail, kids, words, S, W, item)
      /\ here # RootRef => here \in S \X Sides
  BY Spots, FromIs
<1>2. v \in S /\ words[v] \in W[v] /\ (z # RootRef => W[v] \subseteq Part(words, W, z))
  BY DEF Loose, Tree
<1>3. here # RootRef => words[v] \in Part(words, W, here)
  <2>1. CASE z = here
    BY <1>2, <2>1
  <2>2. CASE z # here /\ here # RootRef
    <3>1. PICK n, s : z = <<n, s>> /\ n \in S /\ s \in Sides /\ n = z[1]
      BY <2>2, FromIs
    <3>2. words[v] \in Part(words, W, <<n, s>>)
      BY <1>2, <3>1, Refs
    <3>3. W[n] \subseteq Part(words, W, here)
      <4>1. n # NULL /\ kids[here] = n
        BY <1>1, <2>2, <3>1 DEF Region, NULL
      <4>2. QED
        BY <1>1, <2>2, <4>1 DEF Loose, Tree
    <3>4. QED
      BY <1>1, <1>2, <3>1, <3>2, <3>3, Deeper
  <2>3. QED
    BY <2>1, <2>2
<1>4. PICK T, L : T = trail /\ L = Len(path)
  OBVIOUS
<1>5. /\ L \in Nat /\ Frames(L, T, kids, words, S, W, item) /\ v \in Nodes
      /\ T[L] # RootRef => words[v] \in Part(words, W, T[L])
  BY <1>1, <1>2, <1>3, <1>4
<1>6. \A k \in 0 .. L : T[k][1] # v
  <2>1. MayBeneath(Nodes, kids, words, S, W, L, T, item, v)
    BY <1>1, <1>5 DEF MayBeneath
  <2>2. QED
    BY <2>1, Beneath
<1>7. QED
  BY <1>2, <1>4, <1>6

LEMMA StepTakeResult == IInv /\ TakeResult => IInv'
<1> SUFFICES ASSUME IInv, TakeResult PROVE IInv'
  OBVIOUS
<1>1. PICK S, W : Shape(S, W)
  BY DEF IInv
<1>2. PICK n, s, v : n = path[Len(path)].node /\ s = path[Len(path)].side /\ v = cur
  OBVIOUS
<1>3. /\ mem' = [mem EXCEPT ![n][s] = v] /\ root' = root /\ RegionOK
      /\ path' = path /\ path # <<>> /\ cur' = n /\ todo' = <<>> /\ todo = <<>>
      /\ item' = item /\ item \in Words /\ rc' = rc
      /\ items' = items /\ unique' = unique /\ bag' = bag /\ calls' = calls /\ crashed' = crashed
      /\ pc = "back" /\ pc' = "check" /\ v \in Nodes \cup {NULL}
  BY <1>2 DEF history, IInv, Types, Flow, TakeResult
<1>4. /\ Len(path) \in 1 .. Len(path) /\ here = <<n, s>> /\ here # RootRef /\ here[1] = n /\ n \in Nodes /\ s \in Sides
  BY <1>2, <1>3, TrailIs DEF IInv, Types
<1>5. Returning(S, W)
  BY <1>1, <1>3, NoneLeft
<1>6. /\ RegionOK' /\ Nodes' = Nodes /\ words' = words /\ heights' = heights /\ counts' = counts
      /\ kids' = [kids EXCEPT ![here] = v]
  BY <1>3, <1>4, LinkStored
<1>7. /\ Len(path) \in Nat /\ here = trail[Len(path)] /\ here \in From(S) /\ here \in From(Nodes)
      /\ S \in SUBSET Nodes /\ Region(Nodes, kids, words, W) /\ Sized(Nodes, kids, heights)
      /\ Frames(Len(path), trail, kids, words, S, W, item)
      /\ Stack(S, W) /\ Loose(kids, words, S, W, here, v)
  BY <1>2, <1>5, Spots DEF IInv, Returning
<1>8. Region(Nodes', kids', words', W) /\ Tree(kids', words', S, W, NoRef)
  BY <1>2, <1>6, <1>7, TakenIsTree DEF IInv
<1>9. trail' = trail /\ here' = here /\ Len(path') = Len(path)
  BY <1>3, SameTrail
<1>10. Frames(Len(path), trail, kids', words, S, W, item)
  <2>1. PICK R : R = kids'
    OBVIOUS
  <2>2. R = [kids EXCEPT ![trail[Len(path)]] = v] /\ \A m \in S : words[m] \in W[m]
    BY <1>6, <1>7, <2>1 DEF Loose, Tree
  <2>3. Frames(Len(path), trail, R, words, S, W, item)
    BY <1>7, <2>2, FramesTake
  <2>4. QED
    BY <2>1, <2>3
<1>11. Idle(S, W)' /\ Stack(S, W)'
  BY <1>3, <1>6, <1>7, <1>8, <1>9, <1>10 DEF Idle, Stack, Placed
<1>12. ASSUME ~crashed
       PROVE  /\ S = Nodes /\ Rest(Nodes, kids', heights, {here[1]})
              /\ \E e \in Int : /\ Awaits(kids', heights, here, e)
                                /\ Arrived(kids', words, heights, item, kids'[here], e)
  <2>1. S = Nodes /\ Comes
    BY <1>3, <1>5, <1>12 DEF Returning, Turned
  <2>2. PICK e \in Int : Coming(Nodes, kids, words, heights, item, here, v, e)
    BY <1>2, <2>1 DEF Comes
  <2>3. v # NULL => heights[v] = Due(kids, heights, v)
    BY <1>2, <1>3, <2>1 DEF Comes
  <2>4. v # NULL => v # here[1]
    <3>1. ASSUME v # NULL PROVE v # here[1]
      <4>1. \A k \in 0 .. Len(path) : trail[k][1] # v
        BY <1>7, <3>1, LooseApart DEF IInv
      <4>2. Len(path) \in 0 .. Len(path)
        BY <1>7
      <4>3. QED
        BY <1>7, <4>1, <4>2
    <3>2. QED
      BY <3>1
  <2>5. PICK L : L = kids'
    OBVIOUS
  <2>6. L = [kids EXCEPT ![here] = v]
    BY <1>6, <2>5
  <2>7. /\ Rest(Nodes, L, heights, {here[1]}) /\ Awaits(L, heights, here, e)
        /\ Arrived(L, words, heights, item, v, e) /\ L[here] = v
    <3>1. v # NULL => heights[v] = Due(kids, heights, v) /\ v # here[1]
      BY <2>3, <2>4
    <3>2. MayArrive(Nodes, kids, words, heights, item, here, v, e)
      BY <1>3, <1>7, <2>2, <3>1 DEF MayArrive
    <3>3. HasArrived(Nodes, L, words, heights, item, here, v, e)
      BY <2>6, <3>2, Arrives
    <3>4. QED
      BY <3>3 DEF HasArrived
  <2>8. QED
    BY <2>1, <2>5, <2>7
<1>13. Checking(S, W)'
  <2>1. (crashed \/ (/\ S = Nodes /\ Rest(Nodes, kids, heights, {here[1]})
                     /\ \E e \in Int : /\ Awaits(kids, heights, here, e)
                                       /\ Arrived(kids, words, heights, item, kids[here], e)))'
    BY <1>3, <1>6, <1>9, <1>12
  <2>2. QED
    BY <1>3, <1>11, <2>1 DEF Checking
<1>14. Shape(S, W)'
  BY <1>3, <1>13 DEF Shape
<1>15. Types'
  BY <1>3, <1>4, <1>6 DEF Types, IInv
<1>16. Flow' /\ Counted'
  BY <1>3, <1>6 DEF Flow, Counted, Owed, IInv
<1>17. QED
  BY <1>14, <1>15, <1>16 DEF IInv

(* The heights when update() looks at n after a call on its side s, and the  *)
(* reference to n is y.                                                      *)
Tipped(N, K, I, D, i, y, n, s, e) ==
  /\ Sized(N, K, D) /\ y \in From(N) /\ K[y] = n /\ n \in N /\ s \in Sides /\ y[1] # n
  /\ Rest(N, K, D, {n}) /\ e \in Int
  /\ Awaits(K, D, <<n, s>>, e) /\ Arrived(K, I, D, i, K[<<n, s>>], e) /\ On(i, I[n], s)

LEMMA TippedAwaits ==
  ASSUME NEW N, NEW K, NEW I, NEW D, NEW i, NEW y, NEW n, NEW s, NEW e, Tipped(N, K, I, D, i, y, n, s, e)
  PROVE  Awaits(K, D, y, D[n]) /\ D[n] \in Int
<1> USE DEF Tipped
<1>1. PICK U : U = {n}
  OBVIOUS
<1>2. y[1] \notin U /\ Rest(N, K, D, U)
  BY <1>1
<1>3. Awaits(K, D, y, Deep(D, K[y])) /\ Deep(D, K[y]) \in Int
  BY <1>2, RestAwaits
<1>4. n # NULL
  BY DEF Sized, NULL
<1>5. QED
  BY <1>3, <1>4 DEF Deep

LEMMA StandsComes ==
  ASSUME NEW N, NEW K, NEW I, NEW D, NEW i, NEW y, NEW n, NEW s, NEW e, Tipped(N, K, I, D, i, y, n, s, e),
         Level(K, D, n)
  PROVE  D[n] \in Int /\ Coming(N, K, I, D, i, y, n, D[n])
<1>1. Awaits(K, D, y, D[n]) /\ D[n] \in Int
  BY TippedAwaits
<1> USE DEF Tipped
<1>2. Due(K, D, n) = D[n] \/ (Due(K, D, n) = D[n] + 1 /\ Grown(K, I, D, i, n, Due(K, D, n)))
  BY Stands
<1>3. n # NULL /\ Rest(N, K, D, {y[1], n})
  BY DEF Sized, NULL, Rest
<1>4. QED
  BY <1>1, <1>2, <1>3 DEF Coming

(* The height d of the other side, if n leans then.                          *)
Fallen(N, K, I, D, i, n, s, c, d) ==
  /\ d \in Int /\ d >= -1 /\ D[n] = d + 2 /\ Deep(D, K[<<n, Other(s)>>]) = d
  /\ c \in N /\ c # NULL
  /\ \E t \in Sides : /\ On(i, I[c], t) /\ Deep(D, K[<<c, t>>]) = d + 1
                      /\ Deep(D, K[<<c, Other(t)>>]) = d

LEMMA Falls ==
  ASSUME NEW N, NEW K, NEW I, NEW D, NEW i, NEW y, NEW n, NEW s, NEW e, Tipped(N, K, I, D, i, y, n, s, e),
         ~Level(K, D, n), NEW c, c = K[<<n, s>>]
  PROVE  \E d : Fallen(N, K, I, D, i, n, s, c, d)
<1> USE DEF Tipped
<1> DEFINE a == Deep(D, c)
           b == Deep(D, K[<<n, Other(s)>>])
<1>1. /\ a \in Int /\ b \in Int /\ a >= -1 /\ b >= -1
      /\ c \in N \cup {NULL} /\ ~(a - b \in -1 .. 1)
  BY DueIs
<1>2. D[n] = 1 + Higher(e, b) /\ e - b \in -1 .. 1
  BY Refs DEF Awaits
<1>3. a = e \/ (a = e + 1 /\ c # NULL /\ D[c] = a /\ Grown(K, I, D, i, c, a))
  BY <1>1, DeepIs DEF Arrived, Deep
<1> HIDE DEF a, b
<1>4. a = b + 2 /\ D[n] = b + 2 /\ a # e
  BY <1>1, <1>2, <1>3 DEF Higher
<1>5. c # NULL /\ c \in N /\ a # 0 /\ a - 1 = b + 1 /\ a - 2 = b /\ Grown(K, I, D, i, c, a)
  BY <1>1, <1>3, <1>4
<1>6. PICK t \in Sides : /\ On(i, I[c], t) /\ Deep(D, K[<<c, t>>]) = b + 1
                         /\ Deep(D, K[<<c, Other(t)>>]) = b
  BY <1>5 DEF Grown
<1>7. QED
  BY <1>1, <1>4, <1>5, <1>6 DEF b, Fallen

LEMMA FallsTurn ==
  ASSUME NEW N, NEW K, NEW I, NEW D, NEW i, NEW y, NEW n, NEW s, NEW e, Tipped(N, K, I, D, i, y, n, s, e),
         ~Level(K, D, n), NEW c, c = K[<<n, s>>], c # NULL => On(i, I[c], s) /\ ~On(i, I[c], Other(s))
  PROVE  c \in N /\ c # NULL /\ \E d \in Int : TurnDue(N, K, D, y, n, s, c, d)
<1>1. Awaits(K, D, y, D[n])
  BY TippedAwaits
<1> USE DEF Tipped
<1>2. PICK d : Fallen(N, K, I, D, i, n, s, c, d)
  BY Falls
<1> USE DEF Fallen
<1>3. Deep(D, K[<<c, s>>]) = d + 1 /\ Deep(D, K[<<c, Other(s)>>]) = d
  <2>1. PICK t \in Sides : On(i, I[c], t) /\ Deep(D, K[<<c, t>>]) = d + 1 /\ Deep(D, K[<<c, Other(t)>>]) = d
    BY <1>2
  <2>2. t = s
    BY <1>2, <2>1, OtherSide
  <2>3. QED
    BY <2>1, <2>2
<1>4. Rest(N, K, D, {y[1], n, c})
  BY DEF Rest
<1>5. Deep(D, K[<<c, Other(s)>>]) \in {d - 1, d}
  BY <1>3
<1>6. TurnDue(N, K, D, y, n, s, c, d)
  BY <1>1, <1>2, <1>3, <1>4, <1>5 DEF TurnDue
<1>7. QED
  BY <1>2, <1>6

(* i is inside c, the child of n on side s, where x is.                      *)
Inside(K, I, i, n, s, c, x) ==
  c = K[<<n, s>>] /\ (c # NULL => ~On(i, I[c], s)) /\ x = K[<<c, Other(s)>>] /\ x # n

LEMMA FallsTwice ==
  ASSUME NEW N, NEW K, NEW I, NEW D, NEW i, NEW y, NEW n, NEW s, NEW e, Tipped(N, K, I, D, i, y, n, s, e),
         ~Level(K, D, n), NEW c, NEW x, Inside(K, I, i, n, s, c, x)
  PROVE  /\ c \in N /\ c # NULL /\ x \in N /\ x # NULL
         /\ \E d \in Int : TwiceDue(N, K, D, y, n, s, c, x, d)
<1>1. Awaits(K, D, y, D[n])
  BY TippedAwaits
<1> USE DEF Tipped, Inside
<1>2. PICK d : Fallen(N, K, I, D, i, n, s, c, d)
  BY Falls
<1> USE DEF Fallen
<1>3. Deep(D, K[<<c, s>>]) = d /\ Deep(D, x) = d + 1
  <2>1. PICK t \in Sides : On(i, I[c], t) /\ Deep(D, K[<<c, t>>]) = d + 1 /\ Deep(D, K[<<c, Other(t)>>]) = d
    BY <1>2
  <2>2. t = Other(s) /\ Other(t) = s
    BY <1>2, <2>1, OtherSide
  <2>3. QED
    BY <2>1, <2>2
<1>4. x \in N /\ x # NULL /\ D[x] = d + 1
  <2>1. x \in N \cup {NULL}
    BY <1>2, DueIs
  <2>2. QED
    BY <1>2, <1>3, <2>1, DeepIs
<1>5. Deep(D, K[<<x, s>>]) \in {d - 1, d} /\ Deep(D, K[<<x, Other(s)>>]) \in {d - 1, d}
  <2>1. D[x] = Due(K, D, x) /\ Level(K, D, x)
    BY <1>4 DEF Rest, Settled
  <2>2. PICK a, b : a = Deep(D, K[<<x, s>>]) /\ b = Deep(D, K[<<x, Other(s)>>])
    OBVIOUS
  <2>3. a \in Int /\ b \in Int /\ Due(K, D, x) = 1 + Higher(a, b) /\ a - b \in -1 .. 1
    BY <1>4, <2>1, <2>2, DueIs
  <2>4. 1 + Higher(a, b) = d + 1
    BY <1>4, <2>1, <2>3
  <2>5. a \in {d - 1, d} /\ b \in {d - 1, d}
    BY <1>2, <2>3, <2>4 DEF Higher
  <2>6. QED
    BY <2>2, <2>5
<1>6. Rest(N, K, D, {y[1], n, c, x})
  BY DEF Rest
<1>7. TwiceDue(N, K, D, y, n, s, c, x, d)
  BY <1>1, <1>2, <1>3, <1>5, <1>6 DEF TwiceDue
<1>8. QED
  BY <1>2, <1>4, <1>7

(* Tuples, put together.                                                      *)
Joins(X, r, s, t) ==
  /\ r \in Seq(X) /\ s \in Seq(X) /\ t \in Seq(X) /\ Len(t) = Len(r) + Len(s)
  /\ \A j \in 1 .. Len(r) : t[j] = r[j]
  /\ \A j \in 1 .. Len(s) : t[Len(r) + j] = s[j]

LEMMA Joined ==
  ASSUME NEW X, NEW r, NEW s, NEW t, Joins(X, r, s, t)
  PROVE  r \o s = t
<1> USE DEF Joins
<1>1. r \o s \in Seq(X) /\ Len(r \o s) = Len(r) + Len(s)
  OBVIOUS
<1>2. ASSUME NEW j \in 1 .. Len(t) PROVE (r \o s)[j] = t[j]
  <2>1. CASE j <= Len(r)
    BY <2>1
  <2>2. CASE j > Len(r)
    <3>1. PICK k \in 1 .. Len(s) : j = Len(r) + k
      <4>1. j - Len(r) \in 1 .. Len(s) /\ j = Len(r) + (j - Len(r))
        BY <2>2
      <4>2. QED
        BY <4>1
    <3>2. QED
      BY <2>2, <3>1
  <2>3. QED
    BY <2>1, <2>2
<1>3. QED
  BY <1>1, <1>2, SeqEqual

LEMMA AppendTo4 ==
  ASSUME NEW a1, NEW a2, NEW a3, NEW a4, NEW a5
  PROVE  Append(<<a1, a2, a3, a4>>, a5) = <<a1, a2, a3, a4, a5>>
<1>1. PICK X : X = {a1, a2, a3, a4, a5}
  OBVIOUS
<1>2. PICK s, t : s = <<a1, a2, a3, a4>> /\ t = <<a1, a2, a3, a4, a5>>
  OBVIOUS
<1>3. s \in Seq(X) /\ t \in Seq(X) /\ Len(s) = 4 /\ Len(t) = 5
      /\ Append(s, a5) \in Seq(X) /\ Len(Append(s, a5)) = 5
  BY <1>1, <1>2
<1>4. \A j \in 1 .. 4 : s[j] = t[j]
  BY <1>2
<1>5. \A j \in 1 .. 5 : Append(s, a5)[j] = t[j]
  BY <1>2, <1>3, <1>4
<1>6. QED
  BY <1>2, <1>3, <1>5, SeqEqual

LEMMA Join4To1 ==
  ASSUME NEW a1, NEW a2, NEW a3, NEW a4, NEW a5
  PROVE  <<a1, a2, a3, a4>> \o <<a5>> = <<a1, a2, a3, a4, a5>>
<1>1. PICK X : X = {a1, a2, a3, a4, a5}
  OBVIOUS
<1>2. PICK r, s, t : r = <<a1, a2, a3, a4>> /\ s = <<a5>> /\ t = <<a1, a2, a3, a4, a5>>
  OBVIOUS
<1>3. r \in Seq(X) /\ s \in Seq(X) /\ t \in Seq(X) /\ Len(r) = 4 /\ Len(s) = 1 /\ Len(t) = 5
  BY <1>1, <1>2
<1>4. (\A j \in 1 .. 4 : t[j] = r[j]) /\ \A j \in 1 .. 1 : t[4 + j] = s[j]
  BY <1>2
<1>5. Joins(X, r, s, t)
  BY <1>3, <1>4 DEF Joins
<1>6. QED
  BY <1>2, <1>5, Joined

LEMMA Join5To4 ==
  ASSUME NEW a1, NEW a2, NEW a3, NEW a4, NEW a5, NEW a6, NEW a7, NEW a8, NEW a9
  PROVE  <<a1, a2, a3, a4, a5>> \o <<a6, a7, a8, a9>> = <<a1, a2, a3, a4, a5, a6, a7, a8, a9>>
<1>1. PICK X : X = {a1, a2, a3, a4, a5, a6, a7, a8, a9}
  OBVIOUS
<1>2. PICK r, s, t : r = <<a1, a2, a3, a4, a5>> /\ s = <<a6, a7, a8, a9>> /\ t = <<a1, a2, a3, a4, a5, a6, a7, a8, a9>>
  OBVIOUS
<1>3. r \in Seq(X) /\ s \in Seq(X) /\ t \in Seq(X) /\ Len(r) = 5 /\ Len(s) = 4 /\ Len(t) = 9
  BY <1>1, <1>2
<1>4. (\A j \in 1 .. 5 : t[j] = r[j]) /\ \A j \in 1 .. 4 : t[5 + j] = s[j]
  BY <1>2
<1>5. Joins(X, r, s, t)
  BY <1>3, <1>4 DEF Joins
<1>6. QED
  BY <1>2, <1>5, Joined

LEMMA AppendTo9 ==
  ASSUME NEW a1, NEW a2, NEW a3, NEW a4, NEW a5, NEW a6, NEW a7, NEW a8, NEW a9, NEW a10
  PROVE  Append(<<a1, a2, a3, a4, a5, a6, a7, a8, a9>>, a10) = <<a1, a2, a3, a4, a5, a6, a7, a8, a9, a10>>
<1>1. PICK X : X = {a1, a2, a3, a4, a5, a6, a7, a8, a9, a10}
  OBVIOUS
<1>2. PICK s, t : s = <<a1, a2, a3, a4, a5, a6, a7, a8, a9>> /\ t = <<a1, a2, a3, a4, a5, a6, a7, a8, a9, a10>>
  OBVIOUS
<1>3. s \in Seq(X) /\ t \in Seq(X) /\ Len(s) = 9 /\ Len(t) = 10
      /\ Append(s, a10) \in Seq(X) /\ Len(Append(s, a10)) = 10
  BY <1>1, <1>2
<1>4. \A j \in 1 .. 9 : s[j] = t[j]
  BY <1>2
<1>5. \A j \in 1 .. 10 : Append(s, a10)[j] = t[j]
  BY <1>2, <1>3, <1>4
<1>6. QED
  BY <1>2, <1>3, <1>5, SeqEqual

(* The stores of a rotation, with the depth that update() sets after it.     *)
LEMMA TurnStores ==
  ASSUME NEW n, NEW s, NEW r, r = mem[n][s]
  PROVE  Append(Rotate(n, s), SetDepth(r)) = Turn5(n, s, r, mem[r][Other(s)])
<1>2. Rotate(n, s) = <<Link(n, s, mem[r][Other(s)]), Link(r, Other(s), n), SetDepth(n), SetDepth(r)>>
  BY DEF Rotate
<1>3. QED
  BY <1>2, AppendTo4 DEF Turn5

Lifts(n, s, c, x) == s \in Sides /\ c = mem[n][s] /\ x = mem[c][Other(s)]

LEMMA TwiceStores ==
  ASSUME NEW n, NEW s, NEW c, NEW x, Lifts(n, s, c, x)
  PROVE  Append(RotateTwice(n, s), SetDepth(x)) = Twice10(n, s, c, x, mem[x][s], mem[x][Other(s)])
<1> USE DEF Lifts
<1>1. Other(Other(s)) = s
  BY OtherSide
<1>2. Rotate(c, Other(s)) = <<Link(c, Other(s), mem[x][s]), Link(x, s, c), SetDepth(c), SetDepth(x)>>
  BY <1>1 DEF Rotate
<1>3. PICK a1, a2, a3, a4, a5, a6, a7, a8, a9, a0 :
        /\ a1 = Link(c, Other(s), mem[x][s]) /\ a2 = Link(x, s, c) /\ a3 = SetDepth(c) /\ a4 = SetDepth(x)
        /\ a5 = Link(n, s, x) /\ a6 = Link(n, s, mem[x][Other(s)]) /\ a7 = Link(x, Other(s), n)
        /\ a8 = SetDepth(n) /\ a9 = SetDepth(x) /\ a0 = SetDepth(x)
  OBVIOUS
<1>4. Rotate(c, Other(s)) = <<a1, a2, a3, a4>>
  BY <1>2, <1>3
<1>5. RotateTwice(n, s) = <<a1, a2, a3, a4>> \o <<a5>> \o <<a6, a7, a8, a9>>
  BY <1>3, <1>4 DEF RotateTwice
<1>6. <<a1, a2, a3, a4>> \o <<a5>> = <<a1, a2, a3, a4, a5>>
  BY Join4To1
<1>7. <<a1, a2, a3, a4, a5>> \o <<a6, a7, a8, a9>> = <<a1, a2, a3, a4, a5, a6, a7, a8, a9>>
  BY Join5To4
<1>8. Append(<<a1, a2, a3, a4, a5, a6, a7, a8, a9>>, a0) = <<a1, a2, a3, a4, a5, a6, a7, a8, a9, a0>>
  BY AppendTo9
<1>9. Append(RotateTwice(n, s), a0) = <<a1, a2, a3, a4, a5, a6, a7, a8, a9, a0>>
  BY <1>5, <1>6, <1>7, <1>8
<1>10. QED
  BY <1>3, <1>9 DEF Twice10

(* The ways in which update() leaves the frame of n, whose child on the side  *)
(* it came from is c; x is the grandchild inside.                            *)
Outcome(n, s, c, x) ==
  \/ ~Leans(n) /\ pc' = "back" /\ cur' = n /\ todo' = <<SetDepth(n)>>
     /\ path' = SubSeq(path, 1, Len(path) - 1)
  \/ Leans(n) /\ c = NULL /\ pc' = "fault" /\ UNCHANGED <<cur, todo, path>>
  \/ Leans(n) /\ c # NULL /\ On(item, mem[c].item, s) /\ pc' = "back" /\ cur' = c
     /\ todo' = Append(Rotate(n, s), SetDepth(c)) /\ path' = SubSeq(path, 1, Len(path) - 1)
  \/ Leans(n) /\ c # NULL /\ ~On(item, mem[c].item, s) /\ x = NULL /\ pc' = "fault"
     /\ UNCHANGED <<cur, todo, path>>
  \/ Leans(n) /\ c # NULL /\ ~On(item, mem[c].item, s) /\ x # NULL /\ pc' = "back" /\ cur' = x
     /\ todo' = Append(RotateTwice(n, s), SetDepth(x)) /\ path' = SubSeq(path, 1, Len(path) - 1)

LEMMA RebalanceIs ==
  ASSUME Rebalance, NEW n, n = path[Len(path)].node, NEW s, s = path[Len(path)].side,
         NEW c, c = mem[n][s], NEW x, x = mem[c][Other(s)]
  PROVE  Outcome(n, s, c, x)
<1>1. Append(<<>>, SetDepth(n)) = <<SetDepth(n)>>
  OBVIOUS
<1>2. PICK o : o = (IF s = "left" THEN item < mem[c].item ELSE item > mem[c].item)
  OBVIOUS
<1>3. \/ ~Leans(n) /\ pc' = "back" /\ cur' = n /\ todo' = <<SetDepth(n)>>
         /\ path' = SubSeq(path, 1, Len(path) - 1)
      \/ Leans(n) /\ c = NULL /\ pc' = "fault" /\ UNCHANGED <<cur, todo, path>>
      \/ Leans(n) /\ c # NULL /\ o /\ pc' = "back" /\ cur' = c
         /\ todo' = Append(Rotate(n, s), SetDepth(c)) /\ path' = SubSeq(path, 1, Len(path) - 1)
      \/ Leans(n) /\ c # NULL /\ ~o /\ x = NULL /\ pc' = "fault"
         /\ UNCHANGED <<cur, todo, path>>
      \/ Leans(n) /\ c # NULL /\ ~o /\ x # NULL /\ pc' = "back" /\ cur' = x
         /\ todo' = Append(RotateTwice(n, s), SetDepth(x)) /\ path' = SubSeq(path, 1, Len(path) - 1)
  BY <1>1, <1>2, Zenon DEF Rebalance
<1>4. o <=> On(item, mem[c].item, s)
  BY <1>2 DEF On
<1>5. QED
  BY <1>3, <1>4, Zenon DEF Outcome

LEMMA StepRebalance == IInv /\ Rebalance => IInv'
<1> SUFFICES ASSUME IInv, Rebalance PROVE IInv'
  OBVIOUS
<1>1. PICK S, W : Shape(S, W)
  BY DEF IInv
<1>2. PICK n, s, c, x : /\ n = path[Len(path)].node /\ s = path[Len(path)].side
                        /\ c = mem[n][s] /\ x = mem[c][Other(s)]
  OBVIOUS
<1>3. /\ mem' = mem /\ root' = root /\ RegionOK
      /\ path # <<>> /\ todo = <<>> /\ path \in Seq([node : Nodes, side : Sides])
      /\ item' = item /\ item \in Words /\ rc' = rc
      /\ items' = items /\ unique' = unique /\ bag' = bag /\ calls' = calls /\ crashed' = crashed
      /\ pc = "check" /\ cur \in Nodes \cup {NULL}
  <2>1. UNCHANGED <<scm, item, rc, history>> /\ pc = "check"
    BY DEF Rebalance
  <2>2. path # <<>>
    BY <1>1, <2>1 DEF Shape, Checking
  <2>3. QED
    BY <2>1, <2>2 DEF scm, history, IInv, Types, Flow
<1>4. /\ RegionOK' /\ Nodes' = Nodes /\ counts' = counts /\ words' = words /\ kids' = kids /\ heights' = heights
      /\ ViewTypes
  BY <1>3, Same, ViewsTyped
<1>5. /\ Len(path) \in 1 .. Len(path) /\ here = <<n, s>> /\ here # RootRef /\ here[1] = n /\ n \in Nodes /\ s \in Sides
  BY <1>2, <1>3, TrailIs
<1>6. Checking(S, W) /\ Idle(S, W) /\ Stack(S, W) /\ Tree(kids, words, S, W, NoRef)
  BY <1>1, <1>3 DEF Shape, Checking, Idle
<1>7. /\ Len(path) \in Nat /\ here = trail[Len(path)] /\ S \in SUBSET Nodes /\ Region(Nodes, kids, words, W)
      /\ Frames(Len(path), trail, kids, words, S, W, item) /\ Sized(Nodes, kids, heights)
      /\ On(item, words[n], s) /\ n \in S
  BY <1>5, <1>6, Spots, Refs DEF IInv
<1>8. Other(s) \in Sides /\ Other(Other(s)) = s /\ n # NULL
  BY <1>5, <1>7, OtherSide DEF Region, NULL
\* The child, and the grandchild inside.
<1>9. c = kids[<<n, s>>] /\ (c # NULL => c \in S /\ c \in Nodes /\ c # n /\ W[c] \subseteq W[n]
                                       /\ words[c] = mem[c].item /\ words[c] \in Nat /\ item \in Nat)
  <2>1. c = kids[<<n, s>>]
    BY <1>2, <1>3, <1>5, Views
  <2>2. ASSUME c # NULL PROVE c \in S /\ W[c] \subseteq Part(words, W, <<n, s>>) /\ words[c] \in W[c]
    BY <1>5, <1>6, <1>7, <2>1, <2>2, Refs DEF Tree
  <2>3. ASSUME c # NULL PROVE c # n /\ W[c] \subseteq W[n]
    BY <1>5, <1>7, <2>2, <2>3, PartIs
  <2>4. ASSUME c # NULL PROVE words[c] = mem[c].item /\ words[c] \in Nat /\ item \in Nat
    BY <1>3, <1>7, <2>2, <2>4, Views, AVLAssumption
  <2>5. QED
    BY <1>7, <2>1, <2>2, <2>3, <2>4
<1>10. ASSUME c # NULL
       PROVE  /\ x = kids[<<c, Other(s)>>] /\ kids[<<c, s>>] = mem[c][s]
              /\ x # NULL => x \in S /\ x \in Nodes /\ x # n /\ x # c
  <2>1. x = kids[<<c, Other(s)>>] /\ kids[<<c, s>>] = mem[c][s]
    BY <1>2, <1>3, <1>5, <1>8, <1>9, <1>10, Views
  <2>2. ASSUME x # NULL PROVE x \in S /\ x # c /\ x # n
    <3>1. PICK t : t = Other(s)
      OBVIOUS
    <3>2. x \in S /\ W[x] \subseteq Part(words, W, <<c, t>>) /\ words[x] \in W[x]
      <4>1. <<c, t>> \in From(S) /\ <<c, t>> \in S \X Sides
        BY <1>8, <1>9, <1>10, <3>1, Refs
      <4>2. QED
        BY <1>6, <2>1, <2>2, <3>1, <4>1 DEF Tree
    <3>3. words[x] \in W[c] /\ x # c
      BY <1>7, <1>8, <1>9, <1>10, <3>1, <3>2, PartIs
    <3>4. W[c] \subseteq Part(words, W, <<n, s>>)
      BY <1>5, <1>6, <1>7, <1>9, <1>10, Refs DEF Tree
    <3>5. x # n
      BY <1>5, <1>7, <3>3, <3>4, PartIs
    <3>6. QED
      BY <3>2, <3>3, <3>5
  <2>3. QED
    BY <1>7, <2>1, <2>2
\* The frame of the caller, and the reference to n.
<1>11. PICK M \in Nat : Len(path) = M + 1
  BY <1>5, <1>7
<1>12. PICK y : y = trail[M]
  OBVIOUS
<1>13. /\ Frames(M, trail, kids, words, S, W, item) /\ kids[y] = n /\ y \in From(S) /\ y \in From(Nodes)
  <2>1. Frames(M, trail, kids, words, S, W, item) /\ kids[trail[M]] = trail[Len(path)][1]
    BY <1>7, <1>11, Pop
  <2>2. M \in 0 .. M
    OBVIOUS
  <2>3. y \in From(S)
    BY <1>12, <2>1, <2>2, FrameIs
  <2>4. QED
    BY <1>5, <1>7, <1>12, <2>1, <2>3, FromGrows
<1>14. y[1] # n
  <2>1. y # RootRef => words[n] \in Part(words, W, y)
    <3>1. y # RootRef => y \in S \X Sides
      BY <1>13, FromIs
    <3>2. QED
      BY <1>6, <1>7, <1>8, <1>13, <3>1 DEF Tree
  <2>2. MayBeneath(Nodes, kids, words, S, W, M, trail, item, n)
    BY <1>5, <1>7, <1>12, <1>13, <2>1 DEF MayBeneath
  <2>3. \A k \in 0 .. M : trail[k][1] # n
    BY <2>2, Beneath
  <2>4. M \in 0 .. M
    OBVIOUS
  <2>5. QED
    BY <1>12, <2>3, <2>4
<1>15. ~crashed => S = Nodes /\ \E e : Tipped(Nodes, kids, words, heights, item, y, n, s, e)
  <2>1. ASSUME ~crashed PROVE \E e : Tipped(Nodes, kids, words, heights, item, y, n, s, e)
    <3>1. /\ Rest(Nodes, kids, heights, {n})
          /\ \E e \in Int : /\ Awaits(kids, heights, here, e)
                            /\ Arrived(kids, words, heights, item, kids[here], e)
      BY <1>5, <1>6, <2>1 DEF Checking
    <3>2. QED
      BY <1>5, <1>7, <1>13, <1>14, <3>1 DEF Tipped
  <2>2. QED
    BY <1>6, <2>1 DEF Checking
<1>16. Leans(n) <=> ~Level(kids, heights, n)
  BY <1>3, <1>5, Reads
<1>17. Idle(S, W)' /\ (Whole(S) => Whole(S)')
  BY <1>3, <1>6, Unstored
\* When the frame is left.
<1>18. ASSUME path' = SubSeq(path, 1, Len(path) - 1)
       PROVE  Stack(S, W)' /\ here' = y /\ path' \in Seq([node : Nodes, side : Sides])
  <2>1. /\ Len(path') \in Nat /\ Len(path) = Len(path') + 1
        /\ \A k \in 0 .. Len(path') : trail'[k] = trail[k]
        /\ path' \in Seq([node : Nodes, side : Sides])
    BY <1>3, <1>18, TrailPopped
  <2>2. Len(path') = M
    BY <1>7, <1>11, <2>1
  <2>3. M \in 0 .. M /\ here' = y
    BY <1>12, <2>1, <2>2 DEF here
  <2>4. PICK U : U = trail'
    OBVIOUS
  <2>5. \A k \in 0 .. M : U[k] = trail[k]
    BY <2>1, <2>2, <2>4
  <2>6. Frames(M, U, kids, words, S, W, item)
    BY <1>7, <1>11, <2>5, Pop
  <2>7. QED
    BY <1>3, <1>4, <1>7, <2>1, <2>2, <2>3, <2>4, <2>6 DEF Stack, Placed
<1>19. \/ ~Leans(n) /\ pc' = "back" /\ cur' = n /\ todo' = <<SetDepth(n)>>
          /\ path' = SubSeq(path, 1, Len(path) - 1)
       \/ Leans(n) /\ c = NULL /\ pc' = "fault" /\ UNCHANGED <<cur, todo, path>>
       \/ Leans(n) /\ c # NULL /\ On(item, mem[c].item, s) /\ pc' = "back" /\ cur' = c
          /\ todo' = Append(Rotate(n, s), SetDepth(c)) /\ path' = SubSeq(path, 1, Len(path) - 1)
       \/ Leans(n) /\ c # NULL /\ ~On(item, mem[c].item, s) /\ x = NULL /\ pc' = "fault"
          /\ UNCHANGED <<cur, todo, path>>
       \/ Leans(n) /\ c # NULL /\ ~On(item, mem[c].item, s) /\ x # NULL /\ pc' = "back" /\ cur' = x
          /\ todo' = Append(RotateTwice(n, s), SetDepth(x)) /\ path' = SubSeq(path, 1, Len(path) - 1)
  <2>1. Outcome(n, s, c, x)
    BY <1>2, RebalanceIs
  <2>2. QED
    BY <2>1, Zenon DEF Outcome
\* n stands, and gets its depth.
<1>20. CASE ~Leans(n) /\ pc' = "back" /\ cur' = n /\ todo' = <<SetDepth(n)>>
            /\ path' = SubSeq(path, 1, Len(path) - 1)
  <2>1. Loose(kids, words, S, W, y, n)
    BY <1>6, <1>7, <1>13, TakeOut
  <2>2. Plain' = Plain /\ SetDepth(n) \in Plain
    BY <1>4, <1>5, PlainIs DEF Plain
  <2>3. ASSUME ~crashed PROVE S = Nodes /\ Comes'
    <3>1. PICK e : Tipped(Nodes, kids, words, heights, item, y, n, s, e)
      BY <1>15, <2>3
    <3>2. PICK d : d = heights[n]
      OBVIOUS
    <3>3. d \in Int /\ Coming(Nodes, kids, words, heights, item, y, n, d)
      BY <1>16, <1>20, <3>1, <3>2, StandsComes
    <3>4. DOMAIN todo' = 1 .. 1 /\ todo'[1] = SetDepth(n) /\ todo'[1].op = "depth" /\ \A k \in 1 .. 1 : k = 1
      BY <1>20, Ops
    <3>5. QED
      BY <1>3, <1>4, <1>15, <1>18, <1>20, <2>3, <3>3, <3>4 DEF Comes
  <2>4. Returning(S, W)'
    <3>1. Loose(kids, words, S, W, here, cur)' /\ (cur # NULL)'
      BY <1>3, <1>4, <1>8, <1>18, <1>20, <2>1
    <3>2. todo' \in Seq(Plain')
      BY <1>20, <2>2
    <3>3. QED
      BY <1>3, <1>4, <1>18, <1>20, <2>3, <3>1, <3>2 DEF Returning
  <2>5. Shape(S, W)'
    BY <1>20, <2>4 DEF Shape
  <2>6. Types'
    BY <1>3, <1>4, <1>5, <1>18, <1>20 DEF Types, IInv
  <2>7. DOMAIN todo' = 1 .. 1 /\ todo' # <<>> /\ todo'[1].op = "depth" /\ Head(todo').op = "depth" /\ \A k \in 1 .. 1 : k = 1
    BY <1>20, Ops
  <2>8. Flow' /\ Counted'
    BY <1>3, <1>4, <1>20, <2>7 DEF Flow, Counted, Owed, IInv
  <2>9. QED
    BY <2>5, <2>6, <2>8 DEF IInv
\* There is nothing to lift: only in a tree that a dead process left.
<1>21. CASE /\ Leans(n) /\ pc' = "fault" /\ UNCHANGED <<cur, todo, path>>
            /\ c = NULL \/ (c # NULL /\ ~On(item, mem[c].item, s) /\ x = NULL)
  <2>1. crashed
    <3>1. SUFFICES ASSUME ~crashed PROVE FALSE
      OBVIOUS
    <3>2. PICK e : Tipped(Nodes, kids, words, heights, item, y, n, s, e)
      BY <1>15, <3>1
    <3>3. CASE c = NULL
      <4>1. c # NULL => On(item, words[c], s) /\ ~On(item, words[c], Other(s))
        BY <3>3
      <4>2. QED
        BY <1>9, <1>16, <1>21, <3>2, <3>3, <4>1, FallsTurn
    <3>4. CASE c # NULL /\ ~On(item, mem[c].item, s) /\ x = NULL
      <4>1. Inside(kids, words, item, n, s, c, x)
        BY <1>8, <1>9, <1>10, <3>4 DEF Inside
      <4>2. x # NULL
        BY <1>9, <1>16, <1>21, <3>2, <4>1, FallsTwice
      <4>3. QED
        BY <3>4, <4>2
    <3>5. QED
      BY <1>21, <3>3, <3>4
  <2>2. Shape(S, W)'
    BY <1>3, <1>17, <1>21, <2>1 DEF Shape
  <2>3. Types'
    BY <1>3, <1>4, <1>21 DEF Types, IInv
  <2>4. Flow' /\ Counted'
    BY <1>3, <1>4, <1>21 DEF Flow, Counted, Owed, IInv
  <2>5. QED
    BY <2>2, <2>3, <2>4 DEF IInv
<1>22. CASE Leans(n) /\ c # NULL /\ On(item, mem[c].item, s) /\ pc' = "back" /\ cur' = c
            /\ todo' = Append(Rotate(n, s), SetDepth(c)) /\ path' = SubSeq(path, 1, Len(path) - 1)
  <2>1. todo' = Turn5(n, s, c, kids[<<c, Other(s)>>])
    BY <1>2, <1>10, <1>22, TurnStores, ZenonT(60)
  <2>2. ASSUME ~crashed PROVE S = Nodes /\ \E d \in Int : TurnDue(Nodes, kids, heights, y, n, s, c, d)
    <3>1. PICK e : Tipped(Nodes, kids, words, heights, item, y, n, s, e)
      BY <1>15, <2>2
    <3>2. c # NULL => On(item, words[c], s) /\ ~On(item, words[c], Other(s))
      BY <1>5, <1>9, <1>22, OnSides
    <3>3. QED
      BY <1>9, <1>15, <1>16, <1>22, <2>2, <3>1, <3>2, FallsTurn
  <2>3. First(S, W, n, s)'
    BY <1>3, <1>4, <1>5, <1>7, <1>9, <1>13, <1>17, <1>18, <1>22, <2>1, <2>2 DEF First, Turns
  <2>4. Shape(S, W)'
    BY <1>22, <2>3 DEF Shape
  <2>5. Types'
    BY <1>3, <1>4, <1>9, <1>18, <1>22 DEF Types, IInv
  <2>6. \A k \in DOMAIN todo' : todo'[k].op # "count"
    BY <2>1, Ops DEF Turn5
  <2>7. Flow' /\ Counted'
    <3>1. todo' # <<>> /\ Head(todo') = todo'[1] /\ 1 \in DOMAIN todo'
      BY <2>1 DEF Turn5
    <3>2. QED
      BY <1>3, <1>4, <1>22, <2>6, <3>1 DEF Flow, Counted, Owed, IInv
  <2>8. QED
    BY <2>4, <2>5, <2>7 DEF IInv
<1>23. CASE Leans(n) /\ c # NULL /\ ~On(item, mem[c].item, s) /\ x # NULL /\ pc' = "back" /\ cur' = x
            /\ todo' = Append(RotateTwice(n, s), SetDepth(x)) /\ path' = SubSeq(path, 1, Len(path) - 1)
  <2>1. x \in Nodes /\ kids[<<x, s>>] = mem[x][s] /\ kids[<<x, Other(s)>>] = mem[x][Other(s)]
    BY <1>3, <1>5, <1>8, <1>10, <1>23, Views
  <2>2. todo' = Twice10(n, s, c, x, kids[<<x, s>>], kids[<<x, Other(s)>>])
    <3>1. Append(RotateTwice(n, s), SetDepth(x)) = Twice10(n, s, c, x, mem[x][s], mem[x][Other(s)])
      <4>1. Lifts(n, s, c, x)
        BY <1>2, <1>5 DEF Lifts
      <4>2. QED
        BY <4>1, TwiceStores
    <3>2. QED
      BY <1>23, <2>1, <3>1
  <2>3. ASSUME ~crashed PROVE S = Nodes /\ \E d \in Int : TwiceDue(Nodes, kids, heights, y, n, s, c, x, d)
    <3>1. PICK e : Tipped(Nodes, kids, words, heights, item, y, n, s, e)
      BY <1>15, <2>3
    <3>2. Inside(kids, words, item, n, s, c, x)
      BY <1>9, <1>10, <1>23 DEF Inside
    <3>3. QED
      BY <1>9, <1>15, <1>16, <1>23, <2>3, <3>1, <3>2, FallsTwice
  <2>4. TwiceFirst(S, W, n, s, c)'
    BY <1>3, <1>4, <1>5, <1>7, <1>9, <1>10, <1>13, <1>17, <1>18, <1>23, <2>2, <2>3 DEF TwiceFirst, Twists
  <2>5. Shape(S, W)'
    BY <1>23, <2>4 DEF Shape
  <2>6. Types'
    BY <1>3, <1>4, <1>18, <1>23, <2>1 DEF Types, IInv
  <2>7. \A k \in DOMAIN todo' : todo'[k].op # "count"
    BY <2>2, Ops DEF Twice10
  <2>8. Flow' /\ Counted'
    <3>1. todo' # <<>> /\ Head(todo') = todo'[1] /\ 1 \in DOMAIN todo'
      BY <2>2 DEF Twice10
    <3>2. QED
      BY <1>3, <1>4, <1>23, <2>7, <3>1 DEF Flow, Counted, Owed, IInv
  <2>9. QED
    BY <2>5, <2>6, <2>8 DEF IInv
<1>24. QED
  BY <1>19, <1>20, <1>21, <1>22, <1>23

(* One store of update().                                                    *)
LEMMA StoreIs ==
  ASSUME Store
  PROVE  /\ todo # <<>> /\ todo' = Tail(todo) /\ root' = root /\ pc' = pc /\ path' = path /\ cur' = cur
         /\ item' = item /\ rc' = rc /\ bag' = bag /\ calls' = calls /\ crashed' = crashed
         /\ items' = items + (IF Head(todo).op = "items" THEN 1 ELSE 0)
         /\ unique' = unique + (IF Head(todo).op = "unique" THEN 1 ELSE 0)
         /\ mem' = CASE Head(todo).op = "link" -> [mem EXCEPT ![Head(todo).node][Head(todo).side] = Head(todo).val]
                     [] Head(todo).op = "depth" -> [mem EXCEPT ![Head(todo).node].depth = depth(Head(todo).node)]
                     [] Head(todo).op = "count" -> [mem EXCEPT ![Head(todo).node].count = @ + 1]
                     [] OTHER -> mem
  BY DEF Store, history

LEMMA StoreLink ==
  ASSUME RegionOK, Store, NEW n \in Nodes, NEW s \in Sides, NEW v \in Nodes \cup {NULL}, Head(todo) = Link(n, s, v)
  PROVE  /\ RegionOK' /\ Nodes' = Nodes /\ ViewTypes'
         /\ words' = words /\ heights' = heights /\ counts' = counts
         /\ kids' = [kids EXCEPT ![<<n, s>>] = v]
<1>1. root' = root /\ mem' = [mem EXCEPT ![n][s] = v]
  BY StoreIs, Ops
<1>2. /\ RegionOK' /\ Nodes' = Nodes
      /\ words' = words /\ heights' = heights /\ counts' = counts
      /\ kids' = [kids EXCEPT ![<<n, s>>] = v]
  BY <1>1, LinkStored
<1>3. (RegionOK => ViewTypes)'
  BY ViewsTyped, PTL
<1>4. QED
  BY <1>2, <1>3

LEMMA StoreDepth ==
  ASSUME RegionOK, Store, NEW n \in Nodes, Head(todo) = SetDepth(n)
  PROVE  /\ RegionOK' /\ Nodes' = Nodes
         /\ words' = words /\ kids' = kids /\ counts' = counts
         /\ heights' = [heights EXCEPT ![n] = Due(kids, heights, n)]
<1>1. depth(n) = Due(kids, heights, n) /\ depth(n) \in Nat
  BY Reads
<1>2. root' = root /\ mem' = [mem EXCEPT ![n].depth = depth(n)]
  BY StoreIs, Ops
<1>3. PICK d \in Nat : d = depth(n)
  BY <1>1
<1>4. mem' = [mem EXCEPT ![n].depth = d]
  BY <1>2, <1>3
<1>5. /\ RegionOK' /\ Nodes' = Nodes
      /\ words' = words /\ kids' = kids /\ counts' = counts
      /\ heights' = [heights EXCEPT ![n] = d]
  BY <1>2, <1>4, DepthStored
<1>6. QED
  BY <1>1, <1>3, <1>5

LEMMA StoreCount ==
  ASSUME RegionOK, Store, NEW n \in Nodes, Head(todo) = IncCount(n)
  PROVE  /\ RegionOK' /\ Nodes' = Nodes
         /\ words' = words /\ kids' = kids /\ heights' = heights
         /\ counts' = [counts EXCEPT ![n] = @ + 1]
<1>1. root' = root /\ mem' = [mem EXCEPT ![n].count = @ + 1]
  BY StoreIs, Ops
<1>2. QED
  BY <1>1, CountStored

LEMMA StoreTotal ==
  ASSUME RegionOK, Store, Head(todo) = IncItems \/ Head(todo) = IncUnique
  PROVE  /\ RegionOK' /\ Nodes' = Nodes
         /\ words' = words /\ kids' = kids /\ heights' = heights /\ counts' = counts
<1>1. root' = root /\ mem' = mem
  BY StoreIs, Ops
<1>2. QED
  BY <1>1, Same

(* The bookkeeping of a store that counts nothing.                           *)
NoCounts ==
  /\ \A k \in DOMAIN todo : todo[k].op # "count"
  /\ todo # <<>> => Head(todo).op # "count"

LEMMA StoreBooks ==
  ASSUME IInv, Store, RegionOK', Nodes' = Nodes, words' = words, counts' = counts, NoCounts'
  PROVE  Types' /\ Flow' /\ Counted'
<1>1. /\ todo # <<>> /\ root' = root /\ pc' = pc /\ path' = path /\ cur' = cur
      /\ item' = item /\ rc' = rc /\ bag' = bag /\ calls' = calls /\ crashed' = crashed
      /\ items' = items + (IF Head(todo).op = "items" THEN 1 ELSE 0)
      /\ unique' = unique + (IF Head(todo).op = "unique" THEN 1 ELSE 0)
  BY StoreIs
<1>2. items' \in Nat /\ unique' \in Nat
  BY <1>1 DEF IInv, Types
<1>3. Types'
  BY <1>1, <1>2 DEF IInv, Types
<1>4. pc = "back" /\ Flow'
  BY <1>1 DEF IInv, Flow, Types
<1>5. Counted'
  BY <1>1, <1>4 DEF IInv, Counted, Owed, NoCounts
<1>6. QED
  BY <1>3, <1>4, <1>5

(* The stores of the rotations, one after the other.                         *)
LEMMA TurnTails ==
  ASSUME NEW n, NEW s, NEW r, NEW x
  PROVE  /\ Head(Turn5(n, s, r, x)) = Link(n, s, x) /\ Tail(Turn5(n, s, r, x)) = Turn4(n, s, r)
         /\ Head(Turn4(n, s, r)) = Link(r, Other(s), n)
         /\ Tail(Turn4(n, s, r)) = <<SetDepth(n), SetDepth(r), SetDepth(r)>>
<1>1. \A a, b, c, d, e : Head(<<a, b, c, d, e>>) = a
  OBVIOUS
<1>2. \A a, b, c, d, e : Tail(<<a, b, c, d, e>>) = <<b, c, d, e>>
  OBVIOUS
<1>3. \A a, b, c, d : Head(<<a, b, c, d>>) = a
  OBVIOUS
<1>4. \A a, b, c, d : Tail(<<a, b, c, d>>) = <<b, c, d>>
  OBVIOUS
<1>5. QED
  BY <1>1, <1>2, <1>3, <1>4 DEF Turn5, Turn4

LEMMA TwiceTails ==
  ASSUME NEW n, NEW s, NEW c, NEW x, NEW b, NEW y
  PROVE  /\ Head(Twice10(n, s, c, x, b, y)) = Link(c, Other(s), b)
         /\ Tail(Twice10(n, s, c, x, b, y)) = Twice9(n, s, c, x, y)
<1>1. \A a1, a2, a3, a4, a5, a6, a7, a8, a9, a0 :
        Tail(<<a1, a2, a3, a4, a5, a6, a7, a8, a9, a0>>) = <<a2, a3, a4, a5, a6, a7, a8, a9, a0>>
  OBVIOUS
<1>2. QED
  BY <1>1 DEF Twice10, Twice9

LEMMA Twice9Tails ==
  ASSUME NEW n, NEW s, NEW c, NEW x, NEW y
  PROVE  Head(Twice9(n, s, c, x, y)) = Link(x, s, c) /\ Tail(Twice9(n, s, c, x, y)) = Twice8(n, s, c, x, y)
<1>1. \A a2, a3, a4, a5, a6, a7, a8, a9, a0 :
        Tail(<<a2, a3, a4, a5, a6, a7, a8, a9, a0>>) = <<a3, a4, a5, a6, a7, a8, a9, a0>>
  OBVIOUS
<1>2. QED
  BY <1>1 DEF Twice9, Twice8

LEMMA Twice8Tails ==
  ASSUME NEW n, NEW s, NEW c, NEW x, NEW y
  PROVE  Head(Twice8(n, s, c, x, y)) = SetDepth(c) /\ Tail(Twice8(n, s, c, x, y)) = Twice7(n, s, x, y)
<1>1. \A a3, a4, a5, a6, a7, a8, a9, a0 :
        Tail(<<a3, a4, a5, a6, a7, a8, a9, a0>>) = <<a4, a5, a6, a7, a8, a9, a0>>
  OBVIOUS
<1>2. QED
  BY <1>1 DEF Twice8, Twice7

LEMMA Twice7Tails ==
  ASSUME NEW n, NEW s, NEW x, NEW y
  PROVE  /\ Head(Twice7(n, s, x, y)) = SetDepth(x) /\ Tail(Twice7(n, s, x, y)) = Twice6(n, s, x, y)
         /\ Head(Twice6(n, s, x, y)) = Link(n, s, x) /\ Tail(Twice6(n, s, x, y)) = Turn5(n, s, x, y)
<1>1. \A a4, a5, a6, a7, a8, a9, a0 :
        Tail(<<a4, a5, a6, a7, a8, a9, a0>>) = <<a5, a6, a7, a8, a9, a0>>
  OBVIOUS
<1>2. \A a5, a6, a7, a8, a9, a0 :
        Tail(<<a5, a6, a7, a8, a9, a0>>) = <<a6, a7, a8, a9, a0>>
  OBVIOUS
<1>3. Head(Twice7(n, s, x, y)) = SetDepth(x) /\ Tail(Twice7(n, s, x, y)) = Twice6(n, s, x, y)
  BY <1>1 DEF Twice7, Twice6
<1>4. Head(Twice6(n, s, x, y)) = Link(n, s, x) /\ Tail(Twice6(n, s, x, y)) = Turn5(n, s, x, y)
  BY <1>2 DEF Twice6, Turn5
<1>5. QED
  BY <1>3, <1>4

Rotating ==
  \/ \E n, s, r, x : todo = Turn5(n, s, r, x) \/ todo = Turn4(n, s, r) \/ todo = <<SetDepth(n), SetDepth(r), SetDepth(r)>>
  \/ \E n, s, x, y : todo = Twice6(n, s, x, y) \/ todo = Twice7(n, s, x, y)
  \/ \E n, s, c, x, y : todo = Twice8(n, s, c, x, y) \/ todo = Twice9(n, s, c, x, y)

LEMMA RotatingCounts == Rotating => NoCounts
<1>1. ASSUME NEW n, NEW s, NEW r, NEW x,
             todo = Turn5(n, s, r, x) \/ todo = Turn4(n, s, r) \/ todo = <<SetDepth(n), SetDepth(r), SetDepth(r)>>
      PROVE  NoCounts
  BY <1>1, Ops DEF Turn5, Turn4, NoCounts
<1>2. ASSUME NEW n, NEW s, NEW x, NEW y, todo = Twice6(n, s, x, y) \/ todo = Twice7(n, s, x, y)
      PROVE  NoCounts
  BY <1>2, Ops DEF Twice6, Twice7, NoCounts
<1>3. ASSUME NEW n, NEW s, NEW c, NEW x, NEW y, todo = Twice8(n, s, c, x, y) \/ todo = Twice9(n, s, c, x, y)
      PROVE  NoCounts
  BY <1>3, Ops DEF Twice8, Twice9, NoCounts
<1>4. QED
  BY <1>1, <1>2, <1>3 DEF Rotating

LEMMA RotatingBooks ==
  ASSUME IInv, Store, RegionOK', Nodes' = Nodes, words' = words, counts' = counts, Rotating'
  PROVE  Types' /\ Flow' /\ Counted'
<1>1. (Rotating => NoCounts)'
  BY RotatingCounts, PTL
<1>2. QED
  BY <1>1, StoreBooks

(* The node n at here, and one below it, are not in the frames.              *)
LEMMA Apart ==
  ASSUME NEW S, NEW W, Types, Stack(S, W), NEW n \in S, words[n] \in W[n],
         here # RootRef => W[n] \subseteq Part(words, W, here),
         NEW s \in Sides, NEW m \in Nodes, words[m] \in Part(words, W, <<n, s>>)
  PROVE  \A k \in 0 .. Len(path) : trail[k][1] # n /\ trail[k][1] # m
<1>1. /\ Len(path) \in Nat /\ here = trail[Len(path)]
      /\ S \in SUBSET Nodes /\ Region(Nodes, kids, words, W)
      /\ Frames(Len(path), trail, kids, words, S, W, item)
  BY Spots
<1>2. PICK T, L, z : T = trail /\ L = Len(path) /\ z = here
  OBVIOUS
<1>3. z # RootRef => words[n] \in Part(words, W, z) /\ words[m] \in Part(words, W, z)
  <2>1. z # RootRef => W[n] \subseteq Part(words, W, z)
    BY <1>2
  <2>2. z # RootRef => words[m] \in Part(words, W, z)
    BY <1>1, <2>1, Deeper
  <2>3. QED
    BY <2>1, <2>2
<1>4. MayBeneath(Nodes, kids, words, S, W, L, T, item, n)
  BY <1>1, <1>2, <1>3 DEF MayBeneath
<1>5. MayBeneath(Nodes, kids, words, S, W, L, T, item, m)
  BY <1>1, <1>2, <1>3 DEF MayBeneath
<1>6. \A k \in 0 .. L : T[k][1] # n
  BY <1>4, Beneath
<1>7. \A k \in 0 .. L : T[k][1] # m
  BY <1>5, Beneath
<1>8. QED
  BY <1>2, <1>6, <1>7

(* The frames and the types after a store to a node that is not in them.     *)
MayStay(S, W, Q, V) ==
  \A q \in S : (\E k \in 0 .. Len(path) : trail[k][1] = q) => q \in Q /\ V[q] = W[q]

LEMMA StackPasses ==
  ASSUME NEW CONSTANT S, NEW CONSTANT W, Types, Stack(S, W), RegionOK', Nodes' = Nodes, words' = words, ViewTypes',
         path' = path, item' = item,
         NEW CONSTANT m, \A k \in 0 .. Len(path) : trail[k][1] # m,
         NEW CONSTANT t, NEW CONSTANT v, kids' = [kids EXCEPT ![<<m, t>>] = v],
         NEW CONSTANT Q \in SUBSET Nodes, NEW CONSTANT V, Region(Nodes, kids', words, V),
         MayStay(S, W, Q, V)
  PROVE  Stack(Q, V)' /\ here' = here /\ kids'[here] = kids[here]
<1>1. /\ Len(path) \in Nat /\ here = trail[Len(path)]
      /\ S \in SUBSET Nodes /\ Region(Nodes, kids, words, W)
      /\ Frames(Len(path), trail, kids, words, S, W, item)
  BY Spots
<1>2. trail' = trail /\ here' = here /\ Len(path') = Len(path)
  BY SameTrail
<1>3. PICK T, L, R : T = trail /\ L = Len(path) /\ R = kids'
  OBVIOUS
<1>4. \A k \in 1 .. L : T[k][1] \in Q /\ V[T[k][1]] = W[T[k][1]]
  <2>1. ASSUME NEW k \in 1 .. L PROVE T[k][1] \in Q /\ V[T[k][1]] = W[T[k][1]]
    <3>1. k \in 0 .. L /\ k # 0
      OBVIOUS
    <3>2. T[k][1] \in S
      BY <1>1, <1>3, <3>1, FrameIs
    <3>3. QED
      BY <1>3, <3>1, <3>2 DEF MayStay
  <2>2. QED
    BY <2>1
<1>5. MayPass(Nodes, kids, words, S, W, L, T, item, m, Q, V)
  BY <1>1, <1>3, <1>4 DEF MayPass
<1>6. R = [kids EXCEPT ![<<m, t>>] = v]
  BY <1>3
<1>7. HasPassed(kids, words, L, T, item, Q, V, R)
  BY <1>5, <1>6, FramesPass
<1>8. Frames(L, T, R, words, Q, V, item) /\ R[T[L]] = kids[T[L]]
  BY <1>7 DEF HasPassed
<1>9. Stack(Q, V)'
  BY <1>2, <1>3, <1>8 DEF Stack, Placed
<1>10. QED
  BY <1>1, <1>2, <1>3, <1>8, <1>9

LEMMA RegionStored ==
  ASSUME NEW CONSTANT W, Region(Nodes, kids, words, W), Nodes' = Nodes, ViewTypes'
  PROVE  Region(Nodes, kids', words, W)
  BY DEF Region, ViewTypes

(* The first link of a rotation takes the child that is lifted out of the    *)
(* tree.                                                                     *)
LEMMA StoreFirst ==
  ASSUME IInv, Store, pc = "back",
         NEW CONSTANT S, NEW CONSTANT W, NEW CONSTANT n, NEW CONSTANT s, First(S, W, n, s)
  PROVE  IInv'
<1>1. PICK r, v : r = cur /\ v = kids[<<cur, Other(s)>>]
  OBVIOUS
<1>2. /\ Types /\ RegionOK /\ n \in S /\ s \in Sides /\ Idle(S, W) /\ Stack(S, W)
      /\ kids[here] = n /\ kids[<<n, s>>] = r /\ r # NULL /\ todo = Turn5(n, s, r, v)
      /\ crashed \/ (S = Nodes /\ Turns(n, s))
  BY <1>1 DEF First, IInv, Types
<1>3. /\ Len(path) \in Nat /\ here = trail[Len(path)] /\ here \in From(S) /\ here \in From(Nodes)
      /\ S \in SUBSET Nodes /\ Region(Nodes, kids, words, W) /\ Sized(Nodes, kids, heights)
  BY <1>2, Spots
<1>4. Tree(kids, words, S, W, NoRef)
  BY <1>2 DEF Idle
<1>5. PICK L : L = [kids EXCEPT ![<<n, s>>] = v]
  OBVIOUS
<1>6. r \in S /\ r # n /\ Hanging(L, words, S \ {r}, W, n, s, r)
  <2>1. r = kids[<<n, s>>] /\ v = kids[<<r, Other(s)>>]
    BY <1>1, <1>2
  <2>2. MayUnhook(Nodes, kids, words, S, W, n, s, r, v)
    BY <1>2, <1>3, <1>4, <2>1 DEF MayUnhook
  <2>3. PICK Q : Q = S \ {r}
    OBVIOUS
  <2>4. HasUnhooked(words, S, W, n, s, r, L, Q)
    BY <1>5, <2>2, <2>3, Unhook
  <2>5. QED
    BY <2>3, <2>4 DEF HasUnhooked
<1>7. n \in Nodes /\ r \in Nodes /\ v \in Nodes \cup {NULL}
  <2>1. r \in Nodes /\ Other(s) \in Sides
    BY <1>2, <1>3, <1>6, OtherSide
  <2>2. <<r, Other(s)>> \in From(Nodes)
    BY <2>1, Refs
  <2>3. kids[<<r, Other(s)>>] \in Nodes \cup {NULL}
    BY <1>3, <2>2 DEF Region
  <2>4. QED
    BY <1>1, <1>2, <1>3, <2>1, <2>3
<1>8. Head(todo) = Link(n, s, v) /\ Tail(todo) = Turn4(n, s, r)
  BY <1>2, TurnTails
<1>9. /\ RegionOK' /\ Nodes' = Nodes /\ ViewTypes'
      /\ words' = words /\ heights' = heights /\ counts' = counts
      /\ kids' = [kids EXCEPT ![<<n, s>>] = v]
  BY <1>2, <1>7, <1>8, StoreLink
<1>10. /\ todo' = Turn4(n, s, r) /\ pc' = "back" /\ path' = path /\ cur' = r
       /\ item' = item /\ crashed' = crashed
  BY <1>1, <1>8, StoreIs
<1>11. \A k \in 0 .. Len(path) : trail[k][1] # n /\ trail[k][1] # r
  <2>1. words[n] \in W[n] /\ (here # RootRef => W[n] \subseteq Part(words, W, here))
    <3>1. here # RootRef => here \in S \X Sides
      BY <1>3, FromIs
    <3>2. n # NULL
      BY <1>3, <1>7 DEF Region, NULL
    <3>3. QED
      BY <1>2, <1>4, <3>1, <3>2 DEF Tree
  <2>2. words[r] \in Part(words, W, <<n, s>>)
    <3>1. <<n, s>> \in S \X Sides
      BY <1>2
    <3>2. QED
      BY <1>2, <1>4, <1>6, <3>1 DEF Tree
  <2>3. QED
    BY <1>2, <1>7, <2>1, <2>2, Apart
<1>12. Stack(S \ {r}, W)' /\ here' = here /\ kids'[here] = n
  <2>1. PICK Q : Q = S \ {r}
    OBVIOUS
  <2>2. Q \in SUBSET Nodes
    BY <1>3, <2>1
  <2>3. Region(Nodes, kids', words, W)
    BY <1>3, <1>9, RegionStored
  <2>4. MayStay(S, W, Q, W)
    BY <1>11, <2>1 DEF MayStay
  <2>5. \A k \in 0 .. Len(path) : trail[k][1] # n
    BY <1>11
  <2>6. Stack(Q, W)' /\ here' = here /\ kids'[here] = kids[here]
    BY <1>2, <1>9, <1>10, <2>2, <2>3, <2>4, <2>5, StackPasses
  <2>7. QED
    BY <1>2, <2>1, <2>6
<1>13. ASSUME ~crashed PROVE (S \ {r}) \cup {r} = Nodes /\ Turns(n, s)'
  <2>1. S = Nodes /\ Turns(n, s)
    BY <1>2, <1>13
  <2>2. PICK d \in Int : TurnDue(Nodes, kids, heights, here, n, s, r, d)
    BY <1>1, <2>1 DEF Turns
  <2>3. here[1] # n
    BY <1>3, <1>11
  <2>4. TurnDue(Nodes, L, heights, here, n, s, r, d)
    BY <1>2, <1>3, <1>5, <1>6, <1>7, <2>2, <2>3, TurnUnhooked
  <2>5. L = kids'
    BY <1>5, <1>9
  <2>6. QED
    BY <1>6, <1>9, <1>10, <1>12, <2>1, <2>4, <2>5 DEF Turns
<1>14. Second(S \ {r}, W, n, s)'
  <2>1. Hanging(kids', words', S \ {r}, W, n, s, r)
    BY <1>5, <1>6, <1>9
  <2>2. (crashed \/ ((S \ {r}) \cup {r} = Nodes /\ Turns(n, s)))'
    BY <1>9, <1>10, <1>13
  <2>3. QED
    BY <1>2, <1>10, <1>12, <2>1, <2>2 DEF Second
<1>15. Shape(S \ {r}, W)'
  BY <1>10, <1>14 DEF Shape
<1>16. Types' /\ Flow' /\ Counted'
  <2>1. Rotating'
    BY <1>10 DEF Rotating
  <2>2. QED
    BY <1>9, <2>1, RotatingBooks
<1>17. QED
  BY <1>15, <1>16 DEF IInv

(* The second link puts n below the child that is lifted.                    *)
LEMMA StoreSecond ==
  ASSUME IInv, Store, pc = "back",
         NEW CONSTANT S, NEW CONSTANT W, NEW CONSTANT n, NEW CONSTANT s, Second(S, W, n, s)
  PROVE  IInv'
<1>1. PICK r, o : r = cur /\ o = Other(s)
  OBVIOUS
<1>2. /\ Types /\ RegionOK /\ s \in Sides /\ Stack(S, W) /\ r # NULL /\ r \in Nodes
      /\ Hanging(kids, words, S, W, n, s, r) /\ kids[here] = n /\ todo = Turn4(n, s, r)
      /\ crashed \/ (S \cup {r} = Nodes /\ Turns(n, s))
  BY <1>1 DEF Second, IInv, Types
<1>3. /\ Len(path) \in Nat /\ here = trail[Len(path)] /\ here \in From(S) /\ here \in From(Nodes)
      /\ S \in SUBSET Nodes /\ Region(Nodes, kids, words, W) /\ Sized(Nodes, kids, heights)
  BY <1>2, Spots
<1>4. /\ Tree(kids, words, S, W, NoRef) /\ n \in S /\ r \notin S /\ n \in Nodes
      /\ kids[<<n, s>>] = kids[<<r, Other(s)>>] /\ words[r] \in Part(words, W, <<n, s>>)
  BY <1>2, <1>3 DEF Hanging
<1>5. PICK L, V, Q : /\ L = [kids EXCEPT ![<<r, Other(s)>>] = n]
                     /\ V = Below(words, W, n, s, r)
                     /\ Q = S \cup {r}
  OBVIOUS
<1>6. /\ Region(Nodes, L, words, V) /\ Loose(L, words, Q, V, here, r)
      /\ \A m \in S : m # n => V[m] = W[m]
  <2>1. MayHook(Nodes, kids, words, S, W, n, s, r, here)
    BY <1>2, <1>3 DEF MayHook
  <2>2. HasHooked(Nodes, words, S, W, n, r, here, L, Q, V)
    BY <1>5, <2>1, Hook
  <2>3. QED
    BY <2>2 DEF HasHooked
<1>7. o \in Sides /\ Head(todo) = Link(r, o, n) /\ Tail(todo) = <<SetDepth(n), SetDepth(r), SetDepth(r)>>
  <2>1. Head(Turn4(n, s, r)) = Link(r, Other(s), n) /\ Tail(Turn4(n, s, r)) = <<SetDepth(n), SetDepth(r), SetDepth(r)>>
    BY TurnTails
  <2>2. Other(s) \in Sides
    BY <1>2, OtherSide
  <2>3. QED
    BY <1>1, <1>2, <2>1, <2>2
<1>8. /\ RegionOK' /\ Nodes' = Nodes /\ ViewTypes'
      /\ words' = words /\ heights' = heights /\ counts' = counts
      /\ kids' = [kids EXCEPT ![<<r, o>>] = n]
  BY <1>2, <1>4, <1>7, StoreLink
<1>9. /\ todo' = <<SetDepth(n), SetDepth(r), SetDepth(r)>> /\ pc' = "back" /\ path' = path /\ cur' = r
      /\ item' = item /\ crashed' = crashed
  BY <1>1, <1>7, StoreIs
<1>10. \A k \in 0 .. Len(path) : trail[k][1] # n /\ trail[k][1] # r
  <2>1. words[n] \in W[n] /\ (here # RootRef => W[n] \subseteq Part(words, W, here))
    <3>1. here # RootRef => here \in S \X Sides
      BY <1>3, FromIs
    <3>2. n # NULL
      BY <1>3, <1>4 DEF Region, NULL
    <3>3. QED
      BY <1>2, <1>4, <3>1, <3>2 DEF Tree
  <2>2. QED
    BY <1>2, <1>4, <2>1, Apart
<1>11. Stack(Q, V)' /\ here' = here /\ kids'[here] = n
  <2>1. Q \in SUBSET Nodes
    BY <1>2, <1>3, <1>5
  <2>2. Region(Nodes, kids', words, V)
    BY <1>1, <1>5, <1>6, <1>8
  <2>3. MayStay(S, W, Q, V)
    BY <1>5, <1>6, <1>10 DEF MayStay
  <2>4. \A k \in 0 .. Len(path) : trail[k][1] # r
    BY <1>10
  <2>5. Stack(Q, V)' /\ here' = here /\ kids'[here] = kids[here]
    BY <1>2, <1>8, <1>9, <2>1, <2>2, <2>3, <2>4, StackPasses
  <2>6. QED
    BY <1>2, <2>5
<1>12. ASSUME ~crashed PROVE Q = Nodes /\ Turned'
  <2>1. Q = Nodes /\ Turns(n, s)
    BY <1>2, <1>5, <1>12
  <2>2. PICK d \in Int : TurnDue(Nodes, kids, heights, here, n, s, r, d)
    BY <1>1, <2>1 DEF Turns
  <2>3. here[1] # n /\ here[1] # r /\ n # r
    BY <1>3, <1>4, <1>10
  <2>4. TurnedDue(Nodes, L, heights, here, n, s, r, d)
    BY <1>2, <1>3, <1>4, <1>5, <2>2, <2>3, TurnHooked
  <2>5. /\ cur' # NULL /\ kids'[here'] = n /\ n # cur' /\ n \in Nodes'
        /\ todo' = <<SetDepth(n), SetDepth(cur'), SetDepth(cur')>>
        /\ TurnedDue(Nodes', kids', heights', here', n, s, cur', d)
    BY <1>1, <1>2, <1>4, <1>5, <1>8, <1>9, <1>11, <2>3, <2>4
  <2>6. QED
    BY <1>2, <2>1, <2>5 DEF Turned
<1>13. todo' \in Seq(Plain')
  <2>1. Plain' = Plain
    BY <1>8 DEF Plain
  <2>2. SetDepth(n) \in Plain /\ SetDepth(r) \in Plain
    BY <1>2, <1>4, PlainIs
  <2>3. QED
    BY <1>9, <2>1, <2>2
<1>14. Returning(Q, V)'
  <2>1. Loose(kids', words', Q, V, here', cur') /\ cur' # NULL
    BY <1>1, <1>2, <1>5, <1>6, <1>8, <1>9, <1>11
  <2>2. (crashed \/ (Q = Nodes /\ (Comes \/ Turned)))'
    BY <1>8, <1>9, <1>12
  <2>3. QED
    BY <1>11, <1>13, <2>1, <2>2 DEF Returning
<1>15. Shape(Q, V)'
  BY <1>9, <1>14 DEF Shape
<1>16. Types' /\ Flow' /\ Counted'
  <2>1. Rotating'
    BY <1>9 DEF Rotating
  <2>2. QED
    BY <1>8, <2>1, RotatingBooks
<1>17. QED
  BY <1>15, <1>16 DEF IInv

(* The same for the first two links of a double rotation, which lift x above *)
(* c, the child of n.                                                        *)
LEMMA StoreTwiceFirst ==
  ASSUME IInv, Store, pc = "back",
         NEW CONSTANT S, NEW CONSTANT W, NEW CONSTANT n, NEW CONSTANT s, NEW CONSTANT c,
         TwiceFirst(S, W, n, s, c)
  PROVE  IInv'
<1>1. PICK x, o, v, y : x = cur /\ o = Other(s) /\ v = kids[<<cur, s>>] /\ y = kids[<<cur, Other(s)>>]
  OBVIOUS
<1>2. /\ Types /\ RegionOK /\ n \in S /\ s \in Sides /\ Idle(S, W) /\ Stack(S, W)
      /\ kids[here] = n /\ kids[<<n, s>>] = c /\ c # NULL /\ kids[<<c, o>>] = x /\ x # NULL
      /\ todo = Twice10(n, s, c, x, v, y)
      /\ crashed \/ (S = Nodes /\ Twists(n, s, c))
  BY <1>1 DEF TwiceFirst, IInv, Types
<1>3. /\ Len(path) \in Nat /\ here = trail[Len(path)] /\ here \in From(S) /\ here \in From(Nodes)
      /\ S \in SUBSET Nodes /\ Region(Nodes, kids, words, W) /\ Sized(Nodes, kids, heights)
  BY <1>2, Spots
<1>4. Tree(kids, words, S, W, NoRef) /\ o \in Sides /\ o # s /\ Other(o) = s
  BY <1>1, <1>2, OtherSide DEF Idle
<1>5. PICK L : L = [kids EXCEPT ![<<c, o>>] = v]
  OBVIOUS
<1>6. c \in S /\ words[c] \in Part(words, W, <<n, s>>) /\ W[c] \subseteq Part(words, W, <<n, s>>)
  <2>1. <<n, s>> \in S \X Sides /\ <<n, s>> \in From(S)
    BY <1>2, Refs
  <2>2. QED
    BY <1>2, <1>4, <2>1 DEF Tree
<1>7. x \in S /\ x # c /\ Hanging(L, words, S \ {x}, W, c, o, x)
  <2>1. x = kids[<<c, o>>] /\ v = kids[<<x, Other(o)>>]
    BY <1>1, <1>2, <1>4
  <2>2. MayUnhook(Nodes, kids, words, S, W, c, o, x, v)
    BY <1>2, <1>3, <1>4, <1>6, <2>1 DEF MayUnhook
  <2>3. PICK Q : Q = S \ {x}
    OBVIOUS
  <2>4. HasUnhooked(words, S, W, c, o, x, L, Q)
    BY <1>5, <2>2, <2>3, Unhook
  <2>5. QED
    BY <2>3, <2>4 DEF HasUnhooked
<1>8. n \in Nodes /\ c \in Nodes /\ x \in Nodes /\ v \in Nodes \cup {NULL}
  <2>1. x \in Nodes
    BY <1>3, <1>7
  <2>2. <<x, s>> \in From(Nodes)
    BY <1>2, <2>1, Refs
  <2>3. kids[<<x, s>>] \in Nodes \cup {NULL}
    BY <1>3, <2>2 DEF Region
  <2>4. QED
    BY <1>1, <1>2, <1>3, <1>6, <2>1, <2>3
<1>9. words[x] \in Part(words, W, <<n, s>>)
  <2>1. <<c, o>> \in S \X Sides
    BY <1>4, <1>6
  <2>2. words[x] \in Part(words, W, <<c, o>>)
    BY <1>2, <1>4, <1>7, <2>1 DEF Tree
  <2>3. words[x] \in W[c]
    BY <1>3, <1>4, <1>8, <2>2, PartIs
  <2>4. QED
    BY <1>6, <2>3
<1>10. n # c /\ n # x
  <2>1. words[n] \notin Part(words, W, <<n, s>>)
    BY <1>2, <1>3, <1>8, PartIs
  <2>2. QED
    BY <1>6, <1>9, <2>1
<1>11. Head(todo) = Link(c, o, v) /\ Tail(todo) = Twice9(n, s, c, x, y)
  <2>1. Head(Twice10(n, s, c, x, v, y)) = Link(c, Other(s), v) /\ Tail(Twice10(n, s, c, x, v, y)) = Twice9(n, s, c, x, y)
    BY TwiceTails
  <2>2. QED
    BY <1>1, <1>2, <2>1
<1>12. /\ RegionOK' /\ Nodes' = Nodes /\ ViewTypes'
       /\ words' = words /\ heights' = heights /\ counts' = counts
       /\ kids' = [kids EXCEPT ![<<c, o>>] = v]
  BY <1>2, <1>4, <1>8, <1>11, StoreLink
<1>13. /\ todo' = Twice9(n, s, c, x, y) /\ pc' = "back" /\ path' = path /\ cur' = x
       /\ item' = item /\ crashed' = crashed
  BY <1>1, <1>11, StoreIs
<1>14. \A k \in 0 .. Len(path) : trail[k][1] # n /\ trail[k][1] # c /\ trail[k][1] # x
  <2>1. words[n] \in W[n] /\ (here # RootRef => W[n] \subseteq Part(words, W, here))
    <3>1. here # RootRef => here \in S \X Sides
      BY <1>3, FromIs
    <3>2. n # NULL
      BY <1>3, <1>8 DEF Region, NULL
    <3>3. QED
      BY <1>2, <1>4, <3>1, <3>2 DEF Tree
  <2>2. \A k \in 0 .. Len(path) : trail[k][1] # n /\ trail[k][1] # c
    BY <1>2, <1>6, <1>8, <2>1, Apart
  <2>3. \A k \in 0 .. Len(path) : trail[k][1] # n /\ trail[k][1] # x
    BY <1>2, <1>8, <1>9, <2>1, Apart
  <2>4. QED
    BY <2>2, <2>3
<1>15. Stack(S \ {x}, W)' /\ here' = here /\ kids'[here] = n
  <2>1. PICK Q : Q = S \ {x}
    OBVIOUS
  <2>2. Q \in SUBSET Nodes
    BY <1>3, <2>1
  <2>3. Region(Nodes, kids', words, W)
    BY <1>3, <1>12, RegionStored
  <2>4. MayStay(S, W, Q, W)
    BY <1>14, <2>1 DEF MayStay
  <2>5. \A k \in 0 .. Len(path) : trail[k][1] # c
    BY <1>14
  <2>6. Stack(Q, W)' /\ here' = here /\ kids'[here] = kids[here]
    BY <1>2, <1>12, <1>13, <2>2, <2>3, <2>4, <2>5, StackPasses
  <2>7. QED
    BY <1>2, <2>1, <2>6
<1>16. kids'[<<n, s>>] = c /\ kids'[<<x, o>>] = y
  <2>1. <<n, s>> # <<c, o>> /\ <<x, o>> # <<c, o>>
    BY <1>7, <1>10
  <2>2. <<n, s>> \in DOMAIN kids /\ <<x, o>> \in DOMAIN kids
    BY <1>2, <1>3, <1>4, <1>8, Refs DEF Region
  <2>3. QED
    BY <1>1, <1>2, <1>12, <2>1, <2>2
<1>17. ASSUME ~crashed PROVE (S \ {x}) \cup {x} = Nodes /\ Twists(n, s, c)'
  <2>1. S = Nodes /\ Twists(n, s, c)
    BY <1>2, <1>17
  <2>2. PICK d \in Int : TwiceDue(Nodes, kids, heights, here, n, s, c, x, d)
    BY <1>1, <2>1 DEF Twists
  <2>3. here[1] # c
    BY <1>3, <1>14
  <2>4. L = [kids EXCEPT ![<<c, Other(s)>>] = v]
    BY <1>1, <1>5
  <2>5. TwiceDue(Nodes, L, heights, here, n, s, c, x, d)
    BY <1>2, <1>3, <1>7, <1>8, <1>10, <2>2, <2>3, <2>4, TwiceUnhooked
  <2>6. L = kids'
    BY <1>5, <1>12
  <2>7. QED
    BY <1>7, <1>12, <1>13, <1>15, <2>1, <2>5, <2>6 DEF Twists
<1>18. TwiceSecond(S \ {x}, W, n, s, c)'
  <2>1. Hanging(kids', words', S \ {x}, W, c, Other(s), x)
    BY <1>1, <1>5, <1>7, <1>12
  <2>2. (crashed \/ ((S \ {x}) \cup {x} = Nodes /\ Twists(n, s, c)))'
    BY <1>12, <1>13, <1>17
  <2>3. n \in S \ {x} /\ todo' = Twice9(n, s, c, cur', kids'[<<cur', Other(s)>>])
    BY <1>1, <1>2, <1>10, <1>13, <1>16
  <2>4. QED
    BY <1>2, <1>13, <1>15, <1>16, <2>1, <2>2, <2>3 DEF TwiceSecond
<1>19. Shape(S \ {x}, W)'
  BY <1>13, <1>18 DEF Shape
<1>20. Types' /\ Flow' /\ Counted'
  <2>1. Rotating'
    BY <1>13 DEF Rotating
  <2>2. QED
    BY <1>12, <2>1, RotatingBooks
<1>21. QED
  BY <1>19, <1>20 DEF IInv

LEMMA StoreTwiceSecond ==
  ASSUME IInv, Store, pc = "back",
         NEW CONSTANT S, NEW CONSTANT W, NEW CONSTANT n, NEW CONSTANT s, NEW CONSTANT c,
         TwiceSecond(S, W, n, s, c)
  PROVE  IInv'
<1>1. PICK x, o, y, z : x = cur /\ o = Other(s) /\ y = kids[<<cur, Other(s)>>] /\ z = <<n, s>>
  OBVIOUS
<1>2. /\ Types /\ RegionOK /\ n \in S /\ s \in Sides /\ Stack(S, W) /\ x # NULL /\ x \in Nodes
      /\ kids[here] = n /\ kids[z] = c /\ Hanging(kids, words, S, W, c, o, x)
      /\ todo = Twice9(n, s, c, x, y)
      /\ crashed \/ (S \cup {x} = Nodes /\ Twists(n, s, c))
  BY <1>1 DEF TwiceSecond, IInv, Types
<1>3. /\ Len(path) \in Nat /\ here = trail[Len(path)] /\ here \in From(S) /\ here \in From(Nodes)
      /\ S \in SUBSET Nodes /\ Region(Nodes, kids, words, W) /\ Sized(Nodes, kids, heights)
  BY <1>2, Spots
<1>4. /\ Tree(kids, words, S, W, NoRef) /\ c \in S /\ x \notin S /\ c \in Nodes /\ n \in Nodes /\ c # NULL
      /\ kids[<<c, o>>] = kids[<<x, Other(o)>>] /\ words[x] \in Part(words, W, <<c, o>>)
      /\ o \in Sides /\ o # s /\ Other(o) = s
  BY <1>1, <1>2, <1>3, OtherSide DEF Hanging, Region, NULL
<1>5. z \in From(S) /\ words[c] \in Part(words, W, <<n, s>>) /\ W[c] \subseteq Part(words, W, <<n, s>>)
  <2>1. <<n, s>> \in S \X Sides /\ <<n, s>> \in From(S)
    BY <1>2, Refs
  <2>2. QED
    BY <1>1, <1>2, <1>4, <2>1 DEF Tree
<1>6. PICK L, V, Q : /\ L = [kids EXCEPT ![<<x, Other(o)>>] = c]
                     /\ V = Below(words, W, c, o, x)
                     /\ Q = S \cup {x}
  OBVIOUS
<1>7. /\ Region(Nodes, L, words, V) /\ Loose(L, words, Q, V, z, x)
      /\ \A m \in S : m # c => V[m] = W[m]
  <2>1. MayHook(Nodes, kids, words, S, W, c, o, x, z)
    BY <1>2, <1>3, <1>4, <1>5 DEF MayHook
  <2>2. HasHooked(Nodes, words, S, W, c, x, z, L, Q, V)
    BY <1>6, <2>1, Hook
  <2>3. QED
    BY <2>2 DEF HasHooked
<1>8. words[x] \in Part(words, W, <<n, s>>) /\ n # c /\ n # x /\ c # x
  <2>1. words[x] \in W[c]
    BY <1>3, <1>4, PartIs
  <2>2. words[n] \notin Part(words, W, <<n, s>>)
    BY <1>2, <1>3, <1>4, PartIs
  <2>3. QED
    BY <1>2, <1>4, <1>5, <2>1, <2>2
<1>9. Head(todo) = Link(x, s, c) /\ Tail(todo) = Twice8(n, s, c, x, y)
  <2>1. Head(Twice9(n, s, c, x, y)) = Link(x, s, c) /\ Tail(Twice9(n, s, c, x, y)) = Twice8(n, s, c, x, y)
    BY Twice9Tails
  <2>2. QED
    BY <1>2, <2>1
<1>10. /\ RegionOK' /\ Nodes' = Nodes /\ ViewTypes'
       /\ words' = words /\ heights' = heights /\ counts' = counts
       /\ kids' = [kids EXCEPT ![<<x, s>>] = c]
  BY <1>2, <1>4, <1>9, StoreLink
<1>11. /\ todo' = Twice8(n, s, c, x, y) /\ pc' = "back" /\ path' = path /\ cur' = x
       /\ item' = item /\ crashed' = crashed
  BY <1>1, <1>9, StoreIs
<1>12. \A k \in 0 .. Len(path) : trail[k][1] # n /\ trail[k][1] # c /\ trail[k][1] # x
  <2>1. words[n] \in W[n] /\ (here # RootRef => W[n] \subseteq Part(words, W, here))
    <3>1. here # RootRef => here \in S \X Sides
      BY <1>3, FromIs
    <3>2. n # NULL
      BY <1>3, <1>4 DEF Region, NULL
    <3>3. QED
      BY <1>2, <1>4, <3>1, <3>2 DEF Tree
  <2>2. \A k \in 0 .. Len(path) : trail[k][1] # n /\ trail[k][1] # c
    BY <1>2, <1>4, <1>5, <2>1, Apart
  <2>3. \A k \in 0 .. Len(path) : trail[k][1] # n /\ trail[k][1] # x
    BY <1>2, <1>8, <2>1, Apart
  <2>4. QED
    BY <2>2, <2>3
<1>13. Stack(Q, V)' /\ here' = here /\ kids'[here] = n
  <2>1. Q \in SUBSET Nodes
    BY <1>2, <1>3, <1>6
  <2>2. Region(Nodes, kids', words, V)
    BY <1>4, <1>6, <1>7, <1>10
  <2>3. MayStay(S, W, Q, V)
    BY <1>6, <1>7, <1>12 DEF MayStay
  <2>4. \A k \in 0 .. Len(path) : trail[k][1] # x
    BY <1>12
  <2>5. Stack(Q, V)' /\ here' = here /\ kids'[here] = kids[here]
    BY <1>2, <1>10, <1>11, <2>1, <2>2, <2>3, <2>4, StackPasses
  <2>6. QED
    BY <1>2, <2>5
<1>14. kids'[<<n, s>>] = c /\ kids'[<<x, s>>] = c /\ kids'[<<x, o>>] = y
  <2>1. <<n, s>> # <<x, s>> /\ <<x, o>> # <<x, s>>
    BY <1>4, <1>8
  <2>2. <<n, s>> \in DOMAIN kids /\ <<x, o>> \in DOMAIN kids /\ <<x, s>> \in DOMAIN kids
    BY <1>2, <1>3, <1>4, Refs DEF Region
  <2>3. QED
    BY <1>1, <1>2, <1>10, <2>1, <2>2
<1>15. ASSUME ~crashed PROVE Q = Nodes /\ Twisted(n, s, c)'
  <2>1. Q = Nodes /\ Twists(n, s, c)
    BY <1>2, <1>6, <1>15
  <2>2. PICK d \in Int : TwiceDue(Nodes, kids, heights, here, n, s, c, x, d)
    BY <1>1, <2>1 DEF Twists
  <2>3. here[1] # x
    BY <1>3, <1>12
  <2>4. PICK M : M = kids'
    OBVIOUS
  <2>5. M = [kids EXCEPT ![<<x, s>>] = c] /\ kids[<<c, Other(s)>>] = kids[<<x, s>>]
    BY <1>1, <1>4, <1>10, <2>4
  <2>6. TwicedDue(Nodes, M, heights, here, n, s, c, x, d)
    BY <1>2, <1>3, <1>4, <1>8, <2>2, <2>3, <2>5, TwiceHooked
  <2>7. QED
    BY <1>10, <1>11, <1>13, <2>1, <2>4, <2>6 DEF Twisted
<1>16. Lifted(Q, V, n, s, c)'
  <2>1. Loose(kids', words', Q, V, <<n, s>>, x)
    BY <1>1, <1>4, <1>6, <1>7, <1>10
  <2>2. (crashed \/ (Q = Nodes /\ Twisted(n, s, c)))'
    BY <1>10, <1>11, <1>15
  <2>3. n \in Q /\ todo' = Twice8(n, s, c, cur', kids'[<<cur', Other(s)>>])
    BY <1>1, <1>2, <1>6, <1>11, <1>14
  <2>4. QED
    BY <1>2, <1>4, <1>8, <1>11, <1>13, <1>14, <2>1, <2>2, <2>3 DEF Lifted
<1>17. Shape(Q, V)'
  BY <1>11, <1>16 DEF Shape
<1>18. Types' /\ Flow' /\ Counted'
  <2>1. Rotating'
    BY <1>11 DEF Rotating
  <2>2. QED
    BY <1>10, <2>1, RotatingBooks
<1>19. QED
  BY <1>17, <1>18 DEF IInv

LEMMA StackSame ==
  ASSUME NEW CONSTANT S, NEW CONSTANT W, Stack(S, W), Nodes' = Nodes, kids' = kids, words' = words,
         path' = path, item' = item
  PROVE  Stack(S, W)' /\ here' = here
<1>1. trail' = trail /\ here' = here /\ Len(path') = Len(path)
  BY SameTrail
<1>2. QED
  BY <1>1 DEF Stack, Placed

(* x is above c by then, and not yet in the tree.                            *)
LiftedFacts(S, n, s, c, x) ==
  /\ s \in Sides /\ x \in S /\ c \in S /\ n # c /\ n # x /\ c # x
  /\ \A k \in 0 .. Len(path) : trail[k][1] # n /\ trail[k][1] # c /\ trail[k][1] # x
  /\ here[1] # n /\ here[1] # c /\ here[1] # x
  /\ \A m \in S, t \in Sides : kids[<<m, t>>] = c => (m = n /\ t = s) \/ (m = x /\ t = s)
  /\ \A m \in S, t \in Sides : kids[<<m, t>>] # x

LEMMA LiftedIs ==
  ASSUME NEW S, NEW W, NEW n, NEW s, NEW c, Types, Lifted(S, W, n, s, c)
  PROVE  LiftedFacts(S, n, s, c, cur)
<1>1. PICK x, z : x = cur /\ z = <<n, s>>
  OBVIOUS
<1>2. /\ Types /\ n \in S /\ s \in Sides /\ Stack(S, W) /\ x # NULL /\ c # NULL /\ c # x
      /\ kids[here] = n /\ kids[<<n, s>>] = c /\ kids[<<x, s>>] = c
      /\ Loose(kids, words, S, W, z, x)
  BY <1>1 DEF Lifted
<1>3. /\ Len(path) \in Nat /\ here = trail[Len(path)] /\ here \in From(S)
      /\ S \in SUBSET Nodes /\ Region(Nodes, kids, words, W)
  BY <1>2, Spots
<1>4. /\ Tree(kids, words, S, W, z) /\ x \in S /\ \A a \in From(S) \ {z} : kids[a] # x
      /\ z # RootRef => W[x] \subseteq Part(words, W, z)
  BY <1>2 DEF Loose
<1>5. z \in S \X Sides /\ z \in From(S) /\ z # RootRef
  BY <1>1, <1>2, Refs
<1>6. c \in S /\ W[c] \subseteq Part(words, W, z) /\ words[c] \in W[c] /\ words[x] \in W[x] /\ words[n] \in W[n]
  BY <1>1, <1>2, <1>4, <1>5 DEF Tree
<1>7. words[c] \in Part(words, W, <<n, s>>) /\ words[x] \in Part(words, W, <<n, s>>)
  BY <1>1, <1>4, <1>5, <1>6
<1>8. n # c /\ n # x /\ n \in Nodes /\ c \in Nodes /\ x \in Nodes
  <2>1. words[n] \notin Part(words, W, <<n, s>>)
    BY <1>2, <1>3, PartIs
  <2>2. QED
    BY <1>2, <1>3, <1>4, <1>6, <1>7, <2>1
<1>9. \A k \in 0 .. Len(path) : trail[k][1] # n /\ trail[k][1] # c /\ trail[k][1] # x
  <2>1. here # RootRef => W[n] \subseteq Part(words, W, here)
    <3>1. here # RootRef => here \in S \X Sides
      BY <1>3, FromIs
    <3>2. n # NULL
      BY <1>3, <1>8 DEF Region, NULL
    <3>3. QED
      BY <1>2, <1>4, <3>1, <3>2 DEF Tree
  <2>2. \A k \in 0 .. Len(path) : trail[k][1] # n /\ trail[k][1] # c
    BY <1>2, <1>6, <1>7, <1>8, <2>1, Apart
  <2>3. \A k \in 0 .. Len(path) : trail[k][1] # n /\ trail[k][1] # x
    BY <1>2, <1>6, <1>7, <1>8, <2>1, Apart
  <2>4. QED
    BY <2>2, <2>3
<1>10. here[1] # n /\ here[1] # c /\ here[1] # x
  BY <1>3, <1>9
<1>11. ASSUME NEW m \in S, NEW t \in Sides, kids[<<m, t>>] = c
       PROVE  (m = n /\ t = s) \/ (m = x /\ t = s)
  <2>1. PICK a, b : a = <<m, t>> /\ b = <<x, s>>
    OBVIOUS
  <2>2. a \in From(S) /\ b \in From(S)
    BY <1>2, <1>4, <2>1, Refs
  <2>3. b # z
    BY <1>1, <1>8, <2>1
  <2>4. a # z => a = b
    BY <1>2, <1>4, <1>11, <2>1, <2>2, <2>3 DEF Tree
  <2>5. QED
    BY <1>1, <2>1, <2>4
<1>12. ASSUME NEW m \in S, NEW t \in Sides PROVE kids[<<m, t>>] # x
  <2>1. PICK a : a = <<m, t>>
    OBVIOUS
  <2>2. a \in From(S)
    BY <2>1, Refs
  <2>3. a = z => kids[a] = c
    BY <1>1, <1>2
  <2>4. QED
    BY <1>2, <1>4, <2>1, <2>2, <2>3
<1>13. QED
  BY <1>1, <1>2, <1>4, <1>6, <1>8, <1>9, <1>10, <1>11, <1>12 DEF LiftedFacts

(* The depth of x, to which nothing leads yet, is one it does not need.      *)
LEMMA TurnDepth ==
  ASSUME NEW N, NEW K, NEW D, Sized(N, K, D), NEW z \in From(N), NEW n \in N, NEW s \in Sides,
         NEW x \in N, n # x, z[1] # n, z[1] # x,
         NEW d \in Int, TurnDue(N, K, D, z, n, s, x, d),
         NEW E, E = [D EXCEPT ![x] = Due(K, D, x)],
         \A m \in N, t \in Sides : K[<<m, t>>] # x
  PROVE  TurnDue(N, K, E, z, n, s, x, d)
<1>1. PICK U, e : U = {z[1], n, x} /\ e = d + 2
  OBVIOUS
<1>2. Awaits(K, D, z, e) /\ Rest(N, K, D, U) /\ z[1] \in U
  BY <1>1 DEF TurnDue
<1>3. \A m \in N, t \in Sides : K[<<m, t>>] = x /\ <<m, t>> # z => m \in U /\ m # x /\ m # z[1]
  OBVIOUS
<1>4. MayDepth(N, K, D, z, e, U, x)
  BY <1>2, <1>3 DEF MayDepth
<1>5. HasDepth(N, K, D, z, e, U, x, E)
  BY <1>4, DepthKeeps
<1>6. /\ Rest(N, K, E, U \cup {x}) /\ Awaits(K, E, z, e)
      /\ \A u \in N \cup {NULL} : u # x => Deep(E, u) = Deep(D, u)
  BY <1>5 DEF HasDepth
<1>7. U \cup {x} = U
  BY <1>1
<1>8. Other(s) \in Sides
  BY OtherSide
<1>9. /\ K[<<n, Other(s)>>] \in N \cup {NULL} /\ K[<<x, s>>] \in N \cup {NULL}
      /\ K[<<x, Other(s)>>] \in N \cup {NULL}
  BY <1>8, Refs DEF Sized
<1>10. /\ Deep(E, K[<<n, Other(s)>>]) = Deep(D, K[<<n, Other(s)>>])
       /\ Deep(E, K[<<x, s>>]) = Deep(D, K[<<x, s>>])
       /\ Deep(E, K[<<x, Other(s)>>]) = Deep(D, K[<<x, Other(s)>>])
  BY <1>6, <1>8, <1>9
<1>11. QED
  BY <1>1, <1>6, <1>7, <1>10 DEF TurnDue

(* The depths of c and of x.                                                 *)
LEMMA StoreLiftedDepth ==
  ASSUME IInv, Store, pc = "back",
         NEW CONSTANT S, NEW CONSTANT W, NEW CONSTANT n, NEW CONSTANT s, NEW CONSTANT c,
         Lifted(S, W, n, s, c), todo # Twice6(n, s, cur, kids[<<cur, Other(s)>>])
  PROVE  IInv'
<1>1. PICK x, y : x = cur /\ y = kids[<<cur, Other(s)>>]
  OBVIOUS
<1>2. /\ Types /\ RegionOK /\ n \in S /\ s \in Sides /\ Stack(S, W) /\ x # NULL /\ c # NULL /\ c # x
      /\ kids[here] = n /\ kids[<<n, s>>] = c /\ kids[<<x, s>>] = c
      /\ Loose(kids, words, S, W, <<n, s>>, x)
      /\ \/ todo = Twice8(n, s, c, x, y) /\ (crashed \/ (S = Nodes /\ Twisted(n, s, c)))
         \/ todo = Twice7(n, s, x, y) /\ (crashed \/ (S = Nodes /\ Turns(n, s)))
  BY <1>1 DEF Lifted, IInv, Types
<1>3. LiftedFacts(S, n, s, c, x)
  BY <1>1, <1>2, LiftedIs
<1>4. /\ Len(path) \in Nat /\ here = trail[Len(path)] /\ here \in From(Nodes)
      /\ S \in SUBSET Nodes /\ Sized(Nodes, kids, heights)
      /\ n \in Nodes /\ c \in Nodes /\ x \in Nodes
  BY <1>2, <1>3, Spots DEF LiftedFacts
<1>5. /\ Head(Twice8(n, s, c, x, y)) = SetDepth(c) /\ Tail(Twice8(n, s, c, x, y)) = Twice7(n, s, x, y)
      /\ Head(Twice7(n, s, x, y)) = SetDepth(x) /\ Tail(Twice7(n, s, x, y)) = Twice6(n, s, x, y)
  BY Twice8Tails, Twice7Tails
<1>6. \/ Head(todo) = SetDepth(c) /\ Tail(todo) = Twice7(n, s, x, y)
         /\ (crashed \/ (S = Nodes /\ Twisted(n, s, c)))
      \/ Head(todo) = SetDepth(x) /\ Tail(todo) = Twice6(n, s, x, y)
         /\ (crashed \/ (S = Nodes /\ Turns(n, s)))
  BY <1>2, <1>5
<1>7. PICK u :
      \/ u = c /\ Head(todo) = SetDepth(u) /\ Tail(todo) = Twice7(n, s, x, y)
         /\ (crashed \/ (S = Nodes /\ Twisted(n, s, c)))
      \/ u = x /\ Head(todo) = SetDepth(u) /\ Tail(todo) = Twice6(n, s, x, y)
         /\ (crashed \/ (S = Nodes /\ Turns(n, s)))
  BY <1>6
<1>8. u \in Nodes /\ Head(todo) = SetDepth(u)
  BY <1>4, <1>7
<1>9. /\ RegionOK' /\ Nodes' = Nodes /\ words' = words /\ kids' = kids /\ counts' = counts
      /\ heights' = [heights EXCEPT ![u] = Due(kids, heights, u)]
  BY <1>2, <1>8, StoreDepth
<1>10. /\ todo' = Tail(todo) /\ pc' = "back" /\ path' = path /\ cur' = x
       /\ item' = item /\ crashed' = crashed
  BY <1>1, StoreIs
<1>11. todo' = Twice7(n, s, x, y) \/ todo' = Twice6(n, s, x, y)
  BY <1>7, <1>10
<1>12. Stack(S, W)' /\ here' = here
  BY <1>2, <1>9, <1>10, StackSame
<1>13. PICK E : E = heights'
  OBVIOUS
<1>14. ASSUME ~crashed PROVE S = Nodes /\ \E d \in Int : TurnDue(Nodes, kids, E, here, n, s, x, d)
  <2>1. here[1] # n /\ here[1] # c /\ here[1] # x /\ n # c /\ n # x /\ c # x
    BY <1>3 DEF LiftedFacts
  <2>2. CASE u = c /\ S = Nodes /\ Twisted(n, s, c)
    <3>1. PICK d \in Int : TwicedDue(Nodes, kids, heights, here, n, s, c, x, d)
      BY <1>1, <2>2 DEF Twisted
    <3>2. E = [heights EXCEPT ![c] = Due(kids, heights, c)]
      BY <1>9, <1>13, <2>2
    <3>3. \A m \in Nodes, t \in Sides : kids[<<m, t>>] = c => (m = n /\ t = s) \/ (m = x /\ t = s)
      BY <1>3, <2>2 DEF LiftedFacts
    <3>4. TurnDue(Nodes, kids, E, here, n, s, x, d)
      <4>1. MayTwiced(Nodes, kids, heights, here, n, s, c, x, d)
        BY <1>2, <1>4, <2>1, <3>1, <3>3 DEF MayTwiced
      <4>2. QED
        BY <3>2, <4>1, TwicedTurns
    <3>5. QED
      BY <2>2, <3>4
  <2>3. CASE u = x /\ S = Nodes /\ Turns(n, s)
    <3>1. PICK d \in Int : TurnDue(Nodes, kids, heights, here, n, s, x, d)
      BY <1>1, <2>3 DEF Turns
    <3>2. E = [heights EXCEPT ![x] = Due(kids, heights, x)]
      BY <1>9, <1>13, <2>3
    <3>3. \A m \in Nodes, t \in Sides : kids[<<m, t>>] # x
      BY <1>3, <2>3 DEF LiftedFacts
    <3>4. TurnDue(Nodes, kids, E, here, n, s, x, d)
      BY <1>2, <1>4, <2>1, <3>1, <3>2, <3>3, TurnDepth
    <3>5. QED
      BY <2>3, <3>4
  <2>4. QED
    BY <1>7, <1>14, <2>2, <2>3
<1>15. Lifted(S, W, n, s, c)'
  <2>1. (crashed \/ (S = Nodes /\ Turns(n, s)))'
    BY <1>9, <1>10, <1>12, <1>13, <1>14 DEF Turns
  <2>2. \/ todo' = Twice7(n, s, cur', kids'[<<cur', Other(s)>>])
        \/ todo' = Twice6(n, s, cur', kids'[<<cur', Other(s)>>])
    BY <1>1, <1>9, <1>10, <1>11
  <2>3. /\ Loose(kids', words', S, W, <<n, s>>, cur') /\ c # cur'
        /\ kids'[here'] = n /\ kids'[<<n, s>>] = c /\ kids'[<<cur', s>>] = c /\ cur' # NULL
    BY <1>2, <1>9, <1>10, <1>12
  <2>4. QED
    BY <1>2, <1>12, <2>1, <2>2, <2>3 DEF Lifted
<1>16. Shape(S, W)'
  BY <1>10, <1>15 DEF Shape
<1>17. Types' /\ Flow' /\ Counted'
  <2>1. Rotating'
    BY <1>11 DEF Rotating
  <2>2. QED
    BY <1>9, <2>1, RotatingBooks
<1>18. QED
  BY <1>16, <1>17 DEF IInv

(* The link that puts x below n, to be lifted again.                         *)
LEMMA StoreLiftedLink ==
  ASSUME IInv, Store, pc = "back",
         NEW CONSTANT S, NEW CONSTANT W, NEW CONSTANT n, NEW CONSTANT s, NEW CONSTANT c,
         Lifted(S, W, n, s, c), todo = Twice6(n, s, cur, kids[<<cur, Other(s)>>])
  PROVE  IInv'
<1>1. PICK x, y : x = cur /\ y = kids[<<cur, Other(s)>>]
  OBVIOUS
<1>2. /\ Types /\ RegionOK /\ n \in S /\ s \in Sides /\ Stack(S, W) /\ x # NULL /\ c # NULL /\ c # x
      /\ kids[here] = n /\ kids[<<n, s>>] = c /\ kids[<<x, s>>] = c
      /\ Loose(kids, words, S, W, <<n, s>>, x) /\ todo = Twice6(n, s, x, y)
  BY <1>1 DEF Lifted, IInv, Types
<1>3. LiftedFacts(S, n, s, c, x)
  BY <1>1, LiftedIs DEF IInv
<1>4. /\ Len(path) \in Nat /\ here = trail[Len(path)] /\ here \in From(Nodes)
      /\ S \in SUBSET Nodes /\ Region(Nodes, kids, words, W) /\ Sized(Nodes, kids, heights)
      /\ n \in Nodes /\ c \in Nodes /\ x \in Nodes /\ x \in S /\ n # x /\ Other(s) \in Sides
  BY <1>2, <1>3, Spots, OtherSide DEF LiftedFacts
<1>5. ~crashed => S = Nodes /\ Turns(n, s)
  <2>1. Twice8(n, s, c, x, y) # Twice6(n, s, x, y)
    BY DEF Twice8, Twice6
  <2>2. QED
    BY <1>1, <1>2, <2>1 DEF Lifted
<1>6. Head(todo) = Link(n, s, x) /\ Tail(todo) = Turn5(n, s, x, y)
  <2>1. Head(Twice6(n, s, x, y)) = Link(n, s, x) /\ Tail(Twice6(n, s, x, y)) = Turn5(n, s, x, y)
    BY Twice7Tails
  <2>2. QED
    BY <1>2, <2>1
<1>7. /\ RegionOK' /\ Nodes' = Nodes /\ ViewTypes'
      /\ words' = words /\ heights' = heights /\ counts' = counts
      /\ kids' = [kids EXCEPT ![<<n, s>>] = x]
  BY <1>2, <1>4, <1>6, StoreLink
<1>8. /\ todo' = Turn5(n, s, x, y) /\ pc' = "back" /\ path' = path /\ cur' = x
      /\ item' = item /\ crashed' = crashed
  BY <1>1, <1>6, StoreIs
<1>9. Region(Nodes, kids', words, W)
  BY <1>4, <1>7, RegionStored
<1>10. Stack(S, W)' /\ here' = here /\ kids'[here] = n
  <2>1. \A k \in 0 .. Len(path) : trail[k][1] # n
    BY <1>3 DEF LiftedFacts
  <2>2. MayStay(S, W, S, W)
    BY DEF MayStay
  <2>3. Stack(S, W)' /\ here' = here /\ kids'[here] = kids[here]
    BY <1>2, <1>4, <1>7, <1>8, <1>9, <2>1, <2>2, StackPasses
  <2>4. QED
    BY <1>2, <2>3
<1>11. kids'[<<n, s>>] = x /\ kids'[<<x, Other(s)>>] = y
  <2>1. <<x, Other(s)>> # <<n, s>>
    BY <1>4
  <2>2. <<n, s>> \in DOMAIN kids /\ <<x, Other(s)>> \in DOMAIN kids
    BY <1>2, <1>4, Refs DEF Region
  <2>3. QED
    BY <1>1, <1>7, <2>1, <2>2
<1>12. Idle(S, W)'
  <2>1. PICK z : z = <<n, s>>
    OBVIOUS
  <2>2. Loose(kids, words, S, W, z, x) /\ kids' = [kids EXCEPT ![z] = x]
    BY <1>2, <1>7, <2>1
  <2>3. Tree([kids EXCEPT ![z] = x], words, S, W, NoRef)
    BY <1>4, <2>2, Attach
  <2>4. QED
    BY <1>4, <1>7, <1>9, <2>2, <2>3 DEF Idle, Placed
<1>13. ASSUME ~crashed PROVE S = Nodes /\ Turns(n, s)'
  <2>1. S = Nodes /\ Turns(n, s)
    BY <1>5, <1>13
  <2>2. PICK d \in Int : TurnDue(Nodes, kids, heights, here, n, s, x, d)
    BY <1>1, <2>1 DEF Turns
  <2>3. here[1] # n
    BY <1>3 DEF LiftedFacts
  <2>4. PICK M : M = kids'
    OBVIOUS
  <2>5. M = [kids EXCEPT ![<<n, s>>] = x] /\ x \in Nodes \cup {NULL}
    BY <1>4, <1>7, <2>4
  <2>6. TurnDue(Nodes, M, heights, here, n, s, x, d)
    BY <1>2, <1>4, <2>2, <2>3, <2>5, TurnUnhooked
  <2>7. QED
    BY <1>7, <1>8, <1>10, <2>1, <2>4, <2>6 DEF Turns
<1>14. First(S, W, n, s)'
  <2>1. (crashed \/ (S = Nodes /\ Turns(n, s)))'
    BY <1>7, <1>8, <1>13
  <2>2. todo' = Turn5(n, s, cur', kids'[<<cur', Other(s)>>])
    BY <1>8, <1>11
  <2>3. QED
    BY <1>2, <1>8, <1>10, <1>11, <1>12, <2>1, <2>2 DEF First
<1>15. Shape(S, W)'
  BY <1>8, <1>14 DEF Shape
<1>16. Types' /\ Flow' /\ Counted'
  <2>1. Rotating'
    BY <1>8 DEF Rotating
  <2>2. QED
    BY <1>7, <2>1, RotatingBooks
<1>17. QED
  BY <1>15, <1>16 DEF IInv

(* The stores that are left after one.                                       *)
LEMMA TailIs ==
  ASSUME NEW X, NEW q \in Seq(X), q # <<>>
  PROVE  /\ Tail(q) \in Seq(X) /\ Head(q) \in X /\ Head(q) = q[1] /\ 1 \in DOMAIN q
         /\ \A k \in DOMAIN Tail(q) : k \in Nat /\ k # 0 /\ k + 1 \in DOMAIN q /\ k + 1 # 1 /\ Tail(q)[k] = q[k + 1]
         /\ \A k \in DOMAIN q : k = 1 \/ \E j \in DOMAIN Tail(q) : Tail(q)[j] = q[k]
         /\ Tail(q) # <<>> => 1 \in DOMAIN Tail(q) /\ Head(Tail(q)) = Tail(q)[1]
<1>1. Len(q) \in Nat \ {0} /\ DOMAIN q = 1 .. Len(q)
  OBVIOUS
<1>2. PICK M \in Nat : Len(q) = M + 1
  <2>1. Len(q) - 1 \in Nat /\ Len(q) = (Len(q) - 1) + 1
    BY <1>1
  <2>2. QED
    BY <2>1
<1>3. /\ Tail(q) \in Seq(X) /\ Len(Tail(q)) = M /\ DOMAIN Tail(q) = 1 .. M
      /\ \A k \in 1 .. M : Tail(q)[k] = q[k + 1]
  BY <1>2
<1>4. Head(q) = q[1] /\ q[1] \in X /\ 1 \in DOMAIN q
  BY <1>1
<1>5. \A k \in 1 .. M : k \in Nat /\ k # 0 /\ k + 1 \in 1 .. M + 1 /\ k + 1 # 1
  OBVIOUS
<1>6. ASSUME NEW k \in 1 .. M + 1, k # 1 PROVE \E j \in 1 .. M : Tail(q)[j] = q[k]
  <2>1. k - 1 \in 1 .. M /\ (k - 1) + 1 = k
    BY <1>6
  <2>2. QED
    BY <2>1, <1>3
<1>7. Tail(q) # <<>> => 1 \in 1 .. M /\ Head(Tail(q)) = Tail(q)[1]
  BY <1>3
<1>8. QED
  BY <1>1, <1>2, <1>3, <1>4, <1>5, <1>6, <1>7

(* A count is the first of the stores, if there is one.                      *)
LEMMA CountsGone ==
  ASSUME Counted, todo \in Seq(Plain), todo # <<>>, todo' = Tail(todo)
  PROVE  NoCounts'
<1>1. ASSUME NEW k \in DOMAIN todo' PROVE todo'[k].op # "count"
  <2>1. k \in Nat /\ k + 1 \in DOMAIN todo /\ k + 1 # 1 /\ todo'[k] = todo[k + 1]
    BY TailIs
  <2>2. PICK j : j = k + 1
    OBVIOUS
  <2>3. j \in DOMAIN todo /\ j # 1 /\ todo'[k] = todo[j]
    BY <2>1, <2>2
  <2>4. QED
    BY <2>3 DEF Counted
<1>2. todo' # <<>> => 1 \in DOMAIN todo' /\ Head(todo') = todo'[1]
  BY TailIs
<1>3. QED
  BY <1>1, <1>2 DEF NoCounts

(* The depth of the node that comes.                                         *)
MayComeDepth(N, K, I, D, i, z, v, e) ==
  /\ Sized(N, K, D) /\ z \in From(N) /\ v \in N /\ z[1] # v
  /\ Coming(N, K, I, D, i, z, v, e)
  /\ \A m \in N, t \in Sides : K[<<m, t>>] = v => <<m, t>> = z

HasComeDepth(N, K, I, E, i, z, v, e) == Coming(N, K, I, E, i, z, v, e) /\ E[v] = Due(K, E, v)

LEMMA ComesDepth ==
  ASSUME NEW N, NEW K, NEW I, NEW D, NEW i, NEW z, NEW v, NEW e, MayComeDepth(N, K, I, D, i, z, v, e),
         NEW E, E = [D EXCEPT ![v] = Due(K, D, v)]
  PROVE  HasComeDepth(N, K, I, E, i, z, v, e)
<1> USE DEF MayComeDepth
<1>1. PICK U : U = {z[1], v}
  OBVIOUS
<1>2. Awaits(K, D, z, e) /\ Rest(N, K, D, U) /\ z[1] \in U
  BY <1>1 DEF Coming
<1>3. MayDepth(N, K, D, z, e, U, v)
  BY <1>2 DEF MayDepth
<1>4. HasDepth(N, K, D, z, e, U, v, E)
  BY <1>3, DepthKeeps
<1>5. /\ Rest(N, K, E, U \cup {v}) /\ Awaits(K, E, z, e)
      /\ Due(K, E, v) = Due(K, D, v) /\ E[v] = Due(K, E, v)
      /\ Level(K, E, v) <=> Level(K, D, v)
      /\ \A u \in N \cup {NULL} : u # v => Deep(E, u) = Deep(D, u)
  BY <1>4 DEF HasDepth
<1>6. U \cup {v} = {z[1], v} /\ v # NULL
  BY <1>1 DEF Sized, NULL
<1>7. ASSUME NEW t \in Sides PROVE Deep(E, K[<<v, t>>]) = Deep(D, K[<<v, t>>])
  <2>1. K[<<v, t>>] \in N \cup {NULL}
    BY Refs DEF Sized
  <2>2. K[<<v, t>>] # v
    BY Refs
  <2>3. QED
    BY <1>5, <2>1, <2>2
<1>8. \A t \in Sides : Deep(E, K[<<v, t>>]) = Deep(D, K[<<v, t>>]) /\ Deep(E, K[<<v, Other(t)>>]) = Deep(D, K[<<v, Other(t)>>])
  BY <1>7, OtherSide
<1>9. PICK h : h = Due(K, D, v)
  OBVIOUS
<1>10. Grown(K, I, D, i, v, h) => Grown(K, I, E, i, v, h)
  BY <1>8 DEF Grown
<1>11. Level(K, D, v) /\ (h = e \/ (h = e + 1 /\ Grown(K, I, D, i, v, h)))
  BY <1>6, <1>9 DEF Coming
<1>12. Level(K, E, v) /\ Due(K, E, v) = h /\ (h = e \/ (h = e + 1 /\ Grown(K, I, E, i, v, h)))
  BY <1>5, <1>9, <1>10, <1>11
<1>13. Coming(N, K, I, E, i, z, v, e)
  BY <1>5, <1>6, <1>12 DEF Coming
<1>14. QED
  BY <1>5, <1>13 DEF HasComeDepth

(* The node that comes, and the one at its place, are not in the frames.     *)
ReturnFacts(S) ==
  /\ here \in From(Nodes) /\ Sized(Nodes, kids, heights) /\ S \in SUBSET Nodes
  /\ cur # NULL => cur \in Nodes /\ cur \in S /\ here[1] # cur
  /\ kids[here] # NULL => kids[here] \in S /\ here[1] # kids[here]
  /\ cur # NULL => \A m \in S, t \in Sides : kids[<<m, t>>] = cur => <<m, t>> = here

LEMMA ReturnIs ==
  ASSUME NEW S, NEW W, Types, Returning(S, W)
  PROVE  ReturnFacts(S)
<1>1. Stack(S, W) /\ Loose(kids, words, S, W, here, cur)
  BY DEF Returning
<1>2. /\ Len(path) \in Nat /\ here = trail[Len(path)] /\ here \in From(S) /\ here \in From(Nodes)
      /\ S \in SUBSET Nodes /\ Region(Nodes, kids, words, W) /\ Sized(Nodes, kids, heights)
      /\ Frames(Len(path), trail, kids, words, S, W, item)
  BY <1>1, Spots
<1>3. Len(path) \in 0 .. Len(path)
  BY <1>2
<1>4. ASSUME cur # NULL
      PROVE  /\ cur \in Nodes /\ cur \in S /\ here[1] # cur
             /\ \A m \in S, t \in Sides : kids[<<m, t>>] = cur => <<m, t>> = here
  <2>1. cur \in S /\ \A k \in 0 .. Len(path) : trail[k][1] # cur
    BY <1>1, <1>4, LooseApart
  <2>2. here[1] # cur
    BY <1>2, <1>3, <2>1
  <2>3. ASSUME NEW m \in S, NEW t \in Sides, kids[<<m, t>>] = cur PROVE <<m, t>> = here
    <3>1. <<m, t>> \in From(S)
      BY Refs
    <3>2. \A a \in From(S) \ {here} : kids[a] # cur
      BY <1>1, <1>4 DEF Loose
    <3>3. QED
      BY <3>1, <3>2, <2>3
  <2>4. QED
    BY <1>2, <2>1, <2>2, <2>3
<1>5. ASSUME kids[here] # NULL PROVE kids[here] \in S /\ here[1] # kids[here]
  <2>1. PICK n, T, L : n = kids[here] /\ T = trail /\ L = Len(path)
    OBVIOUS
  <2>2. n \in S /\ words[n] \in W[n]
    BY <1>1, <1>2, <1>5, <2>1 DEF Loose, Tree
  <2>3. here # RootRef => here \in S \X Sides
    BY <1>2, FromIs
  <2>4. T[L] # RootRef => words[n] \in Part(words, W, T[L])
    BY <1>1, <1>2, <1>5, <2>1, <2>2, <2>3 DEF Loose, Tree
  <2>5. MayBeneath(Nodes, kids, words, S, W, L, T, item, n)
    BY <1>2, <2>1, <2>2, <2>4 DEF MayBeneath
  <2>6. \A k \in 0 .. L : T[k][1] # n
    BY <2>5, Beneath
  <2>7. QED
    BY <1>2, <1>3, <2>1, <2>2, <2>6
<1>6. QED
  BY <1>2, <1>4, <1>5 DEF ReturnFacts

(* What it takes to return, after a store that is not of a pointer.          *)
LEMMA StoreReturns ==
  ASSUME NEW CONSTANT S, NEW CONSTANT W, Store, pc = "back", Returning(S, W),
         Nodes' = Nodes, kids' = kids, words' = words,
         crashed \/ (S = Nodes /\ Comes')
  PROVE  Shape(S, W)'
<1>1. /\ todo # <<>> /\ todo' = Tail(todo) /\ pc' = "back" /\ path' = path /\ cur' = cur
      /\ item' = item /\ crashed' = crashed
  BY StoreIs
<1>2. Stack(S, W)' /\ here' = here
  BY <1>1, StackSame DEF Returning
<1>3. Loose(kids', words', S, W, here', cur') /\ (cur' = NULL => kids'[here'] = NULL)
  BY <1>1, <1>2 DEF Returning
<1>4. todo' \in Seq(Plain')
  <2>1. Plain' = Plain
    BY DEF Plain
  <2>2. todo \in Seq(Plain)
    BY DEF Returning
  <2>3. QED
    BY <1>1, <2>1, <2>2, TailIs
<1>5. (crashed \/ (S = Nodes /\ (Comes \/ Turned)))'
  BY <1>1
<1>6. Returning(S, W)'
  BY <1>2, <1>3, <1>4, <1>5 DEF Returning
<1>7. QED
  BY <1>1, <1>6 DEF Shape

(* A store of another kind leaves what comes.                                *)
LEMMA ComesKept ==
  ASSUME Comes, Store, todo \in Seq(Plain), Head(todo).op # "depth",
         Nodes' = Nodes, kids' = kids, words' = words, heights' = heights
  PROVE  Comes'
<1>1. /\ todo # <<>> /\ todo' = Tail(todo) /\ path' = path /\ cur' = cur /\ item' = item /\ here' = here
  BY StoreIs, SameTrail
<1>2. /\ Head(todo) = todo[1]
      /\ \A k \in DOMAIN Tail(todo) : k + 1 \in DOMAIN todo /\ Tail(todo)[k] = todo[k + 1]
      /\ \A k \in DOMAIN todo : k = 1 \/ \E j \in DOMAIN Tail(todo) : Tail(todo)[j] = todo[k]
  BY <1>1, TailIs
<1>3. \A k \in DOMAIN Tail(todo) : \E j \in DOMAIN todo : Tail(todo)[k] = todo[j]
  BY <1>2
<1>4. \A k \in DOMAIN todo' : todo'[k].op = "depth" => todo'[k] = SetDepth(cur')
  BY <1>1, <1>3 DEF Comes
<1>5. (\A k \in DOMAIN todo' : todo'[k].op # "depth") => \A k \in DOMAIN todo : todo[k].op # "depth"
  BY <1>1, <1>2
<1>6. (\A k \in DOMAIN todo' : todo'[k].op # "depth") => (cur = NULL \/ heights[cur] = Due(kids, heights, cur))
  BY <1>5 DEF Comes
<1>7. PICK e \in Int : Coming(Nodes, kids, words, heights, item, here, cur, e)
  BY DEF Comes
<1>8. Coming(Nodes', kids', words', heights', item', here', cur', e)
  BY <1>1, <1>7
<1>9. (\A k \in DOMAIN todo' : todo'[k].op # "depth") => (cur' = NULL \/ heights'[cur'] = Due(kids', heights', cur'))
  BY <1>1, <1>6
<1>10. QED
  BY <1>4, <1>8, <1>9 DEF Comes

(* A depth while cur comes: it is cur's.                                     *)
LEMMA ComesDepthStored ==
  ASSUME Types, Comes, Store, NEW S, NEW W, Returning(S, W), S = Nodes, Head(todo).op = "depth"
  PROVE  /\ RegionOK' /\ Nodes' = Nodes /\ words' = words /\ kids' = kids /\ counts' = counts
         /\ Comes'
<1>1. /\ todo # <<>> /\ todo' = Tail(todo) /\ path' = path /\ cur' = cur /\ item' = item /\ here' = here
  BY StoreIs, SameTrail
<1>2. todo \in Seq(Plain) /\ RegionOK
  BY DEF Returning, Types
<1>3. /\ Head(todo) = todo[1] /\ Head(todo) \in Plain /\ 1 \in DOMAIN todo
      /\ \A k \in DOMAIN Tail(todo) : k + 1 \in DOMAIN todo /\ Tail(todo)[k] = todo[k + 1]
  BY <1>1, <1>2, TailIs
<1>4. PICK v \in Nodes : Head(todo) = SetDepth(v)
  BY <1>3, PlainIs
<1>5. Head(todo) = SetDepth(cur)
  BY <1>3 DEF Comes
<1>6. v = cur /\ v # NULL
  <2>1. v = cur
    BY <1>4, <1>5, Ops
  <2>2. QED
    BY <1>2, <2>1, Views DEF NULL
<1>7. /\ RegionOK' /\ Nodes' = Nodes /\ words' = words /\ kids' = kids /\ counts' = counts
      /\ heights' = [heights EXCEPT ![v] = Due(kids, heights, v)]
  BY <1>2, <1>4, StoreDepth
<1>8. ReturnFacts(S)
  BY ReturnIs
<1>9. PICK e \in Int : Coming(Nodes, kids, words, heights, item, here, v, e)
  BY <1>6 DEF Comes
<1>10. PICK E : E = heights'
  OBVIOUS
<1>11. MayComeDepth(Nodes, kids, words, heights, item, here, v, e)
  BY <1>6, <1>8, <1>9 DEF ReturnFacts, MayComeDepth
<1>12. Coming(Nodes, kids, words, E, item, here, v, e) /\ E[v] = Due(kids, E, v)
  <2>1. E = [heights EXCEPT ![v] = Due(kids, heights, v)]
    BY <1>7, <1>10
  <2>2. HasComeDepth(Nodes, kids, words, E, item, here, v, e)
    BY <1>11, <2>1, ComesDepth
  <2>3. QED
    BY <2>2 DEF HasComeDepth
<1>13. \A k \in DOMAIN todo' : todo'[k].op = "depth" => todo'[k] = SetDepth(cur')
  <2>1. \A k \in DOMAIN Tail(todo) : \E j \in DOMAIN todo : Tail(todo)[k] = todo[j]
    BY <1>3
  <2>2. QED
    BY <1>1, <2>1 DEF Comes
<1>14. Coming(Nodes', kids', words', heights', item', here', cur', e) /\ heights'[cur'] = Due(kids', heights', cur')
  BY <1>1, <1>6, <1>7, <1>10, <1>12
<1>15. Comes'
  BY <1>13, <1>14 DEF Comes
<1>16. QED
  BY <1>7, <1>15

(* After a rotation, the node that went down gets its depth first.           *)
LEMMA TurnedDepthStored ==
  ASSUME Types, Turned, Store, NEW S, NEW W, Returning(S, W), S = Nodes
  PROVE  /\ RegionOK' /\ Nodes' = Nodes /\ words' = words /\ kids' = kids /\ counts' = counts
         /\ Comes'
<1>1. /\ todo # <<>> /\ todo' = Tail(todo) /\ path' = path /\ cur' = cur /\ item' = item /\ here' = here
  BY StoreIs, SameTrail
<1>2. PICK n \in Nodes, s \in Sides, d \in Int :
        /\ cur # NULL /\ kids[here] = n /\ n # cur
        /\ todo = <<SetDepth(n), SetDepth(cur), SetDepth(cur)>>
        /\ TurnedDue(Nodes, kids, heights, here, n, s, cur, d)
  BY DEF Turned
<1>3. PICK r, a, b : r = cur /\ a = SetDepth(n) /\ b = SetDepth(cur)
  OBVIOUS
<1>4. Head(todo) = SetDepth(n) /\ Tail(todo) = <<b, b>>
  BY <1>2, <1>3
<1>5. RegionOK /\ n # NULL
  BY Views DEF Types, NULL
<1>6. /\ RegionOK' /\ Nodes' = Nodes /\ words' = words /\ kids' = kids /\ counts' = counts
      /\ heights' = [heights EXCEPT ![n] = Due(kids, heights, n)]
  BY <1>4, <1>5, StoreDepth
<1>7. ReturnFacts(S)
  BY ReturnIs
<1>8. /\ r \in Nodes /\ here[1] # r /\ here[1] # n /\ here \in From(Nodes) /\ Sized(Nodes, kids, heights)
      /\ r # NULL /\ n # r
  BY <1>2, <1>3, <1>5, <1>7 DEF ReturnFacts
<1>9. ASSUME NEW m \in Nodes, NEW t \in Sides, kids[<<m, t>>] = n, <<m, t>> # here
      PROVE  m = r /\ t = Other(s)
  <2>1. PICK f, g : f = <<m, t>> /\ g = <<r, Other(s)>>
    OBVIOUS
  <2>2. Tree(kids, words, S, W, here)
    BY DEF Returning, Loose
  <2>3. f \in From(S) \ {here} /\ g \in From(S)
    BY <1>8, <1>9, <2>1, Refs, OtherSide
  <2>4. g # here
    BY <1>8, <2>1
  <2>5. kids[g] = n
    BY <1>2, <1>3, <2>1 DEF TurnedDue
  <2>6. f = g
    BY <1>5, <1>9, <2>1, <2>2, <2>3, <2>4, <2>5 DEF Tree
  <2>7. QED
    BY <2>1, <2>6
<1>10. PICK E : E = heights'
  OBVIOUS
<1>11. Coming(Nodes, kids, words, E, item, here, r, d + 2)
  <2>1. E = [heights EXCEPT ![n] = Due(kids, heights, n)]
    BY <1>6, <1>10
  <2>2. TurnedDue(Nodes, kids, heights, here, n, s, r, d)
    BY <1>2, <1>3
  <2>3. MayTurned(Nodes, kids, heights, here, n, s, r, d)
    BY <1>8, <1>9, <2>2 DEF MayTurned
  <2>4. QED
    BY <2>1, <2>3, TurnedComes
<1>12. PICK e \in Int : Coming(Nodes, kids, words, E, item, here, r, e)
  <2>1. d + 2 \in Int
    OBVIOUS
  <2>2. QED
    BY <1>11, <2>1
<1>13. Coming(Nodes', kids', words', heights', item', here', cur', e)
  BY <1>1, <1>3, <1>6, <1>10, <1>12
<1>14. todo' = <<SetDepth(cur'), SetDepth(cur')>>
  BY <1>1, <1>3, <1>4
<1>15. /\ \A k \in DOMAIN todo' : todo'[k].op = "depth" => todo'[k] = SetDepth(cur')
       /\ 1 \in DOMAIN todo' /\ todo'[1].op = "depth"
  BY <1>14, Ops
<1>16. Comes'
  BY <1>13, <1>15 DEF Comes
<1>17. QED
  BY <1>6, <1>16

(* A store while update() has its value.                                     *)
LEMMA StoreReturning ==
  ASSUME IInv, Store, pc = "back", NEW CONSTANT S, NEW CONSTANT W, Returning(S, W)
  PROVE  IInv'
<1>1. /\ Types /\ Counted /\ RegionOK /\ todo \in Seq(Plain)
      /\ todo # <<>> /\ todo' = Tail(todo) /\ crashed' = crashed
  BY StoreIs DEF IInv, Types, Returning
<1>2. NoCounts'
  BY <1>1, CountsGone
<1>3. Head(todo) \in Plain /\ Head(todo) = todo[1] /\ 1 \in DOMAIN todo
  BY <1>1, TailIs
<1>4. crashed \/ (S = Nodes /\ (Comes \/ Turned))
  BY DEF Returning
<1>5. Turned => Head(todo).op = "depth"
  <2>1. ASSUME Turned PROVE Head(todo).op = "depth"
    <3>1. PICK n \in Nodes : todo = <<SetDepth(n), SetDepth(cur), SetDepth(cur)>>
      BY <2>1 DEF Turned
    <3>2. Head(todo) = SetDepth(n)
      BY <3>1
    <3>3. QED
      BY <3>2, Ops
  <2>2. QED
    BY <2>1
<1>6. ASSUME Types' /\ Flow' /\ Counted', Nodes' = Nodes, kids' = kids, words' = words,
             crashed \/ (S = Nodes /\ Comes')
      PROVE  IInv'
  <2>1. Shape(S, W)'
    BY <1>6, StoreReturns
  <2>2. QED
    BY <1>6, <2>1 DEF IInv
<1>7. ASSUME NEW v \in Nodes, Head(todo) = SetDepth(v) PROVE IInv'
  <2>1. /\ RegionOK' /\ Nodes' = Nodes /\ words' = words /\ kids' = kids /\ counts' = counts
    BY <1>1, <1>7, StoreDepth
  <2>2. Head(todo).op = "depth"
    BY <1>7, Ops
  <2>3. Types' /\ Flow' /\ Counted'
    BY <1>2, <2>1, StoreBooks
  <2>4. ASSUME S = Nodes, Comes PROVE Comes'
    BY <1>1, <2>2, <2>4, ComesDepthStored
  <2>5. ASSUME S = Nodes, Turned PROVE Comes'
    BY <1>1, <2>5, TurnedDepthStored
  <2>6. crashed \/ (S = Nodes /\ Comes')
    BY <1>4, <2>4, <2>5
  <2>7. QED
    BY <1>6, <2>1, <2>3, <2>6
<1>8. ASSUME NEW v \in Nodes, Head(todo) = IncCount(v) PROVE IInv'
  <2>1. /\ RegionOK' /\ Nodes' = Nodes /\ words' = words /\ kids' = kids /\ heights' = heights
        /\ counts' = [counts EXCEPT ![v] = @ + 1]
    BY <1>1, <1>8, StoreCount
  <2>2. Head(todo).op = "count" /\ Head(todo).node = v
    BY <1>8, Ops
  <2>3. crashed \/ (S = Nodes /\ Comes')
    <3>1. crashed \/ (S = Nodes /\ Comes)
      BY <1>4, <1>5, <2>2
    <3>2. Comes => Comes'
      BY <1>1, <2>1, <2>2, ComesKept
    <3>3. QED
      BY <3>1, <3>2
  <2>4. /\ pc' = pc /\ path' = path /\ cur' = cur /\ item' = item /\ rc' = rc /\ bag' = bag
        /\ calls' = calls /\ items' = items /\ unique' = unique
    <3>1. /\ pc' = pc /\ path' = path /\ cur' = cur /\ item' = item /\ rc' = rc /\ bag' = bag
          /\ calls' = calls
          /\ items' = items + (IF Head(todo).op = "items" THEN 1 ELSE 0)
          /\ unique' = unique + (IF Head(todo).op = "unique" THEN 1 ELSE 0)
      BY StoreIs
    <3>2. items \in Nat /\ unique \in Nat
      BY <1>1 DEF Types
    <3>3. QED
      BY <2>2, <3>1, <3>2
  <2>5. Types'
    BY <1>1, <2>1, <2>4 DEF Types
  <2>6. Flow'
    BY <2>4 DEF Flow, IInv
  <2>7. words[v] = item /\ counts[v] < bag[item]
    <3>1. words[v] = item
      BY <1>1, <1>3, <2>2 DEF Counted
    <3>2. Owed
      BY <1>1, <2>2 DEF Owed
    <3>3. QED
      BY <1>1, <3>1, <3>2 DEF Counted
  <2>8. ASSUME NEW m \in Nodes PROVE counts'[m] <= bag[words[m]]
    <3>1. counts[m] <= bag[words[m]]
      BY <1>1 DEF Counted
    <3>2. counts \in [Nodes -> Nat] /\ words \in [Nodes -> Words] /\ bag \in [Words -> Nat]
      BY <1>1, Views DEF Types
    <3>3. CASE m = v
      <4>1. counts'[m] = counts[v] + 1
        BY <2>1, <3>2, <3>3
      <4>2. counts[v] \in Nat /\ bag[item] \in Nat
        BY <2>7, <3>2
      <4>3. QED
        BY <2>7, <3>3, <4>1, <4>2
    <3>4. CASE m # v
      BY <2>1, <3>1, <3>2, <3>4
    <3>5. QED
      BY <3>3, <3>4
  <2>9. Counted'
    <3>1. ~Owed' /\ pc' # "down"
      BY <1>2, <2>4 DEF NoCounts, Owed
    <3>2. \A k \in DOMAIN todo' : todo'[k].op # "count"
      BY <1>2 DEF NoCounts
    <3>3. \A n \in Nodes' : counts'[n] <= bag'[words'[n]]
      BY <2>1, <2>4, <2>8
    <3>4. QED
      BY <3>1, <3>2, <3>3 DEF Counted
  <2>10. QED
    BY <1>6, <2>1, <2>3, <2>5, <2>6, <2>9
<1>9. ASSUME Head(todo) = IncItems \/ Head(todo) = IncUnique PROVE IInv'
  <2>1. /\ RegionOK' /\ Nodes' = Nodes /\ words' = words /\ kids' = kids /\ heights' = heights /\ counts' = counts
    BY <1>1, <1>9, StoreTotal
  <2>2. Head(todo).op # "depth"
    BY <1>9, Ops
  <2>3. crashed \/ (S = Nodes /\ Comes')
    <3>1. crashed \/ (S = Nodes /\ Comes)
      BY <1>4, <1>5, <2>2
    <3>2. Comes => Comes'
      BY <1>1, <2>1, <2>2, ComesKept
    <3>3. QED
      BY <3>1, <3>2
  <2>4. Types' /\ Flow' /\ Counted'
    BY <1>2, <2>1, StoreBooks
  <2>5. QED
    BY <1>6, <2>1, <2>3, <2>4
<1>10. (\E v \in Nodes : Head(todo) = SetDepth(v) \/ Head(todo) = IncCount(v)) \/ Head(todo) = IncItems \/ Head(todo) = IncUnique
  BY <1>3 DEF Plain
<1>11. QED
  BY <1>7, <1>8, <1>9, <1>10

(* Every step of update() that stores, whatever the phase.                   *)
LEMMA StepStore == IInv /\ Store => IInv'
<1> SUFFICES ASSUME IInv, Store PROVE IInv'
  OBVIOUS
<1>1. todo # <<>> /\ pc = "back"
  BY StoreIs DEF IInv, Flow
<1>2. PICK S, W : Shape(S, W)
  BY DEF IInv
<1>3. CASE Returning(S, W)
  BY <1>1, <1>3, StoreReturning
<1>4. ASSUME NEW n, NEW s, First(S, W, n, s) PROVE IInv'
  BY <1>1, <1>4, StoreFirst
<1>5. ASSUME NEW n, NEW s, Second(S, W, n, s) PROVE IInv'
  BY <1>1, <1>5, StoreSecond
<1>6. ASSUME NEW n, NEW s, NEW c, TwiceFirst(S, W, n, s, c) PROVE IInv'
  BY <1>1, <1>6, StoreTwiceFirst
<1>7. ASSUME NEW n, NEW s, NEW c, TwiceSecond(S, W, n, s, c) PROVE IInv'
  BY <1>1, <1>7, StoreTwiceSecond
<1>8. ASSUME NEW n, NEW s, NEW c, Lifted(S, W, n, s, c) PROVE IInv'
  <2>1. CASE todo = Twice6(n, s, cur, kids[<<cur, Other(s)>>])
    BY <1>1, <1>8, <2>1, StoreLiftedLink
  <2>2. CASE todo # Twice6(n, s, cur, kids[<<cur, Other(s)>>])
    BY <1>1, <1>8, <2>2, StoreLiftedDepth
  <2>3. QED
    BY <2>1, <2>2
<1>9. QED
  BY <1>1, <1>2, <1>3, <1>4, <1>5, <1>6, <1>7, <1>8 DEF Shape

LEMMA StepStutter == IInv /\ UNCHANGED vars => IInv'
<1> SUFFICES ASSUME IInv, UNCHANGED vars PROVE IInv'
  OBVIOUS
<1>1. PICK S, W : Shape(S, W)
  BY DEF IInv
<1>2. /\ mem' = mem /\ root' = root /\ path' = path /\ cur' = cur /\ todo' = todo /\ item' = item
      /\ items' = items /\ unique' = unique /\ bag' = bag /\ calls' = calls /\ crashed' = crashed
      /\ pc' = pc /\ rc' = rc
  BY DEF vars, scm, frame, history
<1>3. Nodes' = Nodes /\ kids' = kids /\ words' = words /\ heights' = heights /\ counts' = counts
      /\ trail' = trail /\ here' = here /\ RegionOK' = RegionOK
  BY <1>2 DEF Nodes, kids, words, heights, counts, trail, here, RegionOK
<1>4. Types' /\ Flow' /\ Counted'
  BY <1>2, <1>3 DEF IInv, Types, Flow, Counted, Owed
<1>5. Plain' = Plain
  BY <1>3 DEF Plain
<1>6. Shape(S, W)'
  <2>1. /\ Idle(S, W) => Idle(S, W)'
        /\ Stack(S, W) => Stack(S, W)'
        /\ Whole(S) => Whole(S)'
    BY <1>2, <1>3 DEF Idle, Stack, Placed, Whole
  <2>2. Comes => Comes'
    BY <1>2, <1>3 DEF Comes
  <2>3. Turned => Turned'
    BY <1>2, <1>3 DEF Turned
  <2>4. Going(S, W) => Going(S, W)'
    BY <1>2, <1>3, <2>1 DEF Going
  <2>5. Checking(S, W) => Checking(S, W)'
    BY <1>2, <1>3, <2>1 DEF Checking
  <2>6. Returning(S, W) => Returning(S, W)'
    BY <1>2, <1>3, <1>5, <2>1, <2>2, <2>3 DEF Returning
  <2>7. \A n, s : Turns(n, s) => Turns(n, s)'
    BY <1>2, <1>3 DEF Turns
  <2>8. \A n, s, c : (Twists(n, s, c) => Twists(n, s, c)') /\ (Twisted(n, s, c) => Twisted(n, s, c)')
    BY <1>2, <1>3 DEF Twists, Twisted
  <2>9. \A n, s : First(S, W, n, s) => First(S, W, n, s)'
    BY <1>2, <1>3, <2>1, <2>7 DEF First
  <2>10. \A n, s : Second(S, W, n, s) => Second(S, W, n, s)'
    BY <1>2, <1>3, <2>1, <2>7 DEF Second
  <2>11. \A n, s, c : TwiceFirst(S, W, n, s, c) => TwiceFirst(S, W, n, s, c)'
    BY <1>2, <1>3, <2>1, <2>8 DEF TwiceFirst
  <2>12. \A n, s, c : TwiceSecond(S, W, n, s, c) => TwiceSecond(S, W, n, s, c)'
    BY <1>2, <1>3, <2>1, <2>8 DEF TwiceSecond
  <2>13. \A n, s, c : Lifted(S, W, n, s, c) => Lifted(S, W, n, s, c)'
    BY <1>2, <1>3, <2>1, <2>7, <2>8 DEF Lifted
  <2>14. QED
    BY <1>1, <1>2, <2>1, <2>4, <2>5, <2>6, <2>9, <2>10, <2>11, <2>12, <2>13 DEF Shape
<1>7. QED
  BY <1>4, <1>6 DEF IInv

LEMMA StepNext == IInv /\ [Next]_vars => IInv'
  BY StepOpen, StepClose, StepInsert, StepDescend, StepBump, StepAllocate, StepAllocateFails, StepStore,
     StepTakeResult, StepRebalance, StepInsertReturns, StepCrash, StepStutter DEF Next

-----------------------------------------------------------------------------
(***************************************************************************)
(* What the walks over the tree compute: avl_exists, avl_traverse and the  *)
(* heights. Each repeats a step up to Len(mem) times.                      *)
(***************************************************************************)
NatLess == {a \in Nat \X Nat : a[1] < a[2]}

LEMMA Inductive ==
  ASSUME NEW T, 0 \in T, \A k \in Nat : k \in T => k + 1 \in T
  PROVE  \A k \in Nat : k \in T
<1> DEFINE R == Nat \ T
<1>1. SUFFICES ASSUME R # {} PROVE FALSE
  OBVIOUS
<1>2. IsWellFoundedOn(NatLess, Nat)
  BY NatLessThanWellFounded, Zenon DEF OpToRel, NatLess
<1>3. PICK m \in R : \A k \in R : ~ (<<k, m>> \in NatLess)
  <2>1. R \subseteq Nat
    OBVIOUS
  <2>2. QED
    BY <1>1, <1>2, <2>1, WFMin
<1>4. m \in Nat /\ m # 0 /\ m \notin T
  BY <1>3
<1>5. PICK j \in Nat : m = j + 1
  <2>1. m - 1 \in Nat /\ m = (m - 1) + 1
    BY <1>4
  <2>2. QED
    BY <2>1
<1>6. <<j, m>> \in NatLess
  BY <1>4, <1>5 DEF NatLess
<1>7. j \in T
  BY <1>3, <1>6
<1>8. QED
  BY <1>4, <1>5, <1>7

(* n steps of F from v.                                                      *)
Runs(V, F, v, n, g) ==
  g \in [0 .. n -> V] /\ g[0] = v /\ \A k \in 0 .. n : k + 1 \in 0 .. n => g[k + 1] = F[g[k]]

LEMMA RunsOn ==
  ASSUME NEW V, NEW F \in [V -> V], NEW v \in V, NEW n \in Nat, NEW g, Runs(V, F, v, n, g)
  PROVE  \E h : Runs(V, F, v, n + 1, h)
<1> DEFINE h == [k \in 0 .. n + 1 |-> IF k = n + 1 THEN F[g[n]] ELSE g[k]]
<1>1. \A k \in 0 .. n + 1 : k = n + 1 \/ k \in 0 .. n
  OBVIOUS
<1>2. /\ n \in 0 .. n /\ n + 1 \in 0 .. n + 1 /\ 0 \in 0 .. n + 1 /\ 0 # n + 1 /\ n # n + 1
      /\ \A k \in 0 .. n : k \in 0 .. n + 1 /\ k # n + 1
  OBVIOUS
<1>3. \A k \in 0 .. n : g[k] \in V
  BY DEF Runs
<1>4. F[g[n]] \in V
  BY <1>2, <1>3
<1>5. \A k \in 0 .. n + 1 : (IF k = n + 1 THEN F[g[n]] ELSE g[k]) \in V
  BY <1>1, <1>3, <1>4
<1>6. h \in [0 .. n + 1 -> V]
  BY <1>5
<1>7. h[n + 1] = F[g[n]] /\ \A k \in 0 .. n : h[k] = g[k]
  BY <1>2
<1>8. h[0] = v
  BY <1>7 DEF Runs
<1> HIDE DEF h
<1>9. ASSUME NEW k \in 0 .. n + 1, k + 1 \in 0 .. n + 1 PROVE h[k + 1] = F[h[k]]
  <2>1. k \in 0 .. n /\ h[k] = g[k]
    BY <1>7, <1>9
  <2>2. CASE k = n
    BY <1>7, <2>1, <2>2
  <2>3. CASE k # n
    <3>1. k + 1 \in 0 .. n
      BY <1>9, <2>1, <2>3
    <3>2. g[k + 1] = F[g[k]]
      BY <2>1, <3>1 DEF Runs
    <3>3. QED
      BY <1>7, <2>1, <3>1, <3>2
  <2>4. QED
    BY <2>2, <2>3
<1>10. QED
  BY <1>6, <1>8, <1>9 DEF Runs

LEMMA RunsAgree ==
  ASSUME NEW V, NEW F, NEW v
  PROVE  \A k \in Nat : \A m, n \in Nat : \A g, h :
           k \in 0 .. m /\ k \in 0 .. n /\ Runs(V, F, v, m, g) /\ Runs(V, F, v, n, h) => g[k] = h[k]
<1> DEFINE T == {k \in Nat : \A m, n \in Nat : \A g, h :
                   k \in 0 .. m /\ k \in 0 .. n /\ Runs(V, F, v, m, g) /\ Runs(V, F, v, n, h) => g[k] = h[k]}
<1>1. 0 \in T
  BY DEF Runs
<1>2. ASSUME NEW k \in Nat, k \in T PROVE k + 1 \in T
  <2>1. ASSUME NEW m \in Nat, NEW n \in Nat, NEW g, NEW h, k + 1 \in 0 .. m, k + 1 \in 0 .. n,
               Runs(V, F, v, m, g), Runs(V, F, v, n, h)
        PROVE  g[k + 1] = h[k + 1]
    <3>1. k \in 0 .. m /\ k \in 0 .. n
      BY <2>1
    <3>2. g[k] = h[k]
      BY <1>2, <2>1, <3>1
    <3>3. g[k + 1] = F[g[k]] /\ h[k + 1] = F[h[k]]
      BY <2>1, <3>1 DEF Runs
    <3>4. QED
      BY <3>2, <3>3
  <2>2. k + 1 \in Nat
    OBVIOUS
  <2>3. QED
    BY <2>1, <2>2
<1>3. \A k \in Nat : k \in T
  <2> HIDE DEF T
  <2>1. QED
    BY <1>1, <1>2, Inductive
<1>4. QED
  BY <1>3

(* The values a step takes from v on.                                        *)
Iterated(V, F, v, f) == f \in [Nat -> V] /\ f[0] = v /\ \A k \in Nat : f[k + 1] = F[f[k]]

LEMMA Iterates ==
  ASSUME NEW V, NEW F \in [V -> V], NEW v \in V
  PROVE  \E f : Iterated(V, F, v, f)
<1> DEFINE T == {n \in Nat : \E g : Runs(V, F, v, n, g)}
           f == [n \in Nat |-> (CHOOSE g : Runs(V, F, v, n, g))[n]]
<1>1. 0 \in T
  <2> DEFINE g == [k \in 0 .. 0 |-> v]
  <2>1. Runs(V, F, v, 0, g)
    BY DEF Runs
  <2>2. QED
    BY <2>1
<1>2. ASSUME NEW n \in Nat, n \in T PROVE n + 1 \in T
  BY <1>2, RunsOn
<1>3. \A n \in Nat : n \in T
  <2> HIDE DEF T
  <2>1. QED
    BY <1>1, <1>2, Inductive
<1>4. \A n \in Nat : \E g : Runs(V, F, v, n, g) /\ f[n] = g[n]
  BY <1>3
<1> HIDE DEF f, T
<1>5. f \in [Nat -> V]
  <2>1. ASSUME NEW n \in Nat PROVE f[n] \in V
    <3>1. PICK g : Runs(V, F, v, n, g) /\ f[n] = g[n]
      BY <1>4
    <3>2. n \in 0 .. n
      OBVIOUS
    <3>3. QED
      BY <3>1, <3>2 DEF Runs
  <2>2. QED
    BY <2>1 DEF f
<1>6. f[0] = v
  BY <1>4 DEF Runs
<1>7. ASSUME NEW k \in Nat PROVE f[k + 1] = F[f[k]]
  <2>1. k + 1 \in Nat /\ k \in 0 .. k /\ k \in 0 .. k + 1 /\ k + 1 \in 0 .. k + 1
    OBVIOUS
  <2>2. PICK g : Runs(V, F, v, k, g) /\ f[k] = g[k]
    BY <1>4
  <2>3. PICK h : Runs(V, F, v, k + 1, h) /\ f[k + 1] = h[k + 1]
    BY <1>4, <2>1
  <2>4. g[k] = h[k]
    <3>1. PICK m : m = k + 1
      OBVIOUS
    <3>2. QED
      BY <2>1, <2>2, <2>3, <3>1, RunsAgree
  <2>5. h[k + 1] = F[h[k]]
    BY <2>1, <2>3 DEF Runs
  <2>6. QED
    BY <2>2, <2>3, <2>4, <2>5
<1>8. QED
  BY <1>5, <1>6, <1>7 DEF Iterated

(* avl_exists: the nodes on its way for word i.                              *)
Walk(i, f) ==
  /\ f \in [Nat -> Nodes \cup {NULL}] /\ f[0] = root
  /\ \A k \in Nat : f[k + 1] = IF f[k] = NULL THEN NULL
                               ELSE IF words[f[k]] = i THEN f[k] ELSE kids[<<f[k], Side(i, f[k])>>]

LEMMA FindWalks ==
  ASSUME RegionOK, NEW i
  PROVE  \E f : Walk(i, f) /\ Find(i) = f[Len(mem)]
<1> DEFINE V == Nodes \cup {NULL}
           Go(n) == IF n = NULL THEN NULL ELSE IF mem[n].item = i THEN n ELSE mem[n][Side(i, n)]
           F == [n \in V |-> Go(n)]
           P(g) == g = [k \in Nat |-> IF k = 0 THEN root
                                      ELSE LET n == g[k - 1]
                                           IN IF n = NULL THEN NULL
                                              ELSE IF mem[n].item = i THEN n ELSE mem[n][Side(i, n)]]
<1>1. /\ root \in V /\ Len(mem) \in Nat
      /\ \A n \in Nodes : words[n] = mem[n].item /\ \A s \in Sides : mem[n][s] = kids[<<n, s>>]
      /\ kids \in [From(Nodes) -> V]
  BY Views DEF RegionOK
<1>2. \A n : Side(i, n) \in Sides
  BY DEF Side, Sides
<1>3. ASSUME NEW n \in V PROVE Go(n) \in V
  <2>1. CASE n = NULL
    BY <2>1
  <2>2. CASE n # NULL
    <3>1. n \in Nodes
      BY <2>2
    <3>2. <<n, Side(i, n)>> \in From(Nodes)
      BY <3>1, <1>2, Refs
    <3>3. mem[n][Side(i, n)] \in V
      BY <1>1, <1>2, <3>1, <3>2
    <3>4. QED
      BY <2>2, <3>3
  <2>3. QED
    BY <2>1, <2>2
<1>4. F \in [V -> V]
  BY <1>3
<1>5. \A n \in V : F[n] = Go(n)
  OBVIOUS
<1> HIDE DEF F
<1>6. PICK f : Iterated(V, F, root, f)
  BY <1>1, <1>4, Iterates
<1>7. P(f)
  <2>1. f \in [Nat -> V]
    BY <1>6 DEF Iterated
  <2>2. ASSUME NEW k \in Nat PROVE f[k] = IF k = 0 THEN root ELSE Go(f[k - 1])
    <3>1. CASE k = 0
      BY <1>6, <3>1 DEF Iterated
    <3>2. CASE k # 0
      <4>1. PICK j \in Nat : j = k - 1
        BY <3>2
      <4>2. k = j + 1
        BY <4>1
      <4>3. f[k] = F[f[j]] /\ f[j] \in V
        BY <1>6, <4>2 DEF Iterated
      <4>4. QED
        BY <1>5, <3>2, <4>1, <4>3
    <3>3. QED
      BY <3>1, <3>2
  <2>3. QED
    BY <2>1, <2>2
<1>8. PICK g : g = CHOOSE h : P(h)
  OBVIOUS
<1>9. Find(i) = g[Len(mem)]
  BY <1>8 DEF Find
<1>10. P(g)
  <2> HIDE DEF P
  <2>1. QED
    BY <1>7, <1>8
<1>11. g[0] = root /\ \A k \in Nat : g[k + 1] = Go(g[k])
  <2>1. g[0] = root
    BY <1>10
  <2>2. ASSUME NEW k \in Nat PROVE g[k + 1] = Go(g[k])
    <3>1. PICK j \in Nat : j = k + 1
      OBVIOUS
    <3>2. j # 0 /\ j - 1 = k
      BY <3>1
    <3>3. g[j] = Go(g[j - 1])
      BY <1>10, <3>2
    <3>4. QED
      BY <3>1, <3>2, <3>3
  <2>3. QED
    BY <2>1, <2>2
<1>12. \A k \in Nat : g[k] \in V
  <2> DEFINE T == {k \in Nat : g[k] \in V}
  <2>1. 0 \in T
    BY <1>1, <1>11
  <2>2. \A k \in Nat : k \in T => k + 1 \in T
    <3> HIDE DEF Go
    <3>1. QED
      BY <1>3, <1>11
  <2>3. \A k \in Nat : k \in T
    <3> HIDE DEF T
    <3>1. QED
      BY <2>1, <2>2, Inductive
  <2>4. QED
    BY <2>3
<1>13. g \in [Nat -> V]
  <2>1. DOMAIN g = Nat /\ g = [k \in DOMAIN g |-> g[k]]
    BY <1>10
  <2>2. QED
    BY <1>12, <2>1
<1>14. ASSUME NEW k \in Nat
       PROVE  g[k + 1] = IF g[k] = NULL THEN NULL
                         ELSE IF words[g[k]] = i THEN g[k] ELSE kids[<<g[k], Side(i, g[k])>>]
  <2>1. g[k + 1] = Go(g[k]) /\ g[k] \in V
    BY <1>11, <1>12
  <2>2. g[k] # NULL => words[g[k]] = mem[g[k]].item /\ mem[g[k]][Side(i, g[k])] = kids[<<g[k], Side(i, g[k])>>]
    BY <1>1, <1>2, <2>1
  <2>3. QED
    BY <2>1, <2>2
<1>15. QED
  BY <1>9, <1>11, <1>13, <1>14 DEF Walk

(* The words at and below a node become fewer on the way down.               *)
Narrows(S, W) ==
  /\ \A n \in S : Cardinality(W[n]) \in Nat /\ Cardinality(W[n]) # 0 /\ Cardinality(W[n]) <= Len(mem)
  /\ \A n \in S, s \in Sides :
       kids[<<n, s>>] # NULL => kids[<<n, s>>] \in S /\ Cardinality(W[kids[<<n, s>>]]) < Cardinality(W[n])

LEMMA TreeNarrows ==
  ASSUME RegionOK, NEW S, NEW W, Idle(S, W)
  PROVE  Narrows(S, W)
<1>1. /\ Nodes = 1 .. Len(mem) /\ Len(mem) \in Nat /\ words \in [Nodes -> Words]
      /\ S \in SUBSET Nodes /\ Region(Nodes, kids, words, W) /\ Tree(kids, words, S, W, NoRef)
  BY Views DEF Idle, Placed
<1> DEFINE A == {words[m] : m \in Nodes}
<1>2. IsFiniteSet(Nodes) /\ Cardinality(Nodes) = Len(mem)
  <2>1. 1 \in Int /\ Len(mem) \in Int
    BY <1>1
  <2>2. IsFiniteSet(1 .. Len(mem)) /\ Cardinality(1 .. Len(mem)) = IF 1 > Len(mem) THEN 0 ELSE Len(mem) - 1 + 1
    BY <2>1, FS_Interval
  <2>3. QED
    BY <1>1, <2>2
<1>3. IsFiniteSet(A) /\ Cardinality(A) <= Len(mem)
  <2>1. words \in Surjection(Nodes, A)
    BY <1>1 DEF Surjection
  <2>2. QED
    BY <1>2, <2>1, FS_Surjection
<1>4. Cardinality(A) \in Nat
  BY <1>3, FS_CardinalityType
<1>5. \A n \in Nodes : W[n] \in SUBSET A
  BY <1>1 DEF Region
<1>6. \A n \in S : n \in Nodes /\ words[n] \in W[n] /\ words[n] \in Words
  BY <1>1 DEF Tree
<1> HIDE DEF A
<1>7. ASSUME NEW n \in Nodes
      PROVE  IsFiniteSet(W[n]) /\ Cardinality(W[n]) \in Nat /\ Cardinality(W[n]) <= Len(mem)
  <2>1. W[n] \in SUBSET A
    BY <1>5
  <2>2. IsFiniteSet(W[n]) /\ Cardinality(W[n]) <= Cardinality(A)
    BY <1>3, <2>1, FS_Subset
  <2>3. Cardinality(W[n]) \in Nat
    BY <2>2, FS_CardinalityType
  <2>4. QED
    BY <1>1, <1>3, <1>4, <2>2, <2>3
<1>8. ASSUME NEW n \in S PROVE Cardinality(W[n]) # 0
  <2>1. W[n] # {}
    BY <1>6
  <2>2. QED
    BY <1>6, <1>7, <2>1, FS_EmptySet
<1>9. ASSUME NEW n \in S, NEW s \in Sides, kids[<<n, s>>] # NULL
      PROVE  kids[<<n, s>>] \in S /\ Cardinality(W[kids[<<n, s>>]]) < Cardinality(W[n])
  <2>1. PICK a : a = <<n, s>>
    OBVIOUS
  <2>2. a \in From(S) /\ a \in S \X Sides /\ kids[a] # NULL
    BY <1>9, <2>1, Refs
  <2>3. PICK c : c = kids[a]
    OBVIOUS
  <2>4. c \in S /\ W[c] \subseteq Part(words, W, a) /\ c \in Nodes /\ n \in Nodes
    BY <1>1, <2>2, <2>3 DEF Tree
  <2>5. Part(words, W, a) \subseteq W[n] /\ words[n] \notin Part(words, W, a)
    BY <1>1, <2>1, <2>4, PartIs
  <2>6. W[c] \in SUBSET W[n] /\ W[c] # W[n]
    BY <1>6, <2>4, <2>5
  <2>7. Cardinality(W[c]) <= Cardinality(W[n]) /\ Cardinality(W[c]) # Cardinality(W[n])
    BY <1>7, <2>4, <2>6, FS_Subset
  <2>8. Cardinality(W[c]) \in Nat /\ Cardinality(W[n]) \in Nat
    BY <1>7, <2>4
  <2>9. Cardinality(W[c]) < Cardinality(W[n])
    BY <2>7, <2>8
  <2>10. QED
    BY <2>1, <2>3, <2>4, <2>9
<1>10. QED
  BY <1>6, <1>7, <1>8, <1>9 DEF Narrows

(* So a walk for word i ends in NULL or at a node with that word.            *)
LEMMA WalkEnds ==
  ASSUME RegionOK, NEW S, NEW W, Idle(S, W), NEW i, NEW f, Walk(i, f)
  PROVE  f[Len(mem)] # NULL => f[Len(mem)] \in Nodes /\ words[f[Len(mem)]] = i
<1>1. /\ Len(mem) \in Nat /\ kids[RootRef] = root /\ Nodes \cup {NULL} = 0 .. Len(mem)
      /\ S \in SUBSET Nodes /\ Tree(kids, words, S, W, NoRef) /\ \A n \in Nodes : n # NULL
  BY Views DEF Idle, Placed, NULL
<1>2. Narrows(S, W)
  BY TreeNarrows
<1>3. \A n : Side(i, n) \in Sides
  BY DEF Side, Sides
<1> DEFINE Near(k) == f[k] # NULL => /\ f[k] \in S
                                     /\ words[f[k]] = i \/ Cardinality(W[f[k]]) + k <= Len(mem)
           T == {k \in Nat : Near(k)}
<1>4. 0 \in T
  <2>1. root # NULL => root \in S
    BY <1>1, FromIs DEF Tree
  <2>2. root # NULL => Cardinality(W[root]) \in Nat /\ Cardinality(W[root]) <= Len(mem)
    BY <1>2, <2>1 DEF Narrows
  <2>3. f[0] = root
    BY DEF Walk
  <2>4. root # NULL => Cardinality(W[root]) + 0 <= Len(mem)
    BY <1>1, <2>2
  <2>5. QED
    BY <2>1, <2>3, <2>4
<1>5. ASSUME NEW k \in Nat, k \in T PROVE k + 1 \in T
  <2>1. f[k + 1] = IF f[k] = NULL THEN NULL
                   ELSE IF words[f[k]] = i THEN f[k] ELSE kids[<<f[k], Side(i, f[k])>>]
    BY DEF Walk
  <2>2. CASE f[k] = NULL
    BY <2>1, <2>2
  <2>3. CASE f[k] # NULL /\ words[f[k]] = i
    BY <1>5, <2>1, <2>3
  <2>4. CASE f[k] # NULL /\ words[f[k]] # i
    <3>1. PICK n : n = f[k]
      OBVIOUS
    <3>2. PICK c : c = kids[<<n, Side(i, n)>>]
      OBVIOUS
    <3>3. n \in S /\ Cardinality(W[n]) + k <= Len(mem) /\ f[k + 1] = c
      BY <1>5, <2>1, <2>4, <3>1, <3>2
    <3>4. c # NULL => c \in S /\ Cardinality(W[c]) < Cardinality(W[n])
      BY <1>2, <1>3, <3>2, <3>3 DEF Narrows
    <3>5. Cardinality(W[n]) \in Nat /\ (c # NULL => Cardinality(W[c]) \in Nat)
      BY <1>2, <3>3, <3>4 DEF Narrows
    <3>6. c # NULL => Cardinality(W[c]) + (k + 1) <= Len(mem)
      BY <1>1, <3>3, <3>4, <3>5
    <3>7. Near(k + 1)
      BY <3>3, <3>4, <3>6
    <3>8. QED
      BY <3>7
  <2>5. QED
    BY <2>2, <2>3, <2>4
<1>6. \A k \in Nat : k \in T
  <2> HIDE DEF T
  <2>1. QED
    BY <1>4, <1>5, Inductive
<1>7. Near(Len(mem))
  BY <1>1, <1>6
<1>8. PICK n : n = f[Len(mem)]
  OBVIOUS
<1>9. n # NULL => n \in S /\ (words[n] = i \/ Cardinality(W[n]) + Len(mem) <= Len(mem))
  BY <1>7, <1>8
<1>10. n # NULL => words[n] = i
  <2>1. n # NULL => Cardinality(W[n]) \in Nat /\ Cardinality(W[n]) # 0
    BY <1>2, <1>9 DEF Narrows
  <2>2. QED
    BY <1>1, <1>9, <2>1
<1>11. QED
  BY <1>1, <1>8, <1>9, <1>10

(* Whatever exists answers is the count of a node with that word.            *)
LEMMA ExistsCounted ==
  ASSUME IInv, NEW i \in Words
  PROVE  avl_exists(i) <= bag[i]
<1>1. RegionOK /\ bag \in [Words -> Nat] /\ \A n \in Nodes : counts[n] <= bag[words[n]]
  BY DEF IInv, Types, Counted
<1>2. PICK S, W : Shape(S, W)
  BY DEF IInv
<1>3. PICK T : Idle(T, W)
  BY <1>2, Survives DEF IInv
<1>4. PICK f : Walk(i, f) /\ Find(i) = f[Len(mem)]
  BY <1>1, FindWalks
<1>5. Find(i) # NULL => Find(i) \in Nodes /\ words[Find(i)] = i
  BY <1>1, <1>3, <1>4, WalkEnds
<1>6. \A n \in Nodes : counts[n] = mem[n].count
  BY DEF counts
<1>7. CASE Find(i) = NULL
  BY <1>1, <1>7 DEF avl_exists
<1>8. CASE Find(i) # NULL
  BY <1>1, <1>5, <1>6, <1>8 DEF avl_exists
<1>9. QED
  BY <1>7, <1>8

(* In a whole tree no height is more than its words allow.                   *)
LEMMA HeightsBound ==
  ASSUME RegionOK, NEW W, Idle(Nodes, W), Rest(Nodes, kids, heights, {})
  PROVE  \A n \in Nodes : heights[n] < Len(mem)
<1>1. /\ Len(mem) \in Nat /\ Sized(Nodes, kids, heights) /\ heights \in [Nodes -> Nat]
  BY Views DEF Sized
<1>2. Narrows(Nodes, W)
  BY TreeNarrows
<1>3. \A n \in Nodes : Cardinality(W[n]) \in Nat /\ Cardinality(W[n]) # 0 /\ Cardinality(W[n]) <= Len(mem)
  BY <1>2 DEF Narrows
<1> DEFINE T == {d \in Nat : \A n \in Nodes : heights[n] = d => d < Cardinality(W[n])}
<1>4. 0 \in T
  BY <1>3
<1>5. ASSUME NEW d \in Nat, d \in T PROVE d + 1 \in T
  <2>1. ASSUME NEW n \in Nodes, heights[n] = d + 1 PROVE d + 1 < Cardinality(W[n])
    <3>1. PICK a, b : a = kids[<<n, "left">>] /\ b = kids[<<n, "right">>]
      OBVIOUS
    <3>2. /\ Deep(heights, a) \in Int /\ Deep(heights, b) \in Int
          /\ a \in Nodes \cup {NULL} /\ b \in Nodes \cup {NULL}
      <4>1. "left" \in Sides /\ Other("left") = "right"
        BY DEF Sides, Other
      <4>2. QED
        BY <1>1, <3>1, <4>1, DueIs
    <3>3. heights[n] = Due(kids, heights, n)
      BY DEF Rest, Settled
    <3>4. Deep(heights, a) = d \/ Deep(heights, b) = d
      BY <2>1, <3>1, <3>2, <3>3 DEF Due, Higher
    <3>5. ASSUME NEW s \in Sides, NEW c, c = kids[<<n, s>>], c \in Nodes \cup {NULL}, Deep(heights, c) = d
          PROVE  d + 1 < Cardinality(W[n])
      <4>1. c # NULL /\ heights[c] = d
        BY <3>5 DEF Deep
      <4>2. c \in Nodes /\ Cardinality(W[c]) < Cardinality(W[n])
        BY <1>2, <3>5, <4>1 DEF Narrows
      <4>3. d < Cardinality(W[c])
        BY <1>5, <4>1, <4>2
      <4>4. Cardinality(W[c]) \in Nat /\ Cardinality(W[n]) \in Nat
        BY <1>3, <4>2
      <4>5. QED
        BY <4>2, <4>3, <4>4
    <3>6. "left" \in Sides /\ "right" \in Sides
      BY DEF Sides
    <3>7. QED
      BY <3>1, <3>2, <3>4, <3>5, <3>6
  <2>2. QED
    BY <2>1
<1>6. \A d \in Nat : d \in T
  <2> HIDE DEF T
  <2>1. QED
    BY <1>4, <1>5, Inductive
<1>7. ASSUME NEW n \in Nodes PROVE heights[n] < Len(mem)
  <2>1. heights[n] \in Nat /\ heights[n] < Cardinality(W[n])
    BY <1>1, <1>6
  <2>2. QED
    BY <1>1, <1>3, <2>1
<1>8. QED
  BY <1>7

(* The recursion of Height: k levels from every node.                        *)
Levels(g) ==
  /\ \A n \in 0 .. Len(mem) : g[0][n] = -1
  /\ \A k \in Nat : \A n \in 0 .. Len(mem) :
       g[k + 1][n] = IF n = NULL THEN -1 ELSE 1 + Max({g[k][mem[n].left], g[k][mem[n].right]})

LEMMA Lines ==
  ASSUME RegionOK, NEW n \in 0 .. Len(mem), n # NULL
  PROVE  /\ n \in Nodes /\ mem[n].left \in 0 .. Len(mem) /\ mem[n].right \in 0 .. Len(mem)
         /\ mem[n].left = kids[<<n, "left">>] /\ mem[n].right = kids[<<n, "right">>]
<1>1. n \in Nodes
  BY Views
<1>2. PICK P : P = 0 .. Len(mem)
  OBVIOUS
<1>3. mem[n] \in Rec(P)
  BY <1>1, <1>2, Views
<1>4. mem[n].left \in P /\ mem[n].right \in P
  BY <1>3 DEF Rec
<1>5. QED
  BY <1>1, <1>2, <1>4, Views

LEMMA HeightLevels ==
  ASSUME RegionOK
  PROVE  \E g : Levels(g) /\ Height = g[Len(mem)]
<1> DEFINE M == 0 .. Len(mem)
           V == [M -> Int]
           Up(r, n) == IF n = NULL THEN -1 ELSE 1 + Max({r[mem[n].left], r[mem[n].right]})
           Row(r) == [n \in M |-> Up(r, n)]
           F == [r \in V |-> Row(r)]
           v == [n \in M |-> -1]
           P(h) == h = [k \in Nat |-> [n \in M |-> IF k = 0 \/ n = NULL THEN -1
                                     ELSE 1 + Max({h[k - 1][mem[n].left], h[k - 1][mem[n].right]})]]
<1>1. Len(mem) \in Nat
  BY Views
<1>2. \A n \in M : n # NULL => mem[n].left \in M /\ mem[n].right \in M
  BY Lines
<1>3. v \in V
  OBVIOUS
<1>4. ASSUME NEW r \in V, NEW n \in M PROVE Up(r, n) \in Int
  <2>1. CASE n = NULL
    BY <2>1
  <2>2. CASE n # NULL
    <3>1. PICK a \in Int, b \in Int : a = r[mem[n].left] /\ b = r[mem[n].right]
      BY <1>2, <2>2
    <3>2. Max({a, b}) \in Int
      BY DEF Max
    <3>3. QED
      BY <2>2, <3>1, <3>2
  <2>3. QED
    BY <2>1, <2>2
<1>5. \A r \in V : Row(r) \in V
  BY <1>4
<1>6. F \in [V -> V]
  BY <1>5
<1>7. \A r \in V : F[r] = Row(r)
  OBVIOUS
<1> HIDE DEF F
<1>8. PICK f : Iterated(V, F, v, f)
  BY <1>3, <1>6, Iterates
<1>9. f \in [Nat -> V] /\ f[0] = v /\ \A k \in Nat : f[k + 1] = Row(f[k])
  <2> HIDE DEF V, Row, v
  <2>1. QED
    BY <1>7, <1>8 DEF Iterated
<1>10. P(f)
  <2>1. ASSUME NEW k \in Nat
        PROVE  f[k] = [n \in M |-> IF k = 0 \/ n = NULL THEN -1
                                   ELSE 1 + Max({f[k - 1][mem[n].left], f[k - 1][mem[n].right]})]
    <3>1. CASE k = 0
      BY <1>9, <3>1
    <3>2. CASE k # 0
      <4>1. PICK j \in Nat : j = k - 1
        BY <3>2
      <4>2. k = j + 1
        BY <4>1
      <4>3. f[k] = Row(f[j])
        BY <1>9, <4>2
      <4>4. QED
        BY <3>2, <4>1, <4>3
    <3>3. QED
      BY <3>1, <3>2
  <2>2. f = [k \in Nat |-> f[k]]
    BY <1>9
  <2>3. QED
    BY <2>1, <2>2
<1>11. PICK g : g = CHOOSE x : P(x)
  OBVIOUS
<1>12. Height = g[Len(mem)]
  BY <1>11 DEF Height
<1>13. P(g)
  <2> HIDE DEF P
  <2>1. QED
    BY <1>10, <1>11
<1>14. \A k \in Nat : \A n \in M : g[k][n] = IF k = 0 \/ n = NULL THEN -1
                                  ELSE 1 + Max({g[k - 1][mem[n].left], g[k - 1][mem[n].right]})
  <2> DEFINE Cell(k, n) == IF k = 0 \/ n = NULL THEN -1
                            ELSE 1 + Max({g[k - 1][mem[n].left], g[k - 1][mem[n].right]})
  <2>1. g = [k \in Nat |-> [n \in M |-> Cell(k, n)]]
    BY <1>13
  <2> HIDE DEF Cell
  <2>2. \A k \in Nat : g[k] = [n \in M |-> Cell(k, n)]
    BY <2>1
  <2>3. \A k \in Nat : \A n \in M : g[k][n] = Cell(k, n)
    BY <2>2
  <2>4. QED
    BY <2>3 DEF Cell
<1>15. Levels(g)
  <2>1. ASSUME NEW k \in Nat, NEW n \in M
        PROVE  g[k + 1][n] = IF n = NULL THEN -1 ELSE 1 + Max({g[k][mem[n].left], g[k][mem[n].right]})
    <3>1. PICK j \in Nat : j = k + 1
      OBVIOUS
    <3>2. j # 0 /\ j - 1 = k
      BY <3>1
    <3>3. QED
      BY <1>14, <3>1, <3>2
  <2>2. QED
    BY <1>14, <2>1 DEF Levels
<1>16. QED
  BY <1>12, <1>15

LEMMA HeightIs ==
  ASSUME RegionOK, NEW W, Idle(Nodes, W), Rest(Nodes, kids, heights, {})
  PROVE  \A n \in 0 .. Len(mem) : Height[n] = Deep(heights, n)
<1>1. /\ Len(mem) \in Nat /\ Sized(Nodes, kids, heights) /\ Nodes \cup {NULL} = 0 .. Len(mem)
  BY Views DEF Sized
<1>2. PICK g : Levels(g) /\ \A n \in 0 .. Len(mem) : Height[n] = g[Len(mem)][n]
  BY HeightLevels
<1> DEFINE T == {k \in Nat : \A n \in 0 .. Len(mem) : Deep(heights, n) < k => g[k][n] = Deep(heights, n)}
<1>3. 0 \in T
  <2>1. ASSUME NEW n \in 0 .. Len(mem), Deep(heights, n) < 0 PROVE g[0][n] = Deep(heights, n)
    <3>1. Deep(heights, n) \in Int /\ Deep(heights, n) >= -1
      BY <1>1, DeepIs
    <3>2. QED
      BY <1>2, <2>1, <3>1 DEF Levels
  <2>2. QED
    BY <2>1
<1>4. ASSUME NEW k \in Nat, k \in T PROVE k + 1 \in T
  <2>1. ASSUME NEW n \in 0 .. Len(mem), Deep(heights, n) < k + 1 PROVE g[k + 1][n] = Deep(heights, n)
    <3>1. CASE n = NULL
      BY <1>2, <3>1 DEF Levels, Deep
    <3>2. CASE n # NULL
      <4>1. n \in Nodes /\ heights[n] = Due(kids, heights, n) /\ Deep(heights, n) = heights[n]
        BY <1>1, <3>2 DEF Rest, Settled, Deep
      <4>2. PICK a, b : a = mem[n].left /\ b = mem[n].right
        OBVIOUS
      <4>3. a = kids[<<n, "left">>] /\ b = kids[<<n, "right">>]
        BY <4>1, <4>2, Views
      <4>4. PICK x, y : x = Deep(heights, a) /\ y = Deep(heights, b)
        OBVIOUS
      <4>5. x \in Int /\ y \in Int /\ a \in 0 .. Len(mem) /\ b \in 0 .. Len(mem)
        <5>1. "left" \in Sides /\ Other("left") = "right"
          BY DEF Sides, Other
        <5>2. QED
          BY <1>1, <4>1, <4>3, <4>4, <5>1, DueIs
      <4>6. heights[n] = 1 + Higher(x, y)
        BY <4>1, <4>3, <4>4 DEF Due
      <4>7. x < k /\ y < k
        BY <2>1, <4>1, <4>5, <4>6 DEF Higher
      <4>8. g[k][a] = x /\ g[k][b] = y
        BY <1>4, <4>4, <4>5, <4>7
      <4>9. g[k + 1][n] = 1 + Max({g[k][a], g[k][b]})
        BY <1>2, <3>2, <4>2 DEF Levels
      <4>10. Max({x, y}) = Higher(x, y)
        BY <4>5 DEF Max, Higher
      <4>11. QED
        BY <4>1, <4>6, <4>8, <4>9, <4>10
    <3>3. QED
      BY <3>1, <3>2
  <2>2. QED
    BY <2>1
<1>5. \A k \in Nat : k \in T
  <2> HIDE DEF T
  <2>1. QED
    BY <1>3, <1>4, Inductive
<1>6. ASSUME NEW n \in 0 .. Len(mem) PROVE Height[n] = Deep(heights, n)
  <2>1. Deep(heights, n) < Len(mem)
    <3>1. CASE n = NULL
      BY <1>1, <3>1 DEF Deep
    <3>2. CASE n # NULL
      <4>1. n \in Nodes /\ Deep(heights, n) = heights[n]
        BY <1>1, <3>2 DEF Deep
      <4>2. QED
        BY <4>1, HeightsBound
    <3>3. QED
      BY <3>1, <3>2
  <2>2. Len(mem) \in T
    BY <1>1, <1>5
  <2>3. QED
    BY <1>2, <2>1, <2>2
<1>7. QED
  BY <1>6

(* The recursion of avl_traverse: k levels of nodes from every node.         *)
Lists(g) ==
  /\ \A n \in 0 .. Len(mem) : g[0][n] = <<>>
  /\ \A k \in Nat : \A n \in 0 .. Len(mem) :
       g[k + 1][n] = IF n = NULL THEN <<>> ELSE g[k][mem[n].left] \o <<n>> \o g[k][mem[n].right]

LEMMA Traverses ==
  ASSUME RegionOK
  PROVE  \E g : Lists(g) /\ avl_traverse = g[Len(mem)][root]
<1> DEFINE M == 0 .. Len(mem)
           V == [M -> Seq(Nodes)]
           Up(r, n) == IF n = NULL THEN <<>> ELSE r[mem[n].left] \o <<n>> \o r[mem[n].right]
           Row(r) == [n \in M |-> Up(r, n)]
           F == [r \in V |-> Row(r)]
           v == [n \in M |-> <<>>]
           P(h) == h = [k \in Nat |-> [n \in M |-> IF k = 0 \/ n = NULL THEN <<>>
                                     ELSE h[k - 1][mem[n].left] \o <<n>> \o h[k - 1][mem[n].right]]]
<1>1. Len(mem) \in Nat
  BY Views
<1>2. \A n \in M : n # NULL => n \in Nodes /\ mem[n].left \in M /\ mem[n].right \in M
  BY Lines
<1>3. v \in V
  OBVIOUS
<1>4. ASSUME NEW r \in V, NEW n \in M PROVE Up(r, n) \in Seq(Nodes)
  <2>1. CASE n = NULL
    BY <2>1
  <2>2. CASE n # NULL
    <3>1. PICK a \in Seq(Nodes), b \in Seq(Nodes) : a = r[mem[n].left] /\ b = r[mem[n].right]
      BY <1>2, <2>2
    <3>2. n \in Nodes
      BY <1>2, <2>2
    <3>3. a \o <<n>> \o b \in Seq(Nodes)
      BY <3>2
    <3>4. QED
      BY <2>2, <3>1, <3>3
  <2>3. QED
    BY <2>1, <2>2
<1>5. \A r \in V : Row(r) \in V
  <2> HIDE DEF Up
  <2>1. QED
    BY <1>4
<1>6. F \in [V -> V]
  BY <1>5
<1>7. \A r \in V : F[r] = Row(r)
  OBVIOUS
<1> HIDE DEF F
<1>8. PICK f : Iterated(V, F, v, f)
  BY <1>3, <1>6, Iterates
<1>9. f \in [Nat -> V] /\ f[0] = v /\ \A k \in Nat : f[k + 1] = Row(f[k])
  <2> HIDE DEF V, Row, v
  <2>1. QED
    BY <1>7, <1>8 DEF Iterated
<1>10. P(f)
  <2>1. ASSUME NEW k \in Nat
        PROVE  f[k] = [n \in M |-> IF k = 0 \/ n = NULL THEN <<>>
                                   ELSE f[k - 1][mem[n].left] \o <<n>> \o f[k - 1][mem[n].right]]
    <3>1. CASE k = 0
      BY <1>9, <3>1
    <3>2. CASE k # 0
      <4>1. PICK j \in Nat : j = k - 1
        BY <3>2
      <4>2. k = j + 1
        BY <4>1
      <4>3. f[k] = Row(f[j])
        BY <1>9, <4>2
      <4>4. QED
        BY <3>2, <4>1, <4>3
    <3>3. QED
      BY <3>1, <3>2
  <2>2. f = [k \in Nat |-> f[k]]
    BY <1>9
  <2>3. QED
    BY <2>1, <2>2
<1>11. PICK g : g = CHOOSE x : P(x)
  OBVIOUS
<1>12. avl_traverse = g[Len(mem)][root]
  BY <1>11 DEF avl_traverse
<1>13. P(g)
  <2> HIDE DEF P
  <2>1. QED
    BY <1>10, <1>11
<1>14. \A k \in Nat : \A n \in M : g[k][n] = IF k = 0 \/ n = NULL THEN <<>>
                                  ELSE g[k - 1][mem[n].left] \o <<n>> \o g[k - 1][mem[n].right]
  <2> DEFINE Cell(k, n) == IF k = 0 \/ n = NULL THEN <<>>
                           ELSE g[k - 1][mem[n].left] \o <<n>> \o g[k - 1][mem[n].right]
  <2>1. g = [k \in Nat |-> [n \in M |-> Cell(k, n)]]
    BY <1>13
  <2> HIDE DEF Cell
  <2>2. \A k \in Nat : g[k] = [n \in M |-> Cell(k, n)]
    BY <2>1
  <2>3. \A k \in Nat : \A n \in M : g[k][n] = Cell(k, n)
    BY <2>2
  <2>4. QED
    BY <2>3 DEF Cell
<1>15. Lists(g)
  <2>1. ASSUME NEW k \in Nat, NEW n \in M
        PROVE  g[k + 1][n] = IF n = NULL THEN <<>> ELSE g[k][mem[n].left] \o <<n>> \o g[k][mem[n].right]
    <3>1. PICK j \in Nat : j = k + 1
      OBVIOUS
    <3>2. j # 0 /\ j - 1 = k
      BY <3>1
    <3>3. QED
      BY <1>14, <3>1, <3>2
  <2>2. QED
    BY <1>14, <2>1 DEF Lists
<1>16. QED
  BY <1>12, <1>15

Parts(X, x, n, y, q) ==
  /\ q \in Seq(X)
  /\ \A j \in DOMAIN q : \/ j \in DOMAIN x /\ q[j] = x[j]
                         \/ j = Len(x) + 1 /\ q[j] = n
                         \/ \E l \in DOMAIN y : j = Len(x) + 1 + l /\ q[j] = y[l]

LEMMA ThreeParts ==
  ASSUME NEW X, NEW x \in Seq(X), NEW n \in X, NEW y \in Seq(X), NEW q, q = x \o <<n>> \o y
  PROVE  Parts(X, x, n, y, q)
<1>1. PICK p : p = x \o <<n>>
  OBVIOUS
<1>2. p \in Seq(X) /\ Len(p) = Len(x) + 1 /\ Len(x) \in Nat
      /\ \A j \in 1 .. Len(p) : p[j] = IF j <= Len(x) THEN x[j] ELSE n
  BY <1>1
<1>3. q = p \o y /\ Len(y) \in Nat
  BY <1>1
<1>4. q \in Seq(X) /\ Len(q) = Len(p) + Len(y)
      /\ \A j \in 1 .. Len(q) : q[j] = IF j <= Len(p) THEN p[j] ELSE y[j - Len(p)]
  BY <1>2, <1>3
<1>5. DOMAIN q = 1 .. Len(q) /\ DOMAIN x = 1 .. Len(x) /\ DOMAIN y = 1 .. Len(y)
  BY <1>4
<1>6. ASSUME NEW j \in 1 .. Len(q)
      PROVE  \/ j \in DOMAIN x /\ q[j] = x[j]
             \/ j = Len(x) + 1 /\ q[j] = n
             \/ \E l \in DOMAIN y : j = Len(x) + 1 + l /\ q[j] = y[l]
  <2>1. CASE j <= Len(x)
    BY <1>2, <1>4, <1>5, <2>1
  <2>2. CASE j = Len(x) + 1
    BY <1>2, <1>4, <2>2
  <2>3. CASE j > Len(x) + 1
    <3>1. j - Len(p) \in 1 .. Len(y) /\ j = Len(x) + 1 + (j - Len(p)) /\ q[j] = y[j - Len(p)]
      BY <1>2, <1>3, <1>4, <2>3
    <3>2. QED
      BY <1>5, <3>1
  <2>4. QED
    BY <1>2, <2>1, <2>2, <2>3
<1>7. QED
  BY <1>4, <1>5, <1>6 DEF Parts

(* What avl_traverse lists from node n, and that exists gets to all of it.   *)
Reached(k, n, m) ==
  \A f : \A t \in Nat : Walk(words[m], f) /\ f[t] = n => \E u \in Nat : u < k /\ f[t + u] = m

Listed(S, W, k, n, q) ==
  /\ q \in Seq(Nodes)
  /\ \A j \in DOMAIN q : q[j] \in S /\ words[q[j]] \in W[n] /\ Reached(k, n, q[j])
  /\ \A j, l \in DOMAIN q : j < l => words[q[j]] < words[q[l]]

LEMMA ReachedDown ==
  ASSUME RegionOK, NEW n \in Nodes, NEW s \in Sides, NEW m \in Nodes, NEW k \in Nat,
         words[m] # words[n], Side(words[m], n) = s, Reached(k, kids[<<n, s>>], m)
  PROVE  Reached(k + 1, n, m)
<1>1. ASSUME NEW f, NEW t \in Nat, Walk(words[m], f), f[t] = n
      PROVE  \E u \in Nat : u < k + 1 /\ f[t + u] = m
  <2>1. n # NULL
    BY Views DEF NULL
  <2>2. f[t + 1] = kids[<<n, s>>]
    BY <1>1, <2>1 DEF Walk
  <2>3. PICK r \in Nat : r = t + 1
    OBVIOUS
  <2>4. PICK u \in Nat : u < k /\ f[r + u] = m
    BY <1>1, <2>2, <2>3 DEF Reached
  <2>5. u + 1 \in Nat /\ u + 1 < k + 1 /\ t + (u + 1) = r + u
    BY <2>3, <2>4
  <2>6. QED
    BY <2>4, <2>5
<1>2. QED
  BY <1>1 DEF Reached

(* The nodes below n on side s, listed for one more level.                   *)
LEMMA ListedBelow ==
  ASSUME RegionOK, NEW S, NEW W, Idle(S, W), NEW n \in S, NEW s \in Sides, NEW k \in Nat,
         NEW c, c = kids[<<n, s>>], c # NULL, NEW x, Listed(S, W, k, c, x)
  PROVE  \A j \in DOMAIN x : /\ x[j] \in S /\ words[x[j]] \in W[n] /\ Reached(k + 1, n, x[j])
                             /\ On(words[x[j]], words[n], s)
<1>1. /\ S \in SUBSET Nodes /\ Region(Nodes, kids, words, W) /\ Tree(kids, words, S, W, NoRef)
      /\ words \in [Nodes -> Words] /\ Words \subseteq Nat
  BY Views, AVLAssumption DEF Idle, Placed
<1>2. PICK a : a = <<n, s>>
  OBVIOUS
<1>3. a \in S \X Sides /\ kids[a] = c /\ n \in Nodes
  BY <1>1, <1>2, Refs
<1>4. W[c] \subseteq Part(words, W, a)
  BY <1>1, <1>3 DEF Tree
<1>5. Part(words, W, a) \subseteq W[n] /\ \A w \in Part(words, W, a) : On(w, words[n], s)
  BY <1>1, <1>2, <1>3, PartIs
<1>6. ASSUME NEW j \in DOMAIN x
      PROVE  /\ x[j] \in S /\ words[x[j]] \in W[n] /\ Reached(k + 1, n, x[j])
             /\ On(words[x[j]], words[n], s)
  <2>1. PICK m : m = x[j]
    OBVIOUS
  <2>2. m \in S /\ m \in Nodes /\ words[m] \in W[c] /\ Reached(k, kids[<<n, s>>], m)
    BY <1>1, <2>1 DEF Listed
  <2>3. words[m] \in W[n] /\ On(words[m], words[n], s)
    BY <1>4, <1>5, <2>2
  <2>4. words[m] \in Nat /\ words[n] \in Nat /\ words[n] = mem[n].item
    BY <1>1, <1>3, <2>2, Views
  <2>5. words[m] # words[n] /\ Side(words[m], n) = s
    BY <2>3, <2>4 DEF On, Side, Sides
  <2>6. Reached(k + 1, n, m)
    BY <1>3, <2>2, <2>5, ReachedDown
  <2>7. QED
    BY <2>1, <2>2, <2>3, <2>6
<1>7. QED
  BY <1>6

MayList(S, W, n, k, a, x, b, y, q) ==
  /\ n \in S /\ k \in Nat /\ a = kids[<<n, "left">>] /\ b = kids[<<n, "right">>]
  /\ a = NULL => x = <<>>
  /\ a # NULL => Listed(S, W, k, a, x)
  /\ b = NULL => y = <<>>
  /\ b # NULL => Listed(S, W, k, b, y)
  /\ q = x \o <<n>> \o y

LEMMA ListedStep ==
  ASSUME RegionOK, NEW S, NEW W, Idle(S, W), NEW n, NEW k, NEW a, NEW x, NEW b, NEW y, NEW q,
         MayList(S, W, n, k, a, x, b, y, q)
  PROVE  Listed(S, W, k + 1, n, q)
<1> USE DEF MayList
<1>1. /\ S \in SUBSET Nodes /\ Tree(kids, words, S, W, NoRef) /\ n \in Nodes
      /\ words \in [Nodes -> Words] /\ Words \subseteq Nat /\ "left" \in Sides /\ "right" \in Sides
  BY Views, AVLAssumption DEF Idle, Placed, Sides
<1>2. x \in Seq(Nodes) /\ y \in Seq(Nodes)
  <2>1. <<>> \in Seq(Nodes)
    OBVIOUS
  <2>2. (a # NULL => x \in Seq(Nodes)) /\ (b # NULL => y \in Seq(Nodes))
    BY DEF Listed
  <2>3. QED
    BY <2>1, <2>2
<1>3. \A j \in DOMAIN x : /\ x[j] \in S /\ words[x[j]] \in W[n] /\ Reached(k + 1, n, x[j])
                          /\ On(words[x[j]], words[n], "left")
  <2>1. CASE a = NULL
    BY <2>1
  <2>2. CASE a # NULL
    BY <1>1, <2>2, ListedBelow
  <2>3. QED
    BY <2>1, <2>2
<1>4. \A j \in DOMAIN y : /\ y[j] \in S /\ words[y[j]] \in W[n] /\ Reached(k + 1, n, y[j])
                          /\ On(words[y[j]], words[n], "right")
  <2>1. CASE b = NULL
    BY <2>1
  <2>2. CASE b # NULL
    BY <1>1, <2>2, ListedBelow
  <2>3. QED
    BY <2>1, <2>2
<1>5. /\ q \in Seq(Nodes)
      /\ \A j \in DOMAIN q : \/ j \in DOMAIN x /\ q[j] = x[j]
                             \/ j = Len(x) + 1 /\ q[j] = n
                             \/ \E l \in DOMAIN y : j = Len(x) + 1 + l /\ q[j] = y[l]
  <2>1. Parts(Nodes, x, n, y, q)
    BY <1>1, <1>2, ThreeParts
  <2>2. QED
    BY <2>1 DEF Parts
<1>6. n \in S /\ words[n] \in W[n] /\ Reached(k + 1, n, n)
  <2>1. ASSUME NEW f, NEW t \in Nat, f[t] = n PROVE \E u \in Nat : u < k + 1 /\ f[t + u] = n
    <3>1. 0 \in Nat /\ 0 < k + 1 /\ t + 0 = t
      OBVIOUS
    <3>2. QED
      BY <2>1, <3>1
  <2>2. Reached(k + 1, n, n)
    BY <2>1 DEF Reached
  <2>3. QED
    BY <1>1, <2>2 DEF Tree
<1>7. \A j \in DOMAIN q : q[j] \in S /\ words[q[j]] \in W[n] /\ Reached(k + 1, n, q[j])
  BY <1>3, <1>4, <1>5, <1>6
<1>8. /\ DOMAIN x = 1 .. Len(x) /\ Len(x) \in Nat
      /\ DOMAIN y = 1 .. Len(y) /\ Len(y) \in Nat
      /\ DOMAIN q = 1 .. Len(q) /\ Len(q) \in Nat
  BY <1>2, <1>5
<1>9. /\ \A j, l \in DOMAIN x : j < l => words[x[j]] < words[x[l]]
      /\ \A j, l \in DOMAIN y : j < l => words[y[j]] < words[y[l]]
  BY DEF Listed
<1>10. /\ words[n] \in Nat
       /\ \A j \in DOMAIN x : words[x[j]] \in Nat /\ words[x[j]] < words[n]
       /\ \A j \in DOMAIN y : words[y[j]] \in Nat /\ words[n] < words[y[j]]
  BY <1>1, <1>3, <1>4 DEF On
<1>11. ASSUME NEW j \in DOMAIN q, NEW l \in DOMAIN q, j < l PROVE words[q[j]] < words[q[l]]
  <2>1. j \in Nat /\ l \in Nat
    BY <1>8
  <2>2. CASE j \in DOMAIN x /\ q[j] = x[j]
    <3>1. CASE l \in DOMAIN x /\ q[l] = x[l]
      BY <1>9, <1>11, <2>2, <3>1
    <3>2. CASE l = Len(x) + 1 /\ q[l] = n
      BY <1>10, <2>2, <3>2
    <3>3. ASSUME NEW h \in DOMAIN y, l = Len(x) + 1 + h, q[l] = y[h] PROVE words[q[j]] < words[q[l]]
      <4>1. words[x[j]] \in Nat /\ words[x[j]] < words[n] /\ words[y[h]] \in Nat /\ words[n] < words[y[h]]
        BY <1>10, <2>2
      <4>2. words[x[j]] < words[y[h]]
        BY <1>10, <4>1
      <4>3. QED
        BY <2>2, <3>3, <4>2
    <3>4. QED
      BY <1>5, <3>1, <3>2, <3>3
  <2>3. CASE j = Len(x) + 1 /\ q[j] = n
    <3>1. CASE l \in DOMAIN x
      BY <1>8, <1>11, <2>3, <3>1
    <3>2. CASE l = Len(x) + 1
      BY <1>8, <1>11, <2>3, <3>2
    <3>3. ASSUME NEW h \in DOMAIN y, l = Len(x) + 1 + h, q[l] = y[h] PROVE words[q[j]] < words[q[l]]
      BY <1>10, <2>3, <3>3
    <3>4. QED
      BY <1>5, <3>1, <3>2, <3>3
  <2>4. ASSUME NEW i \in DOMAIN y, j = Len(x) + 1 + i, q[j] = y[i] PROVE words[q[j]] < words[q[l]]
    <3>1. i \in Nat
      BY <1>8
    <3>2. CASE l \in DOMAIN x
      BY <1>8, <1>11, <2>4, <3>1, <3>2
    <3>3. CASE l = Len(x) + 1
      BY <1>8, <1>11, <2>4, <3>1, <3>3
    <3>4. ASSUME NEW h \in DOMAIN y, l = Len(x) + 1 + h, q[l] = y[h] PROVE words[q[j]] < words[q[l]]
      <4>1. i < h
        BY <1>8, <1>11, <2>4, <3>1, <3>4
      <4>2. QED
        BY <1>9, <2>4, <3>4, <4>1
    <3>5. QED
      BY <1>5, <3>2, <3>3, <3>4
  <2>5. QED
    BY <1>5, <2>2, <2>3, <2>4
<1>12. QED
  BY <1>5, <1>7, <1>11 DEF Listed

(* All of a search tree is listed.                                           *)
LEMMA TreeListed ==
  ASSUME RegionOK, NEW S, NEW W, Idle(S, W), NEW g, Lists(g)
  PROVE  \A k \in Nat : \A n \in S : Listed(S, W, k, n, g[k][n])
<1>1. /\ S \in SUBSET Nodes /\ Tree(kids, words, S, W, NoRef) /\ Nodes \cup {NULL} = 0 .. Len(mem)
      /\ \A n \in Nodes : n # NULL
  BY Views DEF Idle, Placed, NULL
<1> DEFINE T == {k \in Nat : \A n \in S : Listed(S, W, k, n, g[k][n])}
<1>2. 0 \in T
  <2>1. ASSUME NEW n \in S PROVE Listed(S, W, 0, n, g[0][n])
    <3>1. g[0][n] = <<>>
      BY <1>1 DEF Lists
    <3>2. QED
      BY <3>1 DEF Listed
  <2>2. QED
    BY <2>1
<1>3. ASSUME NEW k \in Nat, k \in T PROVE k + 1 \in T
  <2>1. ASSUME NEW n \in S PROVE Listed(S, W, k + 1, n, g[k + 1][n])
    <3>1. n \in 0 .. Len(mem) /\ n # NULL
      BY <1>1
    <3>2. PICK a, b : a = mem[n].left /\ b = mem[n].right
      OBVIOUS
    <3>3. /\ a = kids[<<n, "left">>] /\ b = kids[<<n, "right">>]
          /\ a \in 0 .. Len(mem) /\ b \in 0 .. Len(mem)
      BY <3>1, <3>2, Lines
    <3>4. PICK x, y, q : x = g[k][a] /\ y = g[k][b] /\ q = g[k + 1][n]
      OBVIOUS
    <3>5. q = x \o <<n>> \o y
      BY <3>1, <3>2, <3>4 DEF Lists
    <3>6. g[k][NULL] = <<>>
      <4>1. NULL \in 0 .. Len(mem)
        BY <1>1
      <4>2. CASE k = 0
        BY <4>1, <4>2 DEF Lists
      <4>3. CASE k # 0
        <5>1. PICK j \in Nat : j = k - 1
          BY <4>3
        <5>2. k = j + 1
          BY <5>1
        <5>3. QED
          BY <4>1, <5>2 DEF Lists
      <4>4. QED
        BY <4>2, <4>3
    <3>7. (a # NULL => a \in S) /\ (b # NULL => b \in S)
      <4>1. "left" \in Sides /\ "right" \in Sides
        BY DEF Sides
      <4>2. <<n, "left">> \in From(S) /\ <<n, "right">> \in From(S)
        BY <4>1, Refs
      <4>3. QED
        BY <1>1, <3>3, <4>2 DEF Tree
    <3>8. /\ a = NULL => x = <<>>
          /\ b = NULL => y = <<>>
      BY <3>4, <3>6
    <3>9. /\ a # NULL => Listed(S, W, k, a, x)
          /\ b # NULL => Listed(S, W, k, b, y)
      BY <1>3, <3>4, <3>7
    <3>10. Listed(S, W, k + 1, n, q)
      <4>1. MayList(S, W, n, k, a, x, b, y, q)
        BY <3>3, <3>5, <3>8, <3>9 DEF MayList
      <4>2. QED
        BY <4>1, ListedStep
    <3>11. QED
      BY <3>4, <3>10
  <2>2. QED
    BY <2>1
<1>4. \A k \in Nat : k \in T
  <2> HIDE DEF T
  <2>1. QED
    BY <1>2, <1>3, Inductive
<1>5. QED
  BY <1>4

(* A walk stays where it found its word.                                     *)
LEMMA WalkStays ==
  ASSUME NEW i, NEW f, Walk(i, f), NEW t \in Nat, NEW m, f[t] = m, m # NULL, words[m] = i
  PROVE  \A u \in Nat : f[t + u] = m
<1> DEFINE T == {u \in Nat : f[t + u] = m}
<1>1. 0 \in T
  OBVIOUS
<1>2. ASSUME NEW u \in Nat, u \in T PROVE u + 1 \in T
  <2>1. PICK r \in Nat : r = t + u
    OBVIOUS
  <2>2. f[r] = m /\ t + (u + 1) = r + 1
    BY <1>2, <2>1
  <2>3. f[r + 1] = m
    BY <2>2 DEF Walk
  <2>4. QED
    BY <2>2, <2>3
<1>3. \A u \in Nat : u \in T
  <2> HIDE DEF T
  <2>1. QED
    BY <1>1, <1>2, Inductive
<1>4. QED
  BY <1>3

LEMMA ListedSorted ==
  ASSUME RegionOK, NEW S, NEW W, Idle(S, W)
  PROVE  ListingSorted
<1>1. /\ S \in SUBSET Nodes /\ Tree(kids, words, S, W, NoRef) /\ Len(mem) \in Nat
      /\ kids[RootRef] = root /\ root \in 0 .. Len(mem) /\ \A n \in Nodes : n # NULL /\ words[n] = mem[n].item
  BY Views DEF Idle, Placed, NULL, RegionOK
<1>2. PICK g : Lists(g) /\ avl_traverse = g[Len(mem)][root]
  BY Traverses
<1>3. PICK q, L : q = avl_traverse /\ L = Len(mem)
  OBVIOUS
<1>4. q = g[L][root] /\ L \in Nat
  BY <1>1, <1>2, <1>3
<1>5. CASE root = NULL
  <2>1. NULL \in 0 .. Len(mem)
    BY <1>1, <1>5
  <2>2. L = 0 => q = <<>>
    BY <1>2, <1>4, <1>5, <2>1 DEF Lists
  <2>3. CASE L # 0
    <3>1. PICK j \in Nat : j = L - 1
      BY <1>4, <2>3
    <3>2. L = j + 1
      BY <1>4, <3>1
    <3>3. QED
      <4>1. q = <<>>
        BY <1>2, <1>4, <1>5, <2>1, <3>2 DEF Lists
      <4>2. QED
        BY <1>3, <4>1 DEF ListingSorted
  <2>4. QED
    BY <1>3, <2>2, <2>3 DEF ListingSorted
<1>6. CASE root # NULL
  <2>1. root \in S
    BY <1>1, <1>6, FromIs DEF Tree
  <2>2. Listed(S, W, L, root, q)
    BY <1>2, <1>4, <2>1, TreeListed
  <2>3. q \in Seq(Nodes) /\ Len(q) \in Nat /\ DOMAIN q = 1 .. Len(q)
    BY <2>2 DEF Listed
  <2>4. ASSUME NEW j \in 2 .. Len(q) PROVE mem[q[j - 1]].item < mem[q[j]].item
    <3>1. PICK h : h = j - 1
      OBVIOUS
    <3>2. h \in DOMAIN q /\ j \in DOMAIN q /\ h < j
      BY <2>3, <3>1
    <3>3. words[q[h]] < words[q[j]] /\ q[h] \in Nodes /\ q[j] \in Nodes
      BY <1>1, <2>2, <3>2 DEF Listed
    <3>4. QED
      BY <1>1, <3>1, <3>3
  <2>5. ASSUME NEW j \in 1 .. Len(q) PROVE Find(mem[q[j]].item) = q[j]
    <3>1. PICK m : m = q[j]
      OBVIOUS
    <3>2. m \in Nodes /\ Reached(L, root, m)
      BY <1>1, <2>2, <2>3, <3>1 DEF Listed
    <3>3. PICK f : Walk(words[m], f) /\ Find(words[m]) = f[Len(mem)]
      BY FindWalks
    <3>4. f[0] = root
      BY <3>3 DEF Walk
    <3>5. PICK u \in Nat : u < L /\ f[0 + u] = m
      BY <3>2, <3>3, <3>4 DEF Reached
    <3>6. f[u] = m
      BY <3>5
    <3>7. \A t \in Nat : f[u + t] = m
      BY <1>1, <3>2, <3>3, <3>6, WalkStays
    <3>8. L - u \in Nat /\ u + (L - u) = L
      BY <1>4, <3>5
    <3>9. f[L] = m
      BY <3>7, <3>8
    <3>10. QED
      BY <1>1, <1>3, <3>1, <3>2, <3>3, <3>9
  <2>6. QED
    BY <1>3, <2>4, <2>5 DEF ListingSorted
<1>7. QED
  BY <1>5, <1>6

-----------------------------------------------------------------------------
(***************************************************************************)
(* The results.                                                            *)
(***************************************************************************)

(* Whatever steps update() is interrupted between, the region is a search    *)
(* tree, the frames lead down it, and without a crash the heights are those  *)
(* the phase of the rotation gives (avl.c:46-134).                           *)
THEOREM Invariant == Spec => []IInv
<1>1. Init => IInv
  BY InvInit
<1>2. IInv /\ [Next]_vars => IInv'
  BY StepNext
<1>3. QED
  BY <1>1, <1>2, PTL DEF Spec

LEMMA InvTypes == IInv => TypeOK
<1> SUFFICES ASSUME IInv PROVE TypeOK
  OBVIOUS
<1>1. Types /\ RegionOK
  BY DEF IInv, Types
<1>2. Nodes = 1 .. Len(mem) /\ Nodes \cup {NULL} = 0 .. Len(mem)
  BY <1>1, Views
<1>3. path \in Seq([node : 1 .. Len(mem), side : Sides]) /\ cur \in 0 .. Len(mem)
  BY <1>1, <1>2 DEF Types
<1>4. QED
  BY <1>1, <1>3 DEF TypeOK, Types, RegionOK, Rec

(* Every pointer stored in the region leads to a node of it, and every count *)
(* and height is a number, through crashes too (avl.c:12-26).                *)
THEOREM RegionTyped == Spec => []TypeOK
  BY Invariant, InvTypes, PTL

(* update() reads through a NULL child only in a tree that a dead process    *)
(* left: with no crash the child it lifts is there (avl.c:112-128).          *)
THEOREM NoFaultWithoutCrash == Spec => []FaultNeedsCrash
<1>1. IInv => FaultNeedsCrash
  BY DEF IInv, Shape, FaultNeedsCrash
<1>2. QED
  BY <1>1, Invariant, PTL

LEMMA InvBalanced == IInv => Balanced
<1> SUFFICES ASSUME IInv, Quiet, ~crashed,
                    NEW n \in 1 .. Len(mem)
             PROVE  /\ mem[n].depth = Height[n]
                    /\ Height[mem[n].left] - Height[mem[n].right] \in -1 .. 1
  BY DEF Balanced
<1>1. RegionOK
  BY DEF IInv, Types
<1>2. PICK W : Idle(Nodes, W) /\ Rest(Nodes, kids, heights, {})
  BY DEF IInv, Shape, Quiet, Whole
<1>3. \A m \in 0 .. Len(mem) : Height[m] = Deep(heights, m)
  BY <1>1, <1>2, HeightIs
<1>4. n \in Nodes /\ n \in 0 .. Len(mem) /\ n # NULL /\ heights[n] = mem[n].depth
  BY <1>1, Views DEF NULL
<1>5. PICK a, b : a = mem[n].left /\ b = mem[n].right
  OBVIOUS
<1>6. a \in 0 .. Len(mem) /\ b \in 0 .. Len(mem) /\ a = kids[<<n, "left">>] /\ b = kids[<<n, "right">>]
  BY <1>1, <1>4, <1>5, Lines
<1>7. Level(kids, heights, n)
  BY <1>2, <1>4 DEF Rest, Settled
<1>8. Deep(heights, a) - Deep(heights, b) \in -1 .. 1
  BY <1>6, <1>7 DEF Level
<1>9. mem[n].depth = Height[n]
  BY <1>3, <1>4 DEF Deep
<1>10. QED
  BY <1>3, <1>5, <1>6, <1>8, <1>9

(* The heights that update() keeps are the heights of the subtrees and no    *)
(* node leans by more than one, whenever no call is running and no process   *)
(* died: after failed allocations too (avl.c:46-134).                        *)
THEOREM BalancedAlways == Spec => []Balanced
  BY Invariant, InvBalanced, PTL

(* A crash between any two stores of update() makes up no count and repeats  *)
(* none: what exists answers is at most what was inserted (avl.c:60-100).    *)
THEOREM NothingInventedAlways == Spec => []NothingInvented
<1>1. IInv => NothingInvented
  BY ExistsCounted DEF NothingInvented
<1>2. QED
  BY <1>1, Invariant, PTL

LEMMA InvSorted == IInv => ListingSorted
<1> SUFFICES ASSUME IInv PROVE ListingSorted
  OBVIOUS
<1>1. PICK S, W : Shape(S, W)
  BY DEF IInv
<1>2. PICK T : Idle(T, W)
  BY <1>1, Survives DEF IInv
<1>3. RegionOK
  BY DEF IInv, Types
<1>4. QED
  BY <1>2, <1>3, ListedSorted

(* avl_traverse lists the words in order, each once, and avl_exists finds    *)
(* each of them, in the middle of a rotation and in whatever tree a dead     *)
(* process left (avl.c:136-144, 205-222).                                    *)
THEOREM ListingSortedAlways == Spec => []ListingSorted
  BY Invariant, InvSorted, PTL
=============================================================================
