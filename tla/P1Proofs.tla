------------------------------ MODULE P1Proofs ------------------------------
(***************************************************************************)
(* Proofs about the program of p1. First part: Parser, for expressions of  *)
(* any length and nesting, with a malloc that may fail at every call. The  *)
(* links, the places in the tokens and the lexer's array stay in bounds,   *)
(* and a parse that succeeds frees each node it allocated once. Second     *)
(* part: Jitc, behind the parse.                                           *)
(***************************************************************************)
EXTENDS Parser, Jitc, TLAPS, SequenceTheorems, FiniteSetTheorems, WellFoundedInduction

(***************************************************************************)
(* Nodes are allocated in the order of the operators and operands in the   *)
(* text, so the nodes of a subtree have consecutive numbers: those from    *)
(* lo[n] to hi[n] are at and below n, which has its left operand before    *)
(* and its right operand behind itself. D are the nodes.                   *)
(***************************************************************************)
Ops == {"VAL", "NEG", "ADD", "SUB", "MUL", "DIV"}
Node == [op : Ops, id : Nat, val : Nat, left : Nat, right : Nat]

Spans(D, lo, hi, n) ==
  /\ lo[n] \in 1 .. n /\ hi[n] \in n .. Len(D)
  /\ D[n].left \in 0 .. Len(D) /\ D[n].right \in 0 .. Len(D)
  /\ D[n].left = NULL => lo[n] = n
  /\ D[n].left # NULL => lo[D[n].left] = lo[n] /\ hi[D[n].left] = n - 1
  /\ D[n].right = NULL => hi[n] = n
  /\ D[n].right # NULL => lo[D[n].right] = n + 1 /\ hi[D[n].right] = hi[n]
  /\ \A m \in lo[n] .. n - 1 : lo[m] >= lo[n] /\ hi[m] <= n - 1
  /\ \A m \in n + 1 .. hi[n] : lo[m] >= n + 1 /\ hi[m] <= hi[n]

Blocks(D, lo, hi) == \A n \in 1 .. Len(D) : Spans(D, lo, hi, n)

(* No subtree has nodes on both sides of b.                                  *)
Cut(D, lo, hi, b) ==
  /\ b \in 1 .. Len(D) + 1
  /\ \A m \in 1 .. Len(D) : (m < b => hi[m] < b) /\ (m >= b => lo[m] >= b)

(* The tree of d is all that was allocated from b on.                        *)
Block(D, lo, hi, d, b) == d \in 1 .. Len(D) /\ lo[d] = b /\ hi[d] = Len(D)

(* A node is added, above the nodes from e on.                               *)
MayAdd(D, lo, hi, n, e, E, lo2, hi2) ==
  /\ D \in Seq(Node) /\ Blocks(D, lo, hi) /\ n \in Node /\ n.right = NULL /\ Cut(D, lo, hi, e)
  /\ \/ n.left = NULL /\ e = Len(D) + 1
     \/ Block(D, lo, hi, n.left, e)
  /\ E = Append(D, n)
  /\ lo2 = [m \in 1 .. Len(D) + 1 |-> IF m = Len(D) + 1 THEN e ELSE lo[m]]
  /\ hi2 = [m \in 1 .. Len(D) + 1 |-> IF m = Len(D) + 1 THEN m ELSE hi[m]]

LEMMA AddIs ==
  ASSUME NEW D, NEW lo, NEW hi, NEW n, NEW e, NEW E, NEW lo2, NEW hi2,
         MayAdd(D, lo, hi, n, e, E, lo2, hi2)
  PROVE  /\ Len(D) \in Nat /\ E \in Seq(Node) /\ Len(E) = Len(D) + 1 /\ E[Len(D) + 1] = n
         /\ \A m \in 1 .. Len(D) : E[m] = D[m] /\ lo2[m] = lo[m] /\ hi2[m] = hi[m]
         /\ lo2[Len(D) + 1] = e /\ hi2[Len(D) + 1] = Len(D) + 1 /\ e \in 1 .. Len(D) + 1
         /\ n.left \in Nat
<1>1. D \in Seq(Node) /\ n \in Node /\ E = Append(D, n) /\ Len(D) \in Nat
  BY DEF MayAdd
<1>2. E \in Seq(Node) /\ Len(E) = Len(D) + 1 /\ E[Len(D) + 1] = n /\ \A m \in 1 .. Len(D) : E[m] = D[m]
  BY <1>1
<1>3. /\ \A m \in 1 .. Len(D) : m \in 1 .. Len(D) + 1 /\ m # Len(D) + 1
      /\ Len(D) + 1 \in 1 .. Len(D) + 1
  BY <1>1
<1>4. /\ \A m \in 1 .. Len(D) : lo2[m] = lo[m] /\ hi2[m] = hi[m]
      /\ lo2[Len(D) + 1] = e /\ hi2[Len(D) + 1] = Len(D) + 1
  BY <1>3 DEF MayAdd
<1>5. e \in 1 .. Len(D) + 1
  BY DEF MayAdd, Cut
<1>6. n.left \in Nat
  BY <1>1 DEF Node
<1>7. QED
  BY <1>1, <1>2, <1>4, <1>5, <1>6

LEMMA Added ==
  ASSUME NEW D, NEW lo, NEW hi, NEW n, NEW e, NEW E, NEW lo2, NEW hi2,
         MayAdd(D, lo, hi, n, e, E, lo2, hi2)
  PROVE  /\ Blocks(E, lo2, hi2)
         /\ \A b : Cut(D, lo, hi, b) /\ b <= e => Cut(E, lo2, hi2, b)
         /\ Cut(E, lo2, hi2, Len(E) + 1) /\ Block(E, lo2, hi2, Len(E), e)
<1> DEFINE N == Len(D)
<1>1. /\ N \in Nat /\ Len(E) = N + 1 /\ E[N + 1] = n
      /\ \A m \in 1 .. N : E[m] = D[m] /\ lo2[m] = lo[m] /\ hi2[m] = hi[m]
      /\ lo2[N + 1] = e /\ hi2[N + 1] = N + 1 /\ e \in 1 .. N + 1 /\ n.left \in Nat
  BY AddIs
<1>2. /\ n.right = NULL /\ Cut(D, lo, hi, e)
      /\ \/ n.left = NULL /\ e = N + 1
         \/ n.left \in 1 .. N /\ lo[n.left] = e /\ hi[n.left] = N
  BY DEF MayAdd, Block
<1>3. \A m \in 1 .. N : Spans(D, lo, hi, m)
  BY DEF MayAdd, Blocks
<1> HIDE DEF N
<1>4. \A m \in 1 .. N : /\ lo[m] \in 1 .. m /\ hi[m] \in m .. N
                        /\ D[m].left \in 0 .. N /\ D[m].right \in 0 .. N
  BY <1>3 DEF Spans, N
<1>5. ASSUME NEW m \in 1 .. N PROVE Spans(E, lo2, hi2, m)
  <2>1. Spans(D, lo, hi, m)
    BY <1>3
  <2>2. /\ E[m] = D[m] /\ lo2[m] = lo[m] /\ hi2[m] = hi[m] /\ lo[m] \in 1 .. m /\ hi[m] \in m .. N
        /\ D[m].left \in 0 .. N /\ D[m].right \in 0 .. N /\ m \in 1 .. N + 1
    BY <1>1, <1>4
  <2>3. /\ D[m].left # NULL => lo2[D[m].left] = lo[D[m].left] /\ hi2[D[m].left] = hi[D[m].left]
        /\ D[m].right # NULL => lo2[D[m].right] = lo[D[m].right] /\ hi2[D[m].right] = hi[D[m].right]
    BY <1>1, <2>2, SMTT(30) DEF NULL
  <2>4. /\ \A l \in lo[m] .. m - 1 : lo2[l] >= lo[m] /\ hi2[l] <= m - 1
    BY <1>1, <2>1, <2>2 DEF Spans
  <2>5. /\ \A l \in m + 1 .. hi[m] : lo2[l] >= m + 1 /\ hi2[l] <= hi[m]
    BY <1>1, <2>1, <2>2, SMTT(30) DEF Spans
  <2>6. hi[m] \in m .. N + 1 /\ D[m].left \in 0 .. N + 1 /\ D[m].right \in 0 .. N + 1
    BY <1>1, <2>2
  <2>7. QED
    BY <1>1, <2>1, <2>2, <2>3, <2>4, <2>5, <2>6 DEF Spans
<1>6. Spans(E, lo2, hi2, N + 1)
  <2>1. e \in 1 .. N + 1 /\ N + 1 \in N + 1 .. N + 1 /\ n.left \in 0 .. N + 1 /\ 0 \in 0 .. N + 1
    BY <1>1, <1>2 DEF NULL
  <2>2. n.left = NULL => e = N + 1
    BY <1>2 DEF NULL
  <2>3. n.left # NULL => lo2[n.left] = e /\ hi2[n.left] = (N + 1) - 1
    BY <1>1, <1>2 DEF NULL
  <2>4. \A l \in e .. (N + 1) - 1 : lo2[l] >= e /\ hi2[l] <= (N + 1) - 1
    <3>1. ASSUME NEW l \in e .. (N + 1) - 1 PROVE lo2[l] >= e /\ hi2[l] <= (N + 1) - 1
      <4>1. l \in 1 .. N /\ l >= e
        BY <1>1
      <4>2. lo[l] >= e /\ hi[l] <= N
        BY <1>2, <1>4, <4>1 DEF Cut, N
      <4>3. QED
        BY <1>1, <4>1, <4>2
    <3>2. QED
      BY <3>1
  <2>5. \A l \in (N + 1) + 1 .. N + 1 : FALSE
    BY <1>1
  <2>6. QED
    BY <1>1, <1>2, <2>1, <2>2, <2>3, <2>4, <2>5 DEF Spans, NULL
<1>7. Blocks(E, lo2, hi2)
  <2>1. \A m \in 1 .. N + 1 : m \in 1 .. N \/ m = N + 1
    BY <1>1
  <2>2. QED
    BY <1>1, <1>5, <1>6, <2>1 DEF Blocks
<1>8. ASSUME NEW b, Cut(D, lo, hi, b), b <= e PROVE Cut(E, lo2, hi2, b)
  <2>1. b \in 1 .. N + 1 /\ \A m \in 1 .. N : (m < b => hi[m] < b) /\ (m >= b => lo[m] >= b)
    BY <1>8 DEF Cut, N
  <2>2. ASSUME NEW m \in 1 .. N + 1 PROVE (m < b => hi2[m] < b) /\ (m >= b => lo2[m] >= b)
    <3>1. CASE m \in 1 .. N
      BY <1>1, <2>1, <3>1
    <3>2. CASE m = N + 1
      BY <1>1, <1>8, <2>1, <3>2
    <3>3. QED
      BY <1>1, <3>1, <3>2
  <2>3. QED
    BY <1>1, <2>1, <2>2 DEF Cut
<1>9. Cut(E, lo2, hi2, Len(E) + 1)
  <2>1. ASSUME NEW m \in 1 .. N + 1 PROVE m < (N + 1) + 1 /\ hi2[m] < (N + 1) + 1
    <3>1. CASE m \in 1 .. N
      BY <1>1, <1>4, <3>1, SMTT(30)
    <3>2. CASE m = N + 1
      BY <1>1, <3>2
    <3>3. QED
      BY <1>1, <3>1, <3>2
  <2>2. (N + 1) + 1 \in 1 .. (N + 1) + 1 /\ \A m \in 1 .. N + 1 : ~(m >= (N + 1) + 1)
    BY <1>1
  <2>3. QED
    BY <1>1, <2>1, <2>2 DEF Cut
<1>10. QED
  BY <1>1, <1>7, <1>8, <1>9 DEF Block

(* d gets its right operand, the tree of all the nodes behind it.            *)
MayJoin(D, lo, hi, d, r, E, hi2) ==
  /\ D \in Seq(Node) /\ Blocks(D, lo, hi)
  /\ d \in 1 .. Len(D) /\ hi[d] = d /\ Cut(D, lo, hi, lo[d]) /\ Cut(D, lo, hi, d + 1)
  /\ Block(D, lo, hi, r, d + 1)
  /\ E = [D EXCEPT ![d].right = r]
  /\ hi2 = [m \in 1 .. Len(D) |-> IF m = d THEN Len(D) ELSE hi[m]]

LEMMA JoinIs ==
  ASSUME NEW D, NEW lo, NEW hi, NEW d, NEW r, NEW E, NEW hi2, MayJoin(D, lo, hi, d, r, E, hi2)
  PROVE  /\ Len(D) \in Nat /\ E \in Seq(Node) /\ Len(E) = Len(D)
         /\ E[d].left = D[d].left /\ E[d].right = r
         /\ \A m \in 1 .. Len(D) : m # d => E[m] = D[m] /\ hi2[m] = hi[m]
         /\ hi2[d] = Len(D) /\ d \in 1 .. Len(D) /\ r \in 1 .. Len(D)
<1>1. D \in Seq(Node) /\ d \in 1 .. Len(D) /\ r \in 1 .. Len(D) /\ Len(D) \in Nat
  BY DEF MayJoin, Block
<1>2. PICK q : q = [D[d] EXCEPT !.right = r]
  OBVIOUS
<1>3. D[d] \in Node /\ r \in Nat
  BY <1>1
<1>4. q \in Node /\ q.left = D[d].left /\ q.right = r
  <2>1. PICK x : x = D[d]
    OBVIOUS
  <2>2. x \in Node /\ q = [x EXCEPT !.right = r]
    BY <1>2, <1>3, <2>1
  <2>3. q \in Node /\ q.left = x.left /\ q.right = r
    BY <1>3, <2>2 DEF Node
  <2>4. QED
    BY <2>1, <2>3
<1>5. E = [D EXCEPT ![d] = q]
  BY <1>2 DEF MayJoin
<1>6. /\ E \in Seq(Node) /\ Len(E) = Len(D) /\ E[d] = q
      /\ \A m \in 1 .. Len(D) : m # d => E[m] = D[m]
  BY <1>1, <1>4, <1>5
<1>7. \A m \in 1 .. Len(D) : hi2[m] = IF m = d THEN Len(D) ELSE hi[m]
  BY DEF MayJoin
<1>8. QED
  BY <1>1, <1>4, <1>6, <1>7

LEMMA Joined ==
  ASSUME NEW D, NEW lo, NEW hi, NEW d, NEW r, NEW E, NEW hi2, MayJoin(D, lo, hi, d, r, E, hi2)
  PROVE  /\ Blocks(E, lo, hi2)
         /\ \A b : Cut(D, lo, hi, b) /\ b <= lo[d] => Cut(E, lo, hi2, b)
         /\ Block(E, lo, hi2, d, lo[d])
<1> DEFINE N == Len(D)
<1>1. /\ N \in Nat /\ Len(E) = N
      /\ E[d].left = D[d].left /\ E[d].right = r
      /\ \A m \in 1 .. N : m # d => E[m] = D[m] /\ hi2[m] = hi[m]
      /\ hi2[d] = N /\ d \in 1 .. N /\ r \in 1 .. N
  BY JoinIs
<1>2. hi[d] = d /\ Cut(D, lo, hi, lo[d]) /\ Cut(D, lo, hi, d + 1) /\ lo[r] = d + 1 /\ hi[r] = N
  BY DEF MayJoin, Block
<1>3. \A m \in 1 .. N : Spans(D, lo, hi, m)
  BY DEF MayJoin, Blocks
<1> HIDE DEF N
<1>4. \A m \in 1 .. N : /\ lo[m] \in 1 .. m /\ hi[m] \in m .. N
                        /\ D[m].left \in 0 .. N /\ D[m].right \in 0 .. N
  BY <1>3 DEF Spans, N
<1>5. /\ \A m \in 1 .. N : m < lo[d] => hi[m] < lo[d]
      /\ \A m \in 1 .. N : m >= d + 1 => lo[m] >= d + 1
      /\ \A m \in lo[d] .. d - 1 : hi[m] <= d - 1
  BY <1>1, <1>2, <1>3 DEF Cut, Spans, N
<1>6. d < N /\ r > d
  BY <1>1, <1>2, <1>4
\* No other subtree has d in it, except as its last node.
<1>7. ASSUME NEW m \in 1 .. N, m # d PROVE hi[m] < d \/ lo[m] > d
  <2>1. CASE m < lo[d]
    BY <1>1, <1>4, <1>5, <2>1
  <2>2. CASE m >= lo[d] /\ m < d
    <3>1. m \in lo[d] .. d - 1
      BY <1>1, <1>4, <2>2
    <3>2. QED
      BY <1>1, <1>4, <1>5, <3>1
  <2>3. CASE m > d
    BY <1>1, <1>4, <1>5, <2>3
  <2>4. QED
    BY <1>1, <1>4, <1>7, <2>1, <2>2, <2>3
<1>8. ASSUME NEW m \in 1 .. N, m # d PROVE Spans(E, lo, hi2, m)
  <2>1. Spans(D, lo, hi, m)
    BY <1>3
  <2>2. /\ E[m] = D[m] /\ hi2[m] = hi[m] /\ lo[m] \in 1 .. m /\ hi[m] \in m .. N
        /\ D[m].left \in 0 .. N /\ D[m].right \in 0 .. N
    BY <1>1, <1>4, <1>8
  <2>3. hi[m] < d \/ lo[m] > d
    BY <1>7, <1>8
  <2>4. D[m].left # NULL => D[m].left # d /\ hi2[D[m].left] = hi[D[m].left]
    <3>1. ASSUME D[m].left # NULL PROVE D[m].left # d
      <4>1. lo[D[m].left] = lo[m] /\ hi[D[m].left] = m - 1
        BY <2>1, <3>1 DEF Spans
      <4>2. D[m].left \in 1 .. N
        BY <1>1, <2>2, <3>1 DEF NULL
      <4>3. QED
        BY <1>1, <1>4, <2>2, <2>3, <4>1, <4>2
    <3>2. QED
      BY <1>1, <2>2, <3>1 DEF NULL
  <2>5. D[m].right # NULL => D[m].right # d /\ hi2[D[m].right] = hi[D[m].right]
    <3>1. ASSUME D[m].right # NULL PROVE D[m].right # d
      <4>1. lo[D[m].right] = m + 1 /\ hi[D[m].right] = hi[m]
        BY <2>1, <3>1 DEF Spans
      <4>2. D[m].right \in 1 .. N
        BY <1>1, <2>2, <3>1 DEF NULL
      <4>3. QED
        BY <1>1, <1>4, <2>2, <2>3, <4>1, <4>2
    <3>2. QED
      BY <1>1, <2>2, <3>1 DEF NULL
  <2>6. \A l \in lo[m] .. hi[m] : l # d /\ (l \in 1 .. N) /\ hi2[l] = hi[l]
    BY <1>1, <2>2, <2>3
  <2>7. \A l \in lo[m] .. m - 1 : lo[l] >= lo[m] /\ hi2[l] <= m - 1
    BY <2>1, <2>2, <2>6 DEF Spans
  <2>8. \A l \in m + 1 .. hi[m] : lo[l] >= m + 1 /\ hi2[l] <= hi[m]
    BY <2>1, <2>2, <2>6 DEF Spans
  <2>9. QED
    BY <1>1, <2>1, <2>2, <2>4, <2>5, <2>7, <2>8 DEF Spans
<1>9. Spans(E, lo, hi2, d)
  <2>1. Spans(D, lo, hi, d)
    BY <1>1, <1>3
  <2>2. lo[d] \in 1 .. d /\ N \in d .. N /\ D[d].left \in 0 .. N /\ r \in 0 .. N /\ r # NULL /\ r # d
    BY <1>1, <1>4, <1>6 DEF NULL
  <2>3. D[d].left # NULL => lo[D[d].left] = lo[d] /\ hi2[D[d].left] = d - 1
    <3>1. ASSUME D[d].left # NULL PROVE lo[D[d].left] = lo[d] /\ hi2[D[d].left] = d - 1
      <4>1. lo[D[d].left] = lo[d] /\ hi[D[d].left] = d - 1 /\ D[d].left \in 1 .. N
        BY <1>1, <2>1, <2>2, <3>1 DEF Spans, NULL
      <4>2. D[d].left # d
        BY <1>1, <1>2, <4>1
      <4>3. QED
        BY <1>1, <4>1, <4>2
    <3>2. QED
      BY <3>1
  <2>4. lo[r] = d + 1 /\ hi2[r] = N
    BY <1>1, <1>2, <2>2
  <2>5. \A l \in lo[d] .. d - 1 : lo[l] >= lo[d] /\ hi2[l] <= d - 1
    <3>1. \A l \in lo[d] .. d - 1 : l \in 1 .. N /\ l # d
      BY <1>1, <2>2
    <3>2. QED
      BY <1>1, <2>1, <3>1 DEF Spans
  <2>6. \A l \in d + 1 .. N : lo[l] >= d + 1 /\ hi2[l] <= N
    <3>1. ASSUME NEW l \in d + 1 .. N PROVE l \in 1 .. N /\ l # d /\ l >= d + 1
      BY <1>1
    <3>2. ASSUME NEW l \in d + 1 .. N PROVE lo[l] >= d + 1
      BY <1>5, <3>1, <3>2
    <3>3. ASSUME NEW l \in d + 1 .. N PROVE hi2[l] <= N
      <4>1. hi2[l] = hi[l] /\ hi[l] \in l .. N
        BY <1>1, <1>4, <3>1
      <4>2. QED
        BY <1>1, <4>1
    <3>4. QED
      BY <3>2, <3>3
  <2>7. QED
    BY <1>1, <2>1, <2>2, <2>3, <2>4, <2>5, <2>6 DEF Spans
<1>10. Blocks(E, lo, hi2)
  BY <1>1, <1>8, <1>9 DEF Blocks
<1>11. ASSUME NEW b, Cut(D, lo, hi, b), b <= lo[d] PROVE Cut(E, lo, hi2, b)
  <2>1. b \in 1 .. N + 1 /\ \A m \in 1 .. N : (m < b => hi[m] < b) /\ (m >= b => lo[m] >= b)
    BY <1>11 DEF Cut, N
  <2>2. ~(d < b)
    BY <1>1, <1>4, <1>11, <2>1
  <2>3. QED
    BY <1>1, <2>1, <2>2 DEF Cut
<1>12. QED
  BY <1>1, <1>10, <1>11 DEF Block

-----------------------------------------------------------------------------
(***************************************************************************)
(* What the variables are. The lexer has memory for its tokens, a whole    *)
(* number of chunks; only the first call of the descent is top().          *)
(***************************************************************************)
Waiting == {"top", "paren", "plus", "neg", "first", "right", "rest"}
Places == Waiting \union {"unary", "primary", "loop"}
LevelNames == {"", "add", "mul"}
Fr == [at : Places, level : LevelNames, left : Nat, dag : Nat]

LexerOK ==
  /\ text \in Seq(Lexeme) /\ pos \in 0 .. Len(text)
  /\ tokens \in Seq(Lexeme) /\ room \in Nat /\ room % Chunk = 0 /\ Len(tokens) <= room

NodesOK(D) ==
  /\ D \in Seq(Node)
  /\ \A n \in 1 .. Len(D) : D[n].left \in 0 .. Len(D) /\ D[n].right \in 0 .. Len(D)

FrameOK(f, D) == f \in Fr /\ f.left \in 0 .. Len(D) /\ f.dag \in 0 .. Len(D)
StackOK(x, D) == x \in Seq(Fr) /\ \A k \in 1 .. Len(x) : FrameOK(x[k], D)

Typed ==
  /\ LexerOK /\ i \in 0 .. Len(tokens)
  /\ NodesOK(nodes) /\ StackOK(stk, nodes)
  /\ ret \in 0 .. Len(nodes) /\ dag \in 0 .. Len(nodes) /\ oom \in BOOLEAN
  /\ pc \in {"open", "lex", "parse", "generate"} \union Ended

LEMMA FrontIs ==
  ASSUME NEW S, NEW x \in Seq(S), x # <<>>
  PROVE  /\ Len(x) \in Nat /\ Len(x) >= 1 /\ Front(x) \in Seq(S) /\ Len(Front(x)) = Len(x) - 1
         /\ \A k \in 1 .. Len(x) - 1 : Front(x)[k] = x[k]
         /\ Last(x) \in S /\ Last(x) = x[Len(x)]
<1>1. Len(x) \in Nat /\ Len(x) >= 1
  BY EmptySeq, LenProperties
<1>2. /\ SubSeq(x, 1, Len(x) - 1) \in Seq(S) /\ Len(SubSeq(x, 1, Len(x) - 1)) = Len(x) - 1
      /\ \A k \in 1 .. Len(x) - 1 : SubSeq(x, 1, Len(x) - 1)[k] = x[k]
  <2>1. /\ 1 \in 1 .. Len(x) + 1 /\ Len(x) - 1 \in 0 .. Len(x)
        /\ 1 \in Int /\ Len(x) - 1 \in Int
        /\ \A k \in 1 .. Len(x) - 1 : k \in 1 .. Len(x) /\ (1 + k) - 1 = k /\ x[k] \in S
    BY <1>1
  <2>2. \A k \in 1 .. Len(x) - 1 : x[k] \in S
    BY <2>1
  <2>3. PICK n \in Int : n = Len(x) - 1
    BY <2>1
  <2>4. /\ SubSeq(x, 1, n) \in Seq(S)
        /\ Len(SubSeq(x, 1, n)) = IF 1 <= n THEN n - 1 + 1 ELSE 0
        /\ \A k \in 1 .. n - 1 + 1 : SubSeq(x, 1, n)[k] = x[1 + k - 1]
    BY <2>1, <2>2, <2>3, SubSeqProperties
  <2>5. n - 1 + 1 = n /\ \A k \in 1 .. n : 1 + k - 1 = k
    BY <2>3
  <2>6. \A k \in 1 .. n : SubSeq(x, 1, n)[k] = x[k]
    BY <2>4, <2>5
  <2>7. Len(SubSeq(x, 1, n)) = n
    BY <1>1, <2>3, <2>4, <2>5
  <2>8. QED
    BY <2>3, <2>4, <2>6, <2>7
<1>3. x[Len(x)] \in S
  BY <1>1
<1>4. QED
  BY <1>1, <1>2, <1>3 DEF Front, Last

LEMMA FramesOK ==
  ASSUME NEW f, NEW D, FrameOK(f, D)
  PROVE  StackOK(<<f>>, D)
BY DEF FrameOK, StackOK

LEMMA Stacked ==
  ASSUME NEW x, NEW y, NEW D, StackOK(x, D), StackOK(y, D)
  PROVE  StackOK(x \o y, D)
<1>1. x \in Seq(Fr) /\ y \in Seq(Fr)
  BY DEF StackOK
<1>2. /\ x \o y \in Seq(Fr) /\ Len(x \o y) = Len(x) + Len(y) /\ Len(x) \in Nat /\ Len(y) \in Nat
      /\ \A k \in 1 .. Len(x) + Len(y) : (x \o y)[k] = IF k <= Len(x) THEN x[k] ELSE y[k - Len(x)]
  BY <1>1, ConcatProperties, LenProperties
<1>3. ASSUME NEW k \in 1 .. Len(x) + Len(y) PROVE FrameOK((x \o y)[k], D)
  <2>1. CASE k <= Len(x)
    BY <1>2, <2>1 DEF StackOK
  <2>2. CASE k > Len(x)
    <3>1. k - Len(x) \in 1 .. Len(y) /\ (x \o y)[k] = y[k - Len(x)]
      BY <1>2, <2>2
    <3>2. QED
      BY <3>1 DEF StackOK
  <2>3. QED
    BY <1>2, <2>1, <2>2
<1>4. QED
  BY <1>2, <1>3 DEF StackOK

LEMMA StackGrows ==
  ASSUME NEW x, NEW D, NEW E, StackOK(x, D), Len(D) \in Nat, Len(E) \in Nat, Len(D) <= Len(E)
  PROVE  StackOK(x, E)
<1>1. ASSUME NEW k \in 1 .. Len(x) PROVE FrameOK(x[k], E)
  <2>1. FrameOK(x[k], D)
    BY DEF StackOK
  <2>2. QED
    BY <2>1 DEF FrameOK
<1>2. QED
  BY <1>1 DEF StackOK

LEMMA FrontOK ==
  ASSUME NEW x, NEW D, StackOK(x, D), x # <<>>
  PROVE  StackOK(Front(x), D) /\ FrameOK(Last(x), D)
<1>1. x \in Seq(Fr)
  BY DEF StackOK
<1>2. /\ Len(x) \in Nat /\ Len(x) >= 1 /\ Front(x) \in Seq(Fr) /\ Len(Front(x)) = Len(x) - 1
      /\ \A k \in 1 .. Len(x) - 1 : Front(x)[k] = x[k]
      /\ Last(x) = x[Len(x)]
  BY <1>1, FrontIs
<1>3. \A k \in 1 .. Len(x) - 1 : k \in 1 .. Len(x) /\ FrameOK(x[k], D)
  BY <1>2 DEF StackOK
<1>4. Len(x) \in 1 .. Len(x)
  BY <1>2
<1>5. QED
  BY <1>2, <1>3, <1>4 DEF StackOK

TopFrame == Frame("top", "", NULL, NULL)
ParenFrame == Frame("paren", "", NULL, NULL)
PlusFrame == Frame("plus", "", NULL, NULL)
NegFrame(d) == Frame("neg", "", NULL, d)
UnaryFrame == Frame("unary", "", NULL, NULL)
PrimaryFrame == Frame("primary", "", NULL, NULL)
FirstFrame(level) == Frame("first", level, NULL, NULL)

LEMMA FrameIs ==
  ASSUME NEW at \in Places, NEW level \in LevelNames, NEW l \in Nat, NEW d \in Nat
  PROVE  /\ Frame(at, level, l, d) \in Fr
         /\ Frame(at, level, l, d).at = at /\ Frame(at, level, l, d).level = level
         /\ Frame(at, level, l, d).left = l /\ Frame(at, level, l, d).dag = d
BY DEF Frame, Fr

LEMMA FramesAre ==
  /\ TopFrame \in Fr /\ TopFrame.at = "top" /\ TopFrame.left = NULL /\ TopFrame.dag = NULL
  /\ ParenFrame \in Fr /\ ParenFrame.at = "paren" /\ ParenFrame.left = NULL /\ ParenFrame.dag = NULL
  /\ PlusFrame \in Fr /\ PlusFrame.at = "plus" /\ PlusFrame.left = NULL /\ PlusFrame.dag = NULL
  /\ \A d \in Nat : NegFrame(d) \in Fr /\ NegFrame(d).at = "neg" /\ NegFrame(d).left = NULL /\ NegFrame(d).dag = d
  /\ UnaryFrame \in Fr /\ UnaryFrame.at = "unary" /\ UnaryFrame.left = NULL /\ UnaryFrame.dag = NULL
  /\ PrimaryFrame \in Fr /\ PrimaryFrame.at = "primary" /\ PrimaryFrame.left = NULL /\ PrimaryFrame.dag = NULL
  /\ \A level \in LevelNames : /\ FirstFrame(level) \in Fr /\ FirstFrame(level).at = "first"
                               /\ FirstFrame(level).left = NULL /\ FirstFrame(level).dag = NULL
                               /\ FirstFrame(level).level = level
  /\ "add" \in LevelNames /\ "mul" \in LevelNames
<1>1. "" \in LevelNames /\ "add" \in LevelNames /\ "mul" \in LevelNames
  BY Zenon DEF LevelNames
<1>2. /\ "top" \in Places /\ "paren" \in Places /\ "plus" \in Places /\ "neg" \in Places
      /\ "unary" \in Places /\ "primary" \in Places /\ "first" \in Places /\ NULL \in Nat
  BY DEF Places, Waiting, NULL
<1>3. TopFrame \in Fr /\ TopFrame.at = "top" /\ TopFrame.left = NULL /\ TopFrame.dag = NULL
  BY <1>1, <1>2, Zenon DEF TopFrame, Frame, Fr
<1>4. ParenFrame \in Fr /\ ParenFrame.at = "paren" /\ ParenFrame.left = NULL /\ ParenFrame.dag = NULL
  BY <1>1, <1>2, Zenon DEF ParenFrame, Frame, Fr
<1>5. PlusFrame \in Fr /\ PlusFrame.at = "plus" /\ PlusFrame.left = NULL /\ PlusFrame.dag = NULL
  BY <1>1, <1>2, Zenon DEF PlusFrame, Frame, Fr
<1>6. UnaryFrame \in Fr /\ UnaryFrame.at = "unary" /\ UnaryFrame.left = NULL /\ UnaryFrame.dag = NULL
  BY <1>1, <1>2, Zenon DEF UnaryFrame, Frame, Fr
<1>7. PrimaryFrame \in Fr /\ PrimaryFrame.at = "primary" /\ PrimaryFrame.left = NULL /\ PrimaryFrame.dag = NULL
  BY <1>1, <1>2, Zenon DEF PrimaryFrame, Frame, Fr
<1>8. \A d \in Nat : NegFrame(d) \in Fr /\ NegFrame(d).at = "neg" /\ NegFrame(d).left = NULL /\ NegFrame(d).dag = d
  BY <1>1, <1>2, Zenon DEF NegFrame, Frame, Fr
<1>9. \A level \in LevelNames : /\ FirstFrame(level) \in Fr /\ FirstFrame(level).at = "first"
                               /\ FirstFrame(level).left = NULL /\ FirstFrame(level).dag = NULL
                               /\ FirstFrame(level).level = level
  BY <1>1, <1>2, Zenon DEF FirstFrame, Frame, Fr
<1>10. QED
  BY <1>1, <1>3, <1>4, <1>5, <1>6, <1>7, <1>8, <1>9, Zenon

(* The frames of the calls that the grammar's functions begin with.          *)
LEMMA CallsOK ==
  ASSUME NEW D, Len(D) \in Nat
  PROVE  /\ StackOK(expr_unary, D) /\ StackOK(expr_multiplicative, D) /\ StackOK(expr, D)
         /\ \A level : StackOK(Operand(level), D)
<1>1. FrameOK(UnaryFrame, D) /\ FrameOK(FirstFrame("mul"), D) /\ FrameOK(FirstFrame("add"), D)
  BY FramesAre DEF FrameOK, NULL
<1>2. StackOK(expr_unary, D)
  BY <1>1, FramesOK, Zenon DEF expr_unary, UnaryFrame
<1>3. StackOK(expr_multiplicative, D)
  BY <1>1, <1>2, FramesOK, Stacked, Zenon DEF expr_multiplicative, FirstFrame
<1>4. StackOK(expr, D)
  BY <1>1, <1>3, FramesOK, Stacked, Zenon DEF expr, FirstFrame
<1>5. QED
  BY <1>2, <1>3, <1>4 DEF Operand

LEMMA NodeAdded ==
  ASSUME NEW D, NEW n \in Node, NodesOK(D), n.left \in 0 .. Len(D), n.right = NULL
  PROVE  /\ NodesOK(Append(D, n)) /\ Len(D) \in Nat /\ Len(Append(D, n)) = Len(D) + 1
<1>1. D \in Seq(Node) /\ Len(D) \in Nat
  BY DEF NodesOK
<1>2. /\ Append(D, n) \in Seq(Node) /\ Len(Append(D, n)) = Len(D) + 1
      /\ Append(D, n)[Len(D) + 1] = n /\ \A m \in 1 .. Len(D) : Append(D, n)[m] = D[m]
  BY <1>1
<1>3. ASSUME NEW m \in 1 .. Len(D) + 1
      PROVE  Append(D, n)[m].left \in 0 .. Len(D) + 1 /\ Append(D, n)[m].right \in 0 .. Len(D) + 1
  <2>1. CASE m \in 1 .. Len(D)
    <3>1. D[m].left \in 0 .. Len(D) /\ D[m].right \in 0 .. Len(D) /\ Append(D, n)[m] = D[m]
      BY <1>2, <2>1 DEF NodesOK
    <3>2. QED
      BY <1>1, <3>1
  <2>2. CASE m = Len(D) + 1
    BY <1>1, <1>2, <2>2 DEF NULL
  <2>3. QED
    BY <1>1, <2>1, <2>2
<1>4. QED
  BY <1>1, <1>2, <1>3 DEF NodesOK

LEMMA NodeSet ==
  ASSUME NEW D, NEW d, NEW r \in 0 .. Len(D), NodesOK(D)
  PROVE  NodesOK([D EXCEPT ![d].right = r]) /\ Len([D EXCEPT ![d].right = r]) = Len(D)
<1>1. D \in Seq(Node) /\ Len(D) \in Nat
  BY DEF NodesOK
<1>2. CASE d \in 1 .. Len(D)
  <2>1. PICK x : x = D[d]
    OBVIOUS
  <2>2. PICK q : q = [x EXCEPT !.right = r]
    OBVIOUS
  <2>3. x \in Node /\ r \in Nat /\ x.left \in 0 .. Len(D)
    BY <1>1, <1>2, <2>1 DEF NodesOK
  <2>4. q \in Node /\ q.left = x.left /\ q.right = r
    BY <2>2, <2>3 DEF Node
  <2>5. PICK E : E = [D EXCEPT ![d] = q]
    OBVIOUS
  <2>6. [D EXCEPT ![d].right = r] = E
    BY <2>1, <2>2, <2>5
  <2>7. /\ E \in Seq(Node) /\ Len(E) = Len(D) /\ E[d] = q
        /\ \A m \in 1 .. Len(D) : m # d => E[m] = D[m]
    BY <1>1, <1>2, <2>4, <2>5
  <2>8. \A m \in 1 .. Len(D) : E[m].left \in 0 .. Len(D) /\ E[m].right \in 0 .. Len(D)
    BY <2>3, <2>4, <2>7 DEF NodesOK
  <2>9. QED
    BY <2>6, <2>7, <2>8 DEF NodesOK
<1>3. CASE d \notin 1 .. Len(D)
  <2>1. DOMAIN D = 1 .. Len(D)
    BY <1>1
  <2>2. [D EXCEPT ![d].right = r] = D
    BY <1>1, <1>3, <2>1
  <2>3. QED
    BY <2>2
<1>4. QED
  BY <1>2, <1>3

LEMMA Divided ==
  ASSUME NEW c \in Nat \ {0}, NEW a \in Nat, a % c = 0
  PROVE  (a + c) % c = 0
<1>1. a \div c \in Nat /\ a = (a \div c) * c + (a % c)
  BY SMT
<1>2. PICK k \in Nat : a = k * c
  <2>1. PICK m \in Nat : m = a \div c
    BY <1>1
  <2>2. a = m * c + 0
    BY <1>1, <2>1
  <2>3. m * c \in Nat
    BY <2>1
  <2>4. a = m * c
    BY <2>2, <2>3
  <2>5. QED
    BY <2>4
<1>3. k + 1 \in Nat /\ a + c = (k + 1) * c
  BY <1>2
<1>4. \A m \in Nat : (m * c) % c = 0
  BY SMT
<1>5. QED
  BY <1>3, <1>4

LEMMA TypedInit == Init => Typed
<1> SUFFICES ASSUME Init PROVE Typed
  OBVIOUS
<1>1. text \in Seq(Lexeme) /\ Len(text) \in Nat
  BY ParserAssumption DEF Init
<1>2. 0 % Chunk = 0
  BY ParserAssumption, SMT
<1>3. /\ LexerOK
  BY <1>1, <1>2 DEF Init, LexerOK
<1>4. NodesOK(nodes)
  BY DEF Init, NodesOK
<1>5. StackOK(stk, nodes)
  BY DEF Init, StackOK
<1>6. QED
  <2>1. Len(tokens) = 0 /\ Len(nodes) = 0 /\ 0 \in 0 .. 0
    BY DEF Init
  <2>2. i = 0 /\ ret = 0 /\ dag = 0 /\ oom \in BOOLEAN /\ pc = "open"
    BY DEF Init, NULL
  <2>3. QED
    BY <1>3, <1>4, <1>5, <2>1, <2>2 DEF Typed

LEMMA LexerTyped ==
  ASSUME Typed, UNCHANGED <<i, stk, ret, nodes, dag>>, Len(tokens') \in Nat, Len(tokens) <= Len(tokens'),
         LexerOK', oom' \in BOOLEAN, pc' \in {"lex", "parse"} \union Ended
  PROVE  Typed'
<1>1. i' \in 0 .. Len(tokens')
  BY DEF Typed, LexerOK
<1>2. (NodesOK(nodes))' /\ (StackOK(stk, nodes))'
  BY DEF Typed, NodesOK, StackOK, FrameOK
<1>3. QED
  BY <1>1, <1>2 DEF Typed

LEMMA LexTyped ==
  ASSUME Typed, Lex \/ mktokenFails \/ Blank
  PROVE  Typed'
<1>1. /\ text \in Seq(Lexeme) /\ pos \in 0 .. Len(text) /\ Len(text) \in Nat
      /\ tokens \in Seq(Lexeme) /\ Len(tokens) \in Nat
      /\ room \in Nat /\ room % Chunk = 0 /\ Len(tokens) <= room /\ Chunk \in Nat \ {0}
  BY ParserAssumption DEF Typed, LexerOK
<1>2. oom \in BOOLEAN
  BY DEF Typed
<1>3. CASE Lex
  <2>1. /\ pos < Len(text) /\ pos' = pos + 1 /\ text' = text
        /\ text[pos + 1] \in Lexeme /\ tokens' = Append(tokens, text[pos + 1])
        /\ room' = IF Full THEN Len(tokens) + Chunk ELSE room
        /\ oom' = oom /\ pc' \in {"lex", "null"} /\ UNCHANGED <<i, stk, ret, nodes, dag>>
    <3>1. /\ pos < Len(text) /\ pos' = pos + 1 /\ text' = text /\ tokens' = Append(tokens, text[pos + 1])
          /\ room' = IF Full THEN Len(tokens) + Chunk ELSE room
          /\ oom' = oom /\ UNCHANGED <<i, stk, ret, nodes, dag>>
      BY <1>3 DEF Lex, mktoken, Parsing
    <3>2. pc' \in {"lex", "null"}
      BY <1>3 DEF Lex
    <3>3. pos + 1 \in 1 .. Len(text)
      BY <1>1, <3>1
    <3>4. text[pos + 1] \in Lexeme
      BY <1>1, <3>3
    <3>5. QED
      BY <3>1, <3>2, <3>4
  <2>2. tokens' \in Seq(Lexeme) /\ Len(tokens') = Len(tokens) + 1
    BY <1>1, <2>1
  <2>3. room' \in Nat /\ room' % Chunk = 0 /\ Len(tokens) + 1 <= room'
    <3>1. CASE Full
      <4>1. Len(tokens) % Chunk = 0
        BY <3>1 DEF Full
      <4>2. (Len(tokens) + Chunk) % Chunk = 0
        BY <1>1, <4>1, Divided
      <4>3. QED
        BY <1>1, <2>1, <3>1, <4>2
    <3>2. CASE ~Full
      <4>1. Len(tokens) # room
        BY <1>1, <3>2 DEF Full
      <4>2. QED
        BY <1>1, <2>1, <3>2, <4>1
    <3>3. QED
      BY <3>1, <3>2
  <2>4. LexerOK'
    <3>1. pos' \in 0 .. Len(text')
      BY <1>1, <2>1
    <3>2. text' \in Seq(Lexeme)
      BY <1>1, <2>1
    <3>3. Len(tokens') <= room'
      BY <2>2, <2>3
    <3>4. QED
      BY <2>2, <2>3, <3>1, <3>2, <3>3 DEF LexerOK
  <2>5. QED
    BY <1>1, <1>2, <2>1, <2>2, <2>4, LexerTyped DEF Ended
<1>4. CASE mktokenFails
  <2>1. UNCHANGED <<text, pos, tokens, room, i, stk, ret, nodes, dag>> /\ pc' = "null" /\ oom' = TRUE
    BY <1>4 DEF mktokenFails, Parsing
  <2>2. LexerOK'
    BY <2>1 DEF Typed, LexerOK
  <2>3. QED
    BY <1>1, <2>1, <2>2, LexerTyped DEF Ended
<1>5. CASE Blank
  <2>1. UNCHANGED <<text, tokens, room, i, stk, ret, nodes, dag, oom, pc>> /\ pos' = pos + 1 /\ pos < Len(text)
    BY <1>5 DEF Blank, Parsing
  <2>2. LexerOK'
    BY <1>1, <2>1 DEF LexerOK
  <2>3. oom' \in BOOLEAN /\ pc' \in {"lex", "parse"} \union Ended /\ tokens' = tokens
    BY <1>2, <1>5, <2>1 DEF Blank, Ended
  <2>4. QED
    BY <1>1, <2>1, <2>2, <2>3, LexerTyped
<1>6. QED
  BY <1>3, <1>4, <1>5

LEMMA OpenTyped ==
  ASSUME Typed, parser_open
  PROVE  Typed'
<1>1. UNCHANGED <<text, pos, tokens, room, i, stk, ret, nodes, dag>> /\ pc' \in {"abort", "lex", "null"}
  BY DEF parser_open, Parsing
<1>2. oom' \in BOOLEAN
  BY DEF parser_open, Typed
<1>3. LexerOK'
  BY <1>1 DEF Typed, LexerOK
<1>4. Len(tokens) \in Nat
  BY DEF Typed, LexerOK
<1>5. QED
  BY <1>1, <1>2, <1>3, <1>4, LexerTyped DEF Ended

(* Most steps of the descent leave the lexer, and put the nodes and the stack *)
(* in order.                                                                *)
LEMMA DescentTyped ==
  ASSUME Typed, UNCHANGED <<text, pos, tokens, room, dag, pc>>, i' \in 0 .. Len(tokens),
         NodesOK(nodes'), Len(nodes) <= Len(nodes'), StackOK(stk', nodes'), ret' \in 0 .. Len(nodes'),
         oom' \in BOOLEAN
  PROVE  Typed'
<1>1. LexerOK'
  BY DEF Typed, LexerOK
<1>2. dag' \in 0 .. Len(nodes')
  BY DEF Typed, NodesOK
<1>3. QED
  BY <1>1, <1>2 DEF Typed, NodesOK, StackOK, FrameOK

LEMMA Replaced ==
  ASSUME Typed, stk # <<>>, NEW E, NodesOK(E), Len(nodes) <= Len(E), NEW y, StackOK(y, E)
  PROVE  StackOK(Front(stk) \o y, E)
<1>1. StackOK(Front(stk), nodes)
  BY FrontOK DEF Typed
<1>2. Len(nodes) \in Nat /\ Len(E) \in Nat
  BY DEF Typed, NodesOK
<1>3. QED
  BY <1>1, <1>2, StackGrows, Stacked

LEMMA Returned ==
  ASSUME Typed, stk # <<>>, NEW E, NodesOK(E), Len(nodes) <= Len(E)
  PROVE  StackOK(Front(stk), E)
<1>1. StackOK(Front(stk), nodes)
  BY FrontOK DEF Typed
<1>2. Len(nodes) \in Nat /\ Len(E) \in Nat
  BY DEF Typed, NodesOK
<1>3. QED
  BY <1>1, <1>2, StackGrows

LEMMA TopOK ==
  ASSUME Typed, stk # <<>>
  PROVE  FrameOK(top, nodes)
BY FrontOK DEF Typed, top

LEMMA StartTyped ==
  ASSUME Typed, Start
  PROVE  Typed'
<1>1. Len(nodes) \in Nat /\ NodesOK(nodes) /\ StackOK(stk, nodes)
  BY DEF Typed, NodesOK
<1>2. FrameOK(TopFrame, nodes)
  BY <1>1, FramesAre DEF FrameOK, NULL
<1>3. StackOK(<<TopFrame>> \o expr, nodes)
  <2>1. StackOK(<<TopFrame>>, nodes)
    BY <1>2, FramesOK
  <2>2. StackOK(expr, nodes)
    BY <1>1, CallsOK
  <2>3. QED
    BY <2>1, <2>2, Stacked
<1>4. StackOK(stk', nodes)
  BY <1>1, <1>3, Zenon DEF Start, TopFrame
<1>5. UNCHANGED <<text, pos, tokens, room, i, ret, nodes, dag, oom>> /\ pc' \in {"null", "parse"}
  BY DEF Start
<1>6. LexerOK'
  BY <1>5 DEF Typed, LexerOK
<1>7. QED
  BY <1>4, <1>5, <1>6 DEF Typed, NodesOK, StackOK, FrameOK, Ended

LEMMA ForwardTyped ==
  ASSUME Typed
  PROVE  /\ Len(tokens) \in Nat /\ i \in 0 .. Len(tokens)
         /\ forward => i' \in 0 .. Len(tokens)
         /\ next \in Lexeme \union {"end"}
         /\ Len(nodes) \in Nat /\ oom \in BOOLEAN /\ 0 \in 0 .. Len(nodes) /\ NULL \in 0 .. Len(nodes)
<1>1. Len(tokens) \in Nat /\ i \in 0 .. Len(tokens) /\ tokens \in Seq(Lexeme) /\ oom \in BOOLEAN
  BY DEF Typed, LexerOK
<1>2. forward => i' \in 0 .. Len(tokens)
  BY <1>1 DEF forward
<1>3. i < Len(tokens) => tokens[i + 1] \in Lexeme
  BY <1>1
<1>4. next \in Lexeme \union {"end"}
  BY <1>3 DEF next
<1>5. Len(nodes) \in Nat
  BY DEF Typed, NodesOK
<1>6. QED
  BY <1>1, <1>2, <1>4, <1>5 DEF NULL

(* A node is added, or there is no memory for it.                            *)
LEMMA MkdTyped ==
  ASSUME Typed, NEW op \in Ops, NEW val \in Nat, NEW l \in 0 .. Len(nodes), MKD(op, val, l)
  PROVE  /\ NodesOK(nodes') /\ Len(nodes') = Len(nodes) + 1 /\ Len(nodes) \in Nat /\ New \in 1 .. Len(nodes')
         /\ \E n \in Node : n.left = l /\ n.right = NULL /\ nodes' = Append(nodes, n)
<1>1. Len(nodes) \in Nat /\ NodesOK(nodes)
  BY DEF Typed, NodesOK
<1>2. PICK n : n = [op |-> op, id |-> NewId, val |-> val, left |-> l, right |-> NULL]
  OBVIOUS
<1>3. n \in Node /\ n.left = l /\ n.right = NULL
  BY <1>1, <1>2 DEF Node, NewId, NULL
<1>4. nodes' = Append(nodes, n)
  BY <1>2 DEF MKD
<1>5. QED
  BY <1>1, <1>3, <1>4, NodeAdded DEF New

LEMMA FailTyped ==
  ASSUME Typed, stk # <<>>, MKDFails, UNCHANGED <<text, pos, tokens, room, dag, pc>>
  PROVE  Typed'
<1>1. stk' = Front(stk) /\ ret' = NULL /\ oom' = TRUE /\ UNCHANGED <<i, nodes>>
  BY DEF MKDFails, Return
<1>2. NodesOK(nodes) /\ Len(nodes) \in Nat
  BY DEF Typed, NodesOK
<1>3. StackOK(Front(stk), nodes)
  BY <1>2, Returned
<1>4. QED
  BY <1>1, <1>2, <1>3, ForwardTyped, DescentTyped

LEMMA LexedIs == Lexed => UNCHANGED <<text, pos, tokens, room, dag, pc>>
BY DEF Lexed

(* A result is handed on, or there is none.                                  *)
LEMMA ReturnTyped ==
  ASSUME Typed, stk # <<>>, UNCHANGED <<text, pos, tokens, room, dag, pc>>, i' \in 0 .. Len(tokens),
         NodesOK(nodes'), Len(nodes') = Len(nodes), oom' = oom,
         NEW r \in 0 .. Len(nodes), Return(r)
  PROVE  Typed'
<1>1. NodesOK(nodes) /\ Len(nodes) \in Nat
  BY DEF Typed, NodesOK
<1>2. StackOK(Front(stk), nodes')
  BY <1>1, Returned
<1>3. stk' = Front(stk) /\ ret' = r
  BY DEF Return
<1>4. QED
  BY <1>1, <1>2, <1>3, ForwardTyped, DescentTyped

LEMMA BecomeTyped ==
  ASSUME Typed, stk # <<>>, UNCHANGED <<text, pos, tokens, room, dag, pc>>, i' \in 0 .. Len(tokens),
         NodesOK(nodes'), Len(nodes) <= Len(nodes'), oom' = oom,
         NEW y, StackOK(y, nodes'), Become(y)
  PROVE  Typed'
<1>1. NodesOK(nodes) /\ Len(nodes) \in Nat /\ Len(nodes') \in Nat
  BY DEF Typed, NodesOK
<1>2. StackOK(Front(stk) \o y, nodes')
  BY <1>1, Replaced
<1>3. stk' = Front(stk) \o y /\ ret' = 0 /\ 0 \in 0 .. Len(nodes')
  BY <1>1 DEF Become, NULL
<1>4. QED
  BY <1>1, <1>2, <1>3, ForwardTyped, DescentTyped

LEMMA PrimaryTyped ==
  ASSUME Typed, stk # <<>>, Primary
  PROVE  Typed'
<1>1. UNCHANGED <<text, pos, tokens, room, dag, pc>>
  BY LexedIs DEF Primary
<1>2. NodesOK(nodes) /\ Len(nodes) \in Nat
  BY DEF Typed, NodesOK
<1>3. CASE MKDFails
  BY <1>1, <1>3, FailTyped
<1>4. CASE MKD("VAL", i + 1, NULL) /\ Return(New) /\ forward /\ UNCHANGED oom
  <2>1. i + 1 \in Nat /\ "VAL" \in Ops /\ NULL \in 0 .. Len(nodes)
    BY ForwardTyped DEF Ops
  <2>2. NodesOK(nodes') /\ Len(nodes') = Len(nodes) + 1 /\ New \in 0 .. Len(nodes')
    BY <1>2, <1>4, <2>1, MkdTyped
  <2>3. StackOK(Front(stk), nodes')
    BY <1>2, <2>2, Returned
  <2>4. stk' = Front(stk) /\ ret' = New /\ oom' = oom
    BY <1>4 DEF Return
  <2>5. QED
    BY <1>1, <1>2, <1>4, <2>2, <2>3, <2>4, ForwardTyped, DescentTyped
<1>5. CASE forward /\ Become(<<ParenFrame>> \o expr) /\ UNCHANGED <<nodes, oom>>
  <2>1. FrameOK(ParenFrame, nodes)
    BY <1>2, FramesAre DEF FrameOK, NULL
  <2>2. StackOK(<<ParenFrame>>, nodes) /\ StackOK(expr, nodes)
    BY <1>2, <2>1, FramesOK, CallsOK
  <2>3. StackOK(<<ParenFrame>> \o expr, nodes)
    BY <2>2, Stacked
  <2>4. PICK y : y = <<ParenFrame>> \o expr /\ StackOK(y, nodes)
    BY <2>3, Zenon
  <2>5. StackOK(y, nodes') /\ NodesOK(nodes') /\ Len(nodes) <= Len(nodes') /\ oom' = oom
    BY <1>2, <1>5, <2>4
  <2>6. Become(y)
    BY <1>5, <2>4
  <2>7. QED
    BY <1>1, <1>5, <2>5, <2>6, ForwardTyped, BecomeTyped
<1>6. CASE Return(NULL) /\ UNCHANGED <<i, nodes, oom>>
  <2>1. StackOK(Front(stk), nodes)
    BY <1>2, Returned
  <2>2. stk' = Front(stk) /\ ret' = NULL
    BY <1>6 DEF Return
  <2>3. QED
    BY <1>1, <1>2, <1>6, <2>1, <2>2, ForwardTyped, DescentTyped
<1>7. QED
  BY <1>3, <1>4, <1>5, <1>6 DEF Primary, ParenFrame

LEMMA UnaryTyped ==
  ASSUME Typed, stk # <<>>, Unary
  PROVE  Typed'
<1>1. UNCHANGED <<text, pos, tokens, room, dag, pc>>
  BY LexedIs DEF Unary
<1>2. NodesOK(nodes) /\ Len(nodes) \in Nat
  BY DEF Typed, NodesOK
<1>3. CASE MKDFails
  BY <1>1, <1>3, FailTyped
<1>4. CASE forward /\ Become(<<PlusFrame>> \o expr_unary) /\ UNCHANGED <<nodes, oom>>
  <2>1. FrameOK(PlusFrame, nodes)
    BY <1>2, FramesAre DEF FrameOK, NULL
  <2>2. StackOK(<<PlusFrame>>, nodes) /\ StackOK(expr_unary, nodes)
    BY <1>2, <2>1, FramesOK, CallsOK
  <2>3. StackOK(<<PlusFrame>> \o expr_unary, nodes)
    BY <2>2, Stacked
  <2>4. PICK y : y = <<PlusFrame>> \o expr_unary /\ StackOK(y, nodes)
    BY <2>3, Zenon
  <2>5. StackOK(y, nodes') /\ NodesOK(nodes') /\ Len(nodes) <= Len(nodes') /\ oom' = oom
    BY <1>2, <1>4, <2>4
  <2>6. Become(y)
    BY <1>4, <2>4
  <2>7. QED
    BY <1>1, <1>4, <2>5, <2>6, ForwardTyped, BecomeTyped
<1>5. CASE MKD("NEG", NULL, NULL) /\ forward /\ Become(<<NegFrame(New)>> \o expr_unary)
           /\ UNCHANGED oom
  <2>1. NULL \in Nat /\ "NEG" \in Ops /\ NULL \in 0 .. Len(nodes)
    BY ForwardTyped DEF Ops, NULL
  <2>2. NodesOK(nodes') /\ Len(nodes') = Len(nodes) + 1 /\ New \in 1 .. Len(nodes')
    BY <1>2, <1>5, <2>1, MkdTyped
  <2>3. FrameOK(NegFrame(New), nodes')
    <3>1. PICK d : d = New
      OBVIOUS
    <3>2. d \in Nat /\ d \in 0 .. Len(nodes') /\ 0 \in 0 .. Len(nodes')
      BY <1>2, <2>2, <3>1
    <3>3. FrameOK(NegFrame(d), nodes')
      BY <3>2, FramesAre DEF FrameOK, NULL
    <3>4. QED
      BY <3>1, <3>3
  <2>4. StackOK(<<NegFrame(New)>>, nodes') /\ StackOK(expr_unary, nodes')
    <3>1. Len(nodes') \in Nat
      BY <1>2, <2>2
    <3>2. StackOK(expr_unary, nodes')
      BY <3>1, CallsOK
    <3>3. QED
      BY <2>3, <3>2, FramesOK
  <2>5. StackOK(<<NegFrame(New)>> \o expr_unary, nodes')
    BY <2>4, Stacked
  <2>6. PICK y : y = <<NegFrame(New)>> \o expr_unary /\ StackOK(y, nodes')
    BY <2>5, Zenon
  <2>7. NodesOK(nodes') /\ Len(nodes) <= Len(nodes') /\ oom' = oom
    BY <1>2, <1>5, <2>2
  <2>8. Become(y)
    BY <1>5, <2>6
  <2>9. QED
    BY <1>1, <1>5, <2>6, <2>7, <2>8, ForwardTyped, BecomeTyped
<1>6. CASE Become(<<PrimaryFrame>>) /\ UNCHANGED <<i, nodes, oom>>
  <2>1. FrameOK(PrimaryFrame, nodes)
    BY <1>2, FramesAre DEF FrameOK, NULL
  <2>2. StackOK(<<PrimaryFrame>>, nodes)
    BY <2>1, FramesOK
  <2>3. PICK y : y = <<PrimaryFrame>> /\ StackOK(y, nodes)
    BY <2>2, Zenon
  <2>4. StackOK(y, nodes') /\ NodesOK(nodes') /\ Len(nodes) <= Len(nodes') /\ oom' = oom
    BY <1>2, <1>6, <2>3
  <2>5. Become(y) /\ i' = i
    BY <1>6, <2>3
  <2>6. QED
    BY <1>1, <2>4, <2>5, ForwardTyped, BecomeTyped
<1>7. QED
  BY <1>3, <1>4, <1>5, <1>6 DEF Unary, PlusFrame, NegFrame, PrimaryFrame

LEMMA LoopFrameOK ==
  ASSUME NEW D, Len(D) \in Nat, NEW level \in LevelNames, NEW d \in 0 .. Len(D), NEW l \in 0 .. Len(D)
  PROVE  /\ StackOK(Rest(level, d), D)
         /\ StackOK(<<Frame("loop", level, l, d)>>, D)
         /\ StackOK(<<Frame("right", level, l, d)>>, D)
         /\ StackOK(<<Frame("rest", level, l, d)>>, D)
<1>1. ASSUME NEW a \in {"loop", "right", "rest"}, NEW x \in 0 .. Len(D) PROVE StackOK(<<Frame(a, level, x, d)>>, D)
  <2>1. x \in Nat /\ d \in Nat /\ a \in Places
    <3>1. x \in Nat /\ d \in Nat
      OBVIOUS
    <3>2. a \in Places
      BY DEF Places, Waiting
    <3>3. QED
      BY <3>1, <3>2
  <2>2. Frame(a, level, x, d) \in Fr
    BY <2>1 DEF Frame, Fr
  <2>3. FrameOK(Frame(a, level, x, d), D)
    BY <2>2 DEF FrameOK, Frame
  <2>4. QED
    BY <2>3, FramesOK
<1>2. \A x \in 0 .. Len(D) : /\ StackOK(<<Frame("loop", level, x, d)>>, D)
                            /\ StackOK(<<Frame("right", level, x, d)>>, D)
                            /\ StackOK(<<Frame("rest", level, x, d)>>, D)
  BY <1>1
<1>3. QED
  BY <1>2 DEF Rest

LEMMA WaitingTyped ==
  ASSUME Typed, stk # <<>>, Paren \/ Plus \/ Neg \/ First \/ Right \/ AfterRest
  PROVE  Typed'
<1>1. UNCHANGED <<text, pos, tokens, room, dag, pc>> /\ oom' = oom
  BY LexedIs DEF Paren, Plus, Neg, First, Right, AfterRest
<1>2. NodesOK(nodes) /\ Len(nodes) \in Nat /\ ret \in 0 .. Len(nodes) /\ NULL \in 0 .. Len(nodes)
  BY DEF Typed, NodesOK, NULL
<1>3. top.left \in 0 .. Len(nodes) /\ top.dag \in 0 .. Len(nodes) /\ top.level \in LevelNames
  BY TopOK DEF FrameOK, Fr
<1>4. CASE Paren
  <2>1. i' \in 0 .. Len(tokens) /\ nodes' = nodes /\ (Return(ret) \/ Return(NULL))
    BY <1>4, ForwardTyped DEF Paren
  <2>2. QED
    BY <1>1, <1>2, <2>1, ReturnTyped
<1>5. CASE Plus
  <2>1. i' = i /\ nodes' = nodes /\ Return(ret)
    BY <1>5 DEF Plus
  <2>2. QED
    BY <1>1, <1>2, <2>1, ForwardTyped, ReturnTyped
<1>6. CASE Neg
  <2>1. i' = i /\ nodes' = [nodes EXCEPT ![top.dag].right = ret] /\ (Return(NULL) \/ Return(top.dag))
    BY <1>6 DEF Neg, SetRight
  <2>2. NodesOK(nodes') /\ Len(nodes') = Len(nodes)
    BY <1>2, <2>1, NodeSet
  <2>3. QED
    BY <1>1, <1>2, <1>3, <2>1, <2>2, ForwardTyped, ReturnTyped
<1>7. CASE First
  <2>1. i' = i /\ nodes' = nodes /\ (Return(NULL) \/ Become(Rest(top.level, ret)))
    BY <1>7 DEF First
  <2>2. StackOK(Rest(top.level, ret), nodes)
    BY <1>2, <1>3, LoopFrameOK
  <2>3. QED
    BY <1>1, <1>2, <2>1, <2>2, ForwardTyped, ReturnTyped, BecomeTyped
<1>8. CASE AfterRest
  <2>1. i' = i /\ nodes' = nodes /\ (Return(NULL) \/ Become(<<Frame("loop", top.level, top.left, ret)>>))
    BY <1>8 DEF AfterRest
  <2>2. StackOK(<<Frame("loop", top.level, top.left, ret)>>, nodes)
    BY <1>2, <1>3, LoopFrameOK
  <2>3. QED
    BY <1>1, <1>2, <2>1, <2>2, ForwardTyped, ReturnTyped, BecomeTyped
<1>9. CASE Right
  <2>1. /\ i' = i /\ nodes' = [nodes EXCEPT ![top.dag].right = ret]
        /\ \/ Return(NULL)
           \/ Become(<<Frame("rest", top.level, top.left, NULL)>> \o Rest(top.level, top.dag))
    BY <1>9 DEF Right, SetRight
  <2>2. NodesOK(nodes') /\ Len(nodes') = Len(nodes)
    BY <1>2, <2>1, NodeSet
  <2>3. StackOK(<<Frame("rest", top.level, top.left, NULL)>>, nodes') /\ StackOK(Rest(top.level, top.dag), nodes')
    BY <1>2, <1>3, <2>2, LoopFrameOK
  <2>4. StackOK(<<Frame("rest", top.level, top.left, NULL)>> \o Rest(top.level, top.dag), nodes')
    BY <2>3, Stacked
  <2>5. PICK y : y = <<Frame("rest", top.level, top.left, NULL)>> \o Rest(top.level, top.dag)
    OBVIOUS
  <2>6. StackOK(y, nodes') /\ Len(nodes) <= Len(nodes')
    BY <1>2, <2>2, <2>4, <2>5
  <2>7. Return(NULL) \/ Become(y)
    BY <2>1, <2>5
  <2>8. i' \in 0 .. Len(tokens)
    BY <2>1, ForwardTyped
  <2>9. QED
    BY <1>1, <1>2, <2>2, <2>6, <2>7, <2>8, ReturnTyped, BecomeTyped
<1>10. QED
  BY <1>4, <1>5, <1>6, <1>7, <1>8, <1>9

LEMMA OpIs == next \in Operators(top.level) => OpOf[next] \in Ops
BY DEF Operators, OpOf, Ops

LEMMA LoopTyped ==
  ASSUME Typed, stk # <<>>, Loop
  PROVE  Typed'
<1>1. UNCHANGED <<text, pos, tokens, room, dag, pc>>
  BY LexedIs DEF Loop
<1>2. NodesOK(nodes) /\ Len(nodes) \in Nat /\ NULL \in Nat
  BY DEF Typed, NodesOK, NULL
<1>3. top.left \in 0 .. Len(nodes) /\ top.dag \in 0 .. Len(nodes) /\ top.level \in LevelNames
  BY TopOK DEF FrameOK, Fr
<1>4. CASE MKDFails
  BY <1>1, <1>4, FailTyped
<1>5. CASE /\ next \in Operators(top.level) /\ MKD(OpOf[next], NULL, top.left) /\ forward
           /\ Become(<<Frame("right", top.level, top.left, New)>> \o Operand(top.level)) /\ UNCHANGED oom
  <2>1. OpOf[next] \in Ops
    BY <1>5, OpIs
  <2>2. NodesOK(nodes') /\ Len(nodes') = Len(nodes) + 1 /\ New \in 1 .. Len(nodes')
    BY <1>2, <1>3, <1>5, <2>1, MkdTyped
  <2>3. New \in 0 .. Len(nodes') /\ top.left \in 0 .. Len(nodes') /\ Len(nodes') \in Nat
    <3>1. PICK m \in Nat : m = Len(nodes)
      BY <1>2
    <3>2. New = m + 1 /\ Len(nodes') = m + 1
      BY <2>2, <3>1 DEF New
    <3>3. PICK l \in 0 .. m : l = top.left
      BY <1>3, <3>1
    <3>4. m + 1 \in 0 .. m + 1 /\ l \in 0 .. m + 1
      OBVIOUS
    <3>5. QED
      BY <3>2, <3>3, <3>4
  <2>4. StackOK(<<Frame("right", top.level, top.left, New)>>, nodes') /\ StackOK(Operand(top.level), nodes')
    BY <1>3, <2>3, LoopFrameOK, CallsOK
  <2>5. StackOK(<<Frame("right", top.level, top.left, New)>> \o Operand(top.level), nodes')
    BY <2>4, Stacked
  <2>6. Len(nodes) <= Len(nodes')
    BY <1>2, <2>2
  <2>7. PICK y : y = <<Frame("right", top.level, top.left, New)>> \o Operand(top.level)
    OBVIOUS
  <2>8. StackOK(y, nodes') /\ oom' = oom
    BY <1>5, <2>5, <2>7
  <2>9. Become(y)
    BY <1>5, <2>7
  <2>10. QED
    BY <1>1, <1>5, <2>2, <2>6, <2>8, <2>9, ForwardTyped, BecomeTyped
<1>6. CASE Return(top.dag) /\ UNCHANGED <<i, nodes, oom>>
  BY <1>1, <1>2, <1>3, <1>6, ForwardTyped, ReturnTyped
<1>7. QED
  BY <1>4, <1>5, <1>6 DEF Loop

LEMMA TopTyped ==
  ASSUME Typed, Top \/ TblFault \/ Generate
  PROVE  Typed'
<1>1. UNCHANGED <<text, pos, tokens, room, i, nodes, oom>> /\ pc' \in {"generate", "null", "fault", "ok"}
  BY DEF Top, TblFault, Generate
<1>2. LexerOK'
  BY <1>1 DEF Typed, LexerOK
<1>3. ret' \in 0 .. Len(nodes) /\ dag' \in 0 .. Len(nodes)
  <2>1. ret \in 0 .. Len(nodes) /\ dag \in 0 .. Len(nodes) /\ NULL \in 0 .. Len(nodes)
    BY ForwardTyped DEF Typed
  <2>2. QED
    BY <2>1 DEF Top, TblFault, Generate
<1>4. StackOK(stk', nodes)
  <2>1. stk' = stk \/ stk' = <<>>
    BY DEF Top, TblFault, Generate
  <2>2. StackOK(<<>>, nodes)
    BY DEF StackOK
  <2>3. QED
    BY <2>1, <2>2 DEF Typed
<1>5. QED
  BY <1>1, <1>2, <1>3, <1>4 DEF Typed, NodesOK, StackOK, FrameOK, Ended

-----------------------------------------------------------------------------
(***************************************************************************)
(* The stack of the descent. The call at k makes the tree of the nodes     *)
(* from st[k] on; the operand that it waits for begins at st[k + 1].       *)
(***************************************************************************)
Hangs(D, lo, hi, f, s, e) ==
  /\ f.at \in Waiting
  /\ f.at \in {"right", "neg"} => f.dag \in 1 .. Len(D) /\ lo[f.dag] = s /\ hi[f.dag] = f.dag /\ e = f.dag + 1
  /\ f.at \notin {"right", "neg"} => e = s

(* A loop goes on above the loop it was called by, with the same operators.  *)
Follows(f, g) == f.at = "rest" => g.at \in {"right", "rest", "loop"} /\ g.level = f.level

Susp(D, lo, hi, q, st) ==
  /\ q \in Seq(Fr) /\ st \in Seq(Nat) /\ Len(st) = Len(q) + 1 /\ st[1] = 1
  /\ \A k \in 1 .. Len(q) + 1 : Cut(D, lo, hi, st[k])
  /\ \A k, l \in 1 .. Len(q) + 1 : k <= l => st[k] <= st[l]
  /\ \A k \in 1 .. Len(q) : Hangs(D, lo, hi, q[k], st[k], st[k + 1]) /\ (q[k].at = "top" <=> k = 1)
  /\ \A k \in 1 .. Len(q) : k + 1 \in 1 .. Len(q) => Follows(q[k], q[k + 1])

OnTop(q, f) == f \in Fr /\ (f.at = "top" <=> q = <<>>) /\ (q # <<>> => Follows(Last(q), f))

LEMMA AppendIs ==
  ASSUME NEW S, NEW q \in Seq(S), NEW f \in S
  PROVE  /\ Append(q, f) \in Seq(S) /\ Len(q) \in Nat /\ Len(Append(q, f)) = Len(q) + 1 /\ Append(q, f) # <<>>
         /\ \A k \in 1 .. Len(q) : Append(q, f)[k] = q[k]
         /\ Append(q, f)[Len(q) + 1] = f
         /\ Last(Append(q, f)) = f /\ Front(Append(q, f)) = q
         /\ q \o <<f>> = Append(q, f)
<1>1. /\ Append(q, f) \in Seq(S) /\ Len(q) \in Nat /\ Len(Append(q, f)) = Len(q) + 1
      /\ \A k \in 1 .. Len(q) : Append(q, f)[k] = q[k]
      /\ Append(q, f)[Len(q) + 1] = f
  BY AppendProperties, LenProperties
<1>2. Append(q, f) # <<>>
  BY <1>1, EmptySeq
<1>3. PICK a \in Seq(S) : a = Append(q, f)
  BY <1>1
<1>4. a # <<>> /\ Len(a) = Len(q) + 1
  BY <1>1, <1>2, <1>3
<1>5. /\ Front(a) \in Seq(S) /\ Len(Front(a)) = Len(a) - 1
      /\ \A k \in 1 .. Len(a) - 1 : Front(a)[k] = a[k]
      /\ Last(a) = a[Len(a)]
  BY <1>4, FrontIs
<1>6. Len(Front(a)) = Len(q) /\ \A k \in 1 .. Len(q) : Front(a)[k] = q[k]
  BY <1>1, <1>3, <1>4, <1>5
<1>7. Front(a) = q
  BY <1>5, <1>6, SeqEqual
<1>8. q \o <<f>> = Append(q, f)
  BY AppendIsConcat
<1>9. Last(a) = f
  BY <1>1, <1>3, <1>4, <1>5
<1>10. QED
  BY <1>1, <1>2, <1>3, <1>7, <1>8, <1>9

LEMMA SuspPush ==
  ASSUME NEW D, NEW lo, NEW hi, NEW q, NEW st, Susp(D, lo, hi, q, st),
         NEW f, NEW e, OnTop(q, f), Hangs(D, lo, hi, f, st[Len(q) + 1], e), Cut(D, lo, hi, e), e \in Nat,
         Len(D) \in Nat, Blocks(D, lo, hi)
  PROVE  Susp(D, lo, hi, Append(q, f), Append(st, e))
<1> DEFINE p == Append(q, f)
           t == Append(st, e)
           L == Len(q)
<1>1. q \in Seq(Fr) /\ st \in Seq(Nat) /\ Len(st) = L + 1 /\ f \in Fr /\ L \in Nat
  BY DEF Susp, OnTop
<1>2. /\ p \in Seq(Fr) /\ Len(p) = L + 1 /\ p # <<>> /\ p[L + 1] = f
      /\ \A k \in 1 .. L : p[k] = q[k]
  BY <1>1, AppendIs
<1>3. /\ t \in Seq(Nat) /\ Len(t) = (L + 1) + 1 /\ t[(L + 1) + 1] = e
      /\ \A k \in 1 .. L + 1 : t[k] = st[k]
  BY <1>1, AppendIs
<1>4. /\ st[1] = 1
      /\ \A k \in 1 .. L + 1 : Cut(D, lo, hi, st[k])
      /\ \A k, l \in 1 .. L + 1 : k <= l => st[k] <= st[l]
      /\ \A k \in 1 .. L : Hangs(D, lo, hi, q[k], st[k], st[k + 1]) /\ (q[k].at = "top" <=> k = 1)
      /\ \A k \in 1 .. L : k + 1 \in 1 .. L => Follows(q[k], q[k + 1])
      /\ \A k \in 1 .. L + 1 : st[k] \in Nat
  BY <1>1 DEF Susp
<1>5. q # <<>> => L >= 1 /\ Follows(q[L], f)
  BY <1>1, EmptySeq DEF OnTop, Last
<1>6. q = <<>> => L = 0
  OBVIOUS
<1>7. st[L + 1] <= e
  <2>1. CASE f.at \in {"right", "neg"}
    <3>1. f.dag \in 1 .. Len(D) /\ lo[f.dag] = st[L + 1] /\ e = f.dag + 1
      BY <2>1 DEF Hangs
    <3>2. lo[f.dag] \in 1 .. f.dag
      BY <3>1 DEF Blocks, Spans
    <3>3. QED
      BY <3>1, <3>2
  <2>2. CASE f.at \notin {"right", "neg"}
    <3>1. e = st[L + 1]
      BY <2>2 DEF Hangs
    <3>2. QED
      BY <3>1
  <2>3. QED
    BY <2>1, <2>2
<1> HIDE DEF p, t, L
<1>8. \A k \in 1 .. (L + 1) + 1 : k \in 1 .. L + 1 \/ k = (L + 1) + 1
  BY <1>1
<1>9. \A k \in 1 .. L + 1 : k \in 1 .. L \/ k = L + 1
  BY <1>1
<1>10. \A k \in 1 .. L : k \in 1 .. L + 1 /\ k + 1 \in 1 .. L + 1
  BY <1>1
<1>11. 1 \in 1 .. L + 1 /\ L + 1 \in 1 .. L + 1 /\ (L + 1 = 1 <=> L = 0)
  BY <1>1
<1>12. t[1] = 1
  BY <1>3, <1>4, <1>11
<1>13. \A k \in 1 .. (L + 1) + 1 : Cut(D, lo, hi, t[k])
  BY <1>3, <1>4, <1>8
<1>14. \A k, l \in 1 .. (L + 1) + 1 : k <= l => t[k] <= t[l]
  <2>1. \A k, l \in 1 .. L + 1 : k <= l => t[k] <= t[l]
    BY <1>3, <1>4
  <2>2. \A k \in 1 .. L + 1 : t[k] <= e
    <3>1. \A k \in 1 .. L + 1 : st[k] <= st[L + 1] /\ st[k] \in Nat
      BY <1>1, <1>4, <1>11
    <3>2. QED
      BY <1>3, <1>7, <1>11, <3>1
  <2>3. e <= e
    OBVIOUS
  <2>4. \A k \in 1 .. L + 1 : ~((L + 1) + 1 <= k)
    BY <1>1
  <2>5. QED
    BY <1>3, <1>8, <2>1, <2>2, <2>3, <2>4
<1>15. \A k \in 1 .. L + 1 : Hangs(D, lo, hi, p[k], t[k], t[k + 1]) /\ (p[k].at = "top" <=> k = 1)
  <2>1. \A k \in 1 .. L : Hangs(D, lo, hi, p[k], t[k], t[k + 1]) /\ (p[k].at = "top" <=> k = 1)
    BY <1>2, <1>3, <1>4, <1>10
  <2>2. Hangs(D, lo, hi, p[L + 1], t[L + 1], t[(L + 1) + 1])
    BY <1>2, <1>3, <1>11 DEF L
  <2>3. p[L + 1].at = "top" <=> L + 1 = 1
    BY <1>1, <1>2, <1>5, <1>6, <1>11 DEF OnTop
  <2>4. QED
    BY <1>9, <2>1, <2>2, <2>3
<1>16. \A k \in 1 .. L + 1 : k + 1 \in 1 .. L + 1 => Follows(p[k], p[k + 1])
  <2>1. ASSUME NEW k \in 1 .. L + 1, k + 1 \in 1 .. L + 1 PROVE Follows(p[k], p[k + 1])
    <3>1. k \in 1 .. L
      BY <1>1, <2>1
    <3>2. CASE k + 1 \in 1 .. L
      BY <1>2, <1>4, <3>1, <3>2
    <3>3. CASE k + 1 = L + 1
      <4>1. k = L /\ L # 0
        BY <1>1, <2>1, <3>1, <3>3
      <4>2. QED
        BY <1>2, <1>5, <1>6, <3>1, <3>3, <4>1
    <3>4. QED
      BY <1>9, <2>1, <3>2, <3>3
  <2>2. QED
    BY <2>1
<1>17. Susp(D, lo, hi, p, t)
  BY <1>2, <1>3, <1>12, <1>13, <1>14, <1>15, <1>16 DEF Susp
<1>18. QED
  BY <1>17 DEF p, t

LEMMA SuspPop ==
  ASSUME NEW D, NEW lo, NEW hi, NEW x, NEW st, Susp(D, lo, hi, x, st), x # <<>>
  PROVE  /\ Susp(D, lo, hi, Front(x), Front(st))
         /\ Len(x) \in Nat /\ Len(x) >= 1 /\ Len(Front(x)) + 1 = Len(x) /\ Front(x) \in Seq(Fr)
         /\ Hangs(D, lo, hi, Last(x), Front(st)[Len(x)], st[Len(x) + 1])
         /\ OnTop(Front(x), Last(x))
         /\ Cut(D, lo, hi, st[Len(x) + 1]) /\ st[Len(x) + 1] \in Nat
         /\ Cut(D, lo, hi, Front(st)[Len(x)])
<1> DEFINE q == Front(x)
           t == Front(st)
           L == Len(x)
<1>1. x \in Seq(Fr) /\ st \in Seq(Nat) /\ Len(st) = L + 1
  BY DEF Susp
<1>2. /\ L \in Nat /\ L >= 1 /\ q \in Seq(Fr) /\ Len(q) = L - 1
      /\ \A k \in 1 .. L - 1 : q[k] = x[k]
      /\ Last(x) \in Fr /\ Last(x) = x[L]
  BY <1>1, FrontIs
<1>3. st # <<>>
  BY <1>1, <1>2
<1>4. t \in Seq(Nat) /\ Len(t) = L /\ \A k \in 1 .. L : t[k] = st[k]
  <2>1. /\ t \in Seq(Nat) /\ Len(t) = Len(st) - 1 /\ \A k \in 1 .. Len(st) - 1 : t[k] = st[k]
    BY <1>1, <1>3, FrontIs
  <2>2. QED
    BY <1>1, <1>2, <2>1
<1>5. /\ st[1] = 1
      /\ \A k \in 1 .. L + 1 : Cut(D, lo, hi, st[k])
      /\ \A k, l \in 1 .. L + 1 : k <= l => st[k] <= st[l]
      /\ \A k \in 1 .. L : Hangs(D, lo, hi, x[k], st[k], st[k + 1]) /\ (x[k].at = "top" <=> k = 1)
      /\ \A k \in 1 .. L : k + 1 \in 1 .. L => Follows(x[k], x[k + 1])
      /\ \A k \in 1 .. L + 1 : st[k] \in Nat
  BY <1>1 DEF Susp
<1> HIDE DEF q, t, L
<1>6. \A k \in 1 .. L : k \in 1 .. L + 1
  BY <1>2
<1>7. \A k \in 1 .. L - 1 : k \in 1 .. L /\ k + 1 \in 1 .. L
  BY <1>2
<1>8. L \in 1 .. L /\ 1 \in 1 .. L /\ L + 1 \in 1 .. L + 1 /\ (L - 1) + 1 = L
  BY <1>2
<1>9. Susp(D, lo, hi, q, t)
  <2>1. t[1] = 1
    BY <1>4, <1>5, <1>8
  <2>2. \A k \in 1 .. L : Cut(D, lo, hi, t[k])
    BY <1>4, <1>5, <1>6
  <2>3. \A k, l \in 1 .. L : k <= l => t[k] <= t[l]
    BY <1>4, <1>5, <1>6
  <2>4. \A k \in 1 .. L - 1 : Hangs(D, lo, hi, q[k], t[k], t[k + 1]) /\ (q[k].at = "top" <=> k = 1)
    BY <1>2, <1>4, <1>5, <1>7
  <2>5. \A k \in 1 .. L - 1 : k + 1 \in 1 .. L - 1 => Follows(q[k], q[k + 1])
    BY <1>2, <1>5, <1>7
  <2>6. Len(q) = L - 1 /\ Len(q) + 1 = L /\ Len(t) = Len(q) + 1
    BY <1>2, <1>4, <1>8
  <2>7. QED
    BY <1>2, <1>4, <2>1, <2>2, <2>3, <2>4, <2>5, <2>6 DEF Susp
<1>10. Hangs(D, lo, hi, Last(x), t[L], st[L + 1])
  BY <1>2, <1>4, <1>5, <1>8
<1>11. q = <<>> <=> L = 1
  BY <1>2, EmptySeq
<1>12. Last(x).at = "top" <=> q = <<>>
  BY <1>2, <1>5, <1>8, <1>11
<1>13. OnTop(q, Last(x))
  <2>1. ASSUME q # <<>> PROVE Follows(Last(q), Last(x))
    <3>1. L # 1 /\ L - 1 \in 1 .. L - 1 /\ L - 1 \in 1 .. L
      BY <1>2, <1>11, <2>1
    <3>2. Last(q) = q[L - 1]
      BY <1>2 DEF Last
    <3>3. Follows(x[L - 1], x[(L - 1) + 1])
      BY <1>5, <1>8, <3>1
    <3>4. QED
      BY <1>2, <1>8, <3>1, <3>2, <3>3
  <2>2. QED
    BY <1>2, <1>12, <2>1 DEF OnTop
<1>14. Cut(D, lo, hi, st[L + 1]) /\ st[L + 1] \in Nat /\ Cut(D, lo, hi, t[L])
  BY <1>4, <1>5, <1>6, <1>8
<1>15. QED
  BY <1>2, <1>8, <1>9, <1>10, <1>13, <1>14 DEF q, t, L

(* What waits does not see the nodes from where the operand begins.          *)
LEMMA SuspKept ==
  ASSUME NEW D, NEW lo, NEW hi, NEW q, NEW st, Susp(D, lo, hi, q, st), Len(D) \in Nat,
         NEW E, NEW lo2, NEW hi2, NEW b, b = st[Len(q) + 1], Len(E) \in Nat, Len(D) <= Len(E),
         \A c : Cut(D, lo, hi, c) /\ c <= b => Cut(E, lo2, hi2, c),
         \A m \in 1 .. Len(D) : m < b => lo2[m] = lo[m] /\ hi2[m] = hi[m]
  PROVE  Susp(E, lo2, hi2, q, st)
<1>1. q \in Seq(Fr) /\ st \in Seq(Nat) /\ Len(st) = Len(q) + 1 /\ Len(q) \in Nat
  BY DEF Susp
<1>2. /\ st[1] = 1
      /\ \A k \in 1 .. Len(q) + 1 : Cut(D, lo, hi, st[k])
      /\ \A k, l \in 1 .. Len(q) + 1 : k <= l => st[k] <= st[l]
      /\ \A k \in 1 .. Len(q) : Hangs(D, lo, hi, q[k], st[k], st[k + 1]) /\ (q[k].at = "top" <=> k = 1)
      /\ \A k \in 1 .. Len(q) : k + 1 \in 1 .. Len(q) => Follows(q[k], q[k + 1])
      /\ \A k \in 1 .. Len(q) + 1 : st[k] \in Nat
  BY <1>1 DEF Susp
<1>3. \A k \in 1 .. Len(q) + 1 : st[k] <= b
  <2>1. Len(q) + 1 \in 1 .. Len(q) + 1 /\ \A k \in 1 .. Len(q) + 1 : k <= Len(q) + 1
    BY <1>1
  <2>2. QED
    BY <1>2, <2>1
<1>4. \A k \in 1 .. Len(q) + 1 : Cut(E, lo2, hi2, st[k])
  BY <1>2, <1>3
<1>5. ASSUME NEW k \in 1 .. Len(q) PROVE Hangs(E, lo2, hi2, q[k], st[k], st[k + 1])
  <2>1. Hangs(D, lo, hi, q[k], st[k], st[k + 1]) /\ k + 1 \in 1 .. Len(q) + 1
    BY <1>1, <1>2
  <2>2. CASE q[k].at \in {"right", "neg"}
    <3>1. /\ q[k].dag \in 1 .. Len(D) /\ lo[q[k].dag] = st[k] /\ hi[q[k].dag] = q[k].dag
          /\ st[k + 1] = q[k].dag + 1
      BY <2>1, <2>2 DEF Hangs
    <3>2. b \in Nat /\ st[k + 1] <= b /\ q[k].dag < b
      <4>1. st[k + 1] <= b
        BY <1>3, <2>1
      <4>2. Len(q) + 1 \in 1 .. Len(q) + 1
        BY <1>1
      <4>3. b \in Nat
        BY <1>2, <4>2
      <4>4. q[k].dag \in Nat
        BY <3>1
      <4>5. QED
        BY <3>1, <4>1, <4>3, <4>4
    <3>3. lo2[q[k].dag] = lo[q[k].dag] /\ hi2[q[k].dag] = hi[q[k].dag] /\ q[k].dag \in 1 .. Len(E)
      BY <3>1, <3>2
    <3>4. QED
      BY <2>1, <2>2, <3>1, <3>3 DEF Hangs
  <2>3. CASE q[k].at \notin {"right", "neg"}
    BY <2>1, <2>3 DEF Hangs
  <2>4. QED
    BY <2>2, <2>3
<1>6. QED
  BY <1>1, <1>2, <1>4, <1>5 DEF Susp

LEMMA AddSusp ==
  ASSUME NEW D, NEW lo, NEW hi, NEW n, NEW e, NEW E, NEW lo2, NEW hi2,
         MayAdd(D, lo, hi, n, e, E, lo2, hi2),
         NEW q, NEW st, Susp(D, lo, hi, q, st), st[Len(q) + 1] = e
  PROVE  Susp(E, lo2, hi2, q, st)
<1>1. /\ Len(D) \in Nat /\ Len(E) = Len(D) + 1
      /\ \A m \in 1 .. Len(D) : lo2[m] = lo[m] /\ hi2[m] = hi[m]
  BY AddIs
<1>2. \A c : Cut(D, lo, hi, c) /\ c <= e => Cut(E, lo2, hi2, c)
  BY Added
<1>3. Len(E) \in Nat /\ Len(D) <= Len(E)
  BY <1>1
<1>4. QED
  BY <1>1, <1>2, <1>3, SuspKept

LEMMA JoinSusp ==
  ASSUME NEW D, NEW lo, NEW hi, NEW d, NEW r, NEW E, NEW hi2, MayJoin(D, lo, hi, d, r, E, hi2),
         NEW q, NEW st, Susp(D, lo, hi, q, st), st[Len(q) + 1] = lo[d]
  PROVE  Susp(E, lo, hi2, q, st)
<1>1. /\ Len(D) \in Nat /\ Len(E) = Len(D) /\ d \in 1 .. Len(D)
      /\ \A m \in 1 .. Len(D) : m # d => hi2[m] = hi[m]
  BY JoinIs
<1>2. \A c : Cut(D, lo, hi, c) /\ c <= lo[d] => Cut(E, lo, hi2, c)
  BY Joined
<1>3. lo[d] \in 1 .. d
  BY <1>1 DEF MayJoin, Blocks, Spans
<1>4. \A m \in 1 .. Len(D) : m < lo[d] => lo[m] = lo[m] /\ hi2[m] = hi[m]
  <2>1. \A m \in 1 .. Len(D) : m < lo[d] => m # d
    BY <1>1, <1>3
  <2>2. QED
    BY <1>1, <2>1
<1>5. Len(E) \in Nat /\ Len(D) <= Len(E)
  BY <1>1
<1>6. QED
  BY <1>1, <1>2, <1>4, <1>5, SuspKept

-----------------------------------------------------------------------------
(***************************************************************************)
(* A parse is in a call that runs (Goes), hands on a tree (Comes), or has  *)
(* failed and only returns. "nx" is the next token.                        *)
(***************************************************************************)
Active(D, lo, hi, f, s, nx) ==
  \/ f.at \in {"unary", "primary"} /\ s = Len(D) + 1
  \/ f.at = "loop" /\ Block(D, lo, hi, f.dag, s) /\ (f.left = f.dag \/ nx \notin Operators(f.level))

Goes(D, lo, hi, x, q, st, f, nx) ==
  /\ x = Append(q, f) /\ q # <<>> /\ OnTop(q, f)
  /\ Susp(D, lo, hi, q, st) /\ Active(D, lo, hi, f, st[Len(q) + 1], nx)

Comes(D, lo, hi, x, st, r, nx) ==
  /\ x # <<>> /\ Susp(D, lo, hi, x, st) /\ Block(D, lo, hi, r, st[Len(x) + 1])
  /\ Last(x).at = "rest" => nx \notin Operators(Last(x).level)

Fails(x) ==
  /\ x \in Seq(Fr) /\ x # <<>>
  /\ \A k \in 1 .. Len(x) : x[k].at \in Waiting /\ (x[k].at = "top" <=> k = 1)

GoesOn(D, x, nx) == \E lo, hi, q, st, f : Blocks(D, lo, hi) /\ Goes(D, lo, hi, x, q, st, f, nx)
ComesBack(D, x, r, nx) == \E lo, hi, st : Blocks(D, lo, hi) /\ Comes(D, lo, hi, x, st, r, nx)

Descent == GoesOn(nodes, stk, next) \/ ComesBack(nodes, stk, ret, next) \/ (ret = NULL /\ Fails(stk))

LEMMA SuspFails ==
  ASSUME NEW D, NEW lo, NEW hi, NEW q, NEW st, Susp(D, lo, hi, q, st), q # <<>>
  PROVE  Fails(q)
BY DEF Susp, Fails, Hangs

LEMMA FailsOn ==
  ASSUME NEW x, Fails(x), Last(x).at # "top"
  PROVE  Fails(Front(x))
<1>1. /\ Len(x) \in Nat /\ Len(x) >= 1 /\ Front(x) \in Seq(Fr) /\ Len(Front(x)) = Len(x) - 1
      /\ \A k \in 1 .. Len(x) - 1 : Front(x)[k] = x[k]
      /\ Last(x) = x[Len(x)]
  BY FrontIs DEF Fails
<1>2. \A k \in 1 .. Len(x) : x[k].at \in Waiting /\ (x[k].at = "top" <=> k = 1)
  BY DEF Fails
<1>3. Len(x) # 1
  BY <1>1, <1>2
<1>4. Front(x) # <<>>
  BY <1>1, <1>3, EmptySeq
<1>5. \A k \in 1 .. Len(x) - 1 : k \in 1 .. Len(x)
  BY <1>1
<1>6. QED
  BY <1>1, <1>2, <1>4, <1>5 DEF Fails

LEMMA BlocksBound ==
  ASSUME NEW D, NEW lo, NEW hi, Blocks(D, lo, hi), Len(D) \in Nat
  PROVE  \A d \in 1 .. Len(D) : lo[d] \in 1 .. d /\ hi[d] \in d .. Len(D)
BY DEF Blocks, Spans

LEMMA Pushed ==
  ASSUME NEW S, NEW q \in Seq(S), NEW f \in S, NEW r \in Seq(S)
  PROVE  q \o (<<f>> \o r) = Append(q, f) \o r
<1>1. q \o <<f>> = Append(q, f) /\ <<f>> \in Seq(S)
  BY AppendIs
<1>2. q \o (<<f>> \o r) = (q \o <<f>>) \o r
  BY <1>1, ConcatAssociative
<1>3. QED
  BY <1>1, <1>2

(* Frames that wait for an operand which begins where their own tree does.    *)
LEMMA PushPlain ==
  ASSUME NEW D, NEW lo, NEW hi, Blocks(D, lo, hi), Len(D) \in Nat,
         NEW q, NEW st, Susp(D, lo, hi, q, st), q # <<>>,
         NEW f, OnTop(q, f), f.at \in {"paren", "plus", "first", "rest"}
  PROVE  \E t : /\ Susp(D, lo, hi, Append(q, f), t) /\ Append(q, f) # <<>> /\ Last(Append(q, f)) = f
                /\ t[Len(Append(q, f)) + 1] = st[Len(q) + 1]
<1>2. PICK e : e = st[Len(q) + 1]
  OBVIOUS
<1>3. q \in Seq(Fr) /\ st \in Seq(Nat) /\ Len(st) = Len(q) + 1 /\ Len(q) \in Nat /\ f \in Fr
  BY DEF Susp, OnTop
<1>4. Len(q) + 1 \in 1 .. Len(q) + 1
  BY <1>3
<1>5. e \in Nat /\ Cut(D, lo, hi, e)
  BY <1>2, <1>3, <1>4 DEF Susp
<1>6. Hangs(D, lo, hi, f, st[Len(q) + 1], e)
  BY <1>2 DEF Hangs, Waiting
<1>7. Susp(D, lo, hi, Append(q, f), Append(st, e))
  BY <1>5, <1>6, SuspPush
<1>8. Append(st, e)[Len(Append(q, f)) + 1] = e
  <2>1. Len(Append(q, f)) = Len(q) + 1
    BY <1>3, AppendIs
  <2>2. Append(st, e)[Len(st) + 1] = e
    BY <1>3, <1>5, AppendIs
  <2>3. QED
    BY <1>3, <2>1, <2>2
<1>9. Append(q, f) # <<>> /\ Last(Append(q, f)) = f
  BY <1>3, AppendIs
<1>10. QED
  BY <1>2, <1>7, <1>8, <1>9

(* What expr_unary, expr_multiplicative and expr begin with.                 *)
LEMMA CallsUnary ==
  ASSUME NEW D, NEW lo, NEW hi, Blocks(D, lo, hi), Len(D) \in Nat,
         NEW q, NEW st, Susp(D, lo, hi, q, st), q # <<>>, Last(q).at # "rest",
         st[Len(q) + 1] = Len(D) + 1, NEW nx
  PROVE  GoesOn(D, q \o expr_unary, nx)
<1>1. q \in Seq(Fr)
  BY DEF Susp
<1>2. UnaryFrame \in Fr /\ UnaryFrame.at = "unary"
  BY FramesAre
<1>3. PICK f \in Fr : f = UnaryFrame
  BY <1>2
<1>4. q \o <<f>> = Append(q, f)
  BY <1>1, AppendIs
<1>5. q \o expr_unary = Append(q, f)
  BY <1>3, <1>4, Zenon DEF expr_unary, UnaryFrame
<1>6. OnTop(q, f)
  BY <1>2, <1>3 DEF OnTop, Follows
<1>7. Active(D, lo, hi, f, st[Len(q) + 1], nx)
  BY <1>2, <1>3 DEF Active
<1>8. Goes(D, lo, hi, q \o expr_unary, q, st, f, nx)
  BY <1>5, <1>6, <1>7 DEF Goes
<1>9. QED
  BY <1>8 DEF GoesOn

LEMMA CallsMore ==
  ASSUME NEW D, NEW lo, NEW hi, Blocks(D, lo, hi), Len(D) \in Nat,
         NEW q, NEW st, Susp(D, lo, hi, q, st), q # <<>>, Last(q).at # "rest",
         st[Len(q) + 1] = Len(D) + 1, NEW nx
  PROVE  GoesOn(D, q \o expr_multiplicative, nx) /\ GoesOn(D, q \o expr, nx)
<1>1. ASSUME NEW p, NEW t, Susp(D, lo, hi, p, t), p # <<>>, Last(p).at # "rest", t[Len(p) + 1] = Len(D) + 1
      PROVE  GoesOn(D, p \o expr_multiplicative, nx)
  <2>1. FirstFrame("mul") \in Fr /\ FirstFrame("mul").at = "first"
    BY FramesAre
  <2>2. PICK f \in Fr : f = FirstFrame("mul")
    BY <2>1
  <2>3. p \in Seq(Fr)
    BY <1>1 DEF Susp
  <2>4. expr_unary \in Seq(Fr)
    BY CallsOK DEF StackOK
  <2>5. p \o (<<f>> \o expr_unary) = Append(p, f) \o expr_unary
    BY <2>3, <2>4, Pushed
  <2>6. p \o expr_multiplicative = Append(p, f) \o expr_unary
    BY <2>2, <2>5, Zenon DEF expr_multiplicative, FirstFrame
  <2>7. OnTop(p, f)
    BY <1>1, <2>1, <2>2 DEF OnTop, Follows
  <2>8. PICK u : /\ Susp(D, lo, hi, Append(p, f), u) /\ Append(p, f) # <<>> /\ Last(Append(p, f)) = f
                 /\ u[Len(Append(p, f)) + 1] = t[Len(p) + 1]
    BY <1>1, <2>1, <2>2, <2>7, PushPlain
  <2>9. Last(Append(p, f)).at # "rest"
    BY <2>1, <2>2, <2>8
  <2>10. GoesOn(D, Append(p, f) \o expr_unary, nx)
    BY <1>1, <2>8, <2>9, CallsUnary
  <2>11. QED
    BY <2>6, <2>10
<1>2. GoesOn(D, q \o expr_multiplicative, nx)
  BY <1>1
<1>3. GoesOn(D, q \o expr, nx)
  <2>1. FirstFrame("add") \in Fr /\ FirstFrame("add").at = "first"
    BY FramesAre
  <2>2. PICK f \in Fr : f = FirstFrame("add")
    BY <2>1
  <2>3. q \in Seq(Fr)
    BY DEF Susp
  <2>4. expr_multiplicative \in Seq(Fr)
    BY CallsOK DEF StackOK
  <2>5. q \o (<<f>> \o expr_multiplicative) = Append(q, f) \o expr_multiplicative
    BY <2>3, <2>4, Pushed, SMTT(30)
  <2>6. q \o expr = Append(q, f) \o expr_multiplicative
    BY <2>2, <2>5, Zenon DEF expr, FirstFrame
  <2>7. OnTop(q, f)
    BY <2>1, <2>2 DEF OnTop, Follows
  <2>8. PICK u : /\ Susp(D, lo, hi, Append(q, f), u) /\ Append(q, f) # <<>> /\ Last(Append(q, f)) = f
                 /\ u[Len(Append(q, f)) + 1] = st[Len(q) + 1]
    BY <2>1, <2>2, <2>7, PushPlain
  <2>9. Last(Append(q, f)).at # "rest"
    BY <2>1, <2>2, <2>8
  <2>10. QED
    BY <1>1, <2>6, <2>8, <2>9
<1>4. QED
  BY <1>2, <1>3

LEMMA AddNode ==
  ASSUME NEW D, NEW lo, NEW hi, D \in Seq(Node), Blocks(D, lo, hi),
         NEW q, NEW st, Susp(D, lo, hi, q, st), NEW n \in Node, n.right = NULL,
         \/ n.left = NULL /\ st[Len(q) + 1] = Len(D) + 1
         \/ Block(D, lo, hi, n.left, st[Len(q) + 1])
  PROVE  \E lo2, hi2 :
           /\ Blocks(Append(D, n), lo2, hi2) /\ Susp(Append(D, n), lo2, hi2, q, st)
           /\ Block(Append(D, n), lo2, hi2, Len(Append(D, n)), st[Len(q) + 1])
           /\ Cut(Append(D, n), lo2, hi2, Len(Append(D, n)) + 1)
<1>1. PICK e : e = st[Len(q) + 1]
  OBVIOUS
<1>2. Len(q) + 1 \in 1 .. Len(q) + 1
  <2>1. Len(q) \in Nat
    BY DEF Susp
  <2>2. QED
    BY <2>1
<1>3. Cut(D, lo, hi, e)
  BY <1>1, <1>2 DEF Susp
<1>4. PICK lo2 : lo2 = [m \in 1 .. Len(D) + 1 |-> IF m = Len(D) + 1 THEN e ELSE lo[m]]
  OBVIOUS
<1>5. PICK hi2 : hi2 = [m \in 1 .. Len(D) + 1 |-> IF m = Len(D) + 1 THEN m ELSE hi[m]]
  OBVIOUS
<1>6. PICK E : E = Append(D, n)
  OBVIOUS
<1>7. MayAdd(D, lo, hi, n, e, E, lo2, hi2)
  BY <1>1, <1>3, <1>4, <1>5, <1>6 DEF MayAdd
<1>8. Blocks(E, lo2, hi2) /\ Cut(E, lo2, hi2, Len(E) + 1) /\ Block(E, lo2, hi2, Len(E), e)
  BY <1>7, Added
<1>9. Susp(E, lo2, hi2, q, st)
  BY <1>1, <1>7, AddSusp
<1>10. QED
  BY <1>1, <1>6, <1>8, <1>9

LEMMA JoinNode ==
  ASSUME NEW D, NEW lo, NEW hi, D \in Seq(Node), NEW x, NEW st, NEW r, NEW nx,
         Blocks(D, lo, hi), Comes(D, lo, hi, x, st, r, nx), Last(x).at \in {"right", "neg"}
  PROVE  \E hi2, t :
           /\ Blocks([D EXCEPT ![Last(x).dag].right = r], lo, hi2)
           /\ Susp([D EXCEPT ![Last(x).dag].right = r], lo, hi2, Front(x), t)
           /\ Block([D EXCEPT ![Last(x).dag].right = r], lo, hi2, Last(x).dag, t[Len(Front(x)) + 1])
<1>1. x # <<>> /\ Susp(D, lo, hi, x, st) /\ Block(D, lo, hi, r, st[Len(x) + 1])
  BY DEF Comes
<1>2. PICK t : t = Front(st)
  OBVIOUS
<1>3. /\ Susp(D, lo, hi, Front(x), t) /\ Len(Front(x)) + 1 = Len(x)
      /\ Hangs(D, lo, hi, Last(x), t[Len(x)], st[Len(x) + 1])
      /\ Cut(D, lo, hi, st[Len(x) + 1]) /\ Cut(D, lo, hi, t[Len(x)])
  BY <1>1, <1>2, SuspPop
<1>4. PICK d : d = Last(x).dag
  OBVIOUS
<1>5. /\ d \in 1 .. Len(D) /\ lo[d] = t[Len(x)] /\ hi[d] = d /\ st[Len(x) + 1] = d + 1
  BY <1>3, <1>4 DEF Hangs
<1>6. PICK E : E = [D EXCEPT ![d].right = r]
  OBVIOUS
<1>7. PICK hi2 : hi2 = [m \in 1 .. Len(D) |-> IF m = d THEN Len(D) ELSE hi[m]]
  OBVIOUS
<1>8. MayJoin(D, lo, hi, d, r, E, hi2)
  BY <1>1, <1>3, <1>5, <1>6, <1>7 DEF MayJoin
<1>9. Blocks(E, lo, hi2) /\ Block(E, lo, hi2, d, lo[d])
  BY <1>8, Joined
<1>10. Susp(E, lo, hi2, Front(x), t)
  <2>1. t[Len(Front(x)) + 1] = lo[d]
    BY <1>3, <1>5
  <2>2. QED
    BY <1>3, <1>8, <2>1, JoinSusp
<1>11. QED
  BY <1>3, <1>4, <1>5, <1>6, <1>9, <1>10

(* A frame that waits for the right operand of the newest node.              *)
LEMMA PushHung ==
  ASSUME NEW D, NEW lo, NEW hi, Blocks(D, lo, hi), Len(D) \in Nat,
         NEW q, NEW st, Susp(D, lo, hi, q, st), Block(D, lo, hi, Len(D), st[Len(q) + 1]),
         Cut(D, lo, hi, Len(D) + 1), NEW f, OnTop(q, f), f.at \in {"right", "neg"}, f.dag = Len(D)
  PROVE  \E t : /\ Susp(D, lo, hi, Append(q, f), t) /\ Append(q, f) # <<>> /\ Last(Append(q, f)) = f
                /\ t[Len(Append(q, f)) + 1] = Len(D) + 1
<1>1. PICK e : e = Len(D) + 1
  OBVIOUS
<1>2. q \in Seq(Fr) /\ st \in Seq(Nat) /\ Len(st) = Len(q) + 1 /\ Len(q) \in Nat /\ f \in Fr
  BY DEF Susp, OnTop
<1>3. e \in Nat /\ Cut(D, lo, hi, e)
  BY <1>1
<1>4. Hangs(D, lo, hi, f, st[Len(q) + 1], e)
  BY <1>1 DEF Hangs, Waiting, Block
<1>5. Susp(D, lo, hi, Append(q, f), Append(st, e))
  BY <1>3, <1>4, SuspPush
<1>6. Append(st, e)[Len(Append(q, f)) + 1] = e
  <2>1. Len(Append(q, f)) = Len(q) + 1
    BY <1>2, AppendIs
  <2>2. Append(st, e)[Len(st) + 1] = e
    BY <1>2, <1>3, AppendIs
  <2>3. QED
    BY <1>2, <2>1, <2>2
<1>7. Append(q, f) # <<>> /\ Last(Append(q, f)) = f
  BY <1>2, AppendIs
<1>8. QED
  BY <1>1, <1>5, <1>6, <1>7

(* Which state of the parse a step is taken in.                              *)
LEMMA AtActive ==
  ASSUME Descent, NEW place \in {"unary", "primary", "loop"}, At(place)
  PROVE  GoesOn(nodes, stk, next)
<1>1. top.at \notin Waiting /\ top = Last(stk)
  BY DEF At, top, Waiting
<1>2. ~Fails(stk)
  <2>1. SUFFICES ASSUME Fails(stk) PROVE FALSE
    OBVIOUS
  <2>2. stk \in Seq(Fr) /\ stk # <<>>
    BY <2>1 DEF Fails
  <2>3. Last(stk) = stk[Len(stk)] /\ Len(stk) \in Nat /\ Len(stk) >= 1
    BY <2>2, FrontIs
  <2>4. Len(stk) \in 1 .. Len(stk)
    BY <2>3
  <2>5. QED
    BY <1>1, <2>1, <2>3, <2>4 DEF Fails
<1>3. ~ComesBack(nodes, stk, ret, next)
  <2>1. SUFFICES ASSUME NEW lo, NEW hi, NEW st, Comes(nodes, lo, hi, stk, st, ret, next) PROVE FALSE
    BY DEF ComesBack
  <2>2. Fails(stk)
    BY <2>1, SuspFails DEF Comes
  <2>3. QED
    BY <1>2, <2>2
<1>4. QED
  BY <1>2, <1>3 DEF Descent

LEMMA GoesIs ==
  ASSUME NEW D, NEW lo, NEW hi, NEW x, NEW q, NEW st, NEW f, NEW nx, Goes(D, lo, hi, x, q, st, f, nx)
  PROVE  /\ x = Append(q, f) /\ Front(x) = q /\ Last(x) = f /\ x # <<>>
         /\ q \in Seq(Fr) /\ f \in Fr /\ q # <<>> /\ OnTop(q, f) /\ Susp(D, lo, hi, q, st)
         /\ Active(D, lo, hi, f, st[Len(q) + 1], nx) /\ Fails(q)
<1>1. /\ x = Append(q, f) /\ q \in Seq(Fr) /\ f \in Fr /\ q # <<>> /\ OnTop(q, f) /\ Susp(D, lo, hi, q, st)
      /\ Active(D, lo, hi, f, st[Len(q) + 1], nx)
  BY DEF Goes, Susp, OnTop
<1>2. Front(x) = q /\ Last(x) = f /\ x # <<>>
  BY <1>1, AppendIs
<1>3. Fails(q)
  BY <1>1, SuspFails
<1>4. QED
  BY <1>1, <1>2, <1>3

LEMMA AtWaiting ==
  ASSUME Descent, NEW place \in Waiting, At(place)
  PROVE  /\ stk # <<>> /\ top = Last(stk) /\ Last(stk).at = place
         /\ \/ ret # NULL /\ ComesBack(nodes, stk, ret, next)
            \/ ret = NULL /\ Fails(stk)
<1>1. Last(stk).at \in Waiting /\ top = Last(stk) /\ Last(stk).at = place
  BY DEF At, top
<1>2. ~GoesOn(nodes, stk, next)
  <2>1. SUFFICES ASSUME NEW lo, NEW hi, NEW q, NEW st, NEW f, Goes(nodes, lo, hi, stk, q, st, f, next) PROVE FALSE
    BY DEF GoesOn
  <2>2. Last(stk) = f /\ Active(nodes, lo, hi, f, st[Len(q) + 1], next)
    BY <2>1, GoesIs
  <2>3. QED
    BY <1>1, <2>2 DEF Active, Waiting
<1>3. ComesBack(nodes, stk, ret, next) => ret # NULL /\ stk # <<>>
  BY DEF ComesBack, Comes, Block, NULL
<1>4. Fails(stk) => stk # <<>>
  BY DEF Fails
<1>5. QED
  BY <1>1, <1>2, <1>3, <1>4 DEF Descent

LEMMA FailStep ==
  ASSUME Fails(stk'), ret' = NULL
  PROVE  Descent'
BY DEF Descent, Fails

-----------------------------------------------------------------------------
(***************************************************************************)
(* The steps of the descent.                                               *)
(***************************************************************************)
LEMMA NoRest ==
  ASSUME NEW q, NEW f, OnTop(q, f), q # <<>>, f.at \notin {"right", "rest", "loop"}
  PROVE  Last(q).at # "rest"
BY DEF OnTop, Follows

LEMMA NodesAre == Typed => nodes \in Seq(Node) /\ Len(nodes) \in Nat /\ stk \in Seq(Fr)
BY DEF Typed, NodesOK, StackOK

LEMMA PrimarySteps ==
  ASSUME Typed, Descent, Primary
  PROVE  Descent'
<1>1. GoesOn(nodes, stk, next)
  BY AtActive DEF Primary
<1>2. PICK lo, hi, q, st, f : Blocks(nodes, lo, hi) /\ Goes(nodes, lo, hi, stk, q, st, f, next)
  BY <1>1 DEF GoesOn
<1>3. /\ Front(stk) = q /\ Last(stk) = f /\ q \in Seq(Fr) /\ q # <<>> /\ OnTop(q, f)
      /\ Susp(nodes, lo, hi, q, st) /\ Active(nodes, lo, hi, f, st[Len(q) + 1], next) /\ Fails(q)
  BY <1>2, GoesIs
<1>4. f.at = "primary"
  BY <1>3 DEF Primary, At, top
<1>5. st[Len(q) + 1] = Len(nodes) + 1 /\ Last(q).at # "rest"
  BY <1>3, <1>4, NoRest DEF Active
<1>6. nodes \in Seq(Node) /\ Len(nodes) \in Nat
  BY NodesAre
<1>7. CASE MKDFails \/ Return(NULL)
  <2>1. stk' = q /\ ret' = NULL
    BY <1>3, <1>7 DEF MKDFails, Return
  <2>2. QED
    BY <1>3, <2>1, FailStep
<1>8. CASE MKD("VAL", i + 1, NULL) /\ Return(New)
  <2>1. i + 1 \in Nat /\ "VAL" \in Ops /\ NULL \in 0 .. Len(nodes)
    BY ForwardTyped DEF Ops
  <2>2. PICK n \in Node : n.left = NULL /\ n.right = NULL /\ nodes' = Append(nodes, n)
    BY <1>8, <2>1, MkdTyped
  <2>3. PICK lo2, hi2 :
           /\ Blocks(nodes', lo2, hi2) /\ Susp(nodes', lo2, hi2, q, st)
           /\ Block(nodes', lo2, hi2, Len(nodes'), st[Len(q) + 1])
    BY <1>2, <1>3, <1>5, <1>6, <2>2, AddNode
  <2>4. stk' = q /\ ret' = Len(nodes')
    BY <1>3, <1>6, <1>8, <2>2 DEF Return, New
  <2>5. Comes(nodes', lo2, hi2, stk', st, ret', next')
    BY <1>3, <1>5, <2>3, <2>4 DEF Comes
  <2>6. QED
    BY <2>3, <2>5 DEF Descent, ComesBack
<1>9. CASE Become(<<ParenFrame>> \o expr) /\ nodes' = nodes
  <2>1. ParenFrame \in Fr /\ ParenFrame.at = "paren"
    BY FramesAre
  <2>2. PICK g \in Fr : g = ParenFrame
    BY <2>1
  <2>3. OnTop(q, g)
    BY <1>3, <1>5, <2>1, <2>2 DEF OnTop, Follows
  <2>4. PICK t : /\ Susp(nodes, lo, hi, Append(q, g), t) /\ Append(q, g) # <<>> /\ Last(Append(q, g)) = g
                 /\ t[Len(Append(q, g)) + 1] = st[Len(q) + 1]
    BY <1>2, <1>3, <1>6, <2>1, <2>2, <2>3, PushPlain
  <2>5. GoesOn(nodes, Append(q, g) \o expr, next')
    <3>1. Last(Append(q, g)).at # "rest" /\ t[Len(Append(q, g)) + 1] = Len(nodes) + 1
      BY <1>5, <2>1, <2>2, <2>4
    <3>2. QED
      BY <1>2, <1>6, <2>4, <3>1, CallsMore
  <2>6. stk' = Append(q, g) \o expr
    <3>1. expr \in Seq(Fr)
      BY <1>6, CallsOK DEF StackOK
    <3>2. q \o (<<g>> \o expr) = Append(q, g) \o expr
      BY <1>3, <3>1, Pushed
    <3>3. stk' = q \o (<<g>> \o expr)
      BY <1>3, <1>9, <2>2, Zenon DEF Become
    <3>4. QED
      BY <3>2, <3>3
  <2>7. QED
    BY <1>9, <2>5, <2>6 DEF Descent
<1>10. QED
  BY <1>7, <1>8, <1>9 DEF Primary, ParenFrame

LEMMA UnarySteps ==
  ASSUME Typed, Descent, Unary
  PROVE  Descent'
<1>1. GoesOn(nodes, stk, next)
  BY AtActive DEF Unary
<1>2. PICK lo, hi, q, st, f : Blocks(nodes, lo, hi) /\ Goes(nodes, lo, hi, stk, q, st, f, next)
  BY <1>1 DEF GoesOn
<1>3. /\ Front(stk) = q /\ Last(stk) = f /\ q \in Seq(Fr) /\ q # <<>> /\ OnTop(q, f)
      /\ Susp(nodes, lo, hi, q, st) /\ Active(nodes, lo, hi, f, st[Len(q) + 1], next) /\ Fails(q)
  BY <1>2, GoesIs
<1>4. f.at = "unary"
  BY <1>3 DEF Unary, At, top
<1>5. st[Len(q) + 1] = Len(nodes) + 1 /\ Last(q).at # "rest"
  BY <1>3, <1>4, NoRest DEF Active
<1>6. nodes \in Seq(Node) /\ Len(nodes) \in Nat
  BY NodesAre
<1>7. CASE MKDFails
  <2>1. stk' = q /\ ret' = NULL
    BY <1>3, <1>7 DEF MKDFails, Return
  <2>2. QED
    BY <1>3, <2>1, FailStep
<1>8. CASE MKD("NEG", NULL, NULL) /\ Become(<<NegFrame(New)>> \o expr_unary)
  <2>1. NULL \in Nat /\ "NEG" \in Ops /\ NULL \in 0 .. Len(nodes)
    BY ForwardTyped DEF Ops, NULL
  <2>2. PICK n \in Node : n.left = NULL /\ n.right = NULL /\ nodes' = Append(nodes, n)
    BY <1>8, <2>1, MkdTyped
  <2>3. PICK lo2, hi2 :
           /\ Blocks(nodes', lo2, hi2) /\ Susp(nodes', lo2, hi2, q, st)
           /\ Block(nodes', lo2, hi2, Len(nodes'), st[Len(q) + 1])
           /\ Cut(nodes', lo2, hi2, Len(nodes') + 1)
    BY <1>2, <1>3, <1>5, <1>6, <2>2, AddNode
  <2>4. Len(nodes') = New /\ New \in Nat /\ Len(nodes') \in Nat
    BY <1>6, <2>2 DEF New
  <2>5. NegFrame(New) \in Fr /\ NegFrame(New).at = "neg" /\ NegFrame(New).dag = New
    BY <2>4, FramesAre
  <2>6. PICK g \in Fr : g = NegFrame(New)
    BY <2>5
  <2>7. OnTop(q, g)
    BY <1>3, <1>5, <2>5, <2>6 DEF OnTop, Follows
  <2>8. PICK t : /\ Susp(nodes', lo2, hi2, Append(q, g), t) /\ Append(q, g) # <<>> /\ Last(Append(q, g)) = g
                 /\ t[Len(Append(q, g)) + 1] = Len(nodes') + 1
    <3>1. g.at \in {"right", "neg"} /\ g.dag = Len(nodes')
      BY <2>4, <2>5, <2>6
    <3>2. QED
      BY <2>3, <2>4, <2>7, <3>1, PushHung
  <2>9. GoesOn(nodes', Append(q, g) \o expr_unary, next')
    <3>1. Last(Append(q, g)).at # "rest"
      BY <2>5, <2>6, <2>8
    <3>2. QED
      BY <2>3, <2>4, <2>8, <3>1, CallsUnary
  <2>10. stk' = Append(q, g) \o expr_unary
    <3>1. expr_unary \in Seq(Fr)
      BY <1>6, CallsOK DEF StackOK
    <3>2. q \o (<<g>> \o expr_unary) = Append(q, g) \o expr_unary
      BY <1>3, <3>1, Pushed
    <3>3. stk' = q \o (<<g>> \o expr_unary)
      BY <1>3, <1>8, <2>6, Zenon DEF Become
    <3>4. QED
      BY <3>2, <3>3
  <2>11. QED
    BY <2>9, <2>10 DEF Descent
<1>9. CASE Become(<<PlusFrame>> \o expr_unary) /\ nodes' = nodes
  <2>1. PlusFrame \in Fr /\ PlusFrame.at = "plus"
    BY FramesAre
  <2>2. PICK g \in Fr : g = PlusFrame
    BY <2>1
  <2>3. OnTop(q, g)
    BY <1>3, <1>5, <2>1, <2>2 DEF OnTop, Follows
  <2>4. PICK t : /\ Susp(nodes, lo, hi, Append(q, g), t) /\ Append(q, g) # <<>> /\ Last(Append(q, g)) = g
                 /\ t[Len(Append(q, g)) + 1] = st[Len(q) + 1]
    BY <1>2, <1>3, <1>6, <2>1, <2>2, <2>3, PushPlain
  <2>5. GoesOn(nodes, Append(q, g) \o expr_unary, next')
    <3>1. Last(Append(q, g)).at # "rest" /\ t[Len(Append(q, g)) + 1] = Len(nodes) + 1
      BY <1>5, <2>1, <2>2, <2>4
    <3>2. QED
      BY <1>2, <1>6, <2>4, <3>1, CallsUnary
  <2>6. stk' = Append(q, g) \o expr_unary
    <3>1. expr_unary \in Seq(Fr)
      BY <1>6, CallsOK DEF StackOK
    <3>2. q \o (<<g>> \o expr_unary) = Append(q, g) \o expr_unary
      BY <1>3, <3>1, Pushed
    <3>3. stk' = q \o (<<g>> \o expr_unary)
      BY <1>3, <1>9, <2>2, Zenon DEF Become
    <3>4. QED
      BY <3>2, <3>3
  <2>7. QED
    BY <1>9, <2>5, <2>6 DEF Descent
<1>10. CASE Become(<<PrimaryFrame>>) /\ nodes' = nodes
  <2>1. PrimaryFrame \in Fr /\ PrimaryFrame.at = "primary"
    BY FramesAre
  <2>2. PICK g \in Fr : g = PrimaryFrame
    BY <2>1
  <2>3. OnTop(q, g)
    BY <1>3, <1>5, <2>1, <2>2 DEF OnTop, Follows
  <2>4. stk' = Append(q, g)
    <3>1. q \o <<g>> = Append(q, g)
      BY <1>3, AppendIs
    <3>2. stk' = q \o <<g>>
      BY <1>3, <1>10, <2>2, Zenon DEF Become
    <3>3. QED
      BY <3>1, <3>2
  <2>5. Goes(nodes', lo, hi, stk', q, st, g, next')
    BY <1>3, <1>5, <1>10, <2>1, <2>2, <2>3, <2>4 DEF Goes, Active
  <2>6. QED
    BY <1>2, <1>10, <2>5 DEF Descent, GoesOn
<1>11. QED
  BY <1>7, <1>8, <1>9, <1>10 DEF Unary, PlusFrame, NegFrame, PrimaryFrame

LEMMA NextKept == UNCHANGED <<i, tokens>> => next' = next
BY DEF next

LEMMA PlacesAre == {"loop", "right", "rest"} \subseteq Places /\ \A f \in Fr : f.level \in LevelNames /\ f.left \in Nat /\ f.dag \in Nat
BY DEF Places, Waiting, Fr

LEMMA LoopSteps ==
  ASSUME Typed, Descent, Loop
  PROVE  Descent'
<1>1. GoesOn(nodes, stk, next)
  BY AtActive DEF Loop
<1>2. PICK lo, hi, q, st, f : Blocks(nodes, lo, hi) /\ Goes(nodes, lo, hi, stk, q, st, f, next)
  BY <1>1 DEF GoesOn
<1>3. /\ Front(stk) = q /\ Last(stk) = f /\ q \in Seq(Fr) /\ f \in Fr /\ q # <<>> /\ OnTop(q, f)
      /\ Susp(nodes, lo, hi, q, st) /\ Active(nodes, lo, hi, f, st[Len(q) + 1], next) /\ Fails(q) /\ stk # <<>>
  BY <1>2, GoesIs
<1>4. top = f /\ f.at = "loop"
  BY <1>3 DEF Loop, At, top
<1>5. Block(nodes, lo, hi, f.dag, st[Len(q) + 1]) /\ (f.left = f.dag \/ next \notin Operators(f.level))
  BY <1>3, <1>4 DEF Active
<1>6. nodes \in Seq(Node) /\ Len(nodes) \in Nat
  BY NodesAre
<1>7. CASE MKDFails
  <2>1. stk' = q /\ ret' = NULL
    BY <1>3, <1>7 DEF MKDFails, Return
  <2>2. QED
    BY <1>3, <2>1, FailStep
<1>8. CASE /\ next \in Operators(top.level) /\ MKD(OpOf[next], NULL, top.left)
           /\ Become(<<Frame("right", top.level, top.left, New)>> \o Operand(top.level))
  <2>1. OpOf[next] \in Ops /\ NULL \in Nat /\ f.left = f.dag /\ f.left \in 0 .. Len(nodes)
    <3>1. f.left = f.dag
      BY <1>4, <1>5, <1>8
    <3>2. f.left \in 0 .. Len(nodes)
      BY <1>3, <1>4, TopOK DEF FrameOK
    <3>3. QED
      BY <1>8, <3>1, <3>2, OpIs DEF NULL
  <2>2. PICK n \in Node : n.left = f.left /\ n.right = NULL /\ nodes' = Append(nodes, n)
    BY <1>4, <1>8, <2>1, MkdTyped
  <2>3. PICK lo2, hi2 :
           /\ Blocks(nodes', lo2, hi2) /\ Susp(nodes', lo2, hi2, q, st)
           /\ Block(nodes', lo2, hi2, Len(nodes'), st[Len(q) + 1])
           /\ Cut(nodes', lo2, hi2, Len(nodes') + 1)
    BY <1>2, <1>3, <1>5, <1>6, <2>1, <2>2, AddNode
  <2>4. Len(nodes') = New /\ New \in Nat /\ Len(nodes') \in Nat /\ f.left \in Nat
    BY <1>6, <2>1, <2>2 DEF New
  <2>5. PICK g : g = Frame("right", f.level, f.left, New)
    OBVIOUS
  <2>6. g \in Fr /\ g.at = "right" /\ g.level = f.level /\ g.dag = New
    BY <1>3, <2>4, <2>5, PlacesAre DEF Frame, Fr
  <2>7. OnTop(q, g)
    BY <1>3, <1>4, <2>6 DEF OnTop, Follows
  <2>8. PICK t : /\ Susp(nodes', lo2, hi2, Append(q, g), t) /\ Append(q, g) # <<>> /\ Last(Append(q, g)) = g
                 /\ t[Len(Append(q, g)) + 1] = Len(nodes') + 1
    <3>1. g.at \in {"right", "neg"} /\ g.dag = Len(nodes')
      BY <2>4, <2>6
    <3>2. QED
      BY <2>3, <2>4, <2>7, <3>1, PushHung
  <2>9. GoesOn(nodes', Append(q, g) \o Operand(f.level), next')
    <3>1. Last(Append(q, g)).at # "rest"
      BY <2>6, <2>8
    <3>2. GoesOn(nodes', Append(q, g) \o expr_unary, next')
      BY <2>3, <2>4, <2>8, <3>1, CallsUnary
    <3>3. GoesOn(nodes', Append(q, g) \o expr_multiplicative, next')
      BY <2>3, <2>4, <2>8, <3>1, CallsMore
    <3>4. QED
      BY <3>2, <3>3 DEF Operand
  <2>10. stk' = Append(q, g) \o Operand(f.level)
    <3>1. Operand(f.level) \in Seq(Fr)
      BY <1>6, CallsOK DEF StackOK
    <3>2. q \o (<<g>> \o Operand(f.level)) = Append(q, g) \o Operand(f.level)
      BY <1>3, <2>6, <3>1, Pushed
    <3>3. stk' = q \o (<<g>> \o Operand(f.level))
      BY <1>3, <1>4, <1>8, <2>5, Zenon DEF Become
    <3>4. QED
      BY <3>2, <3>3
  <2>11. QED
    BY <2>9, <2>10 DEF Descent
<1>9. CASE next \notin Operators(top.level) /\ Return(top.dag) /\ UNCHANGED <<i, nodes, tokens>>
  <2>1. stk' = q /\ ret' = f.dag /\ nodes' = nodes /\ next' = next
    BY <1>3, <1>4, <1>9, NextKept DEF Return
  <2>2. Last(q).at = "rest" => Last(q).level = f.level
    BY <1>3 DEF OnTop, Follows
  <2>3. Comes(nodes', lo, hi, stk', st, ret', next')
    BY <1>3, <1>4, <1>5, <1>9, <2>1, <2>2 DEF Comes
  <2>4. QED
    BY <1>2, <2>1, <2>3 DEF Descent, ComesBack
<1>10. tokens' = tokens
  BY LexedIs DEF Loop
<1>11. QED
  BY <1>7, <1>8, <1>9, <1>10 DEF Loop

(* A call that waits returns nothing.                                        *)
LEMMA NothingReturned ==
  ASSUME Descent, NEW place \in Waiting, At(place), place # "top", Return(NULL)
  PROVE  Descent'
<1>1. Fails(stk) /\ Last(stk).at # "top"
  <2>1. ASSUME NEW lo, NEW hi, NEW st, Comes(nodes, lo, hi, stk, st, ret, next) PROVE Fails(stk)
    BY <2>1, SuspFails DEF Comes
  <2>2. QED
    BY <2>1, AtWaiting DEF ComesBack
<1>2. Fails(Front(stk))
  BY <1>1, FailsOn
<1>3. QED
  BY <1>2, FailStep DEF Return

(* The call on top of the stack gets a tree.                                 *)
LEMMA Popped ==
  ASSUME NEW D, NEW lo, NEW hi, NEW x, NEW st, NEW r, NEW nx, Comes(D, lo, hi, x, st, r, nx), Last(x).at # "top"
  PROVE  /\ Front(x) # <<>> /\ OnTop(Front(x), Last(x)) /\ Last(x) \in Fr /\ Front(x) \in Seq(Fr)
         /\ Susp(D, lo, hi, Front(x), Front(st))
         /\ Last(x).at \notin {"right", "neg"} => Block(D, lo, hi, r, Front(st)[Len(Front(x)) + 1])
<1>1. x # <<>> /\ Susp(D, lo, hi, x, st) /\ Block(D, lo, hi, r, st[Len(x) + 1])
  BY DEF Comes
<1>2. /\ Susp(D, lo, hi, Front(x), Front(st)) /\ Len(Front(x)) + 1 = Len(x) /\ Front(x) \in Seq(Fr)
      /\ Hangs(D, lo, hi, Last(x), Front(st)[Len(x)], st[Len(x) + 1])
      /\ OnTop(Front(x), Last(x))
  BY <1>1, SuspPop
<1>3. Front(x) # <<>> /\ Last(x) \in Fr
  BY <1>2 DEF OnTop
<1>4. Last(x).at \notin {"right", "neg"} => Block(D, lo, hi, r, Front(st)[Len(Front(x)) + 1])
  BY <1>1, <1>2 DEF Hangs
<1>5. QED
  BY <1>2, <1>3, <1>4

(* The tree is handed on as it is, or with the node of its sign.             *)
LEMMA HandedOn ==
  ASSUME NEW lo, NEW hi, NEW t, Blocks(nodes', lo, hi), Susp(nodes', lo, hi, Front(stk), t),
         OnTop(Front(stk), Last(stk)), Front(stk) # <<>>, Last(stk).at \notin {"right", "rest", "loop"},
         NEW d, Block(nodes', lo, hi, d, t[Len(Front(stk)) + 1]), Return(d)
  PROVE  Descent'
<1>1. Last(Front(stk)).at # "rest"
  BY NoRest
<1>2. stk' = Front(stk) /\ ret' = d
  BY DEF Return
<1>3. Comes(nodes', lo, hi, stk', t, ret', next')
  BY <1>1, <1>2 DEF Comes
<1>4. QED
  BY <1>3 DEF Descent, ComesBack

LEMMA ParenPlusSteps ==
  ASSUME Typed, Descent, Paren \/ Plus
  PROVE  Descent'
<1>1. PICK place \in {"paren", "plus"} : At(place)
  BY DEF Paren, Plus
<1>2. nodes' = nodes /\ (Return(NULL) \/ Return(ret))
  BY DEF Paren, Plus
<1>3. CASE Return(NULL)
  BY <1>1, <1>3, NothingReturned DEF Waiting
<1>4. CASE Return(ret) /\ ret # NULL
  <2>1. ComesBack(nodes, stk, ret, next) /\ Last(stk).at = place
    BY <1>1, <1>4, AtWaiting DEF Waiting
  <2>2. PICK lo, hi, st : Blocks(nodes, lo, hi) /\ Comes(nodes, lo, hi, stk, st, ret, next)
    BY <2>1 DEF ComesBack
  <2>3. /\ Front(stk) # <<>> /\ OnTop(Front(stk), Last(stk))
        /\ Susp(nodes, lo, hi, Front(stk), Front(st))
        /\ Block(nodes, lo, hi, ret, Front(st)[Len(Front(stk)) + 1])
    BY <2>1, <2>2, Popped
  <2>4. QED
    BY <1>2, <1>4, <2>1, <2>2, <2>3, HandedOn
<1>5. QED
  BY <1>2, <1>3, <1>4

LEMMA NegSteps ==
  ASSUME Typed, Descent, Neg
  PROVE  Descent'
<1>1. At("neg") /\ "neg" \in Waiting /\ "neg" # "top"
  BY DEF Neg, Waiting
<1>2. CASE ret = NULL
  <2>1. Return(NULL)
    BY <1>2 DEF Neg
  <2>2. QED
    BY <1>1, <2>1, NothingReturned
<1>3. CASE ret # NULL
  <2>1. Return(top.dag) /\ nodes' = [nodes EXCEPT ![top.dag].right = ret]
    BY <1>3 DEF Neg, SetRight
  <2>2. ComesBack(nodes, stk, ret, next) /\ Last(stk).at = "neg" /\ top = Last(stk)
    BY <1>1, <1>3, AtWaiting
  <2>3. PICK lo, hi, st : Blocks(nodes, lo, hi) /\ Comes(nodes, lo, hi, stk, st, ret, next)
    BY <2>2 DEF ComesBack
  <2>4. Front(stk) # <<>> /\ OnTop(Front(stk), Last(stk))
    BY <2>2, <2>3, Popped
  <2>5. nodes' = [nodes EXCEPT ![Last(stk).dag].right = ret]
    BY <2>1, <2>2
  <2>6. PICK hi2, t : /\ Blocks(nodes', lo, hi2) /\ Susp(nodes', lo, hi2, Front(stk), t)
                      /\ Block(nodes', lo, hi2, Last(stk).dag, t[Len(Front(stk)) + 1])
    BY <2>2, <2>3, <2>5, NodesAre, JoinNode
  <2>7. QED
    BY <2>1, <2>2, <2>4, <2>6, HandedOn
<1>4. QED
  BY <1>2, <1>3

(* The loop begins, or goes on, with the tree of its left operand.           *)
LEMMA LoopEntered ==
  ASSUME NEW lo, NEW hi, NEW q, NEW t, NEW h, Blocks(nodes', lo, hi), Susp(nodes', lo, hi, q, t),
         OnTop(q, h), q # <<>>, h.at = "loop", Block(nodes', lo, hi, h.dag, t[Len(q) + 1]),
         h.left = h.dag \/ next' \notin Operators(h.level), stk' = q \o <<h>>
  PROVE  Descent'
<1>1. stk' = Append(q, h)
  BY AppendIs DEF Susp, OnTop
<1>2. Goes(nodes', lo, hi, stk', q, t, h, next')
  BY <1>1 DEF Goes, Active
<1>3. QED
  BY <1>2 DEF Descent, GoesOn

LEMMA FirstSteps ==
  ASSUME Typed, Descent, First
  PROVE  Descent'
<1>1. At("first") /\ "first" \in Waiting /\ "first" # "top"
  BY DEF First, Waiting
<1>2. CASE ret = NULL
  <2>1. Return(NULL)
    BY <1>2 DEF First
  <2>2. QED
    BY <1>1, <2>1, NothingReturned
<1>3. CASE ret # NULL
  <2>1. Become(Rest(top.level, ret)) /\ nodes' = nodes
    BY <1>3 DEF First
  <2>2. ComesBack(nodes, stk, ret, next) /\ Last(stk).at = "first" /\ top = Last(stk)
    BY <1>1, <1>3, AtWaiting
  <2>3. PICK lo, hi, st : Blocks(nodes, lo, hi) /\ Comes(nodes, lo, hi, stk, st, ret, next)
    BY <2>2 DEF ComesBack
  <2>4. /\ Front(stk) # <<>> /\ OnTop(Front(stk), Last(stk)) /\ Last(stk) \in Fr
        /\ Susp(nodes, lo, hi, Front(stk), Front(st))
        /\ Block(nodes, lo, hi, ret, Front(st)[Len(Front(stk)) + 1])
    BY <2>2, <2>3, Popped
  <2>5. PICK h : h = Frame("loop", Last(stk).level, ret, ret)
    OBVIOUS
  <2>6. ret \in Nat
    BY NodesAre DEF Typed
  <2>7. h \in Fr /\ h.at = "loop" /\ h.left = ret /\ h.dag = ret
    BY <2>4, <2>5, <2>6, PlacesAre DEF Frame, Fr
  <2>8. Last(Front(stk)).at # "rest"
    BY <2>2, <2>4, NoRest
  <2>9. OnTop(Front(stk), h)
    BY <2>4, <2>7, <2>8 DEF OnTop, Follows
  <2>10. stk' = Front(stk) \o <<h>>
    BY <2>1, <2>2, <2>5, Zenon DEF Become, Rest
  <2>11. QED
    BY <2>1, <2>3, <2>4, <2>7, <2>9, <2>10, LoopEntered
<1>4. QED
  BY <1>2, <1>3

LEMMA AfterRestSteps ==
  ASSUME Typed, Descent, AfterRest
  PROVE  Descent'
<1>1. At("rest") /\ "rest" \in Waiting /\ "rest" # "top"
  BY DEF AfterRest, Waiting
<1>2. CASE ret = NULL
  <2>1. Return(NULL)
    BY <1>2 DEF AfterRest
  <2>2. QED
    BY <1>1, <2>1, NothingReturned
<1>3. CASE ret # NULL
  <2>1. Become(<<Frame("loop", top.level, top.left, ret)>>) /\ nodes' = nodes /\ i' = i
    BY <1>3 DEF AfterRest
  <2>2. ComesBack(nodes, stk, ret, next) /\ Last(stk).at = "rest" /\ top = Last(stk)
    BY <1>1, <1>3, AtWaiting
  <2>3. PICK lo, hi, st : Blocks(nodes, lo, hi) /\ Comes(nodes, lo, hi, stk, st, ret, next)
    BY <2>2 DEF ComesBack
  <2>4. /\ Front(stk) # <<>> /\ OnTop(Front(stk), Last(stk)) /\ Last(stk) \in Fr
        /\ Susp(nodes, lo, hi, Front(stk), Front(st))
        /\ Block(nodes, lo, hi, ret, Front(st)[Len(Front(stk)) + 1])
    BY <2>2, <2>3, Popped
  <2>5. PICK h : h = Frame("loop", Last(stk).level, Last(stk).left, ret)
    OBVIOUS
  <2>6. ret \in Nat /\ Last(stk).left \in Nat
    BY <2>4, NodesAre DEF Typed, Fr
  <2>7. h \in Fr /\ h.at = "loop" /\ h.level = Last(stk).level /\ h.dag = ret
    BY <2>4, <2>5, <2>6, PlacesAre DEF Frame, Fr
  <2>8. next' \notin Operators(h.level)
    <3>1. next' = next
      BY <2>1, LexedIs, NextKept DEF AfterRest
    <3>2. QED
      BY <2>2, <2>3, <2>7, <3>1 DEF Comes
  <2>9. OnTop(Front(stk), h)
    BY <2>2, <2>4, <2>7 DEF OnTop, Follows
  <2>10. stk' = Front(stk) \o <<h>>
    BY <2>1, <2>2, <2>5, Zenon DEF Become
  <2>11. QED
    BY <2>1, <2>3, <2>4, <2>7, <2>8, <2>9, <2>10, LoopEntered
<1>4. QED
  BY <1>2, <1>3

LEMMA RightSteps ==
  ASSUME Typed, Descent, Right
  PROVE  Descent'
<1>1. At("right") /\ "right" \in Waiting /\ "right" # "top"
  BY DEF Right, Waiting
<1>2. CASE ret = NULL
  <2>1. Return(NULL)
    BY <1>2 DEF Right
  <2>2. QED
    BY <1>1, <2>1, NothingReturned
<1>3. CASE ret # NULL
  <2>1. /\ Become(<<Frame("rest", top.level, top.left, NULL)>> \o Rest(top.level, top.dag))
        /\ nodes' = [nodes EXCEPT ![top.dag].right = ret]
    BY <1>3 DEF Right, SetRight
  <2>2. ComesBack(nodes, stk, ret, next) /\ Last(stk).at = "right" /\ top = Last(stk) /\ stk # <<>>
    BY <1>1, <1>3, AtWaiting
  <2>3. PICK lo, hi, st : Blocks(nodes, lo, hi) /\ Comes(nodes, lo, hi, stk, st, ret, next)
    BY <2>2 DEF ComesBack
  <2>4. PICK f, q : f = Last(stk) /\ q = Front(stk)
    OBVIOUS
  <2>5. q # <<>> /\ OnTop(q, f) /\ f \in Fr /\ q \in Seq(Fr)
    BY <2>2, <2>3, <2>4, Popped
  <2>6. nodes' = [nodes EXCEPT ![Last(stk).dag].right = ret]
    BY <2>1, <2>2
  <2>7. PICK hi2, t : /\ Blocks(nodes', lo, hi2) /\ Susp(nodes', lo, hi2, q, t)
                      /\ Block(nodes', lo, hi2, f.dag, t[Len(q) + 1])
    BY <2>2, <2>3, <2>4, <2>6, NodesAre, JoinNode
  <2>8. PICK g, h : g = Frame("rest", f.level, f.left, NULL) /\ h = Frame("loop", f.level, f.dag, f.dag)
    OBVIOUS
  <2>9. f.left \in Nat /\ f.dag \in Nat /\ NULL \in Nat
    BY <2>5 DEF Fr, NULL
  <2>10. g \in Fr /\ g.at = "rest" /\ g.level = f.level
    BY <2>5, <2>8, <2>9, PlacesAre DEF Frame, Fr
  <2>11. h \in Fr /\ h.at = "loop" /\ h.level = f.level /\ h.left = f.dag /\ h.dag = f.dag
    BY <2>5, <2>8, <2>9, PlacesAre DEF Frame, Fr
  <2>12. OnTop(q, g)
    BY <2>2, <2>4, <2>5, <2>10 DEF OnTop, Follows
  <2>13. Len(nodes') \in Nat
    BY <2>6, NodesAre, NodeSet DEF Typed
  <2>14. PICK u : /\ Susp(nodes', lo, hi2, Append(q, g), u) /\ Append(q, g) # <<>> /\ Last(Append(q, g)) = g
                  /\ u[Len(Append(q, g)) + 1] = t[Len(q) + 1]
    BY <2>5, <2>7, <2>10, <2>12, <2>13, PushPlain
  <2>15. OnTop(Append(q, g), h)
    BY <2>10, <2>11, <2>14 DEF OnTop, Follows
  <2>16. stk' = Append(q, g) \o <<h>>
    <3>1. PICK r \in Seq(Fr) : r = <<h>>
      <4>1. PICK k \in Fr : k = h
        BY <2>11
      <4>2. <<k>> \in Seq(Fr)
        OBVIOUS
      <4>3. QED
        BY <4>1, <4>2
    <3>2. q \o (<<g>> \o r) = Append(q, g) \o r
      BY <2>5, <2>10, Pushed
    <3>3. stk' = q \o (<<g>> \o <<h>>)
      BY <2>1, <2>2, <2>4, <2>8, Zenon DEF Become, Rest
    <3>4. QED
      BY <3>1, <3>2, <3>3
  <2>17. Block(nodes', lo, hi2, h.dag, u[Len(Append(q, g)) + 1])
    BY <2>7, <2>11, <2>14
  <2>18. QED
    BY <2>7, <2>11, <2>14, <2>15, <2>16, <2>17, LoopEntered
<1>4. QED
  BY <1>2, <1>3

-----------------------------------------------------------------------------
(***************************************************************************)
(* The recursion of free_dag: it is defined, for the children of a node    *)
(* have fewer nodes at and below them, and lists each of those once.       *)
(***************************************************************************)
Lists(s, a, b) ==
  /\ s \in Seq(Nat)
  /\ \A k, l \in 1 .. Len(s) : s[k] = s[l] => k = l
  /\ \A k \in 1 .. Len(s) : s[k] \in a .. b
  /\ \A m \in a .. b : \E k \in 1 .. Len(s) : s[k] = m

LEMMA ListsNone ==
  ASSUME NEW a \in Nat
  PROVE  Lists(<<>>, a, a - 1)
BY DEF Lists

LEMMA ListsNode ==
  ASSUME NEW a \in Nat, NEW b \in Nat, NEW n \in Nat, a <= n, n <= b,
         NEW s, NEW t, Lists(s, a, n - 1), Lists(t, n + 1, b)
  PROVE  Lists(s \o t \o <<n>>, a, b)
<1> DEFINE u == s \o t
           v == u \o <<n>>
           S == Len(s)
           T == Len(t)
<1>1. /\ s \in Seq(Nat) /\ t \in Seq(Nat) /\ S \in Nat /\ T \in Nat
      /\ \A k, l \in 1 .. S : s[k] = s[l] => k = l
      /\ \A k \in 1 .. S : s[k] \in a .. n - 1
      /\ \A m \in a .. n - 1 : \E k \in 1 .. S : s[k] = m
      /\ \A k, l \in 1 .. T : t[k] = t[l] => k = l
      /\ \A k \in 1 .. T : t[k] \in n + 1 .. b
      /\ \A m \in n + 1 .. b : \E k \in 1 .. T : t[k] = m
  BY DEF Lists
<1>2. /\ u \in Seq(Nat) /\ Len(u) = S + T
      /\ \A k \in 1 .. S + T : u[k] = IF k <= S THEN s[k] ELSE t[k - S]
  BY <1>1, ConcatProperties
<1>3. /\ v \in Seq(Nat) /\ Len(v) = S + T + 1 /\ v[S + T + 1] = n
      /\ \A k \in 1 .. S + T : v[k] = u[k]
  <2>1. v = Append(u, n)
    BY <1>2, AppendIsConcat
  <2>2. /\ Append(u, n) \in Seq(Nat) /\ Len(Append(u, n)) = Len(u) + 1 /\ Append(u, n)[Len(u) + 1] = n
        /\ \A k \in 1 .. Len(u) : Append(u, n)[k] = u[k]
    BY <1>2, AppendProperties
  <2> HIDE DEF u, v
  <2>3. QED
    BY <1>2, <2>1, <2>2
<1> HIDE DEF u, v, S, T
<1>4. /\ \A k \in 1 .. S : v[k] = s[k]
      /\ \A k \in 1 .. T : v[S + k] = t[k]
  <2>1. ASSUME NEW k \in 1 .. S PROVE v[k] = s[k]
    <3>1. k \in 1 .. S + T /\ k <= S
      BY <1>1
    <3>2. QED
      BY <1>2, <1>3, <3>1
  <2>2. ASSUME NEW k \in 1 .. T PROVE v[S + k] = t[k]
    <3>1. S + k \in 1 .. S + T /\ ~(S + k <= S) /\ (S + k) - S = k
      BY <1>1
    <3>2. QED
      BY <1>2, <1>3, <3>1
  <2>3. QED
    BY <2>1, <2>2
<1>5. ASSUME NEW k \in 1 .. S + T + 1
      PROVE  \/ k \in 1 .. S /\ v[k] \in a .. n - 1
             \/ k - S \in 1 .. T /\ v[k] = t[k - S] /\ v[k] \in n + 1 .. b
             \/ k = S + T + 1 /\ v[k] = n
  <2>1. CASE k <= S
    <3>1. k \in 1 .. S
      BY <1>1, <2>1
    <3>2. QED
      BY <1>1, <1>4, <3>1
  <2>2. CASE k > S /\ k <= S + T
    <3>1. k - S \in 1 .. T /\ S + (k - S) = k
      BY <1>1, <2>2
    <3>2. v[k] = t[k - S]
      BY <1>4, <3>1
    <3>3. QED
      BY <1>1, <3>1, <3>2
  <2>3. CASE k = S + T + 1
    BY <1>3, <2>3
  <2>4. QED
    BY <1>1, <2>1, <2>2, <2>3
<1>6. ASSUME NEW k \in 1 .. S + T + 1, NEW l \in 1 .. S + T + 1, v[k] = v[l] PROVE k = l
  <2>1. CASE k \in 1 .. S /\ l \in 1 .. S
    BY <1>1, <1>4, <1>6, <2>1
  <2>2. CASE k - S \in 1 .. T /\ l - S \in 1 .. T /\ v[k] = t[k - S] /\ v[l] = t[l - S]
    <3>1. k - S = l - S
      BY <1>1, <1>6, <2>2
    <3>2. QED
      BY <1>1, <3>1
  <2>3. CASE k = S + T + 1 /\ l = S + T + 1
    BY <2>3
  <2>4. /\ k \in 1 .. S \/ (k - S \in 1 .. T /\ v[k] = t[k - S]) \/ k = S + T + 1
        /\ l \in 1 .. S \/ (l - S \in 1 .. T /\ v[l] = t[l - S]) \/ l = S + T + 1
    BY <1>5
  <2>5. /\ k \in 1 .. S => v[k] < n
        /\ k - S \in 1 .. T => v[k] > n
        /\ k = S + T + 1 => v[k] = n
        /\ l \in 1 .. S => v[l] < n
        /\ l - S \in 1 .. T => v[l] > n
        /\ l = S + T + 1 => v[l] = n
    <3>1. ASSUME NEW j \in 1 .. S + T + 1
          PROVE  /\ j \in 1 .. S => v[j] < n
                 /\ j - S \in 1 .. T => v[j] > n
                 /\ j = S + T + 1 => v[j] = n
      <4>1. j \in 1 .. S => v[j] < n
        <5>1. j \in 1 .. S => v[j] = s[j] /\ s[j] \in a .. n - 1
          BY <1>1, <1>4
        <5>2. QED
          BY <5>1
      <4>2. j - S \in 1 .. T => v[j] > n
        <5>1. S + (j - S) = j
          BY <1>1
        <5>2. j - S \in 1 .. T => v[j] = t[j - S] /\ t[j - S] \in n + 1 .. b
          BY <1>1, <1>4, <5>1
        <5>3. QED
          BY <5>2
      <4>3. QED
        BY <1>3, <4>1, <4>2
    <3>2. QED
      BY <3>1
  <2>6. v[k] \in Nat /\ v[l] \in Nat
    BY <1>3
  <2>7. QED
    BY <1>6, <2>1, <2>2, <2>3, <2>4, <2>5, <2>6
<1>7. ASSUME NEW k \in 1 .. S + T + 1 PROVE v[k] \in a .. b
  <2>1. v[k] \in a .. n - 1 \/ v[k] \in n + 1 .. b \/ v[k] = n
    BY <1>5
  <2>2. QED
    BY <2>1
<1>8. ASSUME NEW m \in a .. b PROVE \E k \in 1 .. S + T + 1 : v[k] = m
  <2>1. CASE m \in a .. n - 1
    <3>1. PICK k \in 1 .. S : s[k] = m
      BY <1>1, <2>1
    <3>2. k \in 1 .. S + T + 1 /\ v[k] = m
      BY <1>1, <1>4, <3>1
    <3>3. QED
      BY <3>2
  <2>2. CASE m \in n + 1 .. b
    <3>1. PICK k \in 1 .. T : t[k] = m
      BY <1>1, <2>2
    <3>2. S + k \in 1 .. S + T + 1 /\ v[S + k] = m
      BY <1>1, <1>4, <3>1, SMTT(30)
    <3>3. QED
      BY <3>2
  <2>3. CASE m = n
    <3>1. S + T + 1 \in 1 .. S + T + 1
      BY <1>1
    <3>2. QED
      BY <1>3, <2>3, <3>1
  <2>4. QED
    BY <2>1, <2>2, <2>3
<1>9. Lists(v, a, b)
  BY <1>3, <1>6, <1>7, <1>8 DEF Lists
<1>10. QED
  BY <1>9 DEF u, v

NatLess == {a \in Nat \X Nat : a[1] < a[2]}

LEMMA Inductive ==
  ASSUME NEW T, 0 \in T, \A k \in Nat : k \in T => k + 1 \in T
  PROVE  \A k \in Nat : k \in T
<1> DEFINE R == Nat \ T
<1>1. SUFFICES ASSUME R # {} PROVE FALSE
  OBVIOUS
<1>2. IsWellFoundedOn(NatLess, Nat)
  BY NatLessThanWellFounded, Zenon DEF OpToRel, NatLess
<1>3. PICK m \in R : \A k \in R : ~ (<<k, m>> \in NatLess)
  <2>1. R \subseteq Nat
    OBVIOUS
  <2>2. QED
    BY <1>1, <1>2, <2>1, WFMin
<1>4. m \in Nat /\ m # 0 /\ m \notin T
  BY <1>3
<1>5. PICK j \in Nat : m = j + 1
  <2>1. m - 1 \in Nat /\ m = (m - 1) + 1
    BY <1>4
  <2>2. QED
    BY <2>1
<1>6. <<j, m>> \in NatLess
  BY <1>4, <1>5 DEF NatLess
<1>7. j \in T
  BY <1>3, <1>6
<1>8. QED
  BY <1>4, <1>5, <1>7

Listed(D, f, n) == f[D[n].left] \o f[D[n].right] \o <<n>>
Visits(D, f) == f = [n \in 0 .. Len(D) |-> IF n = NULL THEN <<>> ELSE Listed(D, f, n)]

(* The children of a node have fewer nodes at and below them.                *)
LEMMA Smaller ==
  ASSUME NEW D, NEW lo, NEW hi, Len(D) \in Nat, Blocks(D, lo, hi), NEW n \in 1 .. Len(D)
  PROVE  /\ lo[n] \in 1 .. n /\ hi[n] \in n .. Len(D) /\ D[n].left \in 0 .. Len(D) /\ D[n].right \in 0 .. Len(D)
         /\ \A c \in {D[n].left, D[n].right} : c # NULL => c \in 1 .. Len(D) /\ hi[c] - lo[c] < hi[n] - lo[n]
<1>1. Spans(D, lo, hi, n)
  BY DEF Blocks
<1>2. lo[n] \in 1 .. n /\ hi[n] \in n .. Len(D) /\ D[n].left \in 0 .. Len(D) /\ D[n].right \in 0 .. Len(D)
  BY <1>1 DEF Spans
<1>3. /\ D[n].left # NULL => lo[D[n].left] = lo[n] /\ hi[D[n].left] = n - 1
      /\ D[n].right # NULL => lo[D[n].right] = n + 1 /\ hi[D[n].right] = hi[n]
  BY <1>1 DEF Spans
<1>4. D[n].left # NULL => D[n].left \in 1 .. Len(D) /\ hi[D[n].left] - lo[D[n].left] < hi[n] - lo[n]
  BY <1>2, <1>3 DEF NULL
<1>5. D[n].right # NULL => D[n].right \in 1 .. Len(D) /\ hi[D[n].right] - lo[D[n].right] < hi[n] - lo[n]
  BY <1>2, <1>3 DEF NULL
<1>6. QED
  BY <1>2, <1>4, <1>5

LEMMA VisitsExist ==
  ASSUME NEW D, NEW lo, NEW hi, Len(D) \in Nat, Blocks(D, lo, hi)
  PROVE  \E f : Visits(D, f)
<1> DEFINE N == Len(D)
           Part(g, k) == /\ g = [n \in 0 .. N |-> g[n]] /\ g[0] = <<>>
                         /\ \A n \in 1 .. N : hi[n] - lo[n] < k => g[n] = Listed(D, g, n)
           T == {k \in Nat : \E g : Part(g, k)}
           More(g) == [n \in 0 .. N |-> IF n = 0 THEN <<>> ELSE Listed(D, g, n)]
<1>1. \A n \in 1 .. N : lo[n] \in 1 .. n /\ hi[n] \in n .. N
  BY Smaller
<1>2. 0 \in T
  <2>1. PICK g : g = [n \in 0 .. N |-> <<>>]
    OBVIOUS
  <2>2. g = [n \in 0 .. N |-> g[n]] /\ g[0] = <<>>
    BY <2>1
  <2>3. \A n \in 1 .. N : ~(hi[n] - lo[n] < 0)
    BY <1>1
  <2>4. QED
    BY <2>2, <2>3
<1>3. ASSUME NEW k \in Nat, k \in T PROVE k + 1 \in T
  <2>1. PICK g : Part(g, k)
    BY <1>3
  <2>2. PICK g2 : g2 = More(g)
    OBVIOUS
  <2>3. /\ g2[0] = <<>>
        /\ \A n \in 1 .. N : g2[n] = Listed(D, g, n)
    <3>1. 0 \in 0 .. N /\ \A n \in 1 .. N : n \in 0 .. N /\ n # 0
      OBVIOUS
    <3>2. QED
      BY <2>2, <3>1
  <2>4. g2 = [n \in 0 .. N |-> g2[n]]
    BY <2>2, Zenon
  <2>5. ASSUME NEW n \in 1 .. N, hi[n] - lo[n] < k PROVE g2[n] = g[n]
    BY <2>1, <2>3, <2>5
  <2>6. ASSUME NEW n \in 1 .. N, hi[n] - lo[n] < k + 1 PROVE g2[n] = Listed(D, g2, n)
    <3>1. ASSUME NEW c \in {D[n].left, D[n].right} PROVE g2[c] = g[c]
      <4>1. c = 0 \/ (c \in 1 .. N /\ hi[c] - lo[c] < hi[n] - lo[n])
        BY Smaller DEF NULL
      <4>2. CASE c = 0
        BY <2>1, <2>3, <4>2
      <4>3. CASE c \in 1 .. N /\ hi[c] - lo[c] < hi[n] - lo[n]
        <5>1. hi[c] - lo[c] < k
          BY <1>1, <2>6, <4>3
        <5>2. QED
          BY <2>5, <4>3, <5>1
      <4>4. QED
        BY <4>1, <4>2, <4>3
    <3>2. g2[D[n].left] = g[D[n].left] /\ g2[D[n].right] = g[D[n].right]
      BY <3>1
    <3>3. QED
      BY <2>3, <3>2, Zenon DEF Listed
  <2>7. Part(g2, k + 1)
    BY <2>3, <2>4, <2>6
  <2>8. QED
    BY <2>7
<1>4. N + 1 \in T
  <2> HIDE DEF T
  <2>1. \A k \in Nat : k \in T
    BY <1>2, <1>3, Inductive
  <2>2. QED
    BY <2>1
<1>5. PICK g : Part(g, N + 1)
  BY <1>4
<1>6. ASSUME NEW n \in 1 .. N PROVE g[n] = Listed(D, g, n)
  <2>1. hi[n] - lo[n] < N + 1
    BY <1>1
  <2>2. QED
    BY <1>5, <2>1
<1>7. ASSUME NEW n \in 0 .. N PROVE g[n] = IF n = NULL THEN <<>> ELSE Listed(D, g, n)
  BY <1>5, <1>6 DEF NULL
<1>8. g = [n \in 0 .. N |-> IF n = NULL THEN <<>> ELSE Listed(D, g, n)]
  <2>1. [n \in 0 .. N |-> g[n]] = [n \in 0 .. N |-> IF n = NULL THEN <<>> ELSE Listed(D, g, n)]
    BY <1>7
  <2>2. g = [n \in 0 .. N |-> g[n]]
    BY <1>5
  <2>3. QED
    BY <2>1, <2>2, Zenon
<1>9. Visits(D, g)
  BY <1>8, Zenon DEF Visits
<1>10. QED
  BY <1>9

LEMMA VisitsLists ==
  ASSUME NEW D, NEW lo, NEW hi, Len(D) \in Nat, Blocks(D, lo, hi), NEW f, Visits(D, f)
  PROVE  \A n \in 1 .. Len(D) : Lists(f[n], lo[n], hi[n])
<1> DEFINE N == Len(D)
           T == {k \in Nat : \A n \in 1 .. N : hi[n] - lo[n] < k => Lists(f[n], lo[n], hi[n])}
<1>1. \A n \in 1 .. N : lo[n] \in 1 .. n /\ hi[n] \in n .. N
  BY Smaller
<1>2. 0 \in T
  <2>1. \A n \in 1 .. N : ~(hi[n] - lo[n] < 0)
    BY <1>1
  <2>2. QED
    BY <2>1
<1>3. f[0] = <<>> /\ \A n \in 1 .. N : f[n] = Listed(D, f, n)
  <2>1. f = [n \in 0 .. N |-> IF n = NULL THEN <<>> ELSE Listed(D, f, n)]
    BY Zenon DEF Visits
  <2>2. 0 \in 0 .. N /\ NULL = 0 /\ \A n \in 1 .. N : n \in 0 .. N /\ n # NULL
    BY DEF NULL
  <2>3. \A n \in 0 .. N : f[n] = IF n = NULL THEN <<>> ELSE Listed(D, f, n)
    BY <2>1, Zenon
  <2>4. QED
    BY <2>2, <2>3
<1>4. ASSUME NEW k \in Nat, k \in T, NEW n \in 1 .. N, hi[n] - lo[n] < k + 1
      PROVE  Lists(f[n], lo[n], hi[n])
  <2>1. Spans(D, lo, hi, n)
    BY DEF Blocks
  <2>2. /\ lo[n] \in 1 .. n /\ hi[n] \in n .. N
        /\ \A c \in {D[n].left, D[n].right} : c # NULL => c \in 1 .. N /\ hi[c] - lo[c] < hi[n] - lo[n]
    BY Smaller
  <2>3. ASSUME NEW c \in {D[n].left, D[n].right}, c # NULL PROVE Lists(f[c], lo[c], hi[c])
    <3>1. c \in 1 .. N /\ hi[c] - lo[c] < k
      <4>1. c \in 1 .. N /\ hi[c] - lo[c] < hi[n] - lo[n]
        BY <2>2, <2>3
      <4>2. \A a, b \in Int : a < b /\ b < k + 1 => a < k
        BY <1>4
      <4>3. hi[c] - lo[c] \in Int /\ hi[n] - lo[n] \in Int
        BY <1>1, <4>1
      <4>4. QED
        BY <1>4, <4>1, <4>2, <4>3
    <3>2. QED
      BY <1>4, <3>1
  <2>4. Lists(f[D[n].left], lo[n], n - 1)
    <3>1. CASE D[n].left = NULL
      <4>1. lo[n] = n /\ f[D[n].left] = <<>>
        BY <1>3, <2>1, <3>1 DEF Spans, NULL
      <4>2. n \in Nat
        OBVIOUS
      <4>3. QED
        BY <4>1, <4>2, ListsNone
    <3>2. CASE D[n].left # NULL
      BY <2>1, <2>3, <3>2 DEF Spans
    <3>3. QED
      BY <3>1, <3>2
  <2>5. Lists(f[D[n].right], n + 1, hi[n])
    <3>1. CASE D[n].right = NULL
      <4>1. hi[n] = n /\ f[D[n].right] = <<>>
        BY <1>3, <2>1, <3>1 DEF Spans, NULL
      <4>2. n + 1 \in Nat /\ (n + 1) - 1 = n
        OBVIOUS
      <4>3. Lists(<<>>, n + 1, (n + 1) - 1)
        BY <4>2, ListsNone
      <4>4. QED
        BY <4>1, <4>2, <4>3
    <3>2. CASE D[n].right # NULL
      BY <2>1, <2>3, <3>2 DEF Spans
    <3>3. QED
      BY <3>1, <3>2
  <2>6. lo[n] \in Nat /\ hi[n] \in Nat /\ n \in Nat /\ lo[n] <= n /\ n <= hi[n]
    BY <2>2
  <2>7. Lists(f[D[n].left] \o f[D[n].right] \o <<n>>, lo[n], hi[n])
    BY <2>4, <2>5, <2>6, ListsNode
  <2>8. QED
    BY <1>3, <2>7, Zenon DEF Listed
<1>5. \A k \in Nat : k \in T => k + 1 \in T
  BY <1>4
<1>6. ASSUME NEW n \in 1 .. N PROVE Lists(f[n], lo[n], hi[n])
  <2>1. N + 1 \in T
    <3> HIDE DEF T
    <3>1. \A k \in Nat : k \in T
      BY <1>2, <1>5, Inductive
    <3>2. QED
      BY <3>1
  <2>2. hi[n] - lo[n] < N + 1
    BY <1>1
  <2>3. QED
    BY <2>1, <2>2
<1>7. QED
  BY <1>6

(* The tree of d is all there is.                                            *)
Whole(D, d) == \E lo, hi : Blocks(D, lo, hi) /\ Block(D, lo, hi, d, 1)

LEMMA PostOrderLists ==
  ASSUME Len(nodes) \in Nat, NEW d, Whole(nodes, d)
  PROVE  Lists(PostOrder(d), 1, Len(nodes))
<1>1. PICK lo, hi : Blocks(nodes, lo, hi) /\ Block(nodes, lo, hi, d, 1)
  BY DEF Whole
<1> DEFINE F == CHOOSE f : Visits(nodes, f)
<1>2. Visits(nodes, F)
  BY <1>1, VisitsExist, Zenon
<1>3. PostOrder(d) = F[d]
  BY DEF PostOrder, Visits, Listed
<1> HIDE DEF F
<1>4. \A n \in 1 .. Len(nodes) : Lists(F[n], lo[n], hi[n])
  BY <1>1, <1>2, VisitsLists
<1>5. QED
  BY <1>1, <1>3, <1>4 DEF Block

-----------------------------------------------------------------------------
(***************************************************************************)
(* The whole run: there are no nodes before the descent, the descent, one  *)
(* tree of all the nodes behind it, and nothing freed before the end.      *)
(***************************************************************************)
Linked ==
  /\ pc \in {"open", "lex"} => nodes = <<>> /\ stk = <<>> /\ ret = NULL
  /\ pc = "parse" => Descent
  /\ pc = "generate" => Whole(nodes, dag)
  /\ pc # "ok" => freed = <<>>
  /\ FreedOnce

IInv == Typed /\ Linked

LEMMA NoneFreed == freed = <<>> /\ pc # "ok" => FreedOnce
BY DEF FreedOnce

LEMMA DescentFull == Descent => stk # <<>>
<1>1. SUFFICES ASSUME Descent PROVE stk # <<>>
  OBVIOUS
<1>2. CASE GoesOn(nodes, stk, next)
  <2>1. PICK lo, hi, q, st, f : Goes(nodes, lo, hi, stk, q, st, f, next)
    BY <1>2 DEF GoesOn
  <2>2. QED
    BY <2>1, GoesIs
<1>3. CASE ComesBack(nodes, stk, ret, next)
  BY <1>3 DEF ComesBack, Comes
<1>4. CASE Fails(stk)
  BY <1>4 DEF Fails
<1>5. QED
  BY <1>1, <1>2, <1>3, <1>4 DEF Descent

(* The first call of the descent, before there is a node.                    *)
LEMMA Begun ==
  ASSUME NEW D, D = <<>>, NEW nx
  PROVE  GoesOn(D, <<TopFrame>> \o expr, nx)
<1>1. PICK f \in Fr : f = TopFrame
  BY FramesAre
<1>2. f.at = "top"
  BY <1>1, FramesAre
<1>3. PICK q : q = <<f>>
  OBVIOUS
<1>4. q \in Seq(Fr) /\ Len(q) = 1 /\ q[1] = f /\ q # <<>> /\ Last(q) = f
  BY <1>3 DEF Last
<1>5. PICK st : st = <<1, 1>>
  OBVIOUS
<1>6. st \in Seq(Nat) /\ Len(st) = 2 /\ st[1] = 1 /\ st[2] = 1
  BY <1>5
<1>7. Len(D) = 0
  OBVIOUS
<1>8. PICK lo, hi : Blocks(D, lo, hi) /\ Cut(D, lo, hi, 1)
  BY <1>7 DEF Blocks, Cut
<1>9. Susp(D, lo, hi, q, st)
  <2>1. Hangs(D, lo, hi, f, 1, 1)
    BY <1>2 DEF Hangs, Waiting
  <2>2. \A k \in 1 .. 2 : st[k] = 1
    BY <1>6
  <2>3. \A k \in 1 .. 1 : k = 1 /\ k + 1 = 2
    OBVIOUS
  <2>4. QED
    BY <1>2, <1>4, <1>6, <1>8, <2>1, <2>2, <2>3 DEF Susp
<1>10. st[Len(q) + 1] = Len(D) + 1 /\ Len(D) \in Nat
  BY <1>4, <1>6, <1>7
<1>11. Last(q).at # "rest"
  BY <1>2, <1>4
<1>12. GoesOn(D, q \o expr, nx)
  BY <1>4, <1>8, <1>9, <1>10, <1>11, CallsMore
<1>13. QED
  BY <1>1, <1>3, <1>12

LEMMA StartLinked ==
  ASSUME IInv, Start
  PROVE  Linked'
<1>1. /\ nodes = <<>> /\ nodes' = nodes /\ ret = NULL /\ ret' = ret /\ freed = <<>> /\ freed' = freed
      /\ pc' \in {"null", "parse"}
  BY DEF IInv, Linked, Start
<1>2. FreedOnce'
  BY <1>1 DEF FreedOnce
<1>3. CASE pc' = "parse"
  <2>1. stk' = <<TopFrame>> \o expr
    BY <1>3, Zenon DEF Start, TopFrame
  <2>2. GoesOn(nodes', stk', next')
    BY <1>1, <2>1, Begun
  <2>3. Descent'
    BY <2>2 DEF Descent
  <2>4. QED
    BY <1>1, <1>2, <1>3, <2>3 DEF Linked
<1>4. QED
  BY <1>1, <1>2, <1>3 DEF Linked

LEMMA LexerLinked ==
  ASSUME IInv, parser_open \/ Lex \/ mktokenFails \/ Blank
  PROVE  Linked'
<1>1. pc \in {"open", "lex"} /\ Parsing /\ pc' \in {"lex"} \union {"null", "abort"}
  BY DEF parser_open, Lex, mktokenFails, Blank
<1>2. nodes' = <<>> /\ stk' = <<>> /\ ret' = NULL /\ freed' = <<>>
  BY <1>1 DEF IInv, Linked, Parsing
<1>3. FreedOnce'
  BY <1>1, <1>2 DEF FreedOnce
<1>4. QED
  BY <1>1, <1>2, <1>3 DEF Linked

LEMMA DescentLinked ==
  ASSUME IInv,
         \/ Primary \/ Paren \/ Unary \/ Plus \/ Neg \/ First
         \/ Loop \/ Right \/ AfterRest
  PROVE  Linked'
<1>1. Lexed /\ pc = "parse"
  BY Zenon DEF Primary, Paren, Unary, Plus, Neg, First, Loop, Right, AfterRest, At
<1>2. Typed /\ Descent /\ freed = <<>>
  BY <1>1 DEF IInv, Linked
<1>3. Descent'
  BY <1>2, PrimarySteps, ParenPlusSteps, UnarySteps, NegSteps, FirstSteps, LoopSteps, RightSteps, AfterRestSteps, Zenon
<1>4. pc' = "parse" /\ freed' = <<>>
  BY <1>1, <1>2 DEF Lexed
<1>5. FreedOnce'
  BY <1>4 DEF FreedOnce
<1>6. QED
  BY <1>3, <1>4, <1>5 DEF Linked

(* What top() gets is the tree of every node.                                *)
LEMMA TopWhole ==
  ASSUME Typed, Descent, At("top"), ret # NULL
  PROVE  Whole(nodes, ret)
<1>1. Last(stk).at = "top" /\ ComesBack(nodes, stk, ret, next)
  BY AtWaiting DEF Waiting
<1>2. PICK lo, hi, st : Blocks(nodes, lo, hi) /\ Comes(nodes, lo, hi, stk, st, ret, next)
  BY <1>1 DEF ComesBack
<1>3. stk # <<>> /\ Susp(nodes, lo, hi, stk, st) /\ Block(nodes, lo, hi, ret, st[Len(stk) + 1])
  BY <1>2 DEF Comes
<1>4. stk \in Seq(Fr)
  BY <1>3 DEF Susp
<1>5. Len(stk) \in Nat /\ Len(stk) >= 1 /\ Last(stk) = stk[Len(stk)]
  BY <1>3, <1>4, FrontIs
<1>6. Len(stk) \in 1 .. Len(stk)
  BY <1>5
<1>7. Len(stk) = 1
  BY <1>1, <1>3, <1>5, <1>6 DEF Susp
<1>8. Hangs(nodes, lo, hi, stk[1], st[1], st[1 + 1]) /\ st[1] = 1
  BY <1>3, <1>6, <1>7 DEF Susp
<1>9. st[1 + 1] = st[1]
  BY <1>1, <1>5, <1>7, <1>8 DEF Hangs
<1>10. Block(nodes, lo, hi, ret, 1)
  BY <1>3, <1>7, <1>8, <1>9
<1>11. QED
  BY <1>2, <1>10 DEF Whole

LEMMA TopLinked ==
  ASSUME IInv, Top
  PROVE  Linked'
<1>1. Typed /\ Descent /\ freed = <<>> /\ At("top") /\ freed' = freed /\ nodes' = nodes
  BY DEF IInv, Linked, Top, At
<1>2. pc' \in {"generate", "null"}
  BY DEF Top
<1>3. FreedOnce'
  BY <1>1, <1>2 DEF FreedOnce
<1>4. CASE pc' = "generate"
  <2>1. ret # NULL /\ dag' = ret
    BY <1>4 DEF Top
  <2>2. Whole(nodes, ret)
    BY <1>1, <2>1, TopWhole
  <2>3. Whole(nodes', dag')
    BY <1>1, <2>1, <2>2
  <2>4. QED
    BY <1>1, <1>3, <1>4, <2>3 DEF Linked
<1>5. QED
  BY <1>1, <1>2, <1>3, <1>4 DEF Linked

LEMMA GenerateLinked ==
  ASSUME IInv, Generate
  PROVE  Linked'
<1>1. Whole(nodes, dag) /\ nodes' = nodes /\ freed' = PostOrder(dag) /\ pc' = "ok" /\ nodes \in Seq(Node)
  BY NodesAre DEF IInv, Linked, Generate, parser_close
<1>2. Len(nodes) \in Nat /\ DOMAIN nodes = 1 .. Len(nodes)
  BY <1>1
<1>3. Lists(PostOrder(dag), 1, Len(nodes))
  BY <1>1, <1>2, PostOrderLists
<1>4. PICK s : s = PostOrder(dag)
  OBVIOUS
<1>5. /\ s \in Seq(Nat) /\ DOMAIN s = 1 .. Len(s)
      /\ \A k, l \in 1 .. Len(s) : s[k] = s[l] => k = l
      /\ \A k \in 1 .. Len(s) : s[k] \in 1 .. Len(nodes)
      /\ \A m \in 1 .. Len(nodes) : \E k \in 1 .. Len(s) : s[k] = m
  BY <1>3, <1>4 DEF Lists
<1>6. ToSet(s) = DOMAIN nodes
  <2>1. ToSet(s) = {s[k] : k \in 1 .. Len(s)}
    BY <1>5 DEF ToSet
  <2>2. \A k \in 1 .. Len(s) : s[k] \in 1 .. Len(nodes)
    BY <1>5
  <2>3. \A m \in 1 .. Len(nodes) : \E k \in 1 .. Len(s) : m = s[k]
    BY <1>5
  <2>4. {s[k] : k \in 1 .. Len(s)} = 1 .. Len(nodes)
    BY <2>2, <2>3
  <2>5. QED
    BY <1>2, <2>1, <2>4
<1>7. FreedOnce'
  <2>1. freed' = s /\ DOMAIN nodes' = DOMAIN nodes
    BY <1>1, <1>4
  <2>2. \A k, l \in DOMAIN freed' : k # l => freed'[k] # freed'[l]
    BY <1>5, <2>1
  <2>3. ToSet(freed') = DOMAIN nodes'
    BY <1>6, <2>1
  <2>4. QED
    BY <2>2, <2>3 DEF FreedOnce
<1>8. QED
  BY <1>1, <1>7 DEF Linked

LEMMA TblFaultLinked ==
  ASSUME IInv, TblFault
  PROVE  Linked'
<1>1. pc = "parse" /\ freed = <<>> /\ freed' = freed /\ pc' = "fault"
  BY DEF IInv, Linked, TblFault, At
<1>2. FreedOnce'
  BY <1>1 DEF FreedOnce
<1>3. QED
  BY <1>1, <1>2 DEF Linked

LEMMA SameLinked ==
  ASSUME IInv, UNCHANGED vars
  PROVE  IInv'
<1>1. Typed'
  BY DEF IInv, Typed, LexerOK, vars
<1>2. UNCHANGED <<stk, ret, nodes, dag, freed, pc, i, tokens>>
  BY DEF vars
<1>3. next' = next
  BY <1>2, NextKept
<1>4. Descent => Descent'
  BY <1>2, <1>3 DEF Descent
<1>5. Whole(nodes, dag) => Whole(nodes', dag')
  BY <1>2
<1>6. FreedOnce'
  BY <1>2 DEF IInv, Linked, FreedOnce
<1>7. QED
  BY <1>1, <1>2, <1>4, <1>5, <1>6 DEF IInv, Linked

(* The invariant the theorems rest on: it holds at the start, and every step  *)
(* of the lexer, of the descent and of main() keeps it (lexer.c, parser.c).    *)
THEOREM ParserInvariant == Spec => []IInv
<1>1. Init => IInv
  <2>1. SUFFICES ASSUME Init PROVE IInv
    OBVIOUS
  <2>2. /\ pc = "open" /\ nodes = <<>> /\ stk = <<>> /\ ret = NULL /\ freed = <<>>
    BY <2>1 DEF Init
  <2>3. QED
    BY <2>1, <2>2, TypedInit, NoneFreed DEF IInv, Linked
<1>2. IInv /\ [Next]_vars => IInv'
  <2>1. SUFFICES ASSUME IInv, [Next]_vars PROVE IInv'
    OBVIOUS
  <2>2. Typed
    BY <2>1 DEF IInv
  <2>3. CASE parser_open
    BY <2>1, <2>2, <2>3, OpenTyped, LexerLinked, Zenon DEF IInv
  <2>4. CASE Lex \/ mktokenFails \/ Blank
    BY <2>1, <2>2, <2>4, LexTyped, LexerLinked, Zenon DEF IInv
  <2>5. CASE Start
    BY <2>1, <2>2, <2>5, StartTyped, StartLinked, Zenon DEF IInv
  <2>6. CASE \/ Primary \/ Paren \/ Unary \/ Plus \/ Neg \/ First
             \/ Loop \/ Right \/ AfterRest
    <3>1. pc = "parse"
      BY <2>6, Zenon DEF Primary, Paren, Unary, Plus, Neg, First, Loop, Right, AfterRest, At
    <3>2. stk # <<>>
      BY <2>1, <3>1, DescentFull DEF IInv, Linked
    <3>3. Typed'
      BY <2>2, <2>6, <3>2, PrimaryTyped, UnaryTyped, WaitingTyped, LoopTyped, Zenon
    <3>4. Linked'
      BY <2>1, <2>6, DescentLinked, Zenon
    <3>5. QED
      BY <3>3, <3>4 DEF IInv
  <2>7. CASE Top
    BY <2>1, <2>2, <2>7, TopTyped, TopLinked, Zenon DEF IInv
  <2>8. CASE TblFault
    BY <2>1, <2>2, <2>8, TopTyped, TblFaultLinked, Zenon DEF IInv
  <2>9. CASE Generate
    BY <2>1, <2>2, <2>9, TopTyped, GenerateLinked, Zenon DEF IInv
  <2>10. CASE Done \/ UNCHANGED vars
    BY <2>1, <2>10, SameLinked, Zenon DEF Done
  <2>11. QED
    BY <2>1, <2>3, <2>4, <2>5, <2>6, <2>7, <2>8, <2>9, <2>10, Zenon DEF Next, Step
<1>3. QED
  BY <1>1, <1>2, PTL DEF Spec

(* Nothing is written behind the lexer's array and every link and every place *)
(* in the tokens is within its sequence, whatever the expressions and the      *)
(* growth of the array (lexer.c:21, parser.c:55).                              *)
THEOREM ParserTypes == Spec => []TypeOK
<1>1. IInv => TypeOK
  <2>1. SUFFICES ASSUME IInv PROVE TypeOK
    OBVIOUS
  <2>2. Typed /\ LexerOK /\ NodesOK(nodes) /\ nodes \in Seq(Node)
    BY <2>1 DEF IInv, Typed, NodesOK
  <2>3. \A n \in DOMAIN nodes : {nodes[n].left, nodes[n].right} \subseteq 0 .. Len(nodes)
    BY <2>2 DEF NodesOK
  <2>4. pc = "parse" => stk # <<>>
    BY <2>1, DescentFull DEF IInv, Linked
  <2>5. QED
    BY <2>2, <2>3, <2>4 DEF TypeOK, Typed, LexerOK
<1>2. QED
  BY <1>1, ParserInvariant, PTL

(* No node is freed twice, and a parse that succeeded leaves none behind:     *)
(* every node the descent allocated is in the tree once, however the text is   *)
(* nested and wherever an allocation fails (parser.c:41-49).                   *)
THEOREM FreesEachNodeOnce == Spec => []FreedOnce
<1>1. IInv => FreedOnce
  BY DEF IInv, Linked
<1>2. QED
  BY <1>1, ParserInvariant, PTL

-----------------------------------------------------------------------------
(***************************************************************************)
(* Second part: Jitc, for any number of processes and programs of any      *)
(* length. What an undisturbed process prints is its own, and freed memory *)
(* is used only after a failure or a disturbance.                          *)
(***************************************************************************)
Locations == {"start", "write", "fork", "wait", "open", "lookup", "call", "delete",
           "close", "ok", "error", "fault", "killed"}
Who == Proc \union {Nobody}
Piece == Who \X Nat

JitcTyped ==
  /\ outc \in Seq(Piece)
  /\ outso \in [by : Who, prog : Who, whole : BOOLEAN]
  /\ main \in [Proc -> Locations]
  /\ gcc \in [Proc -> {"none", "cc1", "ld", "fill", "exit 0", "exit 1", "killed"}]
  /\ jitc \in [Proc -> {"null", "live", "freed", "closed"}]
  /\ written \in [Proc -> Nat] /\ \A p \in Proc : written[p] <= Size[p]
  /\ lost \in [Proc -> Nat] /\ \A p \in Proc : lost[p] <= written[p]
  /\ obj \in [Proc -> Who] /\ lib \in [Proc -> Who] /\ printed \in [Proc -> Who]
  /\ ub \in [Proc -> BOOLEAN] /\ failed \in [Proc -> BOOLEAN] /\ disturbed \in [Proc -> BOOLEAN]

(* Where a process is says what it has done, to its variables and its child. *)
Stage(p) ==
  /\ main[p] = "start" => written[p] = 0
  /\ main[p] = "write" => written[p] < Size[p]
  /\ main[p] \in {"fork", "wait", "open"} => written[p] = Size[p]
  /\ main[p] \in {"start", "write", "fork"} => gcc[p] = "none"
  /\ main[p] = "open" => gcc[p] = "exit 0"
  /\ main[p] \in {"start", "write", "fork", "wait", "open"} => jitc[p] = "null"
  /\ main[p] \in {"call", "delete", "close"} => jitc[p] = "live"
  /\ main[p] \in {"ok", "error"} => jitc[p] # "live"

(* The files of a process that was not disturbed and has lost no write are   *)
(* its own, as far as it and its child have come, and so is what it has      *)
(* loaded from them.                                                         *)
OwnText(p) == Len(outc) = written[p] /\ \A k \in 1 .. written[p] : outc[k] = <<p, k>>
OwnFiles(p) ==
  /\ main[p] \in {"write", "fork", "wait", "open"} => OwnText(p)
  /\ main[p] \in {"wait", "open"} =>
       /\ gcc[p] \in {"ld", "fill", "exit 0"} => obj[p] = p
       /\ gcc[p] \in {"fill", "exit 0"} => outso.by = p /\ outso.prog = p
       /\ gcc[p] = "exit 0" => outso.whole
Loaded(p) ==
  /\ jitc[p] = "live" => lib[p] = p
  /\ main[p] \in {"delete", "close", "ok"} => printed[p] = p
Excused(p) == jitc[p] = "freed" \/ ub[p] => failed[p]
Undisturbed(p) == OwnFiles(p) /\ Loaded(p) /\ Excused(p)

JitcInv ==
  /\ JitcTyped
  /\ \A p \in Proc : Stage(p)
  /\ \A p \in Proc : ~disturbed[p] /\ lost[p] = 0 => Undisturbed(p)

-----------------------------------------------------------------------------
(* Before any process starts the invariant holds.                            *)
LEMMA JitcInvInit == JitcInit => JitcInv
<1> SUFFICES ASSUME JitcInit PROVE JitcInv
  OBVIOUS
<1> USE DEF JitcInit, Who
<1>1. JitcTyped
  BY JitcAssumption DEF JitcTyped, Locations, NoFile
<1>2. \A p \in Proc : Stage(p)
  BY DEF Stage
<1>3. \A p \in Proc : Undisturbed(p)
  BY DEF Undisturbed, OwnFiles, Loaded, Excused
<1>4. QED
  BY <1>1, <1>2, <1>3 DEF JitcInv

(* The file a process has opened is empty, and no other's.                   *)
LEMMA OpenCKeeps ==
  ASSUME JitcInv, NEW r \in Proc, OpenC(r)
  PROVE  JitcInv'
<1> USE DEF OpenC, Goto, SystemFails, Disturb
<1>1. JitcTyped'
  <2>1. outc' \in Seq(Piece)
    <3>1. CASE outc' = <<>>
      BY <3>1
    <3>2. CASE outc' = outc
      BY <3>2 DEF JitcInv, JitcTyped
    <3>3. QED
      BY <3>1, <3>2
  <2>2. main' \in [Proc -> Locations]
    BY ZenonT(60) DEF JitcInv, JitcTyped, Locations
  <2>3. failed' \in [Proc -> BOOLEAN]
    BY DEF JitcInv, JitcTyped
  <2>4. disturbed' \in [Proc -> BOOLEAN]
    <3>1. CASE UNCHANGED disturbed
      BY <3>1 DEF JitcInv, JitcTyped
    <3>2. CASE Disturb(r)
      BY <3>2
    <3>3. QED
      BY <3>1, <3>2
  <2>5. QED
    BY <2>1, <2>2, <2>3, <2>4 DEF JitcInv, JitcTyped
<1>2. ASSUME NEW p \in Proc PROVE Stage(p)'
  <2>1. main'[p] = main[p] \/ (p = r /\ main[p] = "start" /\ main'[p] \in {"write", "error"})
    BY DEF JitcInv, JitcTyped
  <2>2. UNCHANGED <<written, gcc, jitc>> /\ Size[p] \in Nat \ {0}
    BY JitcAssumption
  <2> HIDE DEF OpenC
  <2>3. CASE main'[p] = main[p]
    BY <2>2, <2>3 DEF JitcInv, Stage
  <2>4. CASE p = r /\ main[p] = "start" /\ main'[p] \in {"write", "error"}
    <3>1. written[p] = 0 /\ gcc[p] = "none" /\ jitc[p] = "null"
      BY <2>4 DEF JitcInv, Stage
    <3>2. QED
      BY <2>2, <2>4, <3>1 DEF Stage
  <2>5. QED
    BY <2>1, <2>3, <2>4
<1>3. ASSUME NEW p \in Proc, ~disturbed'[p], lost'[p] = 0 PROVE Undisturbed(p)'
  <2>1. ~disturbed[p] /\ Undisturbed(p)
    BY <1>3 DEF JitcInv, JitcTyped
  <2>2. CASE p = r
    <3>1. /\ main'[p] \in {"write", "error"} /\ jitc'[p] = "null" /\ written'[p] = 0
          /\ main'[p] = "write" => outc' = <<>>
      BY <2>2 DEF JitcInv, JitcTyped, Stage
    <3>2. ub' = ub /\ (failed[p] => failed'[p])
      BY <2>2 DEF JitcInv, JitcTyped
    <3>3. Excused(p)'
      BY <2>1, <3>1, <3>2 DEF Undisturbed, Excused
    <3>4. main'[p] = "write" => OwnText(p)'
      BY <3>1 DEF OwnText
    <3>5. QED
      BY <3>1, <3>3, <3>4 DEF Undisturbed, OwnFiles, Loaded
  <2>3. CASE p # r
    <3>1. /\ main'[p] = main[p] /\ failed'[p] = failed[p]
          /\ UNCHANGED <<outso, written, gcc, obj, jitc, lib, printed, ub>>
      BY <2>3 DEF JitcInv, JitcTyped
    <3>2. CASE outc' = outc
      <4>1. OwnText(p)' <=> OwnText(p)
        BY <3>1, <3>2 DEF OwnText
      <4>2. QED
        BY <2>1, <3>1, <4>1 DEF Undisturbed, OwnFiles, Loaded, Excused
    <3>3. CASE main[p] \notin {"write", "fork", "wait", "open"}
      BY <2>1, <3>1, <3>3 DEF Undisturbed, OwnFiles, Loaded, Excused
    <3>4. QED
      BY <1>3, <2>3, <3>2, <3>3 DEF JitcInv, JitcTyped
  <2>4. QED
    BY <2>2, <2>3
<1>4. QED
  BY <1>1, <1>2, <1>3 DEF JitcInv

(* A write behind the process's own chunks, when the file holds just those,  *)
(* or one that is lost.                                                      *)
LEMMA WriteCKeeps ==
  ASSUME JitcInv, NEW r \in Proc, WriteC(r)
  PROVE  JitcInv'
<1> DEFINE n == written[r] + 1
           at == written[r] - lost[r] + 1
           c == <<r, n>>
<1>1. /\ n \in Nat \ {0} /\ n <= Size[r] /\ Size[r] \in Nat \ {0}
      /\ lost[r] \in Nat /\ at \in Nat \ {0}
      /\ Len(outc) \in Nat /\ outc \in Seq(Piece)
  <2>1. main[r] = "write" /\ written[r] \in Nat /\ Size[r] \in Nat \ {0}
    BY JitcAssumption DEF WriteC, JitcInv, JitcTyped
  <2>2. written[r] < Size[r]
    BY <2>1 DEF JitcInv, Stage
  <2>3. outc \in Seq(Piece) /\ lost[r] \in Nat /\ lost[r] <= written[r]
    BY DEF JitcInv, JitcTyped
  <2>4. QED
    BY <2>1, <2>2, <2>3
<1>2. /\ written' = [written EXCEPT ![r] = n]
      /\ main' = [main EXCEPT ![r] = IF n = Size[r] THEN "fork" ELSE "write"]
      /\ main[r] = "write"
      /\ UNCHANGED <<outso, gcc, obj, jitc, lib, printed, ub>>
  BY DEF WriteC, Goto, JitcInv, JitcTyped
<1>3. \/ /\ outc' = WriteAt(outc, at, c)
         /\ disturbed' = [q \in Proc |->
              disturbed[q] \/ (q # r /\ main[q] \in {"write", "fork", "wait", "open"})]
         /\ UNCHANGED <<lost, failed>>
      \/ /\ lost' = [lost EXCEPT ![r] = @ + 1] /\ failed' = [failed EXCEPT ![r] = TRUE]
         /\ UNCHANGED <<outc, disturbed>>
  <2>1. \/ outc' = WriteAt(outc, at, c) /\ Disturb(r) /\ UNCHANGED <<lost, failed>>
        \/ lost' = [lost EXCEPT ![r] = @ + 1] /\ SystemFails(r) /\ UNCHANGED <<outc, disturbed>>
    BY DEF WriteC
  <2>2. QED
    BY <2>1 DEF Disturb, SystemFails
<1> DEFINE m == IF at > Len(outc) THEN at ELSE Len(outc)
<1> HIDE DEF n, at
<1>4. ASSUME outc' = WriteAt(outc, at, c)
      PROVE  /\ m \in Nat /\ Len(outc') = m /\ outc' \in Seq(Piece)
             /\ outc' = [j \in 1 .. m |-> IF j = at THEN c ELSE IF j <= Len(outc) THEN outc[j] ELSE Hole]
  <2>1. Max({Len(outc), at}) = m
    BY <1>1 DEF Max
  <2>2. /\ m \in Nat
        /\ outc' = [j \in 1 .. m |-> IF j = at THEN c ELSE IF j <= Len(outc) THEN outc[j] ELSE Hole]
    BY <1>1, <1>4, <2>1 DEF WriteAt
  <2>3. ASSUME NEW k \in 1 .. m PROVE outc'[k] \in Piece
    <3>1. c \in Piece /\ Hole \in Piece
      BY <1>1 DEF Hole, Who, Piece
    <3>2. k <= Len(outc) => outc[k] \in Piece
      BY <1>1
    <3>3. QED
      BY <2>2, <3>1, <3>2
  <2>4. outc' \in [1 .. m -> Piece]
    BY <2>2, <2>3
  <2>5. Len(outc') = m /\ outc' \in Seq(Piece)
    <3> HIDE DEF m, c
    <3>1. QED
      BY <2>2, <2>4, SMTT(30)
  <2>6. QED
    BY <2>2, <2>5
<1>5. JitcTyped'
  <2>1. main' \in [Proc -> Locations]
    BY <1>2 DEF JitcInv, JitcTyped, Locations
  <2>2. /\ written' \in [Proc -> Nat] /\ \A p \in Proc : written'[p] <= Size[p]
    BY <1>1, <1>2 DEF JitcInv, JitcTyped
  <2>3. disturbed' \in [Proc -> BOOLEAN] /\ failed' \in [Proc -> BOOLEAN]
    <3>1. disturbed \in [Proc -> BOOLEAN] /\ failed \in [Proc -> BOOLEAN]
      BY DEF JitcInv, JitcTyped
    <3>2. QED
      BY <1>3, <3>1
  <2>4. lost' \in [Proc -> Nat] /\ \A p \in Proc : lost'[p] <= written'[p]
    <3>1. /\ lost \in [Proc -> Nat] /\ written \in [Proc -> Nat]
          /\ \A p \in Proc : lost[p] <= written[p]
      BY DEF JitcInv, JitcTyped
    <3>2. lost' \in [Proc -> Nat] /\ \A p \in Proc : lost'[p] = lost[p] \/ (p = r /\ lost'[p] = lost[p] + 1)
      BY <1>3, <3>1
    <3>3. ASSUME NEW p \in Proc PROVE lost'[p] <= written'[p]
      <4>1. CASE p = r
        <5>1. written'[p] = written[p] + 1
          BY <1>2, <3>1, <4>1 DEF n
        <5>2. lost[p] \in Nat /\ written[p] \in Nat /\ lost[p] <= written[p]
          BY <3>1
        <5>3. QED
          BY <3>2, <5>1, <5>2
      <4>2. CASE p # r
        <5>1. written'[p] = written[p] /\ lost'[p] = lost[p]
          BY <1>2, <3>1, <3>2, <4>2
        <5>2. QED
          BY <3>1, <5>1
      <4>3. QED
        BY <4>1, <4>2
    <3>4. QED
      BY <3>2, <3>3
  <2>5. outc' \in Seq(Piece)
    BY <1>1, <1>3, <1>4
  <2>6. QED
    BY <1>2, <2>1, <2>2, <2>3, <2>4, <2>5 DEF JitcInv, JitcTyped
<1>6. ASSUME NEW p \in Proc PROVE Stage(p)'
  <2>1. CASE p = r
    <3>1. written'[p] = n /\ main'[p] = (IF n = Size[r] THEN "fork" ELSE "write")
      BY <1>2, <2>1 DEF JitcInv, JitcTyped
    <3>2. gcc'[p] = "none" /\ jitc'[p] = "null"
      BY <1>2, <2>1 DEF JitcInv, Stage
    <3>3. QED
      BY <1>1, <2>1, <3>1, <3>2 DEF Stage
  <2>2. CASE p # r
    <3>1. written'[p] = written[p] /\ main'[p] = main[p]
      BY <1>2, <2>2 DEF JitcInv, JitcTyped
    <3>2. QED
      BY <1>2, <3>1 DEF JitcInv, Stage
  <2>3. QED
    BY <2>1, <2>2
<1>7. ASSUME NEW p \in Proc, ~disturbed'[p], lost'[p] = 0 PROVE Undisturbed(p)'
  <2>1. ~disturbed[p] /\ lost[p] = 0 /\ Undisturbed(p)
    <3>1. disturbed \in [Proc -> BOOLEAN] /\ lost \in [Proc -> Nat]
      BY DEF JitcInv, JitcTyped
    <3>2. lost'[p] = lost[p] \/ lost'[p] = lost[p] + 1
      BY <1>3, <3>1
    <3>3. ~disturbed[p]
      BY <1>3, <1>7, <3>1
    <3>4. lost[p] = 0
      <4>1. lost[p] \in Nat
        BY <3>1
      <4>2. QED
        BY <1>7, <3>2, <4>1
    <3>5. QED
      BY <3>3, <3>4 DEF JitcInv
  <2>2. Excused(p)'
    <3>1. failed[p] => failed'[p]
      BY <1>3 DEF JitcInv, JitcTyped
    <3>2. QED
      BY <1>2, <2>1, <3>1 DEF Undisturbed, Excused
  <2>3. CASE p = r
    <3>1. main'[p] \in {"write", "fork"} /\ jitc'[p] = "null"
      BY <1>2, <2>3 DEF JitcInv, JitcTyped, Stage
    <3>2. /\ Len(outc) = n - 1 /\ \A k \in 1 .. n - 1 : outc[k] = <<p, k>>
          /\ at = n
      <4>1. OwnText(p)
        BY <1>2, <2>1, <2>3 DEF Undisturbed, OwnFiles
      <4>2. written[p] = n - 1 /\ at = n
        <5>1. written[r] \in Nat
          BY DEF JitcInv, JitcTyped
        <5>2. QED
          BY <2>1, <2>3, <5>1 DEF n, at
      <4>3. QED
        BY <4>1, <4>2 DEF OwnText
    <3>3. outc' = WriteAt(outc, at, c)
      <4>1. lost \in [Proc -> Nat]
        BY DEF JitcInv, JitcTyped
      <4>2. QED
        BY <1>3, <1>7, <2>1, <2>3, <4>1
    <3>4. Len(outc') = n /\ written'[p] = n /\ m = n
      <4>1. m = n
        BY <1>1, <3>2
      <4>2. QED
        BY <1>2, <1>4, <2>3, <3>3, <4>1 DEF JitcInv, JitcTyped
    <3>5. ASSUME NEW k \in 1 .. n PROVE outc'[k] = <<p, k>>
      <4>1. outc'[k] = IF k = n THEN c ELSE IF k <= Len(outc) THEN outc[k] ELSE Hole
        BY <1>4, <3>2, <3>3, <3>4
      <4>2. CASE k = n
        BY <2>3, <4>1, <4>2
      <4>3. CASE k # n
        BY <1>1, <3>2, <4>1, <4>3
      <4>4. QED
        BY <4>2, <4>3
    <3>6. OwnText(p)'
      BY <3>4, <3>5 DEF OwnText
    <3>7. QED
      BY <2>2, <3>1, <3>6 DEF Undisturbed, OwnFiles, Loaded
  <2>4. CASE p # r
    <3>1. main'[p] = main[p] /\ written'[p] = written[p]
      BY <1>2, <2>4 DEF JitcInv, JitcTyped
    <3>2. CASE UNCHANGED outc
      <4>1. OwnText(p)' <=> OwnText(p)
        BY <3>1, <3>2 DEF OwnText
      <4>2. QED
        BY <1>2, <2>1, <2>2, <3>1, <4>1 DEF Undisturbed, OwnFiles, Loaded
    <3>3. CASE main[p] \notin {"write", "fork", "wait", "open"}
      BY <1>2, <2>1, <2>2, <3>1, <3>3 DEF Undisturbed, OwnFiles, Loaded
    <3>4. QED
      BY <1>3, <1>7, <2>4, <3>2, <3>3 DEF JitcInv, JitcTyped
  <2>5. QED
    BY <2>3, <2>4
<1>8. QED
  BY <1>5, <1>6, <1>7 DEF JitcInv

(* The compiler of an undisturbed process finds its process's program, which *)
(* is no other's and not of several authors.                                 *)
LEMMA Cc1Keeps ==
  ASSUME JitcInv, NEW r \in Proc, Cc1(r)
  PROVE  JitcInv'
<1> USE DEF Cc1, GccGoto
<1>1. JitcTyped'
  <2>1. gcc' \in [Proc -> {"none", "cc1", "ld", "fill", "exit 0", "exit 1", "killed"}]
    BY ZenonT(60) DEF JitcInv, JitcTyped
  <2>2. obj' \in [Proc -> Who]
    BY ZenonT(60) DEF JitcInv, JitcTyped, Who, Mixed
  <2>3. failed' \in [Proc -> BOOLEAN]
    BY DEF JitcInv, JitcTyped
  <2>4. UNCHANGED <<outc, outso, main, jitc, written, lost, lib, printed, ub, disturbed>>
    OBVIOUS
  <2> HIDE DEF Cc1
  <2>5. QED
    BY <2>1, <2>2, <2>3, <2>4 DEF JitcInv, JitcTyped
<1>2. ASSUME NEW p \in Proc PROVE Stage(p)'
  BY JitcAssumption DEF JitcInv, JitcTyped, Stage, Who
<1>3. ASSUME NEW p \in Proc, ~disturbed'[p], lost'[p] = 0 PROVE Undisturbed(p)'
  <2>1. ~disturbed[p] /\ Undisturbed(p)
    BY <1>3 DEF JitcInv, JitcTyped
  <2>2. OwnText(p)' <=> OwnText(p)
    BY DEF OwnText
  <2>3. Loaded(p)' /\ UNCHANGED <<main, outso>>
    BY <2>1 DEF Undisturbed, Loaded
  <2>4. Excused(p)'
    <3>1. failed[p] => failed'[p]
      OBVIOUS
    <3>2. QED
      BY <2>1, <3>1 DEF Undisturbed, Excused
  <2>5. CASE p # r
    <3>1. gcc'[p] = gcc[p] /\ obj'[p] = obj[p]
      BY <2>5 DEF JitcInv, JitcTyped
    <3>2. QED
      BY <2>1, <2>2, <2>3, <2>4, <3>1 DEF Undisturbed, OwnFiles
  <2>6. CASE p = r /\ main[p] \notin {"wait", "open"}
    BY <2>1, <2>2, <2>3, <2>4, <2>6 DEF Undisturbed, OwnFiles
  <2>7. CASE p = r /\ main[p] \in {"wait", "open"}
    <3>1. /\ Size[p] \in Nat \ {0} /\ Len(outc) = Size[p]
          /\ \A k \in 1 .. Size[p] : outc[k] = <<p, k>>
      BY <2>1, <2>7, JitcAssumption DEF Undisturbed, OwnFiles, OwnText, JitcInv, Stage
    <3>2. ~(Cardinality(Authors) > 1) /\ ~Gap
      <4> HIDE DEF Cc1
      <4>1. DOMAIN outc = 1 .. Size[p]
        <5>1. outc \in Seq(Piece)
          BY DEF JitcInv, JitcTyped
        <5>2. QED
          BY <3>1, <5>1
      <4>2. Authors \subseteq {p}
        BY <3>1, <4>1 DEF Authors
      <4>3. p \in Authors
        <5>1. 1 \in DOMAIN outc /\ outc[1][1] = p
          BY <3>1, <4>1
        <5>2. QED
          BY <5>1 DEF Authors
      <4>4. Authors = {p}
        BY <4>2, <4>3
      <4>5. Cardinality(Authors) = 1
        BY <4>4, FS_Singleton
      <4>6. ~Gap
        BY <3>1, <4>1 DEF Gap
      <4>7. QED
        BY <4>5, <4>6
    <3>3. ASSUME NEW q \in Proc, outc = Program(q) PROVE q = p
      <4> HIDE DEF Cc1
      <4>1. Size[q] \in Nat \ {0}
        BY JitcAssumption
      <4>2. Program(q)[1] = <<q, 1>>
        BY <4>1 DEF Program
      <4>3. outc[1] = <<p, 1>>
        BY <3>1
      <4>4. QED
        BY <3>3, <4>2, <4>3
    <3>4. gcc'[p] \in {"ld", "fill", "exit 0"} => obj'[p] = p /\ gcc'[p] = "ld"
      BY <2>7, <3>2, <3>3 DEF JitcInv, JitcTyped
    <3>5. QED
      BY <2>1, <2>2, <2>3, <2>4, <2>7, <3>4 DEF Undisturbed, OwnFiles, JitcInv, JitcTyped
  <2>8. QED
    BY <2>5, <2>6, <2>7
<1>4. QED
  BY <1>1, <1>2, <1>3 DEF JitcInv

(* A fork, or one that fails, keeps the invariant: the new child has done    *)
(* nothing yet.                                                              *)
LEMMA ForkKeeps ==
  ASSUME JitcInv, NEW r \in Proc, Fork(r)
  PROVE  JitcInv'
<1> USE DEF Fork, Goto, GccGoto, SystemFails
<1>1. JitcTyped'
  BY JitcAssumption DEF JitcInv, JitcTyped, Stage, Locations, Who
<1>2. ASSUME NEW p \in Proc PROVE Stage(p)'
  BY JitcAssumption, ZenonT(60) DEF JitcInv, JitcTyped, Stage, Who
<1>3. ASSUME NEW p \in Proc, ~disturbed'[p], lost'[p] = 0 PROVE Undisturbed(p)'
  <2>1. ~disturbed[p] /\ Undisturbed(p)
    BY <1>3 DEF JitcInv, JitcTyped
  <2>2. OwnText(p) => OwnText(p)'
    BY DEF OwnText
  <2>3. OwnFiles(p)'
    BY <1>3, <2>1, <2>2, ZenonT(60) DEF JitcInv, JitcTyped, Stage, Undisturbed, OwnFiles, Who
  <2>4. Loaded(p)'
    <3>1. lib = lib' /\ jitc = jitc' /\ printed = printed'
      OBVIOUS
    <3>2. main'[p] \in {"delete", "close", "ok"} => main[p] \in {"delete", "close", "ok"}
      BY DEF JitcInv, JitcTyped
    <3>3. QED
      BY <2>1, <3>1, <3>2 DEF Undisturbed, Loaded
  <2>5. Excused(p)'
    <3>1. jitc = jitc' /\ ub = ub'
      OBVIOUS
    <3>2. failed[p] => failed'[p]
      BY DEF JitcInv, JitcTyped
    <3>3. QED
      BY <2>1, <3>1, <3>2 DEF Undisturbed, Excused
  <2>6. QED
    BY <2>3, <2>4, <2>5 DEF Undisturbed
<1>4. QED
  BY <1>1, <1>2, <1>3 DEF JitcInv

(* A compiler that fails or is killed keeps the invariant: it leaves no      *)
(* exit 0.                                                                   *)
LEMMA GccFailsKeeps ==
  ASSUME JitcInv, NEW r \in Proc, GccFails(r)
  PROVE  JitcInv'
<1> USE DEF GccFails, GccGoto, SystemFails
<1>1. JitcTyped'
  BY JitcAssumption DEF JitcInv, JitcTyped, Stage, Locations, Who
<1>2. ASSUME NEW p \in Proc PROVE Stage(p)'
  BY JitcAssumption DEF JitcInv, JitcTyped, Stage, Who
<1>3. ASSUME NEW p \in Proc, ~disturbed'[p], lost'[p] = 0 PROVE Undisturbed(p)'
  <2>1. ~disturbed[p] /\ Undisturbed(p)
    BY <1>3 DEF JitcInv, JitcTyped
  <2>2. OwnText(p) => OwnText(p)'
    BY DEF OwnText
  <2>3. OwnFiles(p)'
    BY <1>3, <2>1, <2>2, ZenonT(60) DEF JitcInv, JitcTyped, Stage, Undisturbed, OwnFiles, Who
  <2>4. Loaded(p)'
    BY <2>1, <1>3 DEF JitcInv, JitcTyped, Stage, Undisturbed, Loaded, OwnFiles, Who
  <2>5. Excused(p)'
    BY <2>1, ZenonT(60) DEF JitcInv, JitcTyped, Stage, Undisturbed, Excused, OwnFiles, Who
  <2>6. QED
    BY <2>3, <2>4, <2>5 DEF Undisturbed
<1>4. QED
  BY <1>1, <1>2, <1>3 DEF JitcInv

(* The linker replaces out.so, and every other process at the files is       *)
(* thereby disturbed.                                                        *)
LEMMA LdKeeps ==
  ASSUME JitcInv, NEW r \in Proc, Ld(r)
  PROVE  JitcInv'
<1> USE DEF Ld, GccGoto, Disturb
<1>1. JitcTyped'
  BY JitcAssumption DEF JitcInv, JitcTyped, Stage, Locations, Who
<1>2. ASSUME NEW p \in Proc PROVE Stage(p)'
  BY JitcAssumption DEF JitcInv, JitcTyped, Stage, Who
<1>3. ASSUME NEW p \in Proc, ~disturbed'[p], lost'[p] = 0 PROVE Undisturbed(p)'
  <2>1. ~disturbed[p] /\ Undisturbed(p)
    BY <1>3 DEF JitcInv, JitcTyped
  <2>2. OwnText(p) => OwnText(p)'
    BY DEF OwnText
  <2>3. OwnFiles(p)'
    BY <1>3, <2>1, <2>2, ZenonT(60) DEF JitcInv, JitcTyped, Stage, Undisturbed, OwnFiles, Who
  <2>4. Loaded(p)'
    BY <2>1, <1>3 DEF JitcInv, JitcTyped, Stage, Undisturbed, Loaded, OwnFiles, Who
  <2>5. Excused(p)'
    BY <2>1 DEF JitcInv, JitcTyped, Stage, Undisturbed, Excused, OwnFiles, Who
  <2>6. QED
    BY <2>3, <2>4, <2>5 DEF Undisturbed
<1>4. QED
  BY <1>1, <1>2, <1>3 DEF JitcInv

(* The linker completes out.so when the name is still that of its file, as   *)
(* it is for an undisturbed process.                                         *)
LEMMA LdEndsKeeps ==
  ASSUME JitcInv, NEW r \in Proc, LdEnds(r)
  PROVE  JitcInv'
<1> USE DEF LdEnds, GccGoto, Disturb
<1>1. JitcTyped'
  BY JitcAssumption DEF JitcInv, JitcTyped, Stage, Locations, Who
<1>2. ASSUME NEW p \in Proc PROVE Stage(p)'
  BY JitcAssumption DEF JitcInv, JitcTyped, Stage, Who
<1>3. ASSUME NEW p \in Proc, ~disturbed'[p], lost'[p] = 0 PROVE Undisturbed(p)'
  <2>1. ~disturbed[p] /\ Undisturbed(p)
    BY <1>3 DEF JitcInv, JitcTyped
  <2>2. OwnText(p) => OwnText(p)'
    BY DEF OwnText
  <2>3. OwnFiles(p)'
    BY <1>3, <2>1, <2>2 DEF JitcInv, JitcTyped, Stage, Undisturbed, OwnFiles, Who
  <2>4. Loaded(p)'
    BY <2>1, <1>3 DEF JitcInv, JitcTyped, Stage, Undisturbed, Loaded, OwnFiles, Who
  <2>5. Excused(p)'
    BY <2>1 DEF JitcInv, JitcTyped, Stage, Undisturbed, Excused, OwnFiles, Who
  <2>6. QED
    BY <2>3, <2>4, <2>5 DEF Undisturbed
<1>4. QED
  BY <1>1, <1>2, <1>3 DEF JitcInv

(* Waiting keeps the invariant: only exit 0 leads on to the open.            *)
LEMMA WaitPidKeeps ==
  ASSUME JitcInv, NEW r \in Proc, WaitPid(r)
  PROVE  JitcInv'
<1> USE DEF WaitPid, Succeeded, Goto, SystemFails
<1>1. JitcTyped'
  BY JitcAssumption DEF JitcInv, JitcTyped, Stage, Locations, Who
<1>2. ASSUME NEW p \in Proc PROVE Stage(p)'
  BY JitcAssumption, ZenonT(60) DEF JitcInv, JitcTyped, Stage, Who
<1>3. ASSUME NEW p \in Proc, ~disturbed'[p], lost'[p] = 0 PROVE Undisturbed(p)'
  <2>1. ~disturbed[p] /\ Undisturbed(p)
    BY <1>3 DEF JitcInv, JitcTyped
  <2>2. OwnText(p) => OwnText(p)'
    BY DEF OwnText
  <2>3. OwnFiles(p)'
    BY <1>3, <2>1, <2>2 DEF JitcInv, JitcTyped, Stage, Undisturbed, OwnFiles, Who
  <2>4. Loaded(p)'
    <3>1. lib = lib' /\ jitc = jitc' /\ printed = printed'
      OBVIOUS
    <3>2. main'[p] \in {"delete", "close", "ok"} => main[p] \in {"delete", "close", "ok"}
      BY DEF JitcInv, JitcTyped
    <3>3. QED
      BY <2>1, <3>1, <3>2 DEF Undisturbed, Loaded
  <2>5. Excused(p)'
    <3>1. jitc = jitc' /\ ub = ub'
      OBVIOUS
    <3>2. failed[p] => failed'[p]
      BY DEF JitcInv, JitcTyped
    <3>3. QED
      BY <2>1, <3>1, <3>2 DEF Undisturbed, Excused
  <2>6. QED
    BY <2>3, <2>4, <2>5 DEF Undisturbed
<1>4. QED
  BY <1>1, <1>2, <1>3 DEF JitcInv

(* What an undisturbed process loads is its own; it has freed memory in      *)
(* hand only if the system failed.                                           *)
LEMMA OpenKeeps ==
  ASSUME JitcInv, NEW r \in Proc, jitc_open(r)
  PROVE  JitcInv'
<1> USE DEF jitc_open, Goto, SystemFails
<1>1. JitcTyped'
  BY JitcAssumption, ZenonT(60) DEF JitcInv, JitcTyped, Stage, Locations, Who
<1>2. ASSUME NEW p \in Proc PROVE Stage(p)'
  <2>1. CASE p = r
    <3>1. main'[p] = "lookup"
      BY <2>1 DEF JitcInv, JitcTyped
    <3>2. QED
      BY <3>1 DEF Stage
  <2>2. CASE p # r
    <3>1. main'[p] = main[p] /\ jitc'[p] = jitc[p] /\ gcc'[p] = gcc[p] /\ written'[p] = written[p]
      BY <2>2 DEF JitcInv, JitcTyped
    <3>2. QED
      BY <3>1 DEF JitcInv, Stage
  <2>3. QED
    BY <2>1, <2>2
<1>3. ASSUME NEW p \in Proc, ~disturbed'[p], lost'[p] = 0 PROVE Undisturbed(p)'
  <2>1. ~disturbed[p] /\ Undisturbed(p)
    BY <1>3 DEF JitcInv, JitcTyped
  <2>2. OwnText(p) => OwnText(p)'
    BY DEF OwnText
  <2>3. OwnFiles(p)'
    BY <1>3, <2>1, <2>2 DEF JitcInv, JitcTyped, Stage, Undisturbed, OwnFiles, Who
  <2>4. Loaded(p)'
    <3>1. CASE p # r
      <4>1. lib'[p] = lib[p] /\ jitc'[p] = jitc[p] /\ printed' = printed /\ main'[p] = main[p]
        BY <3>1 DEF JitcInv, JitcTyped
      <4>2. QED
        BY <2>1, <4>1 DEF Undisturbed, Loaded
    <3>2. CASE p = r
      <4>1. main'[p] = "lookup"
        BY <3>2 DEF JitcInv, JitcTyped
      <4>2. outso.prog = p /\ jitc[p] = "null"
        BY <2>1, <3>2 DEF JitcInv, Stage, Undisturbed, OwnFiles
      <4>3. jitc'[p] = "live" => lib'[p] = outso.prog
        BY <3>2, <4>2 DEF JitcInv, JitcTyped
      <4>4. QED
        BY <4>1, <4>2, <4>3 DEF Loaded
    <3>3. QED
      BY <3>1, <3>2
  <2>5. Excused(p)'
    <3>1. CASE p # r
      <4>1. failed'[p] = failed[p] /\ jitc'[p] = jitc[p] /\ ub' = ub
        BY <3>1 DEF JitcInv, JitcTyped
      <4>2. QED
        BY <2>1, <4>1 DEF Undisturbed, Excused
    <3>2. CASE p = r
      <4>1. outso.whole /\ jitc[p] = "null"
        BY <2>1, <3>2 DEF JitcInv, Stage, Undisturbed, OwnFiles
      <4>2. jitc'[p] = "freed" => failed'[p]
        BY <3>2, <4>1 DEF JitcInv, JitcTyped
      <4>3. ub'[p] = ub[p] /\ (failed[p] => failed'[p])
        BY <3>2 DEF JitcInv, JitcTyped
      <4>4. QED
        BY <2>1, <4>2, <4>3 DEF Undisturbed, Excused
    <3>3. QED
      BY <3>1, <3>2
  <2>6. QED
    BY <2>3, <2>4, <2>5 DEF Undisturbed
<1>4. QED
  BY <1>1, <1>2, <1>3 DEF JitcInv

(* A lookup leads on only with a live handle, and uses freed memory only     *)
(* where a failure has left some.                                            *)
LEMMA LookupKeeps ==
  ASSUME JitcInv, NEW r \in Proc, jitc_lookup(r)
  PROVE  JitcInv'
<1> USE DEF jitc_lookup, CloseAfterFailure, Goto, SystemFails
<1>1. JitcTyped'
  BY JitcAssumption DEF JitcInv, JitcTyped, Stage, Locations, Who
<1>2. ASSUME NEW p \in Proc PROVE Stage(p)'
  BY JitcAssumption, ZenonT(60) DEF JitcInv, JitcTyped, Stage, Who
<1>3. ASSUME NEW p \in Proc, ~disturbed'[p], lost'[p] = 0 PROVE Undisturbed(p)'
  <2>1. ~disturbed[p] /\ Undisturbed(p)
    BY <1>3 DEF JitcInv, JitcTyped
  <2>2. OwnText(p) => OwnText(p)'
    BY DEF OwnText
  <2>3. OwnFiles(p)'
    BY <1>3, <2>1, <2>2, ZenonT(60) DEF JitcInv, JitcTyped, Stage, Undisturbed, OwnFiles, Who
  <2>4. Loaded(p)'
    <3>1. /\ lib' = lib /\ printed' = printed
          /\ jitc'[p] = "live" => jitc[p] = "live"
          /\ main'[p] \in {"delete", "close", "ok"} => main[p] \in {"delete", "close", "ok"}
      BY DEF JitcInv, JitcTyped
    <3>2. QED
      BY <2>1, <3>1 DEF Undisturbed, Loaded
  <2>5. Excused(p)'
    <3>1. failed[p] => failed'[p]
      BY DEF JitcInv, JitcTyped
    <3>2. jitc'[p] = "freed" => jitc[p] = "freed"
      BY DEF JitcInv, JitcTyped
    <3>3. ub'[p] => ub[p] \/ jitc[p] = "freed"
      BY DEF JitcInv, JitcTyped
    <3>4. QED
      BY <2>1, <3>1, <3>2, <3>3 DEF Undisturbed, Excused
  <2>6. QED
    BY <2>3, <2>4, <2>5 DEF Undisturbed
<1>4. QED
  BY <1>1, <1>2, <1>3 DEF JitcInv

(* The value printed is that of the program loaded.                          *)
LEMMA CallKeeps ==
  ASSUME JitcInv, NEW r \in Proc, Call(r)
  PROVE  JitcInv'
<1> USE DEF Call, Goto
<1>1. JitcTyped'
  BY JitcAssumption DEF JitcInv, JitcTyped, Stage, Locations, Who
<1>2. ASSUME NEW p \in Proc PROVE Stage(p)'
  BY JitcAssumption DEF JitcInv, JitcTyped, Stage, Who
<1>3. ASSUME NEW p \in Proc, ~disturbed'[p], lost'[p] = 0 PROVE Undisturbed(p)'
  <2>1. ~disturbed[p] /\ Undisturbed(p)
    BY <1>3 DEF JitcInv, JitcTyped
  <2>2. OwnText(p) => OwnText(p)'
    BY DEF OwnText
  <2>3. OwnFiles(p)'
    BY <1>3, <2>1, <2>2 DEF JitcInv, JitcTyped, Stage, Undisturbed, OwnFiles, Who
  <2>4. Loaded(p)'
    <3>1. CASE p # r
      <4>1. lib' = lib /\ jitc' = jitc /\ printed'[p] = printed[p] /\ main'[p] = main[p]
        BY <3>1 DEF JitcInv, JitcTyped
      <4>2. QED
        BY <2>1, <4>1 DEF Undisturbed, Loaded
    <3>2. CASE p = r
      <4>1. printed'[p] = lib[p] /\ lib' = lib /\ jitc' = jitc
        BY <3>2 DEF JitcInv, JitcTyped
      <4>2. jitc[p] = "live"
        BY <3>2 DEF JitcInv, Stage
      <4>3. QED
        BY <2>1, <4>1, <4>2 DEF Undisturbed, Loaded
    <3>3. QED
      BY <3>1, <3>2
  <2>5. Excused(p)'
    BY <2>1 DEF Undisturbed, Excused
  <2>6. QED
    BY <2>3, <2>4, <2>5 DEF Undisturbed
<1>4. QED
  BY <1>1, <1>2, <1>3 DEF JitcInv

(* Deleting out.so comes when the process itself no longer needs it, and     *)
(* disturbs the others.                                                      *)
LEMMA DeleteKeeps ==
  ASSUME JitcInv, NEW r \in Proc, file_delete(r)
  PROVE  JitcInv'
<1> USE DEF file_delete, NoFile, Goto, Disturb
<1>1. JitcTyped'
  BY JitcAssumption DEF JitcInv, JitcTyped, Stage, Locations, Who
<1>2. ASSUME NEW p \in Proc PROVE Stage(p)'
  BY JitcAssumption DEF JitcInv, JitcTyped, Stage, Who
<1>3. ASSUME NEW p \in Proc, ~disturbed'[p], lost'[p] = 0 PROVE Undisturbed(p)'
  <2>1. ~disturbed[p] /\ Undisturbed(p)
    BY <1>3 DEF JitcInv, JitcTyped
  <2>2. OwnText(p) => OwnText(p)'
    BY DEF OwnText
  <2>3. OwnFiles(p)'
    BY <1>3, <2>1, <2>2, ZenonT(60) DEF JitcInv, JitcTyped, Stage, Undisturbed, OwnFiles, Who
  <2>4. Loaded(p)'
    BY <2>1, <1>3 DEF JitcInv, JitcTyped, Stage, Undisturbed, Loaded, OwnFiles, Who
  <2>5. Excused(p)'
    BY <2>1 DEF JitcInv, JitcTyped, Stage, Undisturbed, Excused, OwnFiles, Who
  <2>6. QED
    BY <2>3, <2>4, <2>5 DEF Undisturbed
<1>4. QED
  BY <1>1, <1>2, <1>3 DEF JitcInv

(* Closing keeps the invariant: no handle stays live.                        *)
LEMMA CloseKeeps ==
  ASSUME JitcInv, NEW r \in Proc, jitc_close(r)
  PROVE  JitcInv'
<1> USE DEF jitc_close, Goto
<1>1. JitcTyped'
  BY JitcAssumption DEF JitcInv, JitcTyped, Stage, Locations, Who
<1>2. ASSUME NEW p \in Proc PROVE Stage(p)'
  BY JitcAssumption DEF JitcInv, JitcTyped, Stage, Who
<1>3. ASSUME NEW p \in Proc, ~disturbed'[p], lost'[p] = 0 PROVE Undisturbed(p)'
  <2>1. ~disturbed[p] /\ Undisturbed(p)
    BY <1>3 DEF JitcInv, JitcTyped
  <2>2. OwnText(p) => OwnText(p)'
    BY DEF OwnText
  <2>3. OwnFiles(p)'
    BY <1>3, <2>1, <2>2 DEF JitcInv, JitcTyped, Stage, Undisturbed, OwnFiles, Who
  <2>4. Loaded(p)'
    BY <2>1, <1>3, ZenonT(60) DEF JitcInv, JitcTyped, Stage, Undisturbed, Loaded, OwnFiles, Who
  <2>5. Excused(p)'
    BY <2>1, ZenonT(60) DEF JitcInv, JitcTyped, Stage, Undisturbed, Excused, OwnFiles, Who
  <2>6. QED
    BY <2>3, <2>4, <2>5 DEF Undisturbed
<1>4. QED
  BY <1>1, <1>2, <1>3 DEF JitcInv

(* A process killed anywhere keeps the invariant: its child goes on alone.   *)
LEMMA KillKeeps ==
  ASSUME JitcInv, NEW r \in Proc, Kill(r)
  PROVE  JitcInv'
<1> USE DEF Kill, Goto, SystemFails
<1>1. JitcTyped'
  BY JitcAssumption DEF JitcInv, JitcTyped, Stage, Locations, Who
<1>2. ASSUME NEW p \in Proc PROVE Stage(p)'
  BY JitcAssumption DEF JitcInv, JitcTyped, Stage, Who
<1>3. ASSUME NEW p \in Proc, ~disturbed'[p], lost'[p] = 0 PROVE Undisturbed(p)'
  <2>1. ~disturbed[p] /\ Undisturbed(p)
    BY <1>3 DEF JitcInv, JitcTyped
  <2>2. OwnText(p) => OwnText(p)'
    BY DEF OwnText
  <2>3. OwnFiles(p)'
    BY <1>3, <2>1, <2>2 DEF JitcInv, JitcTyped, Stage, Undisturbed, OwnFiles, Who
  <2>4. Loaded(p)'
    BY <2>1, <1>3 DEF JitcInv, JitcTyped, Stage, Undisturbed, Loaded, OwnFiles, Who
  <2>5. Excused(p)'
    BY <2>1, ZenonT(60) DEF JitcInv, JitcTyped, Stage, Undisturbed, Excused, OwnFiles, Who
  <2>6. QED
    BY <2>3, <2>4, <2>5 DEF Undisturbed
<1>4. QED
  BY <1>1, <1>2, <1>3 DEF JitcInv

-----------------------------------------------------------------------------
(* Every step of a process, of its child, or of the system keeps it.         *)
LEMMA JitcInvNext == JitcInv /\ [JitcNext]_JitcVars => JitcInv'
<1> SUFFICES ASSUME JitcInv, [JitcNext]_JitcVars PROVE JitcInv'
  OBVIOUS
<1>1. CASE UNCHANGED JitcVars
  <2>1. JitcTyped'
    BY <1>1 DEF JitcInv, JitcTyped, JitcVars
  <2>2. \A p \in Proc : Stage(p)'
    BY <1>1 DEF JitcInv, Stage, JitcVars
  <2>3. \A p \in Proc : (~disturbed[p] /\ lost[p] = 0 => Undisturbed(p))'
    BY <1>1 DEF JitcInv, Undisturbed, OwnFiles, OwnText, Loaded, Excused, JitcVars
  <2>4. QED
    BY <2>1, <2>2, <2>3 DEF JitcInv
<1>2. ASSUME NEW r \in Proc, Main(r) PROVE JitcInv'
  BY <1>2, OpenCKeeps, WriteCKeeps, ForkKeeps, WaitPidKeeps, OpenKeeps, LookupKeeps,
     CallKeeps, DeleteKeeps, CloseKeeps DEF Main
<1>3. ASSUME NEW r \in Proc, Child(r) PROVE JitcInv'
  BY <1>3, Cc1Keeps, GccFailsKeeps, LdKeeps, LdEndsKeeps DEF Child
<1>4. ASSUME NEW r \in Proc, Kill(r) PROVE JitcInv'
  BY <1>4, KillKeeps
<1>5. QED
  BY <1>1, <1>2, <1>3, <1>4 DEF JitcNext

(* The invariant holds in every reachable state.                             *)
LEMMA JitcInvariant == JitcSpec => []JitcInv
  BY JitcInvInit, JitcInvNext, PTL DEF JitcSpec

(* A lost write is a failure of the system.                                  *)
LostFails == \A p \in Proc : lost[p] # 0 => failed[p]
LEMMA LostInvariant == JitcSpec => []LostFails
<1>1. JitcInit => LostFails
  BY DEF JitcInit, LostFails
<1>2. JitcInv /\ LostFails /\ [JitcNext]_JitcVars => LostFails'
  <2> SUFFICES ASSUME JitcInv, LostFails, [JitcNext]_JitcVars PROVE LostFails'
    OBVIOUS
  <2>1. failed \in [Proc -> BOOLEAN] /\ lost \in [Proc -> Nat]
    BY DEF JitcInv, JitcTyped
  <2>2. CASE UNCHANGED <<lost, failed>>
    BY <2>2 DEF LostFails
  <2>3. ASSUME NEW r \in Proc, failed' = [failed EXCEPT ![r] = TRUE],
               \A p \in Proc \ {r} : lost'[p] = lost[p]
        PROVE  LostFails'
    BY <2>1, <2>3 DEF LostFails
  <2>4. ASSUME NEW r \in Proc, Main(r) \/ Child(r) \/ Kill(r)
        PROVE  \/ UNCHANGED <<lost, failed>>
               \/ /\ failed' = [failed EXCEPT ![r] = TRUE]
                  /\ \A p \in Proc \ {r} : lost'[p] = lost[p]
    <3>1. CASE WriteC(r)
      BY <2>1, <3>1 DEF WriteC, SystemFails
    <3>2. CASE OpenC(r) \/ Fork(r) \/ WaitPid(r)
      BY <3>2 DEF OpenC, Fork, WaitPid, SystemFails
    <3>3. CASE jitc_open(r) \/ jitc_lookup(r)
      BY <3>3 DEF jitc_open, jitc_lookup, SystemFails
    <3>4. CASE Call(r) \/ file_delete(r) \/ jitc_close(r)
      BY <3>4 DEF Call, file_delete, jitc_close
    <3>5. CASE Child(r)
      BY <3>5 DEF Child, Cc1, GccFails, Ld, LdEnds, SystemFails
    <3>6. CASE Kill(r)
      BY <3>6 DEF Kill, SystemFails
    <3>7. QED
      BY <2>4, <3>1, <3>2, <3>3, <3>4, <3>5, <3>6 DEF Main
  <2>5. CASE UNCHANGED JitcVars
    BY <2>2, <2>5 DEF JitcVars
  <2>6. QED
    BY <2>2, <2>3, <2>4, <2>5 DEF JitcNext
<1>3. QED
  BY <1>1, <1>2, JitcInvariant, PTL DEF JitcSpec

(* Theorem: the state is well formed, and a main() that returns has closed   *)
(* the module it loaded (main.c:135-149).                                    *)
THEOREM JitcTypes == JitcSpec => []JitcTypeOK
<1>1. JitcInv => JitcTypeOK
  <2> SUFFICES ASSUME JitcInv PROVE JitcTypeOK
    OBVIOUS
  <2>1. outc \in Seq((Proc \union {Nobody}) \X Nat)
    BY DEF JitcInv, JitcTyped, Piece, Who
  <2>2. ASSUME NEW p \in Proc
        PROVE  /\ main[p] \in Locations
               /\ gcc[p] \in {"none", "cc1", "ld", "fill", "exit 0", "exit 1", "killed"}
               /\ jitc[p] \in {"null", "live", "freed", "closed"}
               /\ main[p] \in {"ok", "error"} => jitc[p] # "live"
               /\ written[p] \in 0 .. Size[p] /\ lost[p] \in 0 .. written[p]
               /\ {obj[p], lib[p], printed[p]} \subseteq Who
    <3>1. /\ main[p] \in Locations
          /\ gcc[p] \in {"none", "cc1", "ld", "fill", "exit 0", "exit 1", "killed"}
          /\ jitc[p] \in {"null", "live", "freed", "closed"}
      BY DEF JitcInv, JitcTyped
    <3>2. main[p] \in {"ok", "error"} => jitc[p] # "live"
      BY DEF JitcInv, Stage
    <3>3. written[p] \in 0 .. Size[p] /\ lost[p] \in 0 .. written[p]
      <4>1. /\ written[p] \in Nat /\ written[p] <= Size[p] /\ Size[p] \in Nat
            /\ lost[p] \in Nat /\ lost[p] <= written[p]
        BY JitcAssumption DEF JitcInv, JitcTyped
      <4>2. QED
        BY <4>1
    <3>4. obj[p] \in Who /\ lib[p] \in Who /\ printed[p] \in Who
      BY DEF JitcInv, JitcTyped
    <3>5. QED
      BY <3>1, <3>2, <3>3, <3>4
  <2>3. outso \in [by : Who, prog : Who, whole : BOOLEAN]
    BY DEF JitcInv, JitcTyped
  <2>4. QED
    BY <2>1, <2>2, <2>3 DEF JitcTypeOK, Locations, Who
<1>2. QED
  BY JitcInvariant, <1>1, PTL

(* Theorem: whatever an earlier process left in the two files, and however   *)
(* it ended, a process that no other disturbs, and whose writes reach the    *)
(* file, prints the value of its own expression (main.c:115-144).            *)
THEOREM UndisturbedPrintOwn == JitcSpec => []OwnValue
<1>1. JitcInv => OwnValue
  BY DEF JitcInv, Undisturbed, Loaded, OwnValue
<1>2. QED
  BY JitcInvariant, <1>1, PTL

(* Theorem: freed memory is used only after a call of the system failed, or  *)
(* another process was at the files (jitc.c:79-97).                          *)
THEOREM UseOnlyAfterFailure == JitcSpec => []UseNeedsFailure
<1>1. JitcInv /\ LostFails => UseNeedsFailure
  BY DEF JitcInv, LostFails, Undisturbed, Excused, UseNeedsFailure
<1>2. QED
  BY JitcInvariant, LostInvariant, <1>1, PTL
=============================================================================
