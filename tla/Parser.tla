------------------------------- MODULE Parser -------------------------------
(***************************************************************************)
(* p1: lexer.c, the recursive descent of parser.c, and the C that main.c   *)
(* generates from the tree, for one expression from argv to parser_close.  *)
(*                                                                         *)
(* "stk" has a frame per call of the descent; a frame that waits for a     *)
(* callee finds its result in "ret". The functions for sums and products   *)
(* are the same but for their operators, and are one here, with a level.   *)
(* Every malloc may fail. A pointer to a node is its place in "nodes", 0   *)
(* is NULL; the value of a number is the place of its token. The numbers   *)
(* are ones that "%f" prints exactly, rounds down, up or to zero, or does  *)
(* not print as a C constant; two in a row are text like "1.1.1".          *)
(***************************************************************************)
EXTENDS Integers, Sequences, FiniteSets, SequencesExt

CONSTANTS
  Texts,  \* the expressions: sequences of lexemes
  Chunk   \* tokens by which the lexer's array grows (100)

Number == {"1", "fine", "finer", "tiny", "inf"}
Operator == {"+", "-", "*", "/", "(", ")"}
Lexeme == Number \union Operator \union {" ", "?"}   \* "?" is no lexeme of the lexer

ASSUME ParserAssumption ==
  /\ Texts \subseteq Seq(Lexeme) /\ Chunk \in Nat \ {0}

VARIABLES
  text, pos,     \* tokenize's s: the expression, and how much of it was read
  tokens, room,  \* lexer->tokens, and for how many there is memory
  i,             \* parser->i
  stk, ret,      \* the calls of the descent, and what the last one returned
  nodes,         \* every struct parser_dag allocated
  dag,           \* parser->dag
  freed,         \* the nodes freed, in this order
  code,          \* the statements generated
  oom,           \* history: an allocation has failed
  pc             \* "open", "lex", "parse", "generate", and how main() ended

vars == <<text, pos, tokens, room, i, stk, ret, nodes, dag, freed, code, oom, pc>>

NULL == 0
Ended == {"null", "abort", "fault", "ok"}

Init ==
  /\ text \in Texts /\ pos = 0 /\ tokens = <<>> /\ room = 0 /\ i = 0
  /\ stk = <<>> /\ ret = NULL /\ nodes = <<>> /\ dag = NULL /\ freed = <<>> /\ code = <<>>
  /\ oom = FALSE /\ pc = "open"

\* What strtod reads, in units of 10^-7: 1, 1.0000001, 1.0000007, 0.0000004.
\* The values are what matters here, not how a text writes them.
Units ==
  [t \in Number \ {"inf"} |->
     CASE t = "1" -> 10000000 [] t = "fine" -> 10000001 [] t = "finer" -> 10000007 [] t = "tiny" -> 4]

-----------------------------------------------------------------------------
(***************************************************************************)
(* The lexer.                                                              *)
(***************************************************************************)
Parsing == UNCHANGED <<i, stk, ret, nodes, dag, freed, code>>

\* parser_open asserts that there is a text, and allocates itself and a lexer.
parser_open ==
  /\ pc = "open"
  /\ \/ text = <<>> /\ pc' = "abort" /\ UNCHANGED oom
     \/ text # <<>> /\ pc' = "lex" /\ UNCHANGED oom
     \/ text # <<>> /\ pc' = "null" /\ oom' = TRUE
  /\ UNCHANGED <<text, pos, tokens, room>> /\ Parsing

\* Mutant: the first tokens are written before there is an array.
Full_Late == Len(tokens) > 0 /\ Len(tokens) % Chunk = 0
Full == Len(tokens) % Chunk = 0

mktoken(t) ==
  /\ tokens' = Append(tokens, t)
  /\ room' = IF Full THEN Len(tokens) + Chunk ELSE room
  /\ UNCHANGED oom

mktokenFails ==
  /\ pc = "lex" /\ pos < Len(text) /\ text[pos + 1] # " " /\ Full
  /\ pc' = "null" /\ oom' = TRUE
  /\ UNCHANGED <<text, pos, tokens, room>> /\ Parsing

\* strtod takes nothing of "?", when its token has been made.
Lex ==
  /\ pc = "lex" /\ pos < Len(text) /\ text[pos + 1] # " "
  /\ mktoken(text[pos + 1])
  /\ pos' = pos + 1 /\ pc' = IF text[pos + 1] = "?" THEN "null" ELSE "lex"
  /\ UNCHANGED text /\ Parsing

\* Mutant: a blank is not passed over.
Blank_Stays ==
  /\ pc = "lex" /\ pos < Len(text) /\ text[pos + 1] = " "
  /\ UNCHANGED vars
Blank ==
  /\ pc = "lex" /\ pos < Len(text) /\ text[pos + 1] = " "
  /\ pos' = pos + 1
  /\ UNCHANGED <<text, tokens, room, oom, pc>> /\ Parsing

-----------------------------------------------------------------------------
(***************************************************************************)
(* The descent. A frame is where its function is, the level for those that *)
(* have one, and the function's variables "left" and "dag".                *)
(***************************************************************************)
Frame(at, level, l, d) == [at |-> at, level |-> level, left |-> l, dag |-> d]
expr_unary == <<Frame("unary", "", NULL, NULL)>>
expr_multiplicative == <<Frame("first", "mul", NULL, NULL)>> \o expr_unary
expr == <<Frame("first", "add", NULL, NULL)>> \o expr_multiplicative
Operand(level) == IF level = "add" THEN expr_multiplicative ELSE expr_unary
Rest(level, l) == <<Frame("loop", level, l, l)>>

OpOf == [t \in {"+", "-", "*", "/"} |->
           CASE t = "+" -> "ADD" [] t = "-" -> "SUB" [] t = "*" -> "MUL" [] t = "/" -> "DIV"]
Operators(level) == IF level = "add" THEN {"+", "-"} ELSE {"*", "/"}

next == IF i < Len(tokens) THEN tokens[i + 1] ELSE "end"
forward == i' = IF i < Len(tokens) THEN i + 1 ELSE i

top == Last(stk)
Become(frames) == stk' = Front(stk) \o frames /\ ret' = NULL
Return(d) == stk' = Front(stk) /\ ret' = d
At(place) == pc = "parse" /\ top.at = place

Lexed == UNCHANGED <<text, pos, tokens, room, dag, freed, code, pc>>

\* The text is read: top() calls expr(), unless there is no token.
Start ==
  /\ pc = "lex" /\ pos = Len(text)
  /\ IF tokens = <<>>
     THEN pc' = "null" /\ UNCHANGED stk
     ELSE pc' = "parse" /\ stk' = <<Frame("top", "", NULL, NULL)>> \o expr
  /\ UNCHANGED <<text, pos, tokens, room, i, ret, nodes, dag, freed, code, oom>>

\* Mutant: the node is cleared after it was numbered.
NewId_Cleared == 0
NewId == Len(nodes) + 1

\* MKD: the node, or NULL returned from the function that wanted it.
MKD(op, val, l) ==
  nodes' = Append(nodes, [op |-> op, id |-> NewId, val |-> val, left |-> l, right |-> NULL])
New == Len(nodes) + 1
MKDFails == Return(NULL) /\ oom' = TRUE /\ UNCHANGED <<i, nodes>>

\* Mutant: the right operand is put on the left.
SetRight_Left(d, r) == nodes' = [nodes EXCEPT ![d].left = r]
SetRight(d, r) == nodes' = [nodes EXCEPT ![d].right = r]

Primary ==
  /\ At("primary")
  /\ \/ /\ next \in Number
        /\ \/ MKD("VAL", i + 1, NULL) /\ Return(New) /\ forward /\ UNCHANGED oom
           \/ MKDFails
     \/ next = "(" /\ forward /\ Become(<<Frame("paren", "", NULL, NULL)>> \o expr) /\ UNCHANGED <<nodes, oom>>
     \/ next \notin Number \union {"("} /\ Return(NULL) /\ UNCHANGED <<i, nodes, oom>>
  /\ Lexed

Paren ==
  /\ At("paren")
  /\ IF ret # NULL /\ next = ")" THEN Return(ret) /\ forward ELSE Return(NULL) /\ UNCHANGED i
  /\ UNCHANGED <<nodes, oom>> /\ Lexed

Unary ==
  /\ At("unary")
  /\ \/ next = "+" /\ forward /\ Become(<<Frame("plus", "", NULL, NULL)>> \o expr_unary) /\ UNCHANGED <<nodes, oom>>
     \/ /\ next = "-"
        /\ \/ /\ MKD("NEG", NULL, NULL) /\ forward
              /\ Become(<<Frame("neg", "", NULL, New)>> \o expr_unary) /\ UNCHANGED oom
           \/ MKDFails
     \/ next \notin {"+", "-"} /\ Become(<<Frame("primary", "", NULL, NULL)>>) /\ UNCHANGED <<i, nodes, oom>>
  /\ Lexed

Plus == At("plus") /\ Return(ret) /\ UNCHANGED <<i, nodes, oom>> /\ Lexed

Neg ==
  /\ At("neg")
  /\ SetRight(top.dag, ret)
  /\ Return(IF ret = NULL THEN NULL ELSE top.dag)
  /\ UNCHANGED <<i, oom>> /\ Lexed

\* expr_additive and expr_multiplicative have their first operand.
First ==
  /\ At("first")
  /\ IF ret = NULL THEN Return(NULL) ELSE Become(Rest(top.level, ret))
  /\ UNCHANGED <<i, nodes, oom>> /\ Lexed

\* expr_additive_ and expr_multiplicative_: the loop.
Loop ==
  /\ At("loop")
  /\ \/ /\ next \in Operators(top.level)
        /\ \/ /\ MKD(OpOf[next], NULL, top.left) /\ forward
              /\ Become(<<Frame("right", top.level, top.left, New)>> \o Operand(top.level))
              /\ UNCHANGED oom
           \/ MKDFails
     \/ next \notin Operators(top.level) /\ Return(top.dag) /\ UNCHANGED <<i, nodes, oom>>
  /\ Lexed

Right ==
  /\ At("right")
  /\ SetRight(top.dag, ret)
  /\ IF ret = NULL THEN Return(NULL)
     ELSE Become(<<Frame("rest", top.level, top.left, NULL)>> \o Rest(top.level, top.dag))
  /\ UNCHANGED <<i, oom>> /\ Lexed

\* The message for a missing operand of + or - is looked up in TBL[2] or
\* TBL[3]: what is read there may be no string at all.
TblFault ==
  /\ At("right") /\ ret = NULL /\ top.level = "add"
  /\ pc' = "fault"
  /\ UNCHANGED <<text, pos, tokens, room, i, stk, ret, nodes, dag, freed, code, oom>>

\* Mutant: what the recursion made of the node is dropped, and the loop goes
\* on with what it had.
AfterRest_Dropped ==
  /\ At("rest")
  /\ IF ret = NULL THEN Return(NULL)
     ELSE Become(<<Frame("loop", top.level, top.left, top.left)>>)
  /\ UNCHANGED <<i, nodes, oom>> /\ Lexed
AfterRest ==
  /\ At("rest")
  /\ IF ret = NULL THEN Return(NULL) ELSE Become(<<Frame("loop", top.level, top.left, ret)>>)
  /\ UNCHANGED <<i, nodes, oom>> /\ Lexed

\* top() and the end of parser_open. Without a tree parser_close frees none of
\* the nodes: parser->dag is NULL.
Top ==
  /\ At("top")
  /\ IF ret # NULL /\ next = "end"
     THEN dag' = ret /\ pc' = "generate"
     ELSE dag' = NULL /\ pc' = "null"
  /\ stk' = <<>> /\ ret' = NULL
  /\ UNCHANGED <<text, pos, tokens, room, i, nodes, freed, code, oom>>

-----------------------------------------------------------------------------
(***************************************************************************)
(* main(): the tree is printed as C and freed.                             *)
(***************************************************************************)
\* The recursion of reflect and of free_dag.
PostOrder(root) ==
  LET visit[n \in 0 .. Len(nodes)] ==
        IF n = NULL THEN <<>>
        ELSE visit[nodes[n].left] \o visit[nodes[n].right] \o <<n>>
  IN visit[root]

IdOf(n) == IF n = NULL THEN NULL ELSE nodes[n].id

\* "%f": a number of 10^-6, the nearest, or no constant of C.
Printed(t) == IF t \in DOMAIN Units THEN <<(Units[t] + 5) \div 10>> ELSE <<>>

\* A statement declares t<id>; a quotient is zero unless t<test> is not.
Statement(n) ==
  [op |-> nodes[n].op, id |-> nodes[n].id,
   val |-> IF nodes[n].op = "VAL" THEN Printed(tokens[nodes[n].val]) ELSE <<>>,
   left |-> IdOf(nodes[n].left), right |-> IdOf(nodes[n].right), test |-> IdOf(nodes[n].right)]

generate == code' = [k \in DOMAIN PostOrder(dag) |-> Statement(PostOrder(dag)[k])]

parser_close == freed' = PostOrder(dag)

Generate ==
  /\ pc = "generate" /\ generate /\ parser_close /\ pc' = "ok"
  /\ UNCHANGED <<text, pos, tokens, room, i, stk, ret, nodes, dag, oom>>

Done == pc \in Ended /\ UNCHANGED vars

Step ==
  \/ parser_open \/ Lex \/ mktokenFails \/ Blank \/ Start
  \/ Primary \/ Paren \/ Unary \/ Plus \/ Neg \/ First
  \/ Loop \/ Right \/ TblFault \/ AfterRest \/ Top
  \/ Generate

Next == Step \/ Done

Spec == Init /\ [][Next]_vars
FairSpec == Spec /\ WF_vars(Step)

-----------------------------------------------------------------------------
(***************************************************************************)
(* Reference definitions.                                                  *)
(***************************************************************************)
\* The trees of tokens a .. b by the grammar in the comments of parser.c, at
\* one of its levels; operators of a level group to the left.
Levels == {"add", "mul", "unary", "primary"}
Below == [add |-> "mul", mul |-> "unary"]
Trees ==
  LET trees[x \in Levels \X (1 .. Len(tokens) + 1) \X (0 .. Len(tokens))] ==
        LET level == x[1]
            a == x[2]
            b == x[3]
        IN IF a > b THEN {}
           ELSE IF level = "primary"
           THEN IF a = b THEN {<<"VAL", t>> : t \in {a} \cap {k \in {a} : tokens[k] \in Number}}
                ELSE IF tokens[a] = "(" /\ tokens[b] = ")" THEN trees[<<"add", a + 1, b - 1>>]
                ELSE {}
           ELSE IF level = "unary"
           THEN CASE tokens[a] = "+" -> trees[<<"unary", a + 1, b>>]
                  [] tokens[a] = "-" -> {<<"NEG", t>> : t \in trees[<<"unary", a + 1, b>>]}
                  [] OTHER -> trees[<<"primary", a, b>>]
           ELSE trees[<<Below[level], a, b>>] \union
                UNION {{<<OpOf[tokens[k]], l, r>> : l \in trees[<<level, a, k - 1>>],
                                                    r \in trees[<<Below[level], k + 1, b>>]} :
                       k \in {k \in a + 1 .. b - 1 : tokens[k] \in Operators(level)}}
  IN trees[<<"add", 1, Len(tokens)>>]

\* The tree at node n, with the leaves as Leaf has them.
Tree(Leaf(_), root) ==
  LET tree[n \in 0 .. Len(nodes)] ==
        LET d == nodes[n]
        IN CASE n = NULL -> <<>>
             [] n # NULL /\ d.op = "VAL" -> Leaf(d.val)
             [] n # NULL /\ d.op = "NEG" -> <<"NEG", tree[d.right]>>
             [] OTHER -> <<d.op, tree[d.left], tree[d.right]>>
  IN tree[root]

Token(k) == <<"VAL", k>>
\* The number of a token, and the nearest that has six decimals.
Exact(k) == <<"VAL", Units[tokens[k]]>>
SixDecimals(u) == u % 10 = 0
Nearest(k) ==
  LET u == Units[tokens[k]]
  IN <<"VAL", CHOOSE m \in u - 5 .. u + 5 : SixDecimals(m)>>

\* gcc takes a block of declarations: no name twice, none before its own, and
\* constants that are constants.
Compiles ==
  \A k \in DOMAIN code :
    LET s == code[k]
        known == {code[j].id : j \in 1 .. k - 1}
    IN /\ s.id \notin known
       /\ {s.left, s.right, s.test} \ {NULL} \subseteq known
       /\ s.op = "VAL" => s.val # <<>>

\* What the declarations leave in t<id>.
Variables ==
  FoldLeft(LAMBDA env, s :
             [t \in DOMAIN env \union {s.id} |->
                IF t # s.id THEN env[t]
                ELSE CASE s.op = "VAL" -> <<"VAL", 10 * s.val[1]>>
                       [] s.op = "NEG" -> <<"NEG", env[s.right]>>
                       [] s.op = "DIV" /\ s.test # s.right -> <<"UNTESTED">>
                       [] OTHER -> <<s.op, env[s.left], env[s.right]>>],
           [t \in {} |-> <<>>], code)

-----------------------------------------------------------------------------
(***************************************************************************)
(* Properties.                                                             *)
(***************************************************************************)
\* The lexer writes no token behind its array, and the parser stays within
\* the tokens (lexer.c:21, parser.c:55).
TypeOK ==
  /\ pos \in 0 .. Len(text) /\ Len(tokens) <= room /\ i \in 0 .. Len(tokens)
  /\ \A n \in DOMAIN nodes : {nodes[n].left, nodes[n].right} \subseteq 0 .. Len(nodes)
  /\ ret \in 0 .. Len(nodes) /\ dag \in 0 .. Len(nodes) /\ oom \in BOOLEAN
  /\ pc \in {"open", "lex", "parse", "generate"} \union Ended
  /\ pc = "parse" => stk # <<>>

\* Unless memory runs out, an expression is accepted exactly when it is a
\* sentence of the grammar in the comments, and its tree is the sentence's,
\* with operators grouped to the left. Only a text that has a sum or a
\* difference and is no sentence can end the program (parser.c:77-292, 237),
\* but for the empty one, at which it aborts (the assertion of parser.c:295).
AcceptsTheGrammar ==
  pc \in Ended /\ ~oom /\ "?" \notin ToSet(tokens) =>
    /\ pc = "abort" <=> text = <<>>
    /\ IF Trees = {} THEN pc # "ok" ELSE pc = "ok" /\ Trees = {Tree(Token, dag)}
    /\ pc = "fault" => \E k \in DOMAIN tokens \ {1} :
                         tokens[k] \in {"+", "-"} /\ tokens[k - 1] \in Number \union {")"}

\* The generated C compiles unless a number is infinite. What it passes to
\* sigmoid is computed by the operations of the tree from its numbers rounded
\* to six decimals (so 1/(1.0000001-1) divides by 1-1 and comes to 0), and is
\* the expression's own value only where rounding leaves every number as it is
\* (main.c:17-80; parser.h:24 has ids "guaranteed to be unique").
CodeComputesTree ==
  pc = "ok" =>
    /\ Compiles <=> "inf" \notin ToSet(tokens)
    /\ Compiles =>
         LET computed == Variables[nodes[dag].id]
         IN /\ computed = Tree(Nearest, dag)
            /\ computed = Tree(Exact, dag) <=>
                 \A t \in Number \cap ToSet(tokens) : SixDecimals(Units[t])

\* No node is freed twice, and after a parse that succeeded none is left:
\* what the descent allocated is all in the tree, once (parser.c:41-49).
FreedOnce ==
  /\ \A k, l \in DOMAIN freed : k # l => freed[k] # freed[l]
  /\ pc = "ok" => ToSet(freed) = DOMAIN nodes

\* The lexer and the descent end, whatever the text (lexer.c:40, parser.c:166).
Ends == <>(pc \in Ended)
=============================================================================
