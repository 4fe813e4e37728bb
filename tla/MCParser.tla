------------------------------ MODULE MCParser ------------------------------
(* Every text of up to five lexemes, and longer ones in which operators      *)
(* follow each other, group and nest.                                        *)
EXTENDS Parser

Num == {<<"1">>}
Binary == {<<o>> : o \in {"+", "-", "*", "/"}}
Signed == Num \union {<<"-", "1">>}
Grouped == {<<"(", "1">> \o o \o <<"1", ")">> : o \in Binary}
Cat(A, B) == {a \o b : a \in A, b \in B}

MCTexts ==
  UNION {[1 .. n -> {"1", "+", "-", "*", "/", "(", ")"}] : n \in 0 .. 5}
  \union Cat(Cat(Cat(Cat(Signed, Binary), Num), Binary), Signed)
  \union Cat(Cat(Cat(Cat(Cat(Cat(Num, Binary), Num), Binary), Num), Binary), Num)
  \union Cat(Cat(Grouped, Binary), Num) \union Cat(Cat(Num, Binary), Grouped)
  \union Cat(Cat({<<"tiny">>, <<"fine">>, <<"finer">>, <<"inf">>}, Binary),
             {<<"tiny">>, <<"1", " ">>, <<"?">>, <<" ", "inf">>})
  \union Cat(Cat(Num, Binary), {<<"(", "fine", "-", "1", ")">>, <<"(", "finer", "-", "fine", ")">>})
  \union {<<" ">>, <<"?">>, <<" ", "-", " ", "-", "1", " ">>, <<"(", "1", "-", ")">>}
=============================================================================
