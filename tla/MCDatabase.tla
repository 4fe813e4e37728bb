----------------------------- MODULE MCDatabase -----------------------------
(* A small instance of Database: two long keys of one length that begin      *)
(* alike, with the codes 0 and 1, which share a chain, and a short one with  *)
(* a code of its own, whose first use grows the table.                       *)
EXTENDS Database

long1 == <<75, 86, 1>>
long2 == <<75, 86, 2>>
short == <<7>>
MCKeyBytes == {long1, long2, short}
MCValBytes == {<<>>, <<9>>}
MCHashOf ==
  [k \in MCKeyBytes |-> CASE k = long1 -> 0 [] k = long2 -> 1 [] k = short -> 4]
=============================================================================
