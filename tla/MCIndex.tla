------------------------------ MODULE MCIndex ------------------------------
(* A small instance of Index. With Slack = 1 the capacities are 1, 3, 6 and   *)
(* 10, so the codes force three rehashes and collide modulo each; the sums of *)
(* the two largest wrap.                                                      *)
EXTENDS Index
=============================================================================
