------------------------------- MODULE MCKVDB -------------------------------
(* A small instance of KVDB: three keys whose chains are as tangled as they  *)
(* get. k1 and k2 share their hash code and their first 8 bytes and are      *)
(* long, k3 shares only the hash code; k4 has a chain of its own.            *)
EXTENDS KVDB

CONSTANTS k1, k2, k3, k4, v1, v2

MCHash == [k \in Key |-> IF k = k4 THEN 2 ELSE 1]
MCPrefix == [k \in Key |-> CASE k = k3 -> 3 [] k = k4 -> 4 [] OTHER -> 1]
=============================================================================
