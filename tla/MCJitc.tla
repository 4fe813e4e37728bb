------------------------------- MODULE MCJitc -------------------------------
(* Two processes, with a program of one chunk and one that can lose a chunk  *)
(* between two others.                                                       *)
EXTENDS Jitc, TLC

CONSTANTS p, q
MCSize == p :> 1 @@ q :> 3
=============================================================================
