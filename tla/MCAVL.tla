------------------------------- MODULE MCAVL -------------------------------
(* Words small enough to enumerate, with room for a rotation below the root. *)
EXTENDS AVL
CONSTANT NWords
MCWords == 1 .. NWords
=============================================================================
