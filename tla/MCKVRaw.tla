------------------------------ MODULE MCKVRaw ------------------------------
(* A small instance of KVRaw: a key that looks like the mark of a record, a  *)
(* tombstone, and a value that, misread as a link, is within META_LEN of the *)
(* width of an offset.                                                       *)
EXTENDS KVRaw

MCKeyBytes == {<<75, 86>>, <<7>>}
MCValBytes == {<<>>, <<97>>}
=============================================================================
