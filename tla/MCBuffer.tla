------------------------------ MODULE MCBuffer ------------------------------
(* Instances of Buffer for TLC: two byte values, a headroom of two bytes,  *)
(* a first capacity of two bytes and an extrabuf of three bytes.           *)
EXTENDS Buffer
=============================================================================
