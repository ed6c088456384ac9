------------------------------ MODULE MCGentex ------------------------------
(* Gentex with three readers and a generation counter of two values. *)
EXTENDS Gentex
=============================================================================
