---------------------------- MODULE MCTableShape ----------------------------
(***************************************************************************)
(* TableShape for the block sizes around the smallest one create accepts,  *)
(* and enough buckets for the modulus to double several times.             *)
(***************************************************************************)
EXTENDS TableShape
=============================================================================
