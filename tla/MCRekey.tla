------------------------------- MODULE MCRekey -------------------------------
(* Rekey with few values, buckets and spill records. *)
EXTENDS Rekey
=============================================================================
