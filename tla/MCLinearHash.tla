---------------------------- MODULE MCLinearHash ----------------------------
(***************************************************************************)
(* LinearHash on few keys: hash functions under which all keys collide,    *)
(* under which they spread over all buckets, and mixtures of the two;      *)
(* full buckets shorter than the header of the key file, and longer ones.  *)
(***************************************************************************)
EXTENDS LinearHash

MCHashFunctions ==
    {[k \in Keys |-> 0], [k \in Keys |-> k % 4],
     [k \in Keys |-> IF k % 2 = 0 THEN 1 ELSE 3]}
MCHeaders == {[capacity |-> 1, load_factor |-> 6], [capacity |-> 2, load_factor |-> 3]}
=============================================================================
