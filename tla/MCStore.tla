------------------------------- MODULE MCStore -------------------------------
(***************************************************************************)
(* Store for few threads and keys.  The two keys share a bucket until it   *)
(* is split.                                                               *)
(***************************************************************************)
EXTENDS Store, TLC

CONSTANTS t1, t2, k1, k2

MCThreads == {t1, t2}
MCKeys == {k1, k2}
MCOneKey == {k1}
MChash == [k \in Keys |-> IF k = k1 THEN 0 ELSE 1]
Symmetry == Permutations(MCThreads)
=============================================================================
