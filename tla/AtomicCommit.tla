---------------------------- MODULE AtomicCommit ----------------------------
(***************************************************************************)
(* What commit and recover promise together: the database is always one    *)
(* whole state; a transaction in flight either replaces it at once or      *)
(* leaves no trace.                                                        *)
(***************************************************************************)
EXTENDS Sequences

CONSTANT States            \* the databases there may be
VARIABLES db,              \* the database, as the next open will show it
          txn              \* <<s>> while a commit to s is in flight, or <<>>

Init == db \in States /\ txn = <<>>

Begin == txn = <<>> /\ Len(txn') = 1 /\ txn'[1] \in States /\ UNCHANGED db

Commit == txn # <<>> /\ db' = txn[1] /\ txn' = <<>>

Abort == txn # <<>> /\ txn' = <<>> /\ UNCHANGED db

Next == Begin \/ Commit \/ Abort

Spec == Init /\ [][Next]_<<db, txn>>
=============================================================================
