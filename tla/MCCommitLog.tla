----------------------------- MODULE MCCommitLog -----------------------------
(* Bounded instance of CommitLog. *)
EXTENDS CommitLog
=============================================================================
