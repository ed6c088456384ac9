-------------------------------- MODULE Create --------------------------------
(***************************************************************************)
(* The three files of a database and create, which makes them              *)
(* (nudb/impl/create.ipp), as a sequence of file operations each of which  *)
(* can fail, upon which create erases what it has made.  Module Rekey adds *)
(* the interruptions, and recover, open and rekey, which meet what an      *)
(* interrupted create has left.                                            *)
(*                                                                         *)
(* The contents the device may hold are kept as in module CommitLog; that  *)
(* a file exists is known to the device at once.                           *)
(***************************************************************************)
EXTENDS Integers, Sequences

VARIABLES
    pc,
    dx, dh, dhO,     \* data file: it exists; its header, "none" or "whole",
                     \* and the possible device contents of that
    kx, kf, kfO,     \* key file: it exists; its header and its buckets
    lx, lg, lgO,     \* log file: it exists; "empty" or "header"
    made,            \* edf, ekf and elf: the files create is to erase if it fails
    before           \* the files that existed when create was called

header == <<dx, dh, dhO>>
keyfile == <<kx, kf, kfO>>
log == <<lx, lg, lgO>>
createVars == <<header, made, before>>

NoKeys == [h |-> "none", b |-> <<>>]
HeaderBlock == [h |-> "block", b |-> <<>>]
OneBucket == [h |-> "block", b |-> <<"built">>]

Files == {f \in {"dat", "key", "log"} :
            (f = "dat" /\ dx) \/ (f = "key" /\ kx) \/ (f = "log" /\ lx)}

-----------------------------------------------------------------------------
(* The files are created, ... *)

\* With a data file in place create returns at once.
CreateDat ==
    /\ pc = "down" /\ ~dx
    /\ before' = Files /\ made' = {"dat"}
    /\ dx' = TRUE /\ dh' = "none" /\ dhO' = {"none"}
    /\ pc' = "c_key"
    /\ UNCHANGED <<keyfile, log>>

CreateKey ==
    /\ pc = "c_key"
    /\ IF kx THEN pc' = "c_undo" /\ UNCHANGED <<keyfile, made>>
       ELSE /\ kx' = TRUE /\ kf' = NoKeys /\ kfO' = {NoKeys}
            /\ made' = made \cup {"key"}
            /\ pc' = "c_log"
    /\ UNCHANGED <<header, log, before>>

CreateLog ==
    /\ pc = "c_log"
    /\ IF lx THEN pc' = "c_undo" /\ UNCHANGED <<log, made>>
       ELSE /\ lx' = TRUE /\ lg' = "empty" /\ lgO' = {"empty"}
            /\ made' = made \cup {"log"}
            /\ pc' = "c_dathdr"
    /\ UNCHANGED <<header, keyfile, before>>

(* ... written, ... *)

\* A header that reaches the device in part is as good as none.
WriteDatHeader ==
    /\ pc = "c_dathdr"
    /\ dh' = "whole" /\ dhO' = dhO \cup {"whole"}
    /\ pc' = "c_keyhdr"
    /\ UNCHANGED <<dx, keyfile, log, made, before>>

\* A whole block at once, unlike rekey.
WriteKeyHeader ==
    /\ pc = "c_keyhdr"
    /\ kf' = HeaderBlock
    /\ kfO' = kfO \cup {HeaderBlock, [h |-> "torn", b |-> <<>>]}
    /\ pc' = "c_bucket"
    /\ UNCHANGED <<header, kx, log, made, before>>

\* The empty bucket is zeros: on the device it is there or the file is shorter.
WriteEmptyBucket ==
    /\ pc = "c_bucket"
    /\ kf' = OneBucket
    /\ kfO' = kfO \cup {OneBucket, [h |-> "torn", b |-> <<"built">>]}
    /\ pc' = "c_datsync"
    /\ UNCHANGED <<header, kx, log, made, before>>

(* ... and synced. *)

SyncDat ==
    /\ pc = "c_datsync"
    /\ dhO' = {dh}
    /\ pc' = "c_keysync"
    /\ UNCHANGED <<dx, dh, keyfile, log, made, before>>

\* Mutant: the key file is not synced.
SyncKey_NoSync ==
    /\ pc = "c_keysync"
    /\ pc' = "c_logsync"
    /\ UNCHANGED <<header, keyfile, log, made, before>>

SyncKey ==
    /\ pc = "c_keysync"
    /\ kfO' = {kf}
    /\ pc' = "c_logsync"
    /\ UNCHANGED <<header, kx, kf, log, made, before>>

SyncLog ==
    /\ pc = "c_logsync"
    /\ lgO' = {lg}
    /\ pc' = "created"
    /\ UNCHANGED <<header, keyfile, lx, lg, made, before>>

-----------------------------------------------------------------------------
(* The label fail.  An error of erase_file is ignored. *)

Creating == {"c_key", "c_log", "c_dathdr", "c_keyhdr", "c_bucket",
             "c_datsync", "c_keysync", "c_logsync"}

CreateFails ==
    /\ pc \in Creating
    /\ pc' = "c_undo"
    /\ UNCHANGED <<header, keyfile, log, made, before>>

\* Mutant: the key file is erased whether create made it or not.
UndoKey_Always ==
    /\ pc = "c_undokey"
    /\ kx' = FALSE /\ made' = made \ {"key"}
    /\ pc' = "c_undolog"
    /\ UNCHANGED <<header, kf, kfO, log, before>>

UndoDat ==
    /\ pc = "c_undo"
    /\ \/ dx' = FALSE /\ made' = made \ {"dat"}
       \/ UNCHANGED <<dx, made>>
    /\ pc' = "c_undokey"
    /\ UNCHANGED <<dh, dhO, keyfile, log, before>>

UndoKey ==
    /\ pc = "c_undokey"
    /\ \/ "key" \in made /\ kx' = FALSE /\ made' = made \ {"key"}
       \/ UNCHANGED <<kx, made>>
    /\ pc' = "c_undolog"
    /\ UNCHANGED <<header, kf, kfO, log, before>>

UndoLog ==
    /\ pc = "c_undolog"
    /\ \/ "log" \in made /\ lx' = FALSE /\ made' = made \ {"log"}
       \/ UNCHANGED <<lx, made>>
    /\ pc' = "failed"
    /\ UNCHANGED <<header, keyfile, lg, lgO, before>>

\* The caller has the result.
CreateReturns ==
    /\ pc \in {"created", "failed"}
    /\ pc' = "down" /\ made' = {} /\ before' = {}
    /\ UNCHANGED <<header, keyfile, log>>

create ==
    \/ CreateDat \/ CreateKey \/ CreateLog
    \/ WriteDatHeader \/ WriteKeyHeader \/ WriteEmptyBucket
    \/ SyncDat \/ SyncKey \/ SyncLog
    \/ CreateFails \/ UndoDat \/ UndoKey \/ UndoLog \/ CreateReturns
=============================================================================
