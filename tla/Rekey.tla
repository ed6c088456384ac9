-------------------------------- MODULE Rekey --------------------------------
(***************************************************************************)
(* rekey, which builds a key file from a data file, as a sequence of file  *)
(* operations that can be interrupted anywhere, and recover, which undoes  *)
(* it (nudb/impl/rekey.ipp, nudb/impl/recover.ipp), together with create   *)
(* and open.  What goes into the buckets is the subject of LinearHash:     *)
(* here a bucket is blank, built or torn, and a record of the data file is *)
(* a value, a spill or torn.                                               *)
(***************************************************************************)
EXTENDS Create

CONSTANTS
    Records,     \* values in the data file, if it was not created just now
    Buckets,     \* buckets of the new key file
    MaxSpills,   \* bound: spill records a rekey appends
    LateLoss     \* TRUE: power may fail after rekey is over and before the
                 \* system has written its cached blocks to the device

ASSUME BoundsAssumption ==
    /\ Records \in Nat \ {0} /\ Buckets \in Nat \ {0} /\ MaxSpills \in Nat
    /\ LateLoss \in BOOLEAN

VARIABLES
    records,         \* the number of values in the data file
    df, dfO,         \* what follows its header, and possible device contents
    size,            \* the size of the data file in the log header
    spills,          \* spill records appended by the running or last rekey
    next             \* the next bucket to be written

data == <<df, dfO>>
vars == <<pc, records, data, keyfile, log, createVars, size, spills, next>>

Original == [i \in 1 .. records |-> "value"]
\* kh.buckets, from the number of items
NewBuckets == IF records = 0 THEN 0 ELSE Buckets
HeaderOnly == [h |-> "short", b |-> <<>>]   \* key_file_header::size bytes
BlankFile == [h |-> "block", b |-> [i \in 1 .. NewBuckets |-> "blank"]]
AllBuilt(n) == [h |-> "block", b |-> [i \in 1 .. n |-> "built"]]

\* There is a data file and no table: the key file was lost, or the new one
\* gets a path of its own.  Or there is no data file, but maybe others that
\* have survived it.
Init ==
    /\ pc = "down" /\ made = {} /\ before = {}
    /\ records \in {0, Records} /\ dx = (records > 0)
    /\ dh = (IF dx THEN "whole" ELSE "none") /\ dhO = {dh}
    /\ df = Original /\ dfO = {df}
    /\ kx \in {FALSE, ~dx} /\ kf = (IF kx THEN AllBuilt(Buckets) ELSE NoKeys) /\ kfO = {kf}
    /\ lx \in {FALSE, ~dx} /\ lg = "empty" /\ lgO = {lg}
    /\ size = 0 /\ spills = 0 /\ next = 1

-----------------------------------------------------------------------------
(* Files *)

dfAppend(r) == df' = Append(df, r) /\ dfO' = dfO \cup {df', Append(df, "torn")}

kfWrite(f) == kf' = f /\ kfO' = kfO \cup {f}

PutBlock(f, i, v) == [f EXCEPT !.b[i] = v]
kfPut(i, v) ==
    /\ kf' = PutBlock(kf, i, v)
    /\ kfO' = kfO \cup {PutBlock(o, i, w) : o \in kfO, w \in {v, "torn"}}

-----------------------------------------------------------------------------
(* rekey *)

\* rekey refuses to start with a log file, and to overwrite a key file.
KeyCreate ==
    /\ pc = "down" /\ dx /\ dh = "whole" /\ ~lx /\ ~kx
    /\ size' = Len(df) /\ spills' = 0 /\ next' = 1
    /\ kx' = TRUE /\ kf' = NoKeys /\ kfO' = {NoKeys}
    /\ pc' = "header"
    /\ UNCHANGED <<data, log>>

\* The header without the rest of its block: no valid block is so short.
KeyHeader ==
    /\ pc = "header"
    /\ kfWrite(HeaderOnly)
    /\ pc' = "headersync"
    /\ UNCHANGED <<data, kx, log, size, spills, next>>

\* The log file is created when the header is on the device.
LogCreate ==
    /\ pc = "headersync"
    /\ kfO' = {kf}
    /\ lx' = TRUE /\ lg' = "empty" /\ lgO' = {"empty"}
    /\ pc' = "log"
    /\ UNCHANGED <<data, kx, kf, size, spills, next>>

LogHeader ==
    /\ pc = "log"
    /\ lg' = "header" /\ lgO' = lgO \cup {"header"}
    /\ pc' = "logsync"
    /\ UNCHANGED <<data, keyfile, lx, size, spills, next>>

\* Mutant: the log header is not synced before the key file grows.
LogSync_NoSync ==
    /\ pc = "logsync"
    /\ pc' = "block"
    /\ UNCHANGED <<data, keyfile, log, size, spills, next>>

LogSync ==
    /\ pc = "logsync"
    /\ lgO' = {lg}
    /\ pc' = "block"
    /\ UNCHANGED <<data, keyfile, lx, lg, size, spills, next>>

\* The header's block is filled up, ...
KeyBlock ==
    /\ pc = "block"
    /\ kfWrite(HeaderBlock)
    /\ pc' = "blocksync"
    /\ UNCHANGED <<data, kx, log, size, spills, next>>

\* ... synced, and the file extended to its full size by its last byte.
KeyExtend ==
    /\ pc = "blocksync"
    /\ kf' = BlankFile /\ kfO' = {kf, BlankFile}
    /\ pc' = "extended"
    /\ UNCHANGED <<data, kx, log, size, spills, next>>

KeySync ==
    /\ pc = "extended"
    /\ kfO' = {kf}
    /\ pc' = "build"
    /\ UNCHANGED <<data, kx, kf, log, size, spills, next>>

\* In a pass over the data file a full bucket is spilled.
AppendSpill ==
    /\ pc = "build" /\ records > 0 /\ spills < MaxSpills
    /\ dfAppend("spill") /\ spills' = spills + 1
    /\ UNCHANGED <<pc, keyfile, log, size, next>>

\* The buckets of a pass are written.
WriteBuckets ==
    /\ pc = "build" /\ next <= NewBuckets
    /\ kfPut(next, "built")
    /\ next' = next + 1
    /\ UNCHANGED <<pc, data, kx, log, size, spills>>

\* The writer of the data file is flushed, the log file closed and erased, and
\* rekey returns.  Neither file is synced.
LogErase ==
    /\ pc = "build" /\ next > NewBuckets
    /\ lx' = FALSE
    /\ IF LateLoss THEN UNCHANGED <<dfO, kfO>> ELSE dfO' = {df} /\ kfO' = {kf}
    /\ pc' = "done"
    /\ UNCHANGED <<df, kx, kf, lg, lgO, size, spills, next>>

rekey ==
    /\ \/ KeyCreate \/ KeyHeader \/ LogCreate \/ LogHeader \/ LogSync \/ KeyBlock
       \/ KeyExtend \/ KeySync \/ AppendSpill \/ WriteBuckets \/ LogErase
    /\ UNCHANGED <<records, createVars>>

-----------------------------------------------------------------------------
(* recover, called by open, and the rest of open.  Without a data file with *)
(* a header, or without a key file, recover returns an error at once.       *)

RecoverBegin ==
    /\ pc = "down" /\ dx /\ dh = "whole" /\ kx
    /\ pc' = IF kf.h \in {"none", "short"} THEN "s_log"
             ELSE IF ~lx THEN "recovered"
             ELSE IF lg = "empty" THEN "r_clear" ELSE "r_dftrunc"
    /\ UNCHANGED <<data, keyfile, log, size, spills, next>>

\* A key file of a header or less: the log file goes first, ...
ShortEraseLog ==
    /\ pc = "s_log"
    /\ lx' = FALSE
    /\ pc' = "s_key"
    /\ UNCHANGED <<data, keyfile, lg, lgO, size, spills, next>>

\* ... then the key file, and the error is no_key_file.
ShortEraseKey ==
    /\ pc = "s_key"
    /\ kx' = FALSE
    /\ pc' = "down"
    /\ UNCHANGED <<data, kf, kfO, log, size, spills, next>>

\* Mutant: the data file loses a record too many.
DataTrunc_OneMore ==
    /\ pc = "r_dftrunc"
    /\ df' = SubSeq(df, 1, size - 1) /\ dfO' = dfO \cup {SubSeq(o, 1, size - 1) : o \in dfO}
    /\ pc' = "r_dfsync"
    /\ UNCHANGED <<keyfile, log, size, spills, next>>

\* key_file_size is zero in rekey's log: there are no buckets to replay.
DataTrunc ==
    /\ pc = "r_dftrunc"
    /\ df' = SubSeq(df, 1, size) /\ dfO' = dfO \cup {SubSeq(o, 1, size) : o \in dfO}
    /\ pc' = "r_dfsync"
    /\ UNCHANGED <<keyfile, log, size, spills, next>>

DataSync ==
    /\ pc = "r_dfsync"
    /\ dfO' = {df}
    /\ pc' = "r_key"
    /\ UNCHANGED <<df, keyfile, log, size, spills, next>>

KeyErase ==
    /\ pc = "r_key"
    /\ kx' = FALSE
    /\ pc' = "r_clear"
    /\ UNCHANGED <<data, kf, kfO, log, size, spills, next>>

ClearLog ==
    /\ pc = "r_clear"
    /\ lg' = "empty" /\ lgO' = lgO \cup {"empty"}
    /\ pc' = "r_clearsync"
    /\ UNCHANGED <<data, keyfile, lx, size, spills, next>>

SyncClearLog ==
    /\ pc = "r_clearsync"
    /\ lgO' = {lg}
    /\ pc' = "r_erase"
    /\ UNCHANGED <<data, keyfile, lx, lg, size, spills, next>>

EraseLog ==
    /\ pc = "r_erase"
    /\ lx' = FALSE
    /\ pc' = "recovered"
    /\ UNCHANGED <<data, keyfile, lg, lgO, size, spills, next>>

\* open makes a new log file before it looks at the header of the key file, and
\* leaves it there if that is not one or if there is no bucket.
OpenKeyFile ==
    /\ pc = "recovered"
    /\ IF ~kx THEN pc' = "down" /\ UNCHANGED log
       ELSE /\ lx' = TRUE /\ lg' = "empty" /\ lgO' = {"empty"}
            /\ pc' = IF kf.h = "block" /\ kf.b # <<>> THEN "opened" ELSE "down"
    /\ UNCHANGED <<data, keyfile, size, spills, next>>

open ==
    /\ \/ RecoverBegin \/ ShortEraseLog \/ ShortEraseKey \/ DataTrunc \/ DataSync
       \/ KeyErase \/ ClearLog \/ SyncClearLog \/ EraseLog \/ OpenKeyFile
    /\ UNCHANGED <<records, createVars>>

-----------------------------------------------------------------------------
(* Interruptions *)

Busy == pc \notin {"down", "done", "created", "failed", "opened"}

\* The process dies, or an I/O call fails and rekey or open returns.  A failed
\* write may have written a part.
Kill ==
    /\ Busy
    /\ pc' = "down" /\ made' = {} /\ before' = {}
    /\ \/ UNCHANGED <<data, kf, kfO>>
       \/ pc = "build" /\ records > 0 /\ dfAppend("torn") /\ UNCHANGED <<kf, kfO>>
       \/ pc = "build" /\ next <= NewBuckets /\ kfPut(next, "torn") /\ UNCHANGED data
    /\ UNCHANGED <<header, records, kx, log, size, spills, next>>

PowerLoss ==
    /\ pc # "opened"
    /\ pc' = "down" /\ made' = {} /\ before' = {}
    /\ dh' \in dhO /\ dhO' = {dh'}
    /\ df' \in dfO /\ dfO' = {df'}
    /\ kf' \in kfO /\ kfO' = {kf'}
    /\ lg' \in lgO /\ lgO' = {lg'}
    /\ UNCHANGED <<records, dx, kx, lx, size, spills, next>>

\* After a rekey that returned, the store is opened.
OpenDone ==
    /\ pc = "done"
    /\ pc' = "down"
    /\ UNCHANGED <<records, data, keyfile, log, createVars, size, spills, next>>

Next ==
    \/ create /\ UNCHANGED <<records, data, size, spills, next>>
    \/ rekey \/ open \/ Kill \/ PowerLoss \/ OpenDone

\* Whoever repairs the database goes on, with open while there is a key file
\* and with rekey when there is none; a create that was called returns.
Fairness ==
    /\ WF_vars(rekey) /\ WF_vars(open) /\ WF_vars(OpenDone)
    /\ WF_vars(pc # "down" /\ create /\ UNCHANGED <<records, data, size, spills, next>>)

Spec == Init /\ [][Next]_vars /\ Fairness

-----------------------------------------------------------------------------
(* Properties *)

Blocks == {"blank", "built", "torn"}
KeyFiles == [h : {"none", "short", "torn", "block"}, b : Seq(Blocks)]

\* Type invariant; each file is among the contents its device may hold, and the
\* size in the log header never counts spill records of an abandoned rekey.
TypeOK ==
    /\ records \in {0, Records} /\ made \subseteq Files
    /\ dh \in {"none", "whole"} /\ dh \in dhO
    /\ df \in Seq({"value", "spill", "torn"}) /\ df \in dfO
    /\ kf \in KeyFiles /\ kf \in kfO /\ kfO \subseteq KeyFiles
    /\ lg \in {"empty", "header"} /\ lg \in lgO
    /\ {dx, kx, lx} \subseteq BOOLEAN
    /\ size \in 0 .. Records /\ spills \in 0 .. MaxSpills /\ next \in 1 .. Buckets + 1

\* Every bucket is built, every spill record the buckets refer to is there, and
\* a table of no values is the one bucket of create.
Whole ==
    /\ dx /\ dh = "whole"
    /\ kf = AllBuilt(IF records = 0 THEN 1 ELSE Buckets)
    /\ df = Original \o [i \in 1 .. spills |-> "spill"]

\* The values of the data file outlive every rekey, recovery and interruption,
\* on the device as well, and create never touches them.
ValuesStay ==
    /\ records > 0 => dx
    /\ \A o \in dfO : Len(o) >= records /\ SubSeq(o, 1, records) = Original

\* A store is opened only on a key file that was built to its end, by create or
\* by rekey, whatever interrupted earlier attempts and their recoveries ("the
\* database can be fixed in a subsequent call to recover", rekey.hpp).
OpenedIsWhole == pc = "opened" => Whole

\* A create that fails leaves the files that were there, and of its own only
\* those whose erasure failed as well.
FailedCreateUndone == pc = "failed" => Files = before \cup made

Orphaned == lx /\ ~kx

\* If the interruptions stop, a create that has returned without an error leads
\* to an open store, even if the power failed at once; and so does recovering and
\* rekeying a data file that has values, unless a log file was left without a
\* key file (recover erases them in the other order).  Without values rekey
\* makes a key file of no buckets, which open refuses for ever.
RetrySucceeds ==
    <>[][~Kill /\ ~PowerLoss]_vars =>
        /\ pc = "created" ~> pc = "opened"
        /\ records > 0 ~> pc = "opened" \/ Orphaned
=============================================================================
