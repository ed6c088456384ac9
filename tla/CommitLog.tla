------------------------------ MODULE CommitLog ------------------------------
(***************************************************************************)
(* The disk side of NuDB's commit and recover (nudb/impl/basic_store.ipp,  *)
(* nudb/impl/recover.ipp): three files, the writes, syncs and truncations  *)
(* in the order the code issues them, the process being killed or the      *)
(* machine losing power between any two of them, and an I/O error at any   *)
(* of them.                                                                *)
(*                                                                         *)
(* A bucket is abstracted to the number of the commit that wrote it, and a *)
(* record of the data file likewise.  How a commit computes its buckets is *)
(* the subject of module LinearHash; here it rewrites any nonempty set of  *)
(* buckets, appends buckets, and appends records to the data file.         *)
(*                                                                         *)
(* For each file there is its content as the operating system shows it,    *)
(* and the set of contents the device may hold: a write or a truncation    *)
(* adds the contents it may leave behind, sync leaves only the present     *)
(* one, and a power loss picks one.                                        *)
(***************************************************************************)
EXTENDS Integers, Sequences, FiniteSets

CONSTANTS
    InitBuckets,   \* buckets in the key file at the start (1 after create)
    MaxCommits,    \* bound: commits in a behaviour
    MaxAppend,     \* bound: data records per commit
    MaxGrow,       \* bound: buckets added per commit
    SparseAppends  \* TRUE: an unsynced append to the log may survive a power
                   \* loss as a longer file whose new bytes are zero

ASSUME BoundsAssumption ==
    /\ InitBuckets \in Nat \ {0}
    /\ MaxCommits \in Nat /\ MaxAppend \in Nat \ {0} /\ MaxGrow \in Nat
ASSUME SparseAssumption == SparseAppends \in BOOLEAN

VARIABLES
    pc,            \* where the process is in open, recover, commit, close
    df, dfO,       \* data file (records), and its possible device contents
    kf, kfO,       \* key file: kf[n + 1] is the block of bucket n
    lg, lgO,       \* log file: header h and bucket records r
    lx,            \* the log file exists
    ver,           \* number of the last commit begun
    new,           \* commit: the buckets in c1, as key-file blocks
    todo,          \* commit: blocks still to be logged, then to be written
    pos,           \* recover: index of the next log record
    before, after  \* history: the database before and after the current
                   \* commit (the same when there is none)

disk == <<df, dfO, kf, kfO, lg, lgO, lx>>
vars == <<pc, disk, ver, new, todo, pos, before, after>>

Torn == -1                     \* a block or record that is only partly there
Blank == 0                     \* an empty bucket
Versions == Blank .. MaxCommits
Contents == Versions \cup {Torn}
NoLog == [h |-> <<>>, r |-> <<>>]

-----------------------------------------------------------------------------
(* Files *)

TruncTo(f, n) == SubSeq(f, 1, n)

\* A block write, which extends the file when the block is past its end.
WriteBlock(f, i, v) ==
    [j \in 1 .. (IF i > Len(f) THEN i ELSE Len(f)) |->
        IF j = i THEN v ELSE IF j <= Len(f) THEN f[j] ELSE Torn]

\* An interrupted block write mixes bytes of the old and the new block: when
\* these are equal nothing is torn.
WritePart(f, i, v) ==
    WriteBlock(f, i, IF i <= Len(f) /\ f[i] = v THEN v ELSE Torn)

\* The system accepts a block write and puts it on the device at any time.
kfWrite(i, v) ==
    /\ kf' = WriteBlock(kf, i, v)
    /\ kfO' = kfO \cup {WriteBlock(o, i, v) : o \in kfO}
                  \cup {WritePart(o, i, v) : o \in kfO}

kfTrunc(n) == kf' = TruncTo(kf, n) /\ kfO' = kfO \cup {TruncTo(o, n) : o \in kfO}
dfTrunc(n) == df' = TruncTo(df, n) /\ dfO' = dfO \cup {TruncTo(o, n) : o \in dfO}

dfAppend(v) ==
    /\ df' = Append(df, v)
    /\ dfO' = dfO \cup {df', Append(df, Torn)}

\* The zero bytes of a sparse append read as a record for bucket 0, empty.
Hole == <<1, Blank>>

lgAppend(rec) ==
    /\ lg' = [lg EXCEPT !.r = Append(@, rec)]
    /\ lgO' = lgO \cup {lg'}
                  \cup (IF SparseAppends
                        THEN {[lg EXCEPT !.r = Append(@, Hole)]} ELSE {})

kfSync == kfO' = {kf} /\ UNCHANGED kf
dfSync == dfO' = {df} /\ UNCHANGED df
lgSync == lgO' = {lg} /\ UNCHANGED lg
lgTrunc0 == lg' = NoLog /\ lgO' = lgO \cup {NoLog}

-----------------------------------------------------------------------------
\* What create leaves: empty buckets, no data and an empty log file.
Init ==
    /\ pc = "down"
    /\ df = <<>> /\ dfO = {df}
    /\ kf = [i \in 1 .. InitBuckets |-> Blank] /\ kfO = {kf}
    /\ lg = NoLog /\ lgO = {lg} /\ lx = TRUE
    /\ ver = 0
    /\ new = {} /\ todo = {} /\ pos = 1
    /\ before = [d |-> df, k |-> kf] /\ after = before

-----------------------------------------------------------------------------
(* basic_store::commit, from the swap of the pools on *)

\* The pools are swapped; which buckets the batch touches is fixed from here.
CommitBegin ==
    /\ pc = "idle" /\ ver < MaxCommits
    /\ ver' = ver + 1
    /\ \E grow \in 0 .. MaxGrow, n \in 1 .. MaxAppend,
          dirty \in SUBSET (1 .. Len(kf)) :
         LET len == Len(kf) + grow
             add == (Len(kf) + 1) .. len
         IN  /\ dirty # {}
             /\ new' = dirty \cup add
             /\ after' = [d |-> df \o [i \in 1 .. n |-> ver'],
                          k |-> [i \in 1 .. len |->
                                   IF i \in new' THEN ver' ELSE kf[i]]]
    /\ pc' = "header"
    /\ UNCHANGED <<disk, todo, pos, before>>

WriteLogHeader ==
    /\ pc = "header"
    /\ lg' = [h |-> <<Len(kf), Len(df)>>, r |-> <<>>]
    /\ lgO' = lgO \cup {lg'}
    /\ pc' = "headersync"
    /\ UNCHANGED <<df, dfO, kf, kfO, lx, ver, new, todo, pos, before, after>>

SyncLogHeader ==
    /\ pc = "headersync"
    /\ lgSync
    /\ pc' = "data"
    /\ UNCHANGED <<df, dfO, kf, kfO, lx, ver, new, todo, pos, before, after>>

\* Records and spills go to the data file through the bulk_writer.
AppendData ==
    /\ pc = "data" /\ Len(df) < Len(after.d)
    /\ dfAppend(ver)
    /\ UNCHANGED <<pc, kf, kfO, lg, lgO, lx, ver, new, todo, pos, before, after>>

\* The writer is flushed; c0 holds the key file's content of the old buckets.
FlushData ==
    /\ pc = "data" /\ Len(df) = Len(after.d)
    /\ todo' = new \cap (1 .. Len(kf))
    /\ pc' = "log"
    /\ UNCHANGED <<disk, ver, new, pos, before, after>>

LogBucket(i) ==
    /\ pc = "log" /\ i \in todo
    /\ lgAppend(<<i, kf[i]>>)
    /\ todo' = todo \ {i}
    /\ UNCHANGED <<pc, df, dfO, kf, kfO, lx, ver, new, pos, before, after>>

\* Mutant: the log is not synced before the key file is written.
SyncLog_NoSync ==
    /\ pc = "log" /\ todo = {}
    /\ todo' = new
    /\ pc' = "keys"
    /\ UNCHANGED <<disk, ver, new, pos, before, after>>

SyncLog ==
    /\ pc = "log" /\ todo = {}
    /\ lgSync
    /\ todo' = new
    /\ pc' = "keys"
    /\ UNCHANGED <<df, dfO, kf, kfO, lx, ver, new, pos, before, after>>

WriteBucket(i) ==
    /\ pc = "keys" /\ i \in todo
    /\ kfWrite(i, ver)
    /\ todo' = todo \ {i}
    /\ UNCHANGED <<pc, df, dfO, lg, lgO, lx, ver, new, pos, before, after>>

SyncData ==
    /\ pc = "keys" /\ todo = {}
    /\ dfSync
    /\ pc' = "keysync"
    /\ UNCHANGED <<kf, kfO, lg, lgO, lx, ver, new, todo, pos, before, after>>

\* Mutant: the key file is not synced before the log is truncated.
SyncKeys_NoSync ==
    /\ pc = "keysync"
    /\ pc' = "logtrunc"
    /\ UNCHANGED <<disk, ver, new, todo, pos, before, after>>

SyncKeys ==
    /\ pc = "keysync"
    /\ kfSync
    /\ pc' = "logtrunc"
    /\ UNCHANGED <<df, dfO, lg, lgO, lx, ver, new, todo, pos, before, after>>

TruncLog ==
    /\ pc = "logtrunc"
    /\ lgTrunc0
    /\ pc' = "logtruncsync"
    /\ UNCHANGED <<df, dfO, kf, kfO, lx, ver, new, todo, pos, before, after>>

\* commit returns: the batch is durable.
CommitEnd ==
    /\ pc = "logtruncsync"
    /\ lgSync
    /\ before' = after
    /\ new' = {}
    /\ pc' = "idle"
    /\ UNCHANGED <<df, dfO, kf, kfO, lx, ver, todo, pos, after>>

CommitStates == {"header", "headersync", "data", "log", "keys", "keysync",
                 "logtrunc", "logtruncsync"}

\* An I/O call of commit fails; a failed write may have written a part.  The
\* commit thread stops and the log file stays.
CommitFail ==
    /\ pc \in CommitStates
    /\ pc' = "failed"
    /\ \/ UNCHANGED <<df, dfO, kf, kfO>>
       \/ pc = "data" /\ dfAppend(Torn) /\ UNCHANGED <<kf, kfO>>
       \/ pc = "keys" /\ (\E i \in todo : kfWrite(i, Torn)) /\ UNCHANGED <<df, dfO>>
    /\ UNCHANGED <<lg, lgO, lx, ver, new, todo, pos, before, after>>

\* basic_store::close erases the log file, unless the commit thread failed.
close ==
    /\ pc \in {"idle", "failed"}
    /\ lx' = (pc = "failed")
    /\ pc' = "down"
    /\ UNCHANGED <<df, dfO, kf, kfO, lg, lgO, ver, new, todo, pos, before, after>>

-----------------------------------------------------------------------------
(* recover, as the first thing basic_store::open does *)

\* Mutant: the replay starts at the second record.
RecoverBegin_SkipsRecord ==
    /\ pc = "down"
    /\ pc' = IF ~lx THEN "recovered"
             ELSE IF lg.h = <<>> THEN "r_clear" ELSE "r_replay"
    /\ pos' = 2
    /\ UNCHANGED <<disk, ver, new, todo, before, after>>

\* The files are opened and the log header read.  With no log file there is
\* nothing to do; an empty or short log is only cleared.
RecoverBegin ==
    /\ pc = "down"
    /\ pc' = IF ~lx THEN "recovered"
             ELSE IF lg.h = <<>> THEN "r_clear" ELSE "r_replay"
    /\ pos' = 1
    /\ UNCHANGED <<disk, ver, new, todo, before, after>>

\* Mutant: the replay does not go on to the next record.
ReplayRecord_SameRecord ==
    /\ pc = "r_replay" /\ pos <= Len(lg.r)
    /\ kfWrite(lg.r[pos][1], lg.r[pos][2])
    /\ UNCHANGED <<pc, pos, df, dfO, lg, lgO, lx, ver, new, todo, before, after>>

\* One record of the log is applied.  A record is refused when its index
\* exceeds the number of buckets in the key file, or when its spill lies
\* beyond the end of the data file; a logged bucket may have its spill at the
\* end of the data file the header describes.
ReplayRecord ==
    /\ pc = "r_replay" /\ pos <= Len(lg.r)
    /\ LET rec == lg.r[pos] IN
       IF rec[1] - 1 > Len(kf) \/ lg.h[2] > Len(df)
       THEN pc' = "refused" /\ UNCHANGED <<kf, kfO, pos>>
       ELSE kfWrite(rec[1], rec[2]) /\ pos' = pos + 1 /\ UNCHANGED pc
    /\ UNCHANGED <<df, dfO, lg, lgO, lx, ver, new, todo, before, after>>

\* Reading the bucket of a record fails, which is looked at only after the
\* buffer, holding the bucket of before or none at all, has been written to the
\* record's block.  recover returns the error.  What is not on the device yet is
\* read from the system's cache, so the record whose read failed is.
ReplayReadError ==
    /\ pc = "r_replay" /\ pos <= Len(lg.r) /\ lg.r[pos][1] - 1 <= Len(kf)
    /\ \E v \in {Torn} \cup (IF pos > 1 THEN {lg.r[pos - 1][2]} ELSE {}) :
          kfWrite(lg.r[pos][1], v)
    /\ lgO' = {o \in lgO : Len(o.r) >= pos}
    /\ pc' = "down"
    /\ UNCHANGED <<df, dfO, lg, lx, ver, new, todo, pos, before, after>>

\* Writing the bucket fails half-way.
ReplayWriteError ==
    /\ pc = "r_replay" /\ pos <= Len(lg.r) /\ lg.r[pos][1] - 1 <= Len(kf)
    /\ LET rec == lg.r[pos] IN
         /\ kf' = WritePart(kf, rec[1], rec[2])
         /\ kfO' = kfO \cup {WritePart(o, rec[1], rec[2]) : o \in kfO}
    /\ pc' = "down"
    /\ UNCHANGED <<df, dfO, lg, lgO, lx, ver, new, todo, pos, before, after>>

TruncData ==
    /\ pc = "r_replay" /\ pos > Len(lg.r)
    /\ dfTrunc(lg.h[2])
    /\ pc' = "r_datasync"
    /\ UNCHANGED <<kf, kfO, lg, lgO, lx, ver, new, todo, pos, before, after>>

SyncTruncData ==
    /\ pc = "r_datasync"
    /\ dfSync
    /\ pc' = "r_keytrunc"
    /\ UNCHANGED <<kf, kfO, lg, lgO, lx, ver, new, todo, pos, before, after>>

TruncKeys ==
    /\ pc = "r_keytrunc"
    /\ kfTrunc(lg.h[1])
    /\ pc' = "r_keysync"
    /\ UNCHANGED <<df, dfO, lg, lgO, lx, ver, new, todo, pos, before, after>>

SyncTruncKeys ==
    /\ pc = "r_keysync"
    /\ kfSync
    /\ pc' = "r_clear"
    /\ UNCHANGED <<df, dfO, lg, lgO, lx, ver, new, todo, pos, before, after>>

ClearLog ==
    /\ pc = "r_clear"
    /\ lgTrunc0
    /\ pc' = "r_clearsync"
    /\ UNCHANGED <<df, dfO, kf, kfO, lx, ver, new, todo, pos, before, after>>

SyncClearLog ==
    /\ pc = "r_clearsync"
    /\ lgSync
    /\ pc' = "r_erase"
    /\ UNCHANGED <<df, dfO, kf, kfO, lx, ver, new, todo, pos, before, after>>

EraseLog ==
    /\ pc = "r_erase"
    /\ lx' = FALSE
    /\ pc' = "recovered"
    /\ UNCHANGED <<df, dfO, kf, kfO, lg, lgO, ver, new, todo, pos, before, after>>

\* The rest of open: a new log file is created, which fails if there is one.
open ==
    /\ pc = "recovered" /\ ~lx
    /\ lx' = TRUE /\ lg' = NoLog /\ lgO' = {NoLog}
    /\ before' = [d |-> df, k |-> kf] /\ after' = before'
    /\ new' = {} /\ todo' = {}
    /\ pc' = "idle"
    /\ UNCHANGED <<df, dfO, kf, kfO, ver, pos>>

RecoverStates == {"r_replay", "r_datasync", "r_keytrunc", "r_keysync",
                  "r_clear", "r_clearsync", "r_erase", "recovered"}

-----------------------------------------------------------------------------
(* Interruptions *)

\* The process dies, or recover returns an I/O error and the program gives up:
\* what was written stays in the operating system's cache.
Kill ==
    /\ pc \in CommitStates \cup RecoverStates \cup {"idle", "failed", "refused"}
    /\ pc' = "down"
    /\ UNCHANGED <<disk, ver, new, todo, pos, before, after>>

PowerLoss ==
    /\ pc' = "down"
    /\ df' \in dfO /\ dfO' = {df'}
    /\ kf' \in kfO /\ kfO' = {kf'}
    /\ lg' \in lgO /\ lgO' = {lg'}
    /\ UNCHANGED <<lx, ver, new, todo, pos, before, after>>

Commit ==
    \/ CommitBegin \/ WriteLogHeader \/ SyncLogHeader \/ AppendData \/ FlushData
    \/ (\E i \in todo : LogBucket(i)) \/ SyncLog
    \/ (\E i \in todo : WriteBucket(i)) \/ SyncData \/ SyncKeys \/ TruncLog
    \/ CommitEnd \/ CommitFail

Recover ==
    \/ RecoverBegin \/ ReplayRecord \/ TruncData \/ SyncTruncData \/ TruncKeys
    \/ SyncTruncKeys \/ ClearLog \/ SyncClearLog \/ EraseLog \/ open

Next == Commit \/ Recover \/ ReplayReadError \/ ReplayWriteError \/ close \/ Kill \/ PowerLoss

\* open runs recover to its end when the program is not interrupted.
Fairness == WF_vars(Recover)

Spec == Init /\ [][Next]_vars /\ Fairness

-----------------------------------------------------------------------------
(* Properties *)

\* Each file is among the contents its device may hold, and the records of a
\* log name buckets.
TypeOK ==
    /\ pc \in CommitStates \cup RecoverStates \cup {"down", "idle", "failed", "refused"}
    /\ df \in Seq(Contents) /\ df \in dfO
    /\ kf \in Seq(Contents) /\ kf \in kfO
    /\ lg \in lgO /\ lg.r \in Seq((Nat \ {0}) \X Contents)
    /\ lx \in BOOLEAN
    /\ ver \in 0 .. MaxCommits
    /\ pos \in Nat

Covers(r, i) == \E j \in 1 .. Len(r) : r[j][1] = i
Logged(r, i) == r[CHOOSE j \in 1 .. Len(r) : r[j][1] = i][2]

\* What recover makes of a data file d, a key file k and a log l.
Recovered(d, k, l) ==
    IF l.h = <<>> THEN [d |-> d, k |-> k]
    ELSE [d |-> TruncTo(d, l.h[2]),
          k |-> [i \in 1 .. l.h[1] |-> IF Covers(l.r, i) THEN Logged(l.r, i) ELSE k[i]]]

\* Whatever a power loss leaves on the device at any point of a commit, of a
\* recovery, or of a recovery from an interrupted recovery, recover yields the
\* database as it was before the commit or as the commit leaves it.
EveryPowerLossRecovers ==
    \A d \in dfO, k \in kfO, l \in lgO : Recovered(d, k, l) \in {before, after}

\* Once recover has a log to apply, interrupting it, again and again, does not
\* change what it yields in the end, and neither does a bucket it wrote wrongly.
RecoverIsIdempotent ==
    [][(pc \in RecoverStates \cup {"down"} /\ lg.h # <<>>)
         => (Recovered(df, kf, lg)' = Recovered(df, kf, lg))]_vars

\* If the interruptions and errors stop, an interrupted recovery is completed.
RecoverTerminates ==
    <>[][~Kill /\ ~PowerLoss /\ ~ReplayReadError /\ ~ReplayWriteError]_vars
        => (pc = "down" ~> pc = "idle")

-----------------------------------------------------------------------------
(* Refinement: commit and recover implement an atomic commit *)

\* A commit is undecided while it runs, and while a power loss could still
\* change what recover yields.
InFlight ==
    \/ pc \in CommitStates
    \/ \E d \in dfO, k \in kfO, l \in lgO :
          Recovered(d, k, l) # Recovered(df, kf, lg)

\* The database and the transaction, as AtomicCommit has them
Database == IF InFlight THEN before ELSE Recovered(df, kf, lg)
Transaction == IF InFlight THEN <<after>> ELSE <<>>

Atomic == INSTANCE AtomicCommit WITH
    States <- [d : Seq(Contents), k : Seq(Contents)],
    db <- Database, txn <- Transaction

\* commit followed by any number of interrupted recoveries replaces the
\* database by the committed one, or leaves it, in one indivisible step.
ImplementsAtomicCommit == Atomic!Spec
=============================================================================
