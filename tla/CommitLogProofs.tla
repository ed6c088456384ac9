--------------------------- MODULE CommitLogProofs ---------------------------
(***************************************************************************)
(* Proofs about commit and recover, for any number of buckets, commits and *)
(* records per commit: whatever a kill, an I/O error or a power loss       *)
(* leaves on the device, recover yields the database of before or after    *)
(* the commit, and the two implement AtomicCommit.                         *)
(***************************************************************************)
EXTENDS CommitLog, TLAPS

Databases == [d : Seq(Contents), k : Seq(Contents)]

\* A log that leads back to database x: its header has the sizes of x's files,
\* and its records have buckets of x.
UndoLog(x, l) ==
    /\ l = [h |-> <<Len(x.k), Len(x.d)>>, r |-> l.r]
    /\ l.r \in Seq((1 .. Len(x.k)) \X Contents)
    /\ \A j \in 1 .. Len(l.r) : l.r[j][2] = x.k[l.r[j][1]]

\* A data file, and a key file with its log, from which x can be had again
DataKept(x, d) ==
    Len(x.d) <= Len(d) /\ \A i \in 1 .. Len(x.d) : d[i] = x.d[i]
KeysKept(x, k, l) ==
    /\ Len(x.k) <= Len(k)
    /\ \A i \in 1 .. Len(x.k) : Covers(l.r, i) \/ k[i] = x.k[i]

Unchanged(x) == dfO = {x.d} /\ kfO = {x.k}

Types ==
    /\ before \in Databases /\ after \in Databases
    /\ dfO \subseteq Seq(Contents) /\ df \in dfO
    /\ kfO \subseteq Seq(Contents) /\ kf \in kfO
    /\ lg \in lgO /\ lx \in BOOLEAN /\ ver \in 0 .. MaxCommits /\ pos \in Nat \ {0}
    /\ pc \in CommitStates \cup RecoverStates \cup {"down", "idle", "failed"}

\* What a power loss may leave, at any time: no log, and then the files are
\* synced and one whole database; or a log of the current commit that leads
\* back from every content of the files.  An unsynced log is a part of the
\* one the system shows.
Device ==
    /\ \A l \in lgO : l = NoLog \/ UndoLog(before, l)
    /\ \A l \in lgO \ {NoLog} : /\ \A d \in dfO : DataKept(before, d)
                                /\ \A k \in kfO : KeysKept(before, k, l)
    /\ NoLog \in lgO => Unchanged(before) \/ Unchanged(after)
    /\ lg # NoLog => \A l \in lgO \ {NoLog} :
         Len(l.r) <= Len(lg.r) /\ \A j \in 1 .. Len(l.r) : l.r[j] = lg.r[j]
    /\ lg # NoLog /\ NoLog \in lgO => lg.r = <<>> /\ Unchanged(before)
    /\ ~lx => lgO = {NoLog}

\* What the current commit is to do
Plan ==
    /\ Len(before.k) <= Len(after.k) /\ new \subseteq 1 .. Len(after.k)
    /\ \A i \in 1 .. Len(after.k) :
         IF i \in new THEN after.k[i] = ver
                      ELSE i <= Len(before.k) /\ after.k[i] = before.k[i]
    /\ Len(before.d) <= Len(after.d)
    /\ \A i \in 1 .. Len(after.d) :
         after.d[i] = IF i <= Len(before.d) THEN before.d[i] ELSE ver

Written == {"keysync", "logtrunc", "logtruncsync"}
OldBuckets == new \cap (1 .. Len(before.k))

\* The commit, by where it is
Committing ==
    /\ pc = "idle" => lgO = {NoLog} /\ lx /\ before = after /\ Unchanged(before)
    /\ pc \in CommitStates => lx /\ Plan
    /\ pc \in {"header", "headersync"} => Unchanged(before)
    /\ pc = "header" => lgO = {NoLog}
    /\ pc = "headersync" => lg.r = <<>> /\ lg # NoLog
    /\ pc \in {"data", "log"} => NoLog \notin lgO /\ kfO = {before.k}
    /\ pc = "data" => /\ lgO = {lg} /\ lg.r = <<>> /\ Len(df) <= Len(after.d)
                      /\ \A i \in 1 .. Len(df) : df[i] = after.d[i]
    /\ pc \in {"log", "keys"} \cup Written => df = after.d
    /\ pc = "log" => todo \subseteq OldBuckets /\ \A i \in OldBuckets \ todo : Covers(lg.r, i)
    /\ pc \in {"keys", "keysync", "logtrunc"} =>
         lgO = {lg} /\ lg # NoLog /\ \A i \in OldBuckets : Covers(lg.r, i)
    /\ pc = "keys" => /\ todo \subseteq new /\ Len(kf) <= Len(after.k)
                      /\ \A i \in new \ todo : i <= Len(kf) /\ kf[i] = ver
                      /\ \A i \in (1 .. Len(before.k)) \ new : kf[i] = before.k[i]
    /\ pc \in Written => kf = after.k /\ dfO = {df}
    /\ pc \in {"logtrunc", "logtruncsync"} => kfO = {kf}
    /\ pc = "logtruncsync" => lg = NoLog

\* The recovery, by where it is
Recovering ==
    /\ pc \in {"r_replay", "r_datasync", "r_keytrunc", "r_keysync"} => lg # NoLog
    /\ pc = "r_replay" => \A j \in 1 .. Len(lg.r) :
         j < pos => kf[lg.r[j][1]] = before.k[lg.r[j][1]]
    /\ pc \in {"r_datasync", "r_keytrunc", "r_keysync"} =>
         df = before.d /\ \A i \in 1 .. Len(before.k) : kf[i] = before.k[i]
    /\ pc \in {"r_keytrunc", "r_keysync"} => dfO = {before.d}
    /\ pc = "r_keysync" => kf = before.k
    /\ pc = "r_clear" => lg = NoLog \/ Unchanged(before)
    /\ pc = "r_clearsync" => lg = NoLog
    /\ pc \in {"r_erase", "recovered"} => lgO = {NoLog}

IInv == Types /\ Device /\ Committing /\ Recovering

-----------------------------------------------------------------------------
(* Files *)

\* Records are appended to a file.
LEMMA Joined ==
    ASSUME NEW s \in Seq(Contents), NEW t \in Seq(Contents)
    PROVE  /\ s \o t \in Seq(Contents) /\ Len(s \o t) = Len(s) + Len(t) /\ Len(s) \in Nat
           /\ \A i \in 1 .. (Len(s) + Len(t)) :
                (s \o t)[i] = IF i <= Len(s) THEN s[i] ELSE t[i - Len(s)]
BY SMT

\* A block write changes its block, and extends the file if it must.
LEMMA BlockWritten ==
    ASSUME NEW f \in Seq(Contents), NEW i \in Nat \ {0}, NEW v \in Contents
    PROVE  /\ WriteBlock(f, i, v) \in Seq(Contents)
           /\ Len(WriteBlock(f, i, v)) = IF i > Len(f) THEN i ELSE Len(f)
           /\ WriteBlock(f, i, v)[i] = v
           /\ \A j \in 1 .. Len(f) : j # i => WriteBlock(f, i, v)[j] = f[j]
<1> DEFINE m == IF i > Len(f) THEN i ELSE Len(f)
           e(j) == IF j = i THEN v ELSE IF j <= Len(f) THEN f[j] ELSE Torn
<1>1. m \in Nat /\ i \in 1 .. m /\ 1 .. Len(f) \subseteq 1 .. m
    OBVIOUS
<1>2. \A j \in 1 .. m : e(j) \in Contents
    BY DEF Contents
<1>3. WriteBlock(f, i, v) = [j \in 1 .. m |-> e(j)]
    BY DEF WriteBlock
<1> HIDE DEF m
<1>4. [j \in 1 .. m |-> e(j)] \in Seq(Contents) /\ Len([j \in 1 .. m |-> e(j)]) = m
    BY <1>1, <1>2
<1> QED BY <1>1, <1>3, <1>4 DEF m

\* An interrupted one leaves the block torn, unless there is nothing to change.
LEMMA PartWritten ==
    ASSUME NEW f \in Seq(Contents), NEW i \in Nat \ {0}, NEW v \in Contents
    PROVE  /\ WritePart(f, i, v) \in Seq(Contents)
           /\ Len(WritePart(f, i, v)) = IF i > Len(f) THEN i ELSE Len(f)
           /\ i <= Len(f) /\ f[i] = v => WritePart(f, i, v)[i] = v
           /\ \A j \in 1 .. Len(f) : j # i => WritePart(f, i, v)[j] = f[j]
<1> DEFINE w == IF i <= Len(f) /\ f[i] = v THEN v ELSE Torn
<1>1. w \in Contents /\ WritePart(f, i, v) = WriteBlock(f, i, w)
    BY Zenon DEF WritePart, Contents
<1> HIDE DEF w
<1>2. /\ WriteBlock(f, i, w) \in Seq(Contents)
      /\ Len(WriteBlock(f, i, w)) = IF i > Len(f) THEN i ELSE Len(f)
      /\ WriteBlock(f, i, w)[i] = w
      /\ \A j \in 1 .. Len(f) : j # i => WriteBlock(f, i, w)[j] = f[j]
    BY <1>1, BlockWritten, ZenonT(40)
<1> QED BY <1>1, <1>2 DEF w

LEMMA FileTruncated ==
    ASSUME NEW f \in Seq(Contents), NEW m \in 0 .. Len(f)
    PROVE  /\ TruncTo(f, m) \in Seq(Contents) /\ Len(TruncTo(f, m)) = m
           /\ \A j \in 1 .. m : TruncTo(f, m)[j] = f[j]
BY DEF TruncTo

\* Files are equal if they have the same length and the same content.
LEMMA FilesEqual ==
    ASSUME NEW f \in Seq(Contents), NEW g \in Seq(Contents), Len(f) = Len(g),
           \A j \in 1 .. Len(f) : f[j] = g[j]
    PROVE  f = g
OBVIOUS

-----------------------------------------------------------------------------
(* Logs *)

USE ZenonT(40)      \* where numbers, records or sequences matter, a leaf cites SMT

LEMMA UndoParts ==
    ASSUME NEW x \in Databases, NEW l, UndoLog(x, l)
    PROVE  /\ l # NoLog /\ l.h # <<>> /\ l.h[1] = Len(x.k) /\ l.h[2] = Len(x.d)
           /\ x.d \in Seq(Contents) /\ x.k \in Seq(Contents)
           /\ \A j \in 1 .. Len(l.r) : /\ l.r[j][1] \in 1 .. Len(x.k)
                                       /\ l.r[j][2] \in Contents
                                       /\ l.r[j][2] = x.k[l.r[j][1]]
<1>1. x.d \in Seq(Contents) /\ x.k \in Seq(Contents)
    BY SMT DEF Databases
<1>2. l.h = <<Len(x.k), Len(x.d)>>
    BY SMT DEF UndoLog
<1>3. l.h # <<>> /\ l.h[1] = Len(x.k) /\ l.h[2] = Len(x.d)
    BY <1>2, SMT
<1>4. l # NoLog
    BY <1>3, SMT DEF NoLog
<1>5. \A j \in 1 .. Len(l.r) : l.r[j] \in (1 .. Len(x.k)) \X Contents
    BY SMT DEF UndoLog
<1> QED BY <1>1, <1>3, <1>4, <1>5, SMT DEF UndoLog

LEMMA NoLogParts == NoLog.h = <<>> /\ NoLog.r = <<>> /\ Len(NoLog.r) = 0
BY SMT DEF NoLog

\* Truncated, such a data file is that of x.
LEMMA DataCut ==
    ASSUME NEW x \in Databases, NEW d \in Seq(Contents), DataKept(x, d)
    PROVE  TruncTo(d, Len(x.d)) = x.d
<1>1. x.d \in Seq(Contents)
    BY SMT DEF Databases
<1>2. Len(x.d) \in 0 .. Len(d)
    BY <1>1, SMT DEF DataKept
<1>3. /\ TruncTo(d, Len(x.d)) \in Seq(Contents) /\ Len(TruncTo(d, Len(x.d))) = Len(x.d)
      /\ \A j \in 1 .. Len(x.d) : TruncTo(d, Len(x.d))[j] = x.d[j]
    BY <1>2, FileTruncated DEF DataKept
<1> QED BY <1>1, <1>3, FilesEqual

\* A truncated key file is no worse than it was, and that of x if it had all of
\* the buckets of x.
LEMMA KeysCut ==
    ASSUME NEW x \in Databases, NEW k \in Seq(Contents), Len(x.k) <= Len(k)
    PROVE  /\ TruncTo(k, Len(x.k)) \in Seq(Contents)
           /\ \A l : KeysKept(x, k, l) => KeysKept(x, TruncTo(k, Len(x.k)), l)
           /\ (\A i \in 1 .. Len(x.k) : k[i] = x.k[i]) => TruncTo(k, Len(x.k)) = x.k
<1>1. x.k \in Seq(Contents)
    BY SMT DEF Databases
<1>2. Len(x.k) \in 0 .. Len(k) /\ Len(x.k) <= Len(x.k)
    BY <1>1, SMT
<1>3. /\ TruncTo(k, Len(x.k)) \in Seq(Contents) /\ Len(TruncTo(k, Len(x.k))) = Len(x.k)
      /\ \A j \in 1 .. Len(x.k) : TruncTo(k, Len(x.k))[j] = k[j]
    BY <1>2, FileTruncated
<1>4. \A l : KeysKept(x, k, l) => KeysKept(x, TruncTo(k, Len(x.k)), l)
    BY <1>2, <1>3 DEF KeysKept
<1>5. ASSUME \A i \in 1 .. Len(x.k) : k[i] = x.k[i] PROVE TruncTo(k, Len(x.k)) = x.k
    <2>1. \A j \in 1 .. Len(x.k) : TruncTo(k, Len(x.k))[j] = x.k[j]
        BY <1>3, <1>5
    <2> QED BY <1>1, <1>3, <2>1, FilesEqual
<1> QED BY <1>3, <1>4, <1>5

\* recover has database x again from files and a log that lead back to it.
LEMMA RecoversUndone ==
    ASSUME NEW x \in Databases, NEW d \in Seq(Contents), NEW k \in Seq(Contents), NEW l,
           UndoLog(x, l), DataKept(x, d), KeysKept(x, k, l)
    PROVE  Recovered(d, k, l) = x
<1> DEFINE e(i) == IF Covers(l.r, i) THEN Logged(l.r, i) ELSE k[i]
<1>1. /\ l.h # <<>> /\ l.h[1] = Len(x.k) /\ l.h[2] = Len(x.d)
      /\ x.d \in Seq(Contents) /\ x.k \in Seq(Contents)
      /\ \A j \in 1 .. Len(l.r) : l.r[j][2] = x.k[l.r[j][1]]
    BY UndoParts
<1>2. TruncTo(d, Len(x.d)) = x.d
    BY DataCut
<1>3. ASSUME NEW i \in 1 .. Len(x.k) PROVE e(i) = x.k[i]
    <2>1. CASE Covers(l.r, i)
        <3> DEFINE j == CHOOSE m \in 1 .. Len(l.r) : l.r[m][1] = i
        <3>1. j \in 1 .. Len(l.r) /\ l.r[j][1] = i
            BY <2>1 DEF Covers
        <3>2. Logged(l.r, i) = l.r[j][2]
            BY DEF Logged
        <3> QED BY <1>1, <2>1, <3>1, <3>2
    <2>2. CASE ~Covers(l.r, i)
        BY <2>2 DEF KeysKept
    <2> QED BY <2>1, <2>2
<1>4. [i \in 1 .. Len(x.k) |-> e(i)] = x.k
    <2>1. x.k = [i \in 1 .. Len(x.k) |-> x.k[i]]
        BY <1>1, SMT
    <2> HIDE DEF e
    <2>2. [i \in 1 .. Len(x.k) |-> e(i)] = [i \in 1 .. Len(x.k) |-> x.k[i]]
        BY <1>3
    <2> QED BY <2>1, <2>2
<1>5. Recovered(d, k, l) = [d |-> TruncTo(d, Len(x.d)), k |-> [i \in 1 .. Len(x.k) |-> e(i)]]
    BY <1>1 DEF Recovered
<1>6. x = [d |-> x.d, k |-> x.k]
    BY SMT DEF Databases
<1> QED BY <1>2, <1>4, <1>5, <1>6

LEMMA RecoversUnlogged ==
    ASSUME NEW x \in Databases
    PROVE  Recovered(x.d, x.k, NoLog) = x
<1>1. x = [d |-> x.d, k |-> x.k]
    BY SMT DEF Databases
<1> QED BY <1>1, NoLogParts DEF Recovered

\* So every content of the device leads to the database of before or of after.
Yields ==
    \A d \in dfO, k \in kfO, l \in lgO :
        /\ l # NoLog => Recovered(d, k, l) = before
        /\ \A x \in {before, after} : l = NoLog /\ Unchanged(x) => Recovered(d, k, l) = x
        /\ Recovered(d, k, l) \in {before, after}

LEMMA EveryYield == Types /\ Device => Yields
<1> SUFFICES ASSUME Types, Device, NEW d \in dfO, NEW k \in kfO, NEW l \in lgO
             PROVE  /\ l # NoLog => Recovered(d, k, l) = before
                    /\ \A x \in {before, after} :
                         l = NoLog /\ Unchanged(x) => Recovered(d, k, l) = x
                    /\ Recovered(d, k, l) \in {before, after}
    BY DEF Yields
<1>1. l # NoLog => Recovered(d, k, l) = before
    BY RecoversUndone DEF Types, Device
<1>2. ASSUME NEW x \in {before, after}, l = NoLog, Unchanged(x)
      PROVE  Recovered(d, k, l) = x
    BY <1>2, RecoversUnlogged DEF Types, Unchanged
<1> QED BY <1>1, <1>2 DEF Device

-----------------------------------------------------------------------------
(* Steps of the device *)

\* A log that the system shows leads back from all the device may hold.
LEMMA LogShown ==
    ASSUME Types, Device, lg # NoLog
    PROVE  /\ UndoLog(before, lg) /\ DataKept(before, df) /\ KeysKept(before, kf, lg)
           /\ \A d \in dfO : DataKept(before, d)
           /\ NoLog \in lgO => lg.r = <<>> /\ Unchanged(before)
<1>1. lg \in lgO \ {NoLog} /\ df \in dfO /\ kf \in kfO
    BY DEF Types
<1> QED BY <1>1 DEF Device

\* sync and a power loss only remove contents.
LEMMA Shrinks ==
    ASSUME Device, UNCHANGED <<lx, before, after>>,
           dfO' \subseteq dfO, kfO' \subseteq kfO, lgO' \subseteq lgO,
           dfO' # {}, kfO' # {}, lgO' # {}, lg' = lg \/ lgO' = {lg'}
    PROVE  Device'
<1>1. \A x : Unchanged(x) => Unchanged(x)'
    BY DEF Unchanged
<1>2. NoLog \in lgO' => Unchanged(before)' \/ Unchanged(after)'
    BY <1>1 DEF Device
<1>3. lg' # NoLog => \A l \in lgO' \ {NoLog} :
        Len(l.r) <= Len(lg'.r) /\ \A j \in 1 .. Len(l.r) : l.r[j] = lg'.r[j]
    <2>1. CASE lg' = lg
        BY <2>1 DEF Device
    <2>2. CASE lgO' = {lg'}
        BY <2>2, SMT
    <2> QED BY <2>1, <2>2
<1>4. lg' # NoLog /\ NoLog \in lgO' => lg'.r = <<>> /\ Unchanged(before)'
    <2>1. lg' # NoLog /\ NoLog \in lgO' => lg' = lg
        OBVIOUS
    <2> QED BY <1>1, <2>1 DEF Device
<1> QED BY <1>2, <1>3, <1>4 DEF Device

\* Writes to the data and the key file, while the system shows a log.
LEMMA FilesStep ==
    ASSUME Device, UNCHANGED <<lg, lx, before, after>>, lg # NoLog,
           lgO' \subseteq lgO, lg \in lgO',
           \A d \in dfO' : DataKept(before, d),
           \A l \in lgO' \ {NoLog}, k \in kfO' : KeysKept(before, k, l),
           NoLog \in lgO' => Unchanged(before)'
    PROVE  Device'
<1>1. NoLog \in lgO' => lg.r = <<>>
    BY DEF Device
<1> QED BY <1>1 DEF Device

\* The log is truncated when the files are synced.
LEMMA ClearStep ==
    ASSUME Device, lgTrunc0, UNCHANGED <<dfO, kfO, lx, before, after>>,
           Unchanged(before) \/ Unchanged(after)
    PROVE  Device'
<1>1. lg' = NoLog /\ lgO' = lgO \cup {NoLog}
    BY DEF lgTrunc0
<1>2. Unchanged(before)' \/ Unchanged(after)'
    BY DEF Unchanged
<1> QED BY <1>1, <1>2 DEF Device

\* The type invariant of a step that leaves the history alone
LEMMA TypesStep ==
    ASSUME Types, UNCHANGED <<before, after, ver>>,
           dfO' \subseteq Seq(Contents), df' \in dfO', kfO' \subseteq Seq(Contents),
           kf' \in kfO', lg' \in lgO', lx' \in BOOLEAN, pos' \in Nat \ {0},
           pc' \in CommitStates \cup RecoverStates \cup {"down", "idle", "failed"}
    PROVE  Types'
BY DEF Types

\* Of Committing and Recovering only what is about the next state matters.
LEMMA Elsewhere ==
    /\ pc' \in RecoverStates \cup {"down", "failed"} => Committing'
    /\ pc' \in CommitStates \cup {"down", "failed", "idle"} => Recovering'
BY DEF Committing, Recovering, CommitStates, RecoverStates, Written

-----------------------------------------------------------------------------
(* commit *)

LEMMA CommitBeginIInv == ASSUME IInv, CommitBegin PROVE IInv'
<1>1. /\ lgO = {NoLog} /\ lg = NoLog /\ lx /\ Unchanged(before)
      /\ df = before.d /\ kf = before.k /\ df \in Seq(Contents) /\ kf \in Seq(Contents)
    BY DEF IInv, Types, Committing, CommitBegin, Unchanged
<1>2. PICK grow \in 0 .. MaxGrow, m \in 1 .. MaxAppend, dirty \in SUBSET (1 .. Len(kf)) :
        /\ new' = dirty \cup ((Len(kf) + 1) .. (Len(kf) + grow))
        /\ after' = [d |-> df \o [i \in 1 .. m |-> ver'],
                     k |-> [i \in 1 .. (Len(kf) + grow) |-> IF i \in new' THEN ver' ELSE kf[i]]]
    BY DEF CommitBegin
<1>3. ver' \in 0 .. MaxCommits /\ ver' \in Contents
    BY BoundsAssumption, SMT DEF IInv, Types, CommitBegin, Contents, Versions, Blank
<1> DEFINE g == Len(kf) + grow
           tail == [i \in 1 .. m |-> ver']
           keys == [i \in 1 .. g |-> IF i \in new' THEN ver' ELSE kf[i]]
<1>4. Len(kf) \in Nat /\ g \in Nat /\ m \in Nat /\ Len(kf) <= g
    BY <1>1, BoundsAssumption, SMT
<1>5. /\ keys \in Seq(Contents) /\ Len(keys) = g
      /\ \A i \in 1 .. g : keys[i] = IF i \in new' THEN ver' ELSE kf[i]
    <2>1. \A i \in 1 .. g : (IF i \in new' THEN ver' ELSE kf[i]) \in Contents
        BY <1>1, <1>2, <1>3, <1>4, SMT
    <2> QED BY <1>4, <2>1, SMT
<1>6. /\ df \o tail \in Seq(Contents) /\ Len(df \o tail) = Len(df) + m
      /\ \A i \in 1 .. (Len(df) + m) :
            (df \o tail)[i] = IF i <= Len(df) THEN df[i] ELSE ver'
    <2> HIDE DEF g, keys
    <2>1. tail \in Seq(Contents) /\ Len(tail) = m /\ \A i \in 1 .. m : tail[i] = ver'
        BY <1>3, <1>4, SMT
    <2> HIDE DEF tail
    <2>2. /\ df \o tail \in Seq(Contents) /\ Len(df \o tail) = Len(df) + m /\ Len(df) \in Nat
          /\ \A i \in 1 .. (Len(df) + m) :
               (df \o tail)[i] = IF i <= Len(df) THEN df[i] ELSE tail[i - Len(df)]
        BY <1>1, <2>1, Joined
    <2>3. \A i \in 1 .. (Len(df) + m) : ~(i <= Len(df)) => i - Len(df) \in 1 .. m
        BY <1>4, <2>2, SMT
    <2> QED BY <2>1, <2>2, <2>3
<1>7. after'.d = df \o tail /\ after'.k = keys /\ after' \in Databases
    <2> HIDE DEF tail, keys
    <2>1. after' = [d |-> df \o tail, k |-> keys]
        BY <1>2 DEF tail, keys
    <2> QED BY <1>5, <1>6, <2>1, SMT DEF Databases
<1> HIDE DEF keys, tail
<1>8. Plan'
    <2>1. before' = before
        BY DEF CommitBegin
    <2>2. /\ Len(before.k) <= Len(keys) /\ new' \subseteq 1 .. Len(keys)
          /\ \A i \in 1 .. Len(keys) :
               IF i \in new' THEN keys[i] = ver' ELSE i <= Len(kf) /\ keys[i] = kf[i]
        <3> HIDE DEF g
        <3>1. new' = dirty \cup ((Len(kf) + 1) .. g) /\ dirty \subseteq 1 .. Len(kf)
            BY <1>2 DEF g
        <3>2. /\ 1 .. Len(kf) \subseteq 1 .. g /\ (Len(kf) + 1) .. g \subseteq 1 .. g
              /\ \A i \in 1 .. g : i <= Len(kf) \/ i \in (Len(kf) + 1) .. g
            BY <1>4, SMT
        <3> QED BY <1>1, <1>4, <1>5, <3>1, <3>2
    <2>3. /\ Len(before.d) <= Len(df \o tail)
          /\ \A i \in 1 .. Len(df \o tail) :
               (df \o tail)[i] = IF i <= Len(before.d) THEN before.d[i] ELSE ver'
        BY <1>1, <1>4, <1>6, SMT
    <2> QED BY <1>1, <1>7, <2>1, <2>2, <2>3 DEF Plan
<1>9. /\ UNCHANGED <<df, dfO, kf, kfO, lg, lgO, lx, before, pos>> /\ pc' = "header"
      /\ Unchanged(before)'
    BY <1>1 DEF CommitBegin, disk, Unchanged
<1>10. Types'
    BY <1>3, <1>7, <1>9 DEF IInv, Types, CommitStates
<1>11. Device'
    BY <1>1, <1>9 DEF Device
<1>12. Committing'
    BY <1>1, <1>8, <1>9 DEF Committing, CommitStates, Written
<1> QED BY <1>9, <1>10, <1>11, <1>12, Elsewhere DEF IInv, CommitStates

LEMMA WriteLogHeaderIInv == ASSUME IInv, WriteLogHeader PROVE IInv'
<1>1. /\ lgO = {NoLog} /\ Unchanged(before) /\ lx /\ Plan /\ before \in Databases
      /\ df = before.d /\ kf = before.k /\ dfO = {before.d} /\ kfO = {before.k}
      /\ before.d \in Seq(Contents) /\ before.k \in Seq(Contents)
    BY DEF IInv, Types, Committing, WriteLogHeader, Unchanged, CommitStates
<1>2. /\ lg' = [h |-> <<Len(before.k), Len(before.d)>>, r |-> <<>>] /\ lgO' = {NoLog, lg'}
      /\ pc' = "headersync"
      /\ UNCHANGED <<df, dfO, kf, kfO, lx, ver, new, pos, before, after>>
    BY <1>1 DEF WriteLogHeader
<1>3. UndoLog(before, lg') /\ lg'.r = <<>> /\ lg' # NoLog
    <2>1. lg'.r = <<>> /\ lg' = [h |-> <<Len(before.k), Len(before.d)>>, r |-> lg'.r]
        BY <1>2, SMT
    <2>2. \A S : <<>> \in Seq(S) /\ 1 .. Len(<<>>) = {}
        BY SMT
    <2>3. UndoLog(before, lg')
        BY <2>1, <2>2 DEF UndoLog
    <2> QED BY <1>1, <2>1, <2>3, UndoParts
<1>4. DataKept(before, before.d) /\ KeysKept(before, before.k, lg')
    BY <1>1, SMT DEF DataKept, KeysKept
<1>5. Unchanged(before)' /\ Plan'
    BY <1>1, <1>2 DEF Unchanged, Plan
<1>6. Device'
    <2>1. \A l \in lgO' \ {NoLog} : l = lg'
        BY <1>2
    <2>2. Len(lg'.r) <= Len(lg'.r)
        BY <1>3, SMT
    <2> QED BY <1>1, <1>2, <1>3, <1>4, <1>5, <2>1, <2>2 DEF Device
<1>7. Types'
    BY <1>1, <1>2, TypesStep DEF IInv, Types, CommitStates
<1>8. Committing'
    BY <1>1, <1>2, <1>3, <1>5 DEF Committing, CommitStates, Written
<1> QED BY <1>2, <1>6, <1>7, <1>8, Elsewhere DEF IInv, CommitStates

LEMMA SyncLogHeaderIInv == ASSUME IInv, SyncLogHeader PROVE IInv'
<1>1. /\ Unchanged(before) /\ lx /\ Plan /\ lg.r = <<>> /\ lg # NoLog /\ lg \in lgO
      /\ df = before.d /\ kf = before.k /\ before \in Databases
    BY DEF IInv, Types, Committing, SyncLogHeader, Unchanged, CommitStates
<1>2. /\ lg' = lg /\ lgO' = {lg} /\ pc' = "data"
      /\ UNCHANGED <<df, dfO, kf, kfO, lx, ver, new, pos, before, after>>
    BY DEF SyncLogHeader, lgSync
<1>3. Device'
    BY <1>1, <1>2, Shrinks DEF IInv, Unchanged
<1>4. Types'
    BY <1>2, TypesStep DEF IInv, Types, CommitStates
<1>5. Plan' /\ kfO' = {before.k}
    BY <1>1, <1>2 DEF Plan, Unchanged
<1>6. Len(df) <= Len(after.d) /\ \A i \in 1 .. Len(df) : df[i] = after.d[i]
    <2>1. before.d \in Seq(Contents) /\ after.d \in Seq(Contents)
        BY SMT DEF IInv, Types, Databases
    <2> QED BY <1>1, <2>1, SMT DEF Plan
<1>7. Committing'
    BY <1>1, <1>2, <1>5, <1>6 DEF Committing, CommitStates, Written
<1> QED BY <1>2, <1>3, <1>4, <1>7, Elsewhere DEF IInv, CommitStates

\* A file one element longer
LEMMA FileExtended ==
    ASSUME NEW f \in Seq(Contents), NEW v \in Contents
    PROVE  /\ Append(f, v) \in Seq(Contents) /\ Len(Append(f, v)) = Len(f) + 1
           /\ Append(f, v)[Len(f) + 1] = v
           /\ \A i \in 1 .. Len(f) : Append(f, v)[i] = f[i]
BY SMT

\* The data file is appended to under a log.
LEMMA AppendStep ==
    ASSUME IInv, NEW v \in Contents, dfAppend(v), NoLog \notin lgO,
           UNCHANGED <<kf, kfO, lg, lgO, lx, before, after>>
    PROVE  Device' /\ dfO' \subseteq Seq(Contents) /\ df' \in dfO'
<1>1. /\ Types /\ Device /\ lg \in lgO /\ lg # NoLog /\ df \in Seq(Contents)
      /\ before.d \in Seq(Contents)
    <2>1. before.d \in Seq(Contents)
        BY SMT DEF IInv, Types, Databases
    <2> QED BY <2>1 DEF IInv, Types
<1>2. df' = Append(df, v) /\ dfO' = dfO \cup {df', Append(df, Torn)}
    BY DEF dfAppend
<1>3. Torn \in Contents
    BY DEF Contents
<1>4. \A w \in Contents : Append(df, w) \in Seq(Contents) /\ DataKept(before, Append(df, w))
    <2> SUFFICES ASSUME NEW w \in Contents
                 PROVE  Append(df, w) \in Seq(Contents) /\ DataKept(before, Append(df, w))
        OBVIOUS
    <2>1. DataKept(before, df)
        BY <1>1, LogShown
    <2>2. /\ Append(df, w) \in Seq(Contents) /\ Len(Append(df, w)) = Len(df) + 1
          /\ \A i \in 1 .. Len(df) : Append(df, w)[i] = df[i]
        BY <1>1, FileExtended
    <2>3. Len(before.d) <= Len(df) + 1 /\ 1 .. Len(before.d) \subseteq 1 .. Len(df)
        BY <1>1, <2>1, SMT DEF DataKept
    <2> QED BY <2>1, <2>2, <2>3 DEF DataKept
<1>5. \A d \in dfO' : DataKept(before, d)
    BY <1>1, <1>2, <1>3, <1>4, LogShown
<1>6. Device'
    BY <1>1, <1>5, FilesStep DEF Device
<1> QED BY <1>1, <1>2, <1>3, <1>4, <1>6 DEF Types

LEMMA AppendDataIInv == ASSUME IInv, AppendData PROVE IInv'
<1>1. /\ lx /\ Plan /\ NoLog \notin lgO /\ kfO = {before.k} /\ lgO = {lg} /\ lg.r = <<>>
      /\ Len(df) <= Len(after.d) /\ \A i \in 1 .. Len(df) : df[i] = after.d[i]
    BY DEF IInv, Committing, AppendData, CommitStates
<1>2. /\ dfAppend(ver) /\ Len(df) < Len(after.d) /\ pc' = pc /\ pc = "data"
      /\ UNCHANGED <<kf, kfO, lg, lgO, lx, ver, new, todo, pos, before, after>>
    BY DEF AppendData
<1>3. ver \in Contents /\ df \in Seq(Contents) /\ after.d \in Seq(Contents)
    BY BoundsAssumption, SMT DEF IInv, Types, Databases, Contents, Versions, Blank
<1>4. Device' /\ dfO' \subseteq Seq(Contents) /\ df' \in dfO'
    BY <1>1, <1>2, <1>3, AppendStep
<1>5. Types'
    BY <1>2, <1>4, TypesStep DEF IInv, Types
<1>6. Len(df') <= Len(after.d) /\ \A i \in 1 .. Len(df') : df'[i] = after.d[i]
    <2>1. /\ df' = Append(df, ver) /\ Len(df') = Len(df) + 1 /\ df'[Len(df) + 1] = ver
          /\ \A i \in 1 .. Len(df) : df'[i] = df[i]
        BY <1>2, <1>3, FileExtended DEF dfAppend
    <2>2. Len(before.d) <= Len(df)
        BY <1>1, LogShown DEF IInv, Types, DataKept
    <2>3. after.d[Len(df) + 1] = ver
        <3>1. before.d \in Seq(Contents)
            BY SMT DEF IInv, Types, Databases
        <3>2. Len(df) + 1 \in 1 .. Len(after.d) /\ ~(Len(df) + 1 <= Len(before.d))
            BY <1>2, <1>3, <2>2, <3>1, SMT
        <3> QED BY <1>1, <3>2 DEF Plan
    <2> QED BY <1>1, <1>2, <1>3, <2>1, <2>3, SMT
<1>7. Plan'
    BY <1>1, <1>2 DEF Plan
<1>8. Committing'
    BY <1>1, <1>2, <1>6, <1>7 DEF Committing, CommitStates, Written
<1> QED BY <1>2, <1>4, <1>5, <1>8, Elsewhere DEF IInv, CommitStates

LEMMA FlushDataIInv == ASSUME IInv, FlushData PROVE IInv'
<1>1. /\ lx /\ Plan /\ NoLog \notin lgO /\ kfO = {before.k} /\ lgO = {lg} /\ kf = before.k
      /\ \A i \in 1 .. Len(df) : df[i] = after.d[i]
    BY DEF IInv, Types, Committing, FlushData, CommitStates
<1>2. /\ Len(df) = Len(after.d) /\ pc' = "log" /\ todo' = new \cap (1 .. Len(kf))
      /\ UNCHANGED <<df, dfO, kf, kfO, lg, lgO, lx, ver, new, pos, before, after>>
    BY DEF FlushData, disk
<1>3. df \in Seq(Contents) /\ after.d \in Seq(Contents)
    BY SMT DEF IInv, Types, Databases
<1>4. df = after.d
    BY <1>1, <1>2, <1>3, FilesEqual
<1>5. Device' /\ Plan'
    BY <1>1, <1>2 DEF IInv, Device, Plan, Unchanged
<1>6. Types'
    BY <1>2, TypesStep DEF IInv, Types, CommitStates
<1>7. todo' = OldBuckets'
    BY <1>1, <1>2 DEF OldBuckets
<1>8. Committing'
    BY <1>1, <1>2, <1>4, <1>5, <1>7 DEF Committing, CommitStates, Written
<1> QED BY <1>2, <1>5, <1>6, <1>8, Elsewhere DEF IInv, CommitStates

LEMMA LogFields == \A h, r : [h |-> h, r |-> r].h = h /\ [h |-> h, r |-> r].r = r
BY SMT

\* A log of x with a record for bucket i added
Extended(x, l, i) == [h |-> l.h, r |-> Append(l.r, <<i, x.k[i]>>)]

\* m is log l with a record for bucket i added.
Adds(l, i, m) ==
    /\ Covers(m.r, i) /\ Len(l.r) <= Len(m.r) /\ \A j \in 1 .. Len(l.r) : m.r[j] = l.r[j]
    /\ \A j : Covers(l.r, j) => Covers(m.r, j)

LEMMA LogExtended ==
    ASSUME NEW x \in Databases, NEW l, UndoLog(x, l), NEW i \in 1 .. Len(x.k)
    PROVE  UndoLog(x, Extended(x, l, i)) /\ Adds(l, i, Extended(x, l, i))
<1> DEFINE rec == <<i, x.k[i]>>
           S == (1 .. Len(x.k)) \X Contents
           r == Append(l.r, rec)
           m == Extended(x, l, i)
<1>1. /\ l = [h |-> <<Len(x.k), Len(x.d)>>, r |-> l.r] /\ l.r \in Seq(S)
      /\ \A j \in 1 .. Len(l.r) : l.r[j][2] = x.k[l.r[j][1]]
    BY DEF UndoLog
<1>2. rec \in S /\ rec[1] = i /\ rec[2] = x.k[i]
    <2>1. x.k \in Seq(Contents)
        BY SMT DEF Databases
    <2> QED BY <2>1, SMT
<1> HIDE DEF rec, S
<1>3. /\ r \in Seq(S) /\ Len(r) = Len(l.r) + 1 /\ r[Len(l.r) + 1] = rec
      /\ \A j \in 1 .. Len(l.r) : r[j] = l.r[j]
    BY <1>1, <1>2, SMT
<1> HIDE DEF r
<1>4. /\ Len(l.r) \in Nat /\ 1 .. Len(r) = (1 .. Len(l.r)) \cup {Len(l.r) + 1}
      /\ Len(l.r) <= Len(r)
    BY <1>1, <1>3, SMT
<1>5. m = [h |-> <<Len(x.k), Len(x.d)>>, r |-> r]
    <2>1. l.h = <<Len(x.k), Len(x.d)>>
        BY <1>1, SMT
    <2> QED BY <2>1 DEF rec, r, Extended
<1> HIDE DEF m
<1>6. m.r = r /\ m = [h |-> <<Len(x.k), Len(x.d)>>, r |-> m.r]
    BY <1>5, LogFields
<1>7. UndoLog(x, m)
    <2>1. \A j \in 1 .. Len(r) : r[j][2] = x.k[r[j][1]]
        BY <1>1, <1>2, <1>3, <1>4
    <2> QED BY <1>3, <1>6, <2>1 DEF UndoLog, S
<1>8. Covers(r, i) /\ \A j : Covers(l.r, j) => Covers(r, j)
    BY <1>2, <1>3, <1>4 DEF Covers
<1> QED BY <1>3, <1>4, <1>6, <1>7, <1>8 DEF m, Adds

LEMMA LogBucketIInv ==
    ASSUME SparseAppends = FALSE, IInv, NEW i \in todo, LogBucket(i)
    PROVE  IInv'
<1>1. /\ lx /\ Plan /\ NoLog \notin lgO /\ kfO = {before.k} /\ kf = before.k /\ df = after.d
      /\ todo \subseteq OldBuckets /\ \A m \in OldBuckets \ todo : Covers(lg.r, m)
      /\ lg \in lgO /\ lg # NoLog /\ UndoLog(before, lg) /\ before \in Databases
    BY LogShown DEF IInv, Types, Committing, LogBucket, CommitStates
<1>2. /\ lg' = [lg EXCEPT !.r = Append(@, <<i, before.k[i]>>)] /\ lgO' = lgO \cup {lg'}
      /\ todo' = todo \ {i} /\ pc' = pc /\ pc = "log"
      /\ UNCHANGED <<df, dfO, kf, kfO, lx, ver, new, pos, before, after>>
    BY <1>1 DEF LogBucket, lgAppend
<1>3. /\ UndoLog(before, lg') /\ Covers(lg'.r, i) /\ Len(lg.r) <= Len(lg'.r)
      /\ \A j \in 1 .. Len(lg.r) : lg'.r[j] = lg.r[j]
      /\ \A j : Covers(lg.r, j) => Covers(lg'.r, j)
    <2>1. i \in 1 .. Len(before.k)
        BY <1>1 DEF OldBuckets
    <2>2. lg = [h |-> lg.h, r |-> lg.r]
        BY <1>1, SMT DEF UndoLog
    <2>3. \A r : [lg EXCEPT !.r = r] = [h |-> lg.h, r |-> r]
        BY <2>2, SMT
    <2>4. lg' = Extended(before, lg, i)
        BY <1>2, <2>3 DEF Extended
    <2>5. before \in Databases /\ UndoLog(before, lg)
        BY <1>1
    <2>6. UndoLog(before, lg') /\ Adds(lg, i, lg')
        BY <2>1, <2>4, <2>5, LogExtended
    <2> QED BY <2>6 DEF Adds
<1>4. lg' # NoLog
    BY <1>1, <1>3, UndoParts
<1>5. ASSUME NEW l \in lgO
      PROVE  Len(l.r) <= Len(lg'.r) /\ \A j \in 1 .. Len(l.r) : l.r[j] = lg'.r[j]
    <2>1. l # NoLog /\ UndoLog(before, l) /\ Len(l.r) <= Len(lg.r)
          /\ \A j \in 1 .. Len(l.r) : l.r[j] = lg.r[j]
        BY <1>1, <1>5 DEF IInv, Device
    <2>2. Len(l.r) \in Nat /\ Len(lg.r) \in Nat /\ Len(lg'.r) \in Nat
        BY <1>1, <1>3, <2>1, SMT DEF UndoLog
    <2>3. Len(l.r) <= Len(lg'.r) /\ 1 .. Len(l.r) \subseteq 1 .. Len(lg.r)
        BY <1>3, <2>1, <2>2, SMT
    <2> QED BY <1>3, <2>1, <2>3
<1>6. KeysKept(before, before.k, lg') /\ \A d \in dfO : DataKept(before, d)
    <2>1. Len(before.k) <= Len(before.k)
        BY <1>1, SMT DEF Databases
    <2> QED BY <1>1, <2>1, LogShown DEF KeysKept, IInv
<1>7. Device'
    <2>1. Len(lg'.r) <= Len(lg'.r)
        BY <1>3, SMT DEF UndoLog
    <2>2. NoLog \notin lgO' /\ \A l \in lgO' : l \in lgO \/ l = lg'
        BY <1>1, <1>2, <1>4
    <2> QED BY <1>1, <1>2, <1>3, <1>5, <1>6, <2>1, <2>2 DEF IInv, Device
<1>8. Types'
    BY <1>2, TypesStep DEF IInv, Types, CommitStates
<1>9. Plan' /\ OldBuckets' = OldBuckets
    BY <1>1, <1>2 DEF Plan, OldBuckets
<1>10. todo' \subseteq OldBuckets' /\ \A m \in OldBuckets' \ todo' : Covers(lg'.r, m)
    BY <1>1, <1>2, <1>3, <1>9
<1>11. Committing'
    BY <1>1, <1>2, <1>4, <1>9, <1>10 DEF Committing, CommitStates, Written
<1> QED BY <1>2, <1>7, <1>8, <1>11, Elsewhere DEF IInv, CommitStates

LEMMA SyncLogIInv == ASSUME IInv, SyncLog PROVE IInv'
<1>1. /\ lx /\ Plan /\ NoLog \notin lgO /\ kf = before.k /\ df = after.d /\ todo = {}
      /\ \A m \in OldBuckets \ todo : Covers(lg.r, m)
      /\ lg \in lgO /\ dfO # {} /\ kfO # {}
    BY DEF IInv, Types, Committing, SyncLog, CommitStates
<1>2. /\ lg' = lg /\ lgO' = {lg} /\ pc' = "keys" /\ todo' = new
      /\ UNCHANGED <<df, dfO, kf, kfO, lx, ver, new, pos, before, after>>
    BY DEF SyncLog, lgSync
<1>3. Device'
    BY <1>1, <1>2, Shrinks DEF IInv
<1>4. Types'
    BY <1>2, TypesStep DEF IInv, Types, CommitStates
<1>5. Plan' /\ OldBuckets' = OldBuckets
    BY <1>1, <1>2 DEF Plan, OldBuckets
<1>6. Len(kf) <= Len(after.k)
    BY <1>1 DEF Plan
<1>7. Committing'
    BY <1>1, <1>2, <1>5, <1>6 DEF Committing, CommitStates, Written
<1> QED BY <1>2, <1>3, <1>4, <1>7, Elsewhere DEF IInv, CommitStates

\* A block of the key file may be overwritten when it is in the log, when the
\* file of x had no such block, or with what x has in it.
LEMMA KeysWritten ==
    ASSUME NEW x \in Databases, NEW l, NEW k \in Seq(Contents), KeysKept(x, k, l),
           NEW i \in Nat \ {0}, NEW v \in Contents,
           Covers(l.r, i) \/ i > Len(x.k) \/ v = x.k[i]
    PROVE  KeysKept(x, WriteBlock(k, i, v), l) /\ KeysKept(x, WritePart(k, i, v), l)
<1>1. x.k \in Seq(Contents) /\ Len(x.k) \in Nat /\ Len(k) \in Nat /\ Len(x.k) <= Len(k)
    BY SMT DEF Databases, KeysKept
<1>2. ASSUME NEW f, Len(f) = IF i > Len(k) THEN i ELSE Len(k),
             \A j \in 1 .. Len(k) : j # i => f[j] = k[j],
             i \in 1 .. Len(x.k) => Covers(l.r, i) \/ f[i] = x.k[i]
      PROVE  KeysKept(x, f, l)
    <2>1. Len(x.k) <= Len(f) /\ 1 .. Len(x.k) \subseteq 1 .. Len(k)
        BY <1>1, <1>2, SMT
    <2>2. ASSUME NEW j \in 1 .. Len(x.k) PROVE Covers(l.r, j) \/ f[j] = x.k[j]
        BY <1>2, <2>1 DEF KeysKept
    <2> QED BY <2>1, <2>2 DEF KeysKept
<1>3. i \in 1 .. Len(x.k) => i \in 1 .. Len(k) /\ i <= Len(k) /\ ~(i > Len(x.k))
    BY <1>1, SMT
<1>4. KeysKept(x, WriteBlock(k, i, v), l)
    <2>1. i \in 1 .. Len(x.k) => Covers(l.r, i) \/ WriteBlock(k, i, v)[i] = x.k[i]
        BY <1>3, BlockWritten
    <2> QED BY <1>2, <2>1, BlockWritten
<1>5. KeysKept(x, WritePart(k, i, v), l)
    <2>1. ASSUME i \in 1 .. Len(x.k), ~Covers(l.r, i) PROVE WritePart(k, i, v)[i] = x.k[i]
        <3>1. k[i] = x.k[i] /\ v = x.k[i] /\ i <= Len(k)
            BY <1>3, <2>1 DEF KeysKept
        <3> QED BY <3>1, PartWritten
    <2> QED BY <1>2, <2>1, PartWritten
<1> QED BY <1>4, <1>5

LEMMA KeysStep ==
    ASSUME IInv, NoLog \notin lgO', lgO' \subseteq lgO, lg \in lgO',
           UNCHANGED <<dfO, lg, lx, before, after>>, NEW i \in Nat \ {0}, NEW v \in Contents,
           kfO' \subseteq kfO \cup {WriteBlock(o, i, v) : o \in kfO}
                              \cup {WritePart(o, i, v) : o \in kfO},
           \A l \in lgO' : Covers(l.r, i) \/ i > Len(before.k) \/ v = before.k[i]
    PROVE  Device' /\ kfO' \subseteq Seq(Contents)
<1>1. Types /\ Device /\ lg # NoLog /\ before \in Databases /\ kfO \subseteq Seq(Contents)
    BY DEF IInv, Types
<1>2. ASSUME NEW o \in kfO
      PROVE  WriteBlock(o, i, v) \in Seq(Contents) /\ WritePart(o, i, v) \in Seq(Contents)
    BY <1>1, BlockWritten, PartWritten
<1>3. ASSUME NEW o \in kfO, NEW l \in lgO'
      PROVE  /\ KeysKept(before, o, l) /\ KeysKept(before, WriteBlock(o, i, v), l)
             /\ KeysKept(before, WritePart(o, i, v), l)
    <2>1. KeysKept(before, o, l)
        BY <1>1 DEF Device
    <2> QED BY <1>1, <2>1, KeysWritten
<1>4. \A l \in lgO' \ {NoLog}, k \in kfO' : KeysKept(before, k, l)
    BY <1>3
<1>5. \A d \in dfO' : DataKept(before, d)
    BY <1>1, LogShown
<1>6. Device'
    BY <1>1, <1>4, <1>5, FilesStep
<1> QED BY <1>1, <1>2, <1>6

\* The same, for the block of a bucket that the commit rewrites or adds
LEMMA BucketStep ==
    ASSUME IInv, pc = "keys", NEW i \in todo, NEW v \in Contents, kfWrite(i, v),
           UNCHANGED <<dfO, lg, lgO, lx, before, after>>
    PROVE  /\ Device' /\ kfO' \subseteq Seq(Contents) /\ kf' \in kfO' /\ i \in Nat \ {0}
           /\ kf' = WriteBlock(kf, i, v)
<1>1. /\ lgO = {lg} /\ lg # NoLog /\ Plan /\ kf \in kfO
      /\ todo \subseteq new /\ \A m \in OldBuckets : Covers(lg.r, m)
    BY DEF IInv, Types, Committing, CommitStates
<1>2. i \in new /\ i \in 1 .. Len(after.k)
    BY <1>1 DEF Plan
<1>3. i \in Nat \ {0}
    BY <1>2, SMT
<1>4. Covers(lg.r, i) \/ i > Len(before.k)
    <2>1. Len(before.k) \in Nat
        BY SMT DEF IInv, Types, Databases
    <2>2. i \in 1 .. Len(before.k) \/ i > Len(before.k)
        BY <1>3, <2>1, SMT
    <2> QED BY <1>1, <1>2, <2>2 DEF OldBuckets
<1>5. /\ kf' = WriteBlock(kf, i, v) /\ kf' \in kfO'
      /\ kfO' = kfO \cup {WriteBlock(o, i, v) : o \in kfO} \cup {WritePart(o, i, v) : o \in kfO}
    BY <1>1 DEF kfWrite
<1> QED BY <1>1, <1>3, <1>4, <1>5, KeysStep

LEMMA WriteBucketIInv == ASSUME IInv, NEW i \in todo, WriteBucket(i) PROVE IInv'
<1>1. /\ pc = "keys" /\ lx /\ Plan /\ df = after.d /\ lgO = {lg} /\ lg # NoLog
      /\ todo \subseteq new /\ \A m \in OldBuckets : Covers(lg.r, m)
      /\ Len(kf) <= Len(after.k) /\ \A m \in new \ todo : m <= Len(kf) /\ kf[m] = ver
      /\ \A m \in (1 .. Len(before.k)) \ new : kf[m] = before.k[m]
    BY DEF IInv, Committing, WriteBucket, CommitStates, Written
<1>2. /\ kfWrite(i, ver) /\ todo' = todo \ {i} /\ pc' = pc
      /\ UNCHANGED <<df, dfO, lg, lgO, lx, ver, new, pos, before, after>>
    BY DEF WriteBucket
<1>3. ver \in Contents /\ kf \in Seq(Contents) /\ after.k \in Seq(Contents)
    BY BoundsAssumption, SMT DEF IInv, Types, Databases, Contents, Versions, Blank
<1>4. /\ Device' /\ kfO' \subseteq Seq(Contents) /\ kf' \in kfO' /\ i \in Nat \ {0}
      /\ kf' = WriteBlock(kf, i, ver)
    BY <1>1, <1>2, <1>3, BucketStep
<1>5. Types'
    BY <1>2, <1>4, TypesStep DEF IInv, Types
<1>6. Plan' /\ OldBuckets' = OldBuckets
    BY <1>1, <1>2 DEF Plan, OldBuckets
<1>7. /\ Len(kf') = (IF i > Len(kf) THEN i ELSE Len(kf)) /\ kf'[i] = ver
      /\ \A j \in 1 .. Len(kf) : j # i => kf'[j] = kf[j]
    <2> DEFINE f == WriteBlock(kf, i, ver)
    <2>1. kf' = f /\ i \in Nat \ {0}
        BY <1>4
    <2>2. /\ Len(f) = (IF i > Len(kf) THEN i ELSE Len(kf)) /\ f[i] = ver
          /\ \A j \in 1 .. Len(kf) : j # i => f[j] = kf[j]
        BY <1>3, <2>1, BlockWritten
    <2> HIDE DEF f
    <2> QED BY <2>1, <2>2
<1>8. i \in 1 .. Len(after.k) /\ i \in new /\ new \subseteq 1 .. Len(after.k)
    BY <1>1 DEF Plan
<1>9. Len(kf') <= Len(after.k) /\ Len(kf) <= Len(kf') /\ i <= Len(kf')
    BY <1>1, <1>3, <1>7, <1>8, SMT
<1>10. ASSUME NEW m \in new \ todo' PROVE m <= Len(kf') /\ kf'[m] = ver
    <2>1. CASE m = i
        BY <1>7, <1>9, <2>1
    <2>2. CASE m # i
        <3>1. m \in new \ todo /\ m <= Len(kf) /\ kf[m] = ver
            BY <1>1, <1>2, <1>10, <2>2
        <3>2. m \in 1 .. Len(kf) /\ m <= Len(kf')
            BY <1>3, <1>4, <1>8, <1>9, <1>7, <3>1, SMT
        <3> QED BY <1>7, <2>2, <3>1, <3>2
    <2> QED BY <2>1, <2>2
<1>11. ASSUME NEW m \in (1 .. Len(before.k)) \ new PROVE kf'[m] = before.k[m]
    <2>1. Len(before.k) <= Len(kf) /\ Len(before.k) \in Nat
        <3>1. KeysKept(before, kf, lg)
            BY <1>1, LogShown DEF IInv
        <3> QED BY <3>1, SMT DEF KeysKept, IInv, Types, Databases
    <2>2. m \in 1 .. Len(kf) /\ m # i
        BY <1>3, <1>8, <2>1, SMT
    <2> QED BY <1>1, <1>7, <2>2
<1>12. Committing'
    BY <1>1, <1>2, <1>6, <1>9, <1>10, <1>11 DEF Committing, CommitStates, Written
<1> QED BY <1>1, <1>2, <1>4, <1>5, <1>12, Elsewhere DEF IInv, CommitStates

LEMMA SyncDataIInv == ASSUME IInv, SyncData PROVE IInv'
<1>1. /\ lx /\ Plan /\ df = after.d /\ lgO = {lg} /\ lg # NoLog /\ todo = {}
      /\ \A m \in OldBuckets : Covers(lg.r, m)
      /\ Len(kf) <= Len(after.k) /\ \A m \in new \ todo : m <= Len(kf) /\ kf[m] = ver
      /\ \A m \in (1 .. Len(before.k)) \ new : kf[m] = before.k[m]
    BY DEF IInv, Committing, SyncData, CommitStates, Written
<1>2. /\ df' = df /\ dfO' = {df} /\ pc' = "keysync" /\ df \in dfO /\ kfO # {}
      /\ UNCHANGED <<kf, kfO, lg, lgO, lx, ver, new, pos, before, after>>
    BY DEF IInv, Types, SyncData, dfSync
<1>3. Device'
    BY <1>1, <1>2, Shrinks DEF IInv
<1>4. Types'
    BY <1>2, TypesStep DEF IInv, Types, CommitStates
<1>5. Plan' /\ OldBuckets' = OldBuckets
    BY <1>1, <1>2 DEF Plan, OldBuckets
<1>6. kf = after.k
    <2>1. kf \in Seq(Contents) /\ after.k \in Seq(Contents) /\ before.k \in Seq(Contents)
        BY SMT DEF IInv, Types, Databases
    <2>2. KeysKept(before, kf, lg)
        BY <1>1, LogShown DEF IInv
    <2>3. Len(kf) \in Nat /\ Len(after.k) \in Nat /\ Len(before.k) \in Nat /\ Len(before.k) <= Len(kf)
        BY <2>1, <2>2, SMT DEF KeysKept
    <2>4. ASSUME NEW j \in 1 .. Len(after.k) PROVE j <= Len(kf) /\ kf[j] = after.k[j]
        <3>1. CASE j \in new
            BY <1>1, <3>1 DEF Plan
        <3>2. CASE j \notin new
            <4>1. j <= Len(before.k) /\ after.k[j] = before.k[j]
                BY <1>1, <3>2 DEF Plan
            <4>2. j \in 1 .. Len(before.k) /\ j <= Len(kf)
                BY <2>3, <4>1, SMT
            <4> QED BY <1>1, <3>2, <4>1, <4>2
        <3> QED BY <3>1, <3>2
    <2>5. Len(kf) = Len(after.k)
        BY <1>1, <2>3, <2>4, SMT
    <2> QED BY <2>1, <2>4, <2>5, FilesEqual
<1>7. Committing'
    BY <1>1, <1>2, <1>5, <1>6 DEF Committing, CommitStates, Written
<1> QED BY <1>2, <1>3, <1>4, <1>7, Elsewhere DEF IInv, CommitStates

LEMMA SyncKeysIInv == ASSUME IInv, SyncKeys PROVE IInv'
<1>1. /\ lx /\ Plan /\ df = after.d /\ kf = after.k /\ dfO = {df} /\ lgO = {lg} /\ lg # NoLog
      /\ \A m \in OldBuckets : Covers(lg.r, m)
    BY DEF IInv, Committing, SyncKeys, CommitStates, Written
<1>2. /\ kf' = kf /\ kfO' = {kf} /\ pc' = "logtrunc" /\ kf \in kfO
      /\ UNCHANGED <<df, dfO, lg, lgO, lx, ver, new, pos, before, after>>
    BY DEF IInv, Types, SyncKeys, kfSync
<1>3. Device'
    BY <1>1, <1>2, Shrinks DEF IInv
<1>4. Types'
    BY <1>2, TypesStep DEF IInv, Types, CommitStates
<1>5. Plan' /\ OldBuckets' = OldBuckets
    BY <1>1, <1>2 DEF Plan, OldBuckets
<1>6. Committing'
    BY <1>1, <1>2, <1>5 DEF Committing, CommitStates, Written
<1> QED BY <1>2, <1>3, <1>4, <1>6, Elsewhere DEF IInv, CommitStates

LEMMA TruncLogIInv == ASSUME IInv, TruncLog PROVE IInv'
<1>1. lx /\ Plan /\ df = after.d /\ kf = after.k /\ dfO = {df} /\ kfO = {kf}
    BY DEF IInv, Committing, TruncLog, CommitStates, Written
<1>2. /\ lgTrunc0 /\ lg' = NoLog /\ lgO' = lgO \cup {NoLog} /\ pc' = "logtruncsync"
      /\ UNCHANGED <<df, dfO, kf, kfO, lx, ver, new, pos, before, after>>
    BY DEF TruncLog, lgTrunc0
<1>3. Device'
    BY <1>1, <1>2, ClearStep DEF IInv, Unchanged
<1>4. Types'
    BY <1>2, TypesStep DEF IInv, Types, CommitStates
<1>5. Plan'
    BY <1>1, <1>2 DEF Plan
<1>6. Committing'
    BY <1>1, <1>2, <1>5 DEF Committing, CommitStates, Written
<1> QED BY <1>2, <1>3, <1>4, <1>6, Elsewhere DEF IInv, CommitStates

LEMMA CommitEndIInv == ASSUME IInv, CommitEnd PROVE IInv'
<1>1. /\ lx /\ lg = NoLog /\ df = after.d /\ kf = after.k /\ dfO = {df} /\ kfO = {kf}
    BY DEF IInv, Committing, CommitEnd, CommitStates, Written
<1>2. /\ lg' = NoLog /\ lgO' = {NoLog} /\ pc' = "idle" /\ before' = after /\ after' = after
      /\ UNCHANGED <<df, dfO, kf, kfO, lx, ver, pos>>
    BY <1>1 DEF CommitEnd, lgSync
<1>3. Unchanged(before)'
    BY <1>1, <1>2 DEF Unchanged
<1>4. Device'
    BY <1>1, <1>2, <1>3 DEF Device
<1>5. Types'
    BY <1>2 DEF IInv, Types, CommitStates
<1>6. Committing'
    BY <1>1, <1>2, <1>3 DEF Committing, CommitStates, Written
<1> QED BY <1>2, <1>4, <1>5, <1>6, Elsewhere DEF IInv

LEMMA CommitFailIInv == ASSUME IInv, CommitFail PROVE IInv'
<1>1. /\ pc' = "failed" /\ UNCHANGED <<lg, lgO, lx, ver, pos, before, after>> /\ Torn \in Contents
    BY DEF CommitFail, Contents
<1>2. Committing' /\ Recovering'
    BY <1>1, Elsewhere
<1>3. CASE UNCHANGED <<df, dfO, kf, kfO>>
    <2>1. Device'
        BY <1>1, <1>3 DEF IInv, Device, Unchanged
    <2>2. Types'
        BY <1>1, <1>3, TypesStep DEF IInv, Types
    <2> QED BY <1>2, <2>1, <2>2 DEF IInv
<1>4. CASE pc = "data" /\ dfAppend(Torn) /\ UNCHANGED <<kf, kfO>>
    <2>1. NoLog \notin lgO
        BY <1>4 DEF IInv, Committing
    <2>2. Device' /\ dfO' \subseteq Seq(Contents) /\ df' \in dfO'
        BY <1>1, <1>4, <2>1, AppendStep
    <2>3. Types'
        BY <1>1, <1>4, <2>2, TypesStep DEF IInv, Types
    <2> QED BY <1>2, <2>2, <2>3 DEF IInv
<1>5. CASE pc = "keys" /\ (\E i \in todo : kfWrite(i, Torn)) /\ UNCHANGED <<df, dfO>>
    <2>1. Device' /\ kfO' \subseteq Seq(Contents) /\ kf' \in kfO'
        BY <1>1, <1>5, BucketStep
    <2>2. Types'
        BY <1>1, <1>5, <2>1, TypesStep DEF IInv, Types
    <2> QED BY <1>2, <2>1, <2>2 DEF IInv
<1> QED BY <1>3, <1>4, <1>5 DEF CommitFail

-----------------------------------------------------------------------------
(* close, recover and the interruptions *)

\* Steps that leave the files as they are
LEMMA QuietStep ==
    ASSUME IInv, UNCHANGED <<df, dfO, kf, kfO, lg, lgO, ver, before, after>>,
           lx' = lx \/ (lx' \in BOOLEAN /\ lgO = {NoLog}), pos' \in Nat \ {0},
           pc' \in CommitStates \cup RecoverStates \cup {"down", "idle", "failed"}
    PROVE  Types' /\ Device'
<1>1. Types'
    BY TypesStep DEF IInv, Types
<1>2. Device'
    BY DEF IInv, Device, Unchanged
<1> QED BY <1>1, <1>2

LEMMA CloseIInv == ASSUME IInv, close \/ Kill \/ EraseLog PROVE IInv'
<1>1. /\ UNCHANGED <<df, dfO, kf, kfO, lg, lgO, ver, pos, before, after>>
      /\ pc' \in {"down", "recovered"} /\ pos \in Nat \ {0}
    BY DEF close, Kill, EraseLog, disk, IInv, Types
<1>2. lx' = lx \/ (lx' \in BOOLEAN /\ lgO = {NoLog})
    <2>1. CASE close
        <3>1. pc = "idle" => lgO = {NoLog}
            BY DEF IInv, Committing
        <3>2. pc # "idle" => pc = "failed" /\ lx'
            BY <2>1 DEF close
        <3>3. lx' \in BOOLEAN
            BY <2>1 DEF close
        <3>4. ~lx => lgO = {NoLog}
            BY DEF IInv, Device
        <3>5. lx \in BOOLEAN
            BY DEF IInv, Types
        <3> QED BY <3>1, <3>2, <3>3, <3>4, <3>5
    <2>2. CASE Kill
        BY <2>2 DEF Kill, disk
    <2>3. CASE EraseLog
        BY <2>3 DEF EraseLog, IInv, Recovering
    <2> QED BY <2>1, <2>2, <2>3
<1>3. Types' /\ Device'
    BY <1>1, <1>2, QuietStep DEF RecoverStates
<1>4. pc' = "recovered" => lgO' = {NoLog}
    BY <1>1 DEF close, Kill, EraseLog, IInv, Recovering
<1>5. Committing' /\ Recovering'
    <2>1. CASE pc' = "down"
        BY <2>1, Elsewhere
    <2>2. CASE pc' = "recovered"
        BY <1>4, <2>2, Elsewhere DEF Recovering, RecoverStates
    <2> QED BY <1>1, <2>1, <2>2
<1> QED BY <1>3, <1>5 DEF IInv

LEMMA RecoverBeginIInv == ASSUME IInv, RecoverBegin PROVE IInv'
<1>1. /\ UNCHANGED <<df, dfO, kf, kfO, lg, lgO, lx, ver, before, after>> /\ pos' = 1
      /\ pc' = IF ~lx THEN "recovered" ELSE IF lg.h = <<>> THEN "r_clear" ELSE "r_replay"
    BY DEF RecoverBegin, disk
<1>2. pc' \in {"recovered", "r_clear", "r_replay"}
    BY <1>1
<1>3. 1 \in Nat \ {0} /\ \A j \in 1 .. Len(lg.r) : ~(j < 1)
    BY SMT
<1>4. Types' /\ Device'
    BY <1>1, <1>2, <1>3, QuietStep DEF RecoverStates
<1>5. (pc' = "recovered" => lgO' = {NoLog}) /\ (pc' = "r_clear" => lg' = NoLog)
      /\ (pc' = "r_replay" => lg' # NoLog)
    <2>1. lg # NoLog => UndoLog(before, lg) /\ before \in Databases
        BY LogShown DEF IInv, Types
    <2>2. lg = NoLog <=> lg.h = <<>>
        BY <2>1, UndoParts, NoLogParts
    <2>3. ~lx => lgO = {NoLog}
        BY DEF IInv, Device
    <2> QED BY <1>1, <2>2, <2>3
<1>6. Recovering'
    BY <1>1, <1>2, <1>3, <1>5 DEF Recovering
<1> QED BY <1>2, <1>4, <1>6, Elsewhere DEF IInv, RecoverStates

\* What is replayed is a record of the database of before.
LEMMA RecordOfBefore ==
    ASSUME IInv, pc = "r_replay", pos <= Len(lg.r)
    PROVE  /\ pos \in 1 .. Len(lg.r) /\ lg # NoLog /\ NoLog \notin lgO
           /\ lg.r[pos][1] \in 1 .. Len(before.k) /\ lg.r[pos][1] \in Nat \ {0}
           /\ lg.r[pos][2] \in Contents /\ lg.r[pos][2] = before.k[lg.r[pos][1]]
           /\ UndoLog(before, lg) /\ before \in Databases
           /\ kf \in Seq(Contents) /\ df \in Seq(Contents)
           /\ Len(before.k) <= Len(kf) /\ lg.h[2] <= Len(df) /\ Len(before.k) \in Nat
<1>1. /\ lg # NoLog /\ UndoLog(before, lg) /\ before \in Databases
      /\ kf \in Seq(Contents) /\ df \in Seq(Contents)
      /\ DataKept(before, df) /\ KeysKept(before, kf, lg)
    BY LogShown DEF IInv, Types, Recovering
<1>2. pos \in Nat \ {0} /\ Len(lg.r) \in Nat
    BY <1>1, SMT DEF IInv, Types, UndoLog
<1>3. pos \in 1 .. Len(lg.r)
    BY <1>2, SMT
<1>4. NoLog \notin lgO
    <2>1. Len(lg.r) # 0
        BY <1>2, SMT
    <2>2. Len(<<>>) = 0
        BY SMT
    <2> QED BY <1>1, <2>1, <2>2, LogShown DEF IInv
<1>5. /\ lg.r[pos][1] \in 1 .. Len(before.k) /\ lg.r[pos][2] \in Contents
      /\ lg.r[pos][2] = before.k[lg.r[pos][1]] /\ lg.h[2] = Len(before.d)
    BY <1>1, <1>3, UndoParts
<1>6. lg.r[pos][1] \in Nat \ {0} /\ Len(before.k) \in Nat
    BY <1>1, <1>5, SMTT(30) DEF Databases
<1> QED BY <1>1, <1>3, <1>4, <1>5, <1>6 DEF DataKept, KeysKept

\* The block of a record is written, with what the record has, or with anything
\* when every log that a power loss may leave has the record.
LEMMA ReplayStep ==
    ASSUME IInv, pc = "r_replay", pos <= Len(lg.r), lgO' \subseteq lgO, lg \in lgO',
           UNCHANGED <<df, dfO, lg, lx, ver, before, after>>, NEW v \in Contents,
           kfO' \subseteq kfO \cup {WriteBlock(o, lg.r[pos][1], v) : o \in kfO}
                              \cup {WritePart(o, lg.r[pos][1], v) : o \in kfO},
           kf' \in kfO', v = lg.r[pos][2] \/ \A l \in lgO' : pos <= Len(l.r),
           pos' \in Nat \ {0}, pc' \in {"r_replay", "down"}
    PROVE  Types' /\ Device'
<1> DEFINE i == lg.r[pos][1]
<1>1. /\ pos \in 1 .. Len(lg.r) /\ lg # NoLog /\ NoLog \notin lgO /\ i \in Nat \ {0}
      /\ lg.r[pos][2] = before.k[i]
    BY RecordOfBefore
<1>2. ASSUME NEW l \in lgO', pos <= Len(l.r) PROVE Covers(l.r, i)
    <2>1. UndoLog(before, l) /\ \A j \in 1 .. Len(l.r) : l.r[j] = lg.r[j]
        BY <1>1 DEF IInv, Device
    <2>2. pos \in 1 .. Len(l.r)
        <3>1. Len(l.r) \in Nat
            BY <2>1, SMT DEF UndoLog
        <3> QED BY <1>1, <1>2, <3>1, SMT
    <2> QED BY <2>1, <2>2 DEF Covers
<1>3. \A l \in lgO' : Covers(l.r, i) \/ i > Len(before.k) \/ v = before.k[i]
    BY <1>1, <1>2
<1> HIDE DEF i
<1>4. kfO' \subseteq kfO \cup {WriteBlock(o, i, v) : o \in kfO} \cup {WritePart(o, i, v) : o \in kfO}
    BY DEF i
<1>5. Device' /\ kfO' \subseteq Seq(Contents)
    BY <1>1, <1>3, <1>4, KeysStep
<1>6. Types'
    BY <1>5, TypesStep DEF IInv, Types, RecoverStates
<1> QED BY <1>5, <1>6

LEMMA ReplayRecordIInv == ASSUME IInv, ReplayRecord PROVE IInv'
<1> DEFINE i == lg.r[pos][1]
           v == lg.r[pos][2]
           f == WriteBlock(kf, i, v)
<1>1. pc = "r_replay" /\ pos <= Len(lg.r) /\ lg \in lgO /\ kf \in kfO
    BY DEF ReplayRecord, IInv, Types
<1>2. /\ pos \in 1 .. Len(lg.r) /\ lg # NoLog /\ i \in 1 .. Len(before.k) /\ i \in Nat \ {0}
      /\ v \in Contents /\ v = before.k[i] /\ UndoLog(before, lg) /\ before \in Databases
      /\ kf \in Seq(Contents) /\ df \in Seq(Contents)
      /\ Len(before.k) <= Len(kf) /\ lg.h[2] <= Len(df) /\ Len(before.k) \in Nat
    BY <1>1, RecordOfBefore
\* The record is not refused.
<1>3. /\ kfWrite(i, v) /\ pos' = pos + 1 /\ pc' = pc
      /\ UNCHANGED <<df, dfO, lg, lgO, lx, ver, before, after>>
    <2>1. lg.h[2] = Len(before.d) /\ Len(before.d) \in Nat
        BY <1>2, UndoParts, SMTT(30) DEF Databases
    <2>2. ~(i - 1 > Len(kf)) /\ ~(lg.h[2] > Len(df))
        BY <1>2, <2>1, SMT
    <2> QED BY <2>2 DEF ReplayRecord
<1>4. /\ kf' = f /\ kf' \in kfO'
      /\ kfO' = kfO \cup {WriteBlock(o, i, v) : o \in kfO} \cup {WritePart(o, i, v) : o \in kfO}
    BY <1>1, <1>3 DEF kfWrite
<1>5. pos' \in Nat \ {0} /\ \A j \in 1 .. Len(lg.r) : j < pos' => j = pos \/ j < pos
    BY <1>2, <1>3, SMT
<1>6. Types' /\ Device'
    BY <1>1, <1>2, <1>3, <1>4, <1>5, ReplayStep
<1>7. f[i] = v /\ \A j \in 1 .. Len(kf) : j # i => f[j] = kf[j]
    <2>1. kf \in Seq(Contents) /\ i \in Nat \ {0} /\ v \in Contents
        BY <1>2
    <2> HIDE DEF i, v
    <2>2. /\ WriteBlock(kf, i, v)[i] = v
          /\ \A j \in 1 .. Len(kf) : j # i => WriteBlock(kf, i, v)[j] = kf[j]
        BY <2>1, BlockWritten
    <2> QED BY <2>2 DEF f
<1>8. \A j \in 1 .. Len(lg.r) : lg.r[j][1] \in 1 .. Len(kf)
    <2>1. 1 .. Len(before.k) \subseteq 1 .. Len(kf)
        BY <1>2, SMT
    <2> QED BY <1>2, <2>1, UndoParts
<1>9. ASSUME NEW j \in 1 .. Len(lg.r), j < pos'
      PROVE  kf'[lg.r[j][1]] = before.k[lg.r[j][1]]
    <2> HIDE DEF f
    <2>1. j # pos => kf[lg.r[j][1]] = before.k[lg.r[j][1]]
        BY <1>1, <1>5, <1>9 DEF IInv, Recovering
    <2>2. kf'[i] = before.k[i] /\ \A n \in 1 .. Len(kf) : n # i => kf'[n] = kf[n]
        BY <1>2, <1>4, <1>7
    <2> QED BY <1>8, <2>1, <2>2
<1>10. Recovering'
    BY <1>1, <1>2, <1>3, <1>9 DEF Recovering
<1> QED BY <1>1, <1>3, <1>6, <1>10, Elsewhere DEF IInv, RecoverStates

LEMMA ReplayReadErrorIInv == ASSUME IInv, ReplayReadError PROVE IInv'
<1>1. pc = "r_replay" /\ pos <= Len(lg.r) /\ lg \in lgO /\ kf \in kfO
    BY DEF ReplayReadError, IInv, Types
<1>2. PICK v \in {Torn} \cup (IF pos > 1 THEN {lg.r[pos - 1][2]} ELSE {}) : kfWrite(lg.r[pos][1], v)
    BY DEF ReplayReadError
<1>3. v \in Contents
    <2>1. UndoLog(before, lg) /\ before \in Databases /\ pos \in 1 .. Len(lg.r)
        BY <1>1, RecordOfBefore
    <2>2. pos > 1 => pos - 1 \in 1 .. Len(lg.r)
        BY <2>1, SMT
    <2>3. pos > 1 => lg.r[pos - 1][2] \in Contents
        BY <2>1, <2>2, UndoParts
    <2>4. Torn \in Contents
        BY DEF Contents
    <2> QED BY <2>3, <2>4
<1>4. /\ lgO' \subseteq lgO /\ lg \in lgO' /\ \A l \in lgO' : pos <= Len(l.r)
      /\ pc' = "down" /\ UNCHANGED <<df, dfO, lg, lx, ver, pos, before, after>>
    <2>1. lgO' = {o \in lgO : Len(o.r) >= pos}
        BY DEF ReplayReadError
    <2>2. \A o \in lgO : Len(o.r) >= pos <=> pos <= Len(o.r)
        BY SMT
    <2> QED BY <1>1, <2>1, <2>2 DEF ReplayReadError
<1>5. Types' /\ Device'
    BY <1>1, <1>2, <1>3, <1>4, ReplayStep DEF kfWrite, IInv, Types
<1> QED BY <1>4, <1>5, Elsewhere DEF IInv

LEMMA ReplayWriteErrorIInv == ASSUME IInv, ReplayWriteError PROVE IInv'
<1>1. pc = "r_replay" /\ pos <= Len(lg.r) /\ lg \in lgO /\ kf \in kfO
    BY DEF ReplayWriteError, IInv, Types
<1>2. /\ kf' = WritePart(kf, lg.r[pos][1], lg.r[pos][2])
      /\ kfO' = kfO \cup {WritePart(o, lg.r[pos][1], lg.r[pos][2]) : o \in kfO}
      /\ pc' = "down" /\ UNCHANGED <<df, dfO, lg, lgO, lx, ver, pos, before, after>>
    BY DEF ReplayWriteError
<1>3. lg.r[pos][2] \in Contents
    BY <1>1, RecordOfBefore
<1>4. Types' /\ Device'
    BY <1>1, <1>2, <1>3, ReplayStep DEF IInv, Types
<1> QED BY <1>2, <1>4, Elsewhere DEF IInv

LEMMA TruncDataIInv == ASSUME IInv, TruncData PROVE IInv'
<1>1. /\ pc = "r_replay" /\ lg # NoLog /\ lg \in lgO /\ df \in dfO /\ dfO \subseteq Seq(Contents)
      /\ before \in Databases /\ UndoLog(before, lg) /\ lg.h[2] = Len(before.d)
      /\ KeysKept(before, kf, lg) /\ \A d \in dfO : DataKept(before, d)
    BY LogShown, UndoParts DEF TruncData, IInv, Types, Recovering
<1>2. /\ pos > Len(lg.r) /\ dfTrunc(Len(before.d)) /\ pc' = "r_datasync"
      /\ UNCHANGED <<kf, kfO, lg, lgO, lx, ver, pos, before, after>>
    BY <1>1 DEF TruncData
<1>3. df' = before.d /\ dfO' = dfO \cup {before.d}
    <2>1. \A d \in dfO : TruncTo(d, Len(before.d)) = before.d
        BY <1>1, DataCut
    <2> QED BY <1>1, <1>2, <2>1 DEF dfTrunc
<1>4. before.d \in Seq(Contents) /\ DataKept(before, before.d)
    BY <1>1, SMT DEF Databases, DataKept
<1>5. Device'
    <2>1. NoLog \in lgO => Unchanged(before)'
        BY <1>1, <1>2, <1>3, LogShown DEF IInv, Unchanged
    <2>2. \A l \in lgO \ {NoLog}, k \in kfO : KeysKept(before, k, l)
        BY DEF IInv, Device
    <2>3. \A d \in dfO' : DataKept(before, d)
        BY <1>1, <1>3, <1>4
    <2> QED BY <1>1, <1>2, <2>1, <2>2, <2>3, FilesStep DEF IInv
<1>6. Types'
    BY <1>1, <1>2, <1>3, <1>4, TypesStep DEF IInv, Types, RecoverStates
<1>7. ASSUME NEW i \in 1 .. Len(before.k) PROVE kf[i] = before.k[i]
    <2>1. \A j \in 1 .. Len(lg.r) : j < pos
        <3>1. Len(lg.r) \in Nat /\ pos \in Nat
            BY <1>1, SMT DEF UndoLog, IInv, Types
        <3> QED BY <1>2, <3>1, SMT
    <2> QED BY <1>1, <2>1 DEF KeysKept, Covers, IInv, Recovering
<1>8. Recovering'
    BY <1>1, <1>2, <1>3, <1>7 DEF Recovering
<1> QED BY <1>2, <1>5, <1>6, <1>8, Elsewhere DEF IInv, RecoverStates

LEMMA SyncTruncDataIInv == ASSUME IInv, SyncTruncData PROVE IInv'
<1>1. /\ lg # NoLog /\ df = before.d /\ lgO # {} /\ kfO # {} /\ df \in dfO
      /\ \A i \in 1 .. Len(before.k) : kf[i] = before.k[i]
    BY DEF SyncTruncData, IInv, Types, Recovering
<1>2. /\ df' = df /\ dfO' = {df} /\ pc' = "r_keytrunc"
      /\ UNCHANGED <<kf, kfO, lg, lgO, lx, ver, pos, before, after>>
    BY DEF SyncTruncData, dfSync
<1>3. Device'
    BY <1>1, <1>2, Shrinks DEF IInv
<1>4. Types'
    BY <1>2, TypesStep DEF IInv, Types, RecoverStates
<1>5. Recovering'
    BY <1>1, <1>2 DEF Recovering
<1> QED BY <1>2, <1>3, <1>4, <1>5, Elsewhere DEF IInv, RecoverStates

LEMMA TruncKeysIInv == ASSUME IInv, TruncKeys PROVE IInv'
<1> DEFINE n == Len(before.k)
<1>1. /\ lg # NoLog /\ lg \in lgO /\ kf \in kfO /\ kfO \subseteq Seq(Contents)
      /\ df = before.d /\ dfO = {before.d} /\ \A i \in 1 .. n : kf[i] = before.k[i]
      /\ before \in Databases /\ UndoLog(before, lg) /\ lg.h[1] = n
      /\ \A d \in dfO : DataKept(before, d)
    BY LogShown, UndoParts DEF TruncKeys, IInv, Types, Recovering
<1>2. /\ kfTrunc(n) /\ pc' = "r_keysync"
      /\ UNCHANGED <<df, dfO, lg, lgO, lx, ver, pos, before, after>>
    BY <1>1 DEF TruncKeys
<1>3. kf' = TruncTo(kf, n) /\ kfO' = kfO \cup {TruncTo(o, n) : o \in kfO}
    BY <1>2 DEF kfTrunc
<1>4. \A l \in lgO \ {NoLog}, o \in kfO : KeysKept(before, o, l)
    BY DEF IInv, Device
<1>5. \A o \in kfO : n <= Len(o)
    BY <1>1, <1>4 DEF KeysKept
<1>6. ASSUME NEW o \in kfO
      PROVE  /\ TruncTo(o, n) \in Seq(Contents)
             /\ \A l \in lgO \ {NoLog} : KeysKept(before, TruncTo(o, n), l)
             /\ (\A i \in 1 .. n : o[i] = before.k[i]) => TruncTo(o, n) = before.k
    BY <1>1, <1>4, <1>5, KeysCut
<1>7. kf' = before.k
    BY <1>1, <1>3, <1>6
<1>8. Device'
    <2>1. NoLog \in lgO => Unchanged(before)'
        <3>1. NoLog \in lgO => kfO = {before.k}
            BY <1>1, LogShown DEF IInv, Unchanged
        <3> QED BY <1>1, <1>2, <1>3, <1>6, <3>1 DEF Unchanged
    <2>2. \A l \in lgO' \ {NoLog}, k \in kfO' : KeysKept(before, k, l)
        BY <1>2, <1>3, <1>4, <1>6
    <2> QED BY <1>1, <1>2, <2>1, <2>2, FilesStep DEF IInv
<1>9. Types'
    BY <1>1, <1>2, <1>3, <1>6, TypesStep DEF IInv, Types, RecoverStates
<1>10. Recovering'
    BY <1>1, <1>2, <1>7 DEF Recovering
<1> QED BY <1>2, <1>8, <1>9, <1>10, Elsewhere DEF IInv, RecoverStates

LEMMA SyncTruncKeysIInv == ASSUME IInv, SyncTruncKeys PROVE IInv'
<1>1. kf = before.k /\ dfO = {before.d} /\ lgO # {} /\ kf \in kfO
    BY DEF SyncTruncKeys, IInv, Types, Recovering
<1>2. /\ kf' = kf /\ kfO' = {kf} /\ pc' = "r_clear"
      /\ UNCHANGED <<df, dfO, lg, lgO, lx, ver, pos, before, after>>
    BY DEF SyncTruncKeys, kfSync
<1>3. Device'
    BY <1>1, <1>2, Shrinks DEF IInv
<1>4. Types'
    BY <1>2, TypesStep DEF IInv, Types, RecoverStates
<1>5. Recovering'
    BY <1>1, <1>2 DEF Recovering, Unchanged
<1> QED BY <1>2, <1>3, <1>4, <1>5, Elsewhere DEF IInv, RecoverStates

LEMMA ClearLogIInv == ASSUME IInv, ClearLog PROVE IInv'
<1>1. Unchanged(before) \/ Unchanged(after)
    BY DEF ClearLog, IInv, Types, Device, Recovering
<1>2. /\ lgTrunc0 /\ lg' = NoLog /\ lg' \in lgO' /\ pc' = "r_clearsync"
      /\ UNCHANGED <<df, dfO, kf, kfO, lx, ver, pos, before, after>>
    BY DEF ClearLog, lgTrunc0
<1>3. Device'
    BY <1>1, <1>2, ClearStep DEF IInv
<1>4. Types'
    BY <1>2, TypesStep DEF IInv, Types, RecoverStates
<1>5. Recovering'
    BY <1>2 DEF Recovering
<1> QED BY <1>2, <1>3, <1>4, <1>5, Elsewhere DEF IInv, RecoverStates

LEMMA SyncClearLogIInv == ASSUME IInv, SyncClearLog PROVE IInv'
<1>1. lg = NoLog /\ lg \in lgO /\ dfO # {} /\ kfO # {}
    BY DEF SyncClearLog, IInv, Types, Recovering
<1>2. /\ lg' = lg /\ lgO' = {lg} /\ pc' = "r_erase"
      /\ UNCHANGED <<df, dfO, kf, kfO, lx, ver, pos, before, after>>
    BY DEF SyncClearLog, lgSync
<1>3. Device'
    BY <1>1, <1>2, Shrinks DEF IInv
<1>4. Types'
    BY <1>2, TypesStep DEF IInv, Types, RecoverStates
<1>5. Recovering'
    BY <1>1, <1>2 DEF Recovering
<1> QED BY <1>2, <1>3, <1>4, <1>5, Elsewhere DEF IInv, RecoverStates

LEMMA FilesOf ==
    ASSUME NEW d \in Seq(Contents), NEW k \in Seq(Contents), NEW x, x = [d |-> d, k |-> k]
    PROVE  x \in Databases /\ x.d = d /\ x.k = k
BY SMT DEF Databases

LEMMA OpenIInv == ASSUME IInv, open PROVE IInv'
<1>1. /\ lgO = {NoLog} /\ df \in Seq(Contents) /\ kf \in Seq(Contents)
      /\ dfO = {df} /\ kfO = {kf}
    BY DEF open, IInv, Types, Device, Recovering, Unchanged
<1>2. /\ lx' = TRUE /\ lg' = NoLog /\ lgO' = {NoLog} /\ pc' = "idle"
      /\ before' = [d |-> df, k |-> kf] /\ after' = before'
      /\ UNCHANGED <<df, dfO, kf, kfO, ver, pos>>
    BY DEF open
<1>3. before' \in Databases /\ before'.d = df /\ before'.k = kf
    BY <1>1, <1>2, FilesOf
<1>4. Unchanged(before)'
    BY <1>1, <1>2, <1>3 DEF Unchanged
<1>5. Device'
    BY <1>2, <1>4 DEF Device
<1>6. Types'
    BY <1>1, <1>2, <1>3 DEF IInv, Types
<1>7. Committing'
    BY <1>2, <1>4 DEF Committing, CommitStates, Written
<1> QED BY <1>2, <1>5, <1>6, <1>7, Elsewhere DEF IInv

LEMMA PowerLossIInv == ASSUME IInv, PowerLoss PROVE IInv'
<1>1. /\ pc' = "down" /\ df' \in dfO /\ dfO' = {df'} /\ kf' \in kfO /\ kfO' = {kf'}
      /\ lg' \in lgO /\ lgO' = {lg'} /\ UNCHANGED <<lx, ver, pos, before, after>>
    BY DEF PowerLoss
<1>2. Device'
    BY <1>1, Shrinks DEF IInv
<1>3. Types'
    BY <1>1, TypesStep DEF IInv, Types
<1> QED BY <1>1, <1>2, <1>3, Elsewhere DEF IInv

LEMMA StutterIInv == ASSUME IInv, UNCHANGED vars PROVE IInv'
<1>1. UNCHANGED <<pc, df, dfO, kf, kfO, lg, lgO, lx, ver, new, todo, pos, before, after>>
    BY DEF vars, disk
<1>2. Types' /\ Device'
    BY <1>1 DEF IInv, Types, Device, Unchanged
<1>3. Committing'
    BY <1>1 DEF IInv, Committing, Plan, OldBuckets, Unchanged
<1>4. Recovering'
    BY <1>1 DEF IInv, Recovering, Unchanged
<1> QED BY <1>2, <1>3, <1>4 DEF IInv

LEMMA InitIInv == Init => IInv
<1> SUFFICES ASSUME Init PROVE IInv
    OBVIOUS
<1>1. /\ pc = "down" /\ dfO = {df} /\ kfO = {kf} /\ lg = NoLog /\ lgO = {NoLog} /\ lx = TRUE
      /\ before = [d |-> df, k |-> kf] /\ after = before
    BY DEF Init
<1>2. df \in Seq(Contents) /\ kf \in Seq(Contents)
    <2>1. Blank \in Contents /\ InitBuckets \in Nat
        BY BoundsAssumption, SMT DEF Contents, Versions, Blank
    <2>2. [i \in 1 .. InitBuckets |-> Blank] \in Seq(Contents) /\ <<>> \in Seq(Contents)
        BY <2>1, SMT
    <2> QED BY <2>2 DEF Init
<1>3. before \in Databases /\ before.d = df /\ before.k = kf
    BY <1>1, <1>2, FilesOf
<1>4. ver \in 0 .. MaxCommits /\ pos \in Nat \ {0}
    BY BoundsAssumption, SMT DEF Init
<1>5. Types
    BY <1>1, <1>2, <1>3, <1>4 DEF Types
<1>6. Device
    BY <1>1, <1>3 DEF Device, Unchanged
<1> QED BY <1>1, <1>5, <1>6 DEF IInv, Committing, Recovering, CommitStates, Written

LEMMA NextIInv == ASSUME SparseAppends = FALSE, IInv, [Next]_vars PROVE IInv'
<1>1. CASE Commit
    BY <1>1, CommitBeginIInv, WriteLogHeaderIInv, SyncLogHeaderIInv, AppendDataIInv,
       FlushDataIInv, LogBucketIInv, SyncLogIInv, WriteBucketIInv, SyncDataIInv,
       SyncKeysIInv, TruncLogIInv, CommitEndIInv, CommitFailIInv DEF Commit
<1>2. CASE Recover
    BY <1>2, RecoverBeginIInv, ReplayRecordIInv, TruncDataIInv, SyncTruncDataIInv,
       TruncKeysIInv, SyncTruncKeysIInv, ClearLogIInv, SyncClearLogIInv, CloseIInv,
       OpenIInv DEF Recover
<1>3. CASE ReplayReadError \/ ReplayWriteError \/ close \/ Kill \/ PowerLoss
    BY <1>3, ReplayReadErrorIInv, ReplayWriteErrorIInv, CloseIInv, PowerLossIInv
<1> QED BY <1>1, <1>2, <1>3, StutterIInv DEF Next

-----------------------------------------------------------------------------
(* Theorems *)

\* The invariant of commit and recover.
THEOREM Invariance == ASSUME SparseAppends = FALSE PROVE Spec => []IInv
<1>1. IInv /\ [Next]_vars => IInv'
    BY NextIInv
<1> QED BY <1>1, InitIInv, PTL DEF Spec

\* Whatever a power loss leaves on the device, at any point of a commit or of a
\* recovery, recover yields the database of before or of after the commit: for
\* any number of buckets, of commits and of records in one.
THEOREM EveryPowerLossRecoversThm ==
    ASSUME SparseAppends = FALSE PROVE Spec => []EveryPowerLossRecovers
<1>1. Spec => []IInv
    BY Invariance
<1>2. IInv => EveryPowerLossRecovers
    BY EveryYield DEF IInv, Yields, EveryPowerLossRecovers
<1> QED BY <1>1, <1>2, PTL

\* recover never refuses a record of a log that commit wrote.
THEOREM NeverRefusedThm == ASSUME SparseAppends = FALSE PROVE Spec => [](pc # "refused")
<1>1. Spec => []IInv
    BY Invariance
<1>2. IInv => pc # "refused"
    BY DEF IInv, Types, CommitStates, RecoverStates
<1> QED BY <1>1, <1>2, PTL

\* A recovery that has a log keeps it until the files are those of before.
LEMMA LogKept ==
    ASSUME IInv, Next, pc \in RecoverStates \cup {"down"}, lg # NoLog
    PROVE  before' = before /\ (NoLog \in lgO' => Unchanged(before)' \/ lg' = lg)
<1>1. pc \notin CommitStates \cup {"idle", "failed"}
    BY DEF CommitStates, RecoverStates
<1>2. ~Commit /\ ~close
    BY <1>1 DEF Commit, close, CommitBegin, WriteLogHeader, SyncLogHeader, AppendData,
       FlushData, LogBucket, SyncLog, WriteBucket, SyncData, SyncKeys, TruncLog, CommitEnd,
       CommitFail, CommitStates
<1>3. ~open /\ ~EraseLog /\ ~SyncClearLog
    BY DEF IInv, Types, Recovering, open, EraseLog, SyncClearLog
<1>4. CASE ClearLog
    <2>1. Unchanged(before) /\ UNCHANGED <<dfO, kfO, before>>
        BY <1>4 DEF ClearLog, IInv, Recovering
    <2> QED BY <2>1 DEF Unchanged
<1>5. CASE PowerLoss
    <2>1. NoLog \in lgO' => Unchanged(before)
        BY <1>5, LogShown DEF PowerLoss, IInv
    <2> QED BY <1>5, <2>1 DEF PowerLoss, Unchanged
<1>6. CASE RecoverBegin \/ ReplayRecord \/ TruncData \/ SyncTruncData \/ TruncKeys
           \/ SyncTruncKeys \/ ReplayReadError \/ ReplayWriteError \/ Kill
    BY <1>6 DEF RecoverBegin, ReplayRecord, TruncData, SyncTruncData, TruncKeys,
       SyncTruncKeys, ReplayReadError, ReplayWriteError, Kill, disk
<1> QED BY <1>2, <1>3, <1>4, <1>5, <1>6 DEF Next, Recover

\* Then every content of the device leads back, after the step too.
LEMMA LeadsBack ==
    ASSUME IInv, IInv', Next, pc \in RecoverStates \cup {"down"}, lg # NoLog
    PROVE  before' = before
           /\ \A d \in dfO', k \in kfO', l \in lgO' : Recovered(d, k, l) = before
<1>1. before' = before /\ (NoLog \in lgO' => Unchanged(before)' \/ lg' = lg)
    BY LogKept
<1>2. (Types /\ Device => Yields)'
    BY EveryYield, PTL
<1>3. Yields'
    BY <1>2 DEF IInv
<1>4. NoLog \in lgO' => Unchanged(before)'
    BY <1>1 DEF IInv, Device
<1> QED BY <1>1, <1>3, <1>4 DEF Yields

\* Once recover has a log to apply, no interruption, error or power loss changes
\* what it yields in the end.
THEOREM RecoverIsIdempotentThm ==
    ASSUME SparseAppends = FALSE PROVE Spec => RecoverIsIdempotent
<1> DEFINE Same == (pc \in RecoverStates \cup {"down"} /\ lg.h # <<>>)
                     => (Recovered(df, kf, lg)' = Recovered(df, kf, lg))
<1>1. Spec => []IInv
    BY Invariance
<1>2. IInv /\ IInv' /\ [Next]_vars => [Same]_vars
    <2> SUFFICES ASSUME IInv, IInv', Next, pc \in RecoverStates \cup {"down"}, lg.h # <<>>
                 PROVE  Recovered(df, kf, lg)' = Recovered(df, kf, lg)
        OBVIOUS
    <2>1. lg # NoLog /\ df \in dfO /\ kf \in kfO /\ lg \in lgO
        BY NoLogParts DEF IInv, Types
    <2>2. Recovered(df, kf, lg) = before
        BY <2>1, EveryYield DEF IInv, Yields
    <2>3. df' \in dfO' /\ kf' \in kfO' /\ lg' \in lgO'
        BY DEF IInv, Types
    <2>4. Recovered(df', kf', lg') = before
        BY <2>1, <2>3, LeadsBack
    <2> QED BY <2>2, <2>4
<1> QED BY <1>1, <1>2, PTL DEF Spec, RecoverIsIdempotent

-----------------------------------------------------------------------------
(* Refinement of AtomicCommit *)

\* All contents of the device lead to database x: what the commit did is decided.
Decided(x) == \A d \in dfO, k \in kfO, l \in lgO : Recovered(d, k, l) = x

LEMMA DecidedMaps ==
    ASSUME Types, pc \notin CommitStates, NEW x, Decided(x)
    PROVE  Database = x /\ Transaction = <<>>
<1>1. ~InFlight /\ Recovered(df, kf, lg) = x
    BY DEF Types, Decided, InFlight
<1> QED BY <1>1 DEF Database, Transaction

\* The same of the next state
LEMMA DecidedMapsNext ==
    ASSUME Types', pc' \notin CommitStates, NEW x,
           \A d \in dfO', k \in kfO', l \in lgO' : Recovered(d, k, l) = x
    PROVE  Database' = x /\ Transaction' = <<>>
<1>1. ~InFlight' /\ Recovered(df', kf', lg') = x
    BY DEF Types, InFlight
<1> QED BY <1>1 DEF Database, Transaction

LEMMA NotInFlight == ~InFlight => pc \notin CommitStates /\ Decided(Recovered(df, kf, lg))
BY DEF InFlight, Decided

\* The states in which no commit or recovery has begun to write
LEMMA WholeDecided ==
    ASSUME Types, Device, lgO = {NoLog}, NEW x \in {before, after}, Unchanged(x)
    PROVE  Decided(x)
BY EveryYield DEF Yields, Decided

\* What is decided stays so, whatever recover does and wherever it is stopped.
LEMMA StaysDecided ==
    ASSUME IInv, IInv', Next, pc \notin CommitStates, ~CommitBegin, ~open, NEW x, Decided(x)
    PROVE  \A d \in dfO', k \in kfO', l \in lgO' : Recovered(d, k, l) = x
<1>1. df \in dfO /\ kf \in kfO /\ lg \in lgO
    BY DEF IInv, Types
<1>2. CASE pc \in RecoverStates \cup {"down"} /\ lg # NoLog
    <2>1. x = before
        BY <1>1, <1>2, EveryYield DEF IInv, Yields, Decided
    <2> QED BY <1>2, <2>1, LeadsBack
<1>3. CASE dfO' \subseteq dfO /\ kfO' \subseteq kfO /\ lgO' \subseteq lgO
    BY <1>3 DEF Decided
<1>4. CASE ClearLog /\ lg = NoLog
    <2>1. lgO' = lgO /\ UNCHANGED <<dfO, kfO>>
        BY <1>1, <1>4 DEF ClearLog, lgTrunc0
    <2> QED BY <1>3, <2>1
<1>5. CASE close \/ Kill \/ RecoverBegin \/ EraseLog \/ PowerLoss \/ SyncClearLog
    <2>1. dfO' \subseteq dfO /\ kfO' \subseteq kfO /\ lgO' \subseteq lgO
        BY <1>1, <1>5 DEF close, Kill, RecoverBegin, EraseLog, PowerLoss, SyncClearLog, lgSync, disk
    <2> QED BY <1>3, <2>1
<1>6. CASE ReplayRecord \/ ReplayReadError \/ ReplayWriteError \/ TruncData
           \/ SyncTruncData \/ TruncKeys \/ SyncTruncKeys
    <2>1. pc \in {"r_replay", "r_datasync", "r_keytrunc", "r_keysync"}
        BY <1>6 DEF ReplayRecord, ReplayReadError, ReplayWriteError, TruncData,
           SyncTruncData, TruncKeys, SyncTruncKeys
    <2>2. pc \in RecoverStates /\ lg # NoLog
        BY <2>1 DEF IInv, Recovering, RecoverStates
    <2> QED BY <1>2, <2>2
<1>7. CASE ClearLog /\ lg # NoLog
    BY <1>2, <1>7 DEF ClearLog, RecoverStates
<1>8. ~Commit
    BY DEF Commit, WriteLogHeader, SyncLogHeader, AppendData, FlushData, LogBucket, SyncLog,
       WriteBucket, SyncData, SyncKeys, TruncLog, CommitEnd, CommitFail, CommitStates
<1> QED BY <1>4, <1>5, <1>6, <1>7, <1>8 DEF Next, Recover

\* The database and the transaction a commit is about are fixed when it begins.
LEMMA HistoryKept ==
    ASSUME Next, ~CommitBegin, ~CommitEnd, ~open
    PROVE  /\ before' = before /\ after' = after
           /\ pc \notin CommitStates => pc' \notin CommitStates
<1>1. CASE Commit
    BY <1>1 DEF Commit, WriteLogHeader, SyncLogHeader, AppendData, FlushData, LogBucket,
       SyncLog, WriteBucket, SyncData, SyncKeys, TruncLog, CommitFail, CommitStates
<1>2. CASE ReplayRecord
    BY <1>2 DEF ReplayRecord, CommitStates
<1>3. CASE Recover /\ ~ReplayRecord
    BY <1>3 DEF Recover, RecoverBegin, TruncData, SyncTruncData, TruncKeys, SyncTruncKeys,
       ClearLog, SyncClearLog, EraseLog, CommitStates
<1>4. CASE ReplayReadError \/ ReplayWriteError \/ close \/ Kill \/ PowerLoss
    BY <1>4 DEF ReplayReadError, ReplayWriteError, close, Kill, PowerLoss, CommitStates
<1> QED BY <1>1, <1>2, <1>3, <1>4 DEF Next

LEMMA InitAtomic == Init => Atomic!Init
<1> SUFFICES ASSUME Init PROVE Atomic!Init
    OBVIOUS
<1>1. Types /\ Device /\ before \in Databases
    BY InitIInv DEF IInv, Types
<1>2. dfO = {df} /\ kfO = {kf} /\ lgO = {NoLog} /\ pc = "down" /\ before = [d |-> df, k |-> kf]
    BY DEF Init
<1>3. before.d = df /\ before.k = kf
    BY <1>2, SMT
<1>4. Database = before /\ Transaction = <<>>
    BY <1>1, <1>2, <1>3, WholeDecided, DecidedMaps DEF Unchanged, CommitStates
<1> QED BY <1>1, <1>4 DEF Atomic!Init, Databases

\* A commit begins.
LEMMA BeginAtomic == ASSUME IInv, IInv', CommitBegin PROVE Atomic!Begin
<1>1. /\ Types /\ Device /\ lgO = {NoLog} /\ Unchanged(before) /\ pc \notin CommitStates
      /\ Types' /\ pc' \in CommitStates /\ before' = before
    BY DEF IInv, Committing, CommitBegin, CommitStates
<1>2. Database = before /\ Transaction = <<>>
    BY <1>1, WholeDecided, DecidedMaps
<1>3. Database' = before /\ Transaction' = <<after'>> /\ after' \in Databases
    BY <1>1 DEF Database, Transaction, InFlight, Types
<1>4. Len(<<after'>>) = 1 /\ <<after'>>[1] = after'
    BY SMT
<1> QED BY <1>2, <1>3, <1>4 DEF Atomic!Begin, Databases

\* commit returns, and the database is the new one.
LEMMA EndAtomic == ASSUME IInv, IInv', CommitEnd PROVE Atomic!Commit
<1>1. /\ pc \in CommitStates /\ Types' /\ pc' \notin CommitStates
      /\ before' = after /\ after' = after
    BY DEF IInv, CommitEnd, CommitStates
<1>2. Transaction = <<after>>
    BY <1>1 DEF Transaction, InFlight
<1>3. (Types /\ Device => Yields)'
    BY EveryYield, PTL
<1>4. \A d \in dfO', k \in kfO', l \in lgO' : Recovered(d, k, l) = after
    BY <1>1, <1>3 DEF IInv, Yields
<1>5. Database' = after /\ Transaction' = <<>>
    BY <1>1, <1>4, DecidedMapsNext
<1>6. <<after>> # <<>> /\ <<after>>[1] = after
    BY SMT
<1> QED BY <1>2, <1>5, <1>6 DEF Atomic!Commit

\* open starts from the database that recover had left.
LEMMA OpenAtomic ==
    ASSUME IInv, IInv', open
    PROVE  UNCHANGED <<Database, Transaction>>
<1> DEFINE x == [d |-> df, k |-> kf]
<1>1. /\ Types /\ Types' /\ pc \notin CommitStates /\ pc' \notin CommitStates
      /\ lgO = {NoLog} /\ lgO' = {NoLog} /\ dfO = {df} /\ kfO = {kf} /\ dfO' = dfO /\ kfO' = kfO
    BY DEF IInv, Types, Device, Recovering, Unchanged, open, CommitStates
<1>2. Recovered(df, kf, NoLog) = x
    BY NoLogParts DEF Recovered
<1> HIDE DEF x
<1>3. \A d \in dfO, k \in kfO, l \in lgO : Recovered(d, k, l) = x
    BY <1>1, <1>2
<1>4. Database = x /\ Transaction = <<>>
    BY <1>1, <1>3, DecidedMaps DEF Decided
<1>5. Database' = x /\ Transaction' = <<>>
    BY <1>1, <1>3, DecidedMapsNext
<1> QED BY <1>4, <1>5

\* Any other step leaves the transaction in flight, or decides it.
LEMMA OtherAtomic ==
    ASSUME IInv, IInv', Next, ~CommitBegin, ~CommitEnd, ~open
    PROVE  Atomic!Commit \/ Atomic!Abort \/ UNCHANGED <<Database, Transaction>>
<1>1. /\ Types /\ Types' /\ before' = before /\ after' = after
      /\ pc \notin CommitStates => pc' \notin CommitStates
    BY HistoryKept DEF IInv
<1>2. CASE InFlight /\ InFlight'
    BY <1>1, <1>2 DEF Database, Transaction
<1>3. CASE InFlight /\ ~InFlight'
    <2>1. Database = before /\ Transaction = <<after>>
        BY <1>3 DEF Database, Transaction
    <2>2. Database' = Recovered(df', kf', lg') /\ Transaction' = <<>>
        BY <1>3 DEF Database, Transaction
    <2>3. (Types /\ Device => Yields)'
        BY EveryYield, PTL
    <2>4. Recovered(df', kf', lg') \in {before, after}
        BY <1>1, <2>3 DEF IInv, Types, Yields
    <2>5. <<after>> # <<>> /\ <<after>>[1] = after
        BY SMT
    <2> QED BY <2>1, <2>2, <2>4, <2>5 DEF Atomic!Commit, Atomic!Abort
<1>4. CASE ~InFlight
    <2> DEFINE x == Recovered(df, kf, lg)
    <2>1. pc \notin CommitStates /\ Decided(x)
        BY <1>4, NotInFlight
    <2> HIDE DEF x
    <2>2. Database = x /\ Transaction = <<>>
        BY <1>1, <2>1, DecidedMaps
    <2>3. \A d \in dfO', k \in kfO', l \in lgO' : Recovered(d, k, l) = x
        BY <2>1, StaysDecided
    <2>4. Database' = x /\ Transaction' = <<>>
        BY <1>1, <2>1, <2>3, DecidedMapsNext
    <2> QED BY <2>2, <2>4
<1> QED BY <1>2, <1>3, <1>4

LEMMA StutterAtomic == ASSUME UNCHANGED vars PROVE UNCHANGED <<Database, Transaction>>
BY DEF vars, disk, Database, Transaction, InFlight

\* commit, and recover after any number of interruptions, implement a commit that
\* happens in one indivisible step or not at all.
THEOREM ImplementsAtomicCommitThm ==
    ASSUME SparseAppends = FALSE PROVE Spec => ImplementsAtomicCommit
<1>1. Spec => []IInv
    BY Invariance
<1>2. IInv /\ IInv' /\ [Next]_vars => [Atomic!Next]_<<Database, Transaction>>
    BY BeginAtomic, EndAtomic, OpenAtomic, OtherAtomic, StutterAtomic DEF Atomic!Next
<1> QED BY <1>1, <1>2, InitAtomic, PTL DEF Spec, ImplementsAtomicCommit, Atomic!Spec
=============================================================================
