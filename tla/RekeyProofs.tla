----------------------------- MODULE RekeyProofs -----------------------------
(***************************************************************************)
(* Proofs about create, rekey and recover, for any number of values,       *)
(* buckets and spill records: the values outlive every interruption, a     *)
(* store is opened only on a key file that was built to its end, and a     *)
(* create that fails takes back what it made.                              *)
(***************************************************************************)
EXTENDS Rekey, TLAPS

CreateStates == Creating \cup {"c_undo", "c_undokey", "c_undolog", "created", "failed"}
RekeyStates == {"header", "headersync", "log", "logsync", "block", "blocksync",
                "extended", "build", "done"}
ShortStates == {"s_log", "s_key"}
TruncStates == {"r_dftrunc", "r_dfsync", "r_key"}
ClearStates == {"r_clear", "r_clearsync", "r_erase", "recovered"}
OpenStates == ShortStates \cup TruncStates \cup ClearStates \cup {"opened"}

\* A key file of a header or less, and those of a table without values
ShortFiles == {NoKeys, HeaderOnly}
EmptyTables == ShortFiles \cup {HeaderBlock, OneBucket, [h |-> "torn", b |-> <<>>],
                                [h |-> "torn", b |-> <<"built">>]}

Contents == {"value", "spill", "torn"}

Types ==
    /\ records \in {0, Records}
    /\ pc \in CreateStates \cup RekeyStates \cup OpenStates \cup {"down"}
    /\ dx \in BOOLEAN /\ kx \in BOOLEAN /\ lx \in BOOLEAN
    /\ dh \in dhO /\ dhO \subseteq {"none", "whole"}
    /\ df \in dfO /\ dfO \subseteq Seq(Contents)
    /\ kf \in kfO /\ kfO \subseteq KeyFiles
    /\ \A k \in kfO : k.h \in {"none", "short"} => k \in ShortFiles
    /\ lg \in lgO /\ lgO \subseteq {"empty", "header"}
    /\ size \in Nat /\ spills \in Nat /\ next \in Nat \ {0}

\* A data file that has the values
Keeps(o) == records <= Len(o) /\ \A i \in 1 .. records : o[i] = "value"

\* The data file is as it was before any rekey; in front of the first bucket
\* that is written, the key file is short.
Undone == dfO = {Original}
Started == Undone /\ kfO \subseteq ShortFiles

Spilled == Original \o [i \in 1 .. spills |-> "spill"]

\* A rekey was completed, of which a late loss of power may spoil the buckets.
Done ==
    /\ \A k \in kfO : k.h = "block"
    /\ lx => lgO = {"empty"}
    /\ ~LateLoss => kfO = {AllBuilt(Buckets)} /\ dfO = {Spilled}

\* With and without values
Data ==
    /\ \A o \in dfO : Keeps(o)
    /\ records > 0 => dx /\ dhO = {"whole"} /\ pc \notin CreateStates
    /\ records = 0 => /\ Undone /\ spills = 0
                      /\ dx /\ "whole" \in dhO => kfO \subseteq EmptyTables

\* What the files on the device are to each other: only a log with a header
\* leads back from a key file that is neither short nor complete.
Disk ==
    /\ ~kx => Undone
    /\ records > 0 /\ kx /\ (lx => "empty" \in lgO) => Started \/ Done
    /\ lx /\ "header" \in lgO => size = records
    /\ kx /\ (\E k \in kfO : k \in ShortFiles) => Undone
    /\ kx /\ kf \in ShortFiles => kfO \subseteq ShortFiles

\* create, by where it is
Made ==
    /\ pc \in CreateStates \ {"created"} => Files = before \cup made /\ before \cap made = {}
    /\ pc \in Creating \cup {"c_undo"} => dx /\ "dat" \in made
    /\ pc \in {"c_key", "c_log", "c_dathdr"} => dhO = {"none"}
    /\ pc \in {"c_log", "c_dathdr"} => kfO \subseteq EmptyTables

\* rekey, by where it is
Building ==
    /\ pc \in RekeyStates \ {"done"} => dx /\ dh = "whole" /\ kx /\ size = records
    /\ pc \in RekeyStates \ {"done", "build"} => Undone /\ spills = 0 /\ next = 1
    /\ pc \in {"header", "headersync"} => ~lx /\ kfO \subseteq ShortFiles
    /\ pc = "headersync" => kf = HeaderOnly
    /\ pc \in {"log", "logsync", "block"} => lx /\ kfO = {HeaderOnly}
    /\ pc = "log" => lgO = {"empty"}
    /\ pc = "logsync" => lg = "header"
    /\ pc \in {"block", "blocksync", "extended", "build"} => lx /\ lgO = {"header"}
    /\ pc = "blocksync" => kf = HeaderBlock
    /\ pc = "extended" => kf = BlankFile
    /\ pc = "build" => /\ \A k \in kfO : k.h = "block" /\ Len(k.b) = NewBuckets
                       /\ next <= NewBuckets + 1
                       /\ \A i \in 1 .. NewBuckets : i < next => kf.b[i] = "built"
                       /\ df = Spilled

\* open, by where it is
Opening ==
    /\ pc \in OpenStates => dx /\ dh = "whole"
    /\ pc \in ShortStates => kf \in ShortFiles
    /\ pc \in TruncStates => lx /\ lg = "header"
    /\ pc = "r_dfsync" => df = Original
    /\ pc = "r_key" => Undone
    /\ pc \in ClearStates /\ records > 0 => ~kx \/ Done
    /\ pc = "opened" /\ ~LateLoss => Whole

IInv == Types /\ Data /\ Disk /\ Made /\ Building /\ Opening

-----------------------------------------------------------------------------
(* Files *)

USE ZenonT(40)      \* where numbers, records or sequences matter, a leaf cites SMT

LEMMA RecordsNumber ==
    ASSUME Types
    PROVE  records \in Nat /\ (records > 0 <=> records # 0)
BY BoundsAssumption, SMT DEF Types

LEMMA OriginalKept ==
    ASSUME records \in Nat
    PROVE  /\ Original \in Seq(Contents) /\ Len(Original) = records /\ Keeps(Original)
           /\ records = 0 => Original = <<>>
           /\ \A o \in Seq(Contents) : Keeps(o) => SubSeq(o, 1, records) = Original
           /\ \A o \in Seq(Contents) : \A r \in Contents : Keeps(o) =>
                Append(o, r) \in Seq(Contents) /\ Keeps(Append(o, r))
<1>1. Original \in Seq(Contents) /\ Len(Original) = records
    BY SMT DEF Original, Contents
<1>2. \A i \in 1 .. records : Original[i] = "value"
    BY SMT DEF Original
<1>3. Keeps(Original)
    BY <1>1, <1>2, SMT DEF Keeps
<1>4. records = 0 => Original = <<>>
    BY <1>1, SMT
<1>5. ASSUME NEW o \in Seq(Contents), Keeps(o) PROVE SubSeq(o, 1, records) = Original
    <2>1. /\ SubSeq(o, 1, records) \in Seq(Contents) /\ Len(SubSeq(o, 1, records)) = records
          /\ \A i \in 1 .. records : SubSeq(o, 1, records)[i] = o[i]
        BY <1>5, SMT DEF Keeps
    <2>2. \A i \in 1 .. records : SubSeq(o, 1, records)[i] = Original[i]
        BY <1>2, <1>5, <2>1 DEF Keeps
    <2> HIDE DEF Original
    <2> QED BY <1>1, <2>1, <2>2, SMT
<1>6. ASSUME NEW o \in Seq(Contents), NEW r \in Contents, Keeps(o)
      PROVE  Append(o, r) \in Seq(Contents) /\ Keeps(Append(o, r))
    <2>1. /\ Append(o, r) \in Seq(Contents) /\ Len(Append(o, r)) = Len(o) + 1 /\ Len(o) \in Nat
          /\ \A i \in 1 .. Len(o) : Append(o, r)[i] = o[i]
        BY SMT
    <2>2. records <= Len(o) + 1 /\ 1 .. records \subseteq 1 .. Len(o)
        BY <1>6, <2>1, SMT DEF Keeps
    <2> QED BY <1>6, <2>1, <2>2 DEF Keeps
<1> QED BY <1>1, <1>3, <1>4, <1>5, <1>6

\* The key files that the operations write
LEMMA KeyFilesWritten ==
    /\ EmptyTables \subseteq KeyFiles /\ ShortFiles \subseteq EmptyTables
    /\ HeaderBlock.h = "block" /\ HeaderBlock \notin ShortFiles /\ OneBucket \notin ShortFiles
    /\ \A k \in ShortFiles : k.h \in {"none", "short"}
    /\ \A k \in EmptyTables : k.h \in {"none", "short"} => k \in ShortFiles
    /\ \A k \in EmptyTables : k.h = "block" /\ k.b # <<>> => k = OneBucket
<1>1. /\ NoKeys \in KeyFiles /\ HeaderOnly \in KeyFiles /\ HeaderBlock \in KeyFiles
      /\ OneBucket \in KeyFiles /\ [h |-> "torn", b |-> <<>>] \in KeyFiles
      /\ [h |-> "torn", b |-> <<"built">>] \in KeyFiles
    BY SMT DEF KeyFiles, Blocks, NoKeys, HeaderOnly, HeaderBlock, OneBucket
<1>2. /\ NoKeys.h = "none" /\ HeaderOnly.h = "short" /\ HeaderBlock.h = "block"
      /\ OneBucket.h = "block" /\ HeaderBlock.b = <<>>
      /\ [h |-> "torn", b |-> <<>>].h = "torn" /\ [h |-> "torn", b |-> <<"built">>].h = "torn"
    BY SMT DEF NoKeys, HeaderOnly, HeaderBlock, OneBucket
<1> HIDE DEF NoKeys, HeaderOnly, HeaderBlock, OneBucket
<1>3. \A k \in EmptyTables : k \in ShortFiles \/ k = HeaderBlock \/ k = OneBucket
        \/ k = [h |-> "torn", b |-> <<>>] \/ k = [h |-> "torn", b |-> <<"built">>]
    BY DEF EmptyTables
<1>4. \A k \in ShortFiles : k.h \in {"none", "short"}
    BY <1>2 DEF ShortFiles
<1>5. EmptyTables \subseteq KeyFiles /\ ShortFiles \subseteq EmptyTables
    BY <1>1 DEF EmptyTables, ShortFiles
<1> QED BY <1>2, <1>3, <1>4, <1>5

\* The blank key file
LEMMA BlankWritten ==
    ASSUME records \in Nat
    PROVE  /\ NewBuckets \in Nat /\ BlankFile \in KeyFiles /\ BlankFile.h = "block"
           /\ Len(BlankFile.b) = NewBuckets /\ BlankFile \notin ShortFiles
           /\ records = 0 => NewBuckets = 0 /\ BlankFile = HeaderBlock
<1>1. NewBuckets \in Nat /\ (records = 0 => NewBuckets = 0)
    BY BoundsAssumption, SMT DEF NewBuckets
<1> DEFINE f == [i \in 1 .. NewBuckets |-> "blank"]
<1>2. f \in Seq(Blocks) /\ Len(f) = NewBuckets /\ (NewBuckets = 0 => f = <<>>)
    BY <1>1, SMT DEF Blocks
<1> HIDE DEF f
<1>3. BlankFile = [h |-> "block", b |-> f]
    BY DEF BlankFile, f
<1>4. BlankFile \in KeyFiles /\ BlankFile.h = "block" /\ BlankFile.b = f
    BY <1>2, <1>3, SMT DEF KeyFiles
<1>5. records = 0 => BlankFile = HeaderBlock
    BY <1>1, <1>2, <1>3 DEF HeaderBlock
<1> QED BY <1>1, <1>2, <1>4, <1>5, KeyFilesWritten

\* A block of a key file is written.
LEMMA BlockPut ==
    ASSUME NEW k \in KeyFiles, NEW i \in 1 .. Len(k.b), NEW v \in Blocks
    PROVE  /\ PutBlock(k, i, v) \in KeyFiles /\ PutBlock(k, i, v).h = k.h
           /\ Len(PutBlock(k, i, v).b) = Len(k.b) /\ PutBlock(k, i, v).b[i] = v
           /\ \A j \in 1 .. Len(k.b) : j # i => PutBlock(k, i, v).b[j] = k.b[j]
<1> DEFINE g == [k.b EXCEPT ![i] = v]
<1>1. k = [h |-> k.h, b |-> k.b] /\ k.b \in Seq(Blocks) /\ k.h \in {"none", "short", "torn", "block"}
    BY SMT DEF KeyFiles
<1>2. g \in Seq(Blocks) /\ Len(g) = Len(k.b) /\ g[i] = v /\ \A j \in 1 .. Len(k.b) : j # i => g[j] = k.b[j]
    BY <1>1, SMT
<1>3. PutBlock(k, i, v) = [k EXCEPT !.b = g]
    BY <1>1, SMT DEF PutBlock
<1> HIDE DEF g
<1>4. PutBlock(k, i, v) = [h |-> k.h, b |-> g]
    BY <1>1, <1>3, SMT
<1>5. PutBlock(k, i, v) \in KeyFiles /\ PutBlock(k, i, v).h = k.h /\ PutBlock(k, i, v).b = g
    BY <1>1, <1>2, <1>4, SMT DEF KeyFiles
<1> QED BY <1>2, <1>5

-----------------------------------------------------------------------------
(* Steps of the device *)

\* The number of values never changes, nor what depends on it.
LEMMA ValuesFixed ==
    ASSUME records' = records
    PROVE  /\ Original' = Original /\ NewBuckets' = NewBuckets /\ BlankFile' = BlankFile
           /\ \A o : Keeps(o)' <=> Keeps(o)
BY DEF Original, NewBuckets, BlankFile, Keeps

\* Of Made, Building and Opening only what is about the next state matters.
LEMMA Elsewhere ==
    /\ pc' \in RekeyStates \cup OpenStates \cup {"down", "created"} => Made'
    /\ pc' \in CreateStates \cup OpenStates \cup {"down", "done"} => Building'
    /\ pc' \in CreateStates \cup RekeyStates \cup {"down"} => Opening'
<1>1. pc' \in RekeyStates \cup OpenStates \cup {"down", "created"} => Made'
    BY DEF Made, CreateStates, Creating, RekeyStates, OpenStates, ShortStates, TruncStates,
       ClearStates
<1>2. pc' \in CreateStates \cup OpenStates \cup {"down", "done"} => Building'
    BY DEF Building, CreateStates, Creating, RekeyStates, OpenStates, ShortStates,
       TruncStates, ClearStates
<1>3. pc' \in CreateStates \cup RekeyStates \cup {"down"} => Opening'
    BY DEF Opening, CreateStates, Creating, RekeyStates, OpenStates, ShortStates,
       TruncStates, ClearStates
<1> QED BY <1>1, <1>2, <1>3

LEMMA DataStep ==
    ASSUME Types, Data, UNCHANGED <<records, dx>>, dhO' \subseteq dhO, dhO' # {},
           pc' \notin CreateStates, \A o \in dfO' : Keeps(o),
           records = 0 => dfO' = dfO /\ spills' = 0 /\ kfO' \subseteq kfO \cup EmptyTables
    PROVE  Data'
<1>1. \A o \in dfO' : Keeps(o)'
    BY ValuesFixed
<1>2. records' > 0 => dx' /\ dhO' = {"whole"} /\ pc' \notin CreateStates
    BY DEF Data
<1>3. records' = 0 => Undone' /\ spills' = 0
    BY ValuesFixed DEF Data, Undone
<1>4. records' = 0 => (dx' /\ "whole" \in dhO' => kfO' \subseteq EmptyTables)
    BY DEF Data
<1> QED BY <1>1, <1>2, <1>3, <1>4 DEF Data

\* The type invariant of a step that leaves the data file's header alone
LEMMA TypesStep ==
    ASSUME Types, UNCHANGED <<records, dx, dh, dhO>>,
           pc' \in CreateStates \cup RekeyStates \cup OpenStates \cup {"down"},
           kx' \in BOOLEAN, lx' \in BOOLEAN, df' \in dfO', dfO' \subseteq Seq(Contents),
           kf' \in kfO', kfO' \subseteq KeyFiles,
           \A k \in kfO' : k.h \in {"none", "short"} => k \in ShortFiles,
           lg' \in lgO', lgO' \subseteq {"empty", "header"},
           size' \in Nat, spills' \in Nat, next' \in Nat \ {0}
    PROVE  Types'
BY DEF Types

\* sync and a power loss only remove contents.
LEMMA Shrinks ==
    ASSUME Disk, UNCHANGED <<records, kx, lx, size, spills>>,
           dfO' \subseteq dfO, kfO' \subseteq kfO, lgO' \subseteq lgO,
           dfO' # {}, kfO' # {}, lgO' # {}, kf' = kf \/ kfO' = {kf'}
    PROVE  Disk'
<1>1. Undone => Undone'
    BY ValuesFixed DEF Undone
<1>2. Started => Started'
    BY <1>1 DEF Started
<1>3. Done => Done'
    <2>1. Spilled' = Spilled
        BY ValuesFixed DEF Spilled
    <2> QED BY <2>1 DEF Done
<1>4. records' > 0 /\ kx' /\ (lx' => "empty" \in lgO') => Started' \/ Done'
    BY <1>2, <1>3 DEF Disk
<1>5. kx' /\ (\E k \in kfO' : k \in ShortFiles) => Undone'
    BY <1>1 DEF Disk
<1>6. kx' /\ kf' \in ShortFiles => kfO' \subseteq ShortFiles
    <2>1. CASE kf' = kf
        BY <2>1 DEF Disk
    <2>2. CASE kfO' = {kf'}
        BY <2>2
    <2> QED BY <2>1, <2>2
<1> QED BY <1>1, <1>4, <1>5, <1>6 DEF Disk

\* Three ways in which the files are recoverable whatever they were before
LEMMA StartedStep ==
    ASSUME Started', lx' /\ "header" \in lgO' => size' = records'
    PROVE  Disk'
BY DEF Started, Disk

LEMMA ErasedStep ==
    ASSUME ~kx', Undone', lx' /\ "header" \in lgO' => size' = records'
    PROVE  Disk'
BY DEF Disk

LEMMA LoggedStep ==
    ASSUME kx', lx', lgO' = {"header"}, size' = records', kf' \notin ShortFiles,
           (\E k \in kfO' : k \in ShortFiles) => Undone'
    PROVE  Disk'
BY DEF Disk

-----------------------------------------------------------------------------
(* create *)

\* create runs only when there are no values.
LEMMA CreateStep ==
    ASSUME IInv, pc \in CreateStates \/ ~dx, pc' \in CreateStates \cup {"down"},
           UNCHANGED <<records, df, dfO, size, spills, next>>,
           dx' \in BOOLEAN, dh' \in dhO', dhO' \subseteq {"none", "whole"},
           kx' \in BOOLEAN, kf' \in kfO', kfO' \subseteq kfO \cup EmptyTables,
           lx' \in BOOLEAN, lg' \in lgO', lgO' \subseteq {"empty", "header"},
           dx' /\ "whole" \in dhO' => kfO' \subseteq EmptyTables,
           kx' /\ kf' \in ShortFiles => kfO' \subseteq ShortFiles,
           lx' /\ "header" \in lgO' => lx /\ "header" \in lgO
    PROVE  Types' /\ Data' /\ Disk' /\ Building' /\ Opening'
<1>1. records = 0 /\ ~(records > 0) /\ Undone /\ spills = 0
    BY RecordsNumber DEF IInv, Data
<1>2. Undone' /\ ~(records' > 0) /\ \A o \in dfO' : Keeps(o)'
    <2>1. \A o \in dfO : Keeps(o)
        BY DEF IInv, Data
    <2> QED BY <1>1, <2>1, ValuesFixed DEF Undone
<1>3. Types'
    BY KeyFilesWritten DEF IInv, Types
<1>4. Data'
    BY <1>1, <1>2 DEF Data
<1>5. Disk'
    <2>1. lx' /\ "header" \in lgO' => size' = records'
        BY DEF IInv, Disk
    <2> QED BY <1>2, <2>1 DEF Disk
<1> QED BY <1>3, <1>4, <1>5, Elsewhere

\* The files there are
LEMMA FilesNow ==
    /\ ("dat" \in Files <=> dx) /\ ("key" \in Files <=> kx) /\ ("log" \in Files <=> lx)
    /\ \A f \in Files : f \in {"dat", "key", "log"}
BY DEF Files

LEMMA FilesNext ==
    /\ ("dat" \in Files' <=> dx') /\ ("key" \in Files' <=> kx') /\ ("log" \in Files' <=> lx')
    /\ \A f \in Files' : f \in {"dat", "key", "log"}
BY DEF Files

\* Neither create nor its undoing touches any other file than its own.
LEMMA MadeStep ==
    ASSUME Made, pc \in CreateStates \ {"created"}, NEW f,
           \/ UNCHANGED <<dx, kx, lx, made, before>>
           \/ /\ f \notin Files /\ before' = before /\ made' = made \cup {f}
              /\ Files' = Files \cup {f}
           \/ /\ f \in made /\ before' = before /\ made' = made \ {f}
              /\ Files' = Files \ {f}
    PROVE  Files' = before' \cup made' /\ before' \cap made' = {}
<1>1. Files = before \cup made /\ before \cap made = {}
    BY DEF Made
<1>2. CASE UNCHANGED <<dx, kx, lx, made, before>>
    <2>1. Files' = Files
        BY <1>2 DEF Files
    <2> QED BY <1>1, <1>2, <2>1
<1>3. CASE /\ f \notin Files /\ before' = before /\ made' = made \cup {f}
           /\ Files' = Files \cup {f}
    BY <1>1, <1>3
<1>4. CASE f \in made /\ before' = before /\ made' = made \ {f} /\ Files' = Files \ {f}
    BY <1>1, <1>4
<1> QED BY <1>2, <1>3, <1>4

\* What create leaves alone
Aside == UNCHANGED <<records, data, size, spills, next>>

LEMMA CreateDatIInv == ASSUME IInv, CreateDat, Aside PROVE IInv'
<1>1. /\ ~dx /\ before' = Files /\ made' = {"dat"} /\ dx' = TRUE /\ dh' = "none" /\ dhO' = {"none"}
      /\ pc' = "c_key" /\ UNCHANGED <<kx, kf, kfO, lx, lg, lgO, records, df, dfO, size, spills, next>>
    BY DEF CreateDat, Aside, data, keyfile, log
<1>2. /\ kx \in BOOLEAN /\ kf \in kfO /\ lx \in BOOLEAN /\ lg \in lgO
      /\ lgO \subseteq {"empty", "header"}
      /\ kx /\ kf \in ShortFiles => kfO \subseteq ShortFiles
    BY DEF IInv, Types, Disk
<1>3. Types' /\ Data' /\ Disk' /\ Building' /\ Opening'
    BY <1>1, <1>2, CreateStep DEF CreateStates, Creating
<1>4. Made'
    <2>1. "dat" \notin Files /\ Files' = Files \cup {"dat"}
        BY <1>1, FilesNow, FilesNext
    <2> QED BY <1>1, <2>1 DEF Made, CreateStates, Creating
<1> QED BY <1>3, <1>4 DEF IInv

LEMMA CreateKeyIInv == ASSUME IInv, CreateKey, Aside PROVE IInv'
<1>1. /\ pc = "c_key" /\ dx /\ "dat" \in made /\ dhO = {"none"}
      /\ UNCHANGED <<dx, dh, dhO, lx, lg, lgO, before, records, df, dfO, size, spills, next>>
    BY DEF CreateKey, Aside, data, header, log, IInv, Made, Creating
<1>2. \/ kx /\ pc' = "c_undo" /\ UNCHANGED <<kx, kf, kfO, made>>
      \/ /\ ~kx /\ kx' = TRUE /\ kf' = NoKeys /\ kfO' = {NoKeys} /\ made' = made \cup {"key"}
         /\ pc' = "c_log"
    BY DEF CreateKey, keyfile
<1>3. /\ kx' \in BOOLEAN /\ kf' \in kfO' /\ kfO' \subseteq kfO \cup EmptyTables
      /\ kx' /\ kf' \in ShortFiles => kfO' \subseteq ShortFiles
      /\ pc' = "c_log" => kfO' \subseteq EmptyTables
    BY <1>2 DEF IInv, Types, Disk, EmptyTables, ShortFiles
<1>4. /\ dx \in BOOLEAN /\ dh \in dhO /\ lx \in BOOLEAN /\ lg \in lgO
      /\ lgO \subseteq {"empty", "header"} /\ "whole" \notin dhO
    BY <1>1 DEF IInv, Types
<1>5. pc \in CreateStates \ {"created"} /\ pc' \in CreateStates
    BY <1>1, <1>2 DEF CreateStates, Creating
<1>6. Types' /\ Data' /\ Disk' /\ Building' /\ Opening'
    BY <1>1, <1>3, <1>4, <1>5, CreateStep
<1>7. Files' = before' \cup made' /\ before' \cap made' = {}
    <2>1. ~kx /\ kx' = TRUE => "key" \notin Files /\ Files' = Files \cup {"key"}
        BY <1>1, FilesNow, FilesNext
    <2> QED BY <1>1, <1>2, <1>5, <2>1, MadeStep DEF IInv
<1>8. Made'
    BY <1>1, <1>2, <1>3, <1>7 DEF Made
<1> QED BY <1>6, <1>8 DEF IInv

LEMMA CreateLogIInv == ASSUME IInv, CreateLog, Aside PROVE IInv'
<1>1. /\ pc = "c_log" /\ dx /\ "dat" \in made /\ dhO = {"none"} /\ kfO \subseteq EmptyTables
      /\ UNCHANGED <<dx, dh, dhO, kx, kf, kfO, before, records, df, dfO, size, spills, next>>
    BY DEF CreateLog, Aside, data, header, keyfile, IInv, Made, Creating
<1>2. \/ lx /\ pc' = "c_undo" /\ UNCHANGED <<lx, lg, lgO, made>>
      \/ /\ ~lx /\ lx' = TRUE /\ lg' = "empty" /\ lgO' = {"empty"} /\ made' = made \cup {"log"}
         /\ pc' = "c_dathdr"
    BY DEF CreateLog, log
<1>3. /\ lx' \in BOOLEAN /\ lg' \in lgO' /\ lgO' \subseteq {"empty", "header"}
      /\ lx' /\ "header" \in lgO' => lx /\ "header" \in lgO
    BY <1>2 DEF IInv, Types
<1>4. /\ dx \in BOOLEAN /\ dh \in dhO /\ kx \in BOOLEAN /\ kf \in kfO
      /\ kx /\ kf \in ShortFiles => kfO \subseteq ShortFiles
    BY DEF IInv, Types, Disk
<1>5. pc \in CreateStates \ {"created"} /\ pc' \in CreateStates
    BY <1>1, <1>2 DEF CreateStates, Creating
<1>6. Types' /\ Data' /\ Disk' /\ Building' /\ Opening'
    BY <1>1, <1>3, <1>4, <1>5, CreateStep
<1>7. Files' = before' \cup made' /\ before' \cap made' = {}
    <2>1. ~lx /\ lx' = TRUE => "log" \notin Files /\ Files' = Files \cup {"log"}
        BY <1>1, FilesNow, FilesNext
    <2> QED BY <1>1, <1>2, <1>5, <2>1, MadeStep DEF IInv
<1>8. Made'
    BY <1>1, <1>2, <1>7 DEF Made
<1> QED BY <1>6, <1>8 DEF IInv

\* The files are written and synced, or that fails.
LEMMA CreateWriteIInv ==
    ASSUME IInv, Aside, WriteDatHeader \/ WriteKeyHeader \/ WriteEmptyBucket \/ SyncDat
                        \/ SyncKey \/ SyncLog \/ CreateFails
    PROVE  IInv'
<1>1. /\ pc \in Creating
      /\ UNCHANGED <<dx, kx, lx, made, before, records, df, dfO, size, spills, next>>
    BY DEF Aside, data, WriteDatHeader, WriteKeyHeader, WriteEmptyBucket, SyncDat, SyncKey,
       SyncLog, CreateFails, header, keyfile, log, Creating
<1>2. pc' \in {"c_keyhdr", "c_bucket", "c_datsync", "c_keysync", "c_logsync", "created", "c_undo"}
    BY DEF WriteDatHeader, WriteKeyHeader, WriteEmptyBucket, SyncDat, SyncKey, SyncLog, CreateFails
<1>3. dx /\ "dat" \in made
    BY <1>1 DEF IInv, Made
<1>4. dh' \in dhO' /\ dhO' \subseteq {"none", "whole"}
    BY DEF WriteDatHeader, WriteKeyHeader, WriteEmptyBucket, SyncDat, SyncKey, SyncLog,
       CreateFails, header, IInv, Types
<1>5. lg' \in lgO' /\ lgO' \subseteq lgO /\ lgO \subseteq {"empty", "header"}
    BY DEF WriteDatHeader, WriteKeyHeader, WriteEmptyBucket, SyncDat, SyncKey, SyncLog,
       CreateFails, log, IInv, Types
<1>6. kf' \in kfO' /\ kfO' \subseteq kfO \cup EmptyTables
    BY DEF WriteDatHeader, WriteKeyHeader, WriteEmptyBucket, SyncDat, SyncKey, SyncLog,
       CreateFails, keyfile, IInv, Types, EmptyTables
<1>7. kx' /\ kf' \in ShortFiles => kfO' \subseteq ShortFiles
    BY <1>1, KeyFilesWritten DEF WriteDatHeader, WriteKeyHeader, WriteEmptyBucket, SyncDat,
       SyncKey, SyncLog, CreateFails, keyfile, IInv, Disk
<1>8. dx' /\ "whole" \in dhO' => kfO' \subseteq EmptyTables
    <2>1. CASE WriteDatHeader
        BY <2>1 DEF WriteDatHeader, keyfile, IInv, Made
    <2>2. CASE "whole" \in dhO' => "whole" \in dhO
        <3>1. records = 0
            BY <1>1, RecordsNumber DEF IInv, Data, CreateStates
        <3> QED BY <1>3, <1>6, <2>2, <3>1 DEF IInv, Data
    <2>3. WriteDatHeader \/ ("whole" \in dhO' => "whole" \in dhO)
        BY DEF WriteKeyHeader, WriteEmptyBucket, SyncDat, SyncKey, SyncLog, CreateFails, header,
           IInv, Types
    <2> QED BY <2>1, <2>2, <2>3
<1>9. dx \in BOOLEAN /\ kx \in BOOLEAN /\ lx \in BOOLEAN
    BY DEF IInv, Types
<1>10. pc \in CreateStates \ {"created"} /\ pc' \in CreateStates
    BY <1>1, <1>2 DEF CreateStates, Creating
<1>11. Types' /\ Data' /\ Disk' /\ Building' /\ Opening'
    BY <1>1, <1>4, <1>5, <1>6, <1>7, <1>8, <1>9, <1>10, CreateStep
<1>12. Files' = before' \cup made' /\ before' \cap made' = {}
    BY <1>1, <1>10, MadeStep DEF IInv
<1>13. Made'
    BY <1>1, <1>2, <1>3, <1>12 DEF Made
<1> QED BY <1>11, <1>13 DEF IInv

\* The files that create made are erased again, or that fails too.
LEMMA CreateUndoIInv ==
    ASSUME IInv, Aside, UndoDat \/ UndoKey \/ UndoLog
    PROVE  IInv'
<1>1. /\ pc \in {"c_undo", "c_undokey", "c_undolog"} /\ pc' \in {"c_undokey", "c_undolog", "failed"}
      /\ UNCHANGED <<dh, dhO, kf, kfO, lg, lgO, before, records, df, dfO, size, spills, next>>
    BY DEF Aside, data, UndoDat, UndoKey, UndoLog, header, keyfile, log
<1>2. PICK f \in {"dat", "key", "log"} :
        \/ UNCHANGED <<dx, kx, lx, made>>
        \/ /\ f \in made /\ made' = made \ {f}
           /\ dx' = (dx /\ f # "dat") /\ kx' = (kx /\ f # "key") /\ lx' = (lx /\ f # "log")
    <2>1. dx \in BOOLEAN /\ kx \in BOOLEAN /\ lx \in BOOLEAN
        BY DEF IInv, Types
    <2>2. CASE UndoDat
        <3>1. "dat" \in made
            BY <2>2 DEF UndoDat, IInv, Made
        <3> QED BY <2>1, <2>2, <3>1 DEF UndoDat, keyfile, log
    <2>3. CASE UndoKey
        BY <2>1, <2>3 DEF UndoKey, header, log
    <2>4. CASE UndoLog
        BY <2>1, <2>4 DEF UndoLog, header, keyfile
    <2> QED BY <2>2, <2>3, <2>4
<1>3. /\ dx' \in BOOLEAN /\ kx' \in BOOLEAN /\ lx' \in BOOLEAN
      /\ (dx' => dx) /\ (kx' => kx) /\ (lx' => lx)
    <2>1. CASE UNCHANGED <<dx, kx, lx, made>>
        BY <2>1 DEF IInv, Types
    <2>2. CASE dx' = (dx /\ f # "dat") /\ kx' = (kx /\ f # "key") /\ lx' = (lx /\ f # "log")
        BY <2>2
    <2> QED BY <1>2, <2>1, <2>2
<1>4. /\ dh \in dhO /\ dhO \subseteq {"none", "whole"} /\ kf \in kfO /\ lg \in lgO
      /\ lgO \subseteq {"empty", "header"}
    BY DEF IInv, Types
<1>5. pc \in CreateStates \ {"created"} /\ pc' \in CreateStates
    BY <1>1 DEF CreateStates, Creating
<1>6. /\ dx /\ "whole" \in dhO => kfO \subseteq EmptyTables
      /\ kx /\ kf \in ShortFiles => kfO \subseteq ShortFiles
    BY <1>5, RecordsNumber DEF IInv, Data, Disk
<1>7. Types' /\ Data' /\ Disk' /\ Building' /\ Opening'
    BY <1>1, <1>3, <1>4, <1>5, <1>6, CreateStep
<1>8. Files' = before' \cup made' /\ before' \cap made' = {}
    <2>1. UNCHANGED <<dx, kx, lx, made>> \/ Files' = Files \ {f}
        BY <1>2, FilesNow, FilesNext
    <2> QED BY <1>1, <1>2, <1>5, <2>1, MadeStep DEF IInv
<1>9. Made'
    BY <1>1, <1>8 DEF Made, Creating
<1> QED BY <1>7, <1>9 DEF IInv

LEMMA CreateReturnsIInv == ASSUME IInv, CreateReturns, Aside PROVE IInv'
<1>1. /\ pc \in CreateStates /\ pc' = "down"
      /\ UNCHANGED <<dx, dh, dhO, kx, kf, kfO, lx, lg, lgO, records, df, dfO, size, spills, next>>
    BY DEF CreateReturns, Aside, data, header, keyfile, log, CreateStates
<1>2. /\ dx \in BOOLEAN /\ dh \in dhO /\ dhO \subseteq {"none", "whole"} /\ kx \in BOOLEAN
      /\ kf \in kfO /\ lx \in BOOLEAN /\ lg \in lgO /\ lgO \subseteq {"empty", "header"}
    BY DEF IInv, Types
<1>3. /\ dx /\ "whole" \in dhO => kfO \subseteq EmptyTables
      /\ kx /\ kf \in ShortFiles => kfO \subseteq ShortFiles
    BY <1>1, RecordsNumber DEF IInv, Data, Disk
<1>4. Types' /\ Data' /\ Disk' /\ Building' /\ Opening'
    BY <1>1, <1>2, <1>3, CreateStep
<1> QED BY <1>1, <1>4, Elsewhere DEF IInv

-----------------------------------------------------------------------------
(* rekey *)

\* What rekey, recover and open leave alone
Apart == UNCHANGED <<records, createVars>>

\* One of their steps that does not change the data file
LEMMA KeyStep ==
    ASSUME IInv, Apart, UNCHANGED <<df, dfO>>,
           pc' \in RekeyStates \cup OpenStates \cup {"down"},
           kx' \in BOOLEAN, lx' \in BOOLEAN, kf' \in kfO',
           kfO' \subseteq kfO \cup KeyFiles, records = 0 => kfO' \subseteq kfO \cup EmptyTables,
           \A k \in kfO' : k \in kfO \/ k \in ShortFiles \/ k.h = "block",
           lg' \in lgO', lgO' \subseteq {"empty", "header"},
           size' \in Nat, spills' = spills \/ spills' = 0, next' \in Nat \ {0}
    PROVE  /\ Types' /\ Data' /\ Made' /\ UNCHANGED <<records, dx, dh, dhO>>
           /\ (Undone => Undone')
<1>1. UNCHANGED <<records, dx, dh, dhO>>
    BY DEF Apart, createVars, header
<1>2. Types'
    <2>1. \A k \in kfO' : k.h \in {"none", "short"} => k \in ShortFiles
        BY DEF IInv, Types
    <2>2. kfO' \subseteq KeyFiles /\ spills' \in Nat
        BY SMT DEF IInv, Types
    <2> QED BY <1>1, <2>1, <2>2, TypesStep DEF IInv, Types
<1>3. pc' \notin CreateStates
    BY DEF CreateStates, Creating, RekeyStates, OpenStates, ShortStates, TruncStates, ClearStates
<1>4. Data'
    BY <1>1, <1>3, DataStep DEF IInv, Data, Types
<1>5. Undone => Undone'
    BY <1>1, ValuesFixed DEF Undone
<1> QED BY <1>1, <1>2, <1>4, <1>5, Elsewhere

LEMMA KeyCreateIInv == ASSUME IInv, KeyCreate, Apart PROVE IInv'
<1>1. /\ pc = "down" /\ dx /\ dh = "whole" /\ ~lx /\ ~kx /\ size' = Len(df) /\ spills' = 0
      /\ next' = 1 /\ kx' = TRUE /\ kf' = NoKeys /\ kfO' = {NoKeys} /\ pc' = "header"
      /\ UNCHANGED <<df, dfO, lx, lg, lgO>>
    BY DEF KeyCreate, data, log
<1>2. Undone /\ df = Original /\ records \in Nat /\ size' = records
    BY <1>1, RecordsNumber, OriginalKept DEF IInv, Types, Disk, Undone
<1>3. NoKeys \in ShortFiles /\ ShortFiles \subseteq EmptyTables /\ EmptyTables \subseteq KeyFiles
    BY KeyFilesWritten DEF ShortFiles
<1>4. 1 \in Nat \ {0} /\ lx \in BOOLEAN /\ lg \in lgO /\ lgO \subseteq {"empty", "header"}
    BY SMT DEF IInv, Types
<1>5. Types' /\ Data' /\ Made' /\ UNCHANGED <<records, dx, dh, dhO>> /\ (Undone => Undone')
    BY <1>1, <1>2, <1>3, <1>4, KeyStep DEF RekeyStates
<1>6. Disk'
    BY <1>1, <1>2, <1>3, <1>5, StartedStep DEF Started
<1>7. Building'
    BY <1>1, <1>2, <1>3, <1>5 DEF Building
<1> QED BY <1>1, <1>5, <1>6, <1>7, Elsewhere DEF IInv, RekeyStates

LEMMA KeyHeaderIInv == ASSUME IInv, KeyHeader, Apart PROVE IInv'
<1>1. /\ pc = "header" /\ kf' = HeaderOnly /\ kfO' = kfO \cup {HeaderOnly} /\ pc' = "headersync"
      /\ UNCHANGED <<df, dfO, kx, lx, lg, lgO, size, spills, next>>
    BY DEF KeyHeader, kfWrite, data, log
<1>2. /\ dx /\ dh = "whole" /\ kx /\ size = records /\ Undone /\ spills = 0 /\ next = 1
      /\ ~lx /\ kfO \subseteq ShortFiles
    BY <1>1 DEF IInv, Building, RekeyStates
<1>3. HeaderOnly \in ShortFiles /\ ShortFiles \subseteq EmptyTables /\ EmptyTables \subseteq KeyFiles
    BY KeyFilesWritten DEF ShortFiles
<1>4. Types' /\ Data' /\ Made' /\ UNCHANGED <<records, dx, dh, dhO>> /\ (Undone => Undone')
    BY <1>1, <1>3, KeyStep DEF RekeyStates, IInv, Types
<1>5. Disk'
    BY <1>1, <1>2, <1>3, <1>4, StartedStep DEF Started
<1>6. Building'
    BY <1>1, <1>2, <1>3, <1>4 DEF Building
<1> QED BY <1>1, <1>4, <1>5, <1>6, Elsewhere DEF IInv, RekeyStates

LEMMA LogCreateIInv == ASSUME IInv, LogCreate, Apart PROVE IInv'
<1>1. /\ pc = "headersync" /\ kfO' = {kf} /\ lx' = TRUE /\ lg' = "empty" /\ lgO' = {"empty"}
      /\ pc' = "log" /\ UNCHANGED <<df, dfO, kx, kf, size, spills, next>>
    BY DEF LogCreate, data
<1>2. /\ dx /\ dh = "whole" /\ kx /\ size = records /\ Undone /\ spills = 0 /\ next = 1
      /\ kf = HeaderOnly /\ kf \in ShortFiles
    BY <1>1 DEF IInv, Building, RekeyStates, ShortFiles
<1>3. Types' /\ Data' /\ Made' /\ UNCHANGED <<records, dx, dh, dhO>> /\ (Undone => Undone')
    BY <1>1, KeyStep DEF RekeyStates, IInv, Types
<1>4. Disk'
    BY <1>1, <1>2, <1>3, StartedStep DEF Started
<1>5. Building'
    BY <1>1, <1>2, <1>3 DEF Building
<1> QED BY <1>1, <1>3, <1>4, <1>5, Elsewhere DEF IInv, RekeyStates

LEMMA LogHeaderIInv == ASSUME IInv, LogHeader, Apart PROVE IInv'
<1>1. /\ pc = "log" /\ lg' = "header" /\ lgO' = lgO \cup {"header"} /\ pc' = "logsync"
      /\ UNCHANGED <<df, dfO, kx, kf, kfO, lx, size, spills, next>>
    BY DEF LogHeader, data, keyfile
<1>2. /\ dx /\ dh = "whole" /\ kx /\ size = records /\ Undone /\ spills = 0 /\ next = 1
      /\ lx /\ kfO = {HeaderOnly} /\ kfO \subseteq ShortFiles
    BY <1>1 DEF IInv, Building, RekeyStates, ShortFiles
<1>3. Types' /\ Data' /\ Made' /\ UNCHANGED <<records, dx, dh, dhO>> /\ (Undone => Undone')
    BY <1>1, KeyStep DEF RekeyStates, IInv, Types
<1>4. Disk'
    BY <1>1, <1>2, <1>3, StartedStep DEF Started
<1>5. Building'
    BY <1>1, <1>2, <1>3 DEF Building
<1> QED BY <1>1, <1>3, <1>4, <1>5, Elsewhere DEF IInv, RekeyStates

LEMMA LogSyncIInv == ASSUME IInv, LogSync, Apart PROVE IInv'
<1>1. /\ pc = "logsync" /\ lgO' = {lg} /\ pc' = "block"
      /\ UNCHANGED <<df, dfO, kx, kf, kfO, lx, lg, size, spills, next>>
    BY DEF LogSync, data, keyfile
<1>2. /\ dx /\ dh = "whole" /\ kx /\ size = records /\ Undone /\ spills = 0 /\ next = 1
      /\ lx /\ kfO = {HeaderOnly} /\ lg = "header" /\ kfO \subseteq ShortFiles
    BY <1>1 DEF IInv, Building, RekeyStates, ShortFiles
<1>3. Types' /\ Data' /\ Made' /\ UNCHANGED <<records, dx, dh, dhO>> /\ (Undone => Undone')
    BY <1>1, <1>2, KeyStep DEF RekeyStates, IInv, Types
<1>4. Disk'
    BY <1>1, <1>2, <1>3, StartedStep DEF Started
<1>5. Building'
    BY <1>1, <1>2, <1>3 DEF Building
<1> QED BY <1>1, <1>3, <1>4, <1>5, Elsewhere DEF IInv, RekeyStates

LEMMA KeyBlockIInv == ASSUME IInv, KeyBlock, Apart PROVE IInv'
<1>1. /\ pc = "block" /\ kf' = HeaderBlock /\ kfO' = kfO \cup {HeaderBlock} /\ pc' = "blocksync"
      /\ UNCHANGED <<df, dfO, kx, lx, lg, lgO, size, spills, next>>
    BY DEF KeyBlock, kfWrite, data, log
<1>2. /\ dx /\ dh = "whole" /\ kx /\ size = records /\ Undone /\ spills = 0 /\ next = 1
      /\ lx /\ lgO = {"header"}
    BY <1>1 DEF IInv, Building, RekeyStates
<1>3. /\ HeaderBlock \in EmptyTables /\ HeaderBlock.h = "block" /\ HeaderBlock \notin ShortFiles
      /\ EmptyTables \subseteq KeyFiles
    BY KeyFilesWritten DEF EmptyTables
<1>4. Types' /\ Data' /\ Made' /\ UNCHANGED <<records, dx, dh, dhO>> /\ (Undone => Undone')
    BY <1>1, <1>3, KeyStep DEF RekeyStates, IInv, Types
<1>5. Disk'
    BY <1>1, <1>2, <1>3, <1>4, LoggedStep
<1>6. Building'
    BY <1>1, <1>2, <1>4 DEF Building
<1> QED BY <1>1, <1>4, <1>5, <1>6, Elsewhere DEF IInv, RekeyStates

LEMMA KeyExtendIInv == ASSUME IInv, KeyExtend, Apart PROVE IInv'
<1>1. /\ pc = "blocksync" /\ kf' = BlankFile /\ kfO' = {kf, BlankFile} /\ pc' = "extended"
      /\ UNCHANGED <<df, dfO, kx, lx, lg, lgO, size, spills, next>>
    BY DEF KeyExtend, data, log
<1>2. /\ dx /\ dh = "whole" /\ kx /\ size = records /\ Undone /\ spills = 0 /\ next = 1
      /\ lx /\ lgO = {"header"}
    BY <1>1 DEF IInv, Building, RekeyStates
<1>3. /\ BlankFile \in KeyFiles /\ BlankFile.h = "block" /\ BlankFile \notin ShortFiles
      /\ records = 0 => BlankFile \in EmptyTables
    BY RecordsNumber, BlankWritten DEF IInv, EmptyTables
<1>4. Types' /\ Data' /\ Made' /\ UNCHANGED <<records, dx, dh, dhO>> /\ (Undone => Undone')
    BY <1>1, <1>3, KeyStep DEF RekeyStates, IInv, Types
<1>5. Disk'
    BY <1>1, <1>2, <1>3, <1>4, LoggedStep
<1>6. Building'
    BY <1>1, <1>2, <1>4, ValuesFixed DEF Building
<1> QED BY <1>1, <1>4, <1>5, <1>6, Elsewhere DEF IInv, RekeyStates

LEMMA KeySyncIInv == ASSUME IInv, KeySync, Apart PROVE IInv'
<1>1. /\ pc = "extended" /\ kfO' = {kf} /\ pc' = "build"
      /\ UNCHANGED <<df, dfO, kx, kf, lx, lg, lgO, size, spills, next>>
    BY DEF KeySync, data, log
<1>2. /\ dx /\ dh = "whole" /\ kx /\ size = records /\ Undone /\ spills = 0 /\ next = 1
      /\ lx /\ lgO = {"header"} /\ kf = BlankFile /\ df = Original /\ records \in Nat
    BY <1>1, RecordsNumber DEF IInv, Types, Building, RekeyStates, Undone
<1>3. /\ BlankFile.h = "block" /\ BlankFile \notin ShortFiles /\ Len(BlankFile.b) = NewBuckets
      /\ NewBuckets \in Nat
    BY <1>2, BlankWritten
<1>4. Types' /\ Data' /\ Made' /\ UNCHANGED <<records, dx, dh, dhO>> /\ (Undone => Undone')
    BY <1>1, KeyStep DEF RekeyStates, IInv, Types
<1>5. Disk'
    BY <1>1, <1>2, <1>3, <1>4, LoggedStep
<1>6. 1 <= NewBuckets + 1 /\ \A i \in 1 .. NewBuckets : ~(i < 1)
    BY <1>3, SMT
<1>7. Original = Spilled /\ Spilled' = Spilled
    <2>1. Original \in Seq(Contents)
        BY <1>2, OriginalKept
    <2> HIDE DEF Original
    <2>2. Original \o [i \in 1 .. 0 |-> "spill"] = Original
        BY <2>1, SMT
    <2> QED BY <1>1, <1>2, <1>4, <2>2, ValuesFixed DEF Spilled
<1>8. Building'
    BY <1>1, <1>2, <1>3, <1>4, <1>6, <1>7, ValuesFixed DEF Building
<1> QED BY <1>1, <1>4, <1>5, <1>8, Elsewhere DEF IInv, RekeyStates

\* While the buckets are built
LEMMA BuildFacts ==
    ASSUME IInv, pc = "build"
    PROVE  /\ dx /\ dh = "whole" /\ kx /\ lx /\ size = records /\ lgO = {"header"}
           /\ kf \in kfO /\ kfO \subseteq KeyFiles /\ records \in Nat /\ NewBuckets \in Nat
           /\ \A k \in kfO : k.h = "block" /\ Len(k.b) = NewBuckets /\ k \notin ShortFiles
           /\ next <= NewBuckets + 1 /\ next \in Nat \ {0}
           /\ \A i \in 1 .. NewBuckets : i < next => kf.b[i] = "built"
           /\ df = Spilled
<1>1. records \in Nat /\ NewBuckets \in Nat
    BY RecordsNumber, BlankWritten DEF IInv
<1>2. \A k \in kfO : k.h = "block" /\ Len(k.b) = NewBuckets
    BY DEF IInv, Building
<1>3. \A k \in kfO : k \notin ShortFiles
    BY <1>2, KeyFilesWritten
<1> QED BY <1>1, <1>2, <1>3 DEF IInv, Types, Building, RekeyStates

LEMMA DataAppended ==
    ASSUME IInv, NEW r \in Contents, dfAppend(r)
    PROVE  df' \in dfO' /\ dfO' \subseteq Seq(Contents) /\ \A o \in dfO' : Keeps(o)
<1>1. records \in Nat /\ df \in Seq(Contents) /\ Keeps(df) /\ \A o \in dfO : Keeps(o)
    BY RecordsNumber DEF IInv, Types, Data
<1>2. "torn" \in Contents
    BY DEF Contents
<1>3. df' = Append(df, r) /\ dfO' = dfO \cup {df', Append(df, "torn")}
    BY DEF dfAppend
<1>4. \A w \in Contents : Append(df, w) \in Seq(Contents) /\ Keeps(Append(df, w))
    BY <1>1, OriginalKept
<1> QED BY <1>1, <1>2, <1>3, <1>4 DEF IInv, Types

LEMMA BucketPut ==
    ASSUME IInv, pc = "build", next <= NewBuckets, NEW v \in {"built", "torn"}, kfPut(next, v)
    PROVE  /\ kf' \in kfO' /\ kfO' \subseteq KeyFiles /\ next \in 1 .. NewBuckets
           /\ \A k \in kfO' : k.h = "block" /\ Len(k.b) = NewBuckets /\ k \notin ShortFiles
           /\ kf'.b[next] = v /\ \A i \in 1 .. NewBuckets : i # next => kf'.b[i] = kf.b[i]
<1>1. /\ kf \in kfO /\ kfO \subseteq KeyFiles /\ NewBuckets \in Nat /\ next \in Nat \ {0}
      /\ \A k \in kfO : k.h = "block" /\ Len(k.b) = NewBuckets
    BY BuildFacts
<1>2. next \in 1 .. NewBuckets
    BY <1>1, SMT
<1>3. v \in Blocks /\ "torn" \in Blocks
    BY DEF Blocks
<1>4. ASSUME NEW k \in kfO, NEW w \in Blocks
      PROVE  /\ PutBlock(k, next, w) \in KeyFiles /\ PutBlock(k, next, w).h = "block"
             /\ Len(PutBlock(k, next, w).b) = NewBuckets /\ PutBlock(k, next, w).b[next] = w
             /\ \A i \in 1 .. NewBuckets : i # next => PutBlock(k, next, w).b[i] = k.b[i]
    <2>1. k \in KeyFiles /\ k.h = "block" /\ Len(k.b) = NewBuckets /\ next \in 1 .. Len(k.b)
        BY <1>1, <1>2
    <2>2. /\ PutBlock(k, next, w) \in KeyFiles /\ PutBlock(k, next, w).h = k.h
          /\ Len(PutBlock(k, next, w).b) = Len(k.b) /\ PutBlock(k, next, w).b[next] = w
          /\ \A i \in 1 .. Len(k.b) : i # next => PutBlock(k, next, w).b[i] = k.b[i]
        BY <2>1, BlockPut
    <2> QED BY <2>1, <2>2
<1>5. /\ kf' = PutBlock(kf, next, v)
      /\ \A k : k \in kfO' <=>
           k \in kfO \/ \E o \in kfO, w \in {v, "torn"} : k = PutBlock(o, next, w)
    BY SMT DEF kfPut
<1>6. \A k \in kfO' : k \in KeyFiles /\ k.h = "block" /\ Len(k.b) = NewBuckets
    <2> SUFFICES ASSUME NEW k \in kfO', k \notin kfO
                 PROVE  k \in KeyFiles /\ k.h = "block" /\ Len(k.b) = NewBuckets
        BY <1>1
    <2>1. PICK o \in kfO, w \in {v, "torn"} : k = PutBlock(o, next, w)
        BY <1>5
    <2>2. w \in Blocks
        BY <1>3
    <2> QED BY <1>4, <2>1, <2>2
<1>7. kf' \in kfO'
    BY <1>1, <1>5
<1>8. \A k \in kfO' : k \notin ShortFiles
    BY <1>6, KeyFilesWritten
<1>9. kf'.b[next] = v /\ \A i \in 1 .. NewBuckets : i # next => kf'.b[i] = kf.b[i]
    <2>1. kf \in kfO /\ v \in Blocks /\ kf' = PutBlock(kf, next, v)
        BY <1>1, <1>3, <1>5
    <2> QED BY <1>4, <2>1
<1> QED BY <1>2, <1>6, <1>7, <1>8, <1>9

\* u is s, of length l, followed by t, of length m; or by the element c.
IsJoin(u, s, l, t, m) ==
    /\ u \in Seq(Contents) /\ Len(u) = l + m
    /\ \A i \in 1 .. (l + m) : u[i] = IF i <= l THEN s[i] ELSE t[i - l]
IsAppended(u, s, l, c) ==
    /\ u \in Seq(Contents) /\ Len(u) = l + 1
    /\ \A i \in 1 .. l : u[i] = s[i]
    /\ u[l + 1] = c

LEMMA Joined ==
    ASSUME NEW s \in Seq(Contents), NEW t \in Seq(Contents)
    PROVE  Len(s) \in Nat /\ IsJoin(s \o t, s, Len(s), t, Len(t))
    BY SMT DEF IsJoin

LEMMA Appended ==
    ASSUME NEW s \in Seq(Contents), NEW c \in Contents
    PROVE  IsAppended(Append(s, c), s, Len(s), c)
    BY SMT DEF IsAppended

\* Data files that agree at every position are the same.
LEMMA SamePositions ==
    ASSUME NEW s \in Seq(Contents), NEW t \in Seq(Contents), NEW n \in Nat,
           Len(s) = n, Len(t) = n, \A i \in 1 .. n : s[i] = t[i]
    PROVE  s = t
    BY SMT

\* One more copy of c at the end.
LEMMA OneMoreCopy ==
    ASSUME NEW s \in Seq(Contents), NEW n \in Nat, NEW c \in Contents
    PROVE  Append(s \o [i \in 1 .. n |-> c], c) = s \o [i \in 1 .. (n + 1) |-> c]
<1> DEFINE a == [i \in 1 .. n |-> c]
           b == [i \in 1 .. (n + 1) |-> c]
<1> HIDE DEF Contents
<1>1. a \in Seq(Contents) /\ Len(a) = n /\ \A i \in 1 .. n : a[i] = c
    BY SMT
<1>2. b \in Seq(Contents) /\ Len(b) = n + 1 /\ \A i \in 1 .. (n + 1) : b[i] = c
    BY SMT
<1> HIDE DEF a, b
<1>3. PICK l \in Nat : l = Len(s)
    BY Joined
<1>4. PICK sa : sa = s \o a
    OBVIOUS
<1>5. PICK sb : sb = s \o b
    OBVIOUS
<1>6. PICK sc : sc = Append(sa, c)
    OBVIOUS
<1>7. IsJoin(sa, s, l, a, n) /\ IsJoin(sb, s, l, b, n + 1)
    BY <1>1, <1>2, <1>3, <1>4, <1>5, Joined
<1>8. sa \in Seq(Contents) /\ Len(sa) = l + n /\ sb \in Seq(Contents) /\ Len(sb) = l + (n + 1)
    BY <1>7 DEF IsJoin
<1>9. IsAppended(sc, sa, l + n, c)
    BY <1>6, <1>8, Appended
<1>10. ASSUME NEW i \in 1 .. (l + (n + 1)) PROVE sc[i] = sb[i]
    <2>1. sb[i] = IF i <= l THEN s[i] ELSE b[i - l]
        BY <1>7 DEF IsJoin
    <2>2. CASE i <= l
        <3>1. i \in 1 .. (l + n)
            BY <2>2, SMT
        <3>2. sc[i] = sa[i] /\ sa[i] = s[i]
            BY <1>7, <1>9, <2>2, <3>1 DEF IsJoin, IsAppended
        <3> QED BY <2>1, <2>2, <3>2
    <2>3. CASE ~(i <= l) /\ i <= l + n
        <3>1. i \in 1 .. (l + n) /\ i - l \in 1 .. n /\ i - l \in 1 .. (n + 1)
            BY <2>3, SMT
        <3>2. sc[i] = sa[i] /\ sa[i] = a[i - l]
            BY <1>7, <1>9, <2>3, <3>1 DEF IsJoin, IsAppended
        <3> QED BY <1>1, <1>2, <2>1, <2>3, <3>1, <3>2
    <2>4. CASE ~(i <= l + n)
        <3>1. i = (l + n) + 1 /\ ~(i <= l) /\ i - l \in 1 .. (n + 1)
            BY <2>4, SMT
        <3>2. sc[i] = c
            BY <1>9, <3>1 DEF IsAppended
        <3> QED BY <1>2, <2>1, <3>1, <3>2
    <2> QED BY <2>2, <2>3, <2>4
<1>11. l + (n + 1) \in Nat /\ l + (n + 1) = (l + n) + 1
    BY SMT
<1>12. sc \in Seq(Contents) /\ Len(sc) = l + (n + 1)
    BY <1>9, <1>11 DEF IsAppended
<1>13. sc = sb
    BY <1>8, <1>10, <1>11, <1>12, SamePositions
<1> QED BY <1>4, <1>5, <1>6, <1>13 DEF a, b

LEMMA AppendSpillIInv == ASSUME IInv, AppendSpill, Apart PROVE IInv'
<1>1. /\ pc = "build" /\ pc' = "build" /\ records > 0 /\ dfAppend("spill") /\ spills' = spills + 1
      /\ df' = Append(df, "spill") /\ UNCHANGED <<kx, kf, kfO, lx, lg, lgO, size, next>>
      /\ UNCHANGED <<records, dx, dh, dhO>>
    BY DEF AppendSpill, dfAppend, keyfile, log, Apart, createVars, header
<1>2. /\ dx /\ dh = "whole" /\ kx /\ lx /\ size = records /\ lgO = {"header"} /\ kf \in kfO
      /\ \A k \in kfO : k.h = "block" /\ Len(k.b) = NewBuckets /\ k \notin ShortFiles
      /\ next <= NewBuckets + 1 /\ \A i \in 1 .. NewBuckets : i < next => kf.b[i] = "built"
      /\ df = Spilled /\ records \in Nat
    BY <1>1, BuildFacts
<1>3. df' \in dfO' /\ dfO' \subseteq Seq(Contents) /\ \A o \in dfO' : Keeps(o)
    BY <1>1, DataAppended DEF Contents
<1>4. spills \in Nat /\ spills' \in Nat
    BY <1>1, SMT DEF IInv, Types
<1>5. Types'
    BY <1>1, <1>3, <1>4, TypesStep DEF IInv, Types, RekeyStates
<1>6. Data'
    <2>1. records # 0
        BY <1>1, RecordsNumber DEF IInv
    <2> QED BY <1>1, <1>3, <2>1, DataStep DEF IInv, Types, CreateStates, Creating
<1>7. Disk'
    BY <1>1, <1>2, LoggedStep
<1>8. df' = Spilled'
    <2>1. Original' = Original /\ Original \in Seq(Contents)
        BY <1>1, <1>2, ValuesFixed, OriginalKept
    <2>2. Append(Original \o [i \in 1 .. spills |-> "spill"], "spill")
            = Original \o [i \in 1 .. (spills + 1) |-> "spill"]
        BY <1>4, <2>1, OneMoreCopy DEF Contents
    <2> QED BY <1>1, <1>2, <2>1, <2>2 DEF Spilled
<1>9. Building'
    BY <1>1, <1>2, <1>8, ValuesFixed DEF Building
<1> QED BY <1>1, <1>5, <1>6, <1>7, <1>9, Elsewhere DEF IInv, RekeyStates

LEMMA WriteBucketsIInv == ASSUME IInv, WriteBuckets, Apart PROVE IInv'
<1>1. /\ pc = "build" /\ pc' = "build" /\ next <= NewBuckets /\ kfPut(next, "built")
      /\ next' = next + 1 /\ UNCHANGED <<df, dfO, kx, lx, lg, lgO, size, spills>>
    BY DEF WriteBuckets, data, log
<1>2. /\ dx /\ dh = "whole" /\ kx /\ lx /\ size = records /\ lgO = {"header"}
      /\ \A i \in 1 .. NewBuckets : i < next => kf.b[i] = "built"
      /\ df = Spilled /\ records \in Nat /\ NewBuckets \in Nat /\ next \in Nat \ {0}
    BY <1>1, BuildFacts
<1>3. /\ kf' \in kfO' /\ kfO' \subseteq KeyFiles /\ next \in 1 .. NewBuckets
      /\ \A k \in kfO' : k.h = "block" /\ Len(k.b) = NewBuckets /\ k \notin ShortFiles
      /\ kf'.b[next] = "built" /\ \A i \in 1 .. NewBuckets : i # next => kf'.b[i] = kf.b[i]
    BY <1>1, BucketPut
<1>4. /\ next' \in Nat \ {0} /\ next' <= NewBuckets + 1 /\ NewBuckets # 0
      /\ \A i \in 1 .. NewBuckets : i < next' => i = next \/ i < next
    BY <1>1, <1>2, <1>3, SMT
<1>5. records # 0
    BY <1>2, <1>4, BlankWritten
<1>6. Types' /\ Data' /\ Made' /\ UNCHANGED <<records, dx, dh, dhO>> /\ (Undone => Undone')
    BY <1>1, <1>3, <1>4, <1>5, KeyStep DEF RekeyStates, IInv, Types
<1>7. Disk'
    BY <1>1, <1>2, <1>3, <1>6, LoggedStep
<1>8. \A i \in 1 .. NewBuckets : i < next' => kf'.b[i] = "built"
    BY <1>2, <1>3, <1>4
<1>9. Spilled' = Spilled
    BY <1>1, <1>6, ValuesFixed DEF Spilled
<1>10. Building'
    BY <1>1, <1>2, <1>3, <1>4, <1>6, <1>8, <1>9, ValuesFixed DEF Building
<1> QED BY <1>1, <1>6, <1>7, <1>10, Elsewhere DEF IInv, RekeyStates

LEMMA LogEraseIInv == ASSUME IInv, LogErase, Apart PROVE IInv'
<1>1. /\ pc = "build" /\ pc' = "done" /\ next > NewBuckets /\ lx' = FALSE
      /\ UNCHANGED <<df, kx, kf, lg, lgO, size, spills, next, records, dx, dh, dhO>>
      /\ IF LateLoss THEN UNCHANGED <<dfO, kfO>> ELSE dfO' = {df} /\ kfO' = {kf}
    BY DEF LogErase, Apart, createVars, header
<1>2. /\ kx /\ kf \in kfO /\ kfO \subseteq KeyFiles /\ next \in Nat \ {0} /\ NewBuckets \in Nat
      /\ \A k \in kfO : k.h = "block" /\ Len(k.b) = NewBuckets /\ k \notin ShortFiles
      /\ \A i \in 1 .. NewBuckets : i < next => kf.b[i] = "built"
      /\ df = Spilled
    BY <1>1, BuildFacts
<1>3. dfO' \subseteq dfO /\ kfO' \subseteq kfO /\ df' \in dfO' /\ kf' \in kfO'
    BY <1>1 DEF IInv, Types
<1>4. Types'
    BY <1>1, <1>3, TypesStep DEF IInv, Types, RekeyStates
<1>5. Data'
    <2>1. records = 0 => dfO' = dfO /\ spills' = 0
        BY <1>1, <1>3 DEF IInv, Data, Undone
    <2>2. \A o \in dfO' : Keeps(o)
        BY <1>3 DEF IInv, Data
    <2> QED BY <1>1, <1>3, <2>1, <2>2, DataStep DEF IInv, Types, CreateStates, Creating
<1>6. records > 0 => kf = AllBuilt(Buckets)
    <2>1. records > 0 => NewBuckets = Buckets
        BY RecordsNumber DEF IInv, NewBuckets
    <2>2. \A i \in 1 .. NewBuckets : i < next
        BY <1>1, <1>2, SMT
    <2>3. kf.b = [i \in 1 .. NewBuckets |-> "built"] /\ kf = [h |-> "block", b |-> kf.b]
        <3>1. kf = [h |-> kf.h, b |-> kf.b] /\ kf.b \in Seq(Blocks)
            BY <1>2, SMT DEF KeyFiles
        <3>2. \A i \in 1 .. NewBuckets : kf.b[i] = "built"
            BY <1>2, <2>2
        <3>3. kf.b = [i \in 1 .. Len(kf.b) |-> kf.b[i]]
            BY <3>1, SMT
        <3> QED BY <1>2, <3>1, <3>2, <3>3
    <2> QED BY <2>1, <2>3 DEF AllBuilt
<1>7. records' > 0 => Done'
    <2>1. Spilled' = Spilled
        BY <1>1, ValuesFixed DEF Spilled
    <2> QED BY <1>1, <1>2, <1>3, <1>6, <2>1 DEF Done
<1>8. Disk'
    <2>1. \A k \in kfO' : k \notin ShortFiles
        BY <1>2, <1>3
    <2> QED BY <1>1, <1>2, <1>3, <1>7, <2>1 DEF Disk
<1> QED BY <1>1, <1>4, <1>5, <1>8, Elsewhere DEF IInv, RekeyStates

-----------------------------------------------------------------------------
(* recover and open *)

\* Their steps, but for those that truncate the data file: no step writes to the
\* key file.
LEMMA OpenStep ==
    ASSUME IInv, Apart, UNCHANGED <<df, dfO, kf, kfO, size, spills, next>>,
           pc' \in OpenStates \cup {"down"}, kx' \in BOOLEAN, lx' \in BOOLEAN,
           lg' \in lgO', lgO' \subseteq {"empty", "header"}
    PROVE  /\ Types' /\ Data' /\ Made' /\ Building' /\ UNCHANGED <<records, dx, dh, dhO>>
           /\ (Undone => Undone') /\ (Started => Started') /\ Spilled' = Spilled
<1>1. Types' /\ Data' /\ Made' /\ UNCHANGED <<records, dx, dh, dhO>> /\ (Undone => Undone')
    BY KeyStep DEF IInv, Types
<1>2. Spilled' = Spilled
    BY <1>1, ValuesFixed DEF Spilled
<1> QED BY <1>1, <1>2, Elsewhere DEF Started

LEMMA RecoverBeginIInv == ASSUME IInv, RecoverBegin, Apart PROVE IInv'
<1>1. /\ dx /\ dh = "whole" /\ kx
      /\ pc' = IF kf.h \in {"none", "short"} THEN "s_log"
               ELSE IF ~lx THEN "recovered"
               ELSE IF lg = "empty" THEN "r_clear" ELSE "r_dftrunc"
      /\ UNCHANGED <<df, dfO, kx, kf, kfO, lx, lg, lgO, size, spills, next>>
    BY DEF RecoverBegin, data, keyfile, log
<1>2. pc' \in {"s_log", "recovered", "r_clear", "r_dftrunc"}
    BY <1>1
<1>3. /\ kx \in BOOLEAN /\ lx \in BOOLEAN /\ lg \in lgO /\ lgO \subseteq {"empty", "header"}
      /\ df \in dfO /\ kf \in kfO
    BY DEF IInv, Types
<1>4. /\ Types' /\ Data' /\ Made' /\ Building' /\ UNCHANGED <<records, dx, dh, dhO>>
      /\ Spilled' = Spilled
    BY <1>1, <1>2, <1>3, OpenStep DEF OpenStates, ShortStates, TruncStates, ClearStates
<1>5. Disk'
    BY <1>1, <1>3, <1>4, Shrinks DEF IInv
<1>6. pc' = "s_log" => kf \in ShortFiles
    BY <1>1, <1>3 DEF IInv, Types
<1>7. pc' = "r_dftrunc" => lx /\ lg = "header"
    BY <1>1, <1>3
<1>8. pc' \in {"recovered", "r_clear"} /\ records > 0 => Done'
    <2>1. pc' \in {"recovered", "r_clear"} => kf \notin ShortFiles /\ (lx => "empty" \in lgO)
        BY <1>1, <1>3, KeyFilesWritten
    <2>2. pc' \in {"recovered", "r_clear"} /\ records > 0 => Done
        BY <1>1, <1>3, <2>1 DEF IInv, Disk, Started
    <2> QED BY <1>1, <1>4, <2>2 DEF Done
<1>9. Opening'
    BY <1>1, <1>2, <1>4, <1>6, <1>7, <1>8 DEF Opening, OpenStates, ShortStates, TruncStates,
       ClearStates
<1> QED BY <1>4, <1>5, <1>9 DEF IInv

LEMMA ShortEraseLogIInv == ASSUME IInv, ShortEraseLog, Apart PROVE IInv'
<1>1. /\ pc = "s_log" /\ lx' = FALSE /\ pc' = "s_key"
      /\ UNCHANGED <<df, dfO, kx, kf, kfO, lg, lgO, size, spills, next>>
    BY DEF ShortEraseLog, data, keyfile
<1>2. dx /\ dh = "whole" /\ kf \in ShortFiles /\ kf \in kfO
    BY <1>1 DEF IInv, Types, Opening, OpenStates, ShortStates
<1>3. /\ Types' /\ Data' /\ Made' /\ Building' /\ UNCHANGED <<records, dx, dh, dhO>>
      /\ (Undone => Undone') /\ (Started => Started')
    BY <1>1, OpenStep DEF IInv, Types, OpenStates, ShortStates
<1>4. Disk'
    <2>1. CASE kx
        BY <1>1, <1>2, <1>3, <2>1, StartedStep DEF IInv, Disk, Started
    <2>2. CASE ~kx
        BY <1>1, <1>3, <2>2, ErasedStep DEF IInv, Disk
    <2> QED BY <2>1, <2>2
<1>5. Opening'
    BY <1>1, <1>2, <1>3 DEF Opening, TruncStates, ClearStates
<1> QED BY <1>3, <1>4, <1>5 DEF IInv

LEMMA ShortEraseKeyIInv == ASSUME IInv, ShortEraseKey, Apart PROVE IInv'
<1>1. /\ pc = "s_key" /\ kx' = FALSE /\ pc' = "down"
      /\ UNCHANGED <<df, dfO, kf, kfO, lx, lg, lgO, size, spills, next>>
    BY DEF ShortEraseKey, data, log
<1>2. kf \in ShortFiles /\ kf \in kfO
    BY <1>1 DEF IInv, Types, Opening, ShortStates
<1>3. /\ Types' /\ Data' /\ Made' /\ Building' /\ UNCHANGED <<records, dx, dh, dhO>>
      /\ (Undone => Undone')
    BY <1>1, OpenStep DEF IInv, Types
<1>4. Undone /\ (lx /\ "header" \in lgO => size = records)
    BY <1>2 DEF IInv, Disk
<1>5. Disk'
    BY <1>1, <1>3, <1>4, ErasedStep
<1> QED BY <1>1, <1>3, <1>5, Elsewhere DEF IInv

LEMMA DataTruncIInv == ASSUME IInv, DataTrunc, Apart PROVE IInv'
<1>1. /\ pc = "r_dftrunc" /\ df' = SubSeq(df, 1, size)
      /\ dfO' = dfO \cup {SubSeq(o, 1, size) : o \in dfO} /\ pc' = "r_dfsync"
      /\ UNCHANGED <<kx, kf, kfO, lx, lg, lgO, size, spills, next, records, dx, dh, dhO>>
    BY DEF DataTrunc, keyfile, log, Apart, createVars, header
<1>2. dx /\ dh = "whole" /\ lx /\ lg = "header" /\ "header" \in lgO
    BY <1>1 DEF IInv, Types, Opening, OpenStates, TruncStates
<1>3. size = records /\ records \in Nat /\ df \in dfO /\ dfO \subseteq Seq(Contents)
    BY <1>2, RecordsNumber DEF IInv, Types, Disk
<1>4. Keeps(Original) /\ Original \in Seq(Contents) /\ \A o \in dfO : SubSeq(o, 1, size) = Original
    BY <1>3, OriginalKept DEF IInv, Data
<1>5. df' = Original /\ dfO' = dfO \cup {Original}
    BY <1>1, <1>3, <1>4
<1>6. (Undone => Undone') /\ (Started => Started')
    BY <1>1, <1>5, ValuesFixed DEF Undone, Started
<1>7. Types'
    BY <1>1, <1>3, <1>4, <1>5, TypesStep DEF IInv, Types, OpenStates, TruncStates
<1>8. Data'
    <2>1. \A o \in dfO' : Keeps(o)
        BY <1>4, <1>5 DEF IInv, Data
    <2>2. records = 0 => dfO' = dfO /\ spills' = 0
        BY <1>1, <1>5 DEF IInv, Data, Undone
    <2> QED BY <1>1, <2>1, <2>2, DataStep DEF IInv, Types, CreateStates, Creating
<1>9. Disk'
    <2>1. lgO # {"empty"}
        BY <1>2, SMT
    <2>2. ~Done
        BY <1>2, <2>1 DEF Done
    <2> QED BY <1>1, <1>6, <2>2 DEF IInv, Disk
<1>10. Opening'
    BY <1>1, <1>2, <1>5, ValuesFixed DEF Opening, ShortStates, ClearStates
<1> QED BY <1>1, <1>7, <1>8, <1>9, <1>10, Elsewhere DEF IInv, OpenStates, TruncStates

LEMMA DataSyncIInv == ASSUME IInv, DataSync, Apart PROVE IInv'
<1>1. /\ pc = "r_dfsync" /\ dfO' = {df} /\ pc' = "r_key"
      /\ UNCHANGED <<df, kx, kf, kfO, lx, lg, lgO, size, spills, next, records, dx, dh, dhO>>
    BY DEF DataSync, keyfile, log, Apart, createVars, header
<1>2. dx /\ dh = "whole" /\ lx /\ lg = "header" /\ df = Original /\ df \in dfO
    BY <1>1 DEF IInv, Types, Opening, OpenStates, TruncStates
<1>3. Undone'
    BY <1>1, <1>2, ValuesFixed DEF Undone
<1>4. Types'
    BY <1>1, <1>2, TypesStep DEF IInv, Types, OpenStates, TruncStates
<1>5. Data'
    BY <1>1, <1>2, DataStep DEF IInv, Types, Data, Undone, CreateStates, Creating
<1>6. Disk'
    BY <1>1, <1>2, Shrinks DEF IInv, Types
<1>7. Opening'
    BY <1>1, <1>2, <1>3 DEF Opening, ShortStates, ClearStates
<1> QED BY <1>1, <1>4, <1>5, <1>6, <1>7, Elsewhere DEF IInv, OpenStates, TruncStates

LEMMA KeyEraseIInv == ASSUME IInv, KeyErase, Apart PROVE IInv'
<1>1. /\ pc = "r_key" /\ kx' = FALSE /\ pc' = "r_clear"
      /\ UNCHANGED <<df, dfO, kf, kfO, lx, lg, lgO, size, spills, next>>
    BY DEF KeyErase, data, log
<1>2. dx /\ dh = "whole" /\ Undone /\ (lx /\ "header" \in lgO => size = records)
    BY <1>1 DEF IInv, Opening, Disk, OpenStates, TruncStates
<1>3. /\ Types' /\ Data' /\ Made' /\ Building' /\ UNCHANGED <<records, dx, dh, dhO>>
      /\ (Undone => Undone')
    BY <1>1, OpenStep DEF IInv, Types, OpenStates, ClearStates
<1>4. Disk'
    BY <1>1, <1>2, <1>3, ErasedStep
<1>5. Opening'
    BY <1>1, <1>2, <1>3 DEF Opening, ShortStates, TruncStates
<1> QED BY <1>3, <1>4, <1>5 DEF IInv

\* With values, recover clears the log file of a completed rekey, or when there
\* is no key file any more.
LEMMA ClearStep ==
    ASSUME IInv, Apart, pc \in ClearStates, pc' \in ClearStates \cup {"down"},
           UNCHANGED <<df, dfO, kx, kf, kfO, size, spills, next>>,
           lx' \in BOOLEAN, lg' \in lgO', lgO' \subseteq {"empty", "header"},
           lx' => (lx /\ lgO' \subseteq lgO \cup {"empty"}) \/ lgO' = {"empty"}
    PROVE  IInv'
<1>1. /\ Types' /\ Data' /\ Made' /\ Building' /\ UNCHANGED <<records, dx, dh, dhO>>
      /\ (Undone => Undone') /\ Spilled' = Spilled
    BY OpenStep DEF IInv, Types, OpenStates
<1>2. lgO' # {}
    OBVIOUS
<1>3. Done => Done'
    <2>1. (lx => lgO = {"empty"}) => (lx' => lgO' = {"empty"})
        BY <1>2
    <2> QED BY <1>1, <2>1 DEF Done
<1>4. records > 0 => ~kx \/ Done
    BY DEF IInv, Opening
<1>5. lx' /\ "header" \in lgO' => size' = records'
    BY <1>1 DEF IInv, Disk
<1>6. /\ ~kx => Undone
      /\ kx /\ (\E k \in kfO : k \in ShortFiles) => Undone
      /\ kx /\ kf \in ShortFiles => kfO \subseteq ShortFiles
    BY DEF IInv, Disk
<1>7. Disk'
    BY <1>1, <1>3, <1>4, <1>5, <1>6 DEF Disk
<1>8. dx /\ dh = "whole"
    BY DEF IInv, Opening, OpenStates
<1>9. Opening'
    BY <1>1, <1>3, <1>4, <1>8 DEF Opening, OpenStates, ShortStates, TruncStates, ClearStates
<1> QED BY <1>1, <1>7, <1>9 DEF IInv

LEMMA ClearLogIInv ==
    ASSUME IInv, ClearLog \/ SyncClearLog \/ EraseLog, Apart PROVE IInv'
<1>1. lx \in BOOLEAN /\ lg \in lgO /\ lgO \subseteq {"empty", "header"}
    BY DEF IInv, Types
<1>2. CASE ClearLog
    <2>1. /\ pc \in ClearStates /\ pc' \in ClearStates /\ lg' = "empty"
          /\ lgO' = lgO \cup {"empty"}
          /\ UNCHANGED <<df, dfO, kx, kf, kfO, lx, size, spills, next>>
        BY <1>2 DEF ClearLog, ClearStates, data, keyfile
    <2> QED BY <1>1, <2>1, ClearStep
<1>3. CASE SyncClearLog
    <2>1. /\ pc \in ClearStates /\ pc' \in ClearStates /\ lgO' = {lg}
          /\ UNCHANGED <<df, dfO, kx, kf, kfO, lx, lg, size, spills, next>>
        BY <1>3 DEF SyncClearLog, ClearStates, data, keyfile
    <2> QED BY <1>1, <2>1, ClearStep
<1>4. CASE EraseLog
    <2>1. /\ pc \in ClearStates /\ pc' \in ClearStates /\ lx' = FALSE
          /\ UNCHANGED <<df, dfO, kx, kf, kfO, lg, lgO, size, spills, next>>
        BY <1>4 DEF EraseLog, ClearStates, data, keyfile
    <2> QED BY <1>1, <2>1, ClearStep
<1> QED BY <1>2, <1>3, <1>4

LEMMA OpenKeyFileIInv == ASSUME IInv, OpenKeyFile, Apart PROVE IInv'
<1>1. pc = "recovered" /\ UNCHANGED <<df, dfO, kx, kf, kfO, size, spills, next>>
    BY DEF OpenKeyFile, data, keyfile
<1>2. /\ lx \in BOOLEAN /\ lg \in lgO /\ lgO \subseteq {"empty", "header"}
      /\ kf \in kfO /\ df \in dfO /\ dh \in dhO
    BY DEF IInv, Types
<1>3. CASE pc' = "down"
    <2>1. CASE ~kx
        <3>1. UNCHANGED <<lx, lg, lgO>>
            BY <2>1 DEF OpenKeyFile, log
        <3> QED BY <1>1, <1>2, <1>3, <3>1, ClearStep DEF ClearStates
    <2>2. CASE kx
        <3>1. lx' = TRUE /\ lg' = "empty" /\ lgO' = {"empty"}
            BY <2>2 DEF OpenKeyFile
        <3> QED BY <1>1, <1>2, <1>3, <3>1, ClearStep DEF ClearStates
    <2> QED BY <2>1, <2>2
<1>4. CASE pc' # "down"
    <2>1. /\ kx /\ lx' = TRUE /\ lg' = "empty" /\ lgO' = {"empty"} /\ pc' = "opened"
          /\ kf.h = "block" /\ kf.b # <<>>
        BY <1>4 DEF OpenKeyFile
    <2>2. /\ Types' /\ Data' /\ Made' /\ Building' /\ UNCHANGED <<records, dx, dh, dhO>>
          /\ (Undone => Undone') /\ Spilled' = Spilled
        BY <1>1, <2>1, OpenStep DEF IInv, Types, OpenStates
    <2>3. dx /\ dh = "whole" /\ (records > 0 => Done)
        BY <1>1, <2>1 DEF IInv, Opening, OpenStates, ClearStates
    <2>4. records > 0 => Done'
        BY <1>1, <2>1, <2>2, <2>3 DEF Done
    <2>5. lgO' # {} /\ "header" \notin lgO'
        BY <2>1, SMT
    <2>6. Disk'
        BY <1>1, <2>1, <2>2, <2>4, <2>5 DEF IInv, Disk
    <2>7. ~LateLoss => kf = AllBuilt(IF records = 0 THEN 1 ELSE Buckets) /\ df = Spilled
        <3>1. CASE records = 0
            <4>1. Undone /\ spills = 0 /\ kfO \subseteq EmptyTables
                BY <1>2, <2>3, <3>1 DEF IInv, Data
            <4>2. kf = OneBucket /\ df = Original
                BY <1>2, <2>1, <4>1, KeyFilesWritten DEF Undone
            <4>3. OneBucket = AllBuilt(1)
                <5>1. <<"built">> = [i \in 1 .. 1 |-> "built"]
                    BY SMT
                <5> QED BY <5>1 DEF OneBucket, AllBuilt
            <4>4. Original = <<>> /\ Spilled = <<>>
                <5>1. Original = <<>>
                    BY <3>1, RecordsNumber, OriginalKept DEF IInv
                <5>2. <<>> \o [i \in 1 .. 0 |-> "spill"] = <<>>
                    BY SMT
                <5> QED BY <4>1, <5>1, <5>2 DEF Spilled
            <4> QED BY <3>1, <4>2, <4>3, <4>4
        <3>2. CASE records # 0
            <4>1. Done
                BY <2>3, <3>2, RecordsNumber DEF IInv
            <4> QED BY <1>2, <3>2, <4>1 DEF Done
        <3> QED BY <3>1, <3>2
    <2>8. ~LateLoss => Whole'
        <3>1. ~LateLoss => df' = Spilled'
            BY <1>1, <2>2, <2>7
        <3>2. ~LateLoss => kf' = AllBuilt(IF records' = 0 THEN 1 ELSE Buckets)
            BY <1>1, <2>2, <2>7
        <3> QED BY <2>2, <2>3, <3>1, <3>2 DEF Whole, Spilled, AllBuilt
    <2>9. Opening'
        BY <2>1, <2>2, <2>3, <2>8 DEF Opening, ShortStates, TruncStates, ClearStates
    <2> QED BY <2>2, <2>6, <2>9 DEF IInv
<1> QED BY <1>3, <1>4

-----------------------------------------------------------------------------
(* Interruptions *)

LEMMA KillIInv == ASSUME IInv, Kill PROVE IInv'
<1>1. /\ pc' = "down" /\ UNCHANGED <<records, dx, dh, dhO, kx, lx, lg, lgO, size, spills, next>>
    BY DEF Kill, header, log
<1>2. /\ kf \in kfO /\ df \in dfO /\ lg \in lgO /\ dh \in dhO
      /\ \A o \in dfO : Keeps(o)
    BY DEF IInv, Types, Data
<1>3. CASE UNCHANGED <<df, dfO, kf, kfO>>
    <2>1. Types'
        BY <1>1, <1>3, TypesStep DEF IInv, Types
    <2>2. Data'
        BY <1>1, <1>2, <1>3, DataStep DEF IInv, Data, CreateStates, Creating
    <2>3. Disk'
        BY <1>1, <1>2, <1>3, Shrinks DEF IInv
    <2> QED BY <1>1, <2>1, <2>2, <2>3, Elsewhere DEF IInv
<1>4. CASE pc = "build" /\ records > 0 /\ dfAppend("torn") /\ UNCHANGED <<kf, kfO>>
    <2>1. /\ kx /\ lx /\ size = records /\ lgO = {"header"} /\ records # 0
          /\ \A k \in kfO : k \notin ShortFiles
        BY <1>4, BuildFacts, RecordsNumber DEF IInv
    <2>2. df' \in dfO' /\ dfO' \subseteq Seq(Contents) /\ \A o \in dfO' : Keeps(o)
        BY <1>4, DataAppended DEF Contents
    <2>3. Types'
        BY <1>1, <1>4, <2>2, TypesStep DEF IInv, Types
    <2>4. Data'
        BY <1>1, <1>2, <1>4, <2>1, <2>2, DataStep DEF IInv, CreateStates, Creating
    <2>5. Disk'
        BY <1>1, <1>2, <1>4, <2>1, LoggedStep
    <2> QED BY <1>1, <2>3, <2>4, <2>5, Elsewhere DEF IInv
<1>5. CASE pc = "build" /\ next <= NewBuckets /\ kfPut(next, "torn") /\ UNCHANGED <<df, dfO>>
    <2>1. /\ kx /\ lx /\ size = records /\ lgO = {"header"} /\ records \in Nat /\ NewBuckets \in Nat
        BY <1>5, BuildFacts
    <2>2. /\ kf' \in kfO' /\ kfO' \subseteq KeyFiles /\ next \in 1 .. NewBuckets
          /\ \A k \in kfO' : k.h = "block" /\ Len(k.b) = NewBuckets /\ k \notin ShortFiles
        BY <1>5, BucketPut
    <2>3. records # 0
        <3>1. NewBuckets # 0
            BY <2>1, <2>2, SMT
        <3> QED BY <2>1, <3>1, BlankWritten
    <2>4. Types'
        <3>1. \A k \in kfO' : k.h \in {"none", "short"} => k \in ShortFiles
            BY <2>2
        <3> QED BY <1>1, <1>5, <2>2, <3>1, TypesStep DEF IInv, Types
    <2>5. Data'
        BY <1>1, <1>2, <1>5, <2>3, DataStep DEF IInv, CreateStates, Creating
    <2>6. Disk'
        BY <1>1, <2>1, <2>2, LoggedStep
    <2> QED BY <1>1, <2>4, <2>5, <2>6, Elsewhere DEF IInv
<1> QED BY <1>3, <1>4, <1>5 DEF Kill, data

LEMMA PowerLossIInv == ASSUME IInv, PowerLoss PROVE IInv'
<1>1. /\ pc' = "down" /\ dh' \in dhO /\ dhO' = {dh'} /\ df' \in dfO /\ dfO' = {df'}
      /\ kf' \in kfO /\ kfO' = {kf'} /\ lg' \in lgO /\ lgO' = {lg'}
      /\ UNCHANGED <<records, dx, kx, lx, size, spills, next>>
    BY DEF PowerLoss
<1>2. /\ dhO' \subseteq dhO /\ dhO' # {} /\ dfO' \subseteq dfO /\ dfO' # {}
      /\ kfO' \subseteq kfO /\ kfO' # {} /\ lgO' \subseteq lgO /\ lgO' # {}
    BY <1>1
<1>3. Types'
    BY <1>1, <1>2 DEF IInv, Types
<1>4. Data'
    <2>1. records = 0 => dfO' = dfO /\ spills' = 0
        BY <1>1, <1>2 DEF IInv, Data, Undone
    <2>2. \A o \in dfO' : Keeps(o)
        BY <1>2 DEF IInv, Data
    <2> QED BY <1>1, <1>2, <2>1, <2>2, DataStep DEF IInv, CreateStates, Creating
<1>5. Disk'
    BY <1>1, <1>2, Shrinks DEF IInv
<1> QED BY <1>1, <1>3, <1>4, <1>5, Elsewhere DEF IInv

LEMMA OpenDoneIInv == ASSUME IInv, OpenDone PROVE IInv'
<1>1. /\ pc' = "down" /\ Apart /\ UNCHANGED <<df, dfO, kf, kfO, kx, lx, lg, lgO, size, spills, next>>
    BY DEF OpenDone, Apart, data, keyfile, log
<1>2. kf \in kfO /\ df \in dfO /\ lg \in lgO
    BY DEF IInv, Types
<1>3. Types' /\ Data' /\ Made' /\ Building' /\ records' = records
    BY <1>1, OpenStep DEF IInv, Types
<1>4. Disk'
    BY <1>1, <1>2, <1>3, Shrinks DEF IInv
<1> QED BY <1>1, <1>3, <1>4, Elsewhere DEF IInv

LEMMA StutterIInv == ASSUME IInv, UNCHANGED vars PROVE IInv'
<1>1. UNCHANGED <<pc, records, df, dfO, kx, kf, kfO, lx, lg, lgO, dx, dh, dhO, made, before,
                  size, spills, next>>
    BY DEF vars, data, keyfile, log, createVars, header
<1>2. Undone' = Undone /\ Spilled' = Spilled
    BY <1>1 DEF Undone, Spilled, Original
<1>3. Started' = Started /\ Done' = Done
    BY <1>1, <1>2 DEF Started, Done
<1>4. Types'
    BY <1>1 DEF IInv, Types
<1>5. Data'
    BY <1>1, <1>2, ValuesFixed DEF IInv, Data
<1>6. Disk'
    BY <1>1, <1>2, <1>3 DEF IInv, Disk
<1>7. Made'
    BY <1>1 DEF IInv, Made, Files
<1>8. Building'
    BY <1>1, <1>2, ValuesFixed DEF IInv, Building
<1>9. Opening'
    <2>1. Whole' = Whole
        BY <1>1 DEF Whole, Original
    <2> QED BY <1>1, <1>2, <1>3, <2>1, ValuesFixed DEF IInv, Opening
<1> QED BY <1>4, <1>5, <1>6, <1>7, <1>8, <1>9 DEF IInv

-----------------------------------------------------------------------------
(* The invariant holds in every behaviour. *)

LEMMA InitIInv == Init => IInv
<1> SUFFICES ASSUME Init PROVE IInv
    OBVIOUS
<1>1. /\ pc = "down" /\ records \in {0, Records} /\ dx = (records > 0)
      /\ dh = (IF dx THEN "whole" ELSE "none") /\ dhO = {dh}
      /\ df = Original /\ dfO = {df}
      /\ kx \in {FALSE, ~dx} /\ kf = (IF kx THEN AllBuilt(Buckets) ELSE NoKeys) /\ kfO = {kf}
      /\ lx \in {FALSE, ~dx} /\ lg = "empty" /\ lgO = {lg}
      /\ size = 0 /\ spills = 0 /\ next = 1
    BY DEF Init
<1>2. records \in Nat /\ (records > 0 <=> records # 0) /\ 0 \in Nat /\ 1 \in Nat \ {0}
    BY <1>1, BoundsAssumption, SMT
<1>3. dx \in BOOLEAN /\ kx \in BOOLEAN /\ lx \in BOOLEAN /\ dh \in {"none", "whole"}
    <2>1. dx \in BOOLEAN
        BY <1>1, SMT
    <2> QED BY <1>1, <2>1
<1>4. AllBuilt(Buckets) \in KeyFiles /\ AllBuilt(Buckets).h = "block"
    <2>1. [i \in 1 .. Buckets |-> "built"] \in Seq(Blocks)
        BY BoundsAssumption, SMT DEF Blocks
    <2> QED BY <2>1, SMT DEF AllBuilt, KeyFiles
<1>5. NoKeys \in KeyFiles /\ NoKeys \in ShortFiles /\ AllBuilt(Buckets) \notin ShortFiles
    BY <1>4, KeyFilesWritten DEF ShortFiles
<1>6. /\ kf \in KeyFiles /\ (kf.h \in {"none", "short"} => kf \in ShortFiles)
      /\ (kx <=> kf \notin ShortFiles)
    <2>1. CASE kx
        BY <1>1, <1>4, <1>5, <2>1
    <2>2. CASE ~kx
        BY <1>1, <1>5, <2>2
    <2> QED BY <2>1, <2>2
<1>7. Undone /\ Original \in Seq(Contents) /\ Keeps(Original)
    BY <1>1, <1>2, OriginalKept DEF Undone
<1>8. Types
    BY <1>1, <1>2, <1>3, <1>6, <1>7 DEF Types
<1>9. Data
    BY <1>1, <1>2, <1>7 DEF Data, CreateStates, Creating
<1>10. Disk
    <2>1. records > 0 => ~kx
        BY <1>1
    <2>2. "header" \notin lgO
        BY <1>1, SMT
    <2> QED BY <1>1, <1>6, <1>7, <2>1, <2>2 DEF Disk
<1>11. Made /\ Building /\ Opening
    BY <1>1 DEF Made, Building, Opening, CreateStates, Creating, RekeyStates, OpenStates,
       ShortStates, TruncStates, ClearStates
<1> QED BY <1>8, <1>9, <1>10, <1>11 DEF IInv

LEMMA NextIInv == IInv /\ [Next]_vars => IInv'
<1> SUFFICES ASSUME IInv, [Next]_vars PROVE IInv'
    OBVIOUS
<1>1. CASE create /\ UNCHANGED <<records, data, size, spills, next>>
    <2>1. Aside
        BY <1>1 DEF Aside
    <2> QED BY <1>1, <2>1, CreateDatIInv, CreateKeyIInv, CreateLogIInv, CreateWriteIInv,
               CreateUndoIInv, CreateReturnsIInv DEF create
<1>2. CASE rekey
    <2>1. Apart
        BY <1>2 DEF rekey, Apart
    <2> QED BY <1>2, <2>1, KeyCreateIInv, KeyHeaderIInv, LogCreateIInv, LogHeaderIInv,
               LogSyncIInv, KeyBlockIInv, KeyExtendIInv, KeySyncIInv, AppendSpillIInv,
               WriteBucketsIInv, LogEraseIInv DEF rekey
<1>3. CASE open
    <2>1. Apart
        BY <1>3 DEF open, Apart
    <2> QED BY <1>3, <2>1, RecoverBeginIInv, ShortEraseLogIInv, ShortEraseKeyIInv,
               DataTruncIInv, DataSyncIInv, KeyEraseIInv, ClearLogIInv, OpenKeyFileIInv
               DEF open
<1> QED BY <1>1, <1>2, <1>3, KillIInv, PowerLossIInv, OpenDoneIInv, StutterIInv DEF Next

\* The inductive invariant, whether or not power may fail late
THEOREM Invariance == Spec => []IInv
<1>1. Init => IInv
    BY InitIInv
<1>2. IInv /\ [Next]_vars => IInv'
    BY NextIInv
<1> QED BY <1>1, <1>2, PTL DEF Spec

\* No create, rekey, recovery or interruption of one loses a value of the data
\* file, on the device either (dfO holds what a power loss may leave of it): rekey
\* only appends, and recover truncates to the size that rekey logged.
THEOREM ValuesStayThm == Spec => []ValuesStay
<1>1. IInv => ValuesStay
    <2> SUFFICES ASSUME IInv PROVE ValuesStay
        OBVIOUS
    <2>1. records \in Nat /\ dfO \subseteq Seq(Contents) /\ \A o \in dfO : Keeps(o)
        BY RecordsNumber DEF IInv, Types, Data
    <2>2. \A o \in dfO : SubSeq(o, 1, records) = Original
        BY <2>1, OriginalKept
    <2>3. \A o \in dfO : Len(o) >= records
        <3> SUFFICES ASSUME NEW o \in dfO PROVE Len(o) >= records
            OBVIOUS
        <3>1. records <= Len(o) /\ o \in Seq(Contents)
            BY <2>1 DEF Keeps
        <3> QED BY <2>1, <3>1, SMT
    <2> QED BY <2>2, <2>3 DEF ValuesStay, IInv, Data
<1> QED BY <1>1, Invariance, PTL

\* As long as power does not fail between the end of a rekey and the system's
\* write-back, open succeeds only on a key file whose buckets were all written and
\* on a data file with all their spill records, whatever had interrupted the
\* rekeys, recoveries and creates before.  Without the assumption it is false:
\* rekey erases its log file and syncs neither file.
THEOREM OpenedIsWholeThm == ASSUME LateLoss = FALSE PROVE Spec => []OpenedIsWhole
<1>1. IInv => OpenedIsWhole
    BY DEF IInv, Opening, OpenedIsWhole
<1> QED BY <1>1, Invariance, PTL

\* When create has failed, the files in place are those that were there before it
\* and those of its own whose erasure failed: it never erases another's file.
THEOREM FailedCreateUndoneThm == Spec => []FailedCreateUndone
<1>1. IInv => FailedCreateUndone
    BY DEF IInv, Made, FailedCreateUndone, CreateStates
<1> QED BY <1>1, Invariance, PTL
=============================================================================
