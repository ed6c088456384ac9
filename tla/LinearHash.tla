------------------------------ MODULE LinearHash ------------------------------
(***************************************************************************)
(* The table NuDB keeps on disk and how a commit changes it: buckets of    *)
(* hash-ordered entries in the key file, overflow ("spill") buckets and    *)
(* values in the data file, one bucket split per so many inserts           *)
(* (nudb/detail/bucket.hpp, nudb/impl/basic_store.ipp).  Also what reads   *)
(* the table: fetch, visit, both verify algorithms, and rekey, which       *)
(* builds it anew.  Everything here runs in one thread; modules Store and  *)
(* CommitLog deal with concurrency and crashes.                            *)
(*                                                                         *)
(* Offsets in the data file are positions in a sequence of records, the    *)
(* size of an entry is left out, and a hash function is any function.      *)
(***************************************************************************)
EXTENDS Hashing, Sequences, FiniteSets

CONSTANTS
    Keys,        \* a set of numbers: the order of the numbers is memcmp's
    Hashes,      \* the values of the hash function
    Headers,     \* what the header of a key file can say of its buckets
    LeastEntries,        \* entries from which on a bucket is as long as the header
                         \* of the key file (6 in the code)
    Unit,        \* what an insert adds to frac_ (65536 in the code)
    WriteBuf,    \* records the bulk_writer of the data file holds
    WordBits,    \* log2 of the word size of ceil_pow2
    HashFunctions,       \* the functions the salts select
    MaxRekeyBuckets,     \* bound: buckets asked of a rekey
    MaxRekeys    \* bound: rekeys in a behaviour

ASSUME ConstantsAssumption ==
    /\ Keys \subseteq Nat \ {0} /\ Hashes \subseteq Nat
    /\ HashFunctions \subseteq [Keys -> Hashes]
    /\ Headers \subseteq [capacity : Nat \ {0}, load_factor : Nat \ {0}]
    /\ {LeastEntries, Unit, WriteBuf, WordBits} \subseteq Nat \ {0}
    /\ MaxRekeyBuckets \in Nat /\ MaxRekeys \in Nat
\* The numbers of buckets, and their ceil_pow2, are numbers of one word.
ASSUME WordAssumption ==
    IsFiniteSet(Keys) /\ 1 + MaxRekeyBuckets + Cardinality(Keys) <= Pow2(Pow2(WordBits) - 1)

VARIABLES
    kh,               \* the header of the key file: capacity and load factor
    hash,             \* the hash function, fixed by the salt of the key file
    kf,               \* key file: kf[n + 1] is bucket n
    df,               \* data file, records still in the bulk_writer included
    flushed,          \* records of df that are in the file
    c0, c1,           \* caches of commit: original and changed buckets
    buckets, modulus, frac,
    batch,            \* commit: pool entries [key, o] still to insert
    opened,           \* the store is open; closed files can be rekeyed
    short,            \* a read went beyond what is in the data file
    rekeys

vars == <<kh, hash, kf, df, flushed, c0, c1, buckets, modulus, frac, batch,
          opened, short, rekeys>>

Thresh == IF Unit > kh.load_factor * kh.capacity THEN Unit ELSE kh.load_factor * kh.capacity

Empty == [e |-> <<>>, s |-> 0]      \* no entries, no spill
Value(k) == [key |-> k, b |-> Empty]
Spill(b) == [key |-> 0, b |-> b]    \* size field zero: a spill record
NoCache == [n \in {} |-> Empty]

\* What entries, buckets, records and the writer of the data file are, for the loops.
Entries == [h : Nat, o : Nat]
Buckets == [e : Seq(Entries), s : Nat]
Records == [key : Nat, b : Buckets]
Writers == [df : Seq(Records), flushed : Nat]

-----------------------------------------------------------------------------
(* bucket_t *)

full(b, capacity) == Len(b.e) >= capacity

\* A round of the binary search, between s[1] and s[1] + s[2].
SearchRound(s, b, h) ==
    LET step == s[2] \div 2
    IN  IF s[2] = 0 THEN s
        ELSE IF b.e[s[1] + step + 1].h < h THEN <<s[1] + step + 1, s[2] - (step + 1)>>
        ELSE <<s[1], step>>

\* Number of entries below h, found by binary search as the code does.
lower_bound(b, h) ==
    LET search == [p \in (Nat \X Nat) \X Nat |-> SearchRound(p[1], b, h)]
    IN  Loop(search, <<0, Len(b.e)>>, Len(b.e))[1]

\* The elements behind position i, or i itself, move by one.
InsertBehind(s, i, x) ==
    [j \in 1 .. Len(s) + 1 |-> IF j <= i THEN s[j] ELSE IF j = i + 1 THEN x ELSE s[j - 1]]
EraseAt(s, i) == [j \in 1 .. Len(s) - 1 |-> IF j < i THEN s[j] ELSE s[j + 1]]

\* Mutant: the new entry goes to the end, not to its place.
insert_AtEnd(b, offset, h) == [e |-> Append(b.e, [h |-> h, o |-> offset]), s |-> b.s]

insert(b, offset, h) ==
    [e |-> InsertBehind(b.e, lower_bound(b, h), [h |-> h, o |-> offset]), s |-> b.s]
erase(b, i) == [e |-> EraseAt(b.e, i), s |-> b.s]

-----------------------------------------------------------------------------
(* bulk_writer on the data file: w.df and how much of it is written *)

prepare(w, rec) ==
    [df |-> Append(w.df, rec),
     flushed |-> IF Len(w.df) - w.flushed + 1 > WriteBuf THEN Len(w.df) ELSE w.flushed]

flush(w) == [df |-> w.df, flushed |-> Len(w.df)]

\* A full bucket moves to the data file and starts again, pointing to it.
maybe_spill(b, w, capacity) ==
    IF full(b, capacity)
    THEN [b |-> [e |-> <<>>, s |-> Len(w.df) + 1], w |-> prepare(w, Spill(b))]
    ELSE [b |-> b, w |-> w]

-----------------------------------------------------------------------------
(* fetch in a bucket and its spills: the offset of the value, or 0 *)

\* In the bucket b itself.
FetchIn(k, h, b) ==
    LET first == lower_bound(b, h) + 1
        run == {i \in first .. Len(b.e) : \A j \in first .. i : b.e[j].h = h}
        hits == {i \in run : df[b.e[i].o].key = k}
    IN  IF hits = {} THEN 0 ELSE b.e[CHOOSE i \in hits : \A j \in hits : i <= j].o

\* On to the next spill; s is the bucket looked at and what was found.
FetchRound(s, k, h) ==
    IF s[2] # 0 \/ s[1].s = 0 THEN s
    ELSE LET b == df[s[1].s].b IN <<b, FetchIn(k, h, b)>>

fetch(k, h, b) ==
    LET go == [p \in (Buckets \X Nat) \X Nat |-> FetchRound(p[1], k, h)]
    IN  Loop(go, <<b, FetchIn(k, h, b)>>, Len(df))[2]

\* The bucket a reader finds: in the cache if it is there, else on disk.
BucketOf(n) == IF n \in DOMAIN c1 THEN c1[n] ELSE kf[n + 1]

Lookup(k) == fetch(k, hash[k], BucketOf(bucket_index(hash[k], buckets, modulus)))

-----------------------------------------------------------------------------
(* split of b1 (index n1) into b1 and b2 (index n2) *)

\* The re-insertion of one entry of a spill bucket.
Reinsert(st, e, n2, nb, m) ==
    IF bucket_index(e.h, nb, m) = n2
    THEN LET r == maybe_spill(st.b2, st.w, kh.capacity)
         IN  [b1 |-> st.b1, b2 |-> insert(r.b, e.o, e.h), w |-> r.w, short |-> st.short]
    ELSE LET r == maybe_spill(st.b1, st.w, kh.capacity)
         IN  [b1 |-> insert(r.b, e.o, e.h), b2 |-> st.b2, w |-> r.w, short |-> st.short]

\* Mutant: the writer is not flushed before a spill is read back.
FlushFor_Never(w, spill) == w

\* If any part of the spill record is in the write buffer then flush first.
FlushFor(w, spill) == IF spill > w.flushed THEN flush(w) ELSE w

\* What split works on: the two buckets, the writer, and whether a read was short.
Splits == [b1 : Buckets, b2 : Buckets, w : Writers, short : BOOLEAN]

\* One spill bucket, s[2], is read back, entry by entry; the next one is named
\* in it.
SplitSpill(s, n2, nb, m) ==
    LET w == FlushFor(s[1].w, s[2])
        tmp == w.df[s[2]].b
        in == [b1 |-> s[1].b1, b2 |-> s[1].b2, w |-> w, short |-> s[1].short \/ s[2] > w.flushed]
        reinsert == [p \in Splits \X Nat |-> Reinsert(p[1], tmp.e[p[2]], n2, nb, m)]
    IN  IF s[2] = 0 THEN s ELSE <<Loop(reinsert, in, Len(tmp.e)), tmp.s>>

\* Entry s[3] of b1 moves to b2 or stays; s is b1, b2 and the index.
SplitEntry(s, n2, nb, m) ==
    LET e == s[1].e[s[3]]
    IN  IF bucket_index(e.h, nb, m) = n2
        THEN <<erase(s[1], s[3]), insert(s[2], e.o, e.h), s[3]>>
        ELSE <<s[1], s[2], s[3] + 1>>

\* The entries of b1 itself.
SplitEntries(b1, b2, n2, nb, m) ==
    LET part == [p \in (Buckets \X Buckets \X Nat) \X Nat |-> SplitEntry(p[1], n2, nb, m)]
    IN  Loop(part, <<b1, b2, 1>>, Len(b1.e))

\* Mutant: the spills are not redistributed, both buckets keep them.
split_SharesSpills(b1, b2, n2, nb, m, w) ==
    LET s == SplitEntries(b1, b2, n2, nb, m)
    IN  [b1 |-> s[1], b2 |-> [e |-> s[2].e, s |-> b1.s], w |-> w, short |-> FALSE]

split(b1, b2, n2, nb, m, w) ==
    LET s == SplitEntries(b1, b2, n2, nb, m)
        st == [b1 |-> [e |-> s[1].e, s |-> 0], b2 |-> s[2], w |-> w, short |-> FALSE]
        spills == [p \in (Splits \X Nat) \X Nat |-> SplitSpill(p[1], n2, nb, m)]
    IN  IF b1.e = <<>> THEN [b1 |-> b1, b2 |-> b2, w |-> w, short |-> FALSE]
        ELSE Loop(spills, <<st, b1.s>>, Len(w.df))[1]

-----------------------------------------------------------------------------
(* load and the loop of commit, on a record st of what the loop changes *)

\* The cache c with bucket n.
With(c, n, b) == [i \in DOMAIN c \cup {n} |-> IF i = n THEN b ELSE c[i]]

\* The caches once bucket n is loaded.
load(st, n) ==
    IF n \in DOMAIN st.c1 THEN [c0 |-> st.c0, c1 |-> st.c1]
    ELSE IF n \in DOMAIN st.c0 THEN [c0 |-> st.c0, c1 |-> With(st.c1, n, st.c0[n])]
    ELSE [c0 |-> With(st.c0, n, kf[n + 1]), c1 |-> With(st.c1, n, kf[n + 1])]

\* One bucket more: SplitFrom gives up entries to the new last bucket.
SplitOne(st) ==
    LET m == SplitModulus(st.buckets, st.modulus)
        n1 == SplitFrom(st.buckets, st.modulus)
        n2 == SplitTo(st.buckets)
        ld == load(st, n1)
        r == split(ld.c1[n1], Empty, n2, n2 + 1, m, st.w)
    IN  [c0 |-> ld.c0, c1 |-> With(With(ld.c1, n1, r.b1), n2, r.b2), w |-> r.w,
         short |-> st.short \/ r.short, buckets |-> n2 + 1, modulus |-> m,
         frac |-> st.frac - Thresh]

InsertOne(st, k, offset) ==
    LET n == bucket_index(hash[k], st.buckets, st.modulus)
        ld == load(st, n)
        r == maybe_spill(ld.c1[n], st.w, kh.capacity)
    IN  [c0 |-> ld.c0, c1 |-> With(ld.c1, n, insert(r.b, offset, hash[k])), w |-> r.w,
         short |-> st.short, buckets |-> st.buckets, modulus |-> st.modulus,
         frac |-> st.frac]

-----------------------------------------------------------------------------
(* The operations *)

\* open after create: one empty bucket, no data.
Init ==
    /\ kh \in Headers /\ hash \in HashFunctions
    /\ kf = <<Empty>> /\ df = <<>> /\ flushed = 0
    /\ c0 = NoCache /\ c1 = NoCache
    /\ buckets = 1 /\ modulus = 1 /\ frac = Thresh \div 2
    /\ batch = <<>> /\ opened = TRUE /\ short = FALSE /\ rekeys = 0

Idle == opened /\ batch = <<>> /\ c1 = NoCache

\* The numbers of a finite set, the least first.
InOrder(S) ==
    [i \in 1 .. Cardinality(S) |-> CHOOSE k \in S : Cardinality({j \in S : j < k}) = i - 1]

\* commit begins: the pool, a std::map ordered by key, is written to the data
\* file.  P is a set of keys that insert did not find.
CommitBegin(P) ==
    /\ Idle /\ P # {} /\ \A k \in P : Lookup(k) = 0
    /\ LET ks == InOrder(P)
           write == [p \in Writers \X Nat |-> prepare(p[1], Value(ks[p[2]]))]
           w == Loop(write, [df |-> df, flushed |-> flushed], Len(ks))
       IN  /\ df' = w.df /\ flushed' = w.flushed
           /\ batch' = [i \in 1 .. Len(ks) |-> [key |-> ks[i], o |-> Len(df) + i]]
    /\ UNCHANGED <<kh, hash, kf, c0, c1, buckets, modulus, frac, opened, short, rekeys>>

\* One round of the loop over the pool.
CommitStep ==
    /\ batch # <<>>
    /\ LET e == Head(batch)
           st == [c0 |-> c0, c1 |-> c1, w |-> [df |-> df, flushed |-> flushed],
                  short |-> short, buckets |-> buckets, modulus |-> modulus,
                  frac |-> frac + Unit]
           out == InsertOne(IF st.frac >= Thresh THEN SplitOne(st) ELSE st, e.key, e.o)
       IN  /\ c0' = out.c0 /\ c1' = out.c1
           /\ df' = out.w.df /\ flushed' = out.w.flushed
           /\ short' = out.short /\ frac' = out.frac
           /\ buckets' = out.buckets /\ modulus' = out.modulus
    /\ batch' = Tail(batch)
    /\ UNCHANGED <<kh, hash, kf, opened, rekeys>>

\* The data file is flushed and the changed buckets go to the key file.
CommitEnd ==
    /\ batch = <<>> /\ c1 # NoCache
    /\ flushed' = Len(df)
    /\ kf' = [i \in 1 .. buckets |-> BucketOf(i - 1)]
    /\ c0' = NoCache /\ c1' = NoCache
    /\ UNCHANGED <<kh, hash, df, buckets, modulus, frac, batch, opened, short, rekeys>>

close ==
    /\ Idle
    /\ opened' = FALSE
    /\ UNCHANGED <<kh, hash, kf, df, flushed, c0, c1, buckets, modulus, frac, batch, short, rekeys>>

open ==
    /\ ~opened
    /\ opened' = TRUE
    /\ buckets' = Len(kf) /\ modulus' = ceil_pow2(Len(kf), WordBits)
    /\ frac' = Thresh \div 2
    /\ UNCHANGED <<kh, hash, kf, df, flushed, c0, c1, batch, short, rekeys>>

\* rekey: passes over the data file, each filling the buckets b0 .. b1 - 1 of
\* a new key file of nb buckets.  Records from offset size on are rekey's own.
RekeyPut(a, o, b0, b1, hf, nb, capacity) ==
    LET k == df[o].key
        n == bucket_index(hf[k], nb, ceil_pow2(nb, WordBits))
        r == maybe_spill(a.b[n], a.w, capacity)
    IN  IF k = 0 THEN a
        ELSE IF n < b0 \/ n >= b1 THEN a
        ELSE [b |-> [a.b EXCEPT ![n] = insert(r.b, o, hf[k])], w |-> r.w]

\* What the passes work on: the buckets of the new key file and the writer.
Rekeys(nb) == [b : [0 .. nb - 1 -> Buckets], w : Writers]

RekeyPass(st, b0, b1, hf, nb, capacity) ==
    LET put == [p \in Rekeys(nb) \X Nat |-> RekeyPut(p[1], p[2], b0, b1, hf, nb, capacity)]
        clear == [n \in 0 .. nb - 1 |-> IF n \in b0 .. b1 - 1 THEN Empty ELSE st.b[n]]
    IN  Loop(put, [b |-> clear, w |-> st.w], Len(df))

\* The pass that begins with bucket s[2].
RekeyRound(s, chunk, hf, nb, capacity) ==
    LET b1 == IF s[2] + chunk < nb THEN s[2] + chunk ELSE nb
    IN  IF s[2] >= nb THEN s ELSE <<RekeyPass(s[1], s[2], b1, hf, nb, capacity), b1>>

\* The old key file is gone; the new one has another salt, and the block size
\* and the load factor that rekey is called with.  The spills of the old one stay
\* in the data file and are passed over.
rekey(nb, chunk, hf, header) ==
    /\ ~opened /\ rekeys < MaxRekeys
    /\ LET pass == [p \in (Rekeys(nb) \X Nat) \X Nat |-> RekeyRound(p[1], chunk, hf, nb, header.capacity)]
           st == [b |-> [n \in 0 .. nb - 1 |-> Empty],
                  w |-> [df |-> df, flushed |-> flushed]]
           out == Loop(pass, <<st, 0>>, nb)[1]
       IN  /\ kf' = [i \in 1 .. nb |-> out.b[i - 1]]
           /\ df' = out.w.df /\ flushed' = flush(out.w).flushed
    /\ kh' = header /\ hash' = hf /\ rekeys' = rekeys + 1
    /\ buckets' = nb /\ modulus' = ceil_pow2(nb, WordBits)
    /\ UNCHANGED <<c0, c1, frac, batch, opened, short>>

Next ==
    \/ \E P \in SUBSET Keys : CommitBegin(P)
    \/ CommitStep \/ CommitEnd \/ close \/ open
    \/ \E nb, chunk \in 1 .. MaxRekeyBuckets, hf \in HashFunctions, header \in Headers :
           rekey(nb, chunk, hf, header)

Spec == Init /\ [][Next]_vars

-----------------------------------------------------------------------------
(* What reads the files of a closed store *)

\* The bucket b and its spills, as long as they are in the data file.
Chain(b) ==
    LET more(c) == LET s == c[Len(c)].s
                   IN  IF s \in 1 .. Len(df) THEN Append(c, df[s].b) ELSE c
    IN  Loop([p \in Seq(Buckets) \X Nat |-> more(p[1])], <<b>>, Len(df))

ChainOf(n) == Chain(BucketOf(n))
Values == {o \in 1 .. Len(df) : df[o].key # 0}
HomeOf(k) == bucket_index(hash[k], buckets, modulus)

\* The search of both verify algorithms: value o is met in its bucket's chain,
\* each bucket of it searched from lower_bound on while the hash is that of o.
Indexed(o) ==
    LET k == df[o].key
        c == ChainOf(HomeOf(k))
        MetIn(b) == LET first == lower_bound(b, hash[k]) + 1
                    IN  \E i \in first .. Len(b.e) :
                            b.e[i].o = o /\ \A j \in first .. i : b.e[j].h = hash[k]
    IN  \E i \in 1 .. Len(c) : MetIn(c[i])

Spills == 1 .. Len(df) \ Values
Size(o) == Len(df[o].b.e)      \* of the spill record o, in entries

\* Both verify algorithms read every spill record, in use or not, and end with
\* invalid_spill_size at one of another size than verify_normal's
\* bucket_size(kh.capacity), or verify_fast's bucket_size(bucket_capacity(size)):
\* bucket_capacity is zero for what is shorter than the header of the key file.
NormalTakes(size) == size = kh.capacity
FastTakes(size) == (IF size < LeastEntries THEN 0 ELSE size) = size

\* verify_normal finds no error: no orphaned value, spills of the right size,
\* every entry's value there with the entry's hash.
verify_normal ==
    /\ \A o \in Values : Indexed(o)
    /\ \A o \in Spills : NormalTakes(Size(o))
    /\ \A n \in 0 .. buckets - 1 :
           LET c == ChainOf(n)
           IN  \A i \in 1 .. Len(c) : \A j \in 1 .. Len(c[i].e) :
                   LET e == c[i].e[j] IN e.o \in Values /\ hash[df[e.o].key] = e.h

\* The number of entries of a bucket and its spills.
KeyCount(n) ==
    LET c == ChainOf(n)
    IN  Loop([p \in Nat \X Nat |-> p[1] + Len(c[p[2]].e)], 0, Len(c))

\* verify_fast finds no error: it counts each bucket's keys and takes off one
\* for each value met; its chunks of buckets partition the key file.
verify_fast ==
    /\ \A o \in Values : Indexed(o)
    /\ \A o \in Spills : FastTakes(Size(o))
    /\ \A n \in 0 .. buckets - 1 :
           Cardinality({o \in Values : HomeOf(df[o].key) = n}) = KeyCount(n)

\* The keys visit passes to its callback, in order.
visit == SelectSeq([o \in 1 .. Len(df) |-> df[o].key], LAMBDA k : k # 0)

-----------------------------------------------------------------------------
(* Properties *)

Entry == [h : Hashes, o : 1 .. Len(df)]
Bucket == [e : Seq(Entry), s : 0 .. Len(df)]
InUse == {b \in Bucket : Len(b.e) <= kh.capacity}
Cache(c) == \A n \in DOMAIN c : n \in 0 .. buckets - 1 /\ c[n] \in InUse

\* Every file, cache and counter has its type; no bucket holds more than it
\* can, and the fraction of an open store stays below the threshold of a split.
TypeOK ==
    /\ kh \in Headers /\ hash \in HashFunctions
    /\ kf \in Seq(InUse) /\ df \in Seq([key : Keys \cup {0}, b : Bucket])
    /\ flushed \in 0 .. Len(df) /\ Cache(c0) /\ Cache(c1)
    /\ buckets \in Nat \ {0} /\ modulus \in Nat \ {0}
    /\ frac \in Nat /\ (opened => frac < Thresh)
    /\ batch \in Seq([key : Keys, o : 1 .. Len(df)])
    /\ opened \in BOOLEAN /\ short \in BOOLEAN /\ rekeys \in 0 .. MaxRekeys

Pending == {batch[i].key : i \in 1 .. Len(batch)}
Stored == {df[o].key : o \in Values} \ Pending

\* A lookup through the buckets, the cache of a running commit included, finds
\* exactly the keys inserted so far, whatever was split, spilled, reopened or
\* rekeyed (basic_store::fetch, split, load, maybe_spill).
AllFound ==
    \A k \in Keys : (Lookup(k) # 0) <=> (k \in Stored)

\* split never reads a spill that is still in the writer's buffer, and no
\* bucket of a finished commit refers to data not yet in the file.
SpillsReadable ==
    /\ ~short
    /\ c1 = NoCache /\ batch = <<>> => flushed = Len(df)

\* The spill records some bucket leads to.
Used ==
    UNION {LET c == ChainOf(n) IN {c[i].s : i \in 1 .. Len(c)} \ {0} : n \in 0 .. buckets - 1}

\* The offline tools see what lookups see.  Of a closed store visit passes exactly
\* the keys a lookup finds, each once, and the only error either verify algorithm
\* can end with is invalid_spill_size: verify_fast where a full bucket is shorter
\* than the header of the key file, verify_normal where a rekey with another
\* block size left spill records of the old size behind, which no bucket uses.
ToolsAgree ==
    ~opened => /\ (\A o \in Spills : NormalTakes(Size(o))) => verify_normal
               /\ (\A o \in Spills : FastTakes(Size(o))) => verify_fast
               /\ \A o \in Used : o \in Spills /\ NormalTakes(Size(o))
               /\ rekeys = 0 => verify_normal
               /\ \A i, j \in 1 .. Len(visit) : visit[i] = visit[j] => i = j
               /\ {visit[i] : i \in 1 .. Len(visit)} = {k \in Keys : Lookup(k) # 0}
=============================================================================
