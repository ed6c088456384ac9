---------------------------- MODULE StoreProofs -----------------------------
(***************************************************************************)
(* Proofs about the threads of a store, for any finite number of callers,  *)
(* any keys and hashes and any number of buckets: the inductive invariant  *)
(* and, step by step, its proof (every action keeps it, given what the     *)
(* generation mutex guarantees, and every action is one of KeyValue or     *)
(* leaves KeyValue's variables alone), then the theorems.  The invariant   *)
(* rests on the one of the mutex, which comes first and is proved of       *)
(* Gentex alone: a behaviour of the store is a behaviour of the mutex      *)
(* (NextGen), so both invariants hold together.                            *)
(***************************************************************************)
EXTENDS Store, HashingProofs, FiniteSetTheorems

-----------------------------------------------------------------------------
(* The generation mutex, for any finite set of threads and any width of gen_ *)

\* gen_ + 1 is a value of gen_ and differs from gen_, wrap-around included.
LEMMA NextGeneration ==
    ASSUME NEW g \in Gens
    PROVE  (g + 1) % GenMod \in Gens /\ (g + 1) % GenMod # g
<1>1. CASE g = GenMod - 1
    <2>1. (g + 1) % GenMod = 0
        BY <1>1, GenModAssumption, Z3 DEF Gens
    <2> QED BY <1>1, <2>1, GenModAssumption DEF Gens
<1>2. CASE g < GenMod - 1
    <2>1. (g + 1) % GenMod = g + 1
        BY <1>2, GenModAssumption, Z3 DEF Gens
    <2> QED BY <1>2, <2>1, GenModAssumption DEF Gens
<1> QED BY <1>1, <1>2, GenModAssumption DEF Gens

\* The sets of lock holders are finite, so counting them makes sense.
LEMMA HoldersFinite ==
    /\ IsFiniteSet(Young) /\ IsFiniteSet(Elder)
    /\ Cardinality(Young) \in 0 .. Cardinality(Threads)
    /\ Cardinality(Elder) \in 0 .. Cardinality(Threads)
<1>1. Young \in SUBSET Threads /\ Elder \in SUBSET Threads
    BY DEF Young, Elder
<1>2. IsFiniteSet(Young) /\ Cardinality(Young) <= Cardinality(Threads)
    BY <1>1, ThreadsAssumption, FS_Subset
<1>3. IsFiniteSet(Elder) /\ Cardinality(Elder) <= Cardinality(Threads)
    BY <1>1, ThreadsAssumption, FS_Subset
<1>4. /\ Cardinality(Young) \in Nat /\ Cardinality(Elder) \in Nat
      /\ Cardinality(Threads) \in Nat
    BY <1>2, <1>3, ThreadsAssumption, FS_CardinalityType
<1> QED BY <1>2, <1>3, <1>4

LEMMA MutexInit == GenInit => GenIInv
<1> SUFFICES ASSUME GenInit PROVE GenIInv
    OBVIOUS
<1>1. Young = {} /\ Elder = {}
    BY GenModAssumption DEF GenInit, Young, Elder, NoGen
<1>2. Cardinality({}) = 0 /\ Cardinality(Threads) \in Nat
    BY FS_EmptySet, ThreadsAssumption, FS_CardinalityType
<1>3. GenTypeOK
    BY <1>2, GenModAssumption DEF GenInit, GenTypeOK, Gens, NoGen, FinStates
<1> QED BY <1>1, <1>2, <1>3 DEF GenInit, GenIInv, CountersExact

LEMMA MutexStart == GenIInv /\ start => GenIInv'
<1> SUFFICES ASSUME GenIInv, start PROVE GenIInv'
    OBVIOUS
<1> USE DEF GenIInv, GenTypeOK, CountersExact
<1>1. gen' \in Gens /\ gen' # gen
    BY NextGeneration DEF start
<1>2. \A r \in Threads : held[r] \in {gen, NoGen}
    BY DEF start, Elder
<1>3. Young' = {}
    BY <1>1, <1>2, GenModAssumption DEF start, Young, NoGen, Gens
<1>4. Elder' = Inside /\ Inside = Young
    <2>1. NoGen \notin Gens
        BY GenModAssumption DEF NoGen, Gens
    <2> QED BY <1>1, <1>2, <2>1 DEF start, Elder, Inside, Young
<1>5. prev' = Cardinality(Elder') /\ cur' = Cardinality(Young')
    <2>1. Cardinality(Elder) = 0 /\ Cardinality({}) = 0
        BY FS_EmptySet DEF start
    <2> QED BY <1>3, <1>4, <2>1, HoldersFinite DEF start
<1>6. prev' \in 0 .. Cardinality(Threads) /\ cur' \in 0 .. Cardinality(Threads)
    BY <1>4, <1>5, HoldersFinite DEF start
<1> QED BY <1>1, <1>4, <1>5, <1>6 DEF start, FinStates, Inside

LEMMA MutexLock == ASSUME GenIInv, NEW r \in Threads, lock_gen(r) PROVE GenIInv'
<1> USE DEF GenIInv, GenTypeOK, CountersExact
<1>0. NoGen \notin Gens
    BY GenModAssumption DEF NoGen, Gens
<1>1. /\ held' \in [Threads -> Gens \cup {NoGen}]
      /\ held'[r] = gen
      /\ \A s \in Threads \ {r} : held'[s] = held[s]
    BY DEF lock_gen
<1>2. Young' = Young \cup {r} /\ r \notin Young
    BY <1>0, <1>1 DEF lock_gen, Young
<1>3. Elder' = Elder
    BY <1>0, <1>1 DEF lock_gen, Elder
<1>4. cur' = Cardinality(Young')
    BY <1>2, HoldersFinite, FS_AddElement, Zenon DEF lock_gen
<1>5. Cardinality(Young') \in 0 .. Cardinality(Threads)
    <2>1. Young' \in SUBSET Threads
        BY DEF Young
    <2>2. IsFiniteSet(Young') /\ Cardinality(Young') <= Cardinality(Threads)
        BY <2>1, ThreadsAssumption, FS_Subset
    <2> QED BY <2>2, FS_CardinalityType, ThreadsAssumption
<1> QED BY <1>1, <1>3, <1>4, <1>5 DEF lock_gen

LEMMA MutexUnlock == ASSUME GenIInv, NEW r \in Threads, unlock_gen(r) PROVE GenIInv'
<1> USE DEF GenIInv, GenTypeOK, CountersExact
<1>0. NoGen \notin Gens
    BY GenModAssumption DEF NoGen, Gens
<1>1. /\ held' \in [Threads -> Gens \cup {NoGen}]
      /\ held'[r] = NoGen
      /\ \A s \in Threads \ {r} : held'[s] = held[s]
    BY DEF unlock_gen
<1>2. Young' = Young \ {r} /\ Elder' = Elder \ {r} /\ gen' = gen
    BY <1>0, <1>1 DEF unlock_gen, Young, Elder
<1>3. old' = Elder'
    BY <1>2 DEF unlock_gen
<1>4. /\ cur' = Cardinality(Young') /\ prev' = Cardinality(Elder')
      /\ fin' \in FinStates
      /\ fin' \in {"idle", "writing"} => Elder' = {}
      /\ fin' = "waiting" => Elder' # {}
    <2>1. CASE held[r] = gen
        <3>1. r \in Young /\ r \notin Elder
            BY <2>1 DEF Young, Elder
        <3>2. Cardinality(Young \ {r}) = Cardinality(Young) - 1
            BY <3>1, HoldersFinite, FS_RemoveElement, Zenon
        <3>3. Elder' = Elder
            BY <1>2, <3>1
        <3> QED BY <1>2, <2>1, <3>2, <3>3 DEF unlock_gen
    <2>2. CASE held[r] # gen
        <3>1. r \in Elder /\ r \notin Young
            BY <2>2 DEF Young, Elder, unlock_gen
        <3>2. Cardinality(Elder \ {r}) = Cardinality(Elder) - 1
            BY <3>1, HoldersFinite, FS_RemoveElement, Zenon
        <3>3. Young' = Young
            BY <1>2, <3>1
        <3>4. prev' = Cardinality(Elder') /\ cur' = Cardinality(Young')
            BY <1>2, <2>2, <3>2, <3>3 DEF unlock_gen
        <3>5. IsFiniteSet(Elder')
            BY <1>2, HoldersFinite, FS_RemoveElement
        <3>6. prev' = 0 <=> Elder' = {}
            BY <3>4, <3>5, FS_EmptySet
        <3>7. fin \notin {"idle", "writing"}
            BY <3>1
        <3> QED BY <2>2, <3>4, <3>6, <3>7 DEF unlock_gen, FinStates
    <2> QED BY <2>1, <2>2
<1>5. /\ Cardinality(Young') \in 0 .. Cardinality(Threads)
      /\ Cardinality(Elder') \in 0 .. Cardinality(Threads)
    <2>1. Young' \in SUBSET Threads /\ Elder' \in SUBSET Threads
        BY DEF Young, Elder
    <2>2. /\ IsFiniteSet(Young') /\ Cardinality(Young') <= Cardinality(Threads)
          /\ IsFiniteSet(Elder') /\ Cardinality(Elder') <= Cardinality(Threads)
        BY <2>1, ThreadsAssumption, FS_Subset
    <2> QED BY <2>2, FS_CardinalityType, ThreadsAssumption
<1> QED BY <1>1, <1>2, <1>3, <1>4, <1>5

\* The committer's own steps other than start() change only fin.
LEMMA MutexCommitter ==
    GenIInv /\ (finish \/ GenSpuriousWakeup \/ GenCommitEnd \/ GenCommitFail) => GenIInv'
<1> SUFFICES ASSUME GenIInv, finish \/ GenSpuriousWakeup \/ GenCommitEnd \/ GenCommitFail
             PROVE  GenIInv'
    OBVIOUS
<1> USE DEF GenIInv, GenTypeOK, CountersExact
<1>1. Young' = Young /\ Elder' = Elder
    BY DEF finish, GenSpuriousWakeup, GenCommitEnd, GenCommitFail, Young, Elder
<1>2. prev = 0 <=> Elder = {}
    BY HoldersFinite, FS_EmptySet
<1>3. CASE finish
    BY <1>1, <1>2, <1>3 DEF finish, FinStates
<1>4. CASE GenSpuriousWakeup
    BY <1>1, <1>4 DEF GenSpuriousWakeup, FinStates
<1>5. CASE GenCommitEnd
    BY <1>1, <1>5 DEF GenCommitEnd, FinStates
<1>6. CASE GenCommitFail
    BY <1>1, <1>6 DEF GenCommitFail, FinStates
<1> QED BY <1>3, <1>4, <1>5, <1>6

\* Every step of readers and committer preserves the inductive invariant.
LEMMA MutexNext == GenIInv /\ [GenNext]_genvars => GenIInv'
<1> SUFFICES ASSUME GenIInv, [GenNext]_genvars PROVE GenIInv'
    OBVIOUS
<1>1. CASE start
    BY <1>1, MutexStart
<1>2. CASE finish \/ GenSpuriousWakeup \/ GenCommitEnd \/ GenCommitFail
    BY <1>2, MutexCommitter
<1>3. ASSUME NEW r \in Threads, lock_gen(r) PROVE GenIInv'
    BY <1>3, MutexLock
<1>4. ASSUME NEW r \in Threads, unlock_gen(r) PROVE GenIInv'
    BY <1>4, MutexUnlock
<1>5. CASE UNCHANGED genvars
    BY <1>5 DEF GenIInv, GenTypeOK, CountersExact, Young, Elder, genvars
<1> QED BY <1>1, <1>2, <1>3, <1>4, <1>5 DEF GenNext, Committer, Reader

\* gen_, cur_ and prev_ keep their types: the unsigned counters never wrap
\* below zero, whatever the number of threads.
THEOREM CountersTyped == GenSpec => []GenTypeOK
<1>1. GenIInv => GenTypeOK
    BY DEF GenIInv
<1> QED BY <1>1, MutexInit, MutexNext, PTL DEF GenSpec

\* Once finish() has returned, every thread that held a genlock when start()
\* was called has released it.
THEOREM OldReadersGoneThm == GenSpec => []OldReadersGone
<1>1. GenIInv => OldReadersGone
    BY DEF GenIInv, OldReadersGone
<1> QED BY <1>1, MutexInit, MutexNext, PTL DEF GenSpec

\* While the committer sleeps in finish() some reader still has to notify it.
THEOREM SleeperHasWakerThm == GenSpec => []SleeperHasWaker
<1>1. GenIInv => SleeperHasWaker
    BY DEF GenIInv, SleeperHasWaker, CountersExact
<1> QED BY <1>1, MutexInit, MutexNext, PTL DEF GenSpec

-----------------------------------------------------------------------------
(* The store *)

USE ZenonT(40)      \* where arithmetic or a choice of terms is needed, a leaf cites SMT

CallStates ==
    {"idle", "f_lock", "f_pool", "f_c1", "f_kf", "f_df",
     "i_u", "i_lock", "i_c1", "i_kf", "i_df", "i_add"}

\* Places where a caller holds u_, and where it searches a bucket
Serialized == {"i_lock", "i_c1", "i_kf", "i_df", "i_add"}
Searching == {"f_c1", "f_kf", "f_df", "i_c1", "i_kf", "i_df"}

\* Places of the commit thread between the swap of the pools and the end of
\* the commit, those before the new buckets are published, and those where
\* the pool p0 is in use
Committing == {"prepare", "publish", "log", "finish", "keys", "clear"}
Unpublished == {"top", "pred", "nap", "sleep", "woke", "last", "done", "prepare", "publish"}
Pooling == {"prepare", "publish", "failed", "dead"}

IsCache(f) == DOMAIN f \subseteq Blocks /\ f \in [DOMAIN f -> SUBSET Keys]

CallTypes ==
    /\ pcs \in [Threads -> CallStates] /\ n \in [Threads -> Blocks]
    /\ key \in [Threads -> Keys \cup {NoOne}]
    /\ \A t \in Threads : pcs[t] # "idle" => key[t] \in Keys
    /\ b \in [Threads -> Contents] /\ expect \in [Threads -> BOOLEAN]

Types ==
    /\ CallTypes
    /\ u \in Threads \cup {NoOne} /\ sh \subseteq Threads
    /\ p0 \subseteq Keys /\ p1 \subseteq Keys /\ IsCache(c1)
    /\ IsShape(buckets, modulus) /\ buckets <= MaxBuckets
    /\ kf \in [Blocks -> Contents]
    /\ c \in Unpublished \cup Committing \cup Pooling
    /\ next = [c1 |-> next.c1, buckets |-> next.buckets, modulus |-> next.modulus]
    /\ todo \subseteq Blocks /\ wr \in Blocks \cup {NoBlock}
    /\ user \in {"open", "closing", "closed", "error"}

\* A table as readers see it has each key in its bucket, and the record of
\* each key in the data file.
Clean ==
    /\ DOMAIN c1 \subseteq 0 .. buckets - 1
    /\ \A i \in 0 .. buckets - 1 :
         /\ View(i) \subseteq Keys \cap flushed
         /\ \A k \in View(i) : HomeOf(k) = i

\* The bucket of a key in the table that commit is about to publish
NextHome(k) == bucket_index(hash[k], next.buckets, next.modulus)

\* While a commit prepares the next table, that table's cache has both buckets
\* of every key that has another bucket in it, and all of its new buckets.
Prepared ==
    /\ IsCache(next.c1) /\ IsShape(next.buckets, next.modulus)
    /\ buckets <= next.buckets /\ next.buckets <= MaxBuckets
    /\ DOMAIN next.c1 \subseteq 0 .. next.buckets - 1
    /\ \A i \in buckets .. next.buckets - 1 : i \in DOMAIN next.c1
    /\ \A k \in Keys : \/ NextHome(k) = HomeOf(k)
                       \/ NextHome(k) \in DOMAIN next.c1 /\ HomeOf(k) \in DOMAIN next.c1

\* Before it is published, every bucket of that cache has the keys that belong
\* to it, and every key of the pool has its bucket there.
Flushed ==
    /\ p0 \subseteq flushed
    /\ \A k \in p0 : NextHome(k) \in DOMAIN next.c1
    /\ \A i \in DOMAIN next.c1 : next.c1[i] = {k \in p0 \cup Stored : NextHome(k) = i}

\* The commit thread: what it has published, is preparing and has written.
Commits ==
    /\ c \in Unpublished => c1 = NoCache
    /\ c \notin Pooling => p0 = {}
    /\ c \in {"prepare", "publish"} => Prepared
    /\ c = "publish" => Flushed
    /\ c \notin {"keys", "failed", "dead"} => wr = NoBlock
    /\ c = "keys" =>
         /\ todo \subseteq DOMAIN c1 /\ wr \in todo \cup {NoBlock}
         /\ fin = "writing"
         /\ \A i \in DOMAIN c1 \ todo : kf[i] = c1[i]
    /\ c = "clear" => \A i \in DOMAIN c1 : kf[i] = c1[i]

\* What a caller searches, or is about to read and then to search
Seen(t) ==
    IF pcs[t] \in {"f_c1", "i_c1"} THEN c1[n[t]]
    ELSE IF pcs[t] \in {"f_kf", "i_kf"} THEN kf[n[t]] ELSE b[t]

\* One caller.  A shared holder of m_ keeps pools and cache as they are; who
\* has released m_ has a genlock, and reads a block that is not in the cache,
\* or was there before the cache was published.  What it searches was part of
\* the table, and has its key if the table had it when the caller looked.
\* While an insert has u_ its key is not inserted by another one.
Caller(t) ==
    /\ pcs[t] \in Serialized => u = t
    /\ pcs[t] = "f_pool" => t \in sh /\ key[t] \in p0 \cup p1
    /\ pcs[t] \in {"f_c1", "i_c1"} => t \in sh /\ n[t] \in DOMAIN c1
    /\ pcs[t] \in {"f_kf", "i_kf"} =>
         /\ held[t] # NoGen
         /\ t \notin old => n[t] \notin DOMAIN c1
    /\ pcs[t] \in Searching =>
         /\ Seen(t) \subseteq Keys \cap flushed \cap Present
         /\ expect[t] => key[t] \in Seen(t)
    /\ pcs[t] \in Searching \cap Serialized => (key[t] \in Present => expect[t])
    /\ pcs[t] = "i_add" => key[t] \notin Present

\* close comes when nothing else runs, and the commit thread ends only when
\* the pools are empty.
Closing ==
    /\ user # "open" => \A t \in Threads : pcs[t] = "idle"
    /\ c \in {"last", "done"} \/ last => user # "open"
    /\ last /\ c \in Committing => p1 = {}
    /\ c = "done" => p1 = {}
    /\ c = "dead" => ecb
    /\ user = "closed" => c = "done"
    /\ acked \subseteq Present

IInv ==
    /\ Types /\ Clean /\ Commits /\ Closing
    /\ \A t \in Threads : Caller(t)

-----------------------------------------------------------------------------
(* The generation mutex *)

\* What the other threads need of it: the readers of before start() are gone
\* while commit writes the key file.
Generations ==
    /\ gen \in Nat /\ held \in [Threads -> Int]
    /\ fin = "writing" => old = {}

\* A caller locks or unlocks its own genlock and disturbs no other; it never
\* ends the key-file writes of a commit.
LEMMA GenLock ==
    ASSUME Generations, NEW t \in Threads, lock_gen(t)
    PROVE  /\ held'[t] # NoGen /\ old' = old /\ fin' = fin
           /\ \A x \in Threads \ {t} : held'[x] = held[x]
BY SMT DEF Generations, lock_gen, NoGen

LEMMA GenUnlock ==
    ASSUME Generations, NEW t \in Threads, unlock_gen(t)
    PROVE  /\ \A x \in Threads \ {t} : held'[x] = held[x] /\ (x \in old' <=> x \in old)
           /\ fin = "writing" => fin' = "writing"
BY DEF Generations, unlock_gen

-----------------------------------------------------------------------------
(* The table *)

\* Every key has its bucket, and is there if the table has it at all.
LEMMA HomeInTable ==
    ASSUME Types, NEW k \in Keys
    PROVE  HomeOf(k) \in 0 .. buckets - 1 /\ HomeOf(k) \in Blocks
<1>1. hash[k] \in Nat
    BY HashAssumption
<1>2. HomeOf(k) \in 0 .. buckets - 1
    BY <1>1, IndexOfShape DEF Types, HomeOf
<1> QED BY <1>2, MaxBucketsAssumption, SMT DEF Types, Blocks, IsShape

LEMMA FoundAtHome ==
    ASSUME Types, Clean, NEW k \in Keys
    PROVE  k \in Present <=> k \in p0 \cup p1 \/ k \in View(HomeOf(k))
BY HomeInTable DEF Clean, Present

\* A view is a set of keys, and not a torn block.
LEMMA NotTorn == ASSUME NEW x, x \subseteq Keys PROVE x # Torn
BY KeysAssumption DEF Torn

\* Steps of callers leave table, files and commit thread alone.
LEMMA TableUnchanged ==
    ASSUME Types, Clean, Commits,
           UNCHANGED <<p0, c1, buckets, modulus, kf, flushed, c, next, todo, wr>>,
           fin = "writing" => fin' = "writing"
    PROVE  Clean' /\ Commits'
<1>1. Clean'
    BY DEF Clean, View, HomeOf
<1>2. c \in {"prepare", "publish"} => Prepared'
    BY DEF Commits, Prepared, IsCache, NextHome, HomeOf
<1>3. c = "publish" => Flushed'
    BY SMT DEF Commits, Flushed, NextHome, Stored
<1> QED BY <1>1, <1>2, <1>3 DEF Commits

\* What a step of another thread must leave alone for a caller
LEMMA OtherCaller ==
    ASSUME NEW x \in Threads, Caller(x),
           UNCHANGED <<p0, c1, buckets, modulus, kf, flushed>>,
           p1 \subseteq p1', pcs[x] \in Serialized => p1' = p1,
           pcs'[x] = pcs[x], key'[x] = key[x], n'[x] = n[x], b'[x] = b[x],
           expect'[x] = expect[x],
           u = x => u' = x, x \in sh => x \in sh',
           held'[x] = held[x], x \in old => x \in old'
    PROVE  Caller(x)'
<1>1. Seen(x)' = Seen(x)
    BY DEF Seen
<1>2. Present \subseteq Present' /\ (pcs[x] \in Serialized => Present' = Present)
    BY SMT DEF Present, View
<1>3. /\ pcs'[x] \in Serialized => u' = x
      /\ pcs'[x] = "f_pool" => x \in sh' /\ key'[x] \in p0' \cup p1'
      /\ pcs'[x] \in {"f_c1", "i_c1"} => x \in sh' /\ n'[x] \in DOMAIN c1'
      /\ pcs'[x] \in {"f_kf", "i_kf"} =>
            held'[x] # NoGen /\ (x \notin old' => n'[x] \notin DOMAIN c1')
    BY DEF Caller
<1>4. pcs'[x] \in Searching =>
        /\ Seen(x)' \subseteq Keys \cap flushed' \cap Present'
        /\ expect'[x] => key'[x] \in Seen(x)'
    BY <1>1, <1>2 DEF Caller
<1>5. /\ pcs'[x] \in Searching \cap Serialized => (key'[x] \in Present' => expect'[x])
      /\ pcs'[x] = "i_add" => key'[x] \notin Present'
    BY <1>2 DEF Caller, Serialized
<1> QED BY <1>3, <1>4, <1>5 DEF Caller

-----------------------------------------------------------------------------
(* fetch and insert *)

OthersSame(t) ==
    \A x \in Threads \ {t} :
        /\ pcs'[x] = pcs[x] /\ key'[x] = key[x] /\ n'[x] = n[x]
        /\ b'[x] = b[x] /\ expect'[x] = expect[x]
        /\ u = x => u' = x
        /\ x \in sh => x \in sh'
        /\ held'[x] = held[x] /\ (x \in old => x \in old')

\* A step of one caller: it is left to show what the step means for itself.
LEMMA CallerStep ==
    ASSUME IInv, NEW t \in Threads, user = "open",
           UNCHANGED <<p0, c1, buckets, modulus, files, thread, user>>,
           p1 \subseteq p1', p1' = p1 \/ u = t,
           acked' = acked \/ (acked' = acked \cup {key[t]} /\ key[t] \in p1'),
           fin = "writing" => fin' = "writing",
           Types', OthersSame(t), Caller(t)'
    PROVE  IInv'
<1>1. UNCHANGED <<kf, flushed, c, last, next, todo, wr, ecb>>
    BY DEF files, thread
<1>2. Clean' /\ Commits'
    BY <1>1, TableUnchanged DEF IInv
<1>3. ASSUME NEW x \in Threads PROVE Caller(x)'
    <2>1. CASE x = t
        BY <2>1
    <2>2. CASE x # t
        <3>1. Caller(x) /\ (pcs[x] \in Serialized => u = x)
            BY DEF IInv, Caller
        <3> QED BY <1>1, <2>2, <3>1, OtherCaller DEF OthersSame
    <2> QED BY <2>1, <2>2
<1>4. acked' \subseteq Present'
    <2>1. Present \subseteq Present' /\ p1' \subseteq Present'
        BY <1>1 DEF Present, View
    <2> QED BY <2>1, SMT DEF IInv, Closing
<1>5. Closing'
    BY <1>1, <1>4 DEF IInv, Closing
<1> QED BY <1>2, <1>3, <1>5 DEF IInv

\* While a call is in progress the store is open.
LEMMA InCall ==
    ASSUME IInv, NEW t \in Threads, pcs[t] # "idle"
    PROVE  user = "open" /\ key[t] \in Keys /\ Caller(t)
BY DEF IInv, Closing, Types, CallTypes

\* The types of a caller's variables, when it returns and when it goes on.
LEMMA ReturnTypes ==
    ASSUME CallTypes, NEW t \in Threads, NEW r, Return(t, r), expect' \in [Threads -> BOOLEAN]
    PROVE  CallTypes' /\ pcs'[t] = "idle"
<1>1. 0 \in Blocks /\ {} \in Contents /\ "idle" \in CallStates
    BY MaxBucketsAssumption, SMT DEF Blocks, Contents, CallStates
<1>2. pcs' = [pcs EXCEPT ![t] = "idle"] /\ key' = [key EXCEPT ![t] = NoOne]
    BY DEF Return, Goto
<1>3. n' = [n EXCEPT ![t] = 0] /\ b' = [b EXCEPT ![t] = {}]
    BY DEF Return
<1>4. n' \in [Threads -> Blocks] /\ b' \in [Threads -> Contents]
    BY <1>1, <1>3 DEF CallTypes
<1> QED BY <1>1, <1>2, <1>4 DEF CallTypes

LEMMA GotoTypes ==
    ASSUME CallTypes, NEW t \in Threads, NEW s \in CallStates, Goto(t, s),
           key' = key \/ (\E k \in Keys : key' = [key EXCEPT ![t] = k]),
           key'[t] \in Keys,
           n' \in [Threads -> Blocks], b' \in [Threads -> Contents],
           expect' \in [Threads -> BOOLEAN]
    PROVE  CallTypes' /\ pcs'[t] = s
BY DEF CallTypes, Goto

LEMMA BeginIInv ==
    ASSUME IInv, NEW t \in Threads, NEW k \in Keys, FetchBegin(t, k) \/ InsertBegin(t, k)
    PROVE  IInv'
<1>0. CallTypes
    BY DEF IInv, Types
<1>1. /\ user = "open" /\ UNCHANGED <<expect, lock, table, files, thread, user, acked, genvars>>
      /\ \/ Return(t, "error")
         \/ \E s \in {"f_lock", "i_u"} :
               Goto(t, s) /\ Called(t, k)
    BY DEF FetchBegin, InsertBegin
<1>2. OthersSame(t) /\ UNCHANGED <<p0, p1, c1, buckets, modulus, fin, u, sh>>
    BY <1>0, <1>1 DEF CallTypes, Return, Called, Goto, OthersSame, lock, table, genvars
<1>3. CallTypes' /\ pcs'[t] \in {"idle", "f_lock", "i_u"}
    <2>1. CASE Return(t, "error")
        BY <1>0, <1>1, <2>1, ReturnTypes DEF CallTypes
    <2>2. ASSUME NEW s \in {"f_lock", "i_u"}, Goto(t, s), Called(t, k)
          PROVE  CallTypes' /\ pcs'[t] = s
        <3>1. key' = [key EXCEPT ![t] = k] /\ UNCHANGED <<n, b>>
            BY <2>2 DEF Called
        <3>2. key'[t] \in Keys /\ s \in CallStates
            BY <1>0, <3>1 DEF CallTypes, CallStates
        <3> QED BY <1>0, <1>1, <2>2, <3>1, <3>2, GotoTypes DEF CallTypes
    <2> QED BY <1>1, <2>1, <2>2
<1>4. Types'
    BY <1>1, <1>2, <1>3 DEF IInv, Types, IsCache, files, thread
<1>5. Caller(t)'
    BY <1>3 DEF Caller, Serialized, Searching
<1> QED BY <1>1, <1>2, <1>4, <1>5, CallerStep

\* A call returns: it gives back what it holds.
LEMMA ReturnStep ==
    ASSUME IInv, Generations, NEW t \in Threads, NEW r, pcs[t] # "idle", Return(t, r),
           expect' \in [Threads -> BOOLEAN],
           \A x \in Threads \ {t} : expect'[x] = expect[x],
           UNCHANGED <<p0, c1, buckets, modulus, files, thread, user>>,
           u' = u \/ (u = t /\ u' = NoOne), sh' \in {sh, sh \ {t}},
           p1' = p1 \/ (u = t /\ p1' = p1 \cup {key[t]}),
           acked' = acked \/ (acked' = acked \cup {key[t]} /\ key[t] \in p1'),
           UNCHANGED genvars \/ unlock_gen(t)
    PROVE  IInv'
<1>1. CallTypes
    BY DEF IInv, Types
<1>2. user = "open" /\ key[t] \in Keys
    BY InCall
<1>3. CallTypes' /\ pcs'[t] = "idle"
    BY <1>1, ReturnTypes
<1>4. /\ fin = "writing" => fin' = "writing"
      /\ \A x \in Threads \ {t} : held'[x] = held[x] /\ (x \in old => x \in old')
    BY GenUnlock DEF genvars
<1>5. \A x \in Threads \ {t} : pcs'[x] = pcs[x] /\ key'[x] = key[x] /\ n'[x] = n[x] /\ b'[x] = b[x]
    BY <1>1 DEF CallTypes, Return, Goto
<1>6. OthersSame(t)
    BY <1>4, <1>5, SMT DEF OthersSame
<1>7. Types'
    BY <1>2, <1>3 DEF IInv, Types, IsCache, files, thread
<1>8. Caller(t)'
    BY <1>3 DEF Caller, Serialized, Searching
<1> QED BY <1>2, <1>4, <1>6, <1>7, <1>8, CallerStep

LEMMA FetchReturnIInv ==
    ASSUME IInv, Generations, NEW t \in Threads, FetchPooled(t) \/ FetchCached(t) \/ FetchDone(t)
    PROVE  IInv'
<1>1. expect \in [Threads -> BOOLEAN]
    BY DEF IInv, Types, CallTypes
<1>2. CASE FetchPooled(t)
    BY <1>1, <1>2, ReturnStep DEF FetchPooled, ReleaseShared, table
<1>3. CASE FetchCached(t)
    BY <1>1, <1>3, ReturnStep DEF FetchCached, ReleaseShared, table
<1>4. CASE FetchDone(t)
    BY <1>1, <1>4, ReturnStep DEF FetchDone, lock, table
<1> QED BY <1>2, <1>3, <1>4

LEMMA ReadFailsIInv == ASSUME IInv, Generations, NEW t \in Threads, ReadFails(t) PROVE IInv'
<1>1. expect \in [Threads -> BOOLEAN] /\ pcs[t] # "idle"
    BY DEF IInv, Types, CallTypes, ReadFails
<1>2. /\ Return(t, "io_error") /\ (UNCHANGED genvars \/ unlock_gen(t))
      /\ UNCHANGED <<expect, table, files, thread, user, acked>>
    BY DEF ReadFails
<1>3. (u' = u \/ (u = t /\ u' = NoOne)) /\ sh' \in {sh, sh \ {t}}
    BY DEF ReadFails, ReleaseShared
<1> QED BY <1>1, <1>2, <1>3, ReturnStep DEF table

LEMMA InsertAddIInv == ASSUME IInv, Generations, NEW t \in Threads, InsertAdd(t) PROVE IInv'
<1>1. expect \in [Threads -> BOOLEAN] /\ u = t
    BY DEF IInv, Types, CallTypes, InsertAdd, Caller, Serialized
<1> QED BY <1>1, ReturnStep DEF InsertAdd

LEMMA InsertSerializeIInv == ASSUME IInv, NEW t \in Threads, InsertSerialize(t) PROVE IInv'
<1>1. CallTypes
    BY DEF IInv, Types
<1>2. /\ pcs[t] = "i_u" /\ u = NoOne /\ u' = t /\ Goto(t, "i_lock")
      /\ UNCHANGED <<key, n, b, res, expect, sh, blocked, table, files, thread, user, acked, genvars>>
    BY DEF InsertSerialize
<1>3. user = "open" /\ key[t] \in Keys
    BY <1>2, InCall
<1>4. CallTypes' /\ pcs'[t] = "i_lock"
    <2>1. "i_lock" \in CallStates
        BY DEF CallStates
    <2> QED BY <1>1, <1>2, <1>3, <2>1, GotoTypes DEF CallTypes
<1>5. OthersSame(t)
    BY <1>1, <1>2, NoOneAssumption DEF OthersSame, CallTypes, Goto, genvars, NoOne
<1>6. Types'
    BY <1>2, <1>4 DEF IInv, Types, IsCache, files, thread, table
<1>7. Caller(t)'
    BY <1>2, <1>4 DEF Caller, Serialized, Searching
<1> QED BY <1>2, <1>3, <1>5, <1>6, <1>7, CallerStep DEF table, genvars

\* The block a caller reads is the one it has found to be its key's.
LEMMA ReadBucketIInv == ASSUME IInv, NEW t \in Threads, ReadBucket(t) PROVE IInv'
<1>1. CallTypes /\ kf \in [Blocks -> Contents]
    BY DEF IInv, Types
<1>2. PICK s \in {"f_df", "i_df"} :
        /\ Goto(t, s) /\ pcs[t] = (IF s = "f_df" THEN "f_kf" ELSE "i_kf")
    BY DEF ReadBucket
<1>3. /\ b' = [b EXCEPT ![t] = kf[n[t]]]
      /\ UNCHANGED <<key, n, res, expect, lock, table, files, thread, user, acked, genvars>>
    BY DEF ReadBucket
<1>4. user = "open" /\ key[t] \in Keys /\ Caller(t)
    BY <1>2, InCall
<1>5. CallTypes' /\ pcs'[t] = s
    <2>1. s \in CallStates
        BY DEF CallStates
    <2>2. b' \in [Threads -> Contents]
        BY <1>1, <1>3 DEF CallTypes
    <2> QED BY <1>1, <1>2, <1>3, <1>4, <2>1, <2>2, GotoTypes DEF CallTypes
<1>6. OthersSame(t)
    BY <1>1, <1>2, <1>3 DEF OthersSame, CallTypes, Goto, lock, genvars
<1>7. Types'
    BY <1>3, <1>5 DEF IInv, Types, IsCache, files, thread, table, lock
<1>8. Caller(t)'
    <2>1. Seen(t)' = Seen(t)
        BY <1>1, <1>2, <1>3, <1>5 DEF Seen, CallTypes
    <2>2. Present' = Present
        BY <1>3 DEF Present, View, table, files
    <2>3. /\ u' = u /\ flushed' = flushed /\ expect' = expect /\ key' = key
          /\ pcs[t] \in Searching
        BY <1>2, <1>3 DEF lock, files, Searching
    <2>4. /\ Seen(t)' \subseteq Keys \cap flushed' \cap Present'
          /\ expect'[t] => key'[t] \in Seen(t)'
        BY <1>4, <2>1, <2>2, <2>3 DEF Caller
    <2>5. s \in Serialized => pcs[t] \in Searching \cap Serialized
        BY <1>2 DEF Serialized, Searching
    <2> QED BY <1>4, <1>5, <2>2, <2>3, <2>4, <2>5 DEF Caller
<1> QED BY <1>3, <1>4, <1>6, <1>7, <1>8, CallerStep DEF table, genvars

LEMMA ExistsUnlockIInv == ASSUME IInv, NEW t \in Threads, ExistsUnlock(t) PROVE IInv'
<1>1. CallTypes /\ IsCache(c1)
    BY DEF IInv, Types
<1>2. /\ pcs[t] = "i_c1" /\ Goto(t, "i_df") /\ sh' = sh \ {t}
      /\ b' = [b EXCEPT ![t] = Cached(n[t])]
      /\ UNCHANGED <<key, n, res, expect, u, table, files, thread, user, acked, genvars>>
    BY DEF ExistsUnlock, ReleaseShared
<1>3. user = "open" /\ key[t] \in Keys /\ Caller(t)
    BY <1>2, InCall
<1>4. n[t] \in DOMAIN c1 /\ Cached(n[t]) = c1[n[t]] /\ c1[n[t]] \in Contents
    BY <1>1, <1>2, <1>3 DEF Caller, Cached, IsCache, Contents
<1>5. CallTypes' /\ pcs'[t] = "i_df"
    <2>1. "i_df" \in CallStates
        BY DEF CallStates
    <2>2. b' \in [Threads -> Contents]
        BY <1>1, <1>2, <1>4 DEF CallTypes
    <2> QED BY <1>1, <1>2, <1>3, <2>1, <2>2, GotoTypes DEF CallTypes
<1>6. OthersSame(t)
    BY <1>1, <1>2 DEF OthersSame, CallTypes, Goto, genvars
<1>7. Types'
    BY <1>2, <1>5 DEF IInv, Types, IsCache, files, thread, table
<1>8. Caller(t)'
    <2>1. Seen(t)' = Seen(t)
        BY <1>1, <1>2, <1>4, <1>5 DEF Seen, CallTypes
    <2>2. Present' = Present
        BY <1>2 DEF Present, View, table, files
    <2>3. /\ u' = u /\ flushed' = flushed /\ expect' = expect /\ key' = key
          /\ pcs[t] \in Searching \cap Serialized
        BY <1>2 DEF files, Searching, Serialized
    <2>4. /\ Seen(t)' \subseteq Keys \cap flushed' \cap Present'
          /\ expect'[t] => key'[t] \in Seen(t)'
        BY <1>3, <2>1, <2>2, <2>3 DEF Caller
    <2> QED BY <1>3, <1>5, <2>2, <2>3, <2>4 DEF Caller
<1> QED BY <1>2, <1>3, <1>6, <1>7, <1>8, CallerStep DEF table, genvars

\* What the search of a bucket yields, for a caller that has one: it is never
\* an error, and it is whether the key is there.
LEMMA SearchResult ==
    ASSUME IInv, NEW t \in Threads, pcs[t] \in Searching
    PROVE  Search(key[t], Seen(t)) = IF key[t] \in Seen(t) THEN "found" ELSE "absent"
<1>1. Seen(t) \subseteq Keys \cap flushed
    BY DEF IInv, Caller
<1>2. Seen(t) # Torn
    BY <1>1, NotTorn
<1> QED BY <1>1, <1>2 DEF Search

LEMMA ExistsDoneIInv == ASSUME IInv, Generations, NEW t \in Threads, ExistsDone(t) PROVE IInv'
<1> DEFINE r == Search(key[t], b[t])
<1>1. CallTypes
    BY DEF IInv, Types
<1>2. /\ pcs[t] = "i_df" /\ (UNCHANGED genvars \/ unlock_gen(t))
      /\ UNCHANGED <<expect, sh, blocked, table, files, thread, user, acked>>
    BY DEF ExistsDone
<1>3. user = "open" /\ key[t] \in Keys /\ Caller(t) /\ u = t
    BY <1>2, InCall DEF Caller, Serialized
<1>4. CASE r = "absent"
    <2>1. /\ Goto(t, "i_add") /\ b' = [b EXCEPT ![t] = {}] /\ UNCHANGED <<key, n, res, u>>
        BY <1>4 DEF ExistsDone
    <2>2. CallTypes' /\ pcs'[t] = "i_add"
        <3>1. "i_add" \in CallStates
            BY DEF CallStates
        <3>2. b' \in [Threads -> Contents]
            BY <1>1, <2>1 DEF CallTypes, Contents
        <3> QED BY <1>1, <1>2, <1>3, <2>1, <3>1, <3>2, GotoTypes DEF CallTypes
    <2>3. /\ fin = "writing" => fin' = "writing"
          /\ \A x \in Threads \ {t} : held'[x] = held[x] /\ (x \in old => x \in old')
        BY <1>2, GenUnlock DEF genvars
    <2>4. OthersSame(t)
        BY <1>1, <1>2, <2>1, <2>3 DEF OthersSame, CallTypes, Goto
    <2>5. Types'
        BY <1>2, <2>1, <2>2 DEF IInv, Types, IsCache, files, thread, table
    <2>6. Caller(t)'
        <3>1. Present' = Present
            BY <1>2 DEF Present, View, table, files
        <3>2. pcs[t] \in Searching \cap Serialized /\ Seen(t) = b[t]
            BY <1>2 DEF Searching, Serialized, Seen
        <3>3. key[t] \notin b[t]
            BY <1>4, <3>2, SearchResult
        <3>4. key[t] \notin Present
            BY <1>3, <3>2, <3>3 DEF Caller
        <3> QED BY <1>3, <2>1, <2>2, <3>1, <3>4 DEF Caller, Serialized, Searching
    <2> QED BY <1>2, <1>3, <2>3, <2>4, <2>5, <2>6, CallerStep DEF table
<1>5. CASE r # "absent"
    <2>1. PICK a : Return(t, a) /\ u' = NoOne
        BY <1>5 DEF ExistsDone
    <2> QED BY <1>1, <1>2, <1>3, <2>1, ReturnStep DEF CallTypes, table
<1> QED BY <1>4, <1>5

\* A caller that takes m_ to look its key up finds the key in the pools, or
\* the bucket that has it if the table has it.
LEMMA LookUp ==
    ASSUME IInv, NEW t \in Threads, pcs[t] # "idle", key[t] \notin p0 \cup p1
    PROVE  /\ HomeOf(key[t]) \in Blocks
           /\ View(HomeOf(key[t])) \subseteq Keys \cap flushed \cap Present
           /\ key[t] \in Present => key[t] \in View(HomeOf(key[t]))
<1>1. key[t] \in Keys /\ Types /\ Clean
    BY InCall DEF IInv
<1>2. HomeOf(key[t]) \in 0 .. buckets - 1 /\ HomeOf(key[t]) \in Blocks
    BY <1>1, HomeInTable
<1>3. View(HomeOf(key[t])) \subseteq Keys \cap flushed
    BY <1>1, <1>2 DEF Clean
<1>4. View(HomeOf(key[t])) \subseteq Present
    BY <1>2 DEF Present
<1> QED BY <1>1, <1>2, <1>3, <1>4, FoundAtHome

\* A caller takes m_ and looks its key up: it goes on with m_ shared for a
\* pooled key or a cached bucket, and with a genlock for a bucket of the file.
LEMMA LookStep ==
    ASSUME IInv, Generations, NEW t \in Threads, NEW s, Goto(t, s),
           \/ pcs[t] = "f_lock" /\ s \in {"f_pool", "f_c1", "f_kf"}
           \/ pcs[t] = "i_lock" /\ s \in {"i_c1", "i_kf"},
           expect' = [expect EXCEPT ![t] = key[t] \in Present],
           n' = [n EXCEPT ![t] = HomeOf(key[t])],
           s = "f_pool" <=> key[t] \in p0 \cup p1,
           s \in {"f_c1", "i_c1"} => HomeOf(key[t]) \in DOMAIN c1,
           s \in {"f_kf", "i_kf"} => HomeOf(key[t]) \notin DOMAIN c1,
           IF s \in {"f_kf", "i_kf"} THEN lock_gen(t) /\ sh' = sh
                                     ELSE UNCHANGED genvars /\ sh' = sh \cup {t},
           UNCHANGED <<key, b, u, table, files, thread, user, acked>>
    PROVE  IInv'
<1>1. CallTypes
    BY DEF IInv, Types
<1>2. user = "open" /\ key[t] \in Keys /\ Caller(t)
    BY InCall
<1>3. HomeOf(key[t]) \in Blocks
    BY <1>2, HomeInTable DEF IInv
<1>4. CallTypes' /\ pcs'[t] = s
    <2>1. s \in CallStates
        BY DEF CallStates
    <2>2. n' \in [Threads -> Blocks] /\ expect' \in [Threads -> BOOLEAN]
        BY <1>1, <1>3, SMT DEF CallTypes
    <2> QED BY <1>1, <1>2, <2>1, <2>2, GotoTypes DEF CallTypes
<1>5. /\ fin' = fin /\ old' = old
      /\ \A x \in Threads \ {t} : held'[x] = held[x]
      /\ s \in {"f_kf", "i_kf"} => held'[t] # NoGen
    <2>1. CASE s \in {"f_kf", "i_kf"}
        BY <2>1, GenLock
    <2>2. CASE s \notin {"f_kf", "i_kf"}
        BY <2>2 DEF genvars
    <2> QED BY <2>1, <2>2
<1>6. OthersSame(t)
    BY <1>1, <1>5 DEF OthersSame, CallTypes, Goto
<1>7. Types'
    BY <1>4 DEF IInv, Types, IsCache, files, thread, table
<1>8. Caller(t)'
    <2>1. Present' = Present /\ UNCHANGED <<p0, p1, c1, kf, flushed>>
        BY DEF Present, View, table, files
    <2>2. n'[t] = HomeOf(key[t]) /\ expect'[t] = (key[t] \in Present)
        BY <1>1 DEF CallTypes
    <2>3. s \in Serialized => u' = t
        BY <1>2 DEF Caller, Serialized
    <2>4. CASE s = "f_pool"
        BY <1>4, <2>1, <2>4 DEF Caller, Serialized, Searching
    <2>5. CASE s # "f_pool"
        <3>1. Seen(t)' = View(HomeOf(key[t]))
            BY <1>4, <2>1, <2>2, <2>5, SMT DEF Seen, View
        <3>2. /\ Seen(t)' \subseteq Keys \cap flushed' \cap Present'
              /\ expect'[t] => key'[t] \in Seen(t)'
            BY <2>1, <2>2, <2>5, <3>1, LookUp
        <3>3. /\ s \in {"f_c1", "i_c1"} => t \in sh' /\ n'[t] \in DOMAIN c1'
              /\ s \in {"f_kf", "i_kf"} => held'[t] # NoGen /\ n'[t] \notin DOMAIN c1'
            BY <1>5, <2>1, <2>2
        <3>4. s # "i_add" /\ s # "f_pool"
            BY <2>5
        <3> QED BY <1>4, <2>1, <2>2, <2>3, <3>2, <3>3, <3>4 DEF Caller
    <2> QED BY <2>4, <2>5
<1> QED BY <1>2, <1>5, <1>6, <1>7, <1>8, CallerStep DEF table

LEMMA FetchLockIInv == ASSUME IInv, Generations, NEW t \in Threads, FetchLock(t) PROVE IInv'
<1>1. /\ pcs[t] = "f_lock" /\ expect' = [expect EXCEPT ![t] = key[t] \in Present]
      /\ n' = [n EXCEPT ![t] = HomeOf(key[t])]
      /\ UNCHANGED <<key, b, u, table, files, thread, user, acked>>
    BY DEF FetchLock
<1>2. n'[t] = HomeOf(key[t])
    BY <1>1 DEF IInv, Types, CallTypes
<1>3. CASE key[t] \in p0 \cup p1
    <2>1. Goto(t, "f_pool") /\ sh' = sh \cup {t} /\ UNCHANGED genvars
        BY <1>3 DEF FetchLock
    <2> QED BY <1>1, <1>3, <2>1, LookStep
<1>4. CASE key[t] \notin p0 \cup p1 /\ HomeOf(key[t]) \in DOMAIN c1
    <2>1. Goto(t, "f_c1") /\ sh' = sh \cup {t} /\ UNCHANGED genvars
        BY <1>2, <1>4 DEF FetchLock
    <2> QED BY <1>1, <1>4, <2>1, LookStep
<1>5. CASE key[t] \notin p0 \cup p1 /\ HomeOf(key[t]) \notin DOMAIN c1
    <2>1. Goto(t, "f_kf") /\ lock_gen(t) /\ sh' = sh
        BY <1>2, <1>5 DEF FetchLock
    <2> QED BY <1>1, <1>5, <2>1, LookStep
<1> QED BY <1>3, <1>4, <1>5

LEMMA InsertLockIInv == ASSUME IInv, Generations, NEW t \in Threads, InsertLock(t) PROVE IInv'
<1>1. /\ pcs[t] = "i_lock" /\ expect' = [expect EXCEPT ![t] = key[t] \in Present]
      /\ UNCHANGED <<table, files, thread, user, acked>>
    BY DEF InsertLock
<1>2. CallTypes /\ u = t
    BY <1>1, InCall DEF IInv, Types, Caller, Serialized
<1>3. CASE key[t] \in p0 \cup p1
    <2>1. Return(t, "exists") /\ u' = NoOne /\ UNCHANGED <<sh, genvars>>
        BY <1>3 DEF InsertLock
    <2>2. expect' \in [Threads -> BOOLEAN] /\ \A x \in Threads \ {t} : expect'[x] = expect[x]
        BY <1>1, <1>2, SMT DEF CallTypes
    <2> QED BY <1>1, <1>2, <2>1, <2>2, ReturnStep DEF table
<1>4. CASE key[t] \notin p0 \cup p1
    <2>1. n' = [n EXCEPT ![t] = HomeOf(key[t])] /\ UNCHANGED <<key, b, u>>
        BY <1>4 DEF InsertLock
    <2>2. n'[t] = HomeOf(key[t])
        BY <1>2, <2>1 DEF CallTypes
    <2>3. CASE HomeOf(key[t]) \in DOMAIN c1
        <3>1. Goto(t, "i_c1") /\ sh' = sh \cup {t} /\ UNCHANGED genvars
            BY <1>4, <2>2, <2>3 DEF InsertLock
        <3> QED BY <1>1, <1>4, <2>1, <2>3, <3>1, LookStep
    <2>4. CASE HomeOf(key[t]) \notin DOMAIN c1
        <3>1. Goto(t, "i_kf") /\ lock_gen(t) /\ sh' = sh
            BY <1>4, <2>2, <2>4 DEF InsertLock
        <3> QED BY <1>1, <1>4, <2>1, <2>4, <3>1, LookStep
    <2> QED BY <2>3, <2>4
<1> QED BY <1>3, <1>4

-----------------------------------------------------------------------------
(* The commit thread and close.  None of its steps changes the set of keys  *)
(* that callers see.                                                       *)

\* Steps that are not a caller's: pools and cache change only while no one
\* holds m_ shared, and a block of the key file only while no one reads it.
LEMMA CommitStep ==
    ASSUME IInv, Types', Clean', Commits', Closing',
           UNCHANGED <<calls, u, sh, held>>, Present' = Present, flushed \subseteq flushed',
           sh # {} => c1' = c1 /\ p0 \cup p1 \subseteq p0' \cup p1',
           \A t \in Threads : pcs[t] \in {"f_kf", "i_kf"} =>
               kf'[n[t]] = kf[n[t]] /\ (t \notin old' => n[t] \notin DOMAIN c1')
    PROVE  IInv'
<1>1. ASSUME NEW t \in Threads PROVE Caller(t)'
    <2>1. Caller(t) /\ UNCHANGED <<pcs, key, n, b, expect>>
        BY DEF IInv, calls
    <2>2. Seen(t)' = Seen(t)
        BY <2>1 DEF Caller, Seen
    <2>3. /\ pcs'[t] \in Serialized => u' = t
          /\ pcs'[t] = "f_pool" => t \in sh' /\ key'[t] \in p0' \cup p1'
          /\ pcs'[t] \in {"f_c1", "i_c1"} => t \in sh' /\ n'[t] \in DOMAIN c1'
          /\ pcs'[t] \in {"f_kf", "i_kf"} =>
                held'[t] # NoGen /\ (t \notin old' => n'[t] \notin DOMAIN c1')
        BY <2>1 DEF Caller
    <2> QED BY <2>1, <2>2, <2>3 DEF Caller
<1> QED BY <1>1 DEF IInv

\* Steps of it that leave pools, cache and files alone.
LEMMA PlainStep ==
    ASSUME IInv, Closing',
           UNCHANGED <<calls, u, sh, table, files, next, wr, held, old>>,
           todo' \subseteq Blocks, user' \in {"open", "closing", "closed", "error"},
           c' \in Unpublished \cup Committing \cup Pooling,
           c' \in Unpublished => c \in Unpublished,
           c' \notin Pooling => c \notin Pooling,
           c' \in {"prepare", "publish"} => c' = c,
           c' \notin {"keys", "failed", "dead"} => wr = NoBlock,
           c' = "keys" => /\ fin' = "writing"
                          /\ \/ c' = c /\ todo' = todo
                             \/ wr = NoBlock /\ todo' = DOMAIN c1,
           c' = "clear" => c' = c \/ (c = "keys" /\ todo = {})
    PROVE  IInv' /\ Present' = Present
<1>1. UNCHANGED <<p0, p1, c1, buckets, modulus, kf, flushed>>
    BY DEF table, files
<1>2. Types'
    BY <1>1 DEF IInv, Types, CallTypes, IsCache, calls
<1>3. Clean' /\ Present' = Present
    <2>1. (\A i : View(i)' = View(i)) /\ \A k : HomeOf(k)' = HomeOf(k)
        BY <1>1 DEF View, HomeOf
    <2>2. Present' = Present
        BY <1>1, <2>1 DEF Present
    <2> QED BY <1>1, <2>1, <2>2 DEF IInv, Clean
<1>4. Commits'
    <2>1. c' \in {"prepare", "publish"} => Prepared'
        BY <1>1 DEF IInv, Commits, Prepared, IsCache, NextHome, HomeOf
    <2>2. c' = "publish" => Flushed'
        <3>1. next' = next /\ Stored' = Stored /\ \A k : NextHome(k)' = NextHome(k)
            BY <1>1 DEF NextHome, Stored
        <3> QED BY <1>1, <3>1 DEF IInv, Commits, Flushed
    <2>3. c' = "keys" =>
            /\ todo' \subseteq DOMAIN c1' /\ wr' \in todo' \cup {NoBlock}
            /\ \A i \in DOMAIN c1' \ todo' : kf'[i] = c1'[i]
        BY <1>1 DEF IInv, Commits
    <2>4. c' = "clear" => \A i \in DOMAIN c1' : kf'[i] = c1'[i]
        BY <1>1 DEF IInv, Commits
    <2> QED BY <1>1, <2>1, <2>2, <2>3, <2>4 DEF IInv, Commits
<1>5. ASSUME NEW t \in Threads, pcs[t] \in {"f_kf", "i_kf"}
      PROVE  t \notin old' => n[t] \notin DOMAIN c1'
    BY <1>1, <1>5 DEF IInv, Caller
<1> QED BY <1>1, <1>2, <1>3, <1>4, <1>5, CommitStep

\* Sleeping and waking, the log, the end of the key-file writes, failure.
LEMMA WaitIInv ==
    ASSUME IInv, WaitTest \/ WaitSleep \/ WaitTimeout \/ WaitReturn
    PROVE  IInv' /\ Present' = Present
<1>1. /\ c \in {"pred", "nap", "sleep", "woke"} /\ c' \in {"nap", "sleep", "woke", "top", "last"}
      /\ c' = "last" => user # "open"
      /\ UNCHANGED <<calls, lock, table, files, last, next, todo, wr, ecb, user, acked, genvars>>
    BY DEF WaitTest, WaitSleep, WaitTimeout, WaitReturn
<1>2. UNCHANGED <<u, sh, p0, p1, c1, buckets, modulus, kf, held, old>>
    BY <1>1 DEF lock, table, files, genvars
<1>4. Present' = Present
    BY <1>2 DEF Present, View
<1>5. Closing'
    BY <1>1, <1>2, <1>4 DEF IInv, Closing, Committing, calls
<1>6. todo \subseteq Blocks /\ user \in {"open", "closing", "closed", "error"} /\ wr = NoBlock
    BY <1>1 DEF IInv, Types, Commits
<1>7. c \in Unpublished /\ c \notin Pooling /\ c' \in Unpublished
    BY <1>1 DEF Unpublished, Pooling
<1> QED BY <1>1, <1>2, <1>5, <1>6, <1>7, PlainStep

LEMMA CloseIInv == ASSUME IInv, close \/ CloseJoin \/ Block PROVE IInv' /\ Present' = Present
<1>1. /\ user' \in {"open", "closing", "closed", "error"}
      /\ user' # user => \A t \in Threads : pcs[t] = "idle"
      /\ user # "open" => user' # "open"
      /\ user' = "closed" => c = "done"
      /\ c' = c \/ (c = "sleep" /\ c' = "woke")
      /\ UNCHANGED <<calls, u, sh, table, files, last, next, todo, wr, ecb, acked, genvars>>
    BY DEF close, CloseJoin, Block, IInv, Types, Closing, lock, thread
<1>2. UNCHANGED <<p0, p1, c1, buckets, modulus, kf, held, fin, old>>
    BY <1>1 DEF table, files, genvars
<1>4. Present' = Present
    BY <1>2 DEF Present, View
<1>5. Closing'
    BY <1>1, <1>2, <1>4 DEF IInv, Closing, Committing, calls
<1>6. /\ todo \subseteq Blocks /\ (c = "keys" => fin = "writing")
      /\ c \notin {"keys", "failed", "dead"} => wr = NoBlock
      /\ c \in Unpublished \cup Committing \cup Pooling
    BY DEF IInv, Types, Commits
<1>7. c = "sleep" => c \in Unpublished /\ c \notin Pooling
    BY DEF Unpublished, Pooling
<1>8. "woke" \in Unpublished /\ "woke" \notin Pooling
    BY DEF Unpublished, Pooling
<1> QED BY <1>1, <1>2, <1>5, <1>6, <1>7, <1>8, PlainStep

\* A step of the mutex by the commit thread keeps everybody's genlock.
LEMMA GenCommit ==
    ASSUME finish \/ GenCommitFail \/ GenCommitEnd \/ GenSpuriousWakeup
    PROVE  UNCHANGED <<held, old>>
BY DEF finish, GenCommitFail, GenCommitEnd, GenSpuriousWakeup

LEMMA PhaseIInv ==
    ASSUME IInv, CommitLog \/ CommitSync \/ CommitDead \/ CommitFail \/ CommitFinish
                   \/ SpuriousWakeup
    PROVE  IInv' /\ Present' = Present
<1>1. /\ UNCHANGED <<calls, lock, table, files, last, next, wr, user, acked>>
      /\ ecb' = ecb \/ ecb' = TRUE
    BY DEF CommitLog, CommitSync, CommitDead, CommitFail, CommitFinish, SpuriousWakeup, thread
<1>2. UNCHANGED <<u, sh, p0, p1, c1, buckets, modulus, kf>>
    BY <1>1 DEF lock, table, files
<1>3. UNCHANGED <<held, old>>
    <2>1. \/ UNCHANGED genvars
          \/ finish \/ GenCommitFail \/ GenCommitEnd \/ GenSpuriousWakeup
        BY DEF CommitLog, CommitSync, CommitDead, CommitFail, CommitFinish, SpuriousWakeup
    <2> QED BY <2>1, GenCommit DEF genvars
<1>4. Present' = Present
    BY <1>2 DEF Present, View
<1>5. \/ c = "log" /\ c' = "finish" /\ todo' = todo
      \/ c = "keys" /\ todo = {} /\ c' = "clear" /\ todo' = todo
      \/ c = "failed" /\ c' = "dead" /\ ecb' = TRUE /\ todo' = todo
      \/ c \in {"prepare", "log", "keys"} /\ c' = "failed" /\ todo' = todo
      \/ c = "finish" /\ c' = "keys" /\ fin' = "writing" /\ todo' = DOMAIN c1
      \/ c' = c /\ todo' = todo /\ ecb' = ecb /\ (c = "keys" => fin' = "writing")
    <2>1. c = "keys" => fin = "writing"
        BY DEF IInv, Commits
    <2> QED BY <2>1 DEF CommitLog, CommitSync, CommitDead, CommitFail, CommitFinish,
                        SpuriousWakeup, thread, GenSpuriousWakeup
<1>6. Closing'
    BY <1>1, <1>2, <1>4, <1>5 DEF IInv, Closing, Committing, calls
<1>7. /\ todo' \subseteq Blocks /\ user \in {"open", "closing", "closed", "error"}
      /\ c \in Unpublished \cup Committing \cup Pooling
    BY <1>5 DEF IInv, Types, IsCache
<1>8. c' \notin {"keys", "failed", "dead"} => wr = NoBlock
    BY <1>5 DEF IInv, Commits
<1>9. /\ c' \in Unpublished \cup Committing \cup Pooling
      /\ c' \in Unpublished => c \in Unpublished
      /\ c' \notin Pooling => c \notin Pooling
    BY <1>5, <1>7 DEF Unpublished, Committing, Pooling
<1>10. c = "finish" => wr = NoBlock
    BY DEF IInv, Commits
<1> QED BY <1>1, <1>2, <1>3, <1>5, <1>6, <1>7, <1>8, <1>9, <1>10, PlainStep

\* The swap of the pools: the next table is as yet the table as it is.
LEMMA SwapIInv == ASSUME IInv, CommitSwap PROVE IInv' /\ Present' = Present
<1>1. /\ c \in {"top", "last"} /\ last' = (c = "last")
      /\ UNCHANGED <<calls, lock, c1, buckets, modulus, files, todo, wr, ecb, user, acked, genvars>>
    BY DEF CommitSwap
<1>2. UNCHANGED <<u, sh, kf, flushed, held, old>>
    BY <1>1 DEF lock, files, genvars
<1>3. c1 = NoCache /\ p0 = {} /\ wr = NoBlock
    BY <1>1 DEF IInv, Commits, Unpublished, Pooling
<1>4. \/ /\ p0' = p1 /\ p1' = {} /\ c' = "prepare"
         /\ next' = [c1 |-> NoCache, buckets |-> buckets, modulus |-> modulus]
      \/ /\ p1 = {} /\ UNCHANGED <<p0, p1, next>>
         /\ c' = (IF c = "top" THEN "pred" ELSE "done")
    BY <1>3 DEF CommitSwap
<1>5. Present' = Present /\ p0' \cup p1' = p0 \cup p1
    BY <1>1, <1>2, <1>3, <1>4 DEF Present, View
<1>6. Types'
    <2>1. c' \in {"prepare", "pred", "done"} /\ c' \in Unpublished
        BY <1>4 DEF Unpublished
    <2>2. next' = [c1 |-> next'.c1, buckets |-> next'.buckets, modulus |-> next'.modulus]
        BY <1>4 DEF IInv, Types
    <2>3. p0' \subseteq Keys /\ p1' \subseteq Keys
        BY <1>4 DEF IInv, Types
    <2> QED BY <1>1, <1>2, <2>1, <2>2, <2>3 DEF IInv, Types, CallTypes, IsCache, calls
<1>7. Clean'
    BY <1>1, <1>2 DEF IInv, Clean, View, HomeOf
<1>8. c' = "prepare" => Prepared'
    <2> SUFFICES ASSUME c' = "prepare" PROVE Prepared'
        OBVIOUS
    <2>1. next'.c1 = NoCache /\ next'.buckets = buckets' /\ next'.modulus = modulus'
        BY <1>1, <1>4, SMT
    <2>2. IsShape(buckets', modulus') /\ buckets' <= MaxBuckets /\ buckets' \in Nat
        BY <1>6 DEF Types, IsShape
    <2>3. DOMAIN NoCache = {} /\ IsCache(NoCache)
        BY DEF NoCache, IsCache
    <2>4. \A k \in Keys : NextHome(k)' = HomeOf(k)'
        BY <2>1 DEF NextHome, HomeOf
    <2>5. ASSUME NEW d \in Nat PROVE d <= d /\ \A i \in d .. d - 1 : FALSE
        BY <2>5, SMT
    <2>6. \A i \in buckets' .. next'.buckets - 1 : i \in DOMAIN next'.c1
        BY <2>1, <2>2, <2>5
    <2>7. buckets' <= next'.buckets /\ next'.buckets <= MaxBuckets
        BY <2>1, <2>2, <2>5
    <2> QED BY <2>1, <2>2, <2>3, <2>4, <2>6, <2>7 DEF Prepared
<1>9. Commits'
    BY <1>1, <1>3, <1>4, <1>8 DEF Commits, Pooling, Unpublished
<1>10. Closing'
    BY <1>1, <1>4, <1>5 DEF IInv, Closing, calls, Committing
<1>11. ASSUME NEW t \in Threads PROVE n[t] \notin DOMAIN c1'
    BY <1>1, <1>3 DEF NoCache
<1> QED BY <1>1, <1>2, <1>5, <1>6, <1>7, <1>9, <1>10, <1>11, CommitStep

\* Steps that prepare the next table leave what callers see alone.
LEMMA PrepareStep ==
    ASSUME IInv, c = "prepare", c' \in {"prepare", "publish"},
           UNCHANGED <<calls, lock, table, kf, last, todo, wr, ecb, user, acked, genvars>>,
           flushed \subseteq flushed',
           next' = [c1 |-> next'.c1, buckets |-> next'.buckets, modulus |-> next'.modulus],
           Prepared', c' = "publish" => Flushed'
    PROVE  IInv' /\ Present' = Present
<1>1. UNCHANGED <<u, sh, p0, p1, c1, buckets, modulus, held, old>>
    BY DEF lock, table, genvars
<1>2. Present' = Present
    BY <1>1 DEF Present, View
<1>3. Types'
    BY <1>1 DEF IInv, Types, CallTypes, IsCache, calls, Unpublished
<1>4. Clean'
    BY <1>1 DEF IInv, Clean, View, HomeOf
<1>5. c1 = NoCache /\ wr = NoBlock
    BY DEF IInv, Commits, Unpublished
<1>6. Commits'
    BY <1>1, <1>5 DEF Commits, Unpublished, Pooling
<1>7. Closing'
    BY <1>1, <1>2 DEF IInv, Closing, calls, Committing
<1>8. ASSUME NEW t \in Threads PROVE n[t] \notin DOMAIN c1'
    BY <1>1, <1>5 DEF NoCache
<1> QED BY <1>1, <1>2, <1>3, <1>4, <1>6, <1>7, <1>8, CommitStep

\* A split gives some keys of one bucket another bucket, the new last one, and
\* puts both into the next table's cache.
LEMMA SplitIInv == ASSUME IInv, CommitSplit PROVE IInv' /\ Present' = Present
<1> DEFINE from == SplitFrom(next.buckets, next.modulus)
<1>1. /\ c = "prepare" /\ next.buckets < MaxBuckets /\ c' = c /\ flushed' = flushed
      /\ UNCHANGED <<calls, lock, table, kf, last, todo, wr, ecb, user, acked, genvars>>
    BY DEF CommitSplit, files
<1>2. /\ next'.c1 = [i \in DOMAIN next.c1 \cup {from, SplitTo(next.buckets)} |-> {}]
      /\ next'.buckets = next.buckets + 1
      /\ next'.modulus = SplitModulus(next.buckets, next.modulus)
      /\ next' = [c1 |-> next'.c1, buckets |-> next'.buckets, modulus |-> next'.modulus]
    BY DEF CommitSplit
<1>3. Prepared /\ IsShape(next.buckets, next.modulus)
    BY <1>1 DEF IInv, Commits, Prepared
<1>4. /\ IsShape(next'.buckets, next'.modulus)
      /\ from \in 0 .. next.buckets - 1 /\ SplitTo(next.buckets) = next.buckets
    BY <1>2, <1>3, SplitKeepsShape, SMT
<1>5. /\ next.buckets \in Nat /\ buckets \in Nat /\ buckets <= next.buckets
      /\ DOMAIN next.c1 \subseteq 0 .. next.buckets - 1
      /\ \A i \in buckets .. next.buckets - 1 : i \in DOMAIN next.c1
    BY <1>3 DEF Prepared, IsShape, IInv, Types
<1>6. DOMAIN next'.c1 = DOMAIN next.c1 \cup {from, next.buckets}
    BY <1>2, <1>4
<1>7. Prepared'
    <2>1. /\ DOMAIN next'.c1 \subseteq 0 .. next'.buckets - 1
          /\ \A i \in buckets .. next'.buckets - 1 : i \in DOMAIN next'.c1
        BY <1>2, <1>4, <1>5, <1>6, SMT
    <2>2. IsCache(next'.c1)
        <3>1. DOMAIN next'.c1 \subseteq Blocks
            BY <1>1, <1>2, <1>5, <2>1, MaxBucketsAssumption, SMT DEF Blocks
        <3> QED BY <1>2, <3>1 DEF IsCache
    <2>3. buckets <= next'.buckets /\ next'.buckets <= MaxBuckets
        BY <1>1, <1>2, <1>5, MaxBucketsAssumption, SMT
    <2>4. ASSUME NEW k \in Keys
          PROVE  \/ NextHome(k)' = HomeOf(k)
                 \/ NextHome(k)' \in DOMAIN next'.c1 /\ HomeOf(k) \in DOMAIN next'.c1
        <3>1. hash[k] \in Nat
            BY HashAssumption
        <3>2. NextHome(k)' = NextHome(k) \/ (NextHome(k) = from /\ NextHome(k)' = next.buckets)
            BY <1>2, <1>3, <1>4, <3>1, SplitOfShape, SMT DEF NextHome
        <3>3. \/ NextHome(k) = HomeOf(k)
              \/ NextHome(k) \in DOMAIN next.c1 /\ HomeOf(k) \in DOMAIN next.c1
            BY <1>3 DEF Prepared
        <3> QED BY <1>6, <3>2, <3>3
    <2>5. buckets' = buckets /\ \A k \in Keys : HomeOf(k)' = HomeOf(k)
        BY <1>1 DEF table, HomeOf
    <2> QED BY <1>4, <2>1, <2>2, <2>3, <2>4, <2>5 DEF Prepared
<1> QED BY <1>1, <1>2, <1>7, PrepareStep

\* The pooled keys reach their buckets.
LEMMA FlushIInv == ASSUME IInv, CommitFlush PROVE IInv' /\ Present' = Present
<1>1. /\ c = "prepare" /\ c' = "publish" /\ flushed' = flushed \cup p0
      /\ UNCHANGED <<calls, lock, table, kf, last, todo, wr, ecb, user, acked, genvars>>
    BY DEF CommitFlush
<1>2. UNCHANGED <<p0, buckets, modulus>>
    BY <1>1 DEF table
<1>3. Prepared /\ p0 \subseteq Keys /\ c1 = NoCache
    BY <1>1 DEF IInv, Commits, Types, Unpublished
<1>4. /\ next' = [next EXCEPT !.c1 = [i \in DOMAIN next.c1 \cup {NextHome(k) : k \in p0} |->
                                        {k \in p0 \cup Stored : NextHome(k) = i}]]
      /\ next = [c1 |-> next.c1, buckets |-> next.buckets, modulus |-> next.modulus]
    BY DEF CommitFlush, NextHome, Stored, IInv, Types
<1>5. /\ next'.c1 = [i \in DOMAIN next.c1 \cup {NextHome(k) : k \in p0} |->
                       {k \in p0 \cup Stored : NextHome(k) = i}]
      /\ next'.buckets = next.buckets /\ next'.modulus = next.modulus
      /\ next' = [c1 |-> next'.c1, buckets |-> next'.buckets, modulus |-> next'.modulus]
    BY <1>4
<1>6. Stored' = Stored /\ Stored \subseteq Keys
    <2>1. \A i \in 0 .. buckets - 1 : View(i) = kf[i]
        BY <1>3 DEF View, NoCache
    <2> QED BY <1>1, <1>2, <2>1 DEF Stored, IInv, Clean
<1>7. \A k \in Keys : /\ NextHome(k)' = NextHome(k) /\ HomeOf(k)' = HomeOf(k)
                      /\ NextHome(k) \in 0 .. next.buckets - 1
    <2>1. \A k \in Keys : hash[k] \in Nat
        BY HashAssumption
    <2> QED BY <1>2, <1>3, <1>5, <2>1, IndexOfShape DEF NextHome, HomeOf, Prepared
<1>8. Prepared'
    <2>1. DOMAIN next.c1 \subseteq DOMAIN next'.c1 /\ DOMAIN next'.c1 \subseteq 0 .. next.buckets - 1
        BY <1>3, <1>5, <1>7 DEF Prepared
    <2>2. IsCache(next'.c1)
        <3>0. next.buckets \in Nat /\ next.buckets <= MaxBuckets
            BY <1>3 DEF Prepared, IsShape
        <3>1. DOMAIN next'.c1 \subseteq Blocks
            BY <2>1, <3>0, MaxBucketsAssumption, SMT DEF Blocks
        <3>2. \A i : {k \in p0 \cup Stored : NextHome(k) = i} \in SUBSET Keys
            BY <1>3, <1>6
        <3>3. next'.c1 \in [DOMAIN next'.c1 -> SUBSET Keys]
            BY <1>5, <3>2
        <3> QED BY <3>1, <3>3 DEF IsCache
    <2> QED BY <1>2, <1>3, <1>5, <1>7, <2>1, <2>2 DEF Prepared
<1>9. Flushed'
    <2>1. \A k \in p0 \cup Stored : NextHome(k)' = NextHome(k)
        BY <1>3, <1>6, <1>7
    <2>2. \A k \in p0 : NextHome(k) \in DOMAIN next'.c1
        BY <1>5
    <2>3. \A i \in DOMAIN next'.c1 : next'.c1[i] = {k \in p0 \cup Stored : NextHome(k) = i}
        BY <1>5
    <2> QED BY <1>1, <1>2, <1>6, <2>1, <2>2, <2>3 DEF Flushed
<1> QED BY <1>1, <1>5, <1>8, <1>9, PrepareStep

\* start() makes every holder of a genlock an old reader.
LEMMA GenStart ==
    ASSUME start
    PROVE  held' = held /\ \A t \in Threads : held[t] # NoGen => t \in old'
BY DEF start, Inside

\* The keys of the table that is published are those of the pool and of the
\* table before, each in its bucket.
LEMMA PublishedTable ==
    ASSUME IInv, CommitPublish
    PROVE  Clean' /\ Present' = Present
<1>1. /\ c = "publish" /\ c1' = next.c1 /\ p0' = {} /\ p1' = p1
      /\ buckets' = next.buckets /\ modulus' = next.modulus /\ UNCHANGED <<kf, flushed>>
    BY DEF CommitPublish, files
<1>2. Types /\ Clean /\ Prepared /\ Flushed /\ c1 = NoCache
    BY <1>1 DEF IInv, Commits, Unpublished
<1>3. \A i \in 0 .. buckets - 1 : /\ View(i) = kf[i] /\ kf[i] \subseteq Keys \cap flushed
                                  /\ \A k \in kf[i] : HomeOf(k) = i
    BY <1>2 DEF View, NoCache, Clean
<1>4. Stored \subseteq Keys \cap flushed /\ p0 \subseteq Keys \cap flushed
    BY <1>2, <1>3 DEF Stored, Types, Flushed
<1>5. \A k \in Keys : HomeOf(k)' = NextHome(k)
    BY <1>1 DEF HomeOf, NextHome
<1>6. /\ buckets \in Nat /\ next.buckets \in Nat /\ buckets <= next.buckets
      /\ DOMAIN next.c1 \subseteq 0 .. next.buckets - 1
      /\ \A i \in buckets .. next.buckets - 1 : i \in DOMAIN next.c1
    BY <1>2 DEF Prepared, Types, IsShape
<1>7. \A i \in DOMAIN next.c1 : View(i)' = {k \in p0 \cup Stored : NextHome(k) = i}
    BY <1>1, <1>2 DEF View, Flushed
<1>8. \A i \in (0 .. next.buckets - 1) \ DOMAIN next.c1 : i \in 0 .. buckets - 1 /\ View(i)' = kf[i]
    BY <1>1, <1>6, SMT DEF View
<1>9. ASSUME NEW i \in 0 .. next.buckets - 1
      PROVE  View(i)' \subseteq Keys \cap flushed /\ \A k \in View(i)' : NextHome(k) = i
    <2>1. CASE i \in DOMAIN next.c1
        BY <1>4, <1>7, <2>1
    <2>2. CASE i \notin DOMAIN next.c1
        <3>1. i \in 0 .. buckets - 1 /\ View(i)' = kf[i]
            BY <1>8, <2>2
        <3>2. \A k \in kf[i] : k \in Keys /\ HomeOf(k) = i
            BY <1>3, <3>1
        <3> QED BY <1>2, <1>3, <2>2, <3>1, <3>2, SMT DEF Prepared
    <2> QED BY <2>1, <2>2
<1>10. Clean'
    BY <1>1, <1>5, <1>6, <1>9 DEF Clean
<1>11. Present = p0 \cup p1 \cup Stored
    BY <1>3 DEF Present, Stored
<1>12. ASSUME NEW k \in Present' PROVE k \in Present
    <2>1. CASE k \in p1
        BY <1>11, <2>1
    <2>2. ASSUME NEW i \in 0 .. next.buckets - 1, k \in View(i)' PROVE k \in p0 \cup Stored
        BY <1>7, <1>8, <2>2 DEF Stored
    <2> QED BY <1>1, <1>11, <2>1, <2>2 DEF Present
<1>13. ASSUME NEW k \in p0 \cup Stored
       PROVE  \E i \in 0 .. next.buckets - 1 : k \in View(i)'
    <2>1. CASE NextHome(k) \in DOMAIN next.c1
        BY <1>6, <1>7, <2>1
    <2>2. CASE NextHome(k) \notin DOMAIN next.c1
        <3>1. k \in Keys /\ k \notin p0
            BY <1>2, <1>4, <2>2 DEF Flushed
        <3>2. PICK i \in 0 .. buckets - 1 : k \in kf[i]
            BY <3>1 DEF Stored
        <3>3. HomeOf(k) = i /\ NextHome(k) = i
            BY <1>2, <1>3, <2>2, <3>1, <3>2 DEF Prepared
        <3>4. i \in (0 .. next.buckets - 1) \ DOMAIN next.c1
            BY <1>6, <2>2, <3>3, SMT
        <3> QED BY <1>8, <3>2, <3>4
    <2> QED BY <2>1, <2>2
<1>14. Present \subseteq Present'
    BY <1>1, <1>11, <1>13 DEF Present
<1> QED BY <1>10, <1>12, <1>14

LEMMA PublishIInv == ASSUME IInv, CommitPublish PROVE IInv' /\ Present' = Present
<1>1. /\ c = "publish" /\ sh = {} /\ c1' = next.c1 /\ p0' = {} /\ p1' = p1
      /\ buckets' = next.buckets /\ modulus' = next.modulus
      /\ next' = [next EXCEPT !.c1 = c1] /\ start /\ c' = "log"
      /\ UNCHANGED <<calls, lock, files, last, todo, wr, ecb, user, acked>>
    BY DEF CommitPublish, Exclusive
<1>2. UNCHANGED <<u, sh, kf, flushed>>
    BY <1>1 DEF lock, files
<1>3. Clean' /\ Present' = Present
    BY PublishedTable
<1>4. held' = held /\ \A t \in Threads : held[t] # NoGen => t \in old'
    BY <1>1, GenStart
<1>5. Types'
    <2>1. IsCache(c1') /\ IsShape(buckets', modulus') /\ buckets' <= MaxBuckets
        BY <1>1 DEF IInv, Commits, Prepared
    <2>2. next' = [c1 |-> next'.c1, buckets |-> next'.buckets, modulus |-> next'.modulus]
        BY <1>1 DEF IInv, Types
    <2> QED BY <1>1, <1>2, <2>1, <2>2 DEF IInv, Types, CallTypes, calls, Committing
<1>6. Commits'
    BY <1>1 DEF IInv, Commits, Unpublished, Pooling
<1>7. Closing'
    BY <1>1, <1>3 DEF IInv, Closing, calls, Committing
<1>8. ASSUME NEW t \in Threads, pcs[t] \in {"f_kf", "i_kf"} PROVE t \in old'
    BY <1>4, <1>8 DEF IInv, Caller
<1> QED BY <1>1, <1>2, <1>3, <1>4, <1>5, <1>6, <1>7, <1>8, CommitStep

\* While commit writes the key file, no reader is left whose block is cached.
LEMMA NoReaderOfCached ==
    ASSUME IInv, Generations, c = "keys", NEW t \in Threads, pcs[t] \in {"f_kf", "i_kf"}
    PROVE  n[t] \notin DOMAIN c1 /\ t \notin old
<1>1. fin = "writing"
    BY DEF IInv, Commits
<1>2. old = {}
    BY <1>1 DEF Generations
<1> QED BY <1>2 DEF IInv, Caller

\* A write to a cached block is not seen by anybody.
LEMMA WriteStep ==
    ASSUME IInv, Generations, c = "keys", NEW i \in DOMAIN c1, NEW x \in Contents,
           kf' = [kf EXCEPT ![i] = x],
           UNCHANGED <<calls, lock, table, flushed, c, last, next, ecb, user, acked, genvars>>,
           todo' \subseteq Blocks, wr' \in Blocks \cup {NoBlock}, Commits'
    PROVE  IInv' /\ Present' = Present
<1>1. UNCHANGED <<u, sh, p0, p1, c1, buckets, modulus, held, old>>
    BY DEF lock, table, genvars
<1>2. kf \in [Blocks -> Contents] /\ kf' \in [Blocks -> Contents]
      /\ \A j \in Blocks \ {i} : kf'[j] = kf[j]
    BY DEF IInv, Types
<1>3. buckets \in Nat /\ 0 .. buckets - 1 \subseteq Blocks
    BY MaxBucketsAssumption, SMT DEF IInv, Types, IsShape, Blocks
<1>4. \A j \in 0 .. buckets - 1 : View(j)' = View(j)
    BY <1>1, <1>2, <1>3 DEF View
<1>5. Present' = Present
    BY <1>1, <1>4 DEF Present
<1>6. Clean'
    BY <1>1, <1>4, SMT DEF IInv, Clean, HomeOf
<1>7. Types'
    BY <1>1, <1>2 DEF IInv, Types, CallTypes, IsCache, calls
<1>8. Closing'
    BY <1>1, <1>5 DEF IInv, Closing, calls
<1>9. ASSUME NEW t \in Threads, pcs[t] \in {"f_kf", "i_kf"}
       PROVE  kf'[n[t]] = kf[n[t]] /\ n[t] \notin DOMAIN c1'
    <2>1. n[t] \in Blocks /\ n[t] \notin DOMAIN c1
        BY <1>9, NoReaderOfCached DEF IInv, Types, CallTypes
    <2> QED BY <1>1, <1>2, <2>1
<1> QED BY <1>1, <1>5, <1>6, <1>7, <1>8, <1>9, CommitStep

LEMMA WriteBeginIInv == ASSUME IInv, Generations, NEW i \in todo, WriteBegin(i) PROVE IInv' /\ Present' = Present
<1>1. /\ c = "keys" /\ kf' = [kf EXCEPT ![i] = Torn] /\ wr' = i
      /\ UNCHANGED <<calls, lock, table, flushed, c, last, next, todo, ecb, user, acked, genvars>>
    BY DEF WriteBegin
<1>2. /\ todo \subseteq DOMAIN c1 /\ todo \subseteq Blocks /\ fin = "writing" /\ Torn \in Contents
      /\ DOMAIN c1 \subseteq Blocks /\ kf \in [Blocks -> Contents]
      /\ \A j \in DOMAIN c1 \ todo : kf[j] = c1[j]
    BY <1>1 DEF IInv, Types, Commits, Contents, IsCache
<1>3. \A j \in DOMAIN c1 \ todo : kf'[j] = c1[j]
    BY <1>1, <1>2
<1>4. Commits'
    BY <1>1, <1>2, <1>3 DEF IInv, Commits, table, genvars, Unpublished, Pooling
<1> QED BY <1>1, <1>2, <1>4, WriteStep

LEMMA WriteEndIInv == ASSUME IInv, Generations, WriteEnd PROVE IInv' /\ Present' = Present
<1>1. /\ c = "keys" /\ wr # NoBlock /\ kf' = [kf EXCEPT ![wr] = c1[wr]]
      /\ todo' = todo \ {wr} /\ wr' = NoBlock
      /\ UNCHANGED <<calls, lock, table, flushed, c, last, next, ecb, user, acked, genvars>>
    BY DEF WriteEnd
<1>2. /\ todo \subseteq DOMAIN c1 /\ todo \subseteq Blocks /\ fin = "writing" /\ wr \in todo
      /\ DOMAIN c1 \subseteq Blocks /\ kf \in [Blocks -> Contents]
      /\ \A j \in DOMAIN c1 \ todo : kf[j] = c1[j]
    BY <1>1 DEF IInv, Types, Commits, IsCache
<1>3. c1[wr] \in Contents
    BY <1>2 DEF IInv, Types, IsCache, Contents
<1>4. \A j \in DOMAIN c1 \ todo' : kf'[j] = c1[j]
    BY <1>1, <1>2
<1>5. Commits'
    BY <1>1, <1>2, <1>4 DEF IInv, Commits, table, genvars, Unpublished, Pooling
<1> QED BY <1>1, <1>2, <1>3, <1>5, WriteStep

\* What is written is what readers saw in the cache, which can go.
LEMMA EndIInv == ASSUME IInv, CommitEnd PROVE IInv' /\ Present' = Present
<1>1. /\ c = "clear" /\ sh = {} /\ c1' = NoCache /\ c' = (IF last THEN "done" ELSE "pred")
      /\ GenCommitEnd
      /\ UNCHANGED <<calls, lock, p0, p1, buckets, modulus, files, last, next, todo, wr, ecb,
                     user, acked>>
    BY DEF CommitEnd, Exclusive
<1>2. UNCHANGED <<u, sh, kf, flushed>>
    BY <1>1 DEF lock, files
<1>3. p0 = {} /\ wr = NoBlock /\ \A i \in DOMAIN c1 : kf[i] = c1[i]
    BY <1>1 DEF IInv, Commits, Pooling
<1>4. \A i \in 0 .. buckets - 1 : View(i)' = View(i)
    BY <1>1, <1>2, <1>3 DEF View, NoCache
<1>5. Present' = Present /\ Clean'
    <2>1. DOMAIN c1' = {}
        BY <1>1 DEF NoCache
    <2> QED BY <1>1, <1>2, <1>4, <2>1, SMT DEF IInv, Clean, Present, HomeOf
<1>6. UNCHANGED <<held, old>>
    BY <1>1, GenCommit
<1>7. Types'
    <2>1. IsCache(c1') /\ c' \in Unpublished
        BY <1>1 DEF NoCache, IsCache, Unpublished
    <2> QED BY <1>1, <1>2, <2>1 DEF IInv, Types, CallTypes, calls
<1>8. Commits'
    BY <1>1, <1>3 DEF Commits, Unpublished, Pooling
<1>9. Closing'
    BY <1>1, <1>5 DEF IInv, Closing, calls, Committing
<1>10. ASSUME NEW t \in Threads PROVE n[t] \notin DOMAIN c1'
    BY <1>1 DEF NoCache
<1> QED BY <1>1, <1>2, <1>5, <1>6, <1>7, <1>8, <1>9, <1>10, CommitStep

-----------------------------------------------------------------------------
(* The invariant *)

LEMMA InitIInv == ASSUME Init PROVE IInv
<1>2. DOMAIN NoCache = {} /\ IsCache(NoCache)
    BY DEF NoCache, IsCache
<1>3. IsShape(1, 1)
    BY SMT DEF IsShape
<1>4. 0 \in Blocks /\ {} \in Contents /\ Torn \in Contents
    BY MaxBucketsAssumption, SMT DEF Blocks, Contents
<1>5. CallTypes
    BY <1>4 DEF Init, CallTypes, CallStates
<1>6. Types
    BY <1>2, <1>3, <1>4, <1>5, MaxBucketsAssumption, SMT DEF Init, Types, Unpublished
<1>7. \A i \in 0 .. buckets - 1 : View(i) = {}
    BY <1>2, <1>4, SMT DEF Init, View
<1>8. Clean
    BY <1>2, <1>7 DEF Init, Clean
<1>9. Commits
    BY DEF Init, Commits, Unpublished, Pooling
<1>10. Closing
    BY DEF Init, Closing, Committing
<1>11. \A t \in Threads : Caller(t)
    BY DEF Init, Caller, Serialized, Searching
<1> QED BY <1>6, <1>8, <1>9, <1>10, <1>11 DEF IInv

LEMMA StutterIInv == ASSUME IInv, UNCHANGED vars PROVE IInv'
<1>1. /\ UNCHANGED <<calls, lock, table, files, thread, user, acked, genvars>>
      /\ UNCHANGED <<p0, p1, c1, buckets, modulus, kf, c, last, ecb, pcs>>
    BY DEF vars, calls, table, files, thread
<1>2. Closing'
    BY <1>1 DEF IInv, Closing, Present, View
<1>3. UNCHANGED <<held, fin, old>>
    BY <1>1 DEF genvars
<1>4. /\ todo \subseteq Blocks /\ user \in {"open", "closing", "closed", "error"}
      /\ c \in Unpublished \cup Committing \cup Pooling
      /\ c \notin {"keys", "failed", "dead"} => wr = NoBlock
      /\ c = "keys" => fin = "writing"
    BY DEF IInv, Types, Commits
<1> QED BY <1>1, <1>2, <1>3, <1>4, PlainStep DEF lock, thread

LEMMA NextIInv == ASSUME IInv, Generations, [Next]_vars PROVE IInv'
<1>1. ASSUME NEW t \in Threads, Call(t) PROVE IInv'
    BY <1>1, BeginIInv DEF Call
<1>2. ASSUME NEW t \in Threads, Step(t) PROVE IInv'
    BY <1>2, FetchLockIInv, FetchReturnIInv, ReadBucketIInv, InsertSerializeIInv,
       InsertLockIInv, ExistsUnlockIInv, ExistsDoneIInv, InsertAddIInv DEF Step
<1>7. ASSUME NEW t \in Threads, ReadFails(t) PROVE IInv'
    BY <1>7, ReadFailsIInv
<1>3. CASE run
    BY <1>3, SwapIInv, SplitIInv, FlushIInv, PublishIInv, PhaseIInv, WriteBeginIInv,
       WriteEndIInv, EndIInv, WaitIInv DEF run
<1>4. CASE CommitFail \/ SpuriousWakeup
    BY <1>4, PhaseIInv
<1>5. CASE Block \/ close \/ CloseJoin
    BY <1>5, CloseIInv
<1>6. CASE UNCHANGED vars
    BY <1>6, StutterIInv
<1> QED BY <1>1, <1>2, <1>7, <1>3, <1>4, <1>5, <1>6 DEF Next

-----------------------------------------------------------------------------
(* The store implements KeyValue *)

\* What a caller's step is for KeyValue depends on where it goes.
LEMMA OpStep ==
    ASSUME CallTypes, NEW t \in Threads, NEW s, Goto(t, s),
           \A x \in Threads \ {t} : expect'[x] = expect[x]
    PROVE  /\ Op' = [Op EXCEPT ![t] = IF s = "idle" THEN "none"
                                      ELSE IF s \in Fetching THEN "fetch" ELSE "insert"]
           /\ Missed' = [Missed EXCEPT ![t] = s \in Fetching \ {"f_lock"} /\ ~expect'[t]]
<1>1. pcs'[t] = s /\ \A x \in Threads \ {t} : pcs'[x] = pcs[x]
    BY DEF CallTypes, Goto
<1> QED BY <1>1 DEF Op, Missed

LEMMA SameValue ==
    ASSUME NEW t \in Threads
    PROVE  [Op EXCEPT ![t] = Op[t]] = Op /\ [Missed EXCEPT ![t] = Missed[t]] = Missed
BY DEF Op, Missed

\* A return is a return of KeyValue if the answer is one of its.
LEMMA ReturnImplements ==
    ASSUME IInv, NEW t \in Threads, NEW r, Return(t, r), r \in Promise!Answers(t),
           \A x \in Threads \ {t} : expect'[x] = expect[x], ecb' = ecb,
           Present' = IF r = "inserted" THEN Present \cup {key[t]} ELSE Present
    PROVE  Promise!Return(t)
<1>1. CallTypes
    BY DEF IInv, Types
<1>2. /\ res' = [res EXCEPT ![t] = r] /\ key' = [key EXCEPT ![t] = NoOne] /\ Goto(t, "idle")
    BY DEF Return
<1>3. "idle" \notin Fetching
    BY DEF Fetching
<1>4. Op' = [Op EXCEPT ![t] = "none"] /\ Missed' = [Missed EXCEPT ![t] = FALSE]
    BY <1>1, <1>2, <1>3, OpStep
<1> QED BY <1>2, <1>4 DEF Promise!Return

\* A step of a call that is neither its call, its look nor its return.
LEMMA CallStutters ==
    ASSUME IInv, NEW t \in Threads, NEW s, Goto(t, s), pcs[t] # "idle", s # "idle",
           s \in Fetching <=> pcs[t] \in Fetching,
           s \in Fetching => pcs[t] # "f_lock" /\ s # "f_lock" /\ expect'[t] = expect[t],
           \A x \in Threads \ {t} : expect'[x] = expect[x],
           UNCHANGED <<key, res, ecb>>, Present' = Present
    PROVE  UNCHANGED Promise!vars
<1>1. CallTypes
    BY DEF IInv, Types
<1>2. Op[t] = (IF s = "idle" THEN "none" ELSE IF s \in Fetching THEN "fetch" ELSE "insert")
    BY DEF Op
<1>3. Missed[t] = (s \in Fetching \ {"f_lock"} /\ ~expect'[t])
    BY DEF Missed
<1>4. Op' = [Op EXCEPT ![t] = Op[t]] /\ Missed' = [Missed EXCEPT ![t] = Missed[t]]
    BY <1>1, <1>2, <1>3, OpStep
<1>5. Op' = Op /\ Missed' = Missed
    BY <1>4, SameValue
<1> QED BY <1>5 DEF Promise!vars

LEMMA BeginImplements ==
    ASSUME IInv, NEW t \in Threads, NEW k \in Keys, FetchBegin(t, k) \/ InsertBegin(t, k)
    PROVE  Promise!Next
<1>1. /\ pcs[t] = "idle" /\ UNCHANGED <<expect, table, files, ecb>>
      /\ IF ecb THEN Return(t, "error")
         ELSE \E s \in {"f_lock", "i_u"} : Goto(t, s) /\ Called(t, k)
    BY DEF FetchBegin, InsertBegin, thread
<1>2. CallTypes /\ Present' = Present
    BY <1>1, SMT DEF IInv, Types, Present, View, table, files
<1>3. CASE ecb
    <2>1. "error" \in Promise!Answers(t)
        BY <1>3 DEF Promise!Answers
    <2> QED BY <1>1, <1>2, <1>3, <2>1, ReturnImplements DEF Promise!Next
<1>4. CASE ~ecb
    <2>1. PICK s \in {"f_lock", "i_u"} :
              /\ Goto(t, s) /\ key' = [key EXCEPT ![t] = k] /\ res' = [res EXCEPT ![t] = "none"]
        BY <1>1, <1>4 DEF Called
    <2>2. Op[t] = "none" /\ Missed[t] = FALSE
        BY <1>1 DEF Op, Missed, Fetching
    <2>3. \E o \in {"fetch", "insert"} : Op' = [Op EXCEPT ![t] = o]
        BY <1>1, <1>2, <2>1, OpStep DEF Fetching
    <2>4. Missed' = Missed
        <3>1. s \notin Fetching \ {"f_lock"}
            BY DEF Fetching
        <3>2. Missed' = [Missed EXCEPT ![t] = Missed[t]]
            BY <1>1, <1>2, <2>1, <2>2, <3>1, OpStep
        <3> QED BY <3>2, SameValue
    <2> QED BY <1>1, <1>2, <2>1, <2>2, <2>3, <2>4 DEF Promise!Next, Promise!Call
<1> QED BY <1>3, <1>4

\* A fetch that looks and does not find its key may miss it from then on.
LEMMA FetchLockImplements ==
    ASSUME IInv, NEW t \in Threads, FetchLock(t)
    PROVE  Promise!Next \/ UNCHANGED Promise!vars
<1>1. CallTypes
    BY DEF IInv, Types
<1>2. /\ pcs[t] = "f_lock" /\ expect' = [expect EXCEPT ![t] = key[t] \in Present]
      /\ UNCHANGED <<key, res, table, files, ecb>>
    BY DEF FetchLock, thread
<1>3. PICK s \in {"f_pool", "f_c1", "f_kf"} : Goto(t, s)
    BY DEF FetchLock
<1>4. Present' = Present
    BY <1>2 DEF Present, View, table, files
<1>5. /\ expect'[t] = (key[t] \in Present)
      /\ \A x \in Threads \ {t} : expect'[x] = expect[x]
    BY <1>1, <1>2 DEF CallTypes
<1>6. Op[t] = "fetch" /\ Missed[t] = FALSE
    BY <1>2 DEF Op, Missed, Fetching
<1>7. s # "idle" /\ s \in Fetching \ {"f_lock"}
    BY DEF Fetching
<1>8. Op' = [Op EXCEPT ![t] = "fetch"] /\ Missed' = [Missed EXCEPT ![t] = key[t] \notin Present]
    BY <1>1, <1>3, <1>5, <1>7, OpStep
<1>9. Op' = Op
    BY <1>6, <1>8, SameValue
<1>10. CASE key[t] \in Present
    <2>1. Missed' = [Missed EXCEPT ![t] = Missed[t]]
        BY <1>6, <1>8, <1>10
    <2>2. Missed' = Missed
        BY <2>1, SameValue
    <2> QED BY <1>2, <1>4, <1>9, <2>2 DEF Promise!vars
<1>11. CASE key[t] \notin Present
    <2>1. Missed' = [Missed EXCEPT ![t] = TRUE]
        BY <1>8, <1>11
    <2> QED BY <1>2, <1>4, <1>6, <1>9, <1>11, <2>1 DEF Promise!Next, Promise!Miss
<1> QED BY <1>10, <1>11

\* The answer of a fetch: a key that is found is there, and one that is not was
\* not there when the fetch looked.
LEMMA FetchReturnImplements ==
    ASSUME IInv, NEW t \in Threads, FetchPooled(t) \/ FetchCached(t) \/ FetchDone(t)
    PROVE  Promise!Next
<1>1. /\ pcs[t] \in {"f_pool", "f_c1", "f_df"} /\ UNCHANGED <<expect, table, files, ecb>>
      /\ Return(t, IF pcs[t] = "f_pool" THEN IF key[t] \in p1 \cup p0 THEN "found" ELSE "error"
                   ELSE IF pcs[t] = "f_c1" THEN Search(key[t], Cached(n[t]))
                   ELSE Search(key[t], b[t]))
    BY DEF FetchPooled, FetchCached, FetchDone, thread
<1>2. Present' = Present
    BY <1>1 DEF Present, View, table, files
<1>3. Caller(t)
    BY DEF IInv
<1>4. Op[t] = "fetch" /\ Missed[t] = ~expect[t]
    BY <1>1 DEF Op, Missed, Fetching
<1>5. CASE pcs[t] = "f_pool"
    <2>1. key[t] \in p0 \cup p1 /\ key[t] \in Present
        BY <1>3, <1>5 DEF Caller, Present
    <2>2. "found" \in Promise!Answers(t)
        BY <1>4, <2>1 DEF Promise!Answers
    <2>3. Return(t, "found")
        BY <1>1, <1>5, <2>1
    <2> QED BY <1>1, <1>2, <2>2, <2>3, ReturnImplements DEF Promise!Next
<1>6. CASE pcs[t] # "f_pool"
    <2>1. pcs[t] \in Searching
        BY <1>1, <1>6 DEF Searching
    <2>2. Return(t, Search(key[t], Seen(t)))
        BY <1>1, <1>3, <1>6 DEF Caller, Cached, Seen
    <2>3. Seen(t) \subseteq Present /\ (expect[t] => key[t] \in Seen(t))
        BY <1>3, <2>1 DEF Caller
    <2>4. CASE key[t] \in Seen(t)
        <3>1. Return(t, "found")
            BY <2>1, <2>2, <2>4, SearchResult
        <3>2. "found" \in Promise!Answers(t)
            BY <1>4, <2>3, <2>4 DEF Promise!Answers
        <3> QED BY <1>1, <1>2, <3>1, <3>2, ReturnImplements DEF Promise!Next
    <2>5. CASE key[t] \notin Seen(t)
        <3>1. Return(t, "absent")
            BY <2>1, <2>2, <2>5, SearchResult
        <3>2. "absent" \in Promise!Answers(t)
            BY <1>4, <2>3, <2>5 DEF Promise!Answers
        <3> QED BY <1>1, <1>2, <3>1, <3>2, ReturnImplements DEF Promise!Next
    <2> QED BY <2>4, <2>5
<1> QED BY <1>5, <1>6

\* A call whose read fails has no effect.
LEMMA ReadFailsImplements == ASSUME IInv, NEW t \in Threads, ReadFails(t) PROVE Promise!Next
<1>1. /\ pcs[t] \in Searching /\ Return(t, "io_error")
      /\ UNCHANGED <<expect, table, files, ecb>>
    BY DEF ReadFails, thread, Searching
<1>2. Present' = Present
    BY <1>1 DEF Present, View, table, files
<1>3. Op[t] \in {"fetch", "insert"}
    BY <1>1 DEF Op, Searching
<1>4. "io_error" \in Promise!Answers(t)
    BY <1>3 DEF Promise!Answers
<1> QED BY <1>1, <1>2, <1>4, ReturnImplements DEF Promise!Next

\* Steps between a call's look and its return.
LEMMA MiddleImplements ==
    ASSUME IInv, NEW t \in Threads, ReadBucket(t) \/ InsertSerialize(t) \/ ExistsUnlock(t)
    PROVE  UNCHANGED Promise!vars
<1>1. /\ UNCHANGED <<key, res, expect, table, files, ecb>>
      /\ \E s : /\ Goto(t, s)
                /\ \/ pcs[t] = "f_kf" /\ s = "f_df"
                   \/ pcs[t] \in {"i_u", "i_kf", "i_c1"} /\ s \in {"i_lock", "i_df"}
    BY DEF ReadBucket, InsertSerialize, ExistsUnlock, thread
<1>2. Present' = Present
    BY <1>1 DEF Present, View, table, files
<1>3. PICK s : /\ Goto(t, s)
               /\ \/ pcs[t] = "f_kf" /\ s = "f_df"
                  \/ pcs[t] \in {"i_u", "i_kf", "i_c1"} /\ s \in {"i_lock", "i_df"}
    BY <1>1
<1>4. /\ s \in Fetching <=> pcs[t] \in Fetching
      /\ pcs[t] # "idle" /\ s # "idle" /\ pcs[t] # "f_lock" /\ s # "f_lock"
    BY <1>3 DEF Fetching
<1> QED BY <1>1, <1>2, <1>3, <1>4, CallStutters

\* An insert that finds its key in the pools or in the table returns "exists".
LEMMA InsertLookImplements ==
    ASSUME IInv, NEW t \in Threads, InsertLock(t) \/ ExistsDone(t)
    PROVE  Promise!Next \/ UNCHANGED Promise!vars
<1>1. CallTypes
    BY DEF IInv, Types
<1>2. /\ pcs[t] \in {"i_lock", "i_df"} /\ UNCHANGED <<table, files, ecb>>
      /\ expect' = expect \/ expect' = [expect EXCEPT ![t] = key[t] \in Present]
    BY DEF InsertLock, ExistsDone, thread
<1>3. \A x \in Threads \ {t} : expect'[x] = expect[x]
    BY <1>1, <1>2 DEF CallTypes
<1>4. Present' = Present /\ Op[t] = "insert"
    <2>1. Present' = Present
        BY <1>2 DEF Present, View, table, files
    <2> QED BY <1>2, <2>1 DEF Op, Fetching
<1>5. \/ \E s \in {"i_c1", "i_kf", "i_add"} : Goto(t, s) /\ UNCHANGED <<key, res>>
      \/ Return(t, "exists") /\ key[t] \in Present
    <2>1. CASE InsertLock(t)
        BY <2>1 DEF InsertLock, Present
    <2>2. CASE ExistsDone(t)
        <3>1. pcs[t] \in Searching /\ Seen(t) = b[t] /\ Caller(t)
            BY <2>2 DEF ExistsDone, Searching, Seen, IInv
        <3>2. b[t] \subseteq Present
            BY <3>1 DEF Caller
        <3>3. Search(key[t], b[t]) = IF key[t] \in b[t] THEN "found" ELSE "absent"
            BY <3>1, SearchResult
        <3>4. CASE key[t] \in b[t]
            BY <2>2, <3>2, <3>3, <3>4 DEF ExistsDone
        <3>5. CASE key[t] \notin b[t]
            BY <2>2, <3>3, <3>5 DEF ExistsDone
        <3> QED BY <3>4, <3>5
    <2> QED BY <2>1, <2>2
<1>6. CASE Return(t, "exists") /\ key[t] \in Present
    <2>1. "exists" \in Promise!Answers(t)
        BY <1>4, <1>6 DEF Promise!Answers
    <2> QED BY <1>2, <1>3, <1>4, <1>6, <2>1, ReturnImplements DEF Promise!Next
<1>7. ASSUME NEW s \in {"i_c1", "i_kf", "i_add"}, Goto(t, s), UNCHANGED <<key, res>>
      PROVE  UNCHANGED Promise!vars
    <2>1. s \notin Fetching /\ pcs[t] \notin Fetching /\ s # "idle" /\ pcs[t] # "idle"
        BY <1>2 DEF Fetching
    <2> QED BY <1>2, <1>3, <1>4, <1>7, <2>1, CallStutters
<1> QED BY <1>5, <1>6, <1>7

\* An insert that adds its key inserts it: nobody else has done so meanwhile.
LEMMA InsertAddImplements == ASSUME IInv, NEW t \in Threads, InsertAdd(t) PROVE Promise!Next
<1>1. /\ pcs[t] = "i_add" /\ p1' = p1 \cup {key[t]} /\ Return(t, "inserted")
      /\ UNCHANGED <<expect, p0, c1, buckets, kf, ecb>>
    BY DEF InsertAdd, files, thread
<1>2. key[t] \notin Present /\ Op[t] = "insert"
    BY <1>1 DEF IInv, Caller, Op, Fetching
<1>3. "inserted" \in Promise!Answers(t)
    BY <1>2 DEF Promise!Answers
<1>4. Present' = Present \cup {key[t]}
    BY <1>1 DEF Present, View
<1> QED BY <1>1, <1>3, <1>4, ReturnImplements DEF Promise!Next

\* The commit thread, close and a stuttering step change nothing that a caller
\* can tell, but that a commit has failed.
LEMMA CommitImplements ==
    ASSUME IInv, Generations, run \/ CommitFail \/ SpuriousWakeup \/ Block \/ close \/ CloseJoin
                   \/ UNCHANGED vars
    PROVE  Promise!Next \/ UNCHANGED Promise!vars
<1>1. Present' = Present
    <2>1. CASE run
        BY <2>1, SwapIInv, SplitIInv, FlushIInv, PublishIInv, PhaseIInv, WriteBeginIInv,
           WriteEndIInv, EndIInv, WaitIInv DEF run
    <2>2. CASE UNCHANGED vars
        <3>1. UNCHANGED <<p0, p1, c1, buckets, kf>>
            BY <2>2 DEF vars, table, files
        <3> QED BY <3>1 DEF Present, View
    <2> QED BY <2>1, <2>2, PhaseIInv, CloseIInv
<1>2. UNCHANGED calls /\ (ecb' = ecb \/ ecb' = TRUE)
    <2>1. CASE CommitSwap \/ CommitSplit \/ CommitFlush \/ CommitPublish \/ CommitLog
        BY <2>1 DEF CommitSwap, CommitSplit, CommitFlush, CommitPublish, CommitLog
    <2>2. CASE CommitFinish \/ (\E i \in todo : WriteBegin(i)) \/ WriteEnd \/ CommitSync \/ CommitEnd
        BY <2>2 DEF CommitFinish, WriteBegin, WriteEnd, CommitSync, CommitEnd
    <2>3. CASE CommitDead \/ WaitTest \/ WaitSleep \/ WaitTimeout \/ WaitReturn
        BY <2>3 DEF CommitDead, WaitTest, WaitSleep, WaitTimeout, WaitReturn
    <2>4. CASE CommitFail \/ SpuriousWakeup \/ Block \/ close \/ CloseJoin \/ UNCHANGED vars
        BY <2>4 DEF CommitFail, SpuriousWakeup, Block, close, CloseJoin, vars, thread
    <2> QED BY <2>1, <2>2, <2>3, <2>4 DEF run
<1>3. UNCHANGED <<Op, Missed, key, res>>
    BY <1>2 DEF calls, Op, Missed
<1> QED BY <1>1, <1>2, <1>3 DEF Promise!Next, Promise!Break, Promise!vars

LEMMA NextImplements == ASSUME IInv, Generations, [Next]_vars PROVE [Promise!Next]_(Promise!vars)
<1>1. ASSUME NEW t \in Threads, Call(t) PROVE Promise!Next
    BY <1>1, BeginImplements DEF Call
<1>2. ASSUME NEW t \in Threads, Step(t) PROVE Promise!Next \/ UNCHANGED Promise!vars
    BY <1>2, FetchLockImplements, FetchReturnImplements, MiddleImplements,
       InsertLookImplements, InsertAddImplements DEF Step
<1>3. ASSUME NEW t \in Threads, ReadFails(t) PROVE Promise!Next
    BY <1>3, ReadFailsImplements
<1> QED BY <1>1, <1>2, <1>3, CommitImplements DEF Next

-----------------------------------------------------------------------------
(* The store uses the generation mutex the way Gentex says it is used *)

\* Every step of a caller takes or drops a genlock, or leaves the mutex alone.
LEMMA CallerGen ==
    ASSUME NEW t \in Threads, Call(t) \/ Step(t) \/ ReadFails(t)
    PROVE  lock_gen(t) \/ unlock_gen(t) \/ UNCHANGED genvars
<1>1. CASE Call(t)
    BY <1>1 DEF Call, FetchBegin, InsertBegin
<1>2. CASE FetchLock(t) \/ InsertLock(t)
    BY <1>2 DEF FetchLock, InsertLock
<1>3. CASE FetchPooled(t) \/ FetchCached(t) \/ ReadBucket(t) \/ InsertSerialize(t)
    BY <1>3 DEF FetchPooled, FetchCached, ReadBucket, InsertSerialize
<1>4. CASE FetchDone(t) \/ ExistsUnlock(t) \/ ExistsDone(t) \/ InsertAdd(t)
    BY <1>4 DEF FetchDone, ExistsUnlock, ExistsDone, InsertAdd
<1>5. CASE ReadFails(t)
    BY <1>5 DEF ReadFails
<1> QED BY <1>1, <1>2, <1>3, <1>4, <1>5 DEF Step

\* Every other step is one of the committer's, or leaves the mutex alone.
LEMMA CommitGen ==
    ASSUME run \/ CommitFail \/ SpuriousWakeup \/ Block \/ close \/ CloseJoin
    PROVE  Committer \/ GenSpuriousWakeup \/ UNCHANGED genvars
<1>1. CASE CommitSwap \/ CommitSplit \/ CommitFlush \/ CommitPublish \/ CommitLog
    BY <1>1 DEF CommitSwap, CommitSplit, CommitFlush, CommitPublish, CommitLog, Committer
<1>2. CASE CommitFinish \/ (\E i \in todo : WriteBegin(i)) \/ WriteEnd \/ CommitSync \/ CommitEnd
    BY <1>2 DEF CommitFinish, WriteBegin, WriteEnd, CommitSync, CommitEnd, Committer
<1>3. CASE CommitDead \/ WaitTest \/ WaitSleep \/ WaitTimeout \/ WaitReturn
    BY <1>3 DEF CommitDead, WaitTest, WaitSleep, WaitTimeout, WaitReturn
<1>4. CASE CommitFail \/ SpuriousWakeup \/ Block \/ close \/ CloseJoin
    BY <1>4 DEF CommitFail, SpuriousWakeup, Block, close, CloseJoin, Committer
<1> QED BY <1>1, <1>2, <1>3, <1>4 DEF run

LEMMA NextGen == [Next]_vars => [GenNext]_genvars
<1> SUFFICES ASSUME [Next]_vars PROVE GenNext \/ UNCHANGED genvars
    BY DEF genvars, genvars
<1>1. ASSUME NEW t \in Threads, Call(t) \/ Step(t) \/ ReadFails(t)
      PROVE  GenNext \/ UNCHANGED genvars
    BY <1>1, CallerGen DEF GenNext, Reader
<1>2. CASE run \/ CommitFail \/ SpuriousWakeup \/ Block \/ close \/ CloseJoin
    BY <1>2, CommitGen DEF GenNext
<1>3. CASE UNCHANGED vars
    BY <1>3 DEF vars
<1> QED BY <1>1, <1>2, <1>3 DEF Next

-----------------------------------------------------------------------------
(* The store with its mutex, and the theorems *)

LEMMA InitGen == Init => GenIInv
<1>1. Init => GenInit
    BY DEF Init
<1> QED BY <1>1, MutexInit

LEMMA StepGen == ASSUME GenIInv, [Next]_vars PROVE GenIInv'
BY NextGen, MutexNext

\* What the store's steps need to know of the mutex.
LEMMA GenerationsHold == GenIInv => Generations
<1> SUFFICES ASSUME GenIInv PROVE Generations
    OBVIOUS
<1>1. GenTypeOK /\ (fin = "writing" => old = {})
    BY DEF GenIInv
<1>2. gen \in Nat /\ held \in [Threads -> Int]
    BY <1>1, GenModAssumption, SMT DEF GenTypeOK, Gens, NoGen
<1> QED BY <1>1, <1>2 DEF Generations

\* The invariants of the store and of its mutex hold together.
LEMMA Invariance == Spec => [](IInv /\ GenIInv)
<1>1. Init => IInv /\ GenIInv
    BY InitIInv, InitGen
<1>2. IInv /\ GenIInv /\ [Next]_vars => IInv' /\ GenIInv'
    BY NextIInv, StepGen, GenerationsHold
<1> QED BY <1>1, <1>2, PTL DEF Spec

\* No reader of the key file ever reads a block that commit is writing or is
\* about to write: start() and finish() of the generation mutex, called where
\* commit calls them, keep the two apart.
THEOREM ReadersUndisturbedThm == Spec => []ReadersUndisturbed
<1>1. IInv /\ GenIInv => ReadersUndisturbed
    <2> SUFFICES ASSUME IInv, GenIInv, NEW t \in Threads, pcs[t] \in {"f_kf", "i_kf"}, c = "keys"
                 PROVE  n[t] \notin todo
        BY DEF ReadersUndisturbed
    <2>1. n[t] \notin DOMAIN c1 /\ todo \subseteq DOMAIN c1
        BY NoReaderOfCached, GenerationsHold DEF IInv, Commits
    <2> QED BY <2>1
<1> QED BY <1>1, Invariance, PTL

\* When close has returned without an error, every key whose insert has
\* returned is in the key file.
THEOREM CloseCommitsAllThm == Spec => []CloseCommitsAll
<1>1. IInv => CloseCommitsAll
    <2> SUFFICES ASSUME IInv, user = "closed" PROVE acked \subseteq Stored
        BY DEF CloseCommitsAll
    <2>1. c = "done" /\ p1 = {} /\ acked \subseteq Present
        BY DEF IInv, Closing
    <2>2. c1 = NoCache /\ p0 = {}
        BY <2>1 DEF IInv, Commits, Unpublished, Pooling
    <2>3. Present = Stored
        BY <2>1, <2>2 DEF Present, Stored, View, NoCache
    <2> QED BY <2>1, <2>3
<1> QED BY <1>1, Invariance, PTL


\* fetch and insert of the store act at one moment each on one set of keys,
\* whatever the commit thread does meanwhile and whether or not it fails.
THEOREM ImplementsKeyValueThm == Spec => ImplementsKeyValue
<1>1. Init => Promise!Init
    <2> SUFFICES ASSUME Init PROVE Promise!Init
        OBVIOUS
    <2>0. \A i \in 0 .. buckets - 1 : View(i) = {}
        BY MaxBucketsAssumption, SMT DEF Init, View, NoCache, Blocks
    <2>1. Present = {}
        BY <2>0, SMT DEF Init, Present
    <2>2. Op = [t \in Threads |-> "none"] /\ Missed = [t \in Threads |-> FALSE]
        BY Zenon DEF Init, Op, Missed, Fetching
    <2>3. key = [t \in Threads |-> NoOne]
        BY DEF Init
    <2> QED BY <2>1, <2>2, <2>3 DEF Init, Promise!Init
<1>2. IInv /\ GenIInv /\ [Next]_vars => [Promise!Next]_(Promise!vars)
    BY NextImplements, GenerationsHold
<1> QED BY <1>1, <1>2, Invariance, PTL DEF Spec, ImplementsKeyValue, Promise!Spec
=============================================================================
