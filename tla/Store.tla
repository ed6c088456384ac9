-------------------------------- MODULE Store --------------------------------
(***************************************************************************)
(* The threads of a NuDB store (nudb/impl/basic_store.ipp): callers of     *)
(* fetch and insert, the commit thread, and close.  Shared between them    *)
(* are the insert pools p0 and p1, the cache c1 of changed buckets, the    *)
(* shape of the table, the key file, the mutex u_, the shared mutex m_,    *)
(* and the generation mutex g_, whose state is that of module Gentex.      *)
(*                                                                         *)
(* The content of a bucket, its spills included, is a set of keys: how     *)
(* buckets are searched and split is the subject of LinearHash.  What is   *)
(* done under m_ held exclusively is one step; a thread that holds m_      *)
(* shared for longer is in sh.  A key-file block is written in two steps,  *)
(* between which a reader would see it torn.                               *)
(***************************************************************************)
EXTENDS Hashing, Gentex

CONSTANTS
    Keys,
    hash,          \* the hash of each key
    MaxBuckets     \* bound: buckets of the key file

ASSUME HashAssumption == hash \in [Keys -> Nat]
ASSUME MaxBucketsAssumption == MaxBuckets \in Nat \ {0}
ASSUME NoOneAssumption == "no one" \notin Threads
ASSUME KeysAssumption == "torn" \notin Keys

VARIABLES
    pcs, key, n, b,  \* each caller: where it is, its key, the number and the
                     \* content of its bucket
    res, expect,     \* the result of its last call; history: whether its key was
                     \* there when it looked
    u,               \* who holds u_
    sh, blocked,     \* m_: shared holders; new ones wait for an exclusive one
    p0, p1, c1, buckets, modulus,
    kf,              \* content of each block of the key file
    flushed,         \* keys whose record is in the data file
    c, last,         \* commit thread: where it is; it has left its loop
    next,            \* commit thread: c1, buckets, modulus to be published
    todo, wr,        \* commit thread: buckets to be written, being written
    ecb,
    user,            \* "open", "closing", "closed" or "error" (from close)
    acked            \* history: keys whose insert has returned

calls == <<pcs, key, n, b, res, expect>>
lock == <<u, sh, blocked>>
table == <<p0, p1, c1, buckets, modulus>>
files == <<kf, flushed>>
thread == <<c, last, next, todo, wr, ecb>>
vars == <<calls, lock, table, files, thread, user, acked, genvars>>

NoOne == "no one"
NoBlock == -1
Torn == {"torn"}           \* not a set of keys
Blocks == 0 .. MaxBuckets - 1
NoCache == [i \in {} |-> {}]

Init ==
    /\ pcs = [t \in Threads |-> "idle"] /\ key \in [Threads -> {NoOne}]
    /\ n = [t \in Threads |-> 0] /\ b = [t \in Threads |-> {}]
    /\ res = [t \in Threads |-> "none"] /\ expect = [t \in Threads |-> FALSE]
    /\ u = NoOne /\ sh = {} /\ blocked = FALSE
    /\ p0 = {} /\ p1 = {} /\ c1 = NoCache /\ buckets = 1 /\ modulus = 1
    /\ kf = [i \in Blocks |-> IF i = 0 THEN {} ELSE Torn] /\ flushed = {}
    /\ c = "top" /\ last = FALSE /\ todo = {} /\ wr = NoBlock /\ ecb = FALSE
    /\ next = [c1 |-> NoCache, buckets |-> 1, modulus |-> 1]
    /\ user = "open" /\ acked = {}
    /\ GenInit

HomeOf(k) == bucket_index(hash[k], buckets, modulus)

\* Every key a caller may rely on: pooled, or in the table as readers see it.
View(i) == IF i \in DOMAIN c1 THEN c1[i] ELSE kf[i]
Present == p0 \cup p1 \cup UNION {View(i) : i \in 0 .. buckets - 1}

Goto(t, s) == pcs' = [pcs EXCEPT ![t] = s]
Called(t, k) ==
    /\ key' = [key EXCEPT ![t] = k] /\ res' = [res EXCEPT ![t] = "none"]
    /\ UNCHANGED <<n, b>>
Return(t, r) ==
    /\ Goto(t, "idle") /\ res' = [res EXCEPT ![t] = r]
    /\ key' = [key EXCEPT ![t] = NoOne] /\ n' = [n EXCEPT ![t] = 0] /\ b' = [b EXCEPT ![t] = {}]

-----------------------------------------------------------------------------
(* boost::shared_mutex: a thread that finds m_ shared when it wants it      *)
(* exclusively blocks newcomers until the last shared holder has left.      *)

ExclusiveHeld == c \in {"pred", "nap"}     \* the commit thread about to sleep
CanShare == ~blocked /\ ~ExclusiveHeld
Exclusive == sh = {} /\ ~ExclusiveHeld

ReleaseShared(t) ==
    /\ sh' = sh \ {t}
    /\ blocked' = (blocked /\ sh' # {})

WantsExclusive == c \in {"top", "publish", "clear", "woke", "last"}
                    \/ \E t \in Threads : pcs[t] = "i_add"

Block ==
    /\ WantsExclusive /\ sh # {} /\ ~blocked
    /\ blocked' = TRUE
    /\ UNCHANGED <<calls, u, sh, table, files, thread, user, acked, genvars>>

-----------------------------------------------------------------------------
(* fetch *)

FetchBegin(t, k) ==
    /\ user = "open" /\ pcs[t] = "idle"
    /\ IF ecb THEN Return(t, "error")
       ELSE Goto(t, "f_lock") /\ Called(t, k)
    /\ UNCHANGED <<expect, lock, table, files, thread, user, acked, genvars>>

\* m_ is taken shared.  A pooled key goes to the callback and a cached bucket
\* is searched with m_ held; otherwise g_ is locked and m_ released.
FetchLock(t) ==
    /\ pcs[t] = "f_lock" /\ CanShare
    /\ expect' = [expect EXCEPT ![t] = key[t] \in Present]
    /\ n' = [n EXCEPT ![t] = HomeOf(key[t])]
    /\ IF key[t] \in p1 \cup p0
       THEN Goto(t, "f_pool") /\ sh' = sh \cup {t} /\ UNCHANGED genvars
       ELSE IF n'[t] \in DOMAIN c1
       THEN Goto(t, "f_c1") /\ sh' = sh \cup {t} /\ UNCHANGED genvars
       ELSE Goto(t, "f_kf") /\ lock_gen(t) /\ UNCHANGED sh
    /\ UNCHANGED <<key, b, res, u, blocked, table, files, thread, user, acked>>

\* The callback is given the value in the pool's memory.
FetchPooled(t) ==
    /\ pcs[t] = "f_pool"
    /\ Return(t, IF key[t] \in p1 \cup p0 THEN "found" ELSE "error")
    /\ ReleaseShared(t)
    /\ UNCHANGED <<expect, u, table, files, thread, user, acked, genvars>>

\* What a search of bucket content x yields: entries lead to the data file.  An
\* "error" is what the store itself is to blame for, a torn block or an entry
\* whose record is not there.
Search(k, x) ==
    IF x = Torn THEN "error"
    ELSE IF k \notin x THEN "absent"
    ELSE IF k \in flushed THEN "found" ELSE "error"

\* The cache's memory, if it is still there.
Cached(i) == IF i \in DOMAIN c1 THEN c1[i] ELSE Torn

FetchCached(t) ==
    /\ pcs[t] = "f_c1"
    /\ Return(t, Search(key[t], Cached(n[t])))
    /\ ReleaseShared(t)
    /\ UNCHANGED <<expect, u, table, files, thread, user, acked, genvars>>

\* bucket::read of the key file, with no lock but the generation's.
ReadBucket(t) ==
    /\ \/ pcs[t] = "f_kf" /\ Goto(t, "f_df")
       \/ pcs[t] = "i_kf" /\ Goto(t, "i_df")
    /\ b' = [b EXCEPT ![t] = kf[n[t]]]
    /\ UNCHANGED <<key, n, res, expect, lock, table, files, thread, user, acked, genvars>>

FetchDone(t) ==
    /\ pcs[t] = "f_df"
    /\ Return(t, Search(key[t], b[t]))
    /\ unlock_gen(t)
    /\ UNCHANGED <<expect, lock, table, files, thread, user, acked>>

-----------------------------------------------------------------------------
(* insert *)

InsertBegin(t, k) ==
    /\ user = "open" /\ pcs[t] = "idle"
    /\ IF ecb THEN Return(t, "error")
       ELSE Goto(t, "i_u") /\ Called(t, k)
    /\ UNCHANGED <<expect, lock, table, files, thread, user, acked, genvars>>

InsertSerialize(t) ==
    /\ pcs[t] = "i_u" /\ u = NoOne
    /\ u' = t /\ Goto(t, "i_lock")
    /\ UNCHANGED <<key, n, b, res, expect, sh, blocked, table, files, thread, user, acked, genvars>>

\* The pools are searched under m_ taken shared; which it stays while the
\* first bucket of a cached chain is searched, but not for a read of the file.
InsertLock(t) ==
    /\ pcs[t] = "i_lock" /\ CanShare
    /\ expect' = [expect EXCEPT ![t] = key[t] \in Present]
    /\ IF key[t] \in p1 \cup p0
       THEN Return(t, "exists") /\ u' = NoOne /\ UNCHANGED <<sh, genvars>>
       ELSE /\ n' = [n EXCEPT ![t] = HomeOf(key[t])] /\ UNCHANGED <<u, key, b, res>>
            /\ IF n'[t] \in DOMAIN c1
               THEN Goto(t, "i_c1") /\ sh' = sh \cup {t} /\ UNCHANGED genvars
               ELSE Goto(t, "i_kf") /\ lock_gen(t) /\ UNCHANGED sh
    /\ UNCHANGED <<blocked, table, files, thread, user, acked>>

\* exists() has searched the first bucket, holds the offset of its spill and
\* unlocks m_.
ExistsUnlock(t) ==
    /\ pcs[t] = "i_c1"
    /\ b' = [b EXCEPT ![t] = Cached(n[t])]
    /\ Goto(t, "i_df")
    /\ ReleaseShared(t)
    /\ UNCHANGED <<key, n, res, expect, u, table, files, thread, user, acked, genvars>>

\* exists() returns, and the genlock of the other branch is dropped.
ExistsDone(t) ==
    /\ pcs[t] = "i_df"
    /\ LET r == Search(key[t], b[t]) IN
       IF r = "absent"
       THEN Goto(t, "i_add") /\ b' = [b EXCEPT ![t] = {}] /\ UNCHANGED <<key, n, res, u>>
       ELSE Return(t, IF r = "found" THEN "exists" ELSE "error") /\ u' = NoOne
    /\ IF held[t] # NoGen THEN unlock_gen(t) ELSE UNCHANGED genvars
    /\ UNCHANGED <<expect, sh, blocked, table, files, thread, user, acked>>

InsertAdd(t) ==
    /\ pcs[t] = "i_add" /\ Exclusive
    /\ p1' = p1 \cup {key[t]} /\ acked' = acked \cup {key[t]}
    /\ Return(t, "inserted") /\ u' = NoOne
    /\ UNCHANGED <<expect, sh, blocked, p0, c1, buckets, modulus,
                   files, thread, user, genvars>>

\* A read of the key file or the data file fails: fetch or insert returns what
\* the file reports, and its guards release what it holds.
ReadFails(t) ==
    /\ pcs[t] \in {"f_c1", "f_kf", "f_df", "i_c1", "i_kf", "i_df"}
    /\ Return(t, "io_error")
    /\ u' = IF u = t THEN NoOne ELSE u
    /\ IF t \in sh THEN ReleaseShared(t) ELSE UNCHANGED <<sh, blocked>>
    /\ IF held[t] # NoGen THEN unlock_gen(t) ELSE UNCHANGED genvars
    /\ UNCHANGED <<expect, table, files, thread, user, acked>>

-----------------------------------------------------------------------------
(* run and commit, on the commit thread *)

\* The top of the loop, and the section behind it when the loop has ended: a
\* commit begins with the swap of the pools if there is anything in p1.
CommitSwap ==
    /\ c \in {"top", "last"} /\ Exclusive
    /\ IF p1 # {}
       THEN /\ p0' = p1 /\ p1' = p0 /\ c' = "prepare"
            /\ next' = [c1 |-> NoCache, buckets |-> buckets, modulus |-> modulus]
       ELSE /\ c' = (IF c = "top" THEN "pred" ELSE "done")
            /\ UNCHANGED <<p0, p1, next>>
    /\ last' = (c = "last")
    /\ UNCHANGED <<calls, lock, c1, buckets, modulus, files, todo, wr, ecb, user, acked, genvars>>

\* The log header is written, then the data; a bucket is split into itself and
\* a new one, which become part of the new view.
CommitSplit ==
    /\ c = "prepare" /\ next.buckets < MaxBuckets
    /\ next' = [c1 |-> [i \in DOMAIN next.c1 \cup {SplitFrom(next.buckets, next.modulus),
                                                  SplitTo(next.buckets)} |-> {}],
                buckets |-> next.buckets + 1,
                modulus |-> SplitModulus(next.buckets, next.modulus)]
    /\ UNCHANGED <<calls, lock, table, files, c, last, todo, wr, ecb, user, acked, genvars>>

\* The keys of p0 are in their buckets, the data and the spills flushed.
CommitFlush ==
    /\ c = "prepare"
    /\ LET home(k) == bucket_index(hash[k], next.buckets, next.modulus)
           stored == p0 \cup UNION {kf[i] : i \in 0 .. buckets - 1}
       IN  next' = [next EXCEPT !.c1 = [i \in DOMAIN @ \cup {home(k) : k \in p0} |->
                                           {k \in stored : home(k) = i}]]
    /\ flushed' = flushed \cup p0
    /\ c' = "publish"
    /\ UNCHANGED <<calls, lock, table, kf, last, todo, wr, ecb, user, acked, genvars>>

\* Mutant: readers get the new buckets with the old shape of the table.
CommitPublish_OldShape ==
    /\ c = "publish" /\ Exclusive
    /\ c1' = next.c1 /\ p0' = {}
    /\ next' = [next EXCEPT !.c1 = c1]
    /\ start
    /\ c' = "log"
    /\ UNCHANGED <<calls, lock, p1, buckets, modulus, files, last, todo, wr, ecb, user, acked>>

CommitPublish ==
    /\ c = "publish" /\ Exclusive
    /\ c1' = next.c1 /\ p0' = {}
    /\ buckets' = next.buckets /\ modulus' = next.modulus
    /\ next' = [next EXCEPT !.c1 = c1]      \* swapped
    /\ start
    /\ c' = "log"
    /\ UNCHANGED <<calls, lock, p1, files, last, todo, wr, ecb, user, acked>>

\* The clean buckets are written to the log, which is synced.
CommitLog ==
    /\ c = "log"
    /\ c' = "finish"
    /\ UNCHANGED <<calls, lock, table, files, last, next, todo, wr, ecb, user, acked, genvars>>

\* Mutant: commit does not wait for the readers of before.
CommitFinish_NoWait ==
    /\ c = "finish"
    /\ c' = "keys" /\ todo' = DOMAIN c1 /\ fin' = "writing"
    /\ UNCHANGED <<calls, lock, table, files, last, next, wr, ecb, user, acked>>
    /\ UNCHANGED <<gen, cur, prev, held, old>>

CommitFinish ==
    /\ c = "finish" /\ finish
    /\ IF fin' = "writing" THEN c' = "keys" /\ todo' = DOMAIN c1
       ELSE UNCHANGED <<c, todo>>
    /\ UNCHANGED <<calls, lock, table, files, last, next, wr, ecb, user, acked>>

\* A block of the key file is overwritten, or added at its end.
WriteBegin(i) ==
    /\ c = "keys" /\ wr = NoBlock /\ i \in todo
    /\ kf' = [kf EXCEPT ![i] = Torn]
    /\ wr' = i
    /\ UNCHANGED <<calls, lock, table, flushed, c, last, next, todo, ecb, user, acked, genvars>>

WriteEnd ==
    /\ c = "keys" /\ wr # NoBlock
    /\ kf' = [kf EXCEPT ![wr] = c1[wr]]
    /\ todo' = todo \ {wr} /\ wr' = NoBlock
    /\ UNCHANGED <<calls, lock, table, flushed, c, last, next, ecb, user, acked, genvars>>

\* The files are synced and the log is truncated.
CommitSync ==
    /\ c = "keys" /\ todo = {}
    /\ c' = "clear"
    /\ UNCHANGED <<calls, lock, table, files, last, next, todo, wr, ecb, user, acked, genvars>>

\* commit returns with m_ held.
CommitEnd ==
    /\ c = "clear" /\ Exclusive
    /\ c1' = NoCache
    /\ GenCommitEnd
    /\ c' = IF last THEN "done" ELSE "pred"
    /\ UNCHANGED <<calls, lock, p0, p1, buckets, modulus, files, last, next, todo, wr, ecb, user, acked>>

\* An I/O call of commit fails, and ec_ is set.
CommitFail ==
    /\ c \in {"prepare", "log", "keys"}
    /\ c' = "failed"
    /\ IF c = "prepare" THEN UNCHANGED genvars ELSE GenCommitFail
    /\ UNCHANGED <<calls, lock, table, files, last, next, todo, wr, ecb, user, acked>>

\* run sees ec_, sets ecb_ and returns.
CommitDead ==
    /\ c = "failed"
    /\ c' = "dead" /\ ecb' = TRUE
    /\ UNCHANGED <<calls, lock, table, files, last, next, todo, wr, user, acked, genvars>>

\* Mutant: run returns without a last look at the pool.
WaitTest_NoLastCommit ==
    /\ c = "pred"
    /\ c' = IF user = "open" THEN "nap" ELSE "done"
    /\ UNCHANGED <<calls, lock, table, files, last, next, todo, wr, ecb, user, acked, genvars>>

\* cv_.wait_until: the predicate is tested with m_ held, ...
WaitTest ==
    /\ c = "pred"
    /\ c' = IF user = "open" THEN "nap" ELSE "last"
    /\ UNCHANGED <<calls, lock, table, files, last, next, todo, wr, ecb, user, acked, genvars>>

\* ... m_ is released and the thread sleeps, ...
WaitSleep ==
    /\ c = "nap"
    /\ c' = "sleep"
    /\ UNCHANGED <<calls, lock, table, files, last, next, todo, wr, ecb, user, acked, genvars>>

\* Mutant: the wait has no time limit.
WaitTimeout_Untimed == FALSE /\ UNCHANGED vars

\* ... until the time is up, or close has notified it.
WaitTimeout ==
    /\ c = "sleep"
    /\ c' = "woke"
    /\ UNCHANGED <<calls, lock, table, files, last, next, todo, wr, ecb, user, acked, genvars>>

\* Mutant: after a wake-up the thread waits again.
WaitReturn_WaitsAgain ==
    /\ c = "woke" /\ Exclusive
    /\ c' = IF user = "open" THEN "nap" ELSE "last"
    /\ UNCHANGED <<calls, lock, table, files, last, next, todo, wr, ecb, user, acked, genvars>>

WaitReturn ==
    /\ c = "woke" /\ Exclusive
    /\ c' = IF user = "open" THEN "top" ELSE "last"
    /\ UNCHANGED <<calls, lock, table, files, last, next, todo, wr, ecb, user, acked, genvars>>

-----------------------------------------------------------------------------
(* close, which the caller must not run concurrently with anything else *)

\* open_ becomes false, without m_, and the commit thread is notified.
close ==
    /\ user = "open" /\ \A t \in Threads : pcs[t] = "idle"
    /\ user' = "closing"
    /\ c' = IF c = "sleep" THEN "woke" ELSE c
    /\ UNCHANGED <<calls, lock, table, files, last, next, todo, wr, ecb, acked, genvars>>

\* The commit thread is joined.
CloseJoin ==
    /\ user = "closing" /\ c \in {"done", "dead"}
    /\ user' = IF ecb THEN "error" ELSE "closed"
    /\ UNCHANGED <<calls, lock, table, files, thread, acked, genvars>>

-----------------------------------------------------------------------------
Call(t) == \E k \in Keys : FetchBegin(t, k) \/ InsertBegin(t, k)

Step(t) ==
    \/ FetchLock(t) \/ FetchPooled(t) \/ FetchCached(t) \/ ReadBucket(t) \/ FetchDone(t)
    \/ InsertSerialize(t) \/ InsertLock(t) \/ ExistsUnlock(t) \/ ExistsDone(t) \/ InsertAdd(t)

run ==
    \/ CommitSwap \/ CommitSplit \/ CommitFlush \/ CommitPublish \/ CommitLog \/ CommitFinish
    \/ (\E i \in todo : WriteBegin(i)) \/ WriteEnd \/ CommitSync \/ CommitEnd \/ CommitDead
    \/ WaitTest \/ WaitSleep \/ WaitTimeout \/ WaitReturn

SpuriousWakeup ==
    /\ GenSpuriousWakeup
    /\ UNCHANGED <<calls, lock, table, files, thread, user, acked>>

Next ==
    \/ \E t \in Threads : Call(t) \/ Step(t) \/ ReadFails(t)
    \/ run \/ CommitFail \/ SpuriousWakeup \/ Block \/ close \/ CloseJoin

\* Every thread gets on: one that waits for a mutex gets it if the mutex is
\* free again and again, and the commit thread's timed wait times out.
Fairness ==
    /\ \A t \in Threads : SF_vars(Step(t))
    /\ SF_vars(run) /\ WF_vars(Block) /\ WF_vars(CloseJoin)

Spec == Init /\ [][Next]_vars /\ Fairness

-----------------------------------------------------------------------------
(* Properties *)

Contents == (SUBSET Keys) \cup {Torn}

\* Type invariant.
TypeOK ==
    /\ key \in [Threads -> Keys \cup {NoOne}] /\ n \in [Threads -> Blocks]
    /\ b \in [Threads -> Contents]
    /\ u \in Threads \cup {NoOne} /\ sh \subseteq Threads
    /\ p0 \subseteq Keys /\ p1 \subseteq Keys
    /\ DOMAIN c1 \subseteq 0 .. buckets - 1 /\ \A i \in DOMAIN c1 : c1[i] \subseteq Keys
    /\ buckets \in 1 .. MaxBuckets /\ kf \in [Blocks -> Contents]
    /\ todo \subseteq Blocks /\ wr \in Blocks \cup {NoBlock}

\* A thread that is reading a block of the key file reads one that the commit
\* thread is not writing and is not about to write.
ReadersUndisturbed ==
    \A t \in Threads : pcs[t] \in {"f_kf", "i_kf"} =>
        ~(c = "keys" /\ n[t] \in todo)

Stored == UNION {kf[i] : i \in 0 .. buckets - 1}

\* close returns without an error only if every inserted key is in the table
\* on disk ("All data is committed before closing").
CloseCommitsAll == user = "closed" => acked \subseteq Stored

Fetching == {"f_lock", "f_pool", "f_c1", "f_kf", "f_df"}

Op == [t \in Threads |-> IF pcs[t] = "idle" THEN "none"
                         ELSE IF pcs[t] \in Fetching THEN "fetch" ELSE "insert"]
Missed == [t \in Threads |-> pcs[t] \in Fetching \ {"f_lock"} /\ ~expect[t]]

\* A fetch looks when it takes m_, and an insert adds when it takes m_ again.
Promise == INSTANCE KeyValue WITH
    content <- Present, broken <- ecb, op <- Op, missed <- Missed

\* To its callers the store is one set of keys, on which fetch and insert act
\* at one moment each, whatever the commit thread is doing.
ImplementsKeyValue == Promise!Spec

\* Every call of fetch and insert returns, and so does close, also when its
\* notification comes just before the commit thread goes to sleep.
CallsReturn ==
    /\ \A t \in Threads : pcs[t] # "idle" ~> pcs[t] = "idle"
    /\ user = "closing" ~> user \in {"closed", "error"}

\* What has been inserted is committed sooner or later, or the store reports
\* the error that prevents it.
InsertsGetCommitted == \A k \in Keys : k \in acked ~> (k \in Stored \/ ecb)
=============================================================================
