------------------------------- MODULE Gentex -------------------------------
(***************************************************************************)
(* The generation-counting mutex of NuDB (nudb/detail/gentex.hpp) and the  *)
(* discipline of its two kinds of caller:                                  *)
(*   - fetch and insert take a genlock while the store mutex m_ is held,   *)
(*     release m_, read the key file, and drop the genlock;                *)
(*   - commit calls start() when it publishes new buckets and finish()     *)
(*     before it overwrites the key file.                                  *)
(* Every method body runs under the gentex's own mutex, so a method is one *)
(* step, except finish(), which sleeps on cond_ and may wake spuriously.   *)
(* gen_ is a size_t: it is kept modulo GenMod so that wrap-around happens. *)
(* Store extends this module; what it has of its own by the same name is   *)
(* called Gen... here.                                                     *)
(***************************************************************************)
EXTENDS Integers, FiniteSets

CONSTANTS Threads,   \* threads that call fetch or insert
          GenMod     \* number of values of gen_ (2^64 in the build)

ASSUME ThreadsAssumption == IsFiniteSet(Threads)
ASSUME GenModAssumption == GenMod \in Nat /\ GenMod >= 2

VARIABLES
    gen, cur, prev,  \* gen_, cur_, prev_
    held,            \* genlock::gen_ of each reader, NoGen when it owns none
    fin,             \* where the committer is between start() and the
                     \* last key-file write
    old              \* history: readers that were inside at the last start()
                     \* and have not left since

genvars == <<gen, cur, prev, held, fin, old>>

NoGen == -1
Gens == 0 .. GenMod - 1
FinStates == {"idle", "started", "waiting", "woken", "writing", "stopped"}

GenInit ==
    /\ gen = 0 /\ cur = 0 /\ prev = 0
    /\ held = [r \in Threads |-> NoGen]
    /\ fin = "idle"
    /\ old = {}

Inside == {r \in Threads : held[r] # NoGen}

-----------------------------------------------------------------------------
\* Faulty start(): the readers inside are not carried over to prev_.
start_ForgetsReaders ==
    /\ fin = "idle"
    /\ cur' = 0
    /\ gen' = (gen + 1) % GenMod
    /\ fin' = "started"
    /\ old' = Inside
    /\ UNCHANGED <<prev, held>>

\* Faulty start(): gen_ is not incremented.
start_SameGeneration ==
    /\ fin = "idle"
    /\ prev' = prev + cur
    /\ cur' = 0
    /\ fin' = "started"
    /\ old' = Inside
    /\ UNCHANGED <<gen, held>>

start ==
    /\ fin = "idle"
    /\ prev' = prev + cur
    /\ cur' = 0
    /\ gen' = (gen + 1) % GenMod
    /\ fin' = "started"
    /\ old' = Inside
    /\ UNCHANGED held

\* finish() from its entry, or from a wake-up of cond_.wait, to its return or
\* to the next sleep.
finish ==
    /\ fin \in {"started", "woken"}
    /\ fin' = IF prev > 0 THEN "waiting" ELSE "writing"
    /\ UNCHANGED <<gen, cur, prev, held, old>>

\* cond_.wait may return without a notification.
GenSpuriousWakeup ==
    /\ fin = "waiting"
    /\ fin' = "woken"
    /\ UNCHANGED <<gen, cur, prev, held, old>>

lock_gen(r) ==
    /\ held[r] = NoGen
    /\ cur' = cur + 1
    /\ held' = [held EXCEPT ![r] = gen]
    /\ UNCHANGED <<gen, prev, fin, old>>

\* Faulty unlock_gen(): the generation is not compared.
unlock_gen_AlwaysCurrent(r) ==
    /\ held[r] # NoGen
    /\ cur' = cur - 1
    /\ held' = [held EXCEPT ![r] = NoGen]
    /\ old' = old \ {r}
    /\ UNCHANGED <<gen, prev, fin>>

\* Faulty unlock_gen(): the last old reader does not notify.
unlock_gen_NoNotify(r) ==
    /\ held[r] # NoGen
    /\ IF held[r] = gen
       THEN cur' = cur - 1 /\ UNCHANGED prev
       ELSE prev' = prev - 1 /\ UNCHANGED cur
    /\ held' = [held EXCEPT ![r] = NoGen]
    /\ old' = old \ {r}
    /\ UNCHANGED <<gen, fin>>

unlock_gen(r) ==
    /\ held[r] # NoGen
    /\ IF held[r] = gen
       THEN /\ cur' = cur - 1
            /\ UNCHANGED <<prev, fin>>
       ELSE /\ prev' = prev - 1
            /\ fin' = IF prev' = 0 /\ fin = "waiting" THEN "woken" ELSE fin
            /\ UNCHANGED cur
    /\ held' = [held EXCEPT ![r] = NoGen]
    /\ old' = old \ {r}
    /\ UNCHANGED gen

\* The key-file writes that follow finish() are over; commit returns.
GenCommitEnd ==
    /\ fin = "writing"
    /\ fin' = "idle"
    /\ UNCHANGED <<gen, cur, prev, held, old>>

\* A write to the log fails between start() and finish(), or a write to the
\* key file fails after it: commit returns early and the commit thread exits,
\* so nobody calls start() again.
GenCommitFail ==
    /\ fin \in {"started", "writing"}
    /\ fin' = "stopped"
    /\ UNCHANGED <<gen, cur, prev, held, old>>

Committer == start \/ finish \/ GenCommitEnd \/ GenCommitFail
Reader(r) == lock_gen(r) \/ unlock_gen(r)

GenNext == Committer \/ GenSpuriousWakeup \/ \E r \in Threads : Reader(r)

\* The committer is not descheduled for ever, and a thread that holds a
\* genlock only performs reads of finite length before it drops it.
GenFairness ==
    /\ WF_genvars(finish)
    /\ \A r \in Threads : WF_genvars(unlock_gen(r))

GenSpec == GenInit /\ [][GenNext]_genvars /\ GenFairness

-----------------------------------------------------------------------------
Young == {r \in Threads : held[r] = gen}
Elder == {r \in Threads : held[r] \notin {gen, NoGen}}

\* Type invariant: the unsigned counters cur_ and prev_ never go below zero,
\* and never count more than the threads there are.
GenTypeOK ==
    /\ gen \in Gens
    /\ cur \in 0 .. Cardinality(Threads)
    /\ prev \in 0 .. Cardinality(Threads)
    /\ held \in [Threads -> Gens \cup {NoGen}]
    /\ fin \in FinStates
    /\ old \in SUBSET Threads

\* When finish() has returned, no thread that took its genlock before start()
\* is still reading: the key-file blocks commit is about to overwrite are not
\* being read by a thread that looked its bucket up in the old table.
OldReadersGone == fin = "writing" => old = {}

\* A committer asleep in cond_.wait always has a reader whose unlock_gen will
\* notify it: the wake-up cannot be lost.
SleeperHasWaker == fin = "waiting" => old # {} /\ prev = Cardinality(old)

\* The counters are exact: cur_ counts the genlocks of the current generation
\* and prev_ those of the generation before, also after gen_ has wrapped.
CountersExact == cur = Cardinality(Young) /\ prev = Cardinality(Elder)

\* The inductive strengthening of OldReadersGone and SleeperHasWaker: a genlock
\* with another generation than gen_ belongs to a reader of before start().
GenIInv ==
    /\ GenTypeOK
    /\ CountersExact
    /\ old = Elder
    /\ fin \in {"idle", "writing"} => Elder = {}
    /\ fin = "waiting" => Elder # {}

\* A commit that called start() gets through finish() (or failed before it):
\* readers that arrive after start() cannot hold it back.
FinishReturns == fin = "started" ~> fin \in {"writing", "stopped"}
=============================================================================
