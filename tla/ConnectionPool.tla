---------------------------- MODULE ConnectionPool ----------------------------
(***************************************************************************)
(* soci::connection_pool (core/connection-pool.cpp), in its two versions,  *)
(* with a condition variable and with a semaphore, and the session objects *)
(* that stand for a leased one (core/session.cpp).                         *)
(*                                                                         *)
(* A thread owns the mutex only for a few lines between which nothing else *)
(* happens, so that each of these is one step; waiting gives it up.        *)
(***************************************************************************)
EXTENDS Integers, FiniteSets

CONSTANTS
    Threads,     \* each leases one session at a time
    Size,        \* of the pool
    Backends,    \* the addresses a backend can have
    None         \* no position; a pointer that is NULL

ASSUME PoolAssumption == Size \in Nat \ {0} /\ None \notin 0 .. Size - 1
ASSUME BackendsAssumption == None \notin Backends
ASSUME ThreadsAssumption == IsFiniteSet(Threads)

VARIABLES
    build,       \* "posix" or "windows", the version that was compiled
    free,        \* first of each pair in sessions_
    at,          \* where each thread is, see TypeOK
    pos,         \* the position a thread has leased
    timed,       \* the thread is in a try_lease with a timeout
    sem,         \* the count of the semaphore
    backEnd,     \* backEnd_ of each pooled session
    opened,      \* the pooled sessions with parameters to reconnect with
    proxy,       \* backEnd_ of a thread's session object, a copy
    since        \* what was called through it since the copy was last made:
                 \* "none", "opened", or "threw" if a reconnect failed

pool == <<build, free, pos, timed, sem>>
sessions == <<backEnd, opened, proxy, since>>
vars == <<pool, at, sessions>>

Positions == 0 .. Size - 1
Free == {s \in Positions : free[s]}
In(where) == {t \in Threads : at[t] = where}

\* Where the next backend may be put; deleted ones leave their place to others.
Unused(b) == {a \in Backends : \A s \in Positions : b[s] # a}

\* The pool is set up, as a rule with all of its sessions open.
Init ==
    /\ build \in {"posix", "windows"}
    /\ free = [s \in Positions |-> TRUE]
    /\ at = [t \in Threads |-> "out"]
    /\ pos = [t \in Threads |-> None]
    /\ timed = [t \in Threads |-> FALSE]
    /\ sem = Size
    /\ backEnd \in [Positions -> Backends \cup {None}]
    /\ \A r, s \in Positions : r # s /\ backEnd[r] # None => backEnd[r] # backEnd[s]
    /\ opened = {s \in Positions : backEnd[s] # None}
    /\ proxy = [t \in Threads |-> None]
    /\ since = [t \in Threads |-> "none"]

-----------------------------------------------------------------------------
(* try_lease and the constructor session(connection_pool &) *)

\* lease is try_lease without a timeout.
try_lease(t) ==
    /\ at[t] = "out"
    /\ \E b \in BOOLEAN : timed' = [timed EXCEPT ![t] = b]
    /\ at' = [at EXCEPT ![t] = "want"]
    /\ UNCHANGED <<build, free, pos, sem, sessions>>

\* Mutant: a session that is in use is taken for a free one.
find_free_First == 0

\* The first free position
find_free == CHOOSE s \in Free : \A r \in Free : s <= r

\* The position is marked and the session object takes over the backend.
Take(t) ==
    LET s == find_free
    IN  /\ free' = [free EXCEPT ![s] = FALSE]
        /\ pos' = [pos EXCEPT ![t] = s]
        /\ proxy' = [proxy EXCEPT ![t] = backEnd[s]]
        /\ since' = [since EXCEPT ![t] = "none"]
        /\ at' = [at EXCEPT ![t] = "in"]
        /\ timed' = [timed EXCEPT ![t] = FALSE]

\* With the mutex a thread finds a free position, or sleeps and gives it up.
PosixTake(t) ==
    /\ build = "posix" /\ at[t] = "want" /\ Free # {}
    /\ Take(t)
    /\ UNCHANGED <<build, sem, backEnd, opened>>

PosixSleep(t) ==
    /\ build = "posix" /\ at[t] = "want" /\ Free = {}
    /\ at' = [at EXCEPT ![t] = "asleep"]
    /\ UNCHANGED <<pool, sessions>>

SpuriousWakeup(t) ==
    /\ at[t] = "asleep"
    /\ at' = [at EXCEPT ![t] = "want"]
    /\ UNCHANGED <<pool, sessions>>

\* Mutant: the semaphore keeps its count.
WindowsWait_NoCount(t) ==
    /\ build = "windows" /\ at[t] = "want" /\ sem > 0
    /\ at' = [at EXCEPT ![t] = "granted"]
    /\ UNCHANGED <<pool, sessions>>

WindowsWait(t) ==
    /\ build = "windows" /\ at[t] = "want" /\ sem > 0
    /\ sem' = sem - 1
    /\ at' = [at EXCEPT ![t] = "granted"]
    /\ UNCHANGED <<build, free, pos, timed, sessions>>

\* Without a free position try_lease throws and never leaves the critical section.
WindowsTake(t) ==
    /\ at[t] = "granted" /\ In("stuck") = {}
    /\ IF Free # {} THEN Take(t)
       ELSE at' = [at EXCEPT ![t] = "stuck"] /\ UNCHANGED <<free, pos, timed, proxy, since>>
    /\ UNCHANGED <<build, sem, backEnd, opened>>

\* A wait for the semaphore ends at once when that has a count.
Waits(t) == at[t] = "asleep" \/ (build = "windows" /\ at[t] = "want" /\ sem = 0)

\* Mutant: a thread that timed out looks for a free position again.
Timeout_GoesOn(t) ==
    /\ timed[t] /\ Waits(t)
    /\ at' = [at EXCEPT ![t] = "want"]
    /\ UNCHANGED <<pool, sessions>>

\* try_lease returns false, even if by now there is a free position.
Timeout(t) ==
    /\ timed[t] /\ Waits(t)
    /\ at' = [at EXCEPT ![t] = "out"]
    /\ timed' = [timed EXCEPT ![t] = FALSE]
    /\ UNCHANGED <<build, free, pos, sem, sessions>>

-----------------------------------------------------------------------------
(* give_back, called by the destructor of the session object *)

\* The position is marked with the mutex held (one that is free already makes
\* give_back throw, out of the destructor), ...
give_back(t) ==
    /\ at[t] = "in" /\ In("stuck") = {} /\ ~free[pos[t]]
    /\ free' = [free EXCEPT ![pos[t]] = TRUE]
    /\ at' = [at EXCEPT ![t] = "signal"]
    /\ pos' = [pos EXCEPT ![t] = None]
    /\ proxy' = [proxy EXCEPT ![t] = None]
    /\ since' = [since EXCEPT ![t] = "none"]
    /\ UNCHANGED <<build, timed, sem, backEnd, opened>>

\* Mutant: nobody is told.
PosixSignal_Lost(t) ==
    /\ build = "posix" /\ at[t] = "signal"
    /\ at' = [at EXCEPT ![t] = "out"]
    /\ UNCHANGED <<pool, sessions>>

\* ... and without it a waiting thread is told, if there is one.
PosixSignal(t) ==
    /\ build = "posix" /\ at[t] = "signal"
    /\ LET a == [at EXCEPT ![t] = "out"]
       IN  IF In("asleep") = {} THEN at' = a
           ELSE \E u \in In("asleep") : at' = [a EXCEPT ![u] = "want"]
    /\ UNCHANGED <<pool, sessions>>

\* The semaphore has Size as its maximum, above which it refuses to count.
WindowsRelease(t) ==
    /\ build = "windows" /\ at[t] = "signal"
    /\ sem' = IF sem < Size THEN sem + 1 ELSE sem
    /\ at' = [at EXCEPT ![t] = "out"]
    /\ UNCHANGED <<build, free, pos, timed, sessions>>

-----------------------------------------------------------------------------
(* open, close and reconnect of a session object that stands for a pooled one *)

\* open throws if the pooled session is connected or the backend fails to
\* connect; if not, the session object does not learn of the new backend.
open(t) ==
    /\ at[t] = "in" /\ backEnd[pos[t]] = None
    /\ \E a \in Unused(backEnd) : backEnd' = [backEnd EXCEPT ![pos[t]] = a]
    /\ opened' = opened \cup {pos[t]}
    /\ since' = [since EXCEPT ![t] = IF @ = "threw" THEN @ ELSE "opened"]
    /\ UNCHANGED <<pool, at, proxy>>

\* The pooled sessions once that of the thread has deleted its backend
Closed(t) == [backEnd EXCEPT ![pos[t]] = None]

\* Mutant: the session object keeps the pointer to the deleted backend.
close_KeepsPointer(t) ==
    /\ at[t] = "in"
    /\ backEnd' = Closed(t)
    /\ since' = [since EXCEPT ![t] = "none"]
    /\ UNCHANGED <<pool, at, opened, proxy>>

close(t) ==
    /\ at[t] = "in"
    /\ backEnd' = Closed(t)
    /\ proxy' = [proxy EXCEPT ![t] = None]
    /\ since' = [since EXCEPT ![t] = "none"]
    /\ UNCHANGED <<pool, at, opened>>

reconnect(t) ==
    /\ at[t] = "in" /\ pos[t] \in opened
    /\ \E a \in Unused(Closed(t)) :
          /\ backEnd' = [backEnd EXCEPT ![pos[t]] = a]
          /\ proxy' = [proxy EXCEPT ![t] = a]
    /\ since' = [since EXCEPT ![t] = "none"]
    /\ UNCHANGED <<pool, at, opened>>

\* The pooled session has closed its backend and cannot open a new one: the
\* exception leaves the session object as it was.
ReconnectFails(t) ==
    /\ at[t] = "in" /\ pos[t] \in opened
    /\ backEnd' = Closed(t)
    /\ since' = [since EXCEPT ![t] = "threw"]
    /\ UNCHANGED <<pool, at, opened, proxy>>

-----------------------------------------------------------------------------

Takes(t) == PosixTake(t) \/ WindowsTake(t)

Next ==
    \E t \in Threads :
        \/ try_lease(t) \/ PosixTake(t) \/ PosixSleep(t) \/ SpuriousWakeup(t)
        \/ WindowsWait(t) \/ WindowsTake(t) \/ Timeout(t)
        \/ give_back(t) \/ PosixSignal(t) \/ WindowsRelease(t)
        \/ open(t) \/ close(t) \/ reconnect(t) \/ ReconnectFails(t)

\* Threads run, and do not keep a session for ever.  A deadline is absolute:
\* however often a thread is woken, one of its waits is the last.  The mutex and
\* the semaphore favour nobody.
Fairness ==
    \A t \in Threads :
        /\ WF_vars(PosixTake(t) \/ PosixSleep(t)) /\ WF_vars(WindowsWait(t))
        /\ WF_vars(WindowsTake(t)) /\ SF_vars(Timeout(t))
        /\ WF_vars(give_back(t)) /\ WF_vars(PosixSignal(t)) /\ WF_vars(WindowsRelease(t))

Spec == Init /\ [][Next]_vars /\ Fairness

-----------------------------------------------------------------------------
(* Properties *)

\* Type invariant; a position is free exactly when no thread has leased it.
TypeOK ==
    /\ build \in {"posix", "windows"} /\ sem \in 0 .. Size
    /\ at \in [Threads -> {"out", "want", "asleep", "granted", "stuck", "in", "signal"}]
    /\ pos \in [Threads -> Positions \cup {None}]
    /\ \A t \in Threads : at[t] = "in" <=> pos[t] # None
    /\ \A s \in Positions : free[s] <=> \A t \in Threads : pos[t] # s
    /\ timed \in [Threads -> BOOLEAN] /\ opened \subseteq Positions
    /\ backEnd \in [Positions -> Backends \cup {None}]
    /\ proxy \in [Threads -> Backends \cup {None}]
    /\ since \in [Threads -> {"none", "opened", "threw"}]

Promise == INSTANCE SessionPool WITH Sessions <- Positions, has <- pos

\* No session is with two threads at a time, in either version of the pool
\* ("its session objects are never used by more than one thread at a time",
\* docs/multithreading.md).
ImplementsSessionPool == Promise!Spec

\* The semaphore and the positions agree, so that who passed the semaphore finds
\* a free position ("this should be impossible", connection-pool.cpp).
SemaphoreAgrees ==
    build = "windows" =>
        /\ Cardinality(Free) = sem + Cardinality(In("granted")) + Cardinality(In("signal"))
        /\ In("stuck") = {}

\* As long as threads wait, sessions are leased again and again: sleepers and
\* free sessions are never left to each other.
PoolProgress ==
    \/ []<>(\A t \in Threads : at[t] \notin {"want", "asleep", "granted"})
    \/ []<><<\E t \in Threads : Takes(t)>>_vars

\* try_lease with a timeout returns.
TimedReturns ==
    \A t \in Threads :
        at[t] \in {"want", "asleep"} /\ timed[t] ~> at[t] \notin {"want", "asleep"}

\* The backend a session object works with is that of its own pooled session,
\* whatever other threads do to theirs and wherever new backends are put, and no
\* two of them work with the same one.  docs/multithreading.md says that "all
\* further uses will be forwarded" to the pooled session; that is not so after an
\* open through the session object, whose own pointer stays NULL, so that begin,
\* commit and rollback throw; nor after a reconnect that threw, which leaves the
\* pointer at a deleted backend, or at another thread's that took its place.
ProxyFollows ==
    \A t \in In("in") :
        /\ since[t] = "none" => proxy[t] = backEnd[pos[t]]
        /\ since[t] = "opened" => proxy[t] = None
        /\ \A u \in In("in") \ {t} :
              "threw" \notin {since[t], since[u]} /\ proxy[t] # None => proxy[t] # proxy[u]
=============================================================================
