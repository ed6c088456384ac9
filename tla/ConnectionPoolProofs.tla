------------------------ MODULE ConnectionPoolProofs ------------------------
(* Proofs about the connection pool, for any size of the pool and any finite *)
(* set of threads, in both of its versions.                                  *)
EXTENDS ConnectionPool, FiniteSetTheorems, WellFoundedInduction, TLAPS

\* No position is with two threads.
Exclusive ==
    \A t, u \in Threads : pos[t] = pos[u] /\ pos[t] # None => t = u

\* No two pooled sessions have the same backend.
Distinct ==
    \A r, s \in Positions : r # s /\ backEnd[r] # None => backEnd[r] # backEnd[s]

\* A session object's copy is as the calls made through it leave it.
Follows(t) ==
    /\ since[t] = "none" => proxy[t] = backEnd[pos[t]]
    /\ since[t] = "opened" => proxy[t] = None

Sessions == (\A t \in In("in") : Follows(t)) /\ Distinct

\* The inductive invariant.  SemaphoreAgrees and ProxyFollows need that marks
\* and leases agree (TypeOK) and that a lease is exclusive: otherwise giving a
\* position back could free one that another thread has, and closing a session
\* could delete the backend of another thread's session object.  That session
\* objects do not share a backend rests on Distinct.
IInv ==
    /\ TypeOK /\ free \in [Positions -> BOOLEAN]
    /\ Exclusive /\ SemaphoreAgrees /\ Sessions

-----------------------------------------------------------------------------
(* find_free and counting *)

\* A nonempty set of numbers has a least one.
LEMMA LeastNumber ==
    ASSUME NEW S \in SUBSET Nat, S # {}
    PROVE  \E m \in S : \A k \in S : m <= k
<1> DEFINE less == {p \in Nat \X Nat : p[1] < p[2]}
<1>1. OpToRel(<, Nat) = less
    BY DEF OpToRel
<1>2. IsWellFoundedOn(less, Nat)
    BY <1>1, NatLessThanWellFounded, Zenon
<1>3. PICK m \in S : \A k \in S : <<k, m>> \notin less
    <2> HIDE DEF less
    <2> QED BY <1>2, WFMin, Zenon
<1>4. ASSUME NEW k \in S PROVE m <= k
    <2>1. ~(k < m)
        BY <1>3, Zenon
    <2> QED BY <2>1
<1> QED BY <1>4

\* If there is a free position, find_free returns one.
LEMMA FirstFree == Free # {} => find_free \in Free
<1> SUFFICES ASSUME Free # {} PROVE find_free \in Free
    OBVIOUS
<1>1. Free \in SUBSET Nat
    BY PoolAssumption DEF Free, Positions
<1> QED BY <1>1, LeastNumber, Zenon DEF find_free

\* The free positions are finitely many and at most Size, and so are the
\* threads at one place.
LEMMA Finite ==
    /\ IsFiniteSet(Free) /\ Cardinality(Free) \in 0 .. Size
    /\ \A w : IsFiniteSet(In(w)) /\ Cardinality(In(w)) \in Nat
<1>1. IsFiniteSet(Positions) /\ Cardinality(Positions) = Size
    BY PoolAssumption, FS_Interval DEF Positions
<1>2. Free \in SUBSET Positions
    BY DEF Free
<1>3. IsFiniteSet(Free) /\ Cardinality(Free) <= Size
    BY <1>1, <1>2, FS_Subset
<1>4. Cardinality(Free) \in Nat
    BY <1>3, FS_CardinalityType
<1>5. ASSUME NEW w PROVE IsFiniteSet(In(w)) /\ Cardinality(In(w)) \in Nat
    <2>1. In(w) \in SUBSET Threads
        BY DEF In
    <2>2. IsFiniteSet(In(w))
        BY <2>1, ThreadsAssumption, FS_Subset
    <2> QED BY <2>2, FS_CardinalityType
<1> QED BY <1>3, <1>4, <1>5, PoolAssumption

-----------------------------------------------------------------------------
(* The invariant holds at first and after every step *)

LEMMA InitIInv == Init => IInv
<1> SUFFICES ASSUME Init PROVE IInv
    OBVIOUS
<1>1. Free = Positions /\ \A v : v # "out" => In(v) = {}
    BY DEF Init, Free, In
<1>2. Cardinality(Positions) = Size /\ Cardinality({}) = 0
    BY PoolAssumption, FS_Interval, FS_EmptySet DEF Positions
<1>3. SemaphoreAgrees
    <2>1. In("granted") = {} /\ In("signal") = {} /\ In("stuck") = {}
        BY <1>1
    <2>2. Size = sem + 0 + 0
        BY PoolAssumption DEF Init
    <2> QED BY <1>1, <1>2, <2>1, <2>2 DEF SemaphoreAgrees
<1>4. TypeOK
    BY PoolAssumption DEF Init, TypeOK, Positions
<1> QED BY <1>1, <1>3, <1>4 DEF Init, IInv, Exclusive, Sessions, Distinct

\* The steps that only move a thread outside the pool
LEMMA MoveIInv ==
    ASSUME IInv, NEW t \in Threads,
           \/ try_lease(t) \/ PosixSleep(t) \/ SpuriousWakeup(t) \/ Timeout(t)
    PROVE  IInv'
<1> USE DEF IInv, TypeOK, Sessions
<1>1. PICK w \in {"out", "want", "asleep"} : at' = [at EXCEPT ![t] = w]
    BY DEF try_lease, PosixSleep, SpuriousWakeup, Timeout
<1>2. /\ at[t] \in {"out", "want", "asleep"} /\ timed' \in [Threads -> BOOLEAN]
      /\ UNCHANGED <<build, free, pos, sem, backEnd, opened, proxy, since>>
    <2>1. /\ at[t] \in {"out", "want", "asleep"}
          /\ UNCHANGED <<build, free, pos, sem, backEnd, opened, proxy, since>>
        BY DEF try_lease, PosixSleep, SpuriousWakeup, Timeout, Waits, pool, sessions
    <2>2. timed' = timed \/ \E b \in BOOLEAN : timed' = [timed EXCEPT ![t] = b]
        BY DEF try_lease, PosixSleep, SpuriousWakeup, Timeout, pool
    <2>3. timed \in [Threads -> BOOLEAN]
        OBVIOUS
    <2> HIDE DEF IInv, TypeOK, Sessions
    <2>4. CASE timed' = timed
        BY <2>1, <2>3, <2>4
    <2>5. CASE \E b \in BOOLEAN : timed' = [timed EXCEPT ![t] = b]
        BY <2>1, <2>3, <2>5
    <2> QED BY <2>2, <2>4, <2>5
<1>3. Free' = Free
    BY <1>2 DEF Free
<1>4. \A v \in {"granted", "signal", "stuck"} : In(v)' = In(v)
    BY <1>1, <1>2 DEF In
<1>5. SemaphoreAgrees'
    BY <1>2, <1>3, <1>4 DEF SemaphoreAgrees
<1>6. TypeOK'
    BY <1>1, <1>2, Zenon
<1>7. Sessions'
    BY <1>1, <1>2 DEF Follows, Distinct, In
<1> QED BY <1>2, <1>5, <1>6, <1>7 DEF Exclusive

\* The semaphore grants a thread a position before the thread has found it.
LEMMA WaitIInv == ASSUME IInv, NEW t \in Threads, WindowsWait(t) PROVE IInv'
<1> USE DEF IInv, TypeOK, Sessions
<1>1. /\ at' = [at EXCEPT ![t] = "granted"] /\ at[t] = "want" /\ sem' = sem - 1 /\ sem > 0
      /\ UNCHANGED <<build, free, pos, timed, backEnd, opened, proxy, since>>
    BY DEF WindowsWait, sessions
<1>2. Free' = Free
    BY <1>1 DEF Free
<1>3. /\ In("granted")' = In("granted") \cup {t} /\ t \notin In("granted")
      /\ In("signal")' = In("signal") /\ In("stuck")' = In("stuck")
    BY <1>1 DEF In
<1>4. Cardinality(In("granted")') = Cardinality(In("granted")) + 1
    BY <1>3, Finite, FS_AddElement
<1>5. SemaphoreAgrees'
    <2>1. Cardinality(In("granted")) \in Nat /\ Cardinality(In("signal")) \in Nat
        BY Finite
    <2> QED BY <1>1, <1>2, <1>3, <1>4, <2>1 DEF SemaphoreAgrees
<1>6. TypeOK'
    BY <1>1, PoolAssumption
<1>7. Sessions'
    BY <1>1 DEF Follows, Distinct, In
<1> QED BY <1>1, <1>5, <1>6, <1>7 DEF Exclusive

\* A free position is marked and leased: what TypeOK and Exclusive say of it
\* holds again, and the session object's copy is right.
LEMMA TakeLeases ==
    ASSUME IInv, NEW t \in Threads, at[t] # "in", Free # {}, Take(t),
           UNCHANGED <<build, sem, backEnd, opened>>
    PROVE  /\ TypeOK' /\ free' \in [Positions -> BOOLEAN] /\ Exclusive' /\ Sessions'
           /\ Free' = Free \ {find_free}
<1> USE DEF IInv, TypeOK, Sessions
<1> DEFINE s == find_free
<1>1. s \in Positions /\ free[s]
    BY FirstFree DEF Free
<1>2. /\ free' = [free EXCEPT ![s] = FALSE] /\ pos' = [pos EXCEPT ![t] = s]
      /\ proxy' = [proxy EXCEPT ![t] = backEnd[s]] /\ since' = [since EXCEPT ![t] = "none"]
      /\ at' = [at EXCEPT ![t] = "in"] /\ timed' = [timed EXCEPT ![t] = FALSE]
    BY DEF Take
<1> HIDE DEF s
<1>3. pos[t] = None /\ s # None /\ \A u \in Threads : pos[u] # s
    BY <1>1, PoolAssumption DEF Positions
<1>4. ASSUME NEW r \in Positions PROVE free'[r] <=> \A u \in Threads : pos'[u] # r
    <2>1. CASE r = s
        BY <1>1, <1>2, <2>1
    <2>2. CASE r # s
        <3>1. free'[r] = free[r]
            BY <1>2, <2>2
        <3>2. \A u \in Threads : pos'[u] # r <=> pos[u] # r
            BY <1>2, <1>3, <2>2, PoolAssumption DEF Positions
        <3> QED BY <3>1, <3>2
    <2> QED BY <2>1, <2>2
<1>5. TypeOK'
    BY <1>1, <1>2, <1>3, <1>4
<1>6. free' \in [Positions -> BOOLEAN]
    BY <1>2, Zenon
<1>7. Exclusive'
    BY <1>2, <1>3 DEF Exclusive
<1>8. Sessions'
    BY <1>2 DEF Follows, Distinct, In
<1>9. Free' = Free \ {s}
    BY <1>1, <1>2 DEF Free
<1> QED BY <1>5, <1>6, <1>7, <1>8, <1>9 DEF s

LEMMA PosixTakeIInv == ASSUME IInv, NEW t \in Threads, PosixTake(t) PROVE IInv'
<1>1. ~(build' = "windows")
    BY DEF PosixTake
<1>2. SemaphoreAgrees'
    BY <1>1 DEF SemaphoreAgrees
<1> QED BY <1>2, TakeLeases DEF PosixTake, IInv

\* Who passed the semaphore is among the granted, for each of which there is a
\* free position.
LEMMA WindowsTakeIInv == ASSUME IInv, NEW t \in Threads, WindowsTake(t) PROVE IInv'
<1>1. CASE build = "windows"
    <2>1. t \in In("granted") /\ at[t] = "granted"
        BY DEF WindowsTake, In
    <2>2. Cardinality(In("granted")) # 0
        BY <2>1, Finite, FS_EmptySet
    <2>3. Cardinality(Free) # 0
        BY <1>1, <2>2, Finite DEF IInv, TypeOK, SemaphoreAgrees
    <2>4. Free # {}
        BY <2>3, FS_EmptySet
    <2>5. Take(t) /\ UNCHANGED <<build, sem, backEnd, opened>>
        BY <2>4 DEF WindowsTake
    <2>6. /\ TypeOK' /\ free' \in [Positions -> BOOLEAN] /\ Exclusive' /\ Sessions'
          /\ Free' = Free \ {find_free}
        BY <2>1, <2>4, <2>5, TakeLeases
    <2>7. /\ In("granted")' = In("granted") \ {t}
          /\ In("signal")' = In("signal") /\ In("stuck")' = In("stuck")
        BY <2>1, <2>5 DEF Take, In, IInv, TypeOK
    <2>8. Cardinality(Free') = Cardinality(Free) - 1
        BY <2>4, <2>6, FirstFree, Finite, FS_RemoveElement
    <2>9. Cardinality(In("granted")') = Cardinality(In("granted")) - 1
        BY <2>1, <2>7, Finite, FS_RemoveElement
    <2>10. SemaphoreAgrees'
        BY <1>1, <2>5, <2>7, <2>8, <2>9, Finite DEF IInv, TypeOK, SemaphoreAgrees
    <2> QED BY <2>6, <2>10 DEF IInv
<1>2. CASE build # "windows"
    <2>1. SemaphoreAgrees'
        BY <1>2 DEF WindowsTake, SemaphoreAgrees
    <2>2. CASE Free # {}
        BY <2>1, <2>2, TakeLeases DEF WindowsTake, IInv
    <2>3. CASE Free = {}
        <3>1. /\ at' = [at EXCEPT ![t] = "stuck"] /\ at[t] = "granted"
              /\ UNCHANGED <<free, pos, proxy, since, build, timed, sem, backEnd, opened>>
            BY <2>3 DEF WindowsTake
        <3>2. TypeOK' /\ free' \in [Positions -> BOOLEAN] /\ Exclusive'
            BY <3>1 DEF IInv, TypeOK, Exclusive
        <3>3. Sessions'
            BY <3>1 DEF IInv, TypeOK, Sessions, Follows, Distinct, In
        <3> QED BY <2>1, <3>2, <3>3 DEF IInv
    <2> QED BY <2>2, <2>3
<1> QED BY <1>1, <1>2

\* The position is marked free while the thread is yet to signal.
LEMMA GiveBackIInv == ASSUME IInv, NEW t \in Threads, give_back(t) PROVE IInv'
<1> USE DEF IInv, TypeOK, Sessions
<1> DEFINE s == pos[t]
<1>1. /\ at[t] = "in" /\ s \in Positions /\ s # None /\ ~free[s]
      /\ \A u \in Threads \ {t} : pos[u] # s
    BY DEF give_back, Exclusive
<1>2. /\ free' = [free EXCEPT ![s] = TRUE] /\ pos' = [pos EXCEPT ![t] = None]
      /\ at' = [at EXCEPT ![t] = "signal"] /\ proxy' = [proxy EXCEPT ![t] = None]
      /\ since' = [since EXCEPT ![t] = "none"]
      /\ UNCHANGED <<build, timed, sem, backEnd, opened>>
    BY DEF give_back
<1> HIDE DEF s
<1>3. ASSUME NEW r \in Positions PROVE free'[r] <=> \A u \in Threads : pos'[u] # r
    <2>1. r # None
        BY PoolAssumption DEF Positions
    <2>2. CASE r = s
        BY <1>1, <1>2, <2>1, <2>2
    <2>3. CASE r # s
        <3>1. free'[r] = free[r]
            BY <1>2, <2>3
        <3>2. \A u \in Threads : pos'[u] # r <=> pos[u] # r
            BY <1>2, <2>1, <2>3 DEF s
        <3> QED BY <3>1, <3>2
    <2> QED BY <2>2, <2>3
<1>4. TypeOK'
    BY <1>1, <1>2, <1>3
<1>5. free' \in [Positions -> BOOLEAN] /\ Exclusive'
    <2>1. free' \in [Positions -> BOOLEAN]
        BY <1>2, Zenon
    <2>2. ASSUME NEW u \in Threads PROVE pos'[u] = pos[u] \/ pos'[u] = None
        BY <1>2, Zenon
    <2> HIDE DEF TypeOK, Sessions
    <2> QED BY <2>1, <2>2, Zenon DEF Exclusive
<1>6. Sessions'
    BY <1>2 DEF Follows, Distinct, In
<1>7. SemaphoreAgrees'
    <2>1. Free' = Free \cup {s} /\ s \notin Free
        BY <1>1, <1>2 DEF Free
    <2>2. /\ In("signal")' = In("signal") \cup {t} /\ t \notin In("signal")
          /\ In("granted")' = In("granted") /\ In("stuck")' = In("stuck")
        BY <1>1, <1>2 DEF In
    <2>3. /\ Cardinality(Free') = Cardinality(Free) + 1
          /\ Cardinality(In("signal")') = Cardinality(In("signal")) + 1
        BY <2>1, <2>2, Finite, FS_AddElement, Zenon
    <2>4. /\ Cardinality(In("granted")) \in Nat /\ Cardinality(In("signal")) \in Nat
          /\ Cardinality(Free) \in Nat
        BY Finite
    <2> QED BY <1>2, <2>2, <2>3, <2>4 DEF SemaphoreAgrees
<1> QED BY <1>4, <1>5, <1>6, <1>7

LEMMA SignalIInv == ASSUME IInv, NEW t \in Threads, PosixSignal(t) PROVE IInv'
<1> USE DEF IInv, TypeOK, Sessions
<1>1. /\ build = "posix" /\ at[t] = "signal"
      /\ UNCHANGED <<build, free, pos, timed, sem, backEnd, opened, proxy, since>>
    BY DEF PosixSignal, pool, sessions
<1>2. /\ at' \in [Threads -> {"out", "want", "asleep", "granted", "stuck", "in", "signal"}]
      /\ \A u \in Threads : at'[u] = at[u]
                              \/ (at[u] \in {"signal", "asleep"} /\ at'[u] \in {"out", "want"})
    BY DEF PosixSignal, In
<1>3. TypeOK'
    BY <1>1, <1>2
<1>4. Sessions'
    BY <1>1, <1>2 DEF Follows, Distinct, In
<1>5. SemaphoreAgrees'
    BY <1>1 DEF SemaphoreAgrees
<1> QED BY <1>1, <1>3, <1>4, <1>5 DEF Exclusive

\* The count stays below the semaphore's maximum: the position given back is
\* counted as free and as signalled, but not yet by the semaphore.
LEMMA ReleaseIInv == ASSUME IInv, NEW t \in Threads, WindowsRelease(t) PROVE IInv'
<1> USE DEF IInv, TypeOK, Sessions
<1>1. /\ build = "windows" /\ at[t] = "signal" /\ at' = [at EXCEPT ![t] = "out"]
      /\ sem' = IF sem < Size THEN sem + 1 ELSE sem
      /\ UNCHANGED <<build, free, pos, timed, backEnd, opened, proxy, since>>
    BY DEF WindowsRelease, sessions
<1>2. /\ In("signal")' = In("signal") \ {t} /\ t \in In("signal")
      /\ In("granted")' = In("granted") /\ In("stuck")' = In("stuck")
    BY <1>1 DEF In
<1>3. Free' = Free
    BY <1>1 DEF Free
<1>4. Cardinality(In("signal")') = Cardinality(In("signal")) - 1
    BY <1>2, Finite, FS_RemoveElement
<1>5. /\ Cardinality(In("signal")) \in Nat \ {0} /\ Cardinality(In("granted")) \in Nat
      /\ Cardinality(Free) \in 0 .. Size
    BY <1>2, Finite, FS_EmptySet
<1>6. sem' = sem + 1 /\ sem' \in 0 .. Size
    BY <1>1, <1>5, PoolAssumption DEF SemaphoreAgrees
<1>7. SemaphoreAgrees'
    BY <1>1, <1>2, <1>3, <1>4, <1>5, <1>6 DEF SemaphoreAgrees
<1>8. TypeOK'
    BY <1>1, <1>6
<1>9. Sessions'
    BY <1>1 DEF Follows, Distinct, In
<1> QED BY <1>1, <1>7, <1>8, <1>9 DEF Exclusive

\* open, close and reconnect reach the backend of no other thread's session.
LEMMA SessionIInv ==
    ASSUME IInv, NEW t \in Threads,
           open(t) \/ close(t) \/ reconnect(t) \/ ReconnectFails(t)
    PROVE  IInv'
<1> USE DEF IInv, TypeOK, Sessions
<1>1. /\ at[t] = "in" /\ pos[t] \in Positions
      /\ UNCHANGED <<build, free, pos, timed, sem, at>>
    BY DEF open, close, reconnect, ReconnectFails, pool
<1>2. /\ opened' \in SUBSET Positions /\ proxy' \in [Threads -> Backends \cup {None}]
      /\ since' \in [Threads -> {"none", "opened", "threw"}]
      /\ \A u \in Threads \ {t} : proxy'[u] = proxy[u] /\ since'[u] = since[u]
    BY <1>1 DEF open, close, reconnect, ReconnectFails, Unused
<1>3. PICK b \in Unused(Closed(t)) \cup {None} : backEnd' = [backEnd EXCEPT ![pos[t]] = b]
    BY <1>1 DEF open, close, reconnect, ReconnectFails, Unused, Closed
<1>4. b = None \/ (b \in Backends /\ \A r \in Positions \ {pos[t]} : backEnd[r] # b)
    BY <1>1 DEF Unused, Closed
<1>5. Distinct'
    BY <1>1, <1>3, <1>4 DEF Distinct
<1>6. \A u \in Threads \ {t} : at[u] = "in" => pos[u] \in Positions /\ pos[u] # pos[t]
    BY <1>1 DEF Exclusive
<1>7. \A u \in In("in") \ {t} : Follows(u)'
    BY <1>1, <1>2, <1>3, <1>6 DEF Follows, In
<1>8. Follows(t)'
    <2>1. Follows(t)
        BY <1>1 DEF In
    <2>2. CASE open(t)
        BY <1>1, <2>1, <2>2 DEF open, Follows
    <2>3. CASE close(t)
        BY <1>1, <2>3 DEF close, Closed, Follows
    <2>4. CASE reconnect(t)
        BY <1>1, <2>4 DEF reconnect, Follows
    <2>5. CASE ReconnectFails(t)
        BY <1>1, <2>5 DEF ReconnectFails, Follows
    <2> QED BY <2>2, <2>3, <2>4, <2>5
<1>9. TypeOK'
    BY <1>1, <1>2, <1>3, <1>4
<1>10. SemaphoreAgrees'
    BY <1>1 DEF SemaphoreAgrees, Free, In
<1>11. In("in")' = In("in")
    BY <1>1 DEF In
<1> QED BY <1>1, <1>5, <1>7, <1>8, <1>9, <1>10, <1>11 DEF Exclusive

LEMMA NextIInv == IInv /\ [Next]_vars => IInv'
<1> SUFFICES ASSUME IInv, [Next]_vars PROVE IInv'
    OBVIOUS
<1>1. ASSUME UNCHANGED vars PROVE IInv'
    BY <1>1 DEF vars, pool, sessions, IInv, TypeOK, Exclusive, Sessions,
                Distinct, SemaphoreAgrees, Follows, Free, In
<1>2. ASSUME Next PROVE IInv'
    BY <1>2, MoveIInv, WaitIInv, PosixTakeIInv, WindowsTakeIInv, GiveBackIInv,
       SignalIInv, ReleaseIInv, SessionIInv DEF Next
<1> QED BY <1>1, <1>2

-----------------------------------------------------------------------------
(* Theorems *)

\* Type correctness; a position is marked free exactly when no thread has it
\* (sessions_[pos].first in connection-pool.cpp).
THEOREM TypeCorrect == Spec => []TypeOK
<1>1. IInv => TypeOK
    BY DEF IInv
<1> QED BY <1>1, InitIInv, NextIInv, PTL DEF Spec

\* For a pool of any size, the semaphore of the Windows version never grants
\* more positions than are free, and its count never reaches a maximum that
\* would make it forget one: the throw of try_lease is unreachable.
THEOREM SemaphoreAgreesThm == Spec => []SemaphoreAgrees
<1>1. IInv => SemaphoreAgrees
    BY DEF IInv
<1> QED BY <1>1, InitIInv, NextIInv, PTL DEF Spec

\* For any number of threads and addresses: as long as no reconnect has failed,
\* a session object's pointer is that of its own pooled session, or NULL after an
\* open through it, and no two objects work with one backend (session.cpp).
THEOREM ProxyFollowsThm == Spec => []ProxyFollows
<1>1. IInv => ProxyFollows
    <2> SUFFICES ASSUME IInv, NEW t \in In("in")
                 PROVE  /\ Follows(t)
                        /\ \A u \in In("in") \ {t} :
                              /\ "threw" \notin {since[t], since[u]} /\ proxy[t] # None
                              => proxy[t] # proxy[u]
        BY Zenon DEF ProxyFollows, Follows
    <2>1. Follows(t)
        BY DEF IInv, Sessions
    <2>2. ASSUME NEW u \in In("in") \ {t}, since[t] # "threw", since[u] # "threw",
                 proxy[t] # None
          PROVE  proxy[t] # proxy[u]
        <3>1. /\ pos[t] \in Positions /\ pos[u] \in Positions /\ pos[t] # pos[u]
              /\ since[t] \in {"none", "opened"} /\ since[u] \in {"none", "opened"}
            BY <2>2 DEF IInv, TypeOK, Exclusive, In
        <3>2. Follows(u)
            BY <2>2 DEF IInv, Sessions
        <3>3. backEnd[pos[t]] # None => backEnd[pos[t]] # backEnd[pos[u]]
            BY <3>1 DEF IInv, Sessions, Distinct
        <3> QED BY <2>1, <2>2, <3>1, <3>2, <3>3 DEF Follows
    <2> QED BY <2>1, <2>2
<1> QED BY <1>1, InitIInv, NextIInv, PTL DEF Spec

\* Each step of the pool is a lease of a session nobody has, the return of one,
\* or nothing to the users of the pool.
LEMMA StepImplements == IInv /\ [Next]_vars => [Promise!Next]_pos
<1> SUFFICES ASSUME IInv, [Next]_vars PROVE [Promise!Next]_pos
    OBVIOUS
<1>1. ASSUME NEW t \in Threads, Take(t), Free # {}, at[t] # "in"
      PROVE  \E s \in Positions : Promise!Lease(t, s)
    <2>1. find_free \in Positions /\ free[find_free]
        BY <1>1, FirstFree DEF Free
    <2>2. pos[t] = None /\ \A u \in Threads : pos[u] # find_free
        BY <1>1, <2>1 DEF IInv, TypeOK
    <2> QED BY <1>1, <2>1, <2>2, Zenon DEF Take, Promise!Lease
<1>2. ASSUME NEW t \in Threads, give_back(t) PROVE Promise!GiveBack(t)
    BY <1>2 DEF give_back, Promise!GiveBack, IInv, TypeOK
<1>3. CASE UNCHANGED vars
    BY <1>3 DEF vars, pool
<1>4. CASE Next
    <2>1. PICK t \in Threads :
             \/ UNCHANGED pos \/ give_back(t) \/ (Take(t) /\ Free # {} /\ at[t] # "in")
        BY <1>4, Zenon DEF Next, try_lease, PosixTake, PosixSleep, SpuriousWakeup, WindowsWait,
                    WindowsTake, Timeout, PosixSignal, WindowsRelease, open, close,
                    reconnect, ReconnectFails, pool
    <2> QED BY <1>1, <1>2, <2>1 DEF Promise!Next
<1> QED BY <1>3, <1>4

\* The pool, in both versions, implements what docs/multithreading.md promises:
\* no session is with two threads at a time.
THEOREM ImplementsSessionPoolThm == Spec => ImplementsSessionPool
<1>1. Init => Promise!Init
    BY DEF Init, Promise!Init
<1> QED BY <1>1, InitIInv, NextIInv, StepImplements, PTL
        DEF Spec, ImplementsSessionPool, Promise!Spec

=============================================================================
