------------------------ MODULE BasicNetworkProofs ------------------------
(* Proofs about the network simulator, for any finite set of peers, any      *)
(* delays and queues of any length: what may be in the queue and in which    *)
(* order, that the clock passes nothing in it, that a message is erased once *)
(* unless its handler breaks its own link, and that bfs finds the distance   *)
(* of every peer that can be reached.                                        *)
EXTENDS BasicNetwork, FiniteSetTheorems, WellFoundedInduction, TLAPS

USE ZenonT(40)

-----------------------------------------------------------------------------
(* The inductive invariant *)

\* A link has two ends, of the same delay and made by the same connect.
Paired ==
    \A p \in Peers : \A q \in DOMAIN links[p] :
        /\ q # p /\ p \in DOMAIN links[q]
        /\ links[q][p].delay = links[p][q].delay /\ links[q][p].no = links[p][q].no
        /\ links[p][q].no <= serial

\* Given the links ls and the time t: a message was sent over a link that
\* stands, since it was made, and is due at the latest when one sent now is.
OnLink(m, ls, t) ==
    /\ m.from \in Peers /\ m.to \in DOMAIN ls[m.from]
    /\ ls[m.from][m.to].no < m.no /\ m.when <= t + ls[m.from][m.to].delay

Pending ==
    \A i \in DOMAIN queue :
        /\ queue[i].no <= serial /\ now <= queue[i].when
        /\ queue[i].to # None => OnLink(queue[i], links, now)

Sorted == \A i, j \in DOMAIN queue : i < j => queue[i].when <= queue[j].when

\* While a handler runs that has not broken its message's link, the message is
\* in the queue.
Present == (running # None /\ ~own) => \E i \in DOMAIN queue : queue[i] = running

IInv ==
    /\ TypeOK /\ Paired /\ Pending /\ Sorted /\ InOrder /\ Present /\ ErasedOnce
    /\ mode = "until" => now <= until

-----------------------------------------------------------------------------
(* The operations of the queue *)

\* The concatenation of two sequences, by position.
LEMMA Joined ==
    ASSUME NEW S, NEW s \in Seq(S), NEW t \in Seq(S), NEW u, u = s \o t
    PROVE  /\ u \in Seq(S) /\ Len(u) = Len(s) + Len(t)
           /\ \A i \in 1 .. Len(s) : u[i] = s[i]
           /\ \A i \in 1 .. Len(t) : u[i + Len(s)] = t[i]
    BY SMT

\* t is s with e put behind the first i elements.
IsInsertion(t, s, i, e) ==
    /\ Len(t) = Len(s) + 1
    /\ \A j \in 1 .. i : t[j] = s[j]
    /\ t[i + 1] = e
    /\ \A j \in i + 1 .. Len(s) : t[j + 1] = s[j]

LEMMA Inserted ==
    ASSUME NEW S, NEW s \in Seq(S), NEW i \in 0 .. Len(s), NEW e \in S
    PROVE  /\ InsertBehind(s, i, e) \in Seq(S)
           /\ IsInsertion(InsertBehind(s, i, e), s, i, e)
<1> DEFINE a == SubSeq(s, 1, i)
           b == SubSeq(s, i + 1, Len(s))
<1>1. Len(s) \in Nat /\ i \in Nat /\ i <= Len(s) /\ (i + 1) - 1 = i
    BY SMT
<1>2. a \in Seq(S) /\ Len(a) = i /\ \A j \in 1 .. i : a[j] = s[j]
    BY <1>1, SMT
<1>3. b \in Seq(S) /\ Len(b) = Len(s) - i /\ \A j \in 1 .. Len(s) - i : b[j] = s[j + i]
    BY <1>1, SMT
<1>4. PICK c : c = a \o <<e>>
    OBVIOUS
<1>5. PICK t : t = c \o b
    OBVIOUS
<1>6. InsertBehind(s, i, e) = t
    BY <1>1, <1>4, <1>5 DEF InsertBehind
<1> HIDE DEF a, b
<1>7. c \in Seq(S) /\ Len(c) = i + 1 /\ c[i + 1] = e /\ \A j \in 1 .. i : c[j] = a[j]
    BY <1>1, <1>2, <1>4, SMT
<1>8. /\ t \in Seq(S) /\ Len(t) = Len(c) + Len(b)
      /\ \A j \in 1 .. Len(c) : t[j] = c[j]
      /\ \A j \in 1 .. Len(b) : t[j + Len(c)] = b[j]
    <2>1. b \in Seq(S) /\ c \in Seq(S)
        BY <1>3, <1>7
    <2> QED BY <1>5, <2>1, Joined, SMT
<1> HIDE <1>4, <1>5
<1>9. Len(t) = Len(s) + 1
    BY <1>1, <1>3, <1>7, <1>8, SMT
<1>10. \A j \in 1 .. i + 1 : t[j] = c[j]
    BY <1>7, <1>8
<1>11. \A j \in 1 .. Len(s) - i : t[j + (i + 1)] = b[j]
    BY <1>3, <1>7, <1>8
<1>12. \A j \in i + 1 .. Len(s) : t[j + 1] = s[j]
    <2> SUFFICES ASSUME NEW j \in i + 1 .. Len(s) PROVE t[j + 1] = s[j]
        OBVIOUS
    <2>1. PICK k \in 1 .. Len(s) - i : k + (i + 1) = j + 1 /\ k + i = j
        BY <1>1, SMT
    <2> QED BY <1>3, <1>11, <2>1
<1>13. \A j \in 1 .. i : j \in 1 .. i + 1 /\ i + 1 \in 1 .. i + 1
    BY <1>1, SMT
<1>14. t[i + 1] = e
    BY <1>1, <1>7, <1>10, SMT
<1>15. \A j \in 1 .. i : t[j] = s[j]
    BY <1>2, <1>7, <1>10, <1>13
<1> QED BY <1>6, <1>8, <1>9, <1>12, <1>14, <1>15 DEF IsInsertion

\* EraseAt, by position.
LEMMA Removed ==
    ASSUME NEW S, NEW s \in Seq(S), NEW i \in 1 .. Len(s)
    PROVE  LET t == EraseAt(s, i) IN
           /\ t \in Seq(S) /\ Len(t) = Len(s) - 1 /\ Len(s) \in Nat
           /\ \A j \in 1 .. i - 1 : t[j] = s[j]
           /\ \A j \in i .. Len(s) - 1 : t[j] = s[j + 1]
<1> DEFINE a == SubSeq(s, 1, i - 1)
           b == SubSeq(s, i + 1, Len(s))
<1>1. Len(s) \in Nat /\ i \in Nat \ {0} /\ i <= Len(s)
    BY SMT
<1>2. a \in Seq(S) /\ Len(a) = i - 1 /\ \A j \in 1 .. i - 1 : a[j] = s[j]
    BY <1>1, SMT
<1>3. b \in Seq(S) /\ Len(b) = Len(s) - i /\ \A j \in 1 .. Len(s) - i : b[j] = s[j + i]
    BY <1>1, SMT
<1>4. PICK t : t = a \o b
    OBVIOUS
<1>5. EraseAt(s, i) = t
    BY <1>4 DEF EraseAt
<1> HIDE DEF a, b
<1>6. /\ t \in Seq(S) /\ Len(t) = Len(a) + Len(b)
      /\ \A j \in 1 .. Len(a) : t[j] = a[j]
      /\ \A j \in 1 .. Len(b) : t[j + Len(a)] = b[j]
    <2>1. a \in Seq(S) /\ b \in Seq(S)
        BY <1>2, <1>3
    <2> QED BY <1>4, <2>1, Joined, SMT
<1> HIDE <1>4
<1>7. Len(t) = Len(s) - 1
    BY <1>1, <1>2, <1>3, <1>6, SMT
<1>8. \A j \in 1 .. Len(s) - i : t[j + (i - 1)] = b[j]
    BY <1>2, <1>3, <1>6
<1>9. \A j \in i .. Len(s) - 1 : t[j] = s[j + 1]
    <2> SUFFICES ASSUME NEW j \in i .. Len(s) - 1 PROVE t[j] = s[j + 1]
        OBVIOUS
    <2>1. PICK k \in 1 .. Len(s) - i : k + (i - 1) = j /\ k + i = j + 1
        BY <1>1, SMT
    <2> QED BY <1>3, <1>8, <2>1
<1>10. \A j \in 1 .. i - 1 : t[j] = s[j]
    BY <1>2, <1>6
<1> QED BY <1>1, <1>5, <1>6, <1>7, <1>9, <1>10

\* The messages of a queue are messages, and have times and numbers.
LEMMA Fields ==
    ASSUME NEW s \in Seq(Messages)
    PROVE  /\ Len(s) \in Nat /\ DOMAIN s = 1 .. Len(s)
           /\ \A i \in DOMAIN s : s[i] \in Messages /\ s[i].when \in Nat /\ s[i].no \in Nat
<1>1. Len(s) \in Nat /\ DOMAIN s = 1 .. Len(s) /\ \A i \in DOMAIN s : s[i] \in Messages
    BY SMT
<1>2. \A m \in Messages : m.when \in Nat /\ m.no \in Nat
    BY SMT DEF Messages
<1> QED BY <1>1, <1>2

\* t holds elements of s, in their order.
Thinner(t, s) ==
    \E f \in [DOMAIN t -> DOMAIN s] :
        /\ \A i, j \in DOMAIN t : i < j => f[i] < f[j]
        /\ \A i \in DOMAIN t : t[i] = s[f[i]]

\* What erase leaves in the queue.
LEMMA EraseThins ==
    ASSUME queue \in Seq(Messages), NEW m, erase(m)
    PROVE  /\ queue' \in Seq(Messages) /\ Thinner(queue', queue)
           /\ \A k \in DOMAIN queue : queue[k] = m \/ \E i \in DOMAIN queue' : queue'[i] = queue[k]
<1>1. PICK i \in DOMAIN queue : queue[i] = m /\ queue' = EraseAt(queue, i)
    BY DEF erase
<1>2. Len(queue) \in Nat /\ DOMAIN queue = 1 .. Len(queue)
    BY Fields
<1>3. /\ queue' \in Seq(Messages) /\ Len(queue') = Len(queue) - 1
      /\ \A j \in 1 .. i - 1 : queue'[j] = queue[j]
      /\ \A j \in i .. Len(queue) - 1 : queue'[j] = queue[j + 1]
    <2>1. i \in 1 .. Len(queue)
        BY <1>2
    <2>2. /\ EraseAt(queue, i) \in Seq(Messages) /\ Len(EraseAt(queue, i)) = Len(queue) - 1
          /\ \A j \in 1 .. i - 1 : EraseAt(queue, i)[j] = queue[j]
          /\ \A j \in i .. Len(queue) - 1 : EraseAt(queue, i)[j] = queue[j + 1]
        BY <2>1, Removed
    <2> QED BY <1>1, <2>2
<1>4. DOMAIN queue' = 1 .. Len(queue) - 1
    BY <1>3, Fields
<1>5. Thinner(queue', queue)
    <2> DEFINE f == [j \in DOMAIN queue' |-> IF j < i THEN j ELSE j + 1]
    <2>1. f \in [DOMAIN queue' -> DOMAIN queue]
        BY <1>2, <1>4, SMT
    <2>2. \A j, k \in DOMAIN queue' : j < k => f[j] < f[k]
        BY <1>2, <1>4, SMT
    <2>3. ASSUME NEW j \in DOMAIN queue' PROVE queue'[j] = queue[f[j]]
        <3>1. CASE j < i
            <4>1. j \in 1 .. i - 1 /\ f[j] = j
                BY <1>2, <1>4, <3>1, SMT
            <4> QED BY <1>3, <4>1
        <3>2. CASE ~(j < i)
            <4>1. j \in i .. Len(queue) - 1
                BY <1>2, <1>4, <3>2, SMT
            <4>2. f[j] = j + 1
                BY <3>2
            <4> QED BY <1>3, <4>1, <4>2
        <3> QED BY <3>1, <3>2
    <2> HIDE DEF f
    <2> QED BY <2>1, <2>2, <2>3 DEF Thinner
<1>6. ASSUME NEW k \in DOMAIN queue
      PROVE  queue[k] = m \/ \E j \in DOMAIN queue' : queue'[j] = queue[k]
    <2>1. CASE k = i
        BY <1>1, <2>1
    <2>2. CASE k < i
        <3>1. k \in DOMAIN queue' /\ k \in 1 .. i - 1
            BY <1>2, <1>4, <2>2, SMT
        <3> QED BY <1>3, <3>1
    <2>3. CASE k > i
        <3>1. k - 1 \in DOMAIN queue' /\ k - 1 \in i .. Len(queue) - 1 /\ (k - 1) + 1 = k
            BY <1>2, <1>4, <2>3, SMT
        <3> QED BY <1>3, <3>1
    <2>4. k = i \/ k < i \/ k > i
        BY <1>2, SMT
    <2> QED BY <2>1, <2>2, <2>3, <2>4
<1> QED BY <1>3, <1>5, <1>6

\* What remove leaves in the queue.
LEMMA KeepThins ==
    ASSUME queue \in Seq(Messages), NEW kept \in SUBSET DOMAIN queue, Keep(kept)
    PROVE  /\ queue' \in Seq(Messages) /\ Thinner(queue', queue)
           /\ \A i \in DOMAIN queue' : \E k \in kept : queue'[i] = queue[k]
           /\ \A k \in kept : \E i \in DOMAIN queue' : queue'[i] = queue[k]
<1>1. Len(queue) \in Nat /\ DOMAIN queue = 1 .. Len(queue) /\ \A k \in kept : queue[k] \in Messages
    BY Fields
<1>2. IsFiniteSet(1 .. Len(queue))
    BY <1>1, FS_Interval, SMT
<1>3. Cardinality(kept) \in Nat
    BY <1>1, <1>2, FS_Subset, FS_CardinalityType
<1>4. PICK f \in [1 .. Cardinality(kept) -> kept] :
         /\ Range(f) = kept /\ \A i, j \in DOMAIN f : i < j => f[i] < f[j]
         /\ queue' = [i \in DOMAIN f |-> queue[f[i]]]
    BY DEF Keep
<1>5. /\ DOMAIN queue' = 1 .. Cardinality(kept) /\ DOMAIN f = DOMAIN queue'
      /\ \A i \in DOMAIN queue' : f[i] \in kept /\ queue'[i] = queue[f[i]]
    BY <1>4
<1>6. queue' \in Seq(Messages)
    <2>1. queue' \in [1 .. Cardinality(kept) -> Messages]
        BY <1>1, <1>4
    <2> QED BY <1>3, <2>1, SMT
<1>7. f \in [DOMAIN queue' -> DOMAIN queue]
    BY <1>4, <1>5
<1>8. Thinner(queue', queue)
    BY <1>4, <1>5, <1>7 DEF Thinner
<1>9. ASSUME NEW k \in kept PROVE \E i \in DOMAIN queue' : queue'[i] = queue[k]
    <2>1. PICK i \in DOMAIN f : f[i] = k
        BY <1>4 DEF Range
    <2> QED BY <1>5, <2>1
<1>10. \A i \in DOMAIN queue' : \E k \in kept : queue'[i] = queue[k]
    BY <1>5
<1> QED BY <1>6, <1>8, <1>9, <1>10

\* Taking messages out keeps the order of the others.
LEMMA ThinnerInOrder ==
    ASSUME Sorted, InOrder, Thinner(queue', queue), queue \in Seq(Messages), queue' \in Seq(Messages)
    PROVE  Sorted' /\ InOrder' /\ \A i \in DOMAIN queue' : \E k \in DOMAIN queue : queue'[i] = queue[k]
<1>1. PICK f \in [DOMAIN queue' -> DOMAIN queue] :
         /\ \A i, j \in DOMAIN queue' : i < j => f[i] < f[j]
         /\ \A i \in DOMAIN queue' : queue'[i] = queue[f[i]]
    BY DEF Thinner
<1>2. \A i \in DOMAIN queue' : f[i] \in DOMAIN queue
    BY <1>1
<1>3. Sorted'
    BY <1>1, <1>2 DEF Sorted
<1>4. InOrder'
    <2> SUFFICES ASSUME NEW i \in DOMAIN queue', NEW j \in DOMAIN queue', i < j,
                        queue'[i].to # None, queue'[i].from = queue'[j].from,
                        queue'[i].to = queue'[j].to
                 PROVE  queue'[i].no < queue'[j].no
        BY DEF InOrder
    <2>1. /\ f[i] \in DOMAIN queue /\ f[j] \in DOMAIN queue /\ f[i] < f[j]
          /\ queue'[i] = queue[f[i]] /\ queue'[j] = queue[f[j]]
        BY <1>1, <1>2
    <2> QED BY <2>1 DEF InOrder
<1> QED BY <1>1, <1>2, <1>3, <1>4

\* A message put behind those of its time: it comes behind all that were sent
\* on its connection, if none of them is later.
LEMMA EmplacedInOrder ==
    ASSUME Sorted, InOrder, queue \in Seq(Messages), NEW m \in Messages, emplace(m),
           \A k \in DOMAIN queue : (m.to # None /\ queue[k].from = m.from /\ queue[k].to = m.to)
              => queue[k].when <= m.when /\ queue[k].no < m.no
    PROVE  /\ queue' \in Seq(Messages) /\ Sorted' /\ InOrder'
           /\ \A k \in DOMAIN queue' : queue'[k] = m \/ \E i \in DOMAIN queue : queue'[k] = queue[i]
           /\ \A i \in DOMAIN queue : \E k \in DOMAIN queue' : queue'[k] = queue[i]
<1>1. PICK i \in 0 .. Len(queue) :
         /\ \A j \in 1 .. i : queue[j].when <= m.when
         /\ \A j \in i + 1 .. Len(queue) : queue[j].when > m.when
         /\ queue' = InsertBehind(queue, i, m)
    BY DEF emplace
<1>2. /\ Len(queue) \in Nat /\ DOMAIN queue = 1 .. Len(queue) /\ i \in Nat /\ i <= Len(queue)
      /\ \A k \in DOMAIN queue : queue[k].when \in Nat /\ queue[k].no \in Nat
    <2>1. Len(queue) \in Nat /\ DOMAIN queue = 1 .. Len(queue)
        BY Fields
    <2>2. i \in Nat /\ i <= Len(queue)
        BY <2>1, SMT
    <2> QED BY <2>1, <2>2, Fields
<1>3. m.when \in Nat /\ m.no \in Nat
    BY SMT DEF Messages
<1>4. /\ queue' \in Seq(Messages) /\ Len(queue') = Len(queue) + 1
      /\ \A j \in 1 .. i : queue'[j] = queue[j]
      /\ queue'[i + 1] = m
      /\ \A j \in i + 1 .. Len(queue) : queue'[j + 1] = queue[j]
    <2>1. /\ InsertBehind(queue, i, m) \in Seq(Messages)
          /\ IsInsertion(InsertBehind(queue, i, m), queue, i, m)
        BY Inserted
    <2> QED BY <1>1, <2>1 DEF IsInsertion
<1>5. DOMAIN queue' = 1 .. Len(queue) + 1
    BY <1>4, Fields
<1>6. ASSUME NEW k \in DOMAIN queue'
      PROVE  \/ k \in 1 .. i /\ k \in DOMAIN queue /\ queue'[k] = queue[k]
             \/ k = i + 1 /\ queue'[k] = m
             \/ /\ k - 1 \in i + 1 .. Len(queue) /\ k - 1 \in DOMAIN queue
                /\ queue'[k] = queue[k - 1]
    <2>1. \/ k \in 1 .. i /\ k \in DOMAIN queue
          \/ k = i + 1
          \/ k - 1 \in i + 1 .. Len(queue) /\ k - 1 \in DOMAIN queue /\ (k - 1) + 1 = k
        BY <1>2, <1>5, SMT
    <2> QED BY <1>4, <2>1
<1>7. \A k \in DOMAIN queue' : queue'[k] = m \/ \E j \in DOMAIN queue : queue'[k] = queue[j]
    BY <1>6
<1>8. ASSUME NEW j \in DOMAIN queue PROVE \E k \in DOMAIN queue' : queue'[k] = queue[j]
    <2>1. \/ j \in 1 .. i /\ j \in DOMAIN queue'
          \/ j \in i + 1 .. Len(queue) /\ j + 1 \in DOMAIN queue'
        BY <1>2, <1>5, SMT
    <2> QED BY <1>4, <2>1
<1>9. ASSUME NEW k \in DOMAIN queue', NEW l \in DOMAIN queue', k < l
      PROVE  \/ queue'[k] = m /\ \E j \in i + 1 .. Len(queue) : j \in DOMAIN queue /\ queue'[l] = queue[j]
             \/ queue'[l] = m /\ \E j \in 1 .. i : j \in DOMAIN queue /\ queue'[k] = queue[j]
             \/ \E a, b \in DOMAIN queue : a < b /\ queue'[k] = queue[a] /\ queue'[l] = queue[b]
    <2>1. CASE k \in 1 .. i /\ k \in DOMAIN queue /\ queue'[k] = queue[k]
        <3>1. CASE l - 1 \in i + 1 .. Len(queue) /\ l - 1 \in DOMAIN queue /\ queue'[l] = queue[l - 1]
            <4>1. k < l - 1
                BY <1>2, <2>1, <3>1, SMT
            <4> QED BY <2>1, <3>1, <4>1
        <3> QED BY <1>6, <1>9, <2>1, <3>1
    <2>2. CASE k = i + 1 /\ queue'[k] = m
        <3>1. ~(l \in 1 .. i) /\ l # i + 1
            BY <1>2, <1>5, <1>9, <2>2, SMT
        <3> QED BY <1>6, <2>2, <3>1
    <2>3. CASE k - 1 \in i + 1 .. Len(queue) /\ k - 1 \in DOMAIN queue /\ queue'[k] = queue[k - 1]
        <3>1. ~(l \in 1 .. i) /\ l # i + 1 /\ k - 1 < l - 1
            BY <1>2, <1>5, <1>9, <2>3, SMT
        <3> QED BY <1>6, <2>3, <3>1
    <2> QED BY <1>6, <2>1, <2>2, <2>3
<1>10. Sorted'
    <2> SUFFICES ASSUME NEW k \in DOMAIN queue', NEW l \in DOMAIN queue', k < l
                 PROVE  queue'[k].when <= queue'[l].when
        BY DEF Sorted
    <2>1. CASE queue'[k] = m /\ \E j \in i + 1 .. Len(queue) : j \in DOMAIN queue /\ queue'[l] = queue[j]
        BY <1>1, <1>2, <1>3, <2>1, SMT
    <2>2. CASE queue'[l] = m /\ \E j \in 1 .. i : j \in DOMAIN queue /\ queue'[k] = queue[j]
        BY <1>1, <2>2
    <2>3. CASE \E a, b \in DOMAIN queue : a < b /\ queue'[k] = queue[a] /\ queue'[l] = queue[b]
        BY <2>3 DEF Sorted
    <2> QED BY <1>9, <2>1, <2>2, <2>3
<1>11. InOrder'
    <2> SUFFICES ASSUME NEW k \in DOMAIN queue', NEW l \in DOMAIN queue', k < l,
                        queue'[k].to # None, queue'[k].from = queue'[l].from,
                        queue'[k].to = queue'[l].to
                 PROVE  queue'[k].no < queue'[l].no
        BY DEF InOrder
    <2>1. CASE queue'[k] = m /\ \E j \in i + 1 .. Len(queue) : j \in DOMAIN queue /\ queue'[l] = queue[j]
        <3>1. PICK j \in i + 1 .. Len(queue) : j \in DOMAIN queue /\ queue'[l] = queue[j]
            BY <2>1
        <3>2. queue[j].when > m.when /\ queue[j].when <= m.when
            BY <1>1, <2>1, <3>1
        <3> QED BY <1>2, <1>3, <3>1, <3>2, SMT
    <2>2. CASE queue'[l] = m /\ \E j \in 1 .. i : j \in DOMAIN queue /\ queue'[k] = queue[j]
        BY <2>2
    <2>3. CASE \E a, b \in DOMAIN queue : a < b /\ queue'[k] = queue[a] /\ queue'[l] = queue[b]
        BY <2>3 DEF InOrder
    <2> QED BY <1>9, <2>1, <2>2, <2>3
<1> QED BY <1>4, <1>7, <1>8, <1>10, <1>11

-----------------------------------------------------------------------------
(* Links *)

\* The pair r, x is the pair p, q, in one order or the other.
Joins(r, x, p, q) == (r = p /\ x = q) \/ (r = q /\ x = p)

LEMMA EndTypes == \A e \in Ends : e.delay \in Nat /\ e.no \in Nat
<1>1. \A e \in Ends : e.delay \in Delays /\ e.no \in Nat
    BY SMT DEF Ends
<1> QED BY <1>1, DelaysAssumption

LEMMA LinkTypes ==
    ASSUME TypeOK, NEW p \in Peers
    PROVE  /\ DOMAIN links[p] \subseteq Peers /\ links[p] \in [DOMAIN links[p] -> Ends]
           /\ \A q \in DOMAIN links[p] : /\ links[p][q] \in Ends
                                         /\ links[p][q].delay \in Nat /\ links[p][q].no \in Nat
<1>1. PICK S \in SUBSET Peers : links[p] \in [S -> Ends]
    BY DEF TypeOK
<1>2. DOMAIN links[p] = S /\ links[p] \in [DOMAIN links[p] -> Ends]
    BY <1>1
<1>3. \A q \in DOMAIN links[p] : links[p][q] \in Ends
    BY <1>2
<1> QED BY <1>2, <1>3, EndTypes

\* g is f, with the end e at x.
IsWith(g, f, S, x, e) ==
    /\ g \in [S \cup {x} -> Ends] /\ S \cup {x} \in SUBSET Peers
    /\ g[x] = e /\ \A y \in S : y # x => g[y] = f[y]
    /\ DOMAIN g = S \cup {x}

\* The links after a connect.
GainsLink(p, q, e1, e2) ==
    /\ links' = [r \in Peers |-> links'[r]]
    /\ \A r \in Peers : \E S \in SUBSET Peers : links'[r] \in [S -> Ends]
    /\ \A r \in Peers : \A x :
          x \in DOMAIN links'[r] <=> x \in DOMAIN links[r] \/ Joins(r, x, p, q)
    /\ \A r \in Peers : \A x \in DOMAIN links[r] :
          ~Joins(r, x, p, q) => links'[r][x] = links[r][x]
    /\ links'[p][q] = e1 /\ links'[q][p] = e2

LEMMA LinksConnected ==
    ASSUME TypeOK, NEW p \in Peers, NEW q \in Peers, p # q, q \notin DOMAIN links[p],
           NEW e1 \in Ends, NEW e2 \in Ends,
           links' = [links EXCEPT ![p] = With(@, q, e1), ![q] = With(@, p, e2)]
    PROVE  GainsLink(p, q, e1, e2)
<1>1. links = [r \in Peers |-> links[r]]
    BY DEF TypeOK
<1>2. /\ links' = [r \in Peers |-> links'[r]]
      /\ links'[p] = With(links[p], q, e1) /\ links'[q] = With(links[q], p, e2)
      /\ \A r \in Peers : r # p /\ r # q => links'[r] = links[r]
    <2>1. links' = [r \in Peers |-> IF r = q THEN With(links[q], p, e2)
                                   ELSE IF r = p THEN With(links[p], q, e1) ELSE links[r]]
        BY <1>1, SMT
    <2> QED BY <2>1
<1>3. ASSUME NEW f, NEW S \in SUBSET Peers, f \in [S -> Ends], NEW x \in Peers, NEW e \in Ends
      PROVE  IsWith(With(f, x, e), f, S, x, e)
    <2>1. DOMAIN f = S /\ \A y \in S : f[y] \in Ends
        BY <1>3
    <2>2. With(f, x, e) = [y \in S \cup {x} |-> IF y = x THEN e ELSE f[y]]
        BY <2>1 DEF With
    <2> QED BY <2>1, <2>2 DEF IsWith
<1>4. PICK S \in SUBSET Peers, T \in SUBSET Peers : links[p] \in [S -> Ends] /\ links[q] \in [T -> Ends]
    BY DEF TypeOK
<1>5. DOMAIN links[p] = S /\ DOMAIN links[q] = T
    BY <1>4
<1>6. /\ links'[p] \in [S \cup {q} -> Ends] /\ S \cup {q} \in SUBSET Peers
      /\ links'[p][q] = e1 /\ \A y \in S : y # q => links'[p][y] = links[p][y]
      /\ DOMAIN links'[p] = S \cup {q}
    <2>1. links[p] \in [S -> Ends]
        BY <1>4
    <2>2. IsWith(With(links[p], q, e1), links[p], S, q, e1)
        BY <1>3, <2>1
    <2> QED BY <1>2, <2>2 DEF IsWith
<1>7. /\ links'[q] \in [T \cup {p} -> Ends] /\ T \cup {p} \in SUBSET Peers
      /\ links'[q][p] = e2 /\ \A y \in T : y # p => links'[q][y] = links[q][y]
      /\ DOMAIN links'[q] = T \cup {p}
    <2>1. links[q] \in [T -> Ends]
        BY <1>4
    <2>2. IsWith(With(links[q], p, e2), links[q], T, p, e2)
        BY <1>3, <2>1
    <2> QED BY <1>2, <2>2 DEF IsWith
<1>8. ASSUME NEW r \in Peers PROVE \E U \in SUBSET Peers : links'[r] \in [U -> Ends]
    BY <1>2, <1>6, <1>7 DEF TypeOK
<1>9. ASSUME NEW r \in Peers, NEW x
      PROVE  x \in DOMAIN links'[r] <=> x \in DOMAIN links[r] \/ Joins(r, x, p, q)
    BY <1>2, <1>5, <1>6, <1>7 DEF Joins
<1>10. ASSUME NEW r \in Peers, NEW x \in DOMAIN links[r], ~Joins(r, x, p, q)
       PROVE  links'[r][x] = links[r][x]
    BY <1>2, <1>5, <1>6, <1>7, <1>10 DEF Joins
<1> QED BY <1>2, <1>6, <1>7, <1>8, <1>9, <1>10 DEF GainsLink

\* The links after a disconnect.
LEMMA LinksDisconnected ==
    ASSUME TypeOK, NEW p \in Peers, NEW q \in Peers, p # q,
           links' = [links EXCEPT ![p] = Without(@, q), ![q] = Without(@, p)]
    PROVE  /\ links' = [r \in Peers |-> links'[r]]
           /\ \A r \in Peers : \E S \in SUBSET Peers : links'[r] \in [S -> Ends]
           /\ \A r \in Peers : \A x :
                 x \in DOMAIN links'[r] <=> x \in DOMAIN links[r] /\ ~Joins(r, x, p, q)
           /\ \A r \in Peers : \A x \in DOMAIN links'[r] : links'[r][x] = links[r][x]
<1>1. links = [r \in Peers |-> links[r]]
    BY DEF TypeOK
<1>2. /\ links' = [r \in Peers |-> links'[r]]
      /\ links'[p] = Without(links[p], q) /\ links'[q] = Without(links[q], p)
      /\ \A r \in Peers : r # p /\ r # q => links'[r] = links[r]
    <2>1. links' = [r \in Peers |-> IF r = q THEN Without(links[q], p)
                                   ELSE IF r = p THEN Without(links[p], q) ELSE links[r]]
        BY <1>1, SMT
    <2> QED BY <2>1
<1>3. ASSUME NEW f, NEW S \in SUBSET Peers, f \in [S -> Ends], NEW x
      PROVE  /\ Without(f, x) \in [S \ {x} -> Ends] /\ S \ {x} \in SUBSET Peers
             /\ DOMAIN Without(f, x) = DOMAIN f \ {x}
             /\ \A y \in DOMAIN f \ {x} : Without(f, x)[y] = f[y]
    <2>1. DOMAIN f = S /\ \A y \in S : f[y] \in Ends
        BY <1>3
    <2>2. Without(f, x) = [y \in S \ {x} |-> f[y]]
        BY <2>1 DEF Without
    <2> QED BY <2>1, <2>2
<1>4. PICK S \in SUBSET Peers, T \in SUBSET Peers : links[p] \in [S -> Ends] /\ links[q] \in [T -> Ends]
    BY DEF TypeOK
<1>5. /\ links'[p] \in [S \ {q} -> Ends] /\ S \ {q} \in SUBSET Peers
      /\ DOMAIN links'[p] = DOMAIN links[p] \ {q}
      /\ \A y \in DOMAIN links[p] \ {q} : links'[p][y] = links[p][y]
    <2>1. links[p] \in [S -> Ends]
        BY <1>4
    <2>2. /\ Without(links[p], q) \in [S \ {q} -> Ends] /\ S \ {q} \in SUBSET Peers
          /\ DOMAIN Without(links[p], q) = DOMAIN links[p] \ {q}
          /\ \A y \in DOMAIN links[p] \ {q} : Without(links[p], q)[y] = links[p][y]
        BY <1>3, <2>1
    <2> QED BY <1>2, <2>2
<1>6. /\ links'[q] \in [T \ {p} -> Ends] /\ T \ {p} \in SUBSET Peers
      /\ DOMAIN links'[q] = DOMAIN links[q] \ {p}
      /\ \A y \in DOMAIN links[q] \ {p} : links'[q][y] = links[q][y]
    <2>1. links[q] \in [T -> Ends]
        BY <1>4
    <2>2. /\ Without(links[q], p) \in [T \ {p} -> Ends] /\ T \ {p} \in SUBSET Peers
          /\ DOMAIN Without(links[q], p) = DOMAIN links[q] \ {p}
          /\ \A y \in DOMAIN links[q] \ {p} : Without(links[q], p)[y] = links[q][y]
        BY <1>3, <2>1
    <2> QED BY <1>2, <2>2
<1>7. ASSUME NEW r \in Peers PROVE \E U \in SUBSET Peers : links'[r] \in [U -> Ends]
    BY <1>2, <1>5, <1>6 DEF TypeOK
<1>8. ASSUME NEW r \in Peers, NEW x
      PROVE  x \in DOMAIN links'[r] <=> x \in DOMAIN links[r] /\ ~Joins(r, x, p, q)
    BY <1>2, <1>5, <1>6 DEF Joins
<1>9. ASSUME NEW r \in Peers, NEW x \in DOMAIN links'[r] PROVE links'[r][x] = links[r][x]
    BY <1>2, <1>5, <1>6
<1> QED BY <1>2, <1>7, <1>8, <1>9

-----------------------------------------------------------------------------
(* The steps keep the invariant *)

LEMMA NotAMessage == \A m \in Messages : m # None
    BY NoneAssumption

\* The clock goes on, up to what is left of the queue.
LEMMA PendingLater ==
    ASSUME TypeOK, Pending, links' = links, serial' = serial, now' \in Nat, now <= now',
           \A i \in DOMAIN queue' : now' <= queue'[i].when /\ \E k \in DOMAIN queue : queue'[i] = queue[k]
    PROVE  Pending'
<1> SUFFICES ASSUME NEW i \in DOMAIN queue'
             PROVE  /\ queue'[i].no <= serial' /\ now' <= queue'[i].when
                    /\ queue'[i].to # None => OnLink(queue'[i], links', now')
    BY DEF Pending
<1>1. PICK k \in DOMAIN queue : queue'[i] = queue[k]
    OBVIOUS
<1>2. queue[k].no <= serial /\ (queue[k].to # None => OnLink(queue[k], links, now))
    BY DEF Pending
<1>3. ASSUME OnLink(queue[k], links, now) PROVE OnLink(queue[k], links, now')
    <2> PICK m : m = queue[k]
        OBVIOUS
    <2>1. /\ m.from \in Peers /\ m.to \in DOMAIN links[m.from]
          /\ links[m.from][m.to].no < m.no /\ m.when <= now + links[m.from][m.to].delay
        BY <1>3 DEF OnLink
    <2>2. links[m.from][m.to].delay \in Nat
        BY <2>1, LinkTypes
    <2>3. m.when \in Nat
        BY Fields DEF TypeOK
    <2>4. m.when <= now' + links[m.from][m.to].delay
        <3> PICK d \in Nat, t \in Nat : d = links[m.from][m.to].delay /\ t = m.when
            BY <2>2, <2>3
        <3>1. t <= now + d /\ now \in Nat
            BY <2>1 DEF TypeOK
        <3>2. t <= now' + d
            BY <3>1, SMT
        <3> QED BY <3>2
    <2> QED BY <2>1, <2>4 DEF OnLink
<1> QED BY <1>1, <1>2, <1>3

LEMMA ConnectIInv ==
    ASSUME IInv, NEW p \in Peers, NEW q \in Peers, NEW d \in Delays, connect(p, q, d)
    PROVE  IInv'
<1> DEFINE e1 == [inbound |-> FALSE, delay |-> d, no |-> serial']
           e2 == [inbound |-> TRUE, delay |-> d, no |-> serial']
<1>1. /\ p # q /\ q \notin DOMAIN links[p] /\ serial' = serial + 1
      /\ links' = [links EXCEPT ![p] = With(@, q, e1), ![q] = With(@, p, e2)]
      /\ UNCHANGED <<now, queue, mode, until, running, own, corrupt>>
    BY DEF connect, CanConnect, Numbered, stepping
<1>2. TypeOK /\ Paired /\ Pending
    BY DEF IInv
<1>3. serial \in Nat /\ serial' \in Nat /\ serial <= serial' /\ serial < serial'
    BY <1>1, <1>2, SMT DEF TypeOK
<1>4. /\ e1 \in Ends /\ e1.delay = d /\ e1.no = serial'
      /\ e2 \in Ends /\ e2.delay = d /\ e2.no = serial'
    BY <1>3, SMT DEF Ends
<1> HIDE DEF e1, e2
<1>5. /\ links' = [r \in Peers |-> links'[r]]
      /\ \A r \in Peers : \E S \in SUBSET Peers : links'[r] \in [S -> Ends]
      /\ \A r \in Peers : \A x :
            x \in DOMAIN links'[r] <=> x \in DOMAIN links[r] \/ Joins(r, x, p, q)
      /\ \A r \in Peers : \A x \in DOMAIN links[r] :
            ~Joins(r, x, p, q) => links'[r][x] = links[r][x]
      /\ links'[p][q] = e1 /\ links'[q][p] = e2
    <2>1. GainsLink(p, q, e1, e2)
        BY <1>1, <1>2, <1>4, LinksConnected
    <2> QED BY <2>1 DEF GainsLink
<1>6. TypeOK'
    BY <1>1, <1>2, <1>3, <1>5 DEF TypeOK
<1>7. \A r \in Peers : \A x \in DOMAIN links[r] : ~Joins(r, x, p, q)
    BY <1>1, <1>2 DEF Joins, Paired
<1>8. Paired'
    <2> SUFFICES ASSUME NEW r \in Peers, NEW x \in DOMAIN links'[r]
                 PROVE  /\ x # r /\ r \in DOMAIN links'[x]
                        /\ links'[x][r].delay = links'[r][x].delay
                        /\ links'[x][r].no = links'[r][x].no
                        /\ links'[r][x].no <= serial'
        BY DEF Paired
    <2>1. CASE Joins(r, x, p, q)
        <3>1. serial' <= serial' /\ p # q
            BY <1>1, <1>3, SMT
        <3>2. q \in DOMAIN links'[p] /\ p \in DOMAIN links'[q]
            BY <1>5 DEF Joins
        <3>3. CASE r = p /\ x = q
            BY <1>4, <1>5, <3>1, <3>2, <3>3
        <3>4. CASE r = q /\ x = p
            BY <1>4, <1>5, <3>1, <3>2, <3>4
        <3> QED BY <2>1, <3>3, <3>4 DEF Joins
    <2>2. CASE x \in DOMAIN links[r]
        <3>1. /\ x # r /\ r \in DOMAIN links[x]
              /\ links[x][r].delay = links[r][x].delay /\ links[x][r].no = links[r][x].no
              /\ links[r][x].no <= serial
            BY <1>2, <2>2 DEF Paired
        <3>2. x \in Peers /\ links[r][x].no \in Nat
            BY <1>2, <2>2, LinkTypes
        <3>3. links'[r][x] = links[r][x] /\ links'[x][r] = links[x][r] /\ r \in DOMAIN links'[x]
            BY <1>5, <1>7, <2>2, <3>1, <3>2
        <3>4. links[r][x].no <= serial'
            BY <1>3, <3>1, <3>2, SMT
        <3> QED BY <3>1, <3>3, <3>4
    <2> QED BY <1>5, <2>1, <2>2
<1>9. Pending'
    <2> SUFFICES ASSUME NEW i \in DOMAIN queue
                 PROVE  /\ queue[i].no <= serial' /\ now <= queue[i].when
                        /\ queue[i].to # None => OnLink(queue[i], links', now)
        BY <1>1 DEF Pending
    <2>1. /\ queue[i].no <= serial /\ now <= queue[i].when
          /\ queue[i].to # None => OnLink(queue[i], links, now)
        BY <1>2 DEF Pending
    <2>2. queue[i].no \in Nat
        BY <1>2, Fields DEF TypeOK
    <2>3. queue[i].no <= serial'
        BY <1>3, <2>1, <2>2, SMT
    <2>4. ASSUME OnLink(queue[i], links, now) PROVE OnLink(queue[i], links', now)
        <3>1. queue[i].from \in Peers /\ queue[i].to \in DOMAIN links[queue[i].from]
            BY <2>4 DEF OnLink
        <3>2. /\ queue[i].to \in DOMAIN links'[queue[i].from]
              /\ links'[queue[i].from][queue[i].to] = links[queue[i].from][queue[i].to]
            BY <1>5, <1>7, <3>1
        <3> QED BY <2>4, <3>2 DEF OnLink
    <2> QED BY <2>1, <2>3, <2>4
<1>10. Sorted' /\ InOrder' /\ Present' /\ ErasedOnce' /\ (mode' = "until" => now' <= until')
    BY <1>1 DEF IInv, Sorted, InOrder, Present, ErasedOnce
<1> QED BY <1>6, <1>8, <1>9, <1>10 DEF IInv

LEMMA DisconnectIInv ==
    ASSUME IInv, NEW p \in Peers, NEW q \in Peers, disconnect(p, q)
    PROVE  IInv'
<1> DEFINE kept == {i \in DOMAIN queue : ~Between(queue[i], p, q)}
<1>1. /\ ~corrupt /\ q \in DOMAIN links[p] /\ Keep(kept)
      /\ links' = [links EXCEPT ![p] = Without(@, q), ![q] = Without(@, p)]
      /\ own' = (own \/ (running # None /\ Between(running, p, q)))
      /\ UNCHANGED <<now, mode, until, running, serial, corrupt>>
    BY DEF disconnect, remove, Usable
<1>2. TypeOK /\ Paired /\ Pending /\ Sorted /\ InOrder /\ Present
    BY DEF IInv
<1>3. p # q
    BY <1>1, <1>2 DEF Paired
<1>4. /\ links' = [r \in Peers |-> links'[r]]
      /\ \A r \in Peers : \E S \in SUBSET Peers : links'[r] \in [S -> Ends]
      /\ \A r \in Peers : \A x :
            x \in DOMAIN links'[r] <=> x \in DOMAIN links[r] /\ ~Joins(r, x, p, q)
      /\ \A r \in Peers : \A x \in DOMAIN links'[r] : links'[r][x] = links[r][x]
    BY <1>1, <1>2, <1>3, LinksDisconnected
<1>5. /\ queue' \in Seq(Messages) /\ Thinner(queue', queue)
      /\ \A i \in DOMAIN queue' : \E k \in kept : queue'[i] = queue[k]
      /\ \A k \in kept : \E i \in DOMAIN queue' : queue'[i] = queue[k]
    BY <1>1, <1>2, KeepThins DEF TypeOK
<1>6. TypeOK'
    <2>1. own' \in BOOLEAN
        BY <1>1, SMT
    <2> QED BY <1>1, <1>2, <1>4, <1>5, <2>1 DEF TypeOK
<1>7. Paired'
    <2> SUFFICES ASSUME NEW r \in Peers, NEW x \in DOMAIN links'[r]
                 PROVE  /\ x # r /\ r \in DOMAIN links'[x]
                        /\ links'[x][r].delay = links'[r][x].delay
                        /\ links'[x][r].no = links'[r][x].no
                        /\ links'[r][x].no <= serial'
        BY DEF Paired
    <2>1. x \in DOMAIN links[r] /\ ~Joins(r, x, p, q) /\ ~Joins(x, r, p, q)
        BY <1>4 DEF Joins
    <2>2. /\ x # r /\ r \in DOMAIN links[x] /\ links[x][r].delay = links[r][x].delay
          /\ links[x][r].no = links[r][x].no /\ links[r][x].no <= serial
        BY <1>2, <2>1 DEF Paired
    <2>3. x \in Peers
        BY <1>2, <2>1, LinkTypes
    <2> QED BY <1>1, <1>4, <2>1, <2>2, <2>3
<1>8. Pending'
    <2> SUFFICES ASSUME NEW i \in DOMAIN queue'
                 PROVE  /\ queue'[i].no <= serial /\ now <= queue'[i].when
                        /\ queue'[i].to # None => OnLink(queue'[i], links', now)
        BY <1>1 DEF Pending
    <2>1. PICK k \in kept : queue'[i] = queue[k]
        BY <1>5
    <2>2. /\ k \in DOMAIN queue /\ ~Between(queue[k], p, q)
          /\ queue[k].no <= serial /\ now <= queue[k].when
          /\ queue[k].to # None => OnLink(queue[k], links, now)
        BY <1>2 DEF Pending
    <2>3. ASSUME OnLink(queue[k], links, now) PROVE OnLink(queue[k], links', now)
        <3>1. queue[k].from \in Peers /\ queue[k].to \in DOMAIN links[queue[k].from]
            BY <2>3 DEF OnLink
        <3>2. ~Joins(queue[k].from, queue[k].to, p, q)
            BY <2>2 DEF Joins, Between
        <3>3. /\ queue[k].to \in DOMAIN links'[queue[k].from]
              /\ links'[queue[k].from][queue[k].to] = links[queue[k].from][queue[k].to]
            BY <1>4, <3>1, <3>2
        <3> QED BY <2>3, <3>3 DEF OnLink
    <2> QED BY <2>1, <2>2, <2>3
<1>9. Sorted' /\ InOrder'
    BY <1>2, <1>5, ThinnerInOrder DEF TypeOK
<1>10. Present'
    <2> SUFFICES ASSUME running # None, ~own' PROVE \E i \in DOMAIN queue' : queue'[i] = running
        BY <1>1 DEF Present
    <2>1. ~own /\ ~Between(running, p, q)
        BY <1>1
    <2>2. PICK k \in DOMAIN queue : queue[k] = running
        BY <1>2, <2>1 DEF Present
    <2> QED BY <1>5, <2>1, <2>2
<1>11. ErasedOnce' /\ (mode' = "until" => now' <= until')
    BY <1>1 DEF IInv, ErasedOnce
<1> QED BY <1>6, <1>7, <1>8, <1>9, <1>10, <1>11 DEF IInv

\* send and timer: a new message, with the next number, that is not overdue
\* and, if it has a receiver, due when the link says.
LEMMA EmplaceIInv ==
    ASSUME IInv, NEW m \in Messages, emplace(m), m.no = serial', serial' = serial + 1,
           now <= m.when, m.to # None => OnLink(m, links, now),
           m.to # None => m.when = now + links[m.from][m.to].delay,
           UNCHANGED <<now, links, mode, until, running, own, corrupt>>
    PROVE  IInv'
<1>1. TypeOK /\ Paired /\ Pending /\ Sorted /\ InOrder /\ Present
    BY DEF IInv
<1>2. serial \in Nat /\ serial' \in Nat /\ serial <= serial' /\ serial' <= serial'
    BY <1>1, SMT DEF TypeOK
<1>3. ASSUME NEW k \in DOMAIN queue PROVE queue[k].no <= serial' /\ queue[k].no < m.no
    <2>1. queue[k].no \in Nat /\ queue[k].no <= serial
        BY <1>1, Fields DEF TypeOK, Pending
    <2> QED BY <1>2, <2>1, SMT
<1>4. \A k \in DOMAIN queue : (m.to # None /\ queue[k].from = m.from /\ queue[k].to = m.to)
         => queue[k].when <= m.when /\ queue[k].no < m.no
    BY <1>1, <1>3 DEF Pending, OnLink
<1>5. /\ queue' \in Seq(Messages) /\ Sorted' /\ InOrder'
      /\ \A k \in DOMAIN queue' : queue'[k] = m \/ \E i \in DOMAIN queue : queue'[k] = queue[i]
      /\ \A i \in DOMAIN queue : \E k \in DOMAIN queue' : queue'[k] = queue[i]
    BY <1>1, <1>4, EmplacedInOrder DEF TypeOK
<1>6. TypeOK'
    BY <1>1, <1>2, <1>5 DEF TypeOK
<1>7. Paired'
    <2> SUFFICES ASSUME NEW p \in Peers, NEW q \in DOMAIN links[p]
                 PROVE  /\ q # p /\ p \in DOMAIN links[q]
                        /\ links[q][p].delay = links[p][q].delay /\ links[q][p].no = links[p][q].no
                        /\ links[p][q].no <= serial'
        BY DEF Paired
    <2>1. /\ q # p /\ p \in DOMAIN links[q]
          /\ links[q][p].delay = links[p][q].delay /\ links[q][p].no = links[p][q].no
          /\ links[p][q].no <= serial
        BY <1>1 DEF Paired
    <2>2. links[p][q].no \in Nat
        BY <1>1, LinkTypes
    <2>3. links[p][q].no <= serial'
        BY <1>2, <2>1, <2>2, SMT
    <2> QED BY <2>1, <2>3
<1>8. Pending'
    <2> SUFFICES ASSUME NEW k \in DOMAIN queue'
                 PROVE  /\ queue'[k].no <= serial' /\ now <= queue'[k].when
                        /\ queue'[k].to # None => OnLink(queue'[k], links, now)
        BY DEF Pending
    <2>1. CASE queue'[k] = m
        BY <1>2, <2>1
    <2>2. CASE \E i \in DOMAIN queue : queue'[k] = queue[i]
        BY <1>1, <1>3, <2>2 DEF Pending
    <2> QED BY <1>5, <2>1, <2>2
<1>9. Present'
    BY <1>1, <1>5 DEF Present
<1>10. ErasedOnce' /\ (mode' = "until" => now' <= until')
    BY DEF IInv, ErasedOnce
<1> QED BY <1>5, <1>6, <1>7, <1>8, <1>9, <1>10 DEF IInv

LEMMA SendIInv ==
    ASSUME IInv, NEW p \in Peers, NEW q \in Peers, send(p, q)
    PROVE  IInv'
<1> DEFINE m == [from |-> p, to |-> q, when |-> now + links[p][q].delay, no |-> serial']
<1>1. /\ q \in DOMAIN links[p] /\ serial' = serial + 1 /\ emplace(m)
      /\ UNCHANGED <<now, links, mode, until, running, own, corrupt>>
    BY DEF send, Numbered, stepping
<1>2. TypeOK /\ Paired
    BY DEF IInv
<1>3. PICK d \in Nat, n \in Nat : d = links[p][q].delay /\ n = links[p][q].no /\ n <= serial
    <2>1. links[p][q].delay \in Nat /\ links[p][q].no \in Nat
        BY <1>1, <1>2, LinkTypes
    <2>2. links[p][q].no <= serial
        BY <1>1, <1>2 DEF Paired
    <2> QED BY <2>1, <2>2
<1>4. now \in Nat /\ serial \in Nat
    BY <1>2 DEF TypeOK
<1>5. /\ now + d \in Nat /\ now <= now + d /\ now + d <= now + d
      /\ serial' \in Nat /\ n < serial'
    BY <1>1, <1>3, <1>4, SMT
<1>6. /\ m \in Messages /\ m.from = p /\ m.to = q /\ m.when = now + d /\ m.no = serial'
    BY <1>3, <1>5, SMT DEF Messages
<1> HIDE DEF m
<1>7. OnLink(m, links, now)
    BY <1>1, <1>3, <1>5, <1>6 DEF OnLink
<1> QED BY <1>1, <1>3, <1>5, <1>6, <1>7, EmplaceIInv

LEMMA TimerIInv ==
    ASSUME IInv, NEW d \in Delays, timer(now + d)
    PROVE  IInv'
<1> DEFINE m == [from |-> None, to |-> None, when |-> now + d, no |-> serial']
<1>1. /\ serial' = serial + 1 /\ emplace(m)
      /\ UNCHANGED <<now, links, mode, until, running, own, corrupt>>
    BY DEF timer, Numbered, stepping
<1>2. now \in Nat /\ serial \in Nat /\ d \in Nat
    BY DelaysAssumption DEF IInv, TypeOK
<1>3. now + d \in Nat /\ now <= now + d /\ serial' \in Nat
    BY <1>1, <1>2, SMT
<1>4. m \in Messages /\ m.to = None /\ m.when = now + d /\ m.no = serial'
    BY <1>3, SMT DEF Messages
<1> HIDE DEF m
<1> QED BY <1>1, <1>3, <1>4, EmplaceIInv

LEMMA CancelIInv ==
    ASSUME IInv, NEW m, cancel(m)
    PROVE  IInv'
<1>1. /\ m # running /\ erase(m)
      /\ UNCHANGED <<now, links, mode, until, running, own, serial, corrupt>>
    BY DEF cancel, stepping
<1>2. TypeOK /\ Paired /\ Pending /\ Sorted /\ InOrder /\ Present
    BY DEF IInv
<1>3. /\ queue' \in Seq(Messages) /\ Thinner(queue', queue)
      /\ \A k \in DOMAIN queue : queue[k] = m \/ \E i \in DOMAIN queue' : queue'[i] = queue[k]
    BY <1>1, <1>2, EraseThins DEF TypeOK
<1>4. /\ Sorted' /\ InOrder'
      /\ \A i \in DOMAIN queue' : \E k \in DOMAIN queue : queue'[i] = queue[k]
    BY <1>2, <1>3, ThinnerInOrder DEF TypeOK
<1>5. TypeOK'
    BY <1>1, <1>2, <1>3 DEF TypeOK
<1>6. Paired'
    BY <1>1, <1>2 DEF Paired
<1>7. Pending'
    BY <1>1, <1>2, <1>4 DEF Pending
<1>8. Present'
    BY <1>1, <1>2, <1>3 DEF Present
<1>9. ErasedOnce' /\ (mode' = "until" => now' <= until')
    BY <1>1 DEF IInv, ErasedOnce
<1> QED BY <1>4, <1>5, <1>6, <1>7, <1>8, <1>9 DEF IInv

LEMMA HeadIsFirst ==
    ASSUME NEW s \in Seq(Messages), s # <<>>
    PROVE  /\ 1 \in DOMAIN s /\ Head(s) = s[1] /\ Head(s) \in Messages
           /\ \A i \in DOMAIN s : i = 1 \/ 1 < i
    BY SMT

\* The first message of a queue is the earliest.
LEMMA HeadIsEarliest ==
    ASSUME queue' \in Seq(Messages), Sorted', queue' # <<>>
    PROVE  \A i \in DOMAIN queue' : Head(queue').when <= queue'[i].when
<1>1. /\ 1 \in DOMAIN queue' /\ Head(queue') = queue'[1]
      /\ \A i \in DOMAIN queue' : i = 1 \/ 1 < i
    BY HeadIsFirst
<1>2. queue'[1].when \in Nat
    BY <1>1, Fields
<1>3. queue'[1].when <= queue'[1].when
    BY <1>2, SMT
<1> QED BY <1>1, <1>3 DEF Sorted

\* A handler is called, after what is left of the queue has been settled.
LEMMA InvokeIInv ==
    ASSUME TypeOK, Paired, Pending, queue' \in Seq(Messages), Sorted', InOrder', queue' # <<>>,
           \A i \in DOMAIN queue' : \E k \in DOMAIN queue : queue'[i] = queue[k],
           Invoke(queue'), mode' \in {"one", "all", "until"}, until' \in Nat,
           mode' = "until" => Head(queue').when <= until',
           ~corrupt, UNCHANGED <<links, serial, corrupt>>
    PROVE  IInv'
<1>1. running' = Head(queue') /\ now' = Head(queue').when /\ own' = FALSE
    BY DEF Invoke
<1>2. 1 \in DOMAIN queue' /\ Head(queue') = queue'[1] /\ Head(queue') \in Messages
    BY HeadIsFirst
<1>3. now' \in Nat
    BY <1>1, <1>2, Fields
<1>4. now <= now'
    BY <1>1, <1>2 DEF Pending
<1>5. \A i \in DOMAIN queue' : now' <= queue'[i].when
    BY <1>1, HeadIsEarliest
<1>6. Pending'
    BY <1>3, <1>4, <1>5, PendingLater
<1>7. mode' \in {"idle", "one", "all", "until"} /\ mode' # "idle"
    BY SMT
<1>8. running' \in Messages /\ running' # None
    BY <1>1, <1>2, NotAMessage
<1>9. TypeOK'
    BY <1>1, <1>3, <1>7, <1>8 DEF TypeOK
<1>10. Paired'
    BY DEF Paired
<1>11. Present' /\ ErasedOnce' /\ (mode' = "until" => now' <= until')
    BY <1>1, <1>2 DEF Present, ErasedOnce
<1> QED BY <1>6, <1>9, <1>10, <1>11 DEF IInv

\* The clock is set to t, not past anything in the queue, and no handler runs.
LEMMA QuietIInv ==
    ASSUME TypeOK, Paired, Pending, queue' \in Seq(Messages), Sorted', InOrder',
           \A i \in DOMAIN queue' : now' <= queue'[i].when /\ \E k \in DOMAIN queue : queue'[i] = queue[k],
           now' \in Nat, now <= now', until' \in Nat, mode' = "idle", running' = None, own' \in BOOLEAN,
           ~corrupt, UNCHANGED <<links, serial, corrupt>>
    PROVE  IInv'
<1>1. Pending'
    BY PendingLater
<1>2. TypeOK'
    BY DEF TypeOK
<1>3. Paired' /\ Present' /\ ErasedOnce'
    BY DEF Paired, Present, ErasedOnce
<1>4. mode' # "until"
    BY SMT
<1> QED BY <1>1, <1>2, <1>3, <1>4 DEF IInv

\* The queue as it is, for the two lemmas above.
LEMMA QueueKept ==
    ASSUME IInv, queue' = queue
    PROVE  /\ TypeOK /\ Paired /\ Pending /\ queue' \in Seq(Messages) /\ Sorted' /\ InOrder'
           /\ \A i \in DOMAIN queue' : \E k \in DOMAIN queue : queue'[i] = queue[k]
    BY DEF IInv, TypeOK, Sorted, InOrder

LEMMA StepOneIInv == ASSUME IInv, step_one PROVE IInv'
<1>1. /\ ~corrupt /\ queue' # <<>> /\ mode' = "one" /\ Invoke(queue')
      /\ UNCHANGED <<links, queue, until, serial, corrupt>>
    BY DEF step_one
<1>2. mode' # "until" /\ mode' \in {"one", "all", "until"}
    BY <1>1, SMT
<1>3. until' \in Nat
    BY <1>1 DEF IInv, TypeOK
<1> QED BY <1>1, <1>2, <1>3, QueueKept, InvokeIInv

LEMMA StepIInv == ASSUME IInv, step PROVE IInv'
<1>1. /\ ~corrupt /\ queue' # <<>> /\ mode' = "all" /\ Invoke(queue')
      /\ UNCHANGED <<links, queue, until, serial, corrupt>>
    BY DEF step
<1>2. mode' # "until" /\ mode' \in {"one", "all", "until"}
    BY <1>1, SMT
<1>3. until' \in Nat
    BY <1>1 DEF IInv, TypeOK
<1> QED BY <1>1, <1>2, <1>3, QueueKept, InvokeIInv

\* Nothing in the queue is due at t: all of it is later.
LEMMA NothingDue ==
    ASSUME NEW t \in Nat, queue' \in Seq(Messages), Sorted', ~Due(queue', t)
    PROVE  \A i \in DOMAIN queue' : t <= queue'[i].when
<1>1. CASE queue' = <<>>
    BY <1>1, SMT
<1>2. CASE queue' # <<>>
    <2>1. \A i \in DOMAIN queue' : Head(queue').when <= queue'[i].when /\ queue'[i].when \in Nat
        BY <1>2, HeadIsEarliest, Fields
    <2>2. Head(queue').when \in Nat
        BY <1>2, <2>1, HeadIsFirst
    <2>3. ~(Head(queue').when <= t)
        BY <1>2 DEF Due
    <2> QED BY <2>1, <2>2, <2>3, SMT
<1> QED BY <1>1, <1>2

LEMMA StepUntilIInv == ASSUME IInv, NEW t \in 0 .. MaxTime, step_until(t) PROVE IInv'
<1>1. /\ ~corrupt /\ mode = "idle" /\ t >= now /\ UNCHANGED <<links, queue, serial, corrupt>>
    BY DEF step_until
<1>2. t \in Nat /\ now \in Nat
    BY BoundsAssumption, SMT DEF IInv, TypeOK
<1>3. CASE Due(queue, t)
    <2>1. mode' = "until" /\ until' = t /\ Invoke(queue')
        BY <1>1, <1>3 DEF step_until
    <2>2. queue' # <<>> /\ Head(queue').when <= until'
        BY <1>1, <1>3, <2>1 DEF Due
    <2>3. mode' \in {"one", "all", "until"}
        BY <2>1, SMT
    <2> QED BY <1>1, <1>2, <2>1, <2>2, <2>3, QueueKept, InvokeIInv
<1>4. CASE ~Due(queue, t)
    <2>1. now' = t /\ UNCHANGED <<mode, until, running, own>>
        BY <1>4 DEF step_until, stepping
    <2>2. ~Due(queue', t)
        BY <1>1, <1>4
    <2>3. \A i \in DOMAIN queue' : now' <= queue'[i].when
        BY <1>1, <1>2, <2>1, <2>2, QueueKept, NothingDue
    <2>4. now <= now'
        BY <1>1, <1>2, <2>1, SMT
    <2>5. running' = None /\ until' \in Nat /\ own' \in BOOLEAN
        BY <1>1, <2>1 DEF IInv, TypeOK
    <2> QED BY <1>1, <1>2, <2>1, <2>3, <2>4, <2>5, QueueKept, QuietIInv
<1> QED BY <1>3, <1>4

LEMMA HandlerReturnsIInv == ASSUME IInv, HandlerReturns PROVE IInv'
<1>1. /\ ~corrupt /\ running # None /\ UNCHANGED <<links, serial>>
    BY DEF HandlerReturns
<1>2. TypeOK /\ Paired /\ Pending /\ Sorted /\ InOrder /\ Present
    BY DEF IInv
<1>3. CASE running \in Range(queue)
    <2>1. /\ erase(running) /\ UNCHANGED corrupt
          /\ IF GoesOn(queue') THEN Invoke(queue') /\ UNCHANGED <<mode, until>> ELSE StepEnds
        BY <1>3 DEF HandlerReturns
    <2>2. queue' \in Seq(Messages) /\ Thinner(queue', queue)
        BY <1>2, <2>1, EraseThins DEF TypeOK
    <2>3. /\ Sorted' /\ InOrder'
          /\ \A i \in DOMAIN queue' : \E k \in DOMAIN queue : queue'[i] = queue[k]
        BY <1>2, <2>2, ThinnerInOrder DEF TypeOK
    <2>4. mode \in {"one", "all", "until"} /\ now \in Nat /\ until \in Nat
        <3>1. mode # "idle" /\ mode \in {"idle", "one", "all", "until"}
            BY <1>1, <1>2 DEF TypeOK
        <3>2. mode \in {"one", "all", "until"}
            BY <3>1
        <3> QED BY <1>2, <3>2 DEF TypeOK
    <2>5. CASE GoesOn(queue')
        <3>1. Invoke(queue') /\ mode' = mode /\ until' = until
            BY <2>1, <2>5
        <3>2. queue' # <<>>
            BY <2>5 DEF GoesOn, Due
        <3>3. ASSUME mode' = "until" PROVE Head(queue').when <= until'
            <4>1. mode # "all"
                BY <3>1, <3>3, SMT
            <4> QED BY <2>5, <3>1, <4>1 DEF GoesOn, Due
        <3> QED BY <1>1, <1>2, <2>1, <2>2, <2>3, <2>4, <3>1, <3>2, <3>3, InvokeIInv
    <2>6. CASE ~GoesOn(queue')
        <3>1. /\ running' = None /\ mode' = "idle" /\ own' = FALSE /\ until' = 0
              /\ now' = IF mode = "until" THEN until ELSE now
            BY <2>1, <2>6 DEF StepEnds
        <3>2. until' \in Nat /\ own' \in BOOLEAN
            <4>1. 0 \in Nat
                BY SMT
            <4> QED BY <3>1, <4>1
        <3>3. CASE mode = "until"
            <4>1. now' = until /\ now <= until
                BY <3>1, <3>3 DEF IInv
            <4>2. ~Due(queue', until)
                BY <2>6, <3>3 DEF GoesOn
            <4>3. \A i \in DOMAIN queue' : until <= queue'[i].when
                BY <2>2, <2>3, <2>4, <4>2, NothingDue
            <4> QED BY <1>1, <1>2, <2>1, <2>2, <2>3, <2>4, <3>1, <3>2, <4>1, <4>3, QuietIInv
        <3>4. CASE mode # "until"
            <4>1. now' = now
                BY <3>1, <3>4
            <4>2. now <= now'
                BY <2>4, <4>1, SMT
            <4>3. \A i \in DOMAIN queue' : now' <= queue'[i].when
                BY <1>2, <2>3, <4>1 DEF Pending
            <4> QED BY <1>1, <1>2, <2>1, <2>2, <2>3, <2>4, <3>1, <3>2, <4>1, <4>2, <4>3, QuietIInv
        <3> QED BY <3>3, <3>4
    <2> QED BY <2>5, <2>6
<1>4. CASE running \notin Range(queue)
    <2>1. corrupt' = TRUE /\ UNCHANGED <<now, queue, mode, until, running, own>>
        BY <1>4 DEF HandlerReturns, stepping
    <2>2. own
        BY <1>1, <1>2, <1>4 DEF Present, Range
    <2>3. corrupt' \in BOOLEAN
        BY <2>1, SMT
    <2>4. TypeOK'
        BY <1>1, <1>2, <2>1, <2>3 DEF TypeOK
    <2>5. Paired' /\ Pending' /\ Sorted' /\ InOrder' /\ Present'
        BY <1>1, <1>2, <2>1 DEF Paired, Pending, Sorted, InOrder, Present
    <2>6. ErasedOnce' /\ (mode' = "until" => now' <= until')
        BY <2>1, <2>2 DEF IInv, ErasedOnce
    <2> QED BY <2>4, <2>5, <2>6 DEF IInv
<1> QED BY <1>3, <1>4

LEMMA UnchangedIInv == ASSUME IInv, UNCHANGED vars PROVE IInv'
<1>1. UNCHANGED <<now, links, queue, mode, until, running, own, serial, corrupt>>
    BY DEF vars, net, stepping
<1> QED BY <1>1 DEF IInv, TypeOK, Paired, Pending, Sorted, InOrder, Present, ErasedOnce

LEMMA InitIInv == ASSUME Init PROVE IInv
<1>1. /\ now = 0 /\ links = [p \in Peers |-> [q \in {} |-> None]] /\ queue = <<>>
      /\ mode = "idle" /\ until = 0 /\ running = None /\ own = FALSE
      /\ serial = 0 /\ corrupt = FALSE
    BY DEF Init
<1>2. /\ queue \in Seq(Messages) /\ DOMAIN queue = {} /\ now \in Nat
      /\ mode \in {"idle", "one", "all", "until"} /\ mode # "until"
      /\ own \in BOOLEAN /\ corrupt \in BOOLEAN
    <2>1. <<>> \in Seq(Messages) /\ DOMAIN <<>> = {} /\ 0 \in Nat
        BY SMT
    <2> QED BY <1>1, <2>1
<1>3. \A p \in Peers : links[p] \in [{} -> Ends] /\ DOMAIN links[p] = {}
    BY <1>1
<1>4. links = [p \in Peers |-> links[p]]
    BY <1>1
<1>5. TypeOK
    BY <1>1, <1>2, <1>3, <1>4 DEF TypeOK
<1>6. Paired /\ Pending /\ Sorted /\ InOrder /\ Present /\ ErasedOnce
    BY <1>1, <1>2, <1>3 DEF Paired, Pending, Sorted, InOrder, Present, ErasedOnce
<1> QED BY <1>2, <1>5, <1>6 DEF IInv

\* Every step of the program keeps the invariant.
LEMMA NextIInv == ASSUME IInv, [Next]_vars PROVE IInv'
<1>1. CASE \E p, q \in Peers : \E d \in Delays : connect(p, q, d)
    BY <1>1, ConnectIInv
<1>2. CASE \E p, q \in Peers : disconnect(p, q)
    BY <1>2, DisconnectIInv
<1>3. CASE \E p, q \in Peers : send(p, q)
    BY <1>3, SendIInv
<1>4. CASE \E d \in Delays : timer(now + d)
    BY <1>4, TimerIInv
<1>5. CASE \E m \in Range(queue) : cancel(m)
    BY <1>5, CancelIInv
<1>6. CASE step_one
    BY <1>6, StepOneIInv
<1>7. CASE step
    BY <1>7, StepIInv
<1>8. CASE \E t \in 0 .. MaxTime : step_until(t)
    BY <1>8, StepUntilIInv
<1>9. CASE HandlerReturns
    BY <1>9, HandlerReturnsIInv
<1>10. CASE UNCHANGED vars
    BY <1>10, UnchangedIInv
<1> QED BY <1>1, <1>2, <1>3, <1>4, <1>5, <1>6, <1>7, <1>8, <1>9, <1>10 DEF Next

\* The invariant holds throughout.
THEOREM Invariance == Spec => []IInv
<1>1. Init => IInv
    BY InitIInv
<1>2. IInv /\ [Next]_vars => IInv'
    BY NextIInv
<1> QED BY <1>1, <1>2, PTL DEF Spec

-----------------------------------------------------------------------------
(* What it implies *)

\* disconnect discards the messages in both directions of the link it breaks,
\* so that what is in the queue was sent over a link that still stands: with
\* any peers, delays and handlers.
THEOREM PendingHasLinkThm == Spec => []PendingHasLink
<1>1. IInv => PendingHasLink
    <2> SUFFICES ASSUME IInv, NEW m \in Range(queue), m.to # None
                 PROVE  /\ m.to \in DOMAIN links[m.from] /\ m.from \in DOMAIN links[m.to]
                        /\ m.no > links[m.from][m.to].no
        BY DEF PendingHasLink
    <2>1. PICK i \in DOMAIN queue : queue[i] = m
        BY DEF Range
    <2>2. /\ m.from \in Peers /\ m.to \in DOMAIN links[m.from] /\ links[m.from][m.to].no < m.no
        BY <2>1 DEF IInv, Pending, OnLink
    <2>3. m.from \in DOMAIN links[m.to]
        BY <2>2 DEF IInv, Paired
    <2>4. m.no \in Nat /\ links[m.from][m.to].no \in Nat
        BY <2>1, <2>2, LinkTypes, Fields DEF IInv, TypeOK
    <2>5. m.no > links[m.from][m.to].no
        BY <2>2, <2>4, SMT
    <2> QED BY <2>2, <2>3, <2>5
<1> QED BY <1>1, Invariance, PTL

\* Messages of a connection are delivered in the order of the sends: the
\* multiset keeps the order of equal times, and the delay of a link does not
\* change while it stands.
THEOREM InOrderThm == Spec => []InOrder
<1>1. IInv => InOrder
    BY DEF IInv
<1> QED BY <1>1, Invariance, PTL

\* step_one, step and step_until set the clock no further than to the first
\* message that stays in the queue, whatever handlers add to it.
THEOREM NoneOverdueThm == Spec => []NoneOverdue
<1>1. IInv => NoneOverdue
    <2> SUFFICES ASSUME IInv, NEW m \in Range(queue) PROVE m.when >= now
        BY DEF NoneOverdue
    <2>1. PICK i \in DOMAIN queue : queue[i] = m
        BY DEF Range
    <2>2. now <= m.when /\ now \in Nat /\ m.when \in Nat
        BY <2>1, Fields DEF IInv, Pending, TypeOK
    <2> QED BY <2>2, SMT
<1> QED BY <1>1, Invariance, PTL

\* step_one erases a message that is still in the queue, unless the handler
\* has broken the link over which it came.
THEOREM ErasedOnceThm == Spec => []ErasedOnce
<1>1. IInv => ErasedOnce
    BY DEF IInv
<1> QED BY <1>1, Invariance, PTL

\* The clock, a manual clock over a steady one, is never set back.
ClockGoesOn == [][now <= now']_vars

\* A call of the first handler in the queue does not set it back.
LEMMA InvokeGoesOn ==
    ASSUME TypeOK, Pending, queue' \in Seq(Messages), queue' # <<>>, Invoke(queue'),
           \A i \in DOMAIN queue' : \E k \in DOMAIN queue : queue'[i] = queue[k]
    PROVE  now <= now'
<1>1. 1 \in DOMAIN queue' /\ Head(queue') = queue'[1]
    BY HeadIsFirst
<1>2. PICK k \in DOMAIN queue : queue'[1] = queue[k]
    BY <1>1
<1> QED BY <1>1, <1>2 DEF Invoke, Pending

\* No step function sets the clock back, if step_until is not called with a
\* time that has passed.
THEOREM ClockGoesOnThm == Spec => ClockGoesOn
<1>1. IInv /\ [Next]_vars => [now <= now']_vars
    <2> SUFFICES ASSUME IInv, Next PROVE now <= now'
        BY DEF vars
    <2>1. TypeOK /\ Pending /\ Sorted /\ InOrder /\ queue \in Seq(Messages) /\ now \in Nat
        BY DEF IInv, TypeOK
    <2>2. CASE now' = now
        BY <2>1, <2>2, SMT
    <2>3. CASE (step_one \/ step) \/ \E t \in 0 .. MaxTime : step_until(t) /\ Due(queue, t)
        <3>1. queue' = queue /\ queue' # <<>> /\ Invoke(queue')
            BY <2>3 DEF step_one, step, step_until, Due
        <3> QED BY <2>1, <3>1, InvokeGoesOn
    <2>4. CASE \E t \in 0 .. MaxTime : step_until(t) /\ ~Due(queue, t)
        <3>1. PICK t \in 0 .. MaxTime : t >= now /\ now' = t
            BY <2>4 DEF step_until
        <3> QED BY <2>1, <3>1, BoundsAssumption, SMT
    <2>5. CASE HandlerReturns
        <3>1. CASE running \in Range(queue) /\ GoesOn(queue')
            <4>1. erase(running) /\ Invoke(queue') /\ queue' # <<>>
                BY <2>5, <3>1 DEF HandlerReturns, GoesOn, Due
            <4>2. queue' \in Seq(Messages) /\ Thinner(queue', queue)
                BY <2>1, <4>1, EraseThins
            <4>3. \A i \in DOMAIN queue' : \E k \in DOMAIN queue : queue'[i] = queue[k]
                BY <2>1, <4>2, ThinnerInOrder
            <4> QED BY <2>1, <4>1, <4>2, <4>3, InvokeGoesOn
        <3>2. CASE running \in Range(queue) /\ ~GoesOn(queue')
            <4>1. now' = IF mode = "until" THEN until ELSE now
                BY <2>5, <3>2 DEF HandlerReturns, StepEnds
            <4>2. CASE mode = "until"
                BY <4>1, <4>2 DEF IInv
            <4> QED BY <2>2, <4>1, <4>2
        <3>3. CASE running \notin Range(queue)
            BY <2>2, <2>5, <3>3 DEF HandlerReturns
        <3> QED BY <3>1, <3>2, <3>3
    <2>6. \/ now' = now \/ HandlerReturns \/ step_one \/ step
          \/ \E t \in 0 .. MaxTime : step_until(t)
        BY DEF Next, connect, disconnect, send, timer, cancel
    <2> QED BY <2>2, <2>3, <2>4, <2>5, <2>6
<1> QED BY <1>1, Invariance, PTL DEF Spec, ClockGoesOn

-----------------------------------------------------------------------------
(* Induction, for sets of numbers, and the function that Iterate defines *)

\* A set of numbers that holds 0, and with a number the next, holds them all.
LEMMA Induction ==
    ASSUME NEW P, 0 \in P, \A n \in Nat : n \in P => n + 1 \in P
    PROVE  \A n \in Nat : n \in P
<1> SUFFICES ASSUME NEW n \in Nat, n \notin P PROVE FALSE
    OBVIOUS
<1> DEFINE less == {p \in Nat \X Nat : p[1] < p[2]}
           outside == {k \in Nat : k \notin P}
<1>1. OpToRel(<, Nat) = less
    BY SMT DEF OpToRel
<1>2. IsWellFoundedOn(less, Nat)
    BY <1>1, NatLessThanWellFounded
<1>3. outside \in SUBSET Nat /\ outside # {}
    OBVIOUS
<1>4. PICK m \in outside : \A k \in outside : <<k, m>> \notin less
    <2> HIDE DEF less, outside
    <2> QED BY <1>2, <1>3, WFMin
<1>5. m \in Nat /\ m # 0
    OBVIOUS
<1>6. m - 1 \in Nat /\ (m - 1) + 1 = m /\ <<m - 1, m>> \in less
    BY <1>5, SMT
<1>7. m - 1 \in P
    BY <1>4, <1>6
<1>8. m \in P
    BY <1>6, <1>7
<1> QED BY <1>8

\* f is the sequence x, g[x], g[g[x]], ... up to its element n.
IsRun(f, g, x, n) == f[0] = x /\ \A i \in Nat : i < n => f[i + 1] = g[f[i]]

LEMMA RunExists ==
    ASSUME NEW g, NEW x
    PROVE  \A n \in Nat : \E f : IsRun(f, g, x, n)
<1> DEFINE P == {n \in Nat : \E f : IsRun(f, g, x, n)}
<1>1. 0 \in P
    <2>1. [i \in Nat |-> x][0] = x
        BY SMT
    <2>2. 0 \in Nat /\ \A i \in Nat : ~(i < 0)
        BY SMT
    <2> QED BY <2>1, <2>2 DEF IsRun
<1>2. ASSUME NEW n \in Nat, n \in P PROVE n + 1 \in P
    <2>1. PICK f : IsRun(f, g, x, n)
        BY <1>2
    <2> DEFINE e == [i \in Nat |-> IF i <= n THEN f[i] ELSE g[f[n]]]
    <2>2. n + 1 \in Nat /\ 0 <= n /\ 0 \in Nat
        BY SMT
    <2>3. e[0] = f[0]
        BY <2>2
    <2>4. ASSUME NEW i \in Nat, i < n + 1 PROVE e[i + 1] = g[e[i]]
        <3>1. i <= n /\ i + 1 \in Nat
            BY <2>4, SMT
        <3>2. CASE i = n
            <4>1. ~(i + 1 <= n)
                BY <3>2, SMT
            <4> QED BY <3>1, <3>2, <4>1
        <3>3. CASE i < n
            <4>1. i + 1 <= n
                BY <3>3, SMT
            <4>2. e[i + 1] = f[i + 1] /\ e[i] = f[i]
                BY <3>1, <4>1
            <4>3. f[i + 1] = g[f[i]]
                BY <2>1, <3>3 DEF IsRun
            <4> QED BY <4>2, <4>3
        <3>4. i = n \/ i < n
            BY <3>1, SMT
        <3> QED BY <3>2, <3>3, <3>4
    <2> HIDE DEF e
    <2>5. IsRun(e, g, x, n + 1)
        BY <2>1, <2>3, <2>4 DEF IsRun
    <2> QED BY <2>2, <2>5
<1> HIDE DEF P
<1>3. \A n \in Nat : n \in P
    BY <1>1, <1>2, Induction
<1> QED BY <1>3 DEF P

LEMMA RunsAgree ==
    ASSUME NEW g, NEW x, NEW f, NEW e, NEW m \in Nat, NEW n \in Nat,
           IsRun(f, g, x, m), IsRun(e, g, x, n)
    PROVE  \A i \in Nat : i <= m /\ i <= n => f[i] = e[i]
<1> DEFINE P == {i \in Nat : i <= m /\ i <= n => f[i] = e[i]}
<1>1. 0 \in P
    <2>1. 0 \in Nat
        BY SMT
    <2> QED BY <2>1 DEF IsRun
<1>2. ASSUME NEW i \in Nat, i \in P PROVE i + 1 \in P
    <2> SUFFICES ASSUME i + 1 <= m, i + 1 <= n PROVE f[i + 1] = e[i + 1]
        BY SMT
    <2>1. i <= m /\ i <= n /\ i < m /\ i < n
        BY SMT
    <2>2. f[i] = e[i]
        BY <1>2, <2>1
    <2> QED BY <2>1, <2>2 DEF IsRun
<1> HIDE DEF P
<1>3. \A i \in Nat : i \in P
    BY <1>1, <1>2, Induction
<1> QED BY <1>3 DEF P

\* The recursive function of Iterate exists, so that it has the equations that
\* define it.
LEMMA Iterated ==
    ASSUME NEW g, NEW x
    PROVE  /\ Iterate(g, x, 0) = x
           /\ \A n \in Nat : Iterate(g, x, n + 1) = g[Iterate(g, x, n)]
<1>z. 0 \in Nat
    BY SMT
<1> DEFINE F(n) == CHOOSE f : IsRun(f, g, x, n)
           h == [n \in Nat |-> F(n)[n]]
<1>h. \A n \in Nat : h[n] = F(n)[n]
    OBVIOUS
<1>1. ASSUME NEW n \in Nat PROVE IsRun(F(n), g, x, n)
    BY RunExists
<1> HIDE DEF F, h
<1>2. ASSUME NEW n \in Nat, n # 0 PROVE h[n] = g[h[n - 1]]
    <2>1. n - 1 \in Nat /\ (n - 1) + 1 = n /\ n - 1 < n /\ n - 1 <= n /\ n - 1 <= n - 1
        BY <1>2, SMT
    <2>2. IsRun(F(n), g, x, n) /\ IsRun(F(n - 1), g, x, n - 1)
        BY <1>1, <2>1
    <2>3. F(n)[n] = g[F(n)[n - 1]]
        BY <2>1, <2>2 DEF IsRun
    <2>4. F(n)[n - 1] = F(n - 1)[n - 1]
        <3>1. PICK a, b, k : a = F(n) /\ b = F(n - 1) /\ k = n - 1
            OBVIOUS
        <3>2. k \in Nat /\ k <= n /\ k <= k /\ IsRun(a, g, x, n) /\ IsRun(b, g, x, k)
            BY <2>1, <2>2, <3>1
        <3>3. \A i \in Nat : i <= n /\ i <= k => a[i] = b[i]
            BY <3>2, RunsAgree, SMT
        <3>4. a[k] = b[k]
            BY <3>2, <3>3
        <3> QED BY <3>1, <3>4
    <2> QED BY <1>h, <2>1, <2>3, <2>4
<1>3. h[0] = x
    BY <1>1, <1>h, <1>z DEF IsRun
<1>4. h = [i \in Nat |-> IF i = 0 THEN x ELSE g[h[i - 1]]]
    <2>1. \A i \in Nat : F(i)[i] = IF i = 0 THEN x ELSE g[h[i - 1]]
        BY <1>2, <1>3, <1>h
    <2>2. h = [i \in Nat |-> F(i)[i]]
        BY DEF h
    <2> QED BY <2>1, <2>2
<1> DEFINE it[i \in Nat] == IF i = 0 THEN x ELSE g[it[i - 1]]
<1>5. it = [i \in Nat |-> IF i = 0 THEN x ELSE g[it[i - 1]]]
    BY <1>4
<1>6. \A n : Iterate(g, x, n) = it[n]
    BY DEF Iterate
<1> HIDE DEF it
<1>7. it[0] = x
    BY <1>5, <1>z
<1>8. ASSUME NEW n \in Nat PROVE it[n + 1] = g[it[n]]
    <2>1. n + 1 \in Nat /\ n + 1 # 0 /\ (n + 1) - 1 = n
        BY SMT
    <2>2. it[n + 1] = g[it[(n + 1) - 1]]
        BY <1>5, <2>1
    <2> QED BY <2>1, <2>2
<1> QED BY <1>6, <1>7, <1>8

-----------------------------------------------------------------------------
(* What bfs is made of: the neighbours in some order, and the distances *)

\* The order in which a flat_map's keys come: each element of S once.
IsListing(ws, S) ==
    /\ ws \in Seq(S)
    /\ \A i, j \in 1 .. Len(ws) : i # j => ws[i] # ws[j]
    /\ \A x \in S : \E i \in 1 .. Len(ws) : ws[i] = x

LEMMA Enumerated == ASSUME NEW S, IsFiniteSet(S) PROVE IsListing(InSomeOrder(S), S)
<1>0. PICK ws : ws = InSomeOrder(S)
    OBVIOUS
<1> DEFINE n == Cardinality(S)
<1>1. n \in Nat /\ ExistsBijection(1 .. n, S)
    BY FS_CardinalityType
<1>2. \E f \in [1 .. n -> S] : IsInjective(f)
    BY <1>1 DEF ExistsBijection, Bijection, Injection
<1>3. ws \in [1 .. n -> S] /\ IsInjective(ws)
    BY <1>0, <1>2 DEF InSomeOrder
<1>4. ws \in Injection(1 .. n, S)
    BY <1>3 DEF Injection
<1>5. Cardinality(1 .. n) = n
    <2>1. 1 \in Int /\ n \in Int
        BY <1>1, SMT
    <2>2. Cardinality(1 .. n) = IF 1 > n THEN 0 ELSE n - 1 + 1
        BY <2>1, FS_Interval
    <2> HIDE DEF n
    <2> QED BY <1>1, <2>2, SMT
<1>6. ws \in Surjection(1 .. n, S)
    BY <1>4, <1>5, FS_Injection
<1> HIDE DEF n
<1>7. ws \in Seq(S) /\ Len(ws) = n /\ DOMAIN ws = 1 .. n
    BY <1>1, <1>3, SMT
<1> QED BY <1>0, <1>3, <1>6, <1>7 DEF IsListing, IsInjective, Surjection

\* A peer's links lead to peers.
LEMMA Neighbours == TypeOK => \A p \in Peers : DOMAIN links[p] \in SUBSET Peers
    BY DEF TypeOK

LEMMA BallSteps ==
    ASSUME TypeOK, NEW s \in Peers
    PROVE  /\ Ball(s, 0) = {s}
           /\ \A n \in Nat : Ball(s, n) \in SUBSET Peers
           /\ \A n \in Nat : \A r : r \in Ball(s, n + 1) <=>
                  r \in Ball(s, n) \/ \E p \in Ball(s, n) : r \in DOMAIN links[p]
<1> DEFINE g == [b \in SUBSET Peers |-> b \cup UNION {DOMAIN links[p] : p \in b}]
           P == {n \in Nat : Ball(s, n) \in SUBSET Peers}
<1>1. \A n : Ball(s, n) = Iterate(g, {s}, n)
    BY DEF Ball
<1>2. \A b \in SUBSET Peers : g[b] = b \cup UNION {DOMAIN links[p] : p \in b}
    OBVIOUS
<1>3. \A b \in SUBSET Peers : g[b] \in SUBSET Peers
    BY <1>2, Neighbours
<1> HIDE DEF g
<1>4. Ball(s, 0) = {s} /\ \A n \in Nat : Ball(s, n + 1) = g[Ball(s, n)]
    <2>1. /\ Iterate(g, {s}, 0) = {s}
          /\ \A n \in Nat : Iterate(g, {s}, n + 1) = g[Iterate(g, {s}, n)]
        BY Iterated
    <2> QED BY <1>1, <2>1
<1>5. 0 \in P
    <2>1. 0 \in Nat
        BY SMT
    <2> QED BY <1>4, <2>1
<1>6. ASSUME NEW n \in Nat, n \in P PROVE n + 1 \in P
    <2>1. n + 1 \in Nat
        BY SMT
    <2> QED BY <1>3, <1>4, <1>6, <2>1
<1> HIDE DEF P
<1>7. \A n \in Nat : n \in P
    BY <1>5, <1>6, Induction
<1>8. \A n \in Nat : Ball(s, n) \in SUBSET Peers
    BY <1>7 DEF P
<1>9. ASSUME NEW n \in Nat, NEW r
      PROVE  r \in Ball(s, n + 1) <=>
                 r \in Ball(s, n) \/ \E p \in Ball(s, n) : r \in DOMAIN links[p]
    <2>1. Ball(s, n + 1) = Ball(s, n) \cup UNION {DOMAIN links[p] : p \in Ball(s, n)}
        BY <1>2, <1>4, <1>8
    <2> QED BY <2>1
<1> QED BY <1>4, <1>8, <1>9

LEMMA BallGrows ==
    ASSUME TypeOK, NEW s \in Peers, NEW m \in Nat, NEW n \in Nat, m <= n
    PROVE  Ball(s, m) \subseteq Ball(s, n)
<1> DEFINE P == {k \in Nat : Ball(s, m) \subseteq Ball(s, m + k)}
<1>1. 0 \in P
    <2>1. 0 \in Nat /\ m + 0 = m
        BY SMT
    <2> QED BY <2>1
<1>2. ASSUME NEW k \in Nat, k \in P PROVE k + 1 \in P
    <2>1. k + 1 \in Nat /\ m + k \in Nat /\ m + (k + 1) = (m + k) + 1
        BY SMT
    <2>2. Ball(s, m + k) \subseteq Ball(s, (m + k) + 1)
        BY <2>1, BallSteps
    <2> QED BY <1>2, <2>1, <2>2
<1> HIDE DEF P
<1>3. \A k \in Nat : k \in P
    BY <1>1, <1>2, Induction
<1>4. n - m \in Nat /\ m + (n - m) = n
    BY SMT
<1> QED BY <1>3, <1>4 DEF P

-----------------------------------------------------------------------------
(* The search: its loop invariant *)

AtDistance(s, p, d) == p \in Ball(s, d) /\ \A n \in Nat : n < d => p \notin Ball(s, n)

Listed(l, p) == \E i \in 1 .. Len(l) : l[i][1] = p

Distinct(l) == \A i, j \in 1 .. Len(l) : i # j => l[i][1] # l[j][1]

\* The peers the function was called with have their distance, and everybody
\* they are linked to has been seen.
Visited(s, out, seen) ==
    \A i \in 1 .. Len(out) :
        /\ AtDistance(s, out[i][1], out[i][2]) /\ out[i][2] < i
        /\ out[i][1] \in seen /\ DOMAIN links[out[i][1]] \subseteq seen

\* The work list holds other peers, of two adjacent distances at most.
Waiting(s, out, q, seen) ==
    \A i \in 1 .. Len(q) :
        /\ AtDistance(s, q[i][1], q[i][2]) /\ q[i][2] <= q[1][2] + 1
        /\ q[i][1] \in seen /\ ~Listed(out, q[i][1])

Nearest(q) == \A i, j \in 1 .. Len(q) : i < j => q[i][2] <= q[j][2]

\* Everybody as near as the first peer of the work list has been seen.
AtHead(s, out, q, seen) ==
    Len(q) # 0 => q[1][2] <= Len(out) /\ Ball(s, q[1][2]) \subseteq seen

IsSearch(s, out, q, seen) ==
    /\ out \in Seq(Peers \X Nat) /\ q \in Seq(Peers \X Nat) /\ seen \in SUBSET Peers
    /\ s \in seen /\ \A p \in seen : Listed(out, p) \/ Listed(q, p)
    /\ Visited(s, out, seen) /\ Waiting(s, out, q, seen)
    /\ Distinct(out) /\ Distinct(q) /\ Nearest(q) /\ AtHead(s, out, q, seen)

\* The fields of an entry.
LEMMA Entries ==
    ASSUME NEW l \in Seq(Peers \X Nat)
    PROVE  /\ Len(l) \in Nat
           /\ \A i \in 1 .. Len(l) : l[i][1] \in Peers /\ l[i][2] \in Nat
    BY SMT

\* Entries of distinct peers are no more than there are peers.
LEMMA EntriesBounded ==
    ASSUME NEW l \in Seq(Peers \X Nat), Distinct(l)
    PROVE  Cardinality(Peers) \in Nat /\ Len(l) <= Cardinality(Peers)
<1>1. Cardinality(Peers) \in Nat
    BY PeersAssumption, FS_CardinalityType
<1> DEFINE f == [i \in 1 .. Len(l) |-> l[i][1]]
<1>2. f \in Injection(1 .. Len(l), Peers)
    BY Entries DEF Injection, IsInjective, Distinct
<1>3. Cardinality(1 .. Len(l)) <= Cardinality(Peers)
    <2> HIDE DEF f
    <2> QED BY <1>2, PeersAssumption, FS_Injection
<1>4. Len(l) \in Nat /\ 1 \in Int /\ Len(l) \in Int
    BY SMT
<1>5. Cardinality(1 .. Len(l)) = IF 1 > Len(l) THEN 0 ELSE Len(l) - 1 + 1
    BY <1>4, FS_Interval
<1>6. Cardinality(1 .. Len(l)) = Len(l)
    BY <1>4, <1>5, SMT
<1> QED BY <1>1, <1>3, <1>6

LEMMA SearchBegins ==
    ASSUME TypeOK, NEW s \in Peers, NEW q, q = <<<<s, 0>>>>
    PROVE  IsSearch(s, <<>>, q, {s})
<1>1. /\ q \in Seq(Peers \X Nat) /\ Len(q) = 1 /\ q[1][1] = s /\ q[1][2] = 0
      /\ <<>> \in Seq(Peers \X Nat) /\ Len(<<>>) = 0 /\ 1 .. 0 = {} /\ 1 .. 1 = {1}
      /\ 0 <= 0 /\ 0 <= 0 + 1 /\ \A n \in Nat : ~(n < 0)
    BY SMT
<1>2. AtDistance(s, s, 0)
    BY <1>1, BallSteps DEF AtDistance
<1>3. Visited(s, <<>>, {s}) /\ Distinct(<<>>) /\ \A p : ~Listed(<<>>, p)
    BY <1>1 DEF Visited, Distinct, Listed
<1>4. Waiting(s, <<>>, q, {s})
    BY <1>1, <1>2, <1>3 DEF Waiting
<1>5. Distinct(q) /\ Listed(q, s)
    <2>1. 1 \in 1 .. Len(q) /\ \A i \in 1 .. Len(q) : i = 1
        BY <1>1
    <2>2. Distinct(q)
        BY <2>1 DEF Distinct
    <2>3. Listed(q, s)
        BY <1>1, <2>1 DEF Listed
    <2> QED BY <2>2, <2>3
<1>6. Nearest(q)
    <2>1. ~(1 < 1)
        BY SMT
    <2> QED BY <1>1, <2>1 DEF Nearest
<1>7. AtHead(s, <<>>, q, {s})
    BY <1>1, BallSteps DEF AtHead
<1> QED BY <1>1, <1>3, <1>4, <1>5, <1>6, <1>7 DEF IsSearch

\* One visit, by position: ws are the neighbours not seen, o1, q1 and s1 the
\* next calls, work list and peers seen.
IsVisit(out, q, seen, ws, o1, q1, s1) ==
    /\ Len(o1) = Len(out) + 1 /\ o1[Len(out) + 1] = q[1]
    /\ \A i \in 1 .. Len(out) : o1[i] = out[i]
    /\ Len(q1) = (Len(q) - 1) + Len(ws)
    /\ \A i \in 1 .. Len(q) - 1 : q1[i] = q[i + 1]
    /\ \A i \in 1 .. Len(ws) : q1[i + (Len(q) - 1)] = <<ws[i], q[1][2] + 1>>
    /\ \A i, j \in 1 .. Len(ws) : i # j => ws[i] # ws[j]
    /\ \A i \in 1 .. Len(ws) : ws[i] \in DOMAIN links[q[1][1]] /\ ws[i] \notin seen
    /\ \A x \in DOMAIN links[q[1][1]] : x \notin seen => \E i \in 1 .. Len(ws) : ws[i] = x
    /\ s1 = seen \cup {ws[i] : i \in 1 .. Len(ws)}

\* Where the entries of the next work list come from, and that they all get there.
OldOrFound(q, ws, q1) ==
    \A j \in 1 .. Len(q1) :
        \/ /\ j \in 1 .. Len(q) - 1 /\ j + 1 \in 1 .. Len(q) /\ j + 1 # 1
           /\ q1[j] = q[j + 1]
        \/ \E i \in 1 .. Len(ws) :
              /\ j = i + (Len(q) - 1)
              /\ q1[j][1] = ws[i] /\ q1[j][2] = q[1][2] + 1

AllJoin(q, ws, q1) ==
    /\ \A i \in 1 .. Len(q) : i # 1 => \E j \in 1 .. Len(q1) : q1[j] = q[i]
    /\ \A i \in 1 .. Len(ws) : \E j \in 1 .. Len(q1) : q1[j][1] = ws[i]

LEMMA WorkList ==
    ASSUME NEW out, NEW q \in Seq(Peers \X Nat), NEW seen, NEW ws \in Seq(Peers),
           NEW o1, NEW q1, NEW s1, IsVisit(out, q, seen, ws, o1, q1, s1), Len(q) # 0
    PROVE  OldOrFound(q, ws, q1) /\ AllJoin(q, ws, q1)
<1>1. /\ Len(q1) = (Len(q) - 1) + Len(ws)
      /\ \A i \in 1 .. Len(q) - 1 : q1[i] = q[i + 1]
      /\ \A i \in 1 .. Len(ws) : q1[i + (Len(q) - 1)] = <<ws[i], q[1][2] + 1>>
    BY DEF IsVisit
<1>2. Len(q) \in Nat /\ Len(q) - 1 \in Nat /\ Len(ws) \in Nat
    BY SMT
<1>3. ASSUME NEW j \in 1 .. Len(q1)
      PROVE  \/ /\ j \in 1 .. Len(q) - 1 /\ j + 1 \in 1 .. Len(q) /\ j + 1 # 1
                /\ q1[j] = q[j + 1]
             \/ \E i \in 1 .. Len(ws) :
                   /\ j = i + (Len(q) - 1)
                   /\ q1[j][1] = ws[i] /\ q1[j][2] = q[1][2] + 1
    <2>1. CASE j \in 1 .. Len(q) - 1
        <3>1. j + 1 \in 1 .. Len(q) /\ j + 1 # 1
            BY <1>2, <2>1, SMT
        <3> QED BY <1>1, <2>1, <3>1
    <2>2. CASE j \notin 1 .. Len(q) - 1
        <3>1. /\ j - (Len(q) - 1) \in 1 .. Len(ws)
              /\ j = (j - (Len(q) - 1)) + (Len(q) - 1)
            BY <1>1, <1>2, <2>2, SMT
        <3>2. PICK i \in 1 .. Len(ws) : j = i + (Len(q) - 1)
            BY <3>1
        <3>3. q1[j] = <<ws[i], q[1][2] + 1>>
            BY <1>1, <3>2
        <3>4. q1[j][1] = ws[i] /\ q1[j][2] = q[1][2] + 1
            BY <3>3, SMT
        <3> QED BY <3>2, <3>4
    <2> QED BY <2>1, <2>2
<1>4. ASSUME NEW i \in 1 .. Len(q), i # 1 PROVE \E j \in 1 .. Len(q1) : q1[j] = q[i]
    <2>1. i - 1 \in 1 .. Len(q) - 1 /\ i - 1 \in 1 .. Len(q1) /\ (i - 1) + 1 = i
        BY <1>1, <1>2, <1>4, SMT
    <2>2. q1[i - 1] = q[i]
        BY <1>1, <2>1
    <2> QED BY <2>1, <2>2
<1>5. ASSUME NEW i \in 1 .. Len(ws) PROVE \E j \in 1 .. Len(q1) : q1[j][1] = ws[i]
    <2>1. i + (Len(q) - 1) \in 1 .. Len(q1)
        BY <1>1, <1>2, SMT
    <2>2. q1[i + (Len(q) - 1)] = <<ws[i], q[1][2] + 1>>
        BY <1>1
    <2>3. q1[i + (Len(q) - 1)][1] = ws[i]
        BY <2>2, SMT
    <2> QED BY <2>1, <2>3
<1> QED BY <1>3, <1>4, <1>5 DEF OldOrFound, AllJoin

\* The calls after a visit.
LEMMA VisitOut ==
    ASSUME TypeOK, NEW s \in Peers, NEW out, NEW q, NEW seen, NEW ws \in Seq(Peers),
           NEW o1, NEW q1, NEW s1, IsSearch(s, out, q, seen), Len(q) # 0,
           IsVisit(out, q, seen, ws, o1, q1, s1)
    PROVE  /\ \A p : Listed(o1, p) <=> Listed(out, p) \/ p = q[1][1]
           /\ Visited(s, o1, s1) /\ Distinct(o1)
<1>1. /\ Len(o1) = Len(out) + 1 /\ o1[Len(out) + 1] = q[1]
      /\ \A i \in 1 .. Len(out) : o1[i] = out[i]
    BY DEF IsVisit
<1>2. Len(out) \in Nat /\ Len(q) \in Nat
    BY Entries DEF IsSearch
<1>3. 1 \in 1 .. Len(q) /\ Len(out) + 1 \in 1 .. Len(o1)
    BY <1>1, <1>2, SMT
<1>4. \A i \in 1 .. Len(o1) : i \in 1 .. Len(out) \/ i = Len(out) + 1
    BY <1>1, <1>2, SMT
<1>5. \A i \in 1 .. Len(out) : i \in 1 .. Len(o1)
    BY <1>1, <1>2, SMT
<1>6. \A p : Listed(o1, p) <=> Listed(out, p) \/ p = q[1][1]
    BY <1>1, <1>3, <1>4, <1>5 DEF Listed
<1>7. ~Listed(out, q[1][1]) /\ AtDistance(s, q[1][1], q[1][2]) /\ q[1][1] \in seen
    BY <1>3 DEF IsSearch, Waiting
<1>8. seen \subseteq s1 /\ DOMAIN links[q[1][1]] \subseteq s1
    <2>1. /\ s1 = seen \cup {ws[i] : i \in 1 .. Len(ws)}
          /\ \A x \in DOMAIN links[q[1][1]] :
                x \notin seen => \E i \in 1 .. Len(ws) : ws[i] = x
        BY DEF IsVisit
    <2>2. ASSUME NEW x \in DOMAIN links[q[1][1]] PROVE x \in s1
        <3>1. CASE x \in seen
            BY <2>1, <3>1
        <3>2. CASE x \notin seen
            <4>1. PICK i \in 1 .. Len(ws) : ws[i] = x
                BY <2>1, <3>2
            <4> QED BY <2>1, <4>1
        <3> QED BY <3>1, <3>2
    <2> QED BY <2>1, <2>2
<1>9. Visited(s, o1, s1)
    <2>1. ASSUME NEW i \in 1 .. Len(o1)
          PROVE  /\ AtDistance(s, o1[i][1], o1[i][2]) /\ o1[i][2] < i
                 /\ o1[i][1] \in s1 /\ DOMAIN links[o1[i][1]] \subseteq s1
        <3>1. CASE i \in 1 .. Len(out)
            BY <1>1, <1>8, <3>1 DEF IsSearch, Visited
        <3>2. CASE i = Len(out) + 1
            <4>1. q[1][2] <= Len(out) /\ q[1][2] \in Nat
                BY <1>3, Entries DEF IsSearch, AtHead
            <4>2. q[1][2] < i
                BY <1>2, <3>2, <4>1, SMT
            <4> QED BY <1>1, <1>7, <1>8, <3>2, <4>2
        <3> QED BY <1>4, <3>1, <3>2
    <2> QED BY <2>1 DEF Visited
<1>10. Distinct(o1)
    <2>1. ASSUME NEW i \in 1 .. Len(o1), NEW j \in 1 .. Len(o1), i # j
          PROVE  o1[i][1] # o1[j][1]
        <3>1. CASE i \in 1 .. Len(out) /\ j \in 1 .. Len(out)
            BY <1>1, <2>1, <3>1 DEF IsSearch, Distinct
        <3>2. CASE i \in 1 .. Len(out) /\ j = Len(out) + 1
            BY <1>1, <1>7, <3>2 DEF Listed
        <3>3. CASE j \in 1 .. Len(out) /\ i = Len(out) + 1
            BY <1>1, <1>7, <3>3 DEF Listed
        <3> QED BY <1>4, <2>1, <3>1, <3>2, <3>3
    <2> QED BY <2>1 DEF Distinct
<1> QED BY <1>6, <1>9, <1>10

\* The work list after a visit holds who waited and who was found.
LEMMA VisitSeen ==
    ASSUME TypeOK, NEW s \in Peers, NEW out, NEW q, NEW seen, NEW ws \in Seq(Peers),
           NEW o1, NEW q1, NEW s1, IsSearch(s, out, q, seen), Len(q) # 0,
           IsVisit(out, q, seen, ws, o1, q1, s1)
    PROVE  /\ s1 \in SUBSET Peers /\ s \in s1
           /\ \A p \in s1 : Listed(o1, p) \/ Listed(q1, p)
<1>1. \A i \in 1 .. Len(ws) : ws[i] \in Peers
    BY SMT
<1>2. s1 = seen \cup {ws[i] : i \in 1 .. Len(ws)}
    BY DEF IsVisit
<1>3. s1 \in SUBSET Peers /\ s \in s1
    BY <1>1, <1>2 DEF IsSearch
<1>q. q \in Seq(Peers \X Nat)
    BY DEF IsSearch
<1>w. AllJoin(q, ws, q1)
    BY <1>q, WorkList
<1>o. \A p : Listed(o1, p) <=> Listed(out, p) \/ p = q[1][1]
    BY VisitOut, SMTT(30)
<1>4. ASSUME NEW p \in s1 PROVE Listed(o1, p) \/ Listed(q1, p)
    <2>1. CASE \E i \in 1 .. Len(ws) : ws[i] = p
        BY <1>w, <2>1 DEF Listed, AllJoin
    <2>2. CASE Listed(out, p)
        BY <1>o, <2>2
    <2>3. CASE Listed(q, p)
        <3>1. PICK i \in 1 .. Len(q) : q[i][1] = p
            BY <2>3 DEF Listed
        <3>2. CASE i = 1
            BY <1>o, <3>1, <3>2
        <3>3. CASE i # 1
            <4>1. \E j \in 1 .. Len(q1) : q1[j] = q[i]
                BY <1>w, <3>3 DEF AllJoin
            <4> QED BY <3>1, <4>1 DEF Listed
        <3> QED BY <3>2, <3>3
    <2> QED BY <1>2, <2>1, <2>2, <2>3 DEF IsSearch
<1> QED BY <1>3, <1>4

\* A neighbour of a peer at distance d who has not been seen, when everybody
\* within d has, is one hop further away.
LEMMA FoundDistance ==
    ASSUME TypeOK, NEW s \in Peers, NEW d \in Nat, NEW p \in Ball(s, d), NEW seen,
           Ball(s, d) \subseteq seen, NEW r \in DOMAIN links[p], r \notin seen
    PROVE  AtDistance(s, r, d + 1)
<1>1. r \in Ball(s, d + 1)
    BY BallSteps
<1>2. ASSUME NEW n \in Nat, n < d + 1 PROVE r \notin Ball(s, n)
    <2>1. n <= d
        BY <1>2, SMT
    <2> QED BY <2>1, BallGrows
<1> QED BY <1>1, <1>2 DEF AtDistance

\* An entry of the next work list: whose distance is d or one more.
IsEntry(e, s, d, o1, s1) ==
    /\ AtDistance(s, e[1], e[2]) /\ e[1] \in s1 /\ ~Listed(o1, e[1])
    /\ d <= e[2] /\ e[2] <= d + 1

LEMMA VisitEntries ==
    ASSUME TypeOK, NEW s \in Peers, NEW out, NEW q, NEW seen, NEW ws \in Seq(Peers),
           NEW o1, NEW q1, NEW s1, IsSearch(s, out, q, seen), Len(q) # 0,
           IsVisit(out, q, seen, ws, o1, q1, s1), NEW j \in 1 .. Len(q1)
    PROVE  IsEntry(q1[j], s, q[1][2], o1, s1)
<1>1. q \in Seq(Peers \X Nat)
    BY DEF IsSearch
<1>2. OldOrFound(q, ws, q1)
    BY <1>1, WorkList
<1>3. Len(q) \in Nat /\ \A i \in 1 .. Len(q) : q[i][1] \in Peers /\ q[i][2] \in Nat
    BY <1>1, Entries
<1>4. 1 \in 1 .. Len(q) /\ q[1][2] \in Nat
    <2>1. 1 \in 1 .. Len(q)
        BY <1>3, SMT
    <2> QED BY <1>3, <2>1
<1>5. /\ \A i \in 1 .. Len(q) : /\ AtDistance(s, q[i][1], q[i][2]) /\ q[i][1] \in seen
                                /\ ~Listed(out, q[i][1]) /\ q[i][2] <= q[1][2] + 1
      /\ Ball(s, q[1][2]) \subseteq seen
    BY DEF IsSearch, Waiting, AtHead
<1>6. \A p : Listed(o1, p) <=> Listed(out, p) \/ p = q[1][1]
    BY VisitOut, SMT
<1>7. s1 = seen \cup {ws[i] : i \in 1 .. Len(ws)}
    BY DEF IsVisit
<1>8. CASE j \in 1 .. Len(q) - 1 /\ j + 1 \in 1 .. Len(q) /\ j + 1 # 1 /\ q1[j] = q[j + 1]
    <2>1. 1 < j + 1
        BY <1>8, SMT
    <2>2. q[1][2] <= q[j + 1][2]
        BY <1>4, <1>8, <2>1 DEF IsSearch, Nearest
    <2>3. q[j + 1][1] # q[1][1]
        BY <1>4, <1>8 DEF IsSearch, Distinct
    <2> QED BY <1>5, <1>6, <1>7, <1>8, <2>2, <2>3 DEF IsEntry
<1>9. CASE \E i \in 1 .. Len(ws) : /\ j = i + (Len(q) - 1)
                                   /\ q1[j][1] = ws[i] /\ q1[j][2] = q[1][2] + 1
    <2>1. PICK i \in 1 .. Len(ws) : q1[j][1] = ws[i] /\ q1[j][2] = q[1][2] + 1
        BY <1>9
    <2>2. ws[i] \in DOMAIN links[q[1][1]] /\ ws[i] \notin seen
        BY DEF IsVisit
    <2>3. q[1][1] \in Ball(s, q[1][2])
        BY <1>4, <1>5 DEF AtDistance
    <2>4. AtDistance(s, ws[i], q[1][2] + 1)
        BY <1>4, <1>5, <2>2, <2>3, FoundDistance
    <2>5. ~Listed(out, ws[i]) /\ ws[i] # q[1][1]
        BY <1>4, <1>5, <2>2 DEF IsSearch, Visited, Listed
    <2>6. q[1][2] <= q[1][2] + 1 /\ q[1][2] + 1 <= q[1][2] + 1
        BY <1>4, SMT
    <2> QED BY <1>6, <1>7, <2>1, <2>4, <2>5, <2>6 DEF IsEntry
<1> QED BY <1>2, <1>8, <1>9 DEF OldOrFound

LEMMA VisitWaiting ==
    ASSUME TypeOK, NEW s \in Peers, NEW out, NEW q, NEW seen, NEW ws \in Seq(Peers),
           NEW o1, NEW q1 \in Seq(Peers \X Nat), NEW s1, IsSearch(s, out, q, seen),
           Len(q) # 0, IsVisit(out, q, seen, ws, o1, q1, s1)
    PROVE  Waiting(s, o1, q1, s1)
<1>1. \A j \in 1 .. Len(q1) : IsEntry(q1[j], s, q[1][2], o1, s1)
    BY VisitEntries, SMT
<1> SUFFICES ASSUME NEW j \in 1 .. Len(q1) PROVE q1[j][2] <= q1[1][2] + 1
    BY <1>1 DEF Waiting, IsEntry
<1>2. Len(q1) \in Nat /\ \A i \in 1 .. Len(q1) : q1[i][2] \in Nat
    BY Entries
<1>3. 1 \in 1 .. Len(q1)
    BY <1>2, SMT
<1>4. q1[1][2] \in Nat /\ q1[j][2] \in Nat
    BY <1>2, <1>3
<1>5. q[1][2] <= q1[1][2] /\ q1[j][2] <= q[1][2] + 1
    BY <1>1, <1>3 DEF IsEntry
<1>6. q[1][2] \in Nat
    <2>1. Len(q) \in Nat /\ \A i \in 1 .. Len(q) : q[i][2] \in Nat
        BY Entries DEF IsSearch
    <2>2. 1 \in 1 .. Len(q)
        BY <2>1, SMT
    <2> QED BY <2>1, <2>2
<1> QED BY <1>4, <1>5, <1>6, SMTT(30)

LEMMA VisitOrder ==
    ASSUME TypeOK, NEW s \in Peers, NEW out, NEW q, NEW seen, NEW ws \in Seq(Peers),
           NEW o1, NEW q1 \in Seq(Peers \X Nat), NEW s1, IsSearch(s, out, q, seen),
           Len(q) # 0, IsVisit(out, q, seen, ws, o1, q1, s1)
    PROVE  Distinct(q1) /\ Nearest(q1)
<1> DEFINE Old(j) == /\ j \in 1 .. Len(q) - 1 /\ j + 1 \in 1 .. Len(q) /\ j + 1 # 1
                     /\ q1[j] = q[j + 1]
           Found(j) == \E i \in 1 .. Len(ws) :
                           /\ j = i + (Len(q) - 1)
                           /\ q1[j][1] = ws[i] /\ q1[j][2] = q[1][2] + 1
<1>1. q \in Seq(Peers \X Nat) /\ Distinct(q) /\ Nearest(q)
    BY DEF IsSearch
<1>2. ASSUME NEW j \in 1 .. Len(q1) PROVE Old(j) \/ Found(j)
    <2>1. OldOrFound(q, ws, q1)
        BY <1>1, WorkList
    <2> QED BY <2>1 DEF OldOrFound
<1>3. Len(q) \in Nat /\ Len(q1) \in Nat /\ \A i \in 1 .. Len(q1) : q1[i][2] \in Nat
    BY <1>1, Entries
<1>4. /\ \A i, j \in 1 .. Len(ws) : i # j => ws[i] # ws[j]
      /\ \A i \in 1 .. Len(ws) : ws[i] \notin seen
    BY DEF IsVisit
<1>5. \A i \in 1 .. Len(q) : q[i][1] \in seen
    BY DEF IsSearch, Waiting
<1>6. ASSUME NEW j \in 1 .. Len(q1), NEW k \in 1 .. Len(q1), j # k
      PROVE  q1[j][1] # q1[k][1]
    <2>1. CASE Old(j) /\ Old(k)
        <3>1. j + 1 # k + 1
            BY <1>6, SMT
        <3> QED BY <1>1, <2>1, <3>1 DEF Distinct
    <2>2. CASE Old(j) /\ Found(k)
        BY <1>4, <1>5, <2>2
    <2>3. CASE Found(j) /\ Old(k)
        BY <1>4, <1>5, <2>3
    <2>4. CASE Found(j) /\ Found(k)
        BY <1>4, <1>6, <2>4
    <2> QED BY <1>2, <2>1, <2>2, <2>3, <2>4
<1>7. ASSUME NEW j \in 1 .. Len(q1), NEW k \in 1 .. Len(q1), j < k
      PROVE  q1[j][2] <= q1[k][2]
    <2>1. CASE Old(j) /\ Old(k)
        <3>1. j + 1 < k + 1
            BY <1>7, SMT
        <3> QED BY <1>1, <2>1, <3>1 DEF Nearest
    <2>2. CASE Old(j) /\ Found(k)
        BY <2>2 DEF IsSearch, Waiting
    <2>3. CASE Found(j) /\ Old(k)
        <3>1. PICK i \in 1 .. Len(ws) : j = i + (Len(q) - 1)
            BY <2>3
        <3>2. k \in 1 .. Len(q) - 1
            BY <2>3
        <3> HIDE DEF Old, Found
        <3> QED BY <1>3, <1>7, <3>1, <3>2, SMT
    <2>4. CASE Found(j) /\ Found(k)
        <3>1. q1[j][2] = q1[k][2]
            BY <2>4
        <3>2. q1[j][2] \in Nat
            BY <1>3
        <3> HIDE DEF Old, Found
        <3> QED BY <3>1, <3>2, SMT
    <2> QED BY <1>2, <2>1, <2>2, <2>3, <2>4
<1> QED BY <1>6, <1>7 DEF Distinct, Nearest

\* When the visits get to the next distance, everybody within it has been seen:
\* whoever is nearer has been visited.
LEMMA VisitHead ==
    ASSUME TypeOK, NEW s \in Peers, NEW out, NEW q, NEW seen, NEW ws \in Seq(Peers),
           NEW o1, NEW q1 \in Seq(Peers \X Nat), NEW s1, IsSearch(s, out, q, seen),
           Len(q) # 0, IsVisit(out, q, seen, ws, o1, q1, s1)
    PROVE  AtHead(s, o1, q1, s1)
<1> SUFFICES ASSUME Len(q1) # 0
             PROVE  q1[1][2] <= Len(o1) /\ Ball(s, q1[1][2]) \subseteq s1
    BY DEF AtHead
<1>1. /\ out \in Seq(Peers \X Nat) /\ q \in Seq(Peers \X Nat)
      /\ q[1][2] <= Len(out) /\ Ball(s, q[1][2]) \subseteq seen
    BY DEF IsSearch, AtHead
<1>2. /\ Len(out) \in Nat /\ Len(q) \in Nat /\ Len(q1) \in Nat
      /\ \A i \in 1 .. Len(q) : q[i][2] \in Nat
      /\ \A i \in 1 .. Len(q1) : q1[i][2] \in Nat
    BY <1>1, Entries
<1>3. 1 \in 1 .. Len(q) /\ 1 \in 1 .. Len(q1)
    BY <1>2, SMT
<1>4. PICK d \in Nat, e \in Nat : d = q[1][2] /\ e = q1[1][2]
    BY <1>2, <1>3
<1>5. \A j \in 1 .. Len(q1) : IsEntry(q1[j], s, d, o1, s1)
    BY <1>4, VisitEntries, SMT
<1>6. d <= e /\ e <= d + 1 /\ d <= Len(out)
    BY <1>1, <1>3, <1>4, <1>5 DEF IsEntry
<1>7. Len(o1) = Len(out) + 1 /\ seen \subseteq s1
    BY DEF IsVisit
<1>8. e <= Len(o1)
    BY <1>2, <1>6, <1>7, SMT
<1>9. CASE e = d
    BY <1>1, <1>4, <1>7, <1>8, <1>9
<1>10. CASE e = d + 1
    <2>1. ASSUME NEW p \in Ball(s, d) PROVE Listed(o1, p)
        <3>1. p \in s1
            BY <1>1, <1>4, <1>7
        <3>2. ASSUME NEW j \in 1 .. Len(q1) PROVE q1[j][1] # p
            <4>1. e <= q1[j][2]
                <5>1. CASE j = 1
                    BY <1>4, <5>1, SMT
                <5>2. CASE j # 1
                    <6>1. 1 < j
                        BY <5>2, SMT
                    <6>2. Nearest(q1)
                        BY VisitOrder
                    <6> QED BY <1>3, <1>4, <6>1, <6>2 DEF Nearest
                <5> QED BY <5>1, <5>2
            <4>2. q1[j][2] \in Nat
                BY <1>2
            <4>3. d < q1[j][2]
                BY <1>10, <4>1, <4>2, SMT
            <4> QED BY <1>5, <4>3 DEF IsEntry, AtDistance
        <3>3. ~Listed(q1, p)
            BY <3>2 DEF Listed
        <3>4. \A r \in s1 : Listed(o1, r) \/ Listed(q1, r)
            BY VisitSeen, SMT
        <3> QED BY <3>1, <3>3, <3>4
    <2>2. ASSUME NEW p \in Ball(s, d) PROVE DOMAIN links[p] \subseteq s1
        <3>1. Visited(s, o1, s1)
            BY VisitOut
        <3> QED BY <2>1, <3>1 DEF Listed, Visited
    <2>3. Ball(s, d + 1) \subseteq s1
        BY <1>1, <1>4, <1>7, <2>2, BallSteps
    <2> QED BY <1>4, <1>8, <1>10, <2>3
<1>11. e = d \/ e = d + 1
    BY <1>6, SMT
<1> QED BY <1>9, <1>10, <1>11

\* The sequences a visit makes.
LEMMA PeersOfListing ==
    ASSUME NEW S \in SUBSET Peers, NEW ws \in Seq(S)
    PROVE  /\ ws \in Seq(Peers) /\ DOMAIN ws = 1 .. Len(ws) /\ Len(ws) \in Nat
           /\ \A i \in 1 .. Len(ws) : ws[i] \in S
<1>1. /\ DOMAIN ws = 1 .. Len(ws) /\ Len(ws) \in Nat
      /\ \A i \in 1 .. Len(ws) : ws[i] \in S
    BY SMT
<1>2. ws = [i \in 1 .. Len(ws) |-> ws[i]]
    BY SMT
<1>3. ws \in [1 .. Len(ws) -> Peers]
    BY <1>1, <1>2
<1>4. ws \in Seq(Peers)
    BY <1>1, <1>3, SMT
<1> QED BY <1>1, <1>4

AreFound(nb, ws, d) ==
    /\ nb \in Seq(Peers \X Nat) /\ Len(nb) = Len(ws)
    /\ \A i \in 1 .. Len(ws) : nb[i] = <<ws[i], d + 1>>

LEMMA FoundEntries ==
    ASSUME NEW ws \in Seq(Peers), NEW d \in Nat
    PROVE  AreFound([i \in 1 .. Len(ws) |-> <<ws[i], d + 1>>], ws, d)
<1>0. PICK nb : nb = [i \in 1 .. Len(ws) |-> <<ws[i], d + 1>>]
    OBVIOUS
<1>1. Len(ws) \in Nat /\ \A i \in 1 .. Len(ws) : <<ws[i], d + 1>> \in Peers \X Nat
    BY SMT
<1>2. nb \in [1 .. Len(ws) -> Peers \X Nat]
    BY <1>0, <1>1
<1>3. nb \in Seq(Peers \X Nat) /\ Len(nb) = Len(ws)
    BY <1>1, <1>2, SMT
<1> QED BY <1>0, <1>3 DEF AreFound

IsJoin(u, a, b) ==
    /\ u \in Seq(Peers \X Nat) /\ Len(u) = Len(a) + Len(b)
    /\ \A i \in 1 .. Len(a) : u[i] = a[i]
    /\ \A i \in 1 .. Len(b) : u[i + Len(a)] = b[i]

LEMMA JoinedEntries ==
    ASSUME NEW a \in Seq(Peers \X Nat), NEW b \in Seq(Peers \X Nat)
    PROVE  IsJoin(a \o b, a, b)
<1>1. PICK u : u = a \o b
    OBVIOUS
<1>2. /\ u \in Seq(Peers \X Nat) /\ Len(u) = Len(a) + Len(b)
      /\ \A i \in 1 .. Len(a) : u[i] = a[i]
      /\ \A i \in 1 .. Len(b) : u[i + Len(a)] = b[i]
    BY <1>1, Joined, SMT
<1> QED BY <1>1, <1>2 DEF IsJoin

\* A visit, as the model states it, of the values of the search's fields.
VisitMakes(out, q, seen, ws, o1, q1, s1) ==
    /\ ws = InSomeOrder(DOMAIN links[Head(q)[1]] \ seen)
    /\ o1 = Append(out, Head(q))
    /\ q1 = Tail(q) \o [i \in DOMAIN ws |-> <<ws[i], Head(q)[2] + 1>>]
    /\ s1 = seen \cup Range(ws)

LEMMA VisitByPosition ==
    ASSUME TypeOK, NEW out \in Seq(Peers \X Nat), NEW q \in Seq(Peers \X Nat),
           NEW seen \in SUBSET Peers, Len(q) # 0, NEW ws, NEW o1, NEW q1, NEW s1,
           VisitMakes(out, q, seen, ws, o1, q1, s1)
    PROVE  /\ ws \in Seq(Peers) /\ o1 \in Seq(Peers \X Nat) /\ q1 \in Seq(Peers \X Nat)
           /\ IsVisit(out, q, seen, ws, o1, q1, s1)
<1>1. /\ Len(out) \in Nat /\ Len(q) \in Nat /\ 1 \in 1 .. Len(q)
      /\ Head(q) = q[1] /\ q[1] \in Peers \X Nat /\ q[1][1] \in Peers /\ q[1][2] \in Nat
    BY SMT
<1>2. IsFiniteSet(DOMAIN links[q[1][1]] \ seen) /\ DOMAIN links[q[1][1]] \in SUBSET Peers
    BY <1>1, PeersAssumption, Neighbours, FS_Subset
<1>3. PICK S : S = DOMAIN links[q[1][1]] \ seen
    OBVIOUS
<1>4. /\ ws \in Seq(S)
      /\ \A i, j \in 1 .. Len(ws) : i # j => ws[i] # ws[j]
      /\ \A x \in S : \E i \in 1 .. Len(ws) : ws[i] = x
    <2>1. ws = InSomeOrder(S) /\ IsFiniteSet(S)
        BY <1>1, <1>2, <1>3 DEF VisitMakes
    <2>2. IsListing(ws, S)
        BY <2>1, Enumerated
    <2> QED BY <2>2 DEF IsListing
<1>5. S \in SUBSET Peers
    BY <1>2, <1>3
<1>6. /\ ws \in Seq(Peers) /\ DOMAIN ws = 1 .. Len(ws) /\ Len(ws) \in Nat
      /\ \A i \in 1 .. Len(ws) : ws[i] \in S
    BY <1>4, <1>5, PeersOfListing
<1>7. /\ o1 \in Seq(Peers \X Nat) /\ Len(o1) = Len(out) + 1 /\ o1[Len(out) + 1] = q[1]
      /\ \A i \in 1 .. Len(out) : o1[i] = out[i]
    <2>1. o1 = Append(out, q[1])
        BY <1>1 DEF VisitMakes
    <2> QED BY <1>1, <2>1, SMT
<1>8. PICK nb : nb = [i \in 1 .. Len(ws) |-> <<ws[i], q[1][2] + 1>>]
    OBVIOUS
<1>9. AreFound(nb, ws, q[1][2])
    BY <1>1, <1>6, <1>8, FoundEntries
<1>10. PICK tl : tl = Tail(q)
    OBVIOUS
<1>11. /\ tl \in Seq(Peers \X Nat) /\ Len(tl) = Len(q) - 1
       /\ \A i \in 1 .. Len(q) - 1 : tl[i] = q[i + 1]
    BY <1>1, <1>10, SMT
<1>12. q1 = tl \o nb
    BY <1>1, <1>6, <1>8, <1>10 DEF VisitMakes
<1>13. /\ q1 \in Seq(Peers \X Nat) /\ Len(q1) = Len(tl) + Len(nb)
       /\ \A i \in 1 .. Len(tl) : q1[i] = tl[i]
       /\ \A i \in 1 .. Len(nb) : q1[i + Len(tl)] = nb[i]
    <2>1. IsJoin(q1, tl, nb)
        BY <1>9, <1>11, <1>12, JoinedEntries DEF AreFound
    <2> QED BY <2>1 DEF IsJoin
<1>14. /\ Len(q1) = (Len(q) - 1) + Len(ws)
       /\ \A i \in 1 .. Len(q) - 1 : q1[i] = q[i + 1]
       /\ \A i \in 1 .. Len(ws) : q1[i + (Len(q) - 1)] = <<ws[i], q[1][2] + 1>>
    BY <1>9, <1>11, <1>13 DEF AreFound
<1>15. /\ \A i \in 1 .. Len(ws) : ws[i] \in DOMAIN links[q[1][1]] /\ ws[i] \notin seen
       /\ \A x \in DOMAIN links[q[1][1]] : x \notin seen => \E i \in 1 .. Len(ws) : ws[i] = x
    BY <1>3, <1>4, <1>6
<1>16. s1 = seen \cup {ws[i] : i \in 1 .. Len(ws)}
    BY <1>6 DEF VisitMakes, Range
<1> QED BY <1>4, <1>6, <1>7, <1>13, <1>14, <1>15, <1>16 DEF IsVisit

LEMMA VisitSearch ==
    ASSUME TypeOK, NEW s \in Peers, NEW w \in Searches, w.q # <<>>,
           IsSearch(s, w.out, w.q, w.seen)
    PROVE  /\ Visit(w) \in Searches /\ Len(Visit(w).out) = Len(w.out) + 1
           /\ IsSearch(s, Visit(w).out, Visit(w).q, Visit(w).seen)
<1>1. PICK out, q, seen : out = w.out /\ q = w.q /\ seen = w.seen
    OBVIOUS
<1>2. out \in Seq(Peers \X Nat) /\ q \in Seq(Peers \X Nat) /\ seen \in SUBSET Peers
    BY <1>1 DEF IsSearch
<1>3. PICK ws : ws = InSomeOrder(DOMAIN links[Head(q)[1]] \ seen)
    OBVIOUS
<1>4. PICK o1, q1, s1 : VisitMakes(out, q, seen, ws, o1, q1, s1)
    BY <1>3 DEF VisitMakes
<1>5. Visit(w) = [q |-> q1, seen |-> s1, out |-> o1]
    BY <1>1, <1>4 DEF Visit, VisitMakes
<1>6. PICK u : u = Visit(w)
    OBVIOUS
<1>7. u.q = q1 /\ u.seen = s1 /\ u.out = o1
    BY <1>5, <1>6, SMT
<1>8. Len(q) # 0
    BY <1>1, <1>2, SMT
<1>9. /\ ws \in Seq(Peers) /\ o1 \in Seq(Peers \X Nat) /\ q1 \in Seq(Peers \X Nat)
      /\ IsVisit(out, q, seen, ws, o1, q1, s1)
    BY <1>2, <1>4, <1>8, VisitByPosition
<1>10. IsSearch(s, out, q, seen)
    BY <1>1
<1>11. s1 \in SUBSET Peers /\ s \in s1 /\ \A p \in s1 : Listed(o1, p) \/ Listed(q1, p)
    BY <1>8, <1>9, <1>10, VisitSeen, SMT
<1>12. Visited(s, o1, s1) /\ Distinct(o1)
    BY <1>8, <1>9, <1>10, VisitOut
<1>13. Waiting(s, o1, q1, s1)
    BY <1>8, <1>9, <1>10, VisitWaiting
<1>14. Distinct(q1) /\ Nearest(q1)
    BY <1>8, <1>9, <1>10, VisitOrder
<1>15. AtHead(s, o1, q1, s1)
    BY <1>8, <1>9, <1>10, VisitHead
<1>16. IsSearch(s, o1, q1, s1)
    BY <1>9, <1>11, <1>12, <1>13, <1>14, <1>15 DEF IsSearch
<1>17. Visit(w) \in Searches
    BY <1>5, <1>9, <1>11, SMT DEF Searches
<1>18. Len(o1) = Len(out) + 1
    BY <1>9 DEF IsVisit
<1> QED BY <1>1, <1>6, <1>7, <1>16, <1>17, <1>18

\* The state of the loop of bfs, which has visited as many peers as it went
\* round unless the work list ran out.
InLoop(s, w, n) ==
    /\ w \in Searches /\ IsSearch(s, w.out, w.q, w.seen)
    /\ Len(w.out) = n \/ w.q = <<>>

LEMMA LoopInv ==
    ASSUME TypeOK, NEW s \in Peers
    PROVE  \A n \in Nat :
               \E w : InLoop(s, w, n) /\ (n = Cardinality(Peers) + 1 => bfs(s) = w.out)
<1> DEFINE loop == [w \in Searches |-> IF w.q = <<>> THEN w ELSE Visit(w)]
           w0 == [q |-> <<<<s, 0>>>>, seen |-> {s}, out |-> <<>>]
           W(n) == Iterate(loop, w0, n)
           P == {n \in Nat : InLoop(s, W(n), n)}
<1>1. bfs(s) = W(Cardinality(Peers) + 1).out
    BY DEF bfs
<1>2. /\ \A w \in Searches : w.q = <<>> => loop[w] = w
      /\ \A w \in Searches : w.q # <<>> => loop[w] = Visit(w)
    OBVIOUS
<1>3. InLoop(s, w0, 0)
    <2>1. PICK q : q = <<<<s, 0>>>>
        OBVIOUS
    <2>2. PICK w : w = [q |-> q, seen |-> {s}, out |-> <<>>]
        OBVIOUS
    <2>3. w.q = q /\ w.seen = {s} /\ w.out = <<>> /\ Len(<<>>) = 0
        BY <2>2, SMT
    <2>4. IsSearch(s, <<>>, q, {s})
        BY <2>1, SearchBegins
    <2>5. w \in Searches
        BY <2>2, <2>4 DEF IsSearch, Searches
    <2>6. InLoop(s, w, 0)
        BY <2>3, <2>4, <2>5 DEF InLoop
    <2> QED BY <2>1, <2>2, <2>6
<1> HIDE DEF loop, w0
<1>4. W(0) = w0 /\ \A n \in Nat : W(n + 1) = loop[W(n)]
    BY Iterated
<1>5. 0 \in P
    <2>1. 0 \in Nat
        BY SMT
    <2> QED BY <1>3, <1>4, <2>1
<1>6. ASSUME NEW n \in Nat, n \in P PROVE n + 1 \in P
    <2>1. PICK w : w = W(n)
        OBVIOUS
    <2>2. InLoop(s, w, n) /\ W(n + 1) = loop[w]
        BY <1>4, <1>6, <2>1
    <2>3. n + 1 \in Nat
        BY SMT
    <2>4. CASE w.q = <<>>
        <3>1. loop[w] = w
            BY <1>2, <2>2, <2>4 DEF InLoop
        <3>2. InLoop(s, w, n + 1)
            BY <2>2, <2>4 DEF InLoop
        <3> QED BY <2>2, <2>3, <3>1, <3>2
    <2>5. CASE w.q # <<>>
        <3>1. loop[w] = Visit(w)
            BY <1>2, <2>2, <2>5 DEF InLoop
        <3>2. w \in Searches /\ IsSearch(s, w.out, w.q, w.seen) /\ Len(w.out) = n
            BY <2>2, <2>5 DEF InLoop
        <3>3. /\ Visit(w) \in Searches /\ Len(Visit(w).out) = Len(w.out) + 1
              /\ IsSearch(s, Visit(w).out, Visit(w).q, Visit(w).seen)
            BY <2>5, <3>2, VisitSearch
        <3>4. InLoop(s, Visit(w), n + 1)
            BY <3>2, <3>3 DEF InLoop
        <3> QED BY <2>2, <2>3, <3>1, <3>4
    <2> QED BY <2>4, <2>5
<1> HIDE DEF P
<1>7. \A n \in Nat : n \in P
    BY <1>5, <1>6, Induction
<1> QED BY <1>1, <1>7 DEF P

\* There are not as many visits as rounds, so that the work list is empty.
LEMMA WorkListEmpty ==
    ASSUME TypeOK, NEW s \in Peers, NEW w, InLoop(s, w, Cardinality(Peers) + 1)
    PROVE  Len(w.q) = 0 /\ Cardinality(Peers) \in Nat /\ Len(w.out) <= Cardinality(Peers)
<1>1. PICK out, q : out = w.out /\ q = w.q
    OBVIOUS
<1>2. out \in Seq(Peers \X Nat) /\ Distinct(out)
    BY <1>1 DEF InLoop, IsSearch
<1>3. /\ Cardinality(Peers) \in Nat /\ Len(out) \in Nat
      /\ Len(out) <= Cardinality(Peers)
    BY <1>2, EntriesBounded, Entries
<1>4. Len(out) # Cardinality(Peers) + 1
    BY <1>3, SMT
<1>5. q = <<>>
    BY <1>1, <1>4 DEF InLoop
<1>6. Len(q) = 0
    BY <1>5, SMT
<1> QED BY <1>1, <1>3, <1>6

\* Then everybody who can be reached has been visited.
LEMMA SeenClosed ==
    ASSUME TypeOK, NEW s \in Peers, NEW out, NEW q, NEW seen,
           IsSearch(s, out, q, seen), Len(q) = 0
    PROVE  \A n \in Nat : Ball(s, n) \subseteq seen
<1>1. \A p \in seen : \E i \in 1 .. Len(out) : out[i][1] = p
    <2>1. 1 .. 0 = {}
        BY SMT
    <2> QED BY <2>1 DEF IsSearch, Listed
<1>2. \A p \in seen : DOMAIN links[p] \subseteq seen
    BY <1>1 DEF IsSearch, Visited
<1> DEFINE P == {n \in Nat : Ball(s, n) \subseteq seen}
<1>3. 0 \in P
    <2>1. 0 \in Nat
        BY SMT
    <2>2. Ball(s, 0) = {s} /\ s \in seen
        BY BallSteps DEF IsSearch
    <2> QED BY <2>1, <2>2
<1>4. ASSUME NEW n \in Nat, n \in P PROVE n + 1 \in P
    <2>1. n + 1 \in Nat
        BY SMT
    <2> QED BY <1>2, <1>4, <2>1, BallSteps
<1> HIDE DEF P
<1>5. \A n \in Nat : n \in P
    BY <1>3, <1>4, Induction
<1> QED BY <1>5 DEF P

\* bfs, for any links at all.
LEMMA BfsIsShortest == ASSUME TypeOK PROVE BfsShortest
<1> SUFFICES ASSUME NEW s \in Peers, NEW out, out = bfs(s)
             PROVE  /\ {out[i][1] : i \in DOMAIN out} = Ball(s, Cardinality(Peers))
                    /\ \A i, j \in DOMAIN out : i # j => out[i][1] # out[j][1]
                    /\ \A i \in DOMAIN out : \A n \in 0 .. Cardinality(Peers) :
                          out[i][1] \in Ball(s, n) <=> out[i][2] <= n
    BY DEF BfsShortest
<1>1. PICK c : c = Cardinality(Peers)
    OBVIOUS
<1>2. c \in Nat
    BY <1>1, PeersAssumption, FS_CardinalityType
<1>3. PICK w : InLoop(s, w, c + 1) /\ out = w.out
    <2>1. c + 1 \in Nat
        BY <1>2, SMT
    <2> QED BY <1>1, <2>1, LoopInv
<1>4. PICK q, seen : q = w.q /\ seen = w.seen
    OBVIOUS
<1>5. IsSearch(s, out, q, seen) /\ Len(q) = 0 /\ Len(out) <= c
    BY <1>1, <1>3, <1>4, WorkListEmpty DEF InLoop
<1>6. out \in Seq(Peers \X Nat) /\ seen \in SUBSET Peers
    BY <1>5 DEF IsSearch
<1>7. /\ Len(out) \in Nat /\ DOMAIN out = 1 .. Len(out)
      /\ \A i \in 1 .. Len(out) : out[i][1] \in Peers /\ out[i][2] \in Nat
    <2>1. DOMAIN out = 1 .. Len(out)
        BY <1>6, SMT
    <2> QED BY <1>6, <2>1, Entries
<1>8. \A i \in 1 .. Len(out) : AtDistance(s, out[i][1], out[i][2]) /\ out[i][2] < i
    BY <1>5 DEF IsSearch, Visited
<1>9. ASSUME NEW i \in 1 .. Len(out), NEW n \in Nat
      PROVE  out[i][1] \in Ball(s, n) <=> out[i][2] <= n
    <2>1. out[i][2] \in Nat
        BY <1>7
    <2>2. CASE out[i][2] <= n
        <3>1. Ball(s, out[i][2]) \subseteq Ball(s, n)
            BY <2>1, <2>2, BallGrows
        <3> QED BY <1>8, <2>2, <3>1 DEF AtDistance
    <2>3. CASE n < out[i][2]
        <3>1. ~(out[i][2] <= n)
            BY <2>1, <2>3, SMT
        <3> QED BY <1>8, <2>3, <3>1 DEF AtDistance
    <2>4. out[i][2] <= n \/ n < out[i][2]
        BY <2>1, SMT
    <2> QED BY <2>2, <2>3, <2>4
<1>10. ASSUME NEW i \in 1 .. Len(out) PROVE out[i][1] \in Ball(s, c)
    <2>1. out[i][2] \in Nat /\ out[i][2] < i
        BY <1>7, <1>8
    <2>2. out[i][2] <= c
        BY <1>2, <1>5, <1>7, <2>1, SMT
    <2> QED BY <1>2, <1>9, <2>2
<1>11. ASSUME NEW p \in Ball(s, c) PROVE \E i \in 1 .. Len(out) : out[i][1] = p
    <2>1. p \in seen
        BY <1>2, <1>5, SeenClosed
    <2>2. ~Listed(q, p)
        <3>1. 1 .. 0 = {}
            BY SMT
        <3> QED BY <1>5, <3>1 DEF Listed
    <2> QED BY <1>5, <2>1, <2>2 DEF IsSearch, Listed
<1>12. {out[i][1] : i \in 1 .. Len(out)} = Ball(s, c)
    BY <1>10, <1>11
<1>13. \A i, j \in 1 .. Len(out) : i # j => out[i][1] # out[j][1]
    BY <1>5 DEF IsSearch, Distinct
<1>14. \A n \in 0 .. c : n \in Nat
    BY <1>2, SMT
<1> QED BY <1>1, <1>7, <1>9, <1>12, <1>13, <1>14

\* Whatever links have been made and broken, bfs calls the function once with
\* every peer that can be reached from the start, and with the number of hops
\* on the shortest way there (BasicNetwork::bfs).
THEOREM BfsShortestThm == Spec => []BfsShortest
<1>1. IInv => BfsShortest
    BY BfsIsShortest DEF IInv
<1> QED BY <1>1, Invariance, PTL
=============================================================================
