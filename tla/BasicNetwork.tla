---------------------------- MODULE BasicNetwork ----------------------------
(***************************************************************************)
(* The network simulator of the test framework (test/jtx/BasicNetwork.h):  *)
(* links between peers, one queue of messages and timers ordered by time,  *)
(* and the step functions, which deliver them.  A message is delivered by  *)
(* running its handler, which may itself connect, disconnect, send, and    *)
(* set and cancel timers; the message leaves the queue when it returns.    *)
(*                                                                         *)
(* The lists by_to_ and by_from_ index the messages of the queue and are   *)
(* not kept apart from it.                                                 *)
(***************************************************************************)
EXTENDS Integers, Sequences, FiniteSets, Functions

CONSTANTS
    Peers,
    None,          \* no peer (of a timer), and no message
    Delays,        \* delays of links and timers
    MaxTime,       \* bound: time to which the network is run
    MaxSerial,     \* bound: connects, sends and timers
    MaxQueue       \* bound: messages in the queue

ASSUME DelaysAssumption == Delays \subseteq Nat
ASSUME PeersAssumption == IsFiniteSet(Peers) /\ None \notin Peers
ASSUME BoundsAssumption == MaxTime \in Nat /\ MaxSerial \in Nat /\ MaxQueue \in Nat

VARIABLES
    now,
    links,         \* of each peer: a function from the peers it is linked to
    queue,
    mode,          \* the step function being run, or "idle"
    until,         \* the argument of step_until
    running,       \* the message whose handler runs
    serial,        \* history: number of the last connect, send or timer
    own,           \* history: the handler has broken its message's own link
    corrupt        \* a message was erased that is not in the queue

net == <<now, links, queue>>
stepping == <<mode, until, running, own>>
vars == <<net, stepping, serial, corrupt>>

Messages == [from : Peers \cup {None}, to : Peers \cup {None}, when : Nat, no : Nat]
Ends == [inbound : BOOLEAN, delay : Delays, no : Nat]

ASSUME NoneAssumption == None \notin Messages

Init ==
    /\ now = 0 /\ links = [p \in Peers |-> [q \in {} |-> None]] /\ queue = <<>>
    /\ mode = "idle" /\ until = 0 /\ running = None /\ own = FALSE
    /\ serial = 0 /\ corrupt = FALSE

\* The network is used between two steps, and by the handlers during one.
Usable == ~corrupt /\ (mode = "idle" \/ running # None)
Numbered == serial < MaxSerial /\ serial' = serial + 1

-----------------------------------------------------------------------------
(* queue_type *)

InsertBehind(s, i, e) == SubSeq(s, 1, i) \o <<e>> \o SubSeq(s, i + 1, Len(s))
EraseAt(s, i) == SubSeq(s, 1, i - 1) \o SubSeq(s, i + 1, Len(s))

\* Mutant: a message is put before those of the same time.
emplace_First(m) ==
    \E i \in 0 .. Len(queue) :
        /\ \A j \in 1 .. i : queue[j].when < m.when
        /\ \A j \in i + 1 .. Len(queue) : queue[j].when >= m.when
        /\ queue' = InsertBehind(queue, i, m)

\* A multiset inserts behind the elements of equal order.
emplace(m) ==
    \E i \in 0 .. Len(queue) :
        /\ \A j \in 1 .. i : queue[j].when <= m.when
        /\ \A j \in i + 1 .. Len(queue) : queue[j].when > m.when
        /\ queue' = InsertBehind(queue, i, m)

erase(m) == \E i \in DOMAIN queue : queue[i] = m /\ queue' = EraseAt(queue, i)

\* The messages at the positions kept stay, in their order.
Keep(kept) ==
    \E f \in [1 .. Cardinality(kept) -> kept] :
        /\ Range(f) = kept /\ \A i, j \in DOMAIN f : i < j => f[i] < f[j]
        /\ queue' = [i \in DOMAIN f |-> queue[f[i]]]

Between(m, p, q) == <<m.from, m.to>> \in {<<p, q>>, <<q, p>>}

\* Mutant: messages in the other direction stay.
remove_OneWay(p, q) == Keep({i \in DOMAIN queue : <<queue[i].from, queue[i].to>> # <<p, q>>})

\* Mutant: the sender of a message is not compared.
remove_AnySender(p, q) == Keep({i \in DOMAIN queue : queue[i].to \notin {p, q}})

remove(p, q) == Keep({i \in DOMAIN queue : ~Between(queue[i], p, q)})

-----------------------------------------------------------------------------
(* Links, messages and timers *)

\* A link that is already there, or to oneself, is refused.
CanConnect(p, q) == p # q /\ q \notin DOMAIN links[p]
With(f, q, e) == [x \in DOMAIN f \cup {q} |-> IF x = q THEN e ELSE f[x]]
Without(f, q) == [x \in DOMAIN f \ {q} |-> f[x]]

connect(p, q, d) ==
    /\ Usable /\ CanConnect(p, q) /\ Numbered
    /\ links' = [links EXCEPT
           ![p] = With(@, q, [inbound |-> FALSE, delay |-> d, no |-> serial']),
           ![q] = With(@, p, [inbound |-> TRUE, delay |-> d, no |-> serial'])]
    /\ UNCHANGED <<now, queue, stepping, corrupt>>

disconnect(p, q) ==
    /\ Usable /\ q \in DOMAIN links[p]
    /\ links' = [links EXCEPT ![p] = Without(@, q), ![q] = Without(@, p)]
    /\ remove(p, q)
    /\ own' = (own \/ (running # None /\ Between(running, p, q)))
    /\ UNCHANGED <<now, mode, until, running, serial, corrupt>>

send(p, q) ==
    /\ Usable /\ q \in DOMAIN links[p] /\ Numbered /\ Len(queue) < MaxQueue
    /\ emplace([from |-> p, to |-> q, when |-> now + links[p][q].delay, no |-> serial'])
    /\ UNCHANGED <<now, links, stepping, corrupt>>

\* The overload that takes a delay calls this one with now + delay.  A time
\* that has passed would make step_one set the steady clock back.
timer(when) ==
    /\ Usable /\ Numbered /\ Len(queue) < MaxQueue /\ when >= now
    /\ emplace([from |-> None, to |-> None, when |-> when, no |-> serial'])
    /\ UNCHANGED <<now, links, stepping, corrupt>>

\* A timer may be cancelled until it is invoked.
cancel(m) ==
    /\ Usable /\ m \in Range(queue) /\ m # running /\ m.to = None
    /\ erase(m)
    /\ UNCHANGED <<now, links, stepping, serial, corrupt>>

-----------------------------------------------------------------------------
(* Steps *)

Due(q, t) == q # <<>> /\ Head(q).when <= t

\* The clock is set and the handler of the first message in q called.
Invoke(q) == running' = Head(q) /\ now' = Head(q).when /\ own' = FALSE

step_one ==
    /\ ~corrupt /\ mode = "idle" /\ queue # <<>>
    /\ mode' = "one" /\ Invoke(queue)
    /\ UNCHANGED <<links, queue, until, serial, corrupt>>

step ==
    /\ ~corrupt /\ mode = "idle" /\ queue # <<>>
    /\ mode' = "all" /\ Invoke(queue)
    /\ UNCHANGED <<links, queue, until, serial, corrupt>>

step_until(t) ==
    /\ ~corrupt /\ mode = "idle" /\ t >= now
    /\ IF Due(queue, t)
       THEN mode' = "until" /\ until' = t /\ Invoke(queue)
       ELSE now' = t /\ UNCHANGED stepping
    /\ UNCHANGED <<links, queue, serial, corrupt>>

\* Mutant: step_until delivers one message.
GoesOn_Once(q) == mode = "all" /\ q # <<>>

GoesOn(q) == (mode = "all" /\ q # <<>>) \/ (mode = "until" /\ Due(q, until))

StepEnds ==
    /\ running' = None /\ mode' = "idle" /\ own' = FALSE /\ until' = 0
    /\ now' = IF mode = "until" THEN until ELSE now

\* The handler returns and its message is erased.  What happens if it is not
\* in the queue any more is undefined, and the model ends there.
HandlerReturns ==
    /\ ~corrupt /\ running # None
    /\ IF running \in Range(queue)
       THEN /\ erase(running)
            /\ IF GoesOn(queue') THEN Invoke(queue') /\ UNCHANGED <<mode, until>> ELSE StepEnds
            /\ UNCHANGED corrupt
       ELSE corrupt' = TRUE /\ UNCHANGED <<now, queue, stepping>>
    /\ UNCHANGED <<links, serial>>

Next ==
    \/ \E p, q \in Peers :
          (\E d \in Delays : connect(p, q, d)) \/ disconnect(p, q) \/ send(p, q)
    \/ \E d \in Delays : timer(now + d)
    \/ \E m \in Range(queue) : cancel(m)
    \/ step_one \/ step \/ (\E t \in 0 .. MaxTime : step_until(t))
    \/ HandlerReturns

Spec == Init /\ [][Next]_vars

-----------------------------------------------------------------------------
(* bfs *)

\* The n-th element of the sequence x, g[x], g[g[x]], ...
Iterate(g, x, n) == LET it[i \in Nat] == IF i = 0 THEN x ELSE g[it[i - 1]] IN it[n]

\* The peers that a peer is linked to, in the order of its map.
InSomeOrder(S) == CHOOSE f \in [1 .. Cardinality(S) -> S] : IsInjective(f)

\* The work list q, the peers seen, and the calls of the function so far.
Searches == [q : Seq(Peers \X Nat), seen : SUBSET Peers, out : Seq(Peers \X Nat)]

\* Mutant: a peer counts as seen only when its turn comes.
Visit_LateSeen(w) ==
    LET v == Head(w.q)
        ws == InSomeOrder(DOMAIN links[v[1]] \ (w.seen \cup {v[1]}))
    IN  [q |-> Tail(w.q) \o [i \in DOMAIN ws |-> <<ws[i], v[2] + 1>>],
         seen |-> w.seen \cup {v[1]}, out |-> Append(w.out, v)]

\* The function is called with the first peer of the work list, and the peers
\* it is linked to that have not been seen join the list.
Visit(w) ==
    LET v == Head(w.q)
        ws == InSomeOrder(DOMAIN links[v[1]] \ w.seen)
    IN  [q |-> Tail(w.q) \o [i \in DOMAIN ws |-> <<ws[i], v[2] + 1>>],
         seen |-> w.seen \cup Range(ws), out |-> Append(w.out, v)]

\* The calls of the function.  No peer is visited twice, so that the work list
\* is empty after as many visits as there are peers; the loop goes round once
\* more, so that a visit too many shows.
bfs(start) ==
    LET loop == [w \in Searches |-> IF w.q = <<>> THEN w ELSE Visit(w)]
    IN  Iterate(loop, [q |-> <<<<start, 0>>>>, seen |-> {start}, out |-> <<>>],
                Cardinality(Peers) + 1).out

-----------------------------------------------------------------------------
(* Properties *)

\* A handler runs exactly while a step function does.
TypeOK ==
    /\ now \in Nat /\ serial \in Nat /\ until \in Nat
    /\ links = [p \in Peers |-> links[p]]
    /\ \A p \in Peers : \E S \in SUBSET Peers : links[p] \in [S -> Ends]
    /\ queue \in Seq(Messages)
    /\ mode \in {"idle", "one", "all", "until"}
    /\ running \in Messages \cup {None} /\ (running = None <=> mode = "idle")
    /\ own \in BOOLEAN /\ corrupt \in BOOLEAN

\* A message that is still to be delivered was sent over a link that stands at
\* both ends and has not been broken since, not even to be made again.
PendingHasLink ==
    \A m \in Range(queue) : m.to # None =>
        /\ m.to \in DOMAIN links[m.from] /\ m.from \in DOMAIN links[m.to]
        /\ m.no > links[m.from][m.to].no

\* Messages arrive in the order in which they were sent on a connection, also
\* when the connection was broken and made again with another delay.
InOrder ==
    \A i, j \in DOMAIN queue : (i < j /\ queue[i].to # None
                                /\ queue[i].from = queue[j].from /\ queue[i].to = queue[j].to)
        => queue[i].no < queue[j].no

\* The clock never passes a message or timer that is still in the queue,
\* whichever step function sets it.
NoneOverdue == \A m \in Range(queue) : m.when >= now

\* A handler's message is still in the queue when step_one erases it, unless
\* the handler broke the link over which it came; no other disconnection or
\* cancellation touches it.
ErasedOnce == corrupt => own

\* The peers within n links of s.
Ball(s, n) ==
    Iterate([b \in SUBSET Peers |-> b \cup UNION {DOMAIN links[p] : p \in b}], {s}, n)

\* bfs visits every peer that can be reached once, with its distance in hops.
BfsShortest ==
    \A s \in Peers :
        LET out == bfs(s) IN
        /\ {out[i][1] : i \in DOMAIN out} = Ball(s, Cardinality(Peers))
        /\ \A i, j \in DOMAIN out : i # j => out[i][1] # out[j][1]
        /\ \A i \in DOMAIN out : \A n \in 0 .. Cardinality(Peers) :
              out[i][1] \in Ball(s, n) <=> out[i][2] <= n
=============================================================================
