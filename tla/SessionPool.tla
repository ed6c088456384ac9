----------------------------- MODULE SessionPool -----------------------------
(***************************************************************************)
(* What a connection pool promises to its users: a session is with at most *)
(* one thread at a time (soci docs/multithreading.md).                     *)
(***************************************************************************)
CONSTANTS Threads, Sessions, None

VARIABLE has     \* the session each thread has leased, or None

Init == has = [t \in Threads |-> None]

Lease(t, s) ==
    /\ has[t] = None /\ \A u \in Threads : has[u] # s
    /\ has' = [has EXCEPT ![t] = s]

GiveBack(t) == has[t] # None /\ has' = [has EXCEPT ![t] = None]

Next == \E t \in Threads : GiveBack(t) \/ \E s \in Sessions : Lease(t, s)

Spec == Init /\ [][Next]_has
=============================================================================
