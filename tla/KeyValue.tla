------------------------------- MODULE KeyValue -------------------------------
(***************************************************************************)
(* What a NuDB store promises to the threads that call it: a set of keys   *)
(* to which fetch and insert apply one at a time, each at some moment      *)
(* between its call and its return.  A call whose read of a file fails, or *)
(* that comes once a commit has failed, may return an error, and has then  *)
(* no effect.                                                              *)
(***************************************************************************)
CONSTANTS Threads, Keys, NoOne

VARIABLES
    content,     \* the inserted keys
    broken,      \* a commit has failed
    op, key,     \* each thread: "none", "fetch" or "insert", and of which key
    missed,      \* the key of a fetch was not there at some moment since its call
    res          \* the result of each thread's last call, "none" during a call

vars == <<content, broken, op, key, missed, res>>

Init ==
    /\ content = {} /\ broken = FALSE
    /\ op = [t \in Threads |-> "none"] /\ key = [t \in Threads |-> NoOne]
    /\ missed = [t \in Threads |-> FALSE] /\ res = [t \in Threads |-> "none"]

Call(t, o, k) ==
    /\ op[t] = "none"
    /\ op' = [op EXCEPT ![t] = o] /\ key' = [key EXCEPT ![t] = k]
    /\ res' = [res EXCEPT ![t] = "none"]
    /\ UNCHANGED <<content, broken, missed>>

Miss(t) ==
    /\ op[t] = "fetch" /\ key[t] \notin content
    /\ missed' = [missed EXCEPT ![t] = TRUE]
    /\ UNCHANGED <<content, broken, op, key, res>>

\* A key stays once it is inserted.
Answers(t) ==
    (IF broken THEN {"error"} ELSE {}) \cup
    CASE op[t] = "fetch" -> {"io_error"} \cup (IF key[t] \in content THEN {"found"} ELSE {})
                            \cup (IF missed[t] THEN {"absent"} ELSE {})
      [] op[t] = "insert" -> {"io_error"} \cup
                             (IF key[t] \in content THEN {"exists"} ELSE {"inserted"})
      [] op[t] = "none" -> {}

Return(t) ==
    /\ \E r \in Answers(t) :
         /\ res' = [res EXCEPT ![t] = r]
         /\ content' = IF r = "inserted" THEN content \cup {key[t]} ELSE content
    /\ op' = [op EXCEPT ![t] = "none"] /\ key' = [key EXCEPT ![t] = NoOne]
    /\ missed' = [missed EXCEPT ![t] = FALSE]
    /\ UNCHANGED broken

Break == broken' = TRUE /\ UNCHANGED <<content, op, key, missed, res>>

Next ==
    \/ \E t \in Threads :
          \/ \E o \in {"fetch", "insert"}, k \in Keys : Call(t, o, k)
          \/ Miss(t) \/ Return(t)
    \/ Break

Spec == Init /\ [][Next]_vars
=============================================================================
