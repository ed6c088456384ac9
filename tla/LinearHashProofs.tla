-------------------------- MODULE LinearHashProofs --------------------------
(***************************************************************************)
(* Proofs about the table, for any set of keys, hash functions, capacity   *)
(* of a bucket, threshold of a split, size of the write buffer and number  *)
(* of rekeys.                                                              *)
(***************************************************************************)
EXTENDS LinearHash, HashingProofs, FiniteSetTheorems

USE ZenonT(40)

-----------------------------------------------------------------------------
(* Entries in their order: lower_bound, insert and erase *)

Ents(b) == {b.e[i] : i \in 1 .. Len(b.e)}

IsSorted(b) == \A i, j \in 1 .. Len(b.e) : i < j => b.e[i].h <= b.e[j].h

LEMMA NewEntry ==
    ASSUME NEW h \in Nat, NEW o \in Nat
    PROVE  [h |-> h, o |-> o] \in Entries /\ [h |-> h, o |-> o].h = h /\ [h |-> h, o |-> o].o = o
BY SMT DEF Entries

LEMMA NewBucket ==
    ASSUME NEW e \in Seq(Entries), NEW s \in Nat
    PROVE  [e |-> e, s |-> s] \in Buckets /\ [e |-> e, s |-> s].e = e /\ [e |-> e, s |-> s].s = s
BY SMT DEF Buckets

LEMMA BucketFields ==
    ASSUME NEW b \in Buckets
    PROVE  /\ b.e \in Seq(Entries) /\ b.s \in Nat /\ Len(b.e) \in Nat
           /\ \A i \in 1 .. Len(b.e) :
                 b.e[i] \in Entries /\ b.e[i].h \in Nat /\ b.e[i].o \in Nat
<1>1. b.e \in Seq(Entries) /\ b.s \in Nat
    BY DEF Buckets
<1>2. Len(b.e) \in Nat /\ \A i \in 1 .. Len(b.e) : b.e[i] \in Entries
    BY <1>1, SMT
<1>3. \A x \in Entries : x.h \in Nat /\ x.o \in Nat
    BY DEF Entries
<1> QED BY <1>1, <1>2, <1>3

\* After n rounds of the search: what is below s[1] is less than h, what is
\* from s[1] + s[2] on is not, and a round takes one entry at least.
IsSearched(s, b, h, n) ==
    /\ s \in Nat \X Nat /\ s[1] + s[2] <= Len(b.e)
    /\ s[2] = 0 \/ s[2] + n <= Len(b.e)
    /\ \A i \in 1 .. Len(b.e) : i <= s[1] => b.e[i].h < h
    /\ \A i \in 1 .. Len(b.e) : s[1] + s[2] < i => h <= b.e[i].h

LEMMA SearchKeeps ==
    ASSUME NEW b \in Buckets, IsSorted(b), NEW h \in Nat, NEW n \in Nat, NEW s,
           IsSearched(s, b, h, n)
    PROVE  IsSearched(SearchRound(s, b, h), b, h, n + 1)
<1>1. PICK f \in Nat, c \in Nat : s[1] = f /\ s[2] = c
    BY DEF IsSearched
<1>2. PICK l \in Nat : l = Len(b.e)
    BY BucketFields
<1>3. /\ f + c <= l /\ (c = 0 \/ c + n <= l)
      /\ \A i \in 1 .. l : i <= f => b.e[i].h < h
      /\ \A i \in 1 .. l : f + c < i => h <= b.e[i].h
    BY <1>1, <1>2 DEF IsSearched
<1>4. CASE c = 0
    <2>1. SearchRound(s, b, h) = s
        BY <1>1, <1>4 DEF SearchRound
    <2> QED BY <1>1, <1>4, <2>1 DEF IsSearched
<1>5. CASE c # 0
    <2>1. PICK t \in Nat : t = c \div 2 /\ t < c
        <3>1. c \div 2 \in Nat /\ c \div 2 < c
            BY <1>5, SMT
        <3> QED BY <3>1
    <2>2. PICK i : i = f + t + 1 /\ i \in 1 .. l
        BY <1>3, <2>1, SMT
    <2>3. \A j \in 1 .. l : b.e[j].h \in Nat
        BY <1>2, BucketFields
    <2>4. /\ \A j \in 1 .. l : j < i => b.e[j].h <= b.e[i].h
          /\ \A j \in 1 .. l : i < j => b.e[i].h <= b.e[j].h
        BY <1>2, <2>2 DEF IsSorted
    <2>5. CASE b.e[i].h < h
        <3>1. PICK r : r = c - (t + 1)
            OBVIOUS
        <3>2. SearchRound(s, b, h) = <<i, r>>
            BY <1>1, <1>5, <2>1, <2>2, <2>5, <3>1 DEF SearchRound
        <3>3. i \in Nat /\ r \in Nat /\ i + r = f + c /\ r + (n + 1) <= c + n
            BY <2>1, <2>2, <3>1, SMT
        <3>4. \A j \in 1 .. l : j <= i => b.e[j].h < h
            <4> SUFFICES ASSUME NEW j \in 1 .. l, j <= i PROVE b.e[j].h < h
                OBVIOUS
            <4>1. PICK u \in Nat, v \in Nat : u = b.e[j].h /\ v = b.e[i].h
                BY <2>2, <2>3
            <4>2. u <= v
                <5>1. j = i \/ j < i
                    BY <2>2, SMT
                <5>2. v <= v
                    BY SMT
                <5> QED BY <2>4, <4>1, <5>1, <5>2
            <4>3. v < h
                BY <2>5, <4>1
            <4> QED BY <4>1, <4>2, <4>3, SMT
        <3>5. r = 0 \/ r + (n + 1) <= l
            BY <1>3, <1>5, <3>3, SMT
        <3>6. <<i, r>> \in Nat \X Nat /\ <<i, r>>[1] = i /\ <<i, r>>[2] = r
            BY <3>3
        <3> QED BY <1>2, <1>3, <3>2, <3>3, <3>4, <3>5, <3>6 DEF IsSearched
    <2>6. CASE ~(b.e[i].h < h)
        <3>1. SearchRound(s, b, h) = <<f, t>>
            BY <1>1, <1>5, <2>1, <2>2, <2>6 DEF SearchRound
        <3>2. \A j \in 1 .. l : f + t < j => h <= b.e[j].h
            <4> SUFFICES ASSUME NEW j \in 1 .. l, f + t < j PROVE h <= b.e[j].h
                OBVIOUS
            <4>1. PICK u \in Nat, v \in Nat : u = b.e[j].h /\ v = b.e[i].h
                BY <2>2, <2>3
            <4>2. v <= u
                <5>1. j = i \/ i < j
                    BY <2>2, SMT
                <5>2. v <= v
                    BY SMT
                <5> QED BY <2>4, <4>1, <5>1, <5>2
            <4>3. ~(v < h)
                BY <2>6, <4>1
            <4>4. h <= u
                BY <4>2, <4>3, SMT
            <4> QED BY <4>1, <4>4
        <3>3. f + t <= l /\ (t = 0 \/ t + (n + 1) <= l)
            BY <1>3, <1>5, <2>1, SMT
        <3>4. <<f, t>> \in Nat \X Nat /\ <<f, t>>[1] = f /\ <<f, t>>[2] = t
            OBVIOUS
        <3> QED BY <1>2, <1>3, <3>1, <3>2, <3>3, <3>4 DEF IsSearched
    <2> QED BY <2>5, <2>6
<1> QED BY <1>4, <1>5

\* The binary search finds the number of entries below h.
IsBound(i, b, h) ==
    /\ i \in Nat /\ i <= Len(b.e)
    /\ \A j \in 1 .. Len(b.e) : j <= i => b.e[j].h < h
    /\ \A j \in 1 .. Len(b.e) : i < j => h <= b.e[j].h

LEMMA LowerBound ==
    ASSUME NEW b \in Buckets, IsSorted(b), NEW h \in Nat
    PROVE  IsBound(lower_bound(b, h), b, h)
<1> DEFINE search == [p \in (Nat \X Nat) \X Nat |-> SearchRound(p[1], b, h)]
           S == [n \in Nat |-> {s \in Nat \X Nat : IsSearched(s, b, h, n)}]
<1>1. PICK l \in Nat : l = Len(b.e)
    BY BucketFields
<1>2. PICK last : last = Loop(search, <<0, l>>, l) /\ lower_bound(b, h) = last[1]
    BY <1>1 DEF lower_bound
<1>3. ASSUME NEW s \in Nat \X Nat, NEW n \in Nat PROVE search[<<s, n>>] = SearchRound(s, b, h)
    <2>1. <<s, n>> \in (Nat \X Nat) \X Nat /\ <<s, n>>[1] = s
        OBVIOUS
    <2> QED BY <2>1
<1>4. \A n \in Nat : S[n] = {s \in Nat \X Nat : IsSearched(s, b, h, n)}
    OBVIOUS
<1>5. \A s, n : IsSearched(s, b, h, n) => s \in Nat \X Nat
    BY DEF IsSearched
<1> HIDE DEF search, S
<1>6. <<0, l>> \in S[0]
    <2>1. 0 \in Nat /\ 0 + l = l /\ l + 0 = l /\ l <= l
        BY SMT
    <2>2. \A i \in 1 .. l : ~(i <= 0) /\ ~(l < i)
        BY SMT
    <2>3. <<0, l>> \in Nat \X Nat /\ <<0, l>>[1] = 0 /\ <<0, l>>[2] = l
        BY <2>1
    <2>4. IsSearched(<<0, l>>, b, h, 0)
        BY <1>1, <2>1, <2>2, <2>3 DEF IsSearched
    <2> QED BY <1>4, <2>1, <2>3, <2>4
<1>7. ASSUME NEW n \in Nat, NEW s \in S[n], n < l PROVE search[<<s, n + 1>>] \in S[n + 1]
    <2>1. n + 1 \in Nat
        BY SMT
    <2>2. s \in Nat \X Nat /\ IsSearched(s, b, h, n)
        BY <1>4
    <2>3. IsSearched(SearchRound(s, b, h), b, h, n + 1)
        BY <2>2, SearchKeeps
    <2> QED BY <1>3, <1>4, <1>5, <2>1, <2>2, <2>3
<1>8. last \in S[l]
    BY <1>2, <1>6, <1>7, LoopReaches
<1>9. IsSearched(last, b, h, l)
    BY <1>4, <1>8
<1>10. PICK f \in Nat, c \in Nat : last[1] = f /\ last[2] = c
    BY <1>9 DEF IsSearched
<1>11. f + c <= l /\ (c = 0 \/ c + l <= l)
    BY <1>1, <1>9, <1>10 DEF IsSearched
<1>12. c = 0 /\ f <= l /\ f + c = f
    BY <1>11, SMT
<1> QED BY <1>1, <1>2, <1>9, <1>10, <1>12 DEF IsSearched, IsBound

\* insert puts the entry in its place, erase takes one out.
IsInsertion(r, b, x) ==
    /\ r \in Buckets /\ IsSorted(r) /\ Len(r.e) = Len(b.e) + 1 /\ r.s = b.s
    /\ Ents(r) = Ents(b) \cup {x}

IsInserted(t, s, i, x) ==
    /\ t \in Seq(Entries) /\ Len(t) = Len(s) + 1
    /\ \A j \in 1 .. Len(s) + 1 :
          t[j] = IF j <= i THEN s[j] ELSE IF j = i + 1 THEN x ELSE s[j - 1]

LEMMA Inserted ==
    ASSUME NEW s \in Seq(Entries), NEW i \in Nat, i <= Len(s), NEW x \in Entries
    PROVE  IsInserted(InsertBehind(s, i, x), s, i, x)
<1>1. PICK l \in Nat : l = Len(s)
    BY SMT
<1>2. DOMAIN s = 1 .. l /\ \A j \in 1 .. l : s[j] \in Entries
    BY <1>1, SMT
<1> DEFINE t == [j \in 1 .. l + 1 |-> IF j <= i THEN s[j] ELSE IF j = i + 1 THEN x ELSE s[j - 1]]
<1>3. InsertBehind(s, i, x) = t
    BY <1>1 DEF InsertBehind
<1>4. ASSUME NEW j \in 1 .. l + 1
      PROVE  (IF j <= i THEN s[j] ELSE IF j = i + 1 THEN x ELSE s[j - 1]) \in Entries
    <2>1. CASE j <= i
        <3>1. j \in 1 .. l
            BY <1>1, <2>1, SMT
        <3> QED BY <1>2, <2>1, <3>1
    <2>2. CASE ~(j <= i) /\ j = i + 1
        BY <2>2
    <2>3. CASE ~(j <= i) /\ j # i + 1
        <3>1. j - 1 \in 1 .. l
            BY <1>1, <2>3, SMT
        <3> QED BY <1>2, <2>3, <3>1
    <2> QED BY <2>1, <2>2, <2>3
<1>5. t \in [1 .. l + 1 -> Entries]
    BY <1>4
<1>6. \A j \in 1 .. l + 1 : t[j] = IF j <= i THEN s[j] ELSE IF j = i + 1 THEN x ELSE s[j - 1]
    OBVIOUS
<1> HIDE DEF t
<1>7. t \in Seq(Entries) /\ Len(t) = l + 1
    BY <1>5, SMT
<1> QED BY <1>1, <1>3, <1>6, <1>7 DEF IsInserted

LEMMA InsertKeeps ==
    ASSUME NEW b \in Buckets, IsSorted(b), NEW o \in Nat, NEW h \in Nat
    PROVE  IsInsertion(insert(b, o, h), b, [h |-> h, o |-> o])
<1>1. PICK i \in Nat : i = lower_bound(b, h) /\ IsBound(i, b, h)
    BY LowerBound DEF IsBound
<1>2. PICK l \in Nat, s \in Seq(Entries) : s = b.e /\ l = Len(s)
    BY BucketFields
<1>3. PICK x \in Entries : x = [h |-> h, o |-> o] /\ x.h = h
    BY NewEntry
<1>4. PICK t : t = InsertBehind(s, i, x) /\ t \in Seq(Entries) /\ Len(t) = l + 1
                 /\ \A j \in 1 .. l + 1 : t[j] = IF j <= i THEN s[j] ELSE IF j = i + 1 THEN x ELSE s[j - 1]
    <2>1. i <= Len(s)
        BY <1>1, <1>2 DEF IsBound
    <2>2. IsInserted(InsertBehind(s, i, x), s, i, x)
        BY <2>1, Inserted
    <2> QED BY <1>2, <2>2 DEF IsInserted
<1>5. PICK r : r = insert(b, o, h) /\ r.e = t /\ r.s = b.s /\ r \in Buckets
    <2>1. insert(b, o, h) = [e |-> t, s |-> b.s] /\ b.s \in Nat
        BY <1>1, <1>2, <1>3, <1>4, BucketFields DEF insert
    <2> QED BY <1>4, <2>1, NewBucket
<1>6. i <= l /\ (\A j \in 1 .. l : s[j].h \in Nat)
    BY <1>1, <1>2, BucketFields DEF IsBound
<1>7. /\ \A j \in 1 .. l : j <= i => s[j].h < h
      /\ \A j \in 1 .. l : i < j => h <= s[j].h
      /\ \A j, k \in 1 .. l : j < k => s[j].h <= s[k].h
    BY <1>1, <1>2 DEF IsBound, IsSorted
<1>8. ASSUME NEW j \in 1 .. l + 1, NEW k \in 1 .. l + 1, j < k PROVE t[j].h <= t[k].h
    <2>1. CASE k <= i
        <3>1. j \in 1 .. l /\ k \in 1 .. l /\ j <= i
            BY <1>6, <1>8, <2>1, SMT
        <3> QED BY <1>4, <1>7, <1>8, <2>1, <3>1
    <2>2. CASE k = i + 1
        <3>1. j \in 1 .. l /\ j <= i /\ ~(k <= i)
            BY <1>6, <1>8, <2>2, SMT
        <3>2. t[j] = s[j] /\ t[k].h = h /\ s[j].h < h /\ s[j].h \in Nat
            BY <1>3, <1>4, <1>6, <1>7, <2>2, <3>1
        <3>3. s[j].h <= h
            BY <3>2, SMT
        <3> QED BY <3>2, <3>3
    <2>3. CASE ~(k <= i) /\ k # i + 1
        <3>1. k - 1 \in 1 .. l /\ i < k - 1 /\ t[k] = s[k - 1]
            <4>1. k - 1 \in 1 .. l /\ i < k - 1
                BY <1>6, <2>3, SMT
            <4> QED BY <1>4, <2>3, <4>1
        <3>2. CASE j <= i
            <4>1. j \in 1 .. l /\ j < k - 1
                BY <1>6, <3>1, <3>2, SMT
            <4> QED BY <1>4, <1>7, <3>1, <3>2, <4>1
        <3>3. CASE ~(j <= i) /\ j = i + 1
            BY <1>3, <1>4, <1>7, <3>1, <3>3
        <3>4. CASE ~(j <= i) /\ j # i + 1
            <4>1. j - 1 \in 1 .. l /\ j - 1 < k - 1
                BY <1>6, <1>8, <3>4, SMT
            <4> QED BY <1>4, <1>7, <3>1, <3>4, <4>1
        <3> QED BY <3>2, <3>3, <3>4
    <2> QED BY <2>1, <2>2, <2>3
<1>9. IsSorted(r)
    BY <1>4, <1>5, <1>8 DEF IsSorted
<1>10. ASSUME NEW y PROVE y \in Ents(r) <=> y \in Ents(b) \cup {x}
    <2>1. ASSUME NEW j \in 1 .. l + 1, y = t[j] PROVE y \in Ents(b) \cup {x}
        <3>1. (j <= i => j \in 1 .. l) /\ (~(j <= i) /\ j # i + 1 => j - 1 \in 1 .. l)
            BY <1>6, SMT
        <3>2. y = x \/ \E k \in 1 .. l : y = s[k]
            BY <1>4, <2>1, <3>1
        <3> QED BY <1>2, <3>2 DEF Ents
    <2>2. ASSUME NEW k \in 1 .. l, y = s[k] PROVE \E j \in 1 .. l + 1 : y = t[j]
        <3>1. CASE k <= i
            <4>1. k \in 1 .. l + 1
                BY SMT
            <4> QED BY <1>4, <2>2, <3>1, <4>1
        <3>2. CASE ~(k <= i)
            <4>1. k + 1 \in 1 .. l + 1 /\ ~(k + 1 <= i) /\ k + 1 # i + 1 /\ (k + 1) - 1 = k
                BY <3>2, SMT
            <4> QED BY <1>4, <2>2, <4>1
        <3> QED BY <3>1, <3>2
    <2>3. \E j \in 1 .. l + 1 : x = t[j]
        <3>1. i + 1 \in 1 .. l + 1 /\ ~(i + 1 <= i)
            BY <1>6, SMT
        <3> QED BY <1>4, <3>1
    <2>4. y \in Ents(r) <=> \E j \in 1 .. l + 1 : y = t[j]
        BY <1>4, <1>5 DEF Ents
    <2>5. y \in Ents(b) <=> \E k \in 1 .. l : y = s[k]
        BY <1>2 DEF Ents
    <2> QED BY <2>1, <2>2, <2>3, <2>4, <2>5
<1>11. Ents(r) = Ents(b) \cup {x}
    BY <1>10
<1> QED BY <1>2, <1>3, <1>4, <1>5, <1>9, <1>11 DEF IsInsertion

IsErased(t, s, i) ==
    /\ t \in Seq(Entries) /\ Len(t) + 1 = Len(s)
    /\ \A j \in 1 .. Len(t) : t[j] = IF j < i THEN s[j] ELSE s[j + 1]

LEMMA Erased ==
    ASSUME NEW s \in Seq(Entries), NEW i \in 1 .. Len(s)
    PROVE  IsErased(EraseAt(s, i), s, i)
<1>1. PICK l \in Nat : Len(s) = l + 1 /\ Len(s) - 1 = l
    <2>1. Len(s) - 1 \in Nat /\ Len(s) = (Len(s) - 1) + 1
        BY SMT
    <2> QED BY <2>1
<1>2. \A j \in 1 .. l + 1 : s[j] \in Entries
    BY <1>1, SMT
<1> DEFINE t == [j \in 1 .. l |-> IF j < i THEN s[j] ELSE s[j + 1]]
<1>3. EraseAt(s, i) = t
    BY <1>1 DEF EraseAt
<1>4. \A j \in 1 .. l : j \in 1 .. l + 1 /\ j + 1 \in 1 .. l + 1
    BY SMT
<1>5. t \in [1 .. l -> Entries]
    BY <1>2, <1>4
<1>6. \A j \in 1 .. l : t[j] = IF j < i THEN s[j] ELSE s[j + 1]
    OBVIOUS
<1> HIDE DEF t
<1>7. t \in Seq(Entries) /\ Len(t) = l
    BY <1>5, SMT
<1> QED BY <1>1, <1>3, <1>6, <1>7 DEF IsErased

IsErasure(r, b, i) ==
    /\ r \in Buckets /\ IsSorted(r) /\ Len(r.e) + 1 = Len(b.e) /\ r.s = b.s
    /\ Ents(r) \cup {b.e[i]} = Ents(b)
    /\ \A j \in 1 .. Len(r.e) : j < i => r.e[j] = b.e[j]

LEMMA EraseKeeps ==
    ASSUME NEW b \in Buckets, IsSorted(b), NEW i \in 1 .. Len(b.e)
    PROVE  IsErasure(erase(b, i), b, i)
<1>1. PICK s \in Seq(Entries) : s = b.e /\ i \in 1 .. Len(s)
    BY BucketFields
<1>2. PICK t : t = EraseAt(s, i) /\ IsErased(t, s, i)
    BY <1>1, Erased
<1>3. PICK l \in Nat : l = Len(t)
    BY <1>2, SMT DEF IsErased
<1>4. /\ t \in Seq(Entries) /\ Len(s) = l + 1
      /\ \A j \in 1 .. l : t[j] = IF j < i THEN s[j] ELSE s[j + 1]
    BY <1>2, <1>3 DEF IsErased
<1>5. PICK r : r = erase(b, i) /\ r.e = t /\ r.s = b.s /\ r \in Buckets
    <2>1. erase(b, i) = [e |-> t, s |-> b.s] /\ b.s \in Nat
        BY <1>1, <1>2, BucketFields DEF erase
    <2> QED BY <1>4, <2>1, NewBucket
<1>6. i \in 1 .. l + 1 /\ i \in Nat
    BY <1>1, <1>4, SMT
<1>7. \A j, k \in 1 .. l + 1 : j < k => s[j].h <= s[k].h
    BY <1>1, <1>4 DEF IsSorted
<1>8. ASSUME NEW j \in 1 .. l, NEW k \in 1 .. l, j < k PROVE t[j].h <= t[k].h
    <2>1. /\ j \in 1 .. l + 1 /\ j + 1 \in 1 .. l + 1 /\ k \in 1 .. l + 1 /\ k + 1 \in 1 .. l + 1
          /\ j < k + 1 /\ j + 1 < k + 1
        BY <1>8, SMT
    <2>2. ~(j < i) => ~(k < i)
        BY <1>6, <1>8, SMT
    <2> QED BY <1>4, <1>7, <1>8, <2>1, <2>2
<1>9. IsSorted(r)
    BY <1>3, <1>5, <1>8 DEF IsSorted
<1>10. ASSUME NEW y PROVE y \in Ents(r) \cup {s[i]} <=> y \in Ents(b)
    <2>1. ASSUME NEW j \in 1 .. l, y = t[j] PROVE \E k \in 1 .. l + 1 : y = s[k]
        <3>1. j \in 1 .. l + 1 /\ j + 1 \in 1 .. l + 1
            BY SMT
        <3> QED BY <1>4, <2>1, <3>1
    <2>2. ASSUME NEW k \in 1 .. l + 1, y = s[k] PROVE y = s[i] \/ \E j \in 1 .. l : y = t[j]
        <3>1. CASE k < i
            <4>1. k \in 1 .. l
                BY <1>6, <3>1, SMT
            <4> QED BY <1>4, <2>2, <3>1, <4>1
        <3>2. CASE i < k
            <4>1. k - 1 \in 1 .. l /\ ~(k - 1 < i) /\ (k - 1) + 1 = k
                BY <1>6, <3>2, SMT
            <4> QED BY <1>4, <2>2, <4>1
        <3>3. k < i \/ i < k \/ k = i
            BY <1>6, SMT
        <3> QED BY <2>2, <3>1, <3>2, <3>3
    <2>3. y \in Ents(r) <=> \E j \in 1 .. l : y = t[j]
        BY <1>3, <1>5 DEF Ents
    <2>4. y \in Ents(b) <=> \E k \in 1 .. l + 1 : y = s[k]
        BY <1>1, <1>4 DEF Ents
    <2> QED BY <1>6, <2>1, <2>2, <2>3, <2>4
<1>11. Ents(r) \cup {s[i]} = Ents(b)
    BY <1>10
<1> QED BY <1>1, <1>3, <1>4, <1>5, <1>9, <1>11 DEF IsErasure

-----------------------------------------------------------------------------
(* Chains of spills *)

\* The spills met from position s on: the least set with s in it that has, with
\* a spill, the next one.
Follows(S, D, s) == s \in S /\ \A p \in S : p \in 1 .. Len(D) => D[p].b.s \in S
Reach(D, s) == {p \in 1 .. Len(D) : \A S \in SUBSET Nat : Follows(S, D, s) => p \in S}

\* Their entries, and those of a bucket and its spills.
Below(D, s) == UNION {Ents(D[p].b) : p \in Reach(D, s)}
Contents(D, b) == Ents(b) \cup Below(D, b.s)

\* A data file: every spill is sorted and refers to an earlier one.
IsData(D) ==
    /\ D \in Seq(Records)
    /\ \A p \in 1 .. Len(D) : IsSorted(D[p].b) /\ D[p].b.s < p

\* Records were added.
Grown(D, E) == Len(D) <= Len(E) /\ \A p \in 1 .. Len(D) : E[p] = D[p]

LEMMA RecordFields ==
    ASSUME NEW D, IsData(D)
    PROVE  /\ Len(D) \in Nat
           /\ \A p \in 1 .. Len(D) : D[p].key \in Nat /\ D[p].b \in Buckets /\ D[p].b.s \in Nat
<1>1. D \in Seq(Records)
    BY DEF IsData
<1>2. Len(D) \in Nat /\ \A p \in 1 .. Len(D) : D[p] \in Records
    BY <1>1, SMT
<1>3. \A x \in Records : x.key \in Nat /\ x.b \in Buckets
    BY DEF Records
<1> QED BY <1>2, <1>3, BucketFields

LEMMA ReachNothing ==
    ASSUME NEW D, IsData(D) PROVE Reach(D, 0) = {} /\ Below(D, 0) = {}
<1>1. {0} \in SUBSET Nat /\ \A p \in 1 .. Len(D) : p \notin {0}
    BY RecordFields, SMT
<1>2. Follows({0}, D, 0)
    BY <1>1 DEF Follows
<1>3. Reach(D, 0) = {}
    BY <1>1, <1>2 DEF Reach
<1> QED BY <1>3 DEF Below

LEMMA ReachNext ==
    ASSUME NEW D, IsData(D), NEW s \in 1 .. Len(D)
    PROVE  Reach(D, s) = {s} \cup Reach(D, D[s].b.s)
<1>1. PICK t \in Nat : t = D[s].b.s
    BY RecordFields
<1>2. s \in Nat
    BY RecordFields, SMT
<1>3. ASSUME NEW p \in Reach(D, t) PROVE p \in Reach(D, s)
    BY <1>1, <1>3 DEF Reach, Follows
<1>4. s \in Reach(D, s)
    BY DEF Reach, Follows
<1>5. ASSUME NEW p \in Reach(D, s), p # s PROVE p \in Reach(D, t)
    <2> SUFFICES ASSUME NEW S \in SUBSET Nat, Follows(S, D, t) PROVE p \in S
        BY <1>5 DEF Reach
    <2>1. S \cup {s} \in SUBSET Nat
        BY <1>2
    <2>2. Follows(S \cup {s}, D, s)
        BY <1>1 DEF Follows
    <2> QED BY <1>5, <2>1, <2>2 DEF Reach
<1> QED BY <1>1, <1>3, <1>4, <1>5

LEMMA BelowNext ==
    ASSUME NEW D, IsData(D), NEW s \in 1 .. Len(D)
    PROVE  Below(D, s) = Contents(D, D[s].b)
<1>1. PICK R : R = Reach(D, D[s].b.s) /\ Reach(D, s) = {s} \cup R
    <2>1. Reach(D, s) = {s} \cup Reach(D, D[s].b.s)
        BY ReachNext
    <2> QED BY <2>1
<1>2. \A y : y \in Below(D, s) <=> \E p \in {s} \cup R : y \in Ents(D[p].b)
    BY <1>1 DEF Below
<1>3. \A y : y \in Contents(D, D[s].b) <=> y \in Ents(D[s].b) \/ \E p \in R : y \in Ents(D[p].b)
    BY <1>1 DEF Contents, Below
<1> QED BY <1>2, <1>3

\* Records that are added change no chain.
LEMMA BelowStays ==
    ASSUME NEW D, NEW E, IsData(D), IsData(E), Grown(D, E), NEW s \in Nat, s <= Len(D)
    PROVE  Below(E, s) = Below(D, s)
<1>1. PICK l \in Nat, m \in Nat : l = Len(D) /\ m = Len(E)
    BY RecordFields
<1>2. l <= m /\ \A p \in 1 .. l : E[p] = D[p]
    BY <1>1 DEF Grown
<1>3. \A p \in 1 .. l : p \in 1 .. m /\ p \in Nat /\ p <= l
    BY <1>2, SMT
<1>4. \A p \in Nat : p <= l /\ p \in 1 .. m => p \in 1 .. l
    BY SMT
<1>5. \A p \in 1 .. l : D[p].b.s \in Nat /\ D[p].b.s < p
    BY <1>1, RecordFields DEF IsData
<1>6. \A p \in 1 .. l : \A t \in Nat : t < p => t <= l
    BY SMT
<1>7. ASSUME NEW p \in Reach(E, s), NEW S \in SUBSET Nat, Follows(S, D, s)
      PROVE  p \in S /\ p \in 1 .. l
    <2> DEFINE T == {q \in S : q <= l}
    <2>1. ASSUME NEW q \in T, q \in 1 .. m PROVE E[q].b.s \in T
        <3>1. q \in Nat /\ q \in S /\ q <= l
            OBVIOUS
        <3>2. q \in 1 .. l
            BY <1>4, <2>1, <3>1
        <3> QED BY <1>1, <1>2, <1>5, <1>6, <1>7, <3>1, <3>2 DEF Follows
    <2>2. Follows(T, E, s)
        BY <1>1, <1>7, <2>1 DEF Follows
    <2>3. p \in T /\ p \in 1 .. m
        BY <1>1, <2>2 DEF Reach
    <2> QED BY <1>4, <2>3
<1>8. Nat \in SUBSET Nat /\ Follows(Nat, D, s)
    BY <1>1, <1>5 DEF Follows
<1>9. ASSUME NEW p \in Reach(D, s), NEW S \in SUBSET Nat, Follows(S, E, s)
      PROVE  p \in S /\ p \in 1 .. m
    <2>1. Follows(S, D, s)
        BY <1>1, <1>2, <1>3, <1>9 DEF Follows
    <2> QED BY <1>1, <1>3, <2>1 DEF Reach
<1>10. Follows(Nat, E, s)
    BY RecordFields DEF Follows
<1>11. PICK R : R = Reach(D, s) /\ R = Reach(E, s)
    <2>1. \A p : p \in Reach(E, s) => p \in Reach(D, s)
        BY <1>1, <1>7, <1>8 DEF Reach
    <2>2. \A p : p \in Reach(D, s) => p \in Reach(E, s)
        BY <1>1, <1>8, <1>9, <1>10 DEF Reach
    <2>3. Reach(D, s) = Reach(E, s)
        BY <2>1, <2>2
    <2> QED BY <2>3
<1>12. \A p \in R : D[p] = E[p]
    BY <1>1, <1>2, <1>11 DEF Reach
<1>13. \A y : y \in Below(E, s) <=> \E p \in R : y \in Ents(E[p].b)
    BY <1>11 DEF Below
<1>14. \A y : y \in Below(D, s) <=> \E p \in R : y \in Ents(D[p].b)
    BY <1>11 DEF Below
<1> QED BY <1>12, <1>13, <1>14

-----------------------------------------------------------------------------
(* The writer of the data file, and a bucket that is put into it when full *)

IsWriter(w) == w \in Writers /\ IsData(w.df) /\ w.flushed <= Len(w.df)

\* The records w did not have are spills.
Later(w, v) ==
    /\ Grown(w.df, v.df)
    /\ \A p \in 1 .. Len(v.df) : Len(w.df) < p => v.df[p].key = 0

\* A bucket of the key file or of the caches; one without entries has no spill.
IsBucket(b, D) ==
    b \in Buckets /\ IsSorted(b) /\ b.s <= Len(D) /\ (b.e = <<>> => b.s = 0)

LEMMA NewRecord ==
    ASSUME NEW k \in Nat, NEW b \in Buckets
    PROVE  [key |-> k, b |-> b] \in Records /\ [key |-> k, b |-> b].key = k /\ [key |-> k, b |-> b].b = b
BY SMT DEF Records

LEMMA NewWriter ==
    ASSUME NEW D \in Seq(Records), NEW n \in Nat
    PROVE  LET w == [df |-> D, flushed |-> n] IN w \in Writers /\ w.df = D /\ w.flushed = n
BY SMT DEF Writers

LEMMA WriterFields ==
    ASSUME NEW w, IsWriter(w)
    PROVE  w.df \in Seq(Records) /\ w.flushed \in Nat /\ Len(w.df) \in Nat
<1>1. w.df \in Seq(Records) /\ w.flushed \in Nat
    BY DEF IsWriter, Writers
<1> QED BY <1>1, SMT

LEMMA LaterAgain ==
    ASSUME NEW w, NEW v, NEW u, IsWriter(w), IsWriter(v), IsWriter(u), Later(w, v), Later(v, u)
    PROVE  Later(w, u)
<1>1. PICK l \in Nat, m \in Nat, n \in Nat : l = Len(w.df) /\ m = Len(v.df) /\ n = Len(u.df)
    BY WriterFields
<1>2. l <= m /\ m <= n
    BY <1>1 DEF Later, Grown
<1>3. \A p \in 1 .. l : p \in 1 .. m
    BY <1>2, SMT
<1>4. \A p \in 1 .. n : l < p => p \in 1 .. m \/ m < p
    BY SMT
<1>5. l <= n
    BY <1>2, SMT
<1>6. \A p \in 1 .. l : u.df[p] = w.df[p]
    BY <1>1, <1>3 DEF Later, Grown
<1>7. ASSUME NEW p \in 1 .. n, l < p PROVE u.df[p].key = 0
    BY <1>1, <1>4, <1>7 DEF Later, Grown
<1> QED BY <1>1, <1>5, <1>6, <1>7 DEF Later, Grown

LEMMA LaterSame ==
    ASSUME NEW w, NEW v, IsWriter(w), v.df = w.df PROVE Later(w, v)
<1>1. PICK l \in Nat : l = Len(w.df)
    BY WriterFields
<1>2. l <= l /\ \A p \in 1 .. l : ~(l < p)
    BY SMT
<1> QED BY <1>1, <1>2 DEF Later, Grown

Stays(b, w, v) == IsBucket(b, v.df) /\ Contents(v.df, b) = Contents(w.df, b)

LEMMA BucketStays ==
    ASSUME NEW w, NEW v, IsWriter(w), IsWriter(v), Grown(w.df, v.df), NEW b, IsBucket(b, w.df)
    PROVE  Stays(b, w, v)
<1>1. PICK l \in Nat, m \in Nat : l = Len(w.df) /\ m = Len(v.df) /\ l <= m
    BY WriterFields DEF Grown
<1>2. b \in Buckets /\ b.s \in Nat /\ b.s <= l
    BY <1>1, BucketFields DEF IsBucket
<1>3. b.s <= m
    BY <1>1, <1>2, SMT
<1>4. Below(v.df, b.s) = Below(w.df, b.s)
    BY <1>1, <1>2, BelowStays DEF IsWriter
<1> QED BY <1>1, <1>3, <1>4 DEF IsBucket, Contents, Stays

\* prepare appends the record.
IsPrepared(v, w, rec) ==
    /\ IsWriter(v) /\ Len(v.df) = Len(w.df) + 1 /\ Grown(w.df, v.df)
    /\ v.df[Len(w.df) + 1] = rec

LEMMA Prepared ==
    ASSUME NEW w, IsWriter(w), NEW rec \in Records, IsSorted(rec.b), rec.b.s <= Len(w.df)
    PROVE  IsPrepared(prepare(w, rec), w, rec)
<1>1. PICK D \in Seq(Records), l \in Nat, f \in Nat :
          D = w.df /\ l = Len(D) /\ f = w.flushed /\ f <= l
    BY WriterFields DEF IsWriter
<1>2. PICK E : E = Append(D, rec)
    OBVIOUS
<1>3. E \in Seq(Records) /\ Len(E) = l + 1 /\ (\A p \in 1 .. l : E[p] = D[p]) /\ E[l + 1] = rec
    BY <1>1, <1>2, SMT
<1>4. PICK n \in Nat : n = (IF l - f + 1 > WriteBuf THEN l ELSE f) /\ n <= l + 1
    <2>1. l <= l + 1 /\ f <= l + 1
        BY <1>1, SMT
    <2> QED BY <2>1
<1>5. PICK v \in Writers : v = prepare(w, rec) /\ v.df = E /\ v.flushed = n
    <2>1. prepare(w, rec) = [df |-> E, flushed |-> n]
        BY <1>1, <1>2, <1>4 DEF prepare
    <2> QED BY <1>3, <2>1, NewWriter
<1>6. rec.b \in Buckets /\ rec.b.s \in Nat /\ rec.b.s <= l
    <2>1. rec.b \in Buckets
        BY DEF Records
    <2> QED BY <1>1, <2>1, BucketFields
<1>7. rec.b.s < l + 1
    BY <1>6, SMT
<1>8. \A p \in 1 .. l + 1 : p = l + 1 \/ p \in 1 .. l
    BY SMT
<1>9. \A p \in 1 .. l : IsSorted(D[p].b) /\ D[p].b.s < p
    BY <1>1 DEF IsWriter, IsData
<1>10. IsData(E)
    BY <1>3, <1>7, <1>8, <1>9 DEF IsData
<1>11. l <= l + 1
    BY SMT
<1> QED BY <1>1, <1>3, <1>4, <1>5, <1>10, <1>11 DEF IsPrepared, IsWriter, Grown

\* A bucket without entries.
LEMMA NoEntries ==
    ASSUME NEW s \in Nat
    PROVE  LET b == [e |-> <<>>, s |-> s]
           IN  b \in Buckets /\ IsSorted(b) /\ Ents(b) = {} /\ b.s = s /\ b.e = <<>>
<1>1. <<>> \in Seq(Entries) /\ Len(<<>>) = 0 /\ 1 .. 0 = {}
    BY SMT
<1>2. PICK b : b = [e |-> <<>>, s |-> s]
    OBVIOUS
<1>3. b \in Buckets /\ b.e = <<>> /\ b.s = s
    BY <1>1, <1>2, NewBucket
<1>4. IsSorted(b) /\ Ents(b) = {}
    BY <1>1, <1>3 DEF IsSorted, Ents
<1> QED BY <1>2, <1>3, <1>4

LEMMA EmptyBucket ==
    ASSUME NEW w, IsWriter(w) PROVE IsBucket(Empty, w.df) /\ Contents(w.df, Empty) = {}
<1>1. 0 \in Nat /\ 0 <= Len(w.df)
    BY WriterFields, SMT
<1>2. Empty \in Buckets /\ IsSorted(Empty) /\ Ents(Empty) = {} /\ Empty.s = 0
    BY <1>1, NoEntries DEF Empty
<1> QED BY <1>1, <1>2, ReachNothing DEF IsBucket, Contents, IsWriter

\* maybe_spill keeps what is reached from the bucket.
IsSpill(r, b, w) ==
    /\ IsWriter(r.w) /\ Later(w, r.w)
    /\ r.b \in Buckets /\ IsSorted(r.b) /\ r.b.s <= Len(r.w.df)
    /\ Contents(r.w.df, r.b) = Contents(w.df, b)

LEMMA SpillKeeps ==
    ASSUME NEW w, IsWriter(w), NEW b, IsBucket(b, w.df), NEW capacity
    PROVE  IsSpill(maybe_spill(b, w, capacity), b, w)
<1>1. CASE ~full(b, capacity)
    <2>1. PICK r : r = maybe_spill(b, w, capacity) /\ r.b = b /\ r.w = w
        <3>1. maybe_spill(b, w, capacity) = [b |-> b, w |-> w]
            BY <1>1 DEF maybe_spill
        <3>2. maybe_spill(b, w, capacity).b = b /\ maybe_spill(b, w, capacity).w = w
            BY <3>1, SMT
        <3> QED BY <3>2
    <2> QED BY <2>1, LaterSame DEF IsSpill, IsBucket
<1>2. CASE full(b, capacity)
    <2>1. PICK l \in Nat : l = Len(w.df)
        BY WriterFields
    <2>2. PICK s : s = l + 1 /\ s \in Nat /\ s \in 1 .. l + 1 /\ s <= s
        BY SMT
    <2>3. PICK c : c = [e |-> <<>>, s |-> s] /\ c \in Buckets /\ IsSorted(c) /\ Ents(c) = {} /\ c.s = s
        BY <2>2, NoEntries
    <2>4. PICK rec \in Records : rec = Spill(b) /\ rec.b = b /\ rec.key = 0
        <3>1. b \in Buckets /\ 0 \in Nat
            BY SMT DEF IsBucket
        <3> QED BY <3>1, NewRecord DEF Spill
    <2>5. PICK v : v = prepare(w, rec) /\ IsPrepared(v, w, rec)
        BY <2>4, Prepared DEF IsBucket
    <2>6. PICK r : r = maybe_spill(b, w, capacity) /\ r.b = c /\ r.w = v
        <3>1. maybe_spill(b, w, capacity) = [b |-> c, w |-> v]
            BY <1>2, <2>1, <2>2, <2>3, <2>4, <2>5 DEF maybe_spill
        <3>2. maybe_spill(b, w, capacity).b = c /\ maybe_spill(b, w, capacity).w = v
            BY <3>1, SMT
        <3> QED BY <3>2
    <2>7. IsWriter(v) /\ Len(v.df) = s /\ Grown(w.df, v.df) /\ v.df[s] = rec
        BY <2>1, <2>2, <2>5 DEF IsPrepared
    <2>8. \A p \in 1 .. s : l < p => p = s
        BY <2>2, SMT
    <2>9. Later(w, v)
        BY <2>1, <2>4, <2>7, <2>8 DEF Later
    <2>10. Below(v.df, s) = Contents(v.df, b)
        <3>1. IsData(v.df) /\ s \in 1 .. Len(v.df)
            BY <2>2, <2>7 DEF IsWriter
        <3>2. Below(v.df, s) = Contents(v.df, v.df[s].b)
            BY <3>1, BelowNext
        <3> QED BY <2>4, <2>7, <3>2
    <2>11. Contents(v.df, b) = Contents(w.df, b)
        <3>1. IsWriter(v) /\ Grown(w.df, v.df)
            BY <2>7
        <3>2. Stays(b, w, v)
            BY <3>1, BucketStays
        <3> QED BY <3>2 DEF Stays
    <2>12. Contents(v.df, c) = Below(v.df, s)
        BY <2>3 DEF Contents
    <2> QED BY <2>2, <2>3, <2>6, <2>7, <2>9, <2>10, <2>11, <2>12 DEF IsSpill
<1> QED BY <1>1, <1>2

\* With the insert behind it, the bucket has one entry more.
IsPut(c, v, b, w, x) ==
    /\ IsWriter(v) /\ Later(w, v) /\ IsBucket(c, v.df)
    /\ Contents(v.df, c) = Contents(w.df, b) \cup {x}

LEMMA PutKeeps ==
    ASSUME NEW w, IsWriter(w), NEW b, IsBucket(b, w.df), NEW x \in Entries,
           NEW capacity, NEW r, r = maybe_spill(b, w, capacity)
    PROVE  IsPut(insert(r.b, x.o, x.h), r.w, b, w, x)
<1>1. IsSpill(r, b, w)
    BY SpillKeeps
<1>2. x.o \in Nat /\ x.h \in Nat /\ x = [h |-> x.h, o |-> x.o]
    BY SMT DEF Entries
<1>3. PICK c : c = insert(r.b, x.o, x.h) /\ IsInsertion(c, r.b, x)
    <2>1. IsInsertion(insert(r.b, x.o, x.h), r.b, [h |-> x.h, o |-> x.o])
        BY <1>1, <1>2, InsertKeeps DEF IsSpill
    <2> QED BY <1>2, <2>1
<1>4. c \in Buckets /\ IsSorted(c) /\ c.s = r.b.s /\ Ents(c) = Ents(r.b) \cup {x}
    BY <1>3 DEF IsInsertion
<1>5. c.e # <<>>
    <2>1. Len(c.e) = Len(r.b.e) + 1 /\ Len(r.b.e) \in Nat
        BY <1>1, <1>3, BucketFields DEF IsInsertion, IsSpill
    <2> QED BY <2>1, SMT
<1>6. IsBucket(c, r.w.df)
    BY <1>1, <1>4, <1>5 DEF IsSpill, IsBucket
<1>7. Contents(r.w.df, c) = Contents(r.w.df, r.b) \cup {x}
    BY <1>4 DEF Contents
<1> QED BY <1>1, <1>3, <1>6, <1>7 DEF IsSpill, IsPut

-----------------------------------------------------------------------------
(* split *)

\* The entry belongs to bucket n2 of nb buckets.
Belongs(x, n2, nb, m) == bucket_index(x.h, nb, m) = n2

\* What the loop over the entries of b has made of it after n rounds: a and d,
\* with entry i of a the next one.
IsParted(a, d, i, b, n2, nb, m, n) ==
    /\ IsSorted(a) /\ IsSorted(d) /\ d.s = 0
    /\ i # 0 /\ Len(a.e) + n + 1 = Len(b.e) + i
    /\ Ents(a) \subseteq Ents(b) /\ Ents(b) \subseteq Ents(a) \cup Ents(d)
    /\ \A x \in Ents(d) : x \in Ents(b) /\ Belongs(x, n2, nb, m)
    /\ \A j \in 1 .. Len(a.e) : j < i => ~Belongs(a.e[j], n2, nb, m)

Parts == Buckets \X Buckets \X Nat
IsPartedInto(s, b, n2, nb, m, n) == s \in Parts /\ IsParted(s[1], s[2], s[3], b, n2, nb, m, n)

LEMMA PartOf ==
    ASSUME NEW a \in Buckets, NEW d \in Buckets, NEW i \in Nat, NEW b, NEW n2, NEW nb, NEW m,
           NEW n, IsParted(a, d, i, b, n2, nb, m, n)
    PROVE  IsPartedInto(<<a, d, i>>, b, n2, nb, m, n)
<1>1. PICK s : s = <<a, d, i>>
    OBVIOUS
<1>2. s \in Parts /\ s[1] = a /\ s[2] = d /\ s[3] = i
    BY <1>1 DEF Parts
<1> QED BY <1>1, <1>2 DEF IsPartedInto

LEMMA PartKeeps ==
    ASSUME NEW b \in Buckets, NEW n2, NEW nb, NEW m, NEW n \in Nat, n < Len(b.e),
           NEW s, IsPartedInto(s, b, n2, nb, m, n)
    PROVE  IsPartedInto(SplitEntry(s, n2, nb, m), b, n2, nb, m, n + 1)
<1>0. PICK a \in Buckets, d \in Buckets, i \in Nat :
          s[1] = a /\ s[2] = d /\ s[3] = i /\ IsParted(a, d, i, b, n2, nb, m, n)
    BY DEF IsPartedInto, Parts
<1>1. PICK l \in Nat, k \in Nat : l = Len(b.e) /\ k = Len(a.e)
    BY BucketFields
<1>2. i # 0 /\ k + n + 1 = l + i
    BY <1>0, <1>1 DEF IsParted
<1>3. i \in 1 .. k
    BY <1>1, <1>2, SMT
<1>5. PICK x \in Entries : x = a.e[i] /\ x.h \in Nat /\ x.o \in Nat /\ x = [h |-> x.h, o |-> x.o]
    <2>1. a.e[i] \in Entries
        BY <1>1, <1>3, BucketFields
    <2>2. \A x \in Entries : x.h \in Nat /\ x.o \in Nat /\ x = [h |-> x.h, o |-> x.o]
        BY SMT DEF Entries
    <2> QED BY <2>1, <2>2
<1>6. x \in Ents(a) /\ x \in Ents(b)
    BY <1>0, <1>1, <1>3, <1>5 DEF IsParted, Ents
<1>7. CASE Belongs(x, n2, nb, m)
    <2>1. PICK p : p = erase(a, i) /\ IsErasure(p, a, i)
        BY <1>0, <1>1, <1>3, EraseKeeps DEF IsParted
    <2>2. PICK q : q = insert(d, x.o, x.h) /\ IsInsertion(q, d, x)
        <3>1. IsInsertion(insert(d, x.o, x.h), d, [h |-> x.h, o |-> x.o])
            BY <1>0, <1>5, InsertKeeps DEF IsParted
        <3> QED BY <1>5, <3>1
    <2>3. SplitEntry(s, n2, nb, m) = <<p, q, i>>
        BY <1>0, <1>5, <1>7, <2>1, <2>2 DEF SplitEntry, Belongs
    <2>4. p \in Buckets /\ IsSorted(p) /\ q \in Buckets /\ IsSorted(q) /\ q.s = 0
        BY <1>0, <2>1, <2>2 DEF IsErasure, IsInsertion, IsParted
    <2>5. PICK t \in Nat : t = Len(p.e) /\ t + 1 = k
        BY <1>1, <2>1, <2>4, BucketFields DEF IsErasure
    <2>6. t + (n + 1) + 1 = l + i /\ \A j \in 1 .. t : j \in 1 .. k
        <3>1. t + 1 = k
            BY <2>5
        <3> QED BY <1>2, <3>1, SMT
    <2>7. Ents(p) \cup {x} = Ents(a) /\ Ents(q) = Ents(d) \cup {x}
        BY <1>5, <2>1, <2>2 DEF IsErasure, IsInsertion
    <2>8. Ents(p) \subseteq Ents(b) /\ Ents(b) \subseteq Ents(p) \cup Ents(q)
        BY <1>0, <1>6, <2>7 DEF IsParted
    <2>9. \A y \in Ents(q) : y \in Ents(b) /\ Belongs(y, n2, nb, m)
        BY <1>0, <1>6, <1>7, <2>7 DEF IsParted
    <2>10. \A j \in 1 .. t : j < i => ~Belongs(p.e[j], n2, nb, m)
        BY <1>0, <1>1, <2>1, <2>5, <2>6 DEF IsErasure, IsParted
    <2>11. IsParted(p, q, i, b, n2, nb, m, n + 1)
        BY <1>1, <1>2, <2>4, <2>5, <2>6, <2>8, <2>9, <2>10 DEF IsParted
    <2> QED BY <2>3, <2>4, <2>11, PartOf
<1>8. CASE ~Belongs(x, n2, nb, m)
    <2>1. SplitEntry(s, n2, nb, m) = <<a, d, i + 1>>
        BY <1>0, <1>5, <1>8 DEF SplitEntry, Belongs
    <2>2. i + 1 \in Nat /\ i + 1 # 0 /\ k + (n + 1) + 1 = l + (i + 1)
        BY <1>2, SMT
    <2>3. \A j \in 1 .. k : j < i + 1 => j < i \/ j = i
        BY SMT
    <2>4. \A j \in 1 .. k : j < i + 1 => ~Belongs(a.e[j], n2, nb, m)
        BY <1>0, <1>1, <1>5, <1>8, <2>3 DEF IsParted
    <2>5. IsParted(a, d, i + 1, b, n2, nb, m, n + 1)
        BY <1>0, <1>1, <2>2, <2>4 DEF IsParted
    <2> QED BY <2>1, <2>2, <2>5, PartOf
<1> QED BY <1>7, <1>8

\* The loop over the entries of b parts them.
IsPartition(s, b, n2, nb, m) ==
    /\ s[1] \in Buckets /\ IsSorted(s[1])
    /\ Ents(s[1]) = {x \in Ents(b) : ~Belongs(x, n2, nb, m)}
    /\ s[2] \in Buckets /\ IsSorted(s[2]) /\ s[2].s = 0
    /\ Ents(s[2]) = {x \in Ents(b) : Belongs(x, n2, nb, m)}

LEMMA EntriesPart ==
    ASSUME NEW b \in Buckets, IsSorted(b), NEW n2, NEW nb, NEW m
    PROVE  IsPartition(SplitEntries(b, Empty, n2, nb, m), b, n2, nb, m)
<1> DEFINE part == [p \in Parts \X Nat |-> SplitEntry(p[1], n2, nb, m)]
           S == [n \in Nat |-> {s \in Parts : IsPartedInto(s, b, n2, nb, m, n)}]
<1>1. PICK l \in Nat : l = Len(b.e)
    BY BucketFields
<1>2. PICK last : last = Loop(part, <<b, Empty, 1>>, l) /\ SplitEntries(b, Empty, n2, nb, m) = last
    BY <1>1 DEF SplitEntries, Parts
<1>3. ASSUME NEW s \in Parts, NEW n \in Nat PROVE part[<<s, n>>] = SplitEntry(s, n2, nb, m)
    <2>1. <<s, n>> \in Parts \X Nat /\ <<s, n>>[1] = s
        OBVIOUS
    <2> QED BY <2>1
<1>4. \A n \in Nat : S[n] = {s \in Parts : IsPartedInto(s, b, n2, nb, m, n)}
    OBVIOUS
<1>5. \A s, n : IsPartedInto(s, b, n2, nb, m, n) => s \in Parts
    BY DEF IsPartedInto
<1> HIDE DEF part, S
<1>6. <<b, Empty, 1>> \in S[0]
    <2>1. 0 \in Nat /\ 1 \in Nat /\ 1 # 0 /\ l + 0 + 1 = l + 1 /\ \A j \in 1 .. l : ~(j < 1)
        BY SMT
    <2>2. Empty \in Buckets /\ IsSorted(Empty) /\ Ents(Empty) = {} /\ Empty.s = 0
        BY <2>1, NoEntries DEF Empty
    <2>3. IsParted(b, Empty, 1, b, n2, nb, m, 0)
        BY <1>1, <2>1, <2>2 DEF IsParted
    <2>4. IsPartedInto(<<b, Empty, 1>>, b, n2, nb, m, 0)
        BY <2>1, <2>2, <2>3, PartOf
    <2> QED BY <1>4, <1>5, <2>1, <2>4
<1>7. ASSUME NEW n \in Nat, NEW s \in S[n], n < l PROVE part[<<s, n + 1>>] \in S[n + 1]
    <2>1. n + 1 \in Nat
        BY SMT
    <2>2. s \in Parts /\ IsPartedInto(s, b, n2, nb, m, n)
        BY <1>4
    <2>3. IsPartedInto(SplitEntry(s, n2, nb, m), b, n2, nb, m, n + 1)
        BY <1>1, <1>7, <2>2, PartKeeps
    <2> QED BY <1>3, <1>4, <1>5, <2>1, <2>2, <2>3
<1>8. last \in S[l]
    BY <1>2, <1>6, <1>7, LoopReaches
<1>9. PICK a \in Buckets, d \in Buckets, i \in Nat :
          last[1] = a /\ last[2] = d /\ IsParted(a, d, i, b, n2, nb, m, l)
    BY <1>4, <1>8 DEF IsPartedInto, Parts
<1>10. PICK k \in Nat : k = Len(a.e)
    BY BucketFields
<1>11. k + l + 1 = l + i
    BY <1>1, <1>9, <1>10 DEF IsParted
<1>12. \A j \in 1 .. k : j < i
    BY <1>11, SMT
<1>13. \A x \in Ents(a) : ~Belongs(x, n2, nb, m)
    BY <1>9, <1>10, <1>12 DEF IsParted, Ents
<1>14. Ents(a) = {x \in Ents(b) : ~Belongs(x, n2, nb, m)}
    BY <1>9, <1>13 DEF IsParted
<1>15. Ents(d) = {x \in Ents(b) : Belongs(x, n2, nb, m)}
    BY <1>9, <1>13 DEF IsParted
<1> QED BY <1>2, <1>9, <1>14, <1>15 DEF IsPartition, IsParted

\* Of the entries S those that do not belong to bucket n2, and those that do.
Away(S, n2, nb, m) == {x \in S : ~Belongs(x, n2, nb, m)}
Home(S, n2, nb, m) == {x \in S : Belongs(x, n2, nb, m)}

\* The state of a split begun with writer w: no read was short, and A and B are
\* what is reached from the two buckets.
IsSplit(st, w, A, B) ==
    /\ st \in Splits /\ st.short = FALSE
    /\ IsWriter(st.w) /\ Later(w, st.w)
    /\ IsBucket(st.b1, st.w.df) /\ Contents(st.w.df, st.b1) = A
    /\ IsBucket(st.b2, st.w.df) /\ Contents(st.w.df, st.b2) = B

LEMMA SplitIs ==
    ASSUME NEW a, NEW d, NEW v, IsWriter(v), NEW w, Later(w, v), IsBucket(a, v.df), IsBucket(d, v.df),
           NEW A, NEW B, Contents(v.df, a) = A, Contents(v.df, d) = B,
           NEW st, st = [b1 |-> a, b2 |-> d, w |-> v, short |-> FALSE]
    PROVE  IsSplit(st, w, A, B)
<1>1. a \in Buckets /\ d \in Buckets /\ v \in Writers /\ FALSE \in BOOLEAN
    BY DEF IsBucket, IsWriter
<1>2. st \in Splits /\ st.b1 = a /\ st.b2 = d /\ st.w = v /\ st.short = FALSE
    BY <1>1 DEF Splits
<1> QED BY <1>2 DEF IsSplit

LEMMA ReinsertKeeps ==
    ASSUME NEW w, IsWriter(w), NEW A, NEW B, NEW st, IsSplit(st, w, A, B), NEW x \in Entries,
           NEW n2, NEW nb, NEW m
    PROVE  IsSplit(Reinsert(st, x, n2, nb, m), w, A \cup Away({x}, n2, nb, m),
                   B \cup Home({x}, n2, nb, m))
<1>1. PICK v, a, d : v = st.w /\ a = st.b1 /\ d = st.b2
    OBVIOUS
<1>2. /\ IsWriter(v) /\ Later(w, v) /\ IsBucket(a, v.df) /\ IsBucket(d, v.df)
      /\ Contents(v.df, a) = A /\ Contents(v.df, d) = B /\ st.short = FALSE
    BY <1>1 DEF IsSplit
<1>3. CASE Belongs(x, n2, nb, m)
    <2>1. PICK r : r = maybe_spill(d, v, kh.capacity)
        OBVIOUS
    <2>2. PICK c, u : c = insert(r.b, x.o, x.h) /\ u = r.w
        OBVIOUS
    <2>3. IsPut(c, u, d, v, x)
        BY <1>2, <2>1, <2>2, PutKeeps
    <2>4. Reinsert(st, x, n2, nb, m) = [b1 |-> a, b2 |-> c, w |-> u, short |-> FALSE]
        BY <1>1, <1>2, <1>3, <2>1, <2>2 DEF Reinsert, Belongs
    <2>5. IsWriter(u) /\ Later(v, u) /\ IsBucket(c, u.df) /\ Contents(u.df, c) = B \cup {x}
        BY <1>2, <2>3 DEF IsPut
    <2>6. Later(w, u)
        BY <1>2, <2>5, LaterAgain
    <2>7. Stays(a, v, u)
        BY <1>2, <2>5, BucketStays DEF Later
    <2>8. IsBucket(a, u.df) /\ Contents(u.df, a) = A
        BY <1>2, <2>7 DEF Stays
    <2>9. A \cup Away({x}, n2, nb, m) = A /\ B \cup Home({x}, n2, nb, m) = B \cup {x}
        BY <1>3 DEF Away, Home
    <2> QED BY <2>4, <2>5, <2>6, <2>8, <2>9, SplitIs
<1>4. CASE ~Belongs(x, n2, nb, m)
    <2>1. PICK r : r = maybe_spill(a, v, kh.capacity)
        OBVIOUS
    <2>2. PICK c, u : c = insert(r.b, x.o, x.h) /\ u = r.w
        OBVIOUS
    <2>3. IsPut(c, u, a, v, x)
        BY <1>2, <2>1, <2>2, PutKeeps
    <2>4. Reinsert(st, x, n2, nb, m) = [b1 |-> c, b2 |-> d, w |-> u, short |-> FALSE]
        BY <1>1, <1>2, <1>4, <2>1, <2>2 DEF Reinsert, Belongs
    <2>5. IsWriter(u) /\ Later(v, u) /\ IsBucket(c, u.df) /\ Contents(u.df, c) = A \cup {x}
        BY <1>2, <2>3 DEF IsPut
    <2>6. Later(w, u)
        BY <1>2, <2>5, LaterAgain
    <2>7. Stays(d, v, u)
        BY <1>2, <2>5, BucketStays DEF Later
    <2>8. IsBucket(d, u.df) /\ Contents(u.df, d) = B
        BY <1>2, <2>7 DEF Stays
    <2>9. A \cup Away({x}, n2, nb, m) = A \cup {x} /\ B \cup Home({x}, n2, nb, m) = B
        BY <1>4 DEF Away, Home
    <2> QED BY <2>4, <2>5, <2>6, <2>8, <2>9, SplitIs
<1> QED BY <1>3, <1>4

\* All entries of the spill b are inserted again.
LEMMA ReinsertAll ==
    ASSUME NEW w, IsWriter(w), NEW A, NEW B, NEW in, IsSplit(in, w, A, B), NEW b \in Buckets,
           NEW n2, NEW nb, NEW m, NEW reinsert,
           reinsert = [p \in Splits \X Nat |-> Reinsert(p[1], b.e[p[2]], n2, nb, m)]
    PROVE  IsSplit(Loop(reinsert, in, Len(b.e)), w, A \cup Away(Ents(b), n2, nb, m),
                   B \cup Home(Ents(b), n2, nb, m))
<1> DEFINE F(n) == {b.e[j] : j \in 1 .. n}
           SA(n) == A \cup Away(F(n), n2, nb, m)
           SB(n) == B \cup Home(F(n), n2, nb, m)
           S == [n \in Nat |-> {st \in Splits : IsSplit(st, w, SA(n), SB(n))}]
<1>1. PICK l \in Nat : l = Len(b.e)
    BY BucketFields
<1>2. ASSUME NEW st \in Splits, NEW n \in Nat
      PROVE  reinsert[<<st, n>>] = Reinsert(st, b.e[n], n2, nb, m)
    <2>1. <<st, n>> \in Splits \X Nat /\ <<st, n>>[1] = st /\ <<st, n>>[2] = n
        OBVIOUS
    <2> QED BY <2>1
<1>3. \A n \in Nat : S[n] = {st \in Splits : IsSplit(st, w, SA(n), SB(n))}
    OBVIOUS
<1>4. \A st, X, Y : IsSplit(st, w, X, Y) => st \in Splits
    BY DEF IsSplit
<1>5. SA(0) = A /\ SB(0) = B
    <2>1. 1 .. 0 = {}
        BY SMT
    <2> QED BY <2>1 DEF Away, Home
<1>6. F(l) = Ents(b)
    BY <1>1 DEF Ents
<1>7. ASSUME NEW n \in Nat
      PROVE  /\ SA(n + 1) = SA(n) \cup Away({b.e[n + 1]}, n2, nb, m)
             /\ SB(n + 1) = SB(n) \cup Home({b.e[n + 1]}, n2, nb, m)
    <2>1. \A j : j \in 1 .. n + 1 <=> j \in 1 .. n \/ j = n + 1
        BY SMT
    <2>2. F(n + 1) = F(n) \cup {b.e[n + 1]}
        BY <2>1
    <2> HIDE DEF F
    <2> QED BY <2>2 DEF Away, Home
<1>8. SA(l) = A \cup Away(Ents(b), n2, nb, m) /\ SB(l) = B \cup Home(Ents(b), n2, nb, m)
    BY <1>6
<1> HIDE DEF S, SA, SB, F
<1>9. in \in S[0]
    <2>1. 0 \in Nat
        BY SMT
    <2> QED BY <1>3, <1>4, <1>5, <2>1
<1>10. ASSUME NEW n \in Nat, NEW st \in S[n], n < l PROVE reinsert[<<st, n + 1>>] \in S[n + 1]
    <2>1. n + 1 \in Nat /\ n + 1 \in 1 .. l
        BY <1>10, SMT
    <2>2. st \in Splits /\ IsSplit(st, w, SA(n), SB(n))
        BY <1>3
    <2>3. PICK x \in Entries : x = b.e[n + 1]
        BY <1>1, <2>1, BucketFields
    <2>4. IsSplit(Reinsert(st, x, n2, nb, m), w, SA(n + 1), SB(n + 1))
        <3>1. IsSplit(Reinsert(st, x, n2, nb, m), w, SA(n) \cup Away({x}, n2, nb, m),
                      SB(n) \cup Home({x}, n2, nb, m))
            BY <2>2, ReinsertKeeps
        <3> QED BY <1>7, <2>3, <3>1
    <2> QED BY <1>2, <1>3, <1>4, <2>1, <2>2, <2>3, <2>4
<1>11. Loop(reinsert, in, l) \in S[l]
    BY <1>9, <1>10, LoopReaches
<1> QED BY <1>1, <1>3, <1>8, <1>11

\* A spill at position p, read back.
IsReadBack(r, b, w, A, B) == \E out : r = <<out, b.s>> /\ IsSplit(out, w, A, B)

LEMMA SpillParts ==
    ASSUME NEW w, IsWriter(w), NEW A, NEW B, NEW st, IsSplit(st, w, A, B), NEW p \in 1 .. Len(w.df),
           NEW n2, NEW nb, NEW m, NEW s, s = <<st, p>>, NEW b, b = w.df[p].b
    PROVE  IsReadBack(SplitSpill(s, n2, nb, m), b, w, A \cup Away(Ents(b), n2, nb, m),
                      B \cup Home(Ents(b), n2, nb, m))
<1>1. s[1] = st /\ s[2] = p
    OBVIOUS
<1>2. PICK v, a, d : v = st.w /\ a = st.b1 /\ d = st.b2
    OBVIOUS
<1>3. /\ IsWriter(v) /\ Later(w, v) /\ IsBucket(a, v.df) /\ IsBucket(d, v.df)
      /\ Contents(v.df, a) = A /\ Contents(v.df, d) = B /\ st.short = FALSE
    BY <1>2 DEF IsSplit
<1>4. PICK D, l, k, f : D = v.df /\ l = Len(D) /\ k = Len(w.df) /\ f = v.flushed
    OBVIOUS
<1>5. D \in Seq(Records) /\ l \in Nat /\ k \in Nat /\ k <= l /\ f \in Nat /\ f <= l
    BY <1>3, <1>4, WriterFields DEF Later, Grown, IsWriter
<1>6. p # 0 /\ p <= l /\ p \in Nat
    BY <1>4, <1>5, SMT
<1>7. D[p].b = b /\ b \in Buckets
    BY <1>3, <1>4, RecordFields DEF Later, Grown, IsWriter
<1>8. PICK u : u = FlushFor(v, p) /\ IsWriter(u) /\ u.df = D /\ ~(p > u.flushed)
    <2>1. CASE p > f
        <3>1. PICK u : u = [df |-> D, flushed |-> l]
            OBVIOUS
        <3>2. u \in Writers /\ u.df = D /\ u.flushed = l
            BY <1>5, <3>1, NewWriter
        <3>3. FlushFor(v, p) = u
            BY <1>4, <2>1, <3>1 DEF FlushFor, flush
        <3>4. l <= l /\ ~(p > l)
            BY <1>5, <1>6, SMT
        <3> QED BY <1>3, <1>4, <3>2, <3>3, <3>4 DEF IsWriter
    <2>2. CASE ~(p > f)
        BY <1>3, <1>4, <2>2 DEF FlushFor
    <2> QED BY <2>1, <2>2
<1>9. Later(w, u)
    BY <1>3, <1>4, <1>8 DEF Later
<1>10. PICK in : in = [b1 |-> a, b2 |-> d, w |-> u, short |-> FALSE]
    OBVIOUS
<1>11. IsSplit(in, w, A, B)
    <2>1. /\ IsBucket(a, u.df) /\ IsBucket(d, u.df)
          /\ Contents(u.df, a) = A /\ Contents(u.df, d) = B
        BY <1>3, <1>4, <1>8
    <2> QED BY <1>8, <1>9, <1>10, <2>1, SplitIs
<1>12. PICK reinsert : reinsert = [q \in Splits \X Nat |-> Reinsert(q[1], b.e[q[2]], n2, nb, m)]
    OBVIOUS
<1>13. SplitSpill(s, n2, nb, m) = <<Loop(reinsert, in, Len(b.e)), b.s>>
    <2>1. u.df[p].b = b /\ FlushFor(s[1].w, s[2]) = u
        BY <1>1, <1>2, <1>7, <1>8
    <2>2. (s[1].short \/ s[2] > u.flushed) = FALSE
        BY <1>1, <1>3, <1>8
    <2>3. [b1 |-> s[1].b1, b2 |-> s[1].b2, w |-> u, short |-> s[1].short \/ s[2] > u.flushed] = in
        BY <1>1, <1>2, <1>10, <2>2
    <2> QED BY <1>1, <1>6, <1>12, <2>1, <2>3 DEF SplitSpill
<1>14. IsSplit(Loop(reinsert, in, Len(b.e)), w, A \cup Away(Ents(b), n2, nb, m),
               B \cup Home(Ents(b), n2, nb, m))
    BY <1>7, <1>11, <1>12, ReinsertAll
<1> QED BY <1>13, <1>14 DEF IsReadBack

\* After n spills the next one is p: what has been inserted again and what is
\* still to come is what is reached from b.
IsSplitTo(s, w, T, n2, nb, m, n) ==
    /\ s \in Splits \X Nat
    /\ \E A, B :
          /\ IsSplit(s[1], w, A, B)
          /\ A \cup Away(Below(w.df, s[2]), n2, nb, m) = Away(T, n2, nb, m)
          /\ B \cup Home(Below(w.df, s[2]), n2, nb, m) = Home(T, n2, nb, m)
    /\ s[2] = 0 \/ s[2] + n <= Len(w.df)

LEMMA SpillKeepsParts ==
    ASSUME NEW w, IsWriter(w), NEW T, NEW n2, NEW nb, NEW m, NEW n \in Nat,
           NEW s, IsSplitTo(s, w, T, n2, nb, m, n)
    PROVE  IsSplitTo(SplitSpill(s, n2, nb, m), w, T, n2, nb, m, n + 1)
<1>1. PICK st \in Splits, p \in Nat : s = <<st, p>> /\ s[1] = st /\ s[2] = p
    <2>1. s \in Splits \X Nat
        BY DEF IsSplitTo
    <2>2. s = <<s[1], s[2]>> /\ s[1] \in Splits /\ s[2] \in Nat
        BY <2>1, SMT
    <2> QED BY <2>2
<1>2. PICK l \in Nat : l = Len(w.df)
    BY WriterFields
<1>3. PICK A, B :
          /\ IsSplit(st, w, A, B)
          /\ A \cup Away(Below(w.df, p), n2, nb, m) = Away(T, n2, nb, m)
          /\ B \cup Home(Below(w.df, p), n2, nb, m) = Home(T, n2, nb, m)
    BY <1>1 DEF IsSplitTo
<1>4. p = 0 \/ p + n <= l
    BY <1>1, <1>2 DEF IsSplitTo
<1>5. CASE p = 0
    <2>1. SplitSpill(s, n2, nb, m) = s
        BY <1>1, <1>5 DEF SplitSpill
    <2> QED BY <1>1, <1>5, <2>1 DEF IsSplitTo
<1>6. CASE p # 0
    <2>1. p \in 1 .. Len(w.df)
        BY <1>2, <1>4, <1>6, SMT
    <2>2. PICK b : b = w.df[p].b
        OBVIOUS
    <2>3. PICK out : /\ SplitSpill(s, n2, nb, m) = <<out, b.s>>
                     /\ IsSplit(out, w, A \cup Away(Ents(b), n2, nb, m),
                                B \cup Home(Ents(b), n2, nb, m))
        <3>1. IsReadBack(SplitSpill(s, n2, nb, m), b, w, A \cup Away(Ents(b), n2, nb, m),
                         B \cup Home(Ents(b), n2, nb, m))
            BY <1>1, <1>3, <2>1, <2>2, SpillParts
        <3> QED BY <3>1 DEF IsReadBack
    <2>4. PICK q \in Nat : q = b.s /\ q < p
        BY <2>1, <2>2, RecordFields DEF IsWriter, IsData
    <2>5. q + (n + 1) <= l
        BY <1>4, <1>6, <2>4, SMT
    <2>6. Below(w.df, p) = Ents(b) \cup Below(w.df, q)
        BY <2>1, <2>2, <2>4, BelowNext DEF IsWriter, Contents
    <2>7. PICK C, E : C = A \cup Away(Ents(b), n2, nb, m) /\ E = B \cup Home(Ents(b), n2, nb, m)
        OBVIOUS
    <2>8. /\ C \cup Away(Below(w.df, q), n2, nb, m) = Away(T, n2, nb, m)
          /\ E \cup Home(Below(w.df, q), n2, nb, m) = Home(T, n2, nb, m)
        <3>1. PICK X, Y : X = Ents(b) /\ Y = Below(w.df, q)
            OBVIOUS
        <3>2. /\ A \cup Away(X \cup Y, n2, nb, m) = Away(T, n2, nb, m)
              /\ B \cup Home(X \cup Y, n2, nb, m) = Home(T, n2, nb, m)
            BY <1>3, <2>6, <3>1
        <3>3. C = A \cup Away(X, n2, nb, m) /\ E = B \cup Home(X, n2, nb, m)
            BY <2>7, <3>1
        <3>4. A \cup Away(X \cup Y, n2, nb, m) = C \cup Away(Y, n2, nb, m)
            BY <3>3 DEF Away
        <3>5. B \cup Home(X \cup Y, n2, nb, m) = E \cup Home(Y, n2, nb, m)
            BY <3>3 DEF Home
        <3> QED BY <3>1, <3>2, <3>4, <3>5
    <2>9. PICK r : r = <<out, q>>
        OBVIOUS
    <2>10. r[1] = out /\ r[2] = q /\ r \in Splits \X Nat
        BY <2>3, <2>9 DEF IsSplit
    <2>11. IsSplitTo(r, w, T, n2, nb, m, n + 1)
        BY <1>2, <2>3, <2>5, <2>7, <2>8, <2>10 DEF IsSplitTo
    <2> QED BY <2>3, <2>4, <2>9, <2>11
<1> QED BY <1>5, <1>6

\* split leaves in b what does not belong to n2, and moves the rest.
LEMMA SplitParts ==
    ASSUME NEW w, IsWriter(w), NEW b, IsBucket(b, w.df), NEW n2, NEW nb, NEW m
    PROVE  IsSplit(split(b, Empty, n2, nb, m, w), w, Away(Contents(w.df, b), n2, nb, m),
                   Home(Contents(w.df, b), n2, nb, m))
<1>1. PICK T : T = Contents(w.df, b) /\ T = Ents(b) \cup Below(w.df, b.s)
    BY DEF Contents
<1>2. PICK l \in Nat : l = Len(w.df)
    BY WriterFields
<1>3. b \in Buckets /\ IsSorted(b) /\ b.s \in Nat /\ b.s <= l /\ (b.e = <<>> => b.s = 0)
    BY <1>2, BucketFields DEF IsBucket
<1>4. Later(w, w)
    BY LaterSame
<1>5. IsBucket(Empty, w.df) /\ Contents(w.df, Empty) = {}
    BY EmptyBucket
<1>6. 0 \in Nat /\ 0 <= l /\ Below(w.df, 0) = {}
    BY ReachNothing, SMT DEF IsWriter
<1>7. CASE b.e = <<>>
    <2>1. split(b, Empty, n2, nb, m, w) = [b1 |-> b, b2 |-> Empty, w |-> w, short |-> FALSE]
        BY <1>7 DEF split
    <2>2. Ents(b) = {}
        <3>1. Len(b.e) = 0 /\ 1 .. 0 = {}
            BY <1>7, SMT
        <3> QED BY <3>1 DEF Ents
    <2>3. T = {}
        BY <1>1, <1>3, <1>6, <1>7, <2>2
    <2>4. Contents(w.df, b) = Away(T, n2, nb, m) /\ Contents(w.df, Empty) = Home(T, n2, nb, m)
        BY <1>1, <1>5, <2>3 DEF Away, Home
    <2>5. IsSplit(split(b, Empty, n2, nb, m, w), w, Away(T, n2, nb, m), Home(T, n2, nb, m))
        BY <1>4, <1>5, <2>1, <2>4, SplitIs
    <2> QED BY <1>1, <2>5
<1>8. CASE b.e # <<>>
    <2> DEFINE spills == [p \in (Splits \X Nat) \X Nat |-> SplitSpill(p[1], n2, nb, m)]
               S == [n \in Nat |-> {s \in Splits \X Nat : IsSplitTo(s, w, T, n2, nb, m, n)}]
    <2>1. PICK s : s = SplitEntries(b, Empty, n2, nb, m) /\ IsPartition(s, b, n2, nb, m)
        BY <1>3, EntriesPart
    <2>2. PICK d : d = s[2] /\ d \in Buckets /\ IsSorted(d) /\ d.s = 0 /\ Ents(d) = Home(Ents(b), n2, nb, m)
        BY <2>1 DEF IsPartition, Home
    <2>3. PICK a : /\ a = [e |-> s[1].e, s |-> 0] /\ a \in Buckets /\ IsSorted(a) /\ a.s = 0
                   /\ Ents(a) = Away(Ents(b), n2, nb, m)
        <3>1. PICK c : c = s[1] /\ c \in Buckets /\ IsSorted(c) /\ Ents(c) = Away(Ents(b), n2, nb, m)
            BY <2>1 DEF IsPartition, Away
        <3>2. PICK a : a = [e |-> c.e, s |-> 0]
            OBVIOUS
        <3>3. a \in Buckets /\ a.e = c.e /\ a.s = 0
            BY <1>6, <3>1, <3>2, BucketFields, NewBucket
        <3>4. IsSorted(a) /\ Ents(a) = Ents(c)
            BY <3>1, <3>3 DEF IsSorted, Ents
        <3> QED BY <3>1, <3>2, <3>3, <3>4
    <2>4. PICK st : st = [b1 |-> a, b2 |-> d, w |-> w, short |-> FALSE]
        OBVIOUS
    <2>5. PICK last : last = Loop(spills, <<st, b.s>>, l) /\ split(b, Empty, n2, nb, m, w) = last[1]
        <3>1. split(b, Empty, n2, nb, m, w) = Loop(spills, <<st, b.s>>, l)[1]
            BY <1>2, <1>8, <2>1, <2>2, <2>3, <2>4 DEF split
        <3> QED BY <3>1
    <2>6. IsBucket(a, w.df) /\ IsBucket(d, w.df)
        BY <1>2, <1>6, <2>2, <2>3 DEF IsBucket
    <2>7. PICK A, B : A = Contents(w.df, a) /\ B = Contents(w.df, d)
        OBVIOUS
    <2>8. A = Away(Ents(b), n2, nb, m) /\ B = Home(Ents(b), n2, nb, m)
        BY <1>6, <2>2, <2>3, <2>7 DEF Contents
    <2>9. IsSplit(st, w, A, B)
        BY <1>4, <2>4, <2>6, <2>7, SplitIs
    <2>10. ASSUME NEW s1 \in Splits \X Nat, NEW n \in Nat
           PROVE  spills[<<s1, n>>] = SplitSpill(s1, n2, nb, m)
        <3>1. <<s1, n>> \in (Splits \X Nat) \X Nat /\ <<s1, n>>[1] = s1
            OBVIOUS
        <3> QED BY <3>1
    <2>11. \A n \in Nat : S[n] = {s1 \in Splits \X Nat : IsSplitTo(s1, w, T, n2, nb, m, n)}
        OBVIOUS
    <2>12. \A s1, n : IsSplitTo(s1, w, T, n2, nb, m, n) => s1 \in Splits \X Nat
        BY DEF IsSplitTo
    <2> HIDE DEF spills, S
    <2>13. <<st, b.s>> \in S[0]
        <3>1. PICK s1 : s1 = <<st, b.s>>
            OBVIOUS
        <3>2. s1 \in Splits \X Nat /\ s1[1] = st /\ s1[2] = b.s
            BY <1>3, <2>9, <3>1 DEF IsSplit
        <3>3. b.s + 0 <= l
            BY <1>3, SMT
        <3>4. /\ A \cup Away(Below(w.df, b.s), n2, nb, m) = Away(T, n2, nb, m)
              /\ B \cup Home(Below(w.df, b.s), n2, nb, m) = Home(T, n2, nb, m)
            BY <1>1, <2>8 DEF Away, Home
        <3>5. IsSplitTo(s1, w, T, n2, nb, m, 0)
            BY <1>2, <2>9, <3>2, <3>3, <3>4 DEF IsSplitTo
        <3> QED BY <1>6, <2>11, <2>12, <3>1, <3>5
    <2>14. ASSUME NEW n \in Nat, NEW s1 \in S[n], n < l PROVE spills[<<s1, n + 1>>] \in S[n + 1]
        <3>1. n + 1 \in Nat
            BY SMT
        <3>2. s1 \in Splits \X Nat /\ IsSplitTo(s1, w, T, n2, nb, m, n)
            BY <2>11
        <3>3. IsSplitTo(SplitSpill(s1, n2, nb, m), w, T, n2, nb, m, n + 1)
            BY <3>2, SpillKeepsParts
        <3> QED BY <2>10, <2>11, <2>12, <3>1, <3>2, <3>3
    <2>15. last \in S[l]
        BY <2>5, <2>13, <2>14, LoopReaches
    <2>16. IsSplitTo(last, w, T, n2, nb, m, l)
        BY <2>11, <2>15
    <2>17. last[2] = 0
        <3>1. last[2] \in Nat /\ (last[2] = 0 \/ last[2] + l <= l)
            BY <1>2, <2>16 DEF IsSplitTo
        <3> QED BY <3>1, SMT
    <2>18. PICK C, E : /\ IsSplit(last[1], w, C, E)
                       /\ C \cup Away({}, n2, nb, m) = Away(T, n2, nb, m)
                       /\ E \cup Home({}, n2, nb, m) = Home(T, n2, nb, m)
        BY <1>6, <2>16, <2>17 DEF IsSplitTo
    <2>19. C = Away(T, n2, nb, m) /\ E = Home(T, n2, nb, m)
        <3>1. Away({}, n2, nb, m) = {} /\ Home({}, n2, nb, m) = {}
            BY DEF Away, Home
        <3> QED BY <2>18, <3>1
    <2> QED BY <1>1, <2>5, <2>18, <2>19
<1> QED BY <1>7, <1>8

-----------------------------------------------------------------------------
(* The table *)

\* B are the nb buckets of a table with the entries X: each is found from the
\* bucket it belongs to, and nothing else is.
IsTable(B, nb, m, w, X) ==
    /\ IsWriter(w) /\ IsShape(nb, m) /\ X \subseteq Entries
    /\ \A i \in 0 .. nb - 1 :
          IsBucket(B[i], w.df) /\ Contents(w.df, B[i]) = Home(X, i, nb, m)

\* The buckets of C are those of B but for n.
IsBut(C, B, n, nb) == \A i \in 0 .. nb - 1 : i # n => C[i] = B[i]

IsTableOf(C, nb, m, w, X, v) == IsTable(C, nb, m, w, X) /\ Later(v, w)

\* Bucket n of B got the entry x.
LEMMA TableInsert ==
    ASSUME NEW B, NEW nb, NEW m, NEW w, NEW X, IsTable(B, nb, m, w, X), NEW x \in Entries,
           NEW n, n = bucket_index(x.h, nb, m), NEW capacity, NEW r, r = maybe_spill(B[n], w, capacity),
           NEW C, C[n] = insert(r.b, x.o, x.h), IsBut(C, B, n, nb)
    PROVE  IsTableOf(C, nb, m, r.w, X \cup {x}, w)
<1>1. IsWriter(w) /\ IsShape(nb, m) /\ X \subseteq Entries
    BY DEF IsTable
<1>2. n \in 0 .. nb - 1
    <2>1. x.h \in Nat
        BY DEF Entries
    <2> QED BY <1>1, <2>1, IndexOfShape
<1>3. IsBucket(B[n], w.df) /\ Contents(w.df, B[n]) = Home(X, n, nb, m)
    BY <1>2 DEF IsTable
<1>4. IsPut(C[n], r.w, B[n], w, x)
    BY <1>1, <1>3, PutKeeps
<1>5. IsWriter(r.w) /\ Later(w, r.w) /\ IsBucket(C[n], r.w.df)
      /\ Contents(r.w.df, C[n]) = Home(X, n, nb, m) \cup {x}
    BY <1>3, <1>4 DEF IsPut
<1>6. ASSUME NEW i \in 0 .. nb - 1
      PROVE  IsBucket(C[i], r.w.df) /\ Contents(r.w.df, C[i]) = Home(X \cup {x}, i, nb, m)
    <2>1. CASE i = n
        <3>1. Home(X \cup {x}, n, nb, m) = Home(X, n, nb, m) \cup {x}
            BY DEF Home, Belongs
        <3> QED BY <1>5, <2>1, <3>1
    <2>2. CASE i # n
        <3>1. IsBucket(B[i], w.df) /\ Contents(w.df, B[i]) = Home(X, i, nb, m)
            BY DEF IsTable
        <3>2. Grown(w.df, r.w.df)
            BY <1>5 DEF Later
        <3>3. Stays(B[i], w, r.w)
            BY <1>1, <1>5, <3>1, <3>2, BucketStays
        <3>4. Home(X \cup {x}, i, nb, m) = Home(X, i, nb, m)
            BY <2>2 DEF Home, Belongs
        <3>5. C[i] = B[i]
            BY <2>2 DEF IsBut
        <3> QED BY <3>1, <3>3, <3>4, <3>5 DEF Stays
    <2> QED BY <2>1, <2>2
<1> QED BY <1>1, <1>5, <1>6 DEF IsTable, IsTableOf

\* Bucket SplitFrom of B was split into itself and bucket SplitTo.
LEMMA TableSplit ==
    ASSUME NEW B, NEW nb, NEW m, NEW w, NEW X, IsTable(B, nb, m, w, X),
           NEW k, k = SplitModulus(nb, m), NEW n, n = SplitFrom(nb, m),
           NEW r, r = split(B[n], Empty, nb, nb + 1, k, w),
           NEW C, C[n] = r.b1, C[nb] = r.b2, IsBut(C, B, n, nb)
    PROVE  IsTableOf(C, nb + 1, k, r.w, X, w) /\ ~r.short
<1>1. IsWriter(w) /\ IsShape(nb, m) /\ X \subseteq Entries
    BY DEF IsTable
<1>2. IsShape(nb + 1, k) /\ n \in 0 .. nb - 1 /\ SplitTo(nb) = nb
    BY <1>1, SplitKeepsShape
<1>3. nb \in Nat
    BY <1>1 DEF IsShape
<1>4. n # nb /\ nb \notin 0 .. nb - 1 /\ \A i \in 0 .. (nb + 1) - 1 : i = nb \/ i \in 0 .. nb - 1
    BY <1>2, <1>3, SMT
<1>5. IsBucket(B[n], w.df) /\ Contents(w.df, B[n]) = Home(X, n, nb, m)
    BY <1>2 DEF IsTable
<1>6. PICK Y : Y = Home(X, n, nb, m) /\ IsSplit(r, w, Away(Y, nb, nb + 1, k), Home(Y, nb, nb + 1, k))
    <2>1. IsSplit(r, w, Away(Contents(w.df, B[n]), nb, nb + 1, k), Home(Contents(w.df, B[n]), nb, nb + 1, k))
        BY <1>1, <1>5, SplitParts
    <2> QED BY <1>5, <2>1
<1>7. ASSUME NEW x \in X
      PROVE  LET old == bucket_index(x.h, nb, m)
                 new == bucket_index(x.h, nb + 1, k)
             IN  old \in 0 .. nb - 1 /\ (new = old \/ (old = n /\ new = nb))
    <2>1. x.h \in Nat
        BY <1>1 DEF Entries
    <2> QED BY <1>1, <1>2, <2>1, IndexOfShape, SplitOfShape
<1>8. Away(Y, nb, nb + 1, k) = Home(X, n, nb + 1, k)
    BY <1>4, <1>6, <1>7 DEF Away, Home, Belongs
<1>9. Home(Y, nb, nb + 1, k) = Home(X, nb, nb + 1, k)
    BY <1>4, <1>6, <1>7 DEF Home, Belongs
<1>10. /\ IsWriter(r.w) /\ Later(w, r.w) /\ r.short = FALSE
       /\ IsBucket(C[n], r.w.df) /\ Contents(r.w.df, C[n]) = Home(X, n, nb + 1, k)
       /\ IsBucket(C[nb], r.w.df) /\ Contents(r.w.df, C[nb]) = Home(X, nb, nb + 1, k)
    BY <1>6, <1>8, <1>9 DEF IsSplit
<1>11. ASSUME NEW i \in 0 .. nb - 1, i # n
       PROVE  IsBucket(C[i], r.w.df) /\ Contents(r.w.df, C[i]) = Home(X, i, nb + 1, k)
    <2>1. IsBucket(B[i], w.df) /\ Contents(w.df, B[i]) = Home(X, i, nb, m)
        BY DEF IsTable
    <2>2. Grown(w.df, r.w.df)
        BY <1>10 DEF Later
    <2>3. Stays(B[i], w, r.w)
        BY <1>1, <1>10, <2>1, <2>2, BucketStays
    <2>4. Home(X, i, nb + 1, k) = Home(X, i, nb, m)
        BY <1>4, <1>7, <1>11 DEF Home, Belongs
    <2>5. C[i] = B[i]
        BY <1>11 DEF IsBut
    <2> QED BY <2>1, <2>3, <2>4, <2>5 DEF Stays
<1>12. \A i \in 0 .. (nb + 1) - 1 :
           IsBucket(C[i], r.w.df) /\ Contents(r.w.df, C[i]) = Home(X, i, nb + 1, k)
    BY <1>4, <1>10, <1>11
<1> QED BY <1>1, <1>2, <1>10, <1>12 DEF IsTable, IsTableOf

-----------------------------------------------------------------------------
(* The caches of a commit *)

\* A bucket as a reader finds it who looks into the cache c first.
BucketIn(c, i) == IF i \in DOMAIN c THEN c[i] ELSE kf[i + 1]
Held(c, nb) == [i \in 0 .. nb - 1 |-> BucketIn(c, i)]

IsWith(d, c, n, b) ==
    /\ DOMAIN d = DOMAIN c \cup {n}
    /\ \A i : BucketIn(d, i) = IF i = n THEN b ELSE BucketIn(c, i)

LEMMA WithOne ==
    ASSUME NEW c, NEW n, NEW b PROVE IsWith(With(c, n, b), c, n, b)
BY DEF With, BucketIn, IsWith

\* load brings a bucket into the caches and changes none.
IsLoaded(ld, st, n) ==
    /\ DOMAIN ld.c0 \subseteq DOMAIN ld.c1 /\ n \in DOMAIN ld.c1
    /\ \A i : BucketIn(ld.c1, i) = BucketIn(st.c1, i)
    /\ ld.c1[n] = BucketIn(st.c1, n)

LEMMA LoadKeeps ==
    ASSUME NEW st, NEW n, DOMAIN st.c0 \subseteq DOMAIN st.c1
    PROVE  IsLoaded(load(st, n), st, n)
<1>1. PICK f, g : f = st.c0 /\ g = st.c1 /\ DOMAIN f \subseteq DOMAIN g
    OBVIOUS
<1>2. CASE n \in DOMAIN g
    <2>1. PICK ld : ld = load(st, n) /\ ld.c0 = f /\ ld.c1 = g
        <3>1. load(st, n) = [c0 |-> f, c1 |-> g]
            BY <1>1, <1>2 DEF load
        <3>2. load(st, n).c0 = f /\ load(st, n).c1 = g
            BY <3>1, SMT
        <3> QED BY <3>2
    <2>2. g[n] = BucketIn(g, n)
        BY <1>2 DEF BucketIn
    <2> QED BY <1>1, <1>2, <2>1, <2>2 DEF IsLoaded
<1>3. CASE n \notin DOMAIN g
    <2>1. n \notin DOMAIN f
        BY <1>1, <1>3
    <2>2. PICK b, p, q : b = kf[n + 1] /\ p = With(f, n, b) /\ q = With(g, n, b)
        OBVIOUS
    <2>3. PICK ld : ld = load(st, n) /\ ld.c0 = p /\ ld.c1 = q
        <3>1. load(st, n) = [c0 |-> p, c1 |-> q]
            BY <1>1, <1>3, <2>1, <2>2 DEF load
        <3>2. load(st, n).c0 = p /\ load(st, n).c1 = q
            BY <3>1, SMT
        <3> QED BY <3>2
    <2>4. IsWith(p, f, n, b) /\ IsWith(q, g, n, b)
        BY <2>2, WithOne
    <2>5. DOMAIN p = DOMAIN f \cup {n} /\ DOMAIN q = DOMAIN g \cup {n}
        BY <2>4 DEF IsWith
    <2>6. b = BucketIn(g, n)
        BY <1>3, <2>2 DEF BucketIn
    <2>7. \A i : BucketIn(q, i) = BucketIn(g, i)
        BY <2>4, <2>6 DEF IsWith
    <2>8. q[n] = BucketIn(q, n)
        BY <2>5 DEF BucketIn
    <2> QED BY <1>1, <2>3, <2>5, <2>7, <2>8 DEF IsLoaded
<1> QED BY <1>2, <1>3

\* What a round of commit works on: a table with the entries X.
IsCommit(st, X) ==
    /\ DOMAIN st.c0 \subseteq DOMAIN st.c1 /\ st.short = FALSE
    /\ IsTable(Held(st.c1, st.buckets), st.buckets, st.modulus, st.w, X)

\* One insert: the table has one entry more.
IsInsertOne(r, st, X, x) ==
    /\ IsCommit(r, X \cup {x}) /\ Later(st.w, r.w) /\ IsWriter(r.w)
    /\ r.buckets = st.buckets /\ r.modulus = st.modulus /\ r.c1 # NoCache

LEMMA InsertOneKeeps ==
    ASSUME NEW st, NEW X, IsCommit(st, X), NEW k, hash[k] \in Nat, NEW o \in Nat,
           NEW x, x = [h |-> hash[k], o |-> o]
    PROVE  IsInsertOne(InsertOne(st, k, o), st, X, x)
<1>1. PICK nb, m, w : nb = st.buckets /\ m = st.modulus /\ w = st.w
    OBVIOUS
<1>2. PICK g, B : g = st.c1 /\ B = Held(g, nb)
    OBVIOUS
<1>3. IsTable(B, nb, m, w, X) /\ DOMAIN st.c0 \subseteq DOMAIN st.c1 /\ st.short = FALSE
    BY <1>1, <1>2 DEF IsCommit
<1>4. x \in Entries /\ x.h = hash[k] /\ x.o = o
    BY NewEntry
<1>5. PICK n : n = bucket_index(x.h, nb, m)
    OBVIOUS
<1>6. n \in 0 .. nb - 1
    BY <1>3, <1>4, <1>5, IndexOfShape DEF IsTable
<1>7. PICK ld : ld = load(st, n) /\ IsLoaded(ld, st, n)
    BY <1>3, LoadKeeps
<1>8. B[n] = ld.c1[n]
    BY <1>2, <1>6, <1>7 DEF IsLoaded, Held
<1>9. PICK r : r = maybe_spill(B[n], w, kh.capacity)
    OBVIOUS
<1>10. PICK c, q : c = insert(r.b, x.o, x.h) /\ q = With(ld.c1, n, c)
    OBVIOUS
<1>11. DOMAIN q = DOMAIN ld.c1 \cup {n} /\ \A i : BucketIn(q, i) = IF i = n THEN c ELSE BucketIn(ld.c1, i)
    <2>1. IsWith(q, ld.c1, n, c)
        BY <1>10, WithOne
    <2> QED BY <2>1 DEF IsWith
<1>12. PICK C : C = Held(q, nb)
    OBVIOUS
<1>13. C[n] = c
    BY <1>6, <1>11, <1>12 DEF Held
<1>14. ASSUME NEW i \in 0 .. nb - 1, i # n PROVE C[i] = B[i]
    <2>1. C[i] = BucketIn(q, i) /\ B[i] = BucketIn(g, i)
        BY <1>2, <1>12 DEF Held
    <2> QED BY <1>2, <1>7, <1>11, <1>14, <2>1 DEF IsLoaded
<1>15. IsTable(C, nb, m, r.w, X \cup {x}) /\ Later(w, r.w)
    <2>1. IsBut(C, B, n, nb)
        BY <1>14 DEF IsBut
    <2>2. IsTableOf(C, nb, m, r.w, X \cup {x}, w)
        BY <1>3, <1>4, <1>5, <1>9, <1>10, <1>13, <2>1, TableInsert
    <2> QED BY <2>2 DEF IsTableOf
<1>16. PICK out : out = InsertOne(st, k, o)
    OBVIOUS
<1>17. out = [c0 |-> ld.c0, c1 |-> q, w |-> r.w, short |-> FALSE, buckets |-> nb,
              modulus |-> m, frac |-> st.frac]
    BY <1>1, <1>3, <1>4, <1>5, <1>7, <1>8, <1>9, <1>10, <1>16 DEF InsertOne
<1>18. DOMAIN ld.c0 \subseteq DOMAIN q
    BY <1>7, <1>11 DEF IsLoaded
<1>19. /\ out.c0 = ld.c0 /\ out.c1 = q /\ out.w = r.w /\ out.short = FALSE
       /\ out.buckets = nb /\ out.modulus = m
    BY <1>17, SMT
<1>20. IsCommit(out, X \cup {x})
    BY <1>12, <1>15, <1>18, <1>19 DEF IsCommit
<1>21. q # NoCache
    <2>1. DOMAIN NoCache = {}
        BY DEF NoCache
    <2> QED BY <1>11, <2>1
<1> QED BY <1>1, <1>15, <1>16, <1>19, <1>20, <1>21 DEF IsInsertOne, IsTable

\* One split: the table has one bucket more and the same entries.
IsSplitOne(r, st, X) ==
    /\ IsCommit(r, X) /\ Later(st.w, r.w) /\ IsWriter(r.w)
    /\ r.buckets = st.buckets + 1 /\ r.modulus = SplitModulus(st.buckets, st.modulus)

LEMMA SplitOneKeeps ==
    ASSUME NEW st, NEW X, IsCommit(st, X) PROVE IsSplitOne(SplitOne(st), st, X)
<1>1. PICK nb, m, w : nb = st.buckets /\ m = st.modulus /\ w = st.w
    OBVIOUS
<1>2. PICK g, B : g = st.c1 /\ B = Held(g, nb)
    OBVIOUS
<1>3. IsTable(B, nb, m, w, X) /\ DOMAIN st.c0 \subseteq DOMAIN st.c1 /\ st.short = FALSE
    BY <1>1, <1>2 DEF IsCommit
<1>4. PICK k, n : k = SplitModulus(nb, m) /\ n = SplitFrom(nb, m)
    OBVIOUS
<1>5. IsShape(nb, m) /\ nb \in Nat
    BY <1>3 DEF IsTable, IsShape
<1>6. n \in 0 .. nb - 1 /\ SplitTo(nb) = nb
    BY <1>4, <1>5, SplitKeepsShape
<1>7. /\ n # nb /\ n \in 0 .. (nb + 1) - 1 /\ nb \in 0 .. (nb + 1) - 1
      /\ \A i \in 0 .. nb - 1 : i # nb /\ i \in 0 .. (nb + 1) - 1
    BY <1>5, <1>6, SMT
<1>8. PICK ld : ld = load(st, n) /\ IsLoaded(ld, st, n)
    BY <1>3, LoadKeeps
<1>9. B[n] = ld.c1[n]
    BY <1>2, <1>6, <1>8 DEF IsLoaded, Held
<1>10. PICK r : r = split(B[n], Empty, nb, nb + 1, k, w)
    OBVIOUS
<1>11. PICK p, q : p = With(ld.c1, n, r.b1) /\ q = With(p, nb, r.b2)
    OBVIOUS
<1>12. /\ DOMAIN p = DOMAIN ld.c1 \cup {n} /\ DOMAIN q = DOMAIN p \cup {nb}
       /\ \A i : BucketIn(p, i) = IF i = n THEN r.b1 ELSE BucketIn(ld.c1, i)
       /\ \A i : BucketIn(q, i) = IF i = nb THEN r.b2 ELSE BucketIn(p, i)
    <2>1. IsWith(p, ld.c1, n, r.b1) /\ IsWith(q, p, nb, r.b2)
        BY <1>11, WithOne
    <2> QED BY <2>1 DEF IsWith
<1>13. PICK C : C = Held(q, nb + 1) /\ \A i \in 0 .. (nb + 1) - 1 : C[i] = BucketIn(q, i)
    <2>1. \A i \in 0 .. (nb + 1) - 1 : Held(q, nb + 1)[i] = BucketIn(q, i)
        BY DEF Held
    <2> QED BY <2>1
<1>14. C[n] = r.b1 /\ C[nb] = r.b2
    BY <1>7, <1>12, <1>13
<1>15. ASSUME NEW i \in 0 .. nb - 1, i # n PROVE C[i] = B[i]
    <2>1. C[i] = BucketIn(q, i) /\ B[i] = BucketIn(g, i)
        BY <1>2, <1>7, <1>13 DEF Held
    <2> QED BY <1>2, <1>7, <1>8, <1>12, <1>15, <2>1 DEF IsLoaded
<1>16. IsTable(C, nb + 1, k, r.w, X) /\ Later(w, r.w) /\ ~r.short
    <2>1. IsBut(C, B, n, nb)
        BY <1>15 DEF IsBut
    <2>2. IsTableOf(C, nb + 1, k, r.w, X, w) /\ ~r.short
        BY <1>3, <1>4, <1>10, <1>14, <2>1, TableSplit
    <2> QED BY <2>2 DEF IsTableOf
<1>17. PICK out : out = SplitOne(st)
    OBVIOUS
<1>18. out = [c0 |-> ld.c0, c1 |-> q, w |-> r.w, short |-> FALSE, buckets |-> nb + 1,
              modulus |-> k, frac |-> st.frac - Thresh]
    <2>1. (st.short \/ r.short) = FALSE
        BY <1>3, <1>16
    <2> QED BY <1>1, <1>4, <1>6, <1>8, <1>9, <1>10, <1>11, <1>17, <2>1 DEF SplitOne
<1>19. DOMAIN ld.c0 \subseteq DOMAIN q
    BY <1>8, <1>12 DEF IsLoaded
<1>20. /\ out.c0 = ld.c0 /\ out.c1 = q /\ out.w = r.w /\ out.short = FALSE
       /\ out.buckets = nb + 1 /\ out.modulus = k
    BY <1>18, SMT
<1>21. IsCommit(out, X)
    BY <1>13, <1>16, <1>19, <1>20 DEF IsCommit
<1> QED BY <1>1, <1>4, <1>16, <1>17, <1>20, <1>21 DEF IsSplitOne, IsTable

-----------------------------------------------------------------------------
(* fetch *)

LEMMA Least ==
    ASSUME NEW S \in SUBSET Nat, S # {} PROVE \E i \in S : \A j \in S : i <= j
<1> SUFFICES ASSUME \A i \in S : \E j \in S : ~(i <= j) PROVE FALSE
    OBVIOUS
<1> DEFINE P == {n \in Nat : \A i \in S : n <= i}
<1>1. 0 \in P
    BY SMT
<1>2. ASSUME NEW n \in Nat, n \in P PROVE n + 1 \in P
    <2>1. \A i \in S : i \in Nat /\ n <= i
        BY <1>2
    <2>2. n \notin S
        BY <2>1
    <2>3. \A i \in S : i # n
        BY <2>2
    <2>4. n + 1 \in Nat /\ \A i \in S : n + 1 <= i
        BY <2>1, <2>3, SMT
    <2> QED BY <2>4
<1> HIDE DEF P
<1>3. \A n \in Nat : n \in P
    BY <1>1, <1>2, Induction
<1>4. PICK i \in Nat : i \in S
    OBVIOUS
<1>5. i + 1 \in Nat /\ ~(i + 1 <= i)
    BY SMT
<1> QED BY <1>3, <1>4, <1>5 DEF P

\* The entry is that of key k, with hash h.
Hit(x, k, h) == x.h = h /\ df[x.o].key = k

LEMMA FetchInFinds ==
    ASSUME NEW k, NEW h \in Nat, NEW b \in Buckets, IsSorted(b), \A x \in Ents(b) : x.o # 0
    PROVE  FetchIn(k, h, b) \in Nat /\ (FetchIn(k, h, b) # 0 <=> \E x \in Ents(b) : Hit(x, k, h))
<1> DEFINE c == lower_bound(b, h)
           l == Len(b.e)
           e == b.e
           run == {i \in c + 1 .. l : \A j \in c + 1 .. i : e[j].h = h}
           hits == {i \in run : df[e[i].o].key = k}
<1>1. c \in Nat /\ IsBound(c, b, h)
    BY LowerBound DEF IsBound
<1>2. l \in Nat /\ l = Len(b.e) /\ e = b.e
    BY BucketFields
<1>3. \A i \in 1 .. l : e[i].h \in Nat /\ e[i].o \in Nat /\ e[i] \in Ents(b) /\ e[i].o # 0
    BY BucketFields DEF Ents
<1>4. FetchIn(k, h, b) = IF hits = {} THEN 0 ELSE e[CHOOSE i \in hits : \A j \in hits : i <= j].o
    BY DEF FetchIn
<1> HIDE DEF c, l, e
<1>5. ASSUME NEW i \in hits PROVE i \in 1 .. l /\ Hit(e[i], k, h)
    <2>1. i \in c + 1 .. l /\ (\A j \in c + 1 .. i : e[j].h = h) /\ df[e[i].o].key = k
        OBVIOUS
    <2>2. i \in 1 .. l /\ i \in c + 1 .. i
        BY <1>1, <1>2, <2>1, SMT
    <2> QED BY <2>1, <2>2 DEF Hit
<1>6. ASSUME NEW i \in 1 .. l, Hit(e[i], k, h) PROVE i \in hits
    <2>1. e[i].h = h /\ df[e[i].o].key = k
        BY <1>6 DEF Hit
    <2>2. ~(e[i].h < h)
        <3>1. ~(h < h)
            BY SMT
        <3> QED BY <2>1, <3>1
    <2>3. ~(i <= c)
        BY <1>1, <1>2, <2>2 DEF IsBound
    <2>4. ASSUME NEW j \in c + 1 .. i PROVE e[j].h = h
        <3>1. j \in 1 .. l /\ c < j /\ (j < i \/ j = i)
            BY <1>1, <1>2, SMT
        <3>2. h <= e[j].h
            BY <1>1, <1>2, <3>1 DEF IsBound
        <3>3. j < i => e[j].h <= e[i].h
            BY <1>2, <3>1 DEF IsSorted
        <3>4. PICK u \in Nat : u = e[j].h
            BY <1>3, <3>1
        <3>5. u <= h /\ h <= u => u = h
            BY SMT
        <3> QED BY <2>1, <3>1, <3>2, <3>3, <3>4, <3>5
    <2>5. i \in c + 1 .. l
        BY <1>1, <1>2, <2>3, SMT
    <2> QED BY <2>1, <2>4, <2>5
<1>7. hits \in SUBSET Nat
    BY <1>1, <1>2, SMT
<1> HIDE DEF hits, run
<1>8. CASE hits = {}
    <2>1. \A x \in Ents(b) : ~Hit(x, k, h)
        BY <1>2, <1>6, <1>8 DEF Ents
    <2>2. 0 \in Nat
        BY SMT
    <2> QED BY <1>4, <1>8, <2>1, <2>2
<1>9. CASE hits # {}
    <2>1. PICK i : i = CHOOSE n \in hits : \A j \in hits : n <= j
        OBVIOUS
    <2>2. i \in hits
        BY <1>7, <1>9, <2>1, Least
    <2>3. FetchIn(k, h, b) = e[i].o /\ i \in 1 .. l /\ Hit(e[i], k, h)
        BY <1>4, <1>5, <1>9, <2>1, <2>2
    <2> QED BY <1>3, <2>3
<1> QED BY <1>8, <1>9

\* After n spills: what was found is there, and if nothing was, all hits are
\* further down.
IsFetched(s, k, h, b, n) ==
    /\ s \in Buckets \X Nat /\ IsSorted(s[1]) /\ s[1].s <= Len(df)
    /\ Below(df, s[1].s) \subseteq Contents(df, b)
    /\ s[2] # 0 => \E x \in Contents(df, b) : Hit(x, k, h)
    /\ s[2] = 0 => \A x \in Contents(df, b) : Hit(x, k, h) => x \in Below(df, s[1].s)
    /\ s[2] # 0 \/ s[1].s = 0 \/ s[1].s + n <= Len(df)

LEMMA FetchKeeps ==
    ASSUME IsData(df), NEW k, NEW h \in Nat, NEW b, \A x \in Contents(df, b) : x.o # 0,
           NEW n \in Nat, NEW s, IsFetched(s, k, h, b, n)
    PROVE  IsFetched(FetchRound(s, k, h), k, h, b, n + 1)
<1>1. PICK a \in Buckets, r \in Nat : s[1] = a /\ s[2] = r
    BY DEF IsFetched
<1>2. CASE r # 0 \/ a.s = 0
    <2>1. FetchRound(s, k, h) = s
        BY <1>1, <1>2 DEF FetchRound
    <2> QED BY <1>1, <1>2, <2>1 DEF IsFetched
<1>3. CASE r = 0 /\ a.s # 0
    <2>1. PICK p \in Nat, l \in Nat : p = a.s /\ l = Len(df)
        BY BucketFields, RecordFields
    <2>2. p <= l /\ p + n <= l
        BY <1>1, <1>3, <2>1 DEF IsFetched
    <2>3. p \in 1 .. Len(df)
        BY <1>3, <2>1, <2>2, SMT
    <2>4. PICK d, f : d = df[p].b /\ f = FetchIn(k, h, d)
        OBVIOUS
    <2>5. d \in Buckets /\ IsSorted(d) /\ d.s \in Nat /\ d.s < p
        BY <2>3, <2>4, RecordFields DEF IsData
    <2>6. Below(df, p) = Ents(d) \cup Below(df, d.s)
        BY <2>3, <2>4, BelowNext DEF Contents
    <2>7. Ents(d) \subseteq Contents(df, b) /\ Below(df, d.s) \subseteq Contents(df, b)
        BY <1>1, <2>1, <2>6 DEF IsFetched
    <2>8. f \in Nat /\ (f # 0 <=> \E x \in Ents(d) : Hit(x, k, h))
        BY <2>4, <2>5, <2>7, FetchInFinds
    <2>9. FetchRound(s, k, h) = <<d, f>>
        <3>1. s[2] = 0 /\ s[1].s # 0 /\ df[s[1].s].b = d
            BY <1>1, <1>3, <2>1, <2>4
        <3> QED BY <2>4, <3>1 DEF FetchRound
    <2>10. PICK t : t = <<d, f>>
        OBVIOUS
    <2>11. t \in Buckets \X Nat /\ t[1] = d /\ t[2] = f
        BY <2>5, <2>8, <2>10
    <2>12. d.s <= l /\ d.s + (n + 1) <= l
        BY <2>2, <2>5, SMT
    <2>13. \A x \in Contents(df, b) : Hit(x, k, h) => x \in Below(df, p)
        BY <1>1, <1>3, <2>1 DEF IsFetched
    <2>14. IsFetched(t, k, h, b, n + 1)
        BY <2>1, <2>5, <2>6, <2>7, <2>8, <2>11, <2>12, <2>13 DEF IsFetched
    <2> QED BY <2>9, <2>10, <2>14
<1> QED BY <1>2, <1>3

\* fetch finds a key in a bucket and its spills if and only if it is there.
LEMMA FetchFinds ==
    ASSUME IsData(df), NEW k, NEW h \in Nat, NEW b, IsBucket(b, df),
           \A x \in Contents(df, b) : x.o # 0
    PROVE  fetch(k, h, b) # 0 <=> \E x \in Contents(df, b) : Hit(x, k, h)
<1> DEFINE go == [p \in (Buckets \X Nat) \X Nat |-> FetchRound(p[1], k, h)]
           S == [n \in Nat |-> {s \in Buckets \X Nat : IsFetched(s, k, h, b, n)}]
<1>0. PICK l \in Nat : l = Len(df)
    BY RecordFields
<1>1. PICK f : l = Len(df) /\ f = FetchIn(k, h, b)
    BY <1>0
<1>2. PICK last : last = Loop(go, <<b, f>>, l) /\ fetch(k, h, b) = last[2]
    BY <1>1 DEF fetch
<1>3. ASSUME NEW s \in Buckets \X Nat, NEW n \in Nat PROVE go[<<s, n>>] = FetchRound(s, k, h)
    <2>1. <<s, n>> \in (Buckets \X Nat) \X Nat /\ <<s, n>>[1] = s
        OBVIOUS
    <2> QED BY <2>1
<1>4. \A n \in Nat : S[n] = {s \in Buckets \X Nat : IsFetched(s, k, h, b, n)}
    OBVIOUS
<1>5. \A s, n : IsFetched(s, k, h, b, n) => s \in Buckets \X Nat
    BY DEF IsFetched
<1> HIDE DEF go, S
<1>6. <<b, f>> \in S[0]
    <2>1. b \in Buckets /\ IsSorted(b) /\ b.s \in Nat /\ b.s <= l
        BY <1>1, BucketFields DEF IsBucket
    <2>2. 0 \in Nat /\ b.s + 0 <= l
        BY <2>1, SMT
    <2>3. \A x : x \in Contents(df, b) <=> x \in Ents(b) \/ x \in Below(df, b.s)
        BY DEF Contents
    <2>4. \A x \in Ents(b) : x.o # 0
        BY <2>3
    <2>5. f \in Nat /\ (f # 0 <=> \E x \in Ents(b) : Hit(x, k, h))
        BY <1>1, <2>1, <2>4, FetchInFinds
    <2>6. PICK s : s = <<b, f>>
        OBVIOUS
    <2>7. s \in Buckets \X Nat /\ s[1] = b /\ s[2] = f
        BY <2>1, <2>5, <2>6
    <2>8. IsFetched(s, k, h, b, 0)
        BY <1>1, <2>1, <2>2, <2>3, <2>5, <2>7 DEF IsFetched
    <2> QED BY <1>4, <1>5, <2>2, <2>6, <2>8
<1>7. ASSUME NEW n \in Nat, NEW s \in S[n], n < l PROVE go[<<s, n + 1>>] \in S[n + 1]
    <2>1. n + 1 \in Nat
        BY SMT
    <2>2. s \in Buckets \X Nat /\ IsFetched(s, k, h, b, n)
        BY <1>4
    <2>3. IsFetched(FetchRound(s, k, h), k, h, b, n + 1)
        BY <2>2, FetchKeeps
    <2>4. go[<<s, n + 1>>] = FetchRound(s, k, h)
        BY <1>3, <2>1, <2>2
    <2>5. FetchRound(s, k, h) \in S[n + 1]
        BY <1>4, <1>5, <2>1, <2>3
    <2> QED BY <2>4, <2>5
<1>8. last \in S[l]
    BY <1>2, <1>6, <1>7, LoopReaches
<1>9. IsFetched(last, k, h, b, l)
    BY <1>4, <1>8
<1>10. PICK a \in Buckets, r \in Nat : last[1] = a /\ last[2] = r
    BY <1>9 DEF IsFetched
<1>11. CASE r # 0
    BY <1>2, <1>9, <1>10, <1>11 DEF IsFetched
<1>12. CASE r = 0
    <2>1. a.s \in Nat /\ (a.s = 0 \/ a.s + l <= l)
        BY <1>1, <1>9, <1>10, <1>12, BucketFields DEF IsFetched
    <2>2. a.s = 0
        BY <2>1, SMT
    <2>3. Below(df, a.s) = {}
        BY <2>2, ReachNothing
    <2> QED BY <1>2, <1>9, <1>10, <1>12, <2>3 DEF IsFetched
<1> QED BY <1>11, <1>12

-----------------------------------------------------------------------------
(* The invariant *)

Disk == [df |-> df, flushed |-> flushed]

\* The values commit has still to insert, and the entries of values S.
Waiting == {batch[i].o : i \in 1 .. Len(batch)}
EntryFor(hf, D, o) == [h |-> hf[D[o].key], o |-> o]
IndexOf(hf, D, S) == {EntryFor(hf, D, o) : o \in S}

\* The buckets index the values that are not waiting.
TableOK ==
    IsTable(Held(c1, buckets), buckets, modulus, Disk, IndexOf(hash, df, Values \ Waiting))

\* No two values have the same key.
DataOK ==
    /\ hash \in HashFunctions
    /\ \A o \in Values : df[o].key \in Keys
    /\ \A o, p \in Values : df[o].key = df[p].key => o = p

\* The batch names values of the data file, each once.
BatchOK ==
    /\ batch \in Seq([key : Keys, o : Nat])
    /\ \A i \in 1 .. Len(batch) : batch[i].o \in Values /\ df[batch[i].o].key = batch[i].key
    /\ \A i, j \in 1 .. Len(batch) : batch[i].o = batch[j].o => i = j

\* Between commits all is in the files.
FilesOK ==
    /\ DOMAIN c0 \subseteq DOMAIN c1 /\ short = FALSE
    /\ c1 = NoCache => Len(kf) = buckets
    /\ c1 = NoCache /\ batch = <<>> => flushed = Len(df)
    /\ opened \/ (batch = <<>> /\ c1 = NoCache)

\* The modulus is the one open computes: there is a bucket more for an insert
\* at most.
SizeOK ==
    /\ \E i \in Nat : modulus = Pow2(i)
    /\ buckets <= 1 + MaxRekeyBuckets + Cardinality(Stored)

IInv == TableOK /\ DataOK /\ BatchOK /\ FilesOK /\ SizeOK

LEMMA DiskFields == Disk.df = df /\ Disk.flushed = flushed
BY DEF Disk

LEMMA StoredIs == DataOK /\ BatchOK => Stored = {df[o].key : o \in Values \ Waiting}
<1> SUFFICES ASSUME DataOK, BatchOK PROVE Stored = {df[o].key : o \in Values \ Waiting}
    OBVIOUS
<1>1. ASSUME NEW o \in Values \ Waiting PROVE df[o].key \in Stored
    <2>1. ASSUME NEW i \in 1 .. Len(batch), batch[i].key = df[o].key PROVE FALSE
        <3>1. batch[i].o \in Values /\ df[batch[i].o].key = df[o].key
            BY <2>1 DEF BatchOK
        <3>2. batch[i].o = o
            BY <3>1 DEF DataOK
        <3> QED BY <3>2 DEF Waiting
    <2> QED BY <2>1 DEF Stored, Pending
<1>2. ASSUME NEW k \in Stored PROVE k \in {df[o].key : o \in Values \ Waiting}
    <2>1. PICK o \in Values : k = df[o].key /\ k \notin Pending
        BY DEF Stored
    <2>2. ASSUME NEW i \in 1 .. Len(batch), o = batch[i].o PROVE FALSE
        <3>1. k = batch[i].key
            BY <2>1, <2>2 DEF BatchOK
        <3> QED BY <2>1, <3>1 DEF Pending
    <2> QED BY <2>1, <2>2 DEF Waiting
<1> QED BY <1>1, <1>2

LEMMA HashOf == ASSUME DataOK, NEW k \in Keys PROVE hash[k] \in Nat
BY ConstantsAssumption DEF DataOK

\* What is indexed is found.
LEMMA LookupFinds ==
    ASSUME TableOK, DataOK, BatchOK, NEW k \in Keys
    PROVE  (Lookup(k) # 0) <=> k \in Stored
<1> DEFINE X == IndexOf(hash, df, Values \ Waiting)
<1>1. PICK h \in Nat : h = hash[k]
    BY HashOf
<1>2. PICK n, b : n = bucket_index(h, buckets, modulus) /\ b = BucketOf(n)
    OBVIOUS
<1>3. Lookup(k) = fetch(k, h, b)
    BY <1>1, <1>2 DEF Lookup
<1>4. n \in 0 .. buckets - 1
    BY <1>1, <1>2, IndexOfShape DEF TableOK, IsTable
<1>5. Held(c1, buckets)[n] = b
    BY <1>2, <1>4 DEF Held, BucketIn, BucketOf
<1>6. IsData(df) /\ IsBucket(b, df) /\ Contents(df, b) = Home(X, n, buckets, modulus)
    BY <1>4, <1>5, DiskFields DEF TableOK, IsTable, IsWriter
<1>7. \A o : EntryFor(hash, df, o).h = hash[df[o].key] /\ EntryFor(hash, df, o).o = o
    BY SMT DEF EntryFor
<1>8. \A o \in Values : o # 0
    BY SMT DEF Values
<1>9. \A x \in X : \E o \in Values \ Waiting : x = EntryFor(hash, df, o)
    BY DEF IndexOf
<1>10. \A x \in Contents(df, b) : x.o # 0
    BY <1>6, <1>7, <1>8, <1>9 DEF Home
<1>11. (fetch(k, h, b) # 0) <=> \E x \in Contents(df, b) : Hit(x, k, h)
    BY <1>6, <1>10, FetchFinds
<1>12. ASSUME NEW x \in Contents(df, b), Hit(x, k, h) PROVE k \in Stored
    <2>1. PICK o \in Values \ Waiting : x = EntryFor(hash, df, o)
        BY <1>6, <1>9 DEF Home
    <2>2. df[o].key = k
        BY <1>7, <1>12, <2>1 DEF Hit
    <2> QED BY <2>2, StoredIs
<1>13. ASSUME k \in Stored PROVE \E x \in Contents(df, b) : Hit(x, k, h)
    <2>1. PICK o \in Values \ Waiting : df[o].key = k
        BY <1>13, StoredIs
    <2>2. PICK x : x = EntryFor(hash, df, o) /\ x.h = h /\ x.o = o
        BY <1>1, <1>7, <2>1
    <2>3. x \in X
        BY <2>2 DEF IndexOf
    <2>4. x \in Contents(df, b)
        BY <1>2, <1>6, <2>2, <2>3 DEF Home, Belongs
    <2> QED BY <2>1, <2>2, <2>4 DEF Hit
<1> QED BY <1>3, <1>11, <1>12, <1>13

-----------------------------------------------------------------------------
(* Init, and the actions that change no bucket *)

LEMMA InitIInv == Init => IInv
<1> SUFFICES ASSUME Init PROVE IInv
    OBVIOUS
<1>1. /\ df = <<>> /\ batch = <<>> /\ flushed = 0 /\ Len(<<>>) = 0 /\ 1 .. 0 = {}
      /\ 0 \in Nat /\ 0 <= 0 /\ <<>> \in Seq(Records) /\ <<>> \in Seq([key : Keys, o : Nat])
    BY SMT DEF Init
<1>2. Values = {} /\ Waiting = {} /\ Pending = {}
    BY <1>1 DEF Values, Waiting, Pending
<1>3. IsWriter(Disk)
    <2>1. IsData(df)
        BY <1>1 DEF IsData
    <2>2. Disk \in Writers
        BY <1>1, NewWriter DEF Disk
    <2> QED BY <1>1, <2>1, <2>2, DiskFields DEF IsWriter
<1>4. IsShape(1, 1)
    BY SMT DEF IsShape
<1>5. 0 .. 1 - 1 = {0} /\ 0 + 1 = 1
    BY SMT
<1>6. Held(c1, 1)[0] = Empty
    <2>1. kf[1] = Empty /\ DOMAIN c1 = {}
        BY SMT DEF Init, NoCache
    <2> QED BY <1>5, <2>1 DEF Held, BucketIn
<1>7. IsBucket(Empty, Disk.df) /\ Contents(Disk.df, Empty) = {}
    BY <1>3, EmptyBucket
<1>8. IndexOf(hash, df, Values \ Waiting) = {} /\ \A i, nb, m : Home({}, i, nb, m) = {}
    BY <1>2 DEF IndexOf, Home
<1>9. TableOK
    BY <1>3, <1>4, <1>5, <1>6, <1>7, <1>8 DEF TableOK, IsTable, Init
<1>10. DataOK /\ BatchOK
    BY <1>1, <1>2 DEF DataOK, BatchOK, Init
<1>11. FilesOK
    <2>1. Len(kf) = 1
        BY SMT DEF Init
    <2> QED BY <1>1, <2>1 DEF FilesOK, Init
<1>12. SizeOK
    <2>1. Stored = {}
        BY <1>2 DEF Stored
    <2>2. Cardinality(Stored) = 0
        BY <2>1, FS_EmptySet
    <2>3. 1 <= 1 + MaxRekeyBuckets + 0
        BY ConstantsAssumption, SMT
    <2> QED BY <1>1, <2>2, <2>3, PowerSteps DEF SizeOK, Init
<1> QED BY <1>9, <1>10, <1>11, <1>12 DEF IInv

\* The buckets are looked at one by one.
LEMMA TableSame ==
    ASSUME NEW B, NEW C, NEW nb, NEW m, NEW w, NEW X, IsTable(B, nb, m, w, X),
           \A i \in 0 .. nb - 1 : C[i] = B[i]
    PROVE  IsTable(C, nb, m, w, X)
BY DEF IsTable

\* A table is one of any later writer.
LEMMA TableStays ==
    ASSUME NEW B, NEW nb, NEW m, NEW w, NEW X, IsTable(B, nb, m, w, X),
           NEW v, IsWriter(v), Grown(w.df, v.df)
    PROVE  IsTable(B, nb, m, v, X)
<1>1. IsWriter(w) /\ IsShape(nb, m) /\ X \subseteq Entries
    BY DEF IsTable
<1>2. ASSUME NEW i \in 0 .. nb - 1
      PROVE  IsBucket(B[i], v.df) /\ Contents(v.df, B[i]) = Home(X, i, nb, m)
    <2>1. IsBucket(B[i], w.df) /\ Contents(w.df, B[i]) = Home(X, i, nb, m)
        BY DEF IsTable
    <2>2. Stays(B[i], w, v)
        BY <1>1, <2>1, BucketStays
    <2> QED BY <2>1, <2>2 DEF Stays
<1> QED BY <1>1, <1>2 DEF IsTable

\* What is computed from variables that do not change does not.
LEMMA SameFiles ==
    ASSUME UNCHANGED <<kh, hash, kf, df, flushed, c1, buckets, batch>>
    PROVE  /\ Held(c1, buckets)' = Held(c1, buckets) /\ Disk' = Disk
           /\ Values' = Values /\ Waiting' = Waiting /\ Stored' = Stored
           /\ IndexOf(hash, df, Values \ Waiting)' = IndexOf(hash, df, Values \ Waiting)
<1>1. Held(c1, buckets)' = Held(c1, buckets)
    BY DEF Held, BucketIn
<1>2. Disk' = Disk /\ Values' = Values /\ Waiting' = Waiting
    BY DEF Disk, Values, Waiting
<1>3. Stored' = Stored
    BY <1>2 DEF Stored, Pending
<1> QED BY <1>1, <1>2, <1>3

LEMMA StutterIInv == IInv /\ UNCHANGED vars => IInv'
<1> SUFFICES ASSUME IInv, UNCHANGED vars PROVE IInv'
    OBVIOUS
<1>1. TableOK' /\ DataOK' /\ BatchOK' /\ SizeOK'
    BY SameFiles DEF IInv, TableOK, DataOK, BatchOK, SizeOK, vars
<1>2. FilesOK'
    BY DEF IInv, FilesOK, vars
<1> QED BY <1>1, <1>2 DEF IInv

LEMMA CommitEndIInv == IInv /\ CommitEnd => IInv'
<1> SUFFICES ASSUME IInv, CommitEnd PROVE IInv'
    OBVIOUS
<1> USE DEF IInv
<1>1. /\ batch = <<>> /\ flushed' = Len(df) /\ kf' = [i \in 1 .. buckets |-> BucketOf(i - 1)]
      /\ c0' = NoCache /\ c1' = NoCache
      /\ UNCHANGED <<kh, hash, df, buckets, modulus, frac, batch, opened, short, rekeys>>
    BY DEF CommitEnd
<1>2. Values' = Values /\ Waiting' = Waiting /\ Stored' = Stored
    BY <1>1 DEF Values, Waiting, Stored, Pending
<1>3. PICK X : X = IndexOf(hash, df, Values \ Waiting) /\ X = IndexOf(hash, df, Values \ Waiting)'
    BY <1>1, <1>2
<1>4. IsTable(Held(c1, buckets), buckets, modulus, Disk, X)
    BY <1>3 DEF TableOK
<1>5. IsWriter(Disk') /\ Disk'.df = df
    <2>1. IsData(df) /\ df \in Seq(Records) /\ Len(df) \in Nat /\ Len(df) <= Len(df)
        <3>1. IsData(df) /\ df \in Seq(Records) /\ Len(df) \in Nat
            BY <1>4, DiskFields, RecordFields DEF IsTable, IsWriter, IsData
        <3> QED BY <3>1, SMT
    <2>2. PICK w : w = [df |-> df, flushed |-> Len(df)] /\ w \in Writers /\ w.df = df /\ w.flushed = Len(df)
        BY <2>1, NewWriter
    <2>3. Disk' = w
        BY <1>1, <2>2 DEF Disk
    <2> QED BY <2>1, <2>2, <2>3 DEF IsWriter
<1>6. IsTable(Held(c1, buckets), buckets, modulus, Disk', X)
    <2>1. Grown(Disk.df, Disk'.df)
        <3>1. Len(df) <= Len(df)
            BY <1>4, DiskFields, RecordFields, SMT DEF IsTable, IsWriter
        <3> QED BY <1>5, <3>1, DiskFields DEF Grown
    <2> QED BY <1>4, <1>5, <2>1, TableStays
<1>7. ASSUME NEW i \in 0 .. buckets - 1 PROVE Held(c1, buckets)'[i] = Held(c1, buckets)[i]
    <2>1. i + 1 \in 1 .. buckets /\ (i + 1) - 1 = i
        BY <1>4, SMT DEF IsTable, IsShape
    <2>2. i \notin DOMAIN c1' /\ kf'[i + 1] = BucketOf(i)
        BY <1>1, <2>1 DEF NoCache
    <2> QED BY <1>1, <2>2 DEF Held, BucketIn, BucketOf
<1>8. TableOK'
    <2>1. IsTable(Held(c1, buckets)', buckets, modulus, Disk', X)
        BY <1>6, <1>7, TableSame
    <2> QED BY <1>1, <1>3, <2>1 DEF TableOK
<1>9. DataOK' /\ BatchOK' /\ SizeOK'
    BY <1>1, <1>2 DEF DataOK, BatchOK, SizeOK
<1>10. FilesOK'
    <2>1. Len(kf') = buckets
        <3>1. buckets \in Nat
            BY <1>4 DEF IsTable, IsShape
        <3> QED BY <1>1, <3>1, SMT
    <2> QED BY <1>1, <2>1 DEF FilesOK
<1> QED BY <1>8, <1>9, <1>10

LEMMA CloseIInv == IInv /\ close => IInv'
<1> SUFFICES ASSUME IInv, close PROVE IInv'
    OBVIOUS
<1>1. /\ batch = <<>> /\ c1 = NoCache
      /\ UNCHANGED <<kh, hash, kf, df, flushed, c0, c1, buckets, modulus, frac, batch, short, rekeys>>
    BY DEF close, Idle
<1>2. TableOK' /\ DataOK' /\ BatchOK' /\ SizeOK'
    BY <1>1, SameFiles DEF IInv, TableOK, DataOK, BatchOK, SizeOK
<1>3. FilesOK'
    BY <1>1 DEF IInv, FilesOK
<1> QED BY <1>2, <1>3 DEF IInv

\* open finds the modulus again.
LEMMA OpenIInv == IInv /\ open => IInv'
<1> SUFFICES ASSUME IInv, open PROVE IInv'
    OBVIOUS
<1>1. /\ ~opened /\ buckets' = Len(kf) /\ modulus' = ceil_pow2(Len(kf), WordBits)
      /\ UNCHANGED <<kh, hash, kf, df, flushed, c0, c1, batch, short, rekeys>>
    BY DEF open
<1>2. batch = <<>> /\ c1 = NoCache /\ Len(kf) = buckets
    BY <1>1 DEF IInv, FilesOK
<1>3. IsShape(buckets, modulus)
    BY DEF IInv, TableOK, IsTable
<1>4. PICK k \in Nat : modulus = Pow2(k)
    BY DEF IInv, SizeOK
<1>5. PICK n \in Nat : n = Cardinality(Stored) /\ n <= Cardinality(Keys)
    <2>1. Stored \in SUBSET Keys
        BY DEF IInv, DataOK, Stored
    <2>2. IsFiniteSet(Stored) /\ Cardinality(Stored) <= Cardinality(Keys)
        BY <2>1, FS_Subset, WordAssumption
    <2> QED BY <2>2, FS_CardinalityType
<1>6. buckets <= Pow2(Pow2(WordBits) - 1)
    <2>1. buckets <= 1 + MaxRekeyBuckets + n
        BY <1>5 DEF IInv, SizeOK
    <2>2. 1 + MaxRekeyBuckets + Cardinality(Keys) <= Pow2(Pow2(WordBits) - 1)
        BY WordAssumption
    <2>3. PICK c \in Nat : c = Cardinality(Keys)
        BY FS_CardinalityType, WordAssumption
    <2>4. PICK p \in Nat, q \in Nat : p + 1 = Pow2(WordBits) /\ q = Pow2(Pow2(WordBits) - 1)
        <3>1. Pow2(WordBits) \in Nat \ {0}
            BY PowerSteps, ConstantsAssumption
        <3>2. Pow2(WordBits) - 1 \in Nat /\ (Pow2(WordBits) - 1) + 1 = Pow2(WordBits)
            BY <3>1, SMT
        <3> QED BY <3>2, PowerSteps
    <2>5. 1 + MaxRekeyBuckets + c <= q /\ n <= c
        BY <1>5, <2>2, <2>3, <2>4
    <2>6. buckets \in Nat /\ MaxRekeyBuckets \in Nat
        BY <1>3, ConstantsAssumption DEF IsShape
    <2>7. buckets <= q
        BY <2>1, <2>5, <2>6, SMT
    <2> QED BY <2>4, <2>7
<1>7. modulus' = modulus /\ buckets' = buckets
    <2>1. buckets \in Nat \ {0} /\ buckets <= modulus /\ modulus < 2 * buckets
        BY <1>3, SMT DEF IsShape
    <2>2. WordBits \in Nat
        BY ConstantsAssumption
    <2>3. ceil_pow2(buckets, WordBits) = Pow2(k)
        BY <1>4, <1>6, <2>1, <2>2, CeilPow2IsLeast
    <2> QED BY <1>1, <1>2, <1>4, <2>3
<1>8. TableOK' /\ DataOK' /\ BatchOK' /\ SizeOK'
    BY <1>1, <1>7, SameFiles DEF IInv, TableOK, DataOK, BatchOK, SizeOK
<1>9. FilesOK'
    BY <1>1, <1>2, <1>7 DEF IInv, FilesOK
<1> QED BY <1>8, <1>9 DEF IInv

-----------------------------------------------------------------------------
(* A round of commit *)

\* Spills are no values.
ValuesOf(D) == {o \in 1 .. Len(D) : D[o].key # 0}
SameValues(D, E) == ValuesOf(E) = ValuesOf(D) /\ \A o \in ValuesOf(D) : E[o] = D[o]

LEMMA LaterValues ==
    ASSUME NEW w, NEW v, IsWriter(w), IsWriter(v), Later(w, v) PROVE SameValues(w.df, v.df)
<1>1. PICK l \in Nat, m \in Nat : l = Len(w.df) /\ m = Len(v.df) /\ l <= m
    BY WriterFields DEF Later, Grown
<1>2. \A o \in 1 .. l : v.df[o] = w.df[o] /\ o \in 1 .. m
    BY <1>1, SMT DEF Later, Grown
<1>3. \A o \in 1 .. m : o \in 1 .. l \/ v.df[o].key = 0
    <2>1. \A o \in 1 .. m : o \in 1 .. l \/ l < o
        BY SMT
    <2> QED BY <1>1, <2>1 DEF Later
<1> QED BY <1>1, <1>2, <1>3 DEF SameValues, ValuesOf

\* What a round does to the table and the writer.
IsRound(out, X, x) ==
    /\ IsCommit(out, X \cup {x}) /\ IsWriter(out.w) /\ Later(Disk, out.w) /\ out.c1 # NoCache
    /\ \/ out.buckets = buckets /\ out.modulus = modulus
       \/ out.buckets = buckets + 1 /\ out.modulus = SplitModulus(buckets, modulus)

LEMMA RoundKeeps ==
    ASSUME NEW X, IsTable(Held(c1, buckets), buckets, modulus, Disk, X),
           DOMAIN c0 \subseteq DOMAIN c1, short = FALSE, NEW f,
           NEW k, hash[k] \in Nat, NEW o \in Nat, NEW x, x = [h |-> hash[k], o |-> o],
           NEW st, st = [c0 |-> c0, c1 |-> c1, w |-> Disk, short |-> short, buckets |-> buckets,
                         modulus |-> modulus, frac |-> f]
    PROVE  IsRound(InsertOne(IF st.frac >= Thresh THEN SplitOne(st) ELSE st, k, o), X, x)
<1>1. /\ st.c0 = c0 /\ st.c1 = c1 /\ st.w = Disk /\ st.short = short /\ st.buckets = buckets
      /\ st.modulus = modulus
    BY SMT
<1>2. IsCommit(st, X)
    BY <1>1 DEF IsCommit
<1>3. PICK s : s = IF st.frac >= Thresh THEN SplitOne(st) ELSE st
    OBVIOUS
<1>4. IsWriter(Disk)
    BY DEF IsTable
<1>5. /\ IsCommit(s, X) /\ IsWriter(s.w) /\ Later(Disk, s.w)
      /\ \/ s.buckets = buckets /\ s.modulus = modulus
         \/ s.buckets = buckets + 1 /\ s.modulus = SplitModulus(buckets, modulus)
    <2>1. CASE s = st
        BY <1>1, <1>2, <1>4, <2>1, LaterSame
    <2>2. CASE s = SplitOne(st)
        <3>1. IsSplitOne(s, st, X)
            BY <1>2, <2>2, SplitOneKeeps
        <3> QED BY <1>1, <3>1 DEF IsSplitOne
    <2> QED BY <1>3, <2>1, <2>2
<1>6. PICK out : out = InsertOne(s, k, o) /\ IsInsertOne(out, s, X, x)
    BY <1>5, InsertOneKeeps
<1>7. Later(Disk, out.w)
    BY <1>4, <1>5, <1>6, LaterAgain DEF IsInsertOne
<1>8. IsRound(out, X, x)
    BY <1>5, <1>6, <1>7 DEF IsInsertOne, IsRound
<1> QED BY <1>3, <1>6, <1>8

\* The sequence t of length n is s without its head.
IsTail(t, s, n) ==
    /\ Len(s) = n + 1 /\ Len(t) = n /\ Head(s) = s[1] /\ 1 \in 1 .. n + 1
    /\ \A i \in 1 .. n : t[i] = s[i + 1] /\ i + 1 \in 1 .. n + 1 /\ i + 1 # 1
    /\ \A i \in 1 .. n + 1 : i = 1 \/ \E j \in 1 .. n : i = j + 1

LEMMA TailOf ==
    ASSUME NEW R, NEW s \in Seq(R), s # <<>>
    PROVE  Tail(s) \in Seq(R) /\ Head(s) \in R /\ \E n \in Nat : IsTail(Tail(s), s, n)
<1>1. Len(s) \in Nat /\ Len(s) # 0 /\ Head(s) \in R
    BY SMT
<1>2. PICK n \in Nat : Len(s) = n + 1
    <2>1. Len(s) - 1 \in Nat /\ Len(s) = (Len(s) - 1) + 1
        BY <1>1, SMT
    <2> QED BY <2>1
<1>3. Tail(s) \in Seq(R) /\ Len(Tail(s)) = n /\ Head(s) = s[1] /\ \A i \in 1 .. n : Tail(s)[i] = s[i + 1]
    BY <1>2, SMT
<1>4. 1 \in 1 .. n + 1 /\ \A i \in 1 .. n : i + 1 \in 1 .. n + 1 /\ i + 1 # 1
    BY SMT
<1>5. ASSUME NEW i \in 1 .. n + 1, i # 1 PROVE \E j \in 1 .. n : i = j + 1
    <2>1. i - 1 \in 1 .. n /\ i = (i - 1) + 1
        BY <1>5, SMT
    <2> QED BY <2>1
<1> QED BY <1>1, <1>2, <1>3, <1>4, <1>5 DEF IsTail

\* A batch names values S of the data D.
IsBatch(s, S, D) ==
    /\ \A i \in 1 .. Len(s) : s[i].o \in S /\ D[s[i].o].key = s[i].key
    /\ \A i, j \in 1 .. Len(s) : s[i].o = s[j].o => i = j
OffsetsOf(s) == {s[i].o : i \in 1 .. Len(s)}
KeysOf(s) == {s[i].key : i \in 1 .. Len(s)}

IsRest(t, s, e) ==
    /\ OffsetsOf(t) = OffsetsOf(s) \ {e.o} /\ e.o \in OffsetsOf(s)
    /\ KeysOf(t) = KeysOf(s) \ {e.key} /\ e.key \in KeysOf(s)

\* The first of the batch is no longer waiting.
LEMMA BatchTail ==
    ASSUME NEW S, NEW D, NEW s, IsBatch(s, S, D), NEW t, NEW n \in Nat, IsTail(t, s, n),
           \A o, p \in S : D[o].key = D[p].key => o = p
    PROVE  IsBatch(t, S, D) /\ IsRest(t, s, s[1])
<1>1. /\ \A i \in 1 .. n + 1 : s[i].o \in S /\ D[s[i].o].key = s[i].key
      /\ \A i, j \in 1 .. n + 1 : s[i].o = s[j].o => i = j
    BY DEF IsBatch, IsTail
<1>2. /\ 1 \in 1 .. n + 1 /\ Len(t) = n /\ Len(s) = n + 1
      /\ \A i \in 1 .. n : t[i] = s[i + 1] /\ i + 1 \in 1 .. n + 1 /\ i + 1 # 1
      /\ \A i \in 1 .. n + 1 : i = 1 \/ \E j \in 1 .. n : i = j + 1
    BY DEF IsTail
<1>3. ASSUME NEW i \in 1 .. n + 1, NEW j \in 1 .. n + 1, s[i].key = s[j].key PROVE i = j
    <2>1. PICK o \in S, p \in S : o = s[i].o /\ p = s[j].o /\ D[o].key = s[i].key /\ D[p].key = s[j].key
        BY <1>1
    <2>2. o = p
        BY <1>3, <2>1
    <2> QED BY <1>1, <2>1, <2>2
<1>4. IsBatch(t, S, D)
    <2>1. ASSUME NEW i \in 1 .. n PROVE t[i].o \in S /\ D[t[i].o].key = t[i].key
        <3>1. PICK x : x = t[i] /\ x = s[i + 1] /\ i + 1 \in 1 .. n + 1
            BY <1>2
        <3>2. x.o \in S /\ D[x.o].key = x.key
            BY <1>1, <3>1
        <3> QED BY <3>1, <3>2
    <2>2. ASSUME NEW i \in 1 .. n, NEW j \in 1 .. n, t[i].o = t[j].o PROVE i = j
        <3>1. /\ t[i] = s[i + 1] /\ i + 1 \in 1 .. n + 1
              /\ t[j] = s[j + 1] /\ j + 1 \in 1 .. n + 1
            BY <1>2
        <3>2. s[i + 1].o = s[j + 1].o
            BY <2>2, <3>1
        <3>3. i + 1 = j + 1
            BY <1>1, <3>1, <3>2
        <3> QED BY <3>3, SMT
    <2> QED BY <1>2, <2>1, <2>2 DEF IsBatch
<1>5. PICK e : e = s[1]
    OBVIOUS
<1>6. e.o \in OffsetsOf(s) /\ e.key \in KeysOf(s)
    BY <1>2, <1>5 DEF OffsetsOf, KeysOf
<1>7. ASSUME NEW i \in 1 .. n
      PROVE  /\ t[i].o \in OffsetsOf(s) /\ t[i].o # e.o
             /\ t[i].key \in KeysOf(s) /\ t[i].key # e.key
    <2>1. PICK j \in 1 .. n + 1 : t[i] = s[j] /\ j # 1
        BY <1>2
    <2>2. s[j].o # s[1].o /\ s[j].key # s[1].key
        BY <1>1, <1>2, <1>3, <2>1
    <2>3. s[j].o \in OffsetsOf(s) /\ s[j].key \in KeysOf(s)
        BY <1>2 DEF OffsetsOf, KeysOf
    <2> QED BY <1>5, <2>1, <2>2, <2>3
<1>8. ASSUME NEW i \in 1 .. n + 1
      PROVE  /\ s[i].o = e.o \/ s[i].o \in OffsetsOf(t)
             /\ s[i].key = e.key \/ s[i].key \in KeysOf(t)
    <2>1. CASE i = 1
        BY <1>5, <2>1
    <2>2. ASSUME NEW j \in 1 .. n, i = j + 1 PROVE s[i].o \in OffsetsOf(t) /\ s[i].key \in KeysOf(t)
        <3>1. s[i] = t[j]
            BY <1>2, <2>2
        <3>2. t[j].o \in OffsetsOf(t) /\ t[j].key \in KeysOf(t)
            BY <1>2 DEF OffsetsOf, KeysOf
        <3> QED BY <3>1, <3>2
    <2> QED BY <1>2, <2>1, <2>2
<1>9. OffsetsOf(t) = OffsetsOf(s) \ {e.o}
    <2>1. \A y \in OffsetsOf(t) : \E i \in 1 .. n : y = t[i].o
        BY <1>2 DEF OffsetsOf
    <2>2. \A y \in OffsetsOf(s) : \E i \in 1 .. n + 1 : y = s[i].o
        BY <1>2 DEF OffsetsOf
    <2>3. \A y \in OffsetsOf(t) : y \in OffsetsOf(s) /\ y # e.o
        BY <1>7, <2>1
    <2>4. \A y \in OffsetsOf(s) : y = e.o \/ y \in OffsetsOf(t)
        BY <1>8, <2>2
    <2> QED BY <2>3, <2>4
<1>10. KeysOf(t) = KeysOf(s) \ {e.key}
    <2>1. \A y \in KeysOf(t) : \E i \in 1 .. n : y = t[i].key
        BY <1>2 DEF KeysOf
    <2>2. \A y \in KeysOf(s) : \E i \in 1 .. n + 1 : y = s[i].key
        BY <1>2 DEF KeysOf
    <2>3. \A y \in KeysOf(t) : y \in KeysOf(s) /\ y # e.key
        BY <1>7, <2>1
    <2>4. \A y \in KeysOf(s) : y = e.key \/ y \in KeysOf(t)
        BY <1>8, <2>2
    <2> QED BY <2>3, <2>4
<1> QED BY <1>4, <1>5, <1>6, <1>9, <1>10 DEF IsRest

\* The index of the values S with one more.
IsSame(E, D, T) == \A p \in T : E[p] = D[p]
IsMore(T, S, o) == T = S \cup {o}

LEMMA IndexMore ==
    ASSUME NEW hf, NEW D, NEW E, NEW S, NEW T, NEW o, IsMore(T, S, o), IsSame(E, D, T)
    PROVE  IsMore(IndexOf(hf, E, T), IndexOf(hf, D, S), EntryFor(hf, D, o))
<1>1. \A p \in T : EntryFor(hf, E, p) = EntryFor(hf, D, p)
    BY DEF EntryFor, IsSame
<1>2. \A y : y \in IndexOf(hf, E, T) <=> \E p \in T : y = EntryFor(hf, D, p)
    BY <1>1 DEF IndexOf
<1>3. \A y : y \in IndexOf(hf, D, S) <=> \E p \in S : y = EntryFor(hf, D, p)
    BY DEF IndexOf
<1> QED BY <1>2, <1>3 DEF IsMore

LEMMA CommitStepIInv == IInv /\ CommitStep => IInv'
<1> SUFFICES ASSUME IInv, CommitStep PROVE IInv'
    OBVIOUS
<1>1. PICK e, st, out :
          /\ e = Head(batch)
          /\ st = [c0 |-> c0, c1 |-> c1, w |-> Disk, short |-> short, buckets |-> buckets,
                   modulus |-> modulus, frac |-> frac + Unit]
          /\ out = InsertOne(IF st.frac >= Thresh THEN SplitOne(st) ELSE st, e.key, e.o)
          /\ c0' = out.c0 /\ c1' = out.c1 /\ df' = out.w.df /\ flushed' = out.w.flushed
          /\ short' = out.short /\ buckets' = out.buckets /\ modulus' = out.modulus
    BY DEF CommitStep, Disk
<1>2. batch # <<>> /\ batch' = Tail(batch) /\ UNCHANGED <<kh, hash, kf, opened, rekeys>>
    BY DEF CommitStep
<1>3. IsBatch(batch, Values, df) /\ batch \in Seq([key : Keys, o : Nat])
    BY DEF IInv, BatchOK, IsBatch
<1>4. /\ IsBatch(batch', Values, df) /\ IsRest(batch', batch, e)
      /\ e \in [key : Keys, o : Nat] /\ batch' \in Seq([key : Keys, o : Nat])
    <2>1. PICK n \in Nat : IsTail(Tail(batch), batch, n)
        BY <1>2, <1>3, TailOf
    <2>2. e = batch[1]
        BY <1>1, <2>1 DEF IsTail
    <2>3. e \in [key : Keys, o : Nat] /\ Tail(batch) \in Seq([key : Keys, o : Nat])
        BY <1>1, <1>2, <1>3, TailOf
    <2>4. \A o, p \in Values : df[o].key = df[p].key => o = p
        BY DEF IInv, DataOK
    <2>5. IsBatch(Tail(batch), Values, df) /\ IsRest(Tail(batch), batch, batch[1])
        BY <1>3, <2>1, <2>4, BatchTail
    <2> QED BY <1>2, <2>2, <2>3, <2>5
<1>5. Waiting = OffsetsOf(batch) /\ Waiting' = OffsetsOf(batch')
      /\ Pending = KeysOf(batch) /\ Pending' = KeysOf(batch')
    BY DEF Waiting, Pending, OffsetsOf, KeysOf
<1>6. Waiting' = Waiting \ {e.o} /\ e.o \in Waiting /\ Pending' = Pending \ {e.key} /\ e.key \in Pending
    BY <1>4, <1>5 DEF IsRest
<1>7. e.key \in Keys /\ e.o \in Nat /\ e.o \in Values /\ df[e.o].key = e.key
    <2>1. e.key \in Keys /\ e.o \in Nat
        BY <1>4
    <2>2. PICK n \in Nat : IsTail(Tail(batch), batch, n)
        BY <1>2, <1>3, TailOf
    <2>3. e = batch[1] /\ 1 \in 1 .. Len(batch)
        BY <1>1, <2>2 DEF IsTail
    <2> QED BY <1>3, <2>1, <2>3 DEF IsBatch
<1>8. PICK X, x : X = IndexOf(hash, df, Values \ Waiting) /\ x = [h |-> hash[e.key], o |-> e.o]
    OBVIOUS
<1>9. IsRound(out, X, x)
    <2>1. hash[e.key] \in Nat
        BY <1>7, HashOf DEF IInv
    <2>2. IsTable(Held(c1, buckets), buckets, modulus, Disk, X)
        BY <1>8 DEF IInv, TableOK
    <2>3. DOMAIN c0 \subseteq DOMAIN c1 /\ short = FALSE
        BY DEF IInv, FilesOK
    <2> QED BY <1>1, <1>7, <1>8, <2>1, <2>2, <2>3, RoundKeeps
<1>10. Disk' = out.w
    <2>1. out.w \in Writers
        BY <1>9 DEF IsRound, IsWriter
    <2>2. out.w = [df |-> out.w.df, flushed |-> out.w.flushed]
        BY <2>1, SMT DEF Writers
    <2> QED BY <1>1, <2>2 DEF Disk
<1>11. Values' = Values /\ \A o \in Values : df'[o] = df[o]
    <2>1. IsWriter(Disk) /\ IsWriter(out.w) /\ Later(Disk, out.w)
        BY <1>9 DEF IsRound, IInv, TableOK, IsTable
    <2>2. SameValues(df, df')
        BY <1>1, <2>1, LaterValues, DiskFields
    <2>3. Values = ValuesOf(df) /\ Values' = ValuesOf(df')
        BY DEF Values, ValuesOf
    <2> QED BY <2>2, <2>3 DEF SameValues
<1>12. IndexOf(hash, df, Values \ Waiting)' = X \cup {x}
    <2>1. PICK S, T : S = Values \ Waiting /\ T = Values' \ Waiting'
        OBVIOUS
    <2>2. IsMore(T, S, e.o) /\ IsSame(df', df, T)
        <3>1. T = S \cup {e.o}
            BY <1>6, <1>7, <1>11, <2>1
        <3>2. T \subseteq Values
            BY <1>11, <2>1
        <3> QED BY <1>11, <3>1, <3>2 DEF IsMore, IsSame
    <2>3. IsMore(IndexOf(hash, df', T), IndexOf(hash, df, S), EntryFor(hash, df, e.o))
        BY <2>2, IndexMore
    <2>4. EntryFor(hash, df, e.o) = x
        BY <1>7, <1>8 DEF EntryFor
    <2> QED BY <1>2, <1>8, <2>1, <2>3, <2>4 DEF IsMore
<1>13. TableOK'
    <2>1. IsTable(Held(out.c1, out.buckets), out.buckets, out.modulus, out.w, X \cup {x})
        BY <1>9 DEF IsRound, IsCommit
    <2>2. \A i \in 0 .. out.buckets - 1 : Held(c1, buckets)'[i] = Held(out.c1, out.buckets)[i]
        BY <1>1, <1>2 DEF Held, BucketIn
    <2>3. IsTable(Held(c1, buckets)', out.buckets, out.modulus, out.w, X \cup {x})
        BY <2>1, <2>2, TableSame
    <2> QED BY <1>1, <1>10, <1>12, <2>3 DEF TableOK
<1>14. DataOK'
    <2>1. /\ \A o \in Values : df'[o].key \in Keys
          /\ \A o, p \in Values : df'[o].key = df'[p].key => o = p
        BY <1>11 DEF IInv, DataOK
    <2> QED BY <1>2, <1>11, <2>1 DEF IInv, DataOK
<1>15. BatchOK'
    <2>1. \A i \in 1 .. Len(batch') : batch'[i].o \in Values /\ df'[batch'[i].o].key = batch'[i].key
        BY <1>4, <1>11 DEF IsBatch
    <2> QED BY <1>4, <1>11, <2>1 DEF IsBatch, BatchOK
<1>16. FilesOK'
    <2>1. opened'
        BY <1>2 DEF IInv, FilesOK
    <2> QED BY <1>1, <1>9, <2>1 DEF FilesOK, IsRound, IsCommit
<1>17. SizeOK'
    <2>1. Stored' = Stored \cup {e.key} /\ e.key \notin Stored
        <3>1. {df[o].key : o \in Values}' = {df[o].key : o \in Values}
            BY <1>11
        <3>2. e.key \in {df[o].key : o \in Values}
            BY <1>7
        <3> QED BY <1>6, <3>1, <3>2 DEF Stored
    <2>2. IsFiniteSet(Stored)
        <3>1. Stored \in SUBSET Keys
            BY DEF IInv, DataOK, Stored
        <3> QED BY <3>1, FS_Subset, WordAssumption
    <2>3. PICK n \in Nat : n = Cardinality(Stored)
        BY <2>2, FS_CardinalityType
    <2>4. Cardinality(Stored') = n + 1
        BY <2>1, <2>2, <2>3, FS_AddElement
    <2>5. buckets \in Nat /\ buckets <= 1 + MaxRekeyBuckets + n
        BY <2>3 DEF IInv, TableOK, IsTable, IsShape, SizeOK
    <2>6. buckets' <= 1 + MaxRekeyBuckets + (n + 1)
        <3>1. buckets' = buckets \/ buckets' = buckets + 1
            BY <1>1, <1>9 DEF IsRound
        <3> QED BY <2>5, <3>1, ConstantsAssumption, SMT
    <2>7. modulus' = modulus \/ modulus' = 2 * modulus
        BY <1>1, <1>9 DEF IsRound, SplitModulus
    <2>8. \E i \in Nat : modulus' = Pow2(i)
        <3>1. PICK i \in Nat : modulus = Pow2(i)
            BY DEF IInv, SizeOK
        <3>2. i + 1 \in Nat
            BY SMT
        <3>3. Pow2(i + 1) = 2 * Pow2(i)
            BY PowerSteps
        <3> QED BY <2>7, <3>1, <3>2, <3>3
    <2> QED BY <2>4, <2>6, <2>8 DEF SizeOK
<1> QED BY <1>13, <1>14, <1>15, <1>16, <1>17 DEF IInv

-----------------------------------------------------------------------------
(* The beginning of a commit *)

\* A part that is not all has fewer elements.
LEMMA FewerIn ==
    ASSUME NEW S, IsFiniteSet(S), NEW T \in SUBSET S, NEW x \in S, x \notin T
    PROVE  IsFiniteSet(T) /\ Cardinality(T) \in Nat /\ Cardinality(T) < Cardinality(S)
<1>1. IsFiniteSet(T) /\ Cardinality(T) <= Cardinality(S) /\ Cardinality(S) # Cardinality(T)
    BY FS_Subset
<1>2. Cardinality(T) \in Nat /\ Cardinality(S) \in Nat
    BY <1>1, FS_CardinalityType
<1>3. Cardinality(T) < Cardinality(S)
    BY <1>1, <1>2, SMT
<1> QED BY <1>1, <1>2, <1>3

\* ks names n of P, each once.
IsOrder(ks, P, n) ==
    /\ Len(ks) = n
    /\ \A i \in 1 .. n : ks[i] \in P
    /\ \A i, j \in 1 .. n : ks[i] = ks[j] => i = j

LEMMA InOrderNames ==
    ASSUME NEW P \in SUBSET Nat, IsFiniteSet(P), NEW n \in Nat, n = Cardinality(P)
    PROVE  IsOrder(InOrder(P), P, n)
<1> DEFINE Under(k) == {j \in P : j < k}
           Rank(k) == Cardinality(Under(k))
           rank == [k \in P |-> Rank(k)]
           ks == [i \in 1 .. n |-> CHOOSE k \in P : Rank(k) = i - 1]
<1>1. ASSUME NEW k \in P PROVE Rank(k) \in Nat /\ Rank(k) < n
    <2>1. Under(k) \in SUBSET P
        OBVIOUS
    <2>2. k \notin Under(k)
        BY SMT
    <2> QED BY <2>1, <2>2, FewerIn
<1>2. ASSUME NEW k \in P, NEW l \in P, k < l PROVE Rank(k) # Rank(l)
    <2>1. Under(k) \in SUBSET Under(l) /\ k \in Under(l) /\ k \notin Under(k)
        <3>1. \A j \in P : j < k => j < l
            BY <1>2, SMT
        <3>2. ~(k < k)
            BY SMT
        <3> QED BY <1>2, <3>1, <3>2
    <2>2. Under(l) \in SUBSET P
        OBVIOUS
    <2>3. IsFiniteSet(Under(l))
        BY <2>2, FS_Subset
    <2>4. Rank(k) < Rank(l)
        BY <2>1, <2>3, FewerIn
    <2> QED BY <1>1, <2>4, SMT
<1>3. \A k, l \in P : k = l \/ k < l \/ l < k
    BY SMT
<1> HIDE DEF Rank
<1>4. rank \in Injection(P, 0 .. n - 1)
    <2>1. \A k \in P : Rank(k) \in 0 .. n - 1
        BY <1>1, SMT
    <2>2. rank \in [P -> 0 .. n - 1]
        BY <2>1
    <2>3. \A k, l \in DOMAIN rank : rank[k] = rank[l] => k = l
        BY <1>2, <1>3
    <2> QED BY <2>2, <2>3 DEF Injection, IsInjective
<1>5. IsFiniteSet(0 .. n - 1) /\ Cardinality(0 .. n - 1) = n
    <2>1. 0 \in Int /\ n - 1 \in Int /\ (IF 0 > n - 1 THEN 0 ELSE (n - 1) - 0 + 1) = n
        BY SMT
    <2> QED BY <2>1, FS_Interval
<1>6. rank \in Surjection(P, 0 .. n - 1)
    BY <1>4, <1>5, FS_Injection
<1>7. ASSUME NEW i \in 1 .. n PROVE \E k \in P : Rank(k) = i - 1
    <2>1. i - 1 \in 0 .. n - 1
        BY SMT
    <2>2. PICK k \in P : rank[k] = i - 1
        BY <1>6, <2>1 DEF Surjection
    <2> QED BY <2>2
<1>8. ASSUME NEW i \in 1 .. n PROVE ks[i] \in P /\ Rank(ks[i]) = i - 1
    BY <1>7
<1>9. ASSUME NEW i \in 1 .. n, NEW j \in 1 .. n, ks[i] = ks[j] PROVE i = j
    <2>1. i - 1 = j - 1
        BY <1>8, <1>9
    <2> QED BY <2>1, SMT
<1>10. Len(ks) = n
    BY SMT
<1>11. InOrder(P) = ks
    BY DEF InOrder, Rank
<1> HIDE DEF ks
<1> QED BY <1>8, <1>9, <1>10, <1>11 DEF IsOrder

\* The first n of ks are written, each as a value.
IsWritten(v, w, ks, n) ==
    /\ IsWriter(v) /\ Grown(w.df, v.df) /\ Len(v.df) = Len(w.df) + n
    /\ \A i \in 1 .. n : v.df[Len(w.df) + i] = Value(ks[i])

\* A value is a record without entries.
LEMMA ValueFields ==
    ASSUME NEW k \in Nat
    PROVE  Value(k) \in Records /\ Value(k).key = k /\ Value(k).b = Empty
<1>1. 0 \in Nat
    BY SMT
<1>2. Empty \in Buckets
    BY <1>1, NoEntries DEF Empty
<1> QED BY <1>2, NewRecord DEF Value

LEMMA WriteNext ==
    ASSUME NEW w, IsWriter(w), NEW ks, NEW n \in Nat, NEW v, IsWritten(v, w, ks, n), ks[n + 1] \in Nat
    PROVE  IsWritten(prepare(v, Value(ks[n + 1])), w, ks, n + 1)
<1>1. PICK l \in Nat, m \in Nat : l = Len(w.df) /\ m = Len(v.df) /\ m = l + n
    BY WriterFields DEF IsWritten
<1>2. PICK r \in Records : r = Value(ks[n + 1]) /\ r.b = Empty
    BY ValueFields
<1>3. IsSorted(r.b) /\ r.b.s <= m
    BY <1>1, <1>2, EmptyBucket DEF IsWritten, IsBucket
<1>4. PICK u : u = prepare(v, r) /\ IsPrepared(u, v, r)
    BY <1>1, <1>3, Prepared DEF IsWritten
<1>5. Len(u.df) = m + 1 /\ (\A p \in 1 .. m : u.df[p] = v.df[p]) /\ u.df[m + 1] = r /\ IsWriter(u)
    BY <1>1, <1>4 DEF IsPrepared, Grown
<1>6. /\ m + 1 = l + (n + 1) /\ l <= m + 1
      /\ \A p \in 1 .. l : p \in 1 .. m
      /\ \A i \in 1 .. n + 1 : i = n + 1 \/ (i \in 1 .. n /\ l + i \in 1 .. m)
    <2>1. m = l + n
        BY <1>1
    <2> QED BY <2>1, SMT
<1>7. \A p \in 1 .. l : v.df[p] = w.df[p]
    BY <1>1 DEF IsWritten, Grown
<1>8. Grown(w.df, u.df)
    BY <1>1, <1>5, <1>6, <1>7 DEF Grown
<1>9. ASSUME NEW i \in 1 .. n + 1 PROVE u.df[l + i] = Value(ks[i])
    <2>1. CASE i = n + 1
        BY <1>2, <1>5, <1>6, <2>1
    <2>2. CASE i \in 1 .. n /\ l + i \in 1 .. m
        <3>1. v.df[l + i] = Value(ks[i])
            BY <1>1, <2>2 DEF IsWritten
        <3> QED BY <1>5, <2>2, <3>1
    <2> QED BY <1>6, <2>1, <2>2
<1> QED BY <1>1, <1>2, <1>4, <1>5, <1>6, <1>8, <1>9 DEF IsWritten

LEMMA WriteAll ==
    ASSUME NEW w, IsWriter(w), NEW ks, NEW l \in Nat, \A i \in 1 .. l : ks[i] \in Nat, NEW write,
           write = [p \in Writers \X Nat |-> prepare(p[1], Value(ks[p[2]]))]
    PROVE  IsWritten(Loop(write, w, l), w, ks, l)
<1> DEFINE S == [n \in Nat |-> {v \in Writers : IsWritten(v, w, ks, n)}]
<1>1. ASSUME NEW v \in Writers, NEW n \in Nat PROVE write[<<v, n>>] = prepare(v, Value(ks[n]))
    <2>1. <<v, n>> \in Writers \X Nat /\ <<v, n>>[1] = v /\ <<v, n>>[2] = n
        OBVIOUS
    <2> QED BY <2>1
<1>2. \A n \in Nat : S[n] = {v \in Writers : IsWritten(v, w, ks, n)}
    OBVIOUS
<1>3. \A v, n : IsWritten(v, w, ks, n) => v \in Writers
    BY DEF IsWritten, IsWriter
<1> HIDE DEF S
<1>4. w \in S[0]
    <2>1. 0 \in Nat /\ 1 .. 0 = {}
        BY SMT
    <2>2. Len(w.df) <= Len(w.df) /\ Len(w.df) = Len(w.df) + 0
        <3>1. PICK m \in Nat : m = Len(w.df)
            BY WriterFields
        <3>2. m <= m /\ m = m + 0
            BY SMT
        <3> QED BY <3>1, <3>2
    <2>3. IsWritten(w, w, ks, 0)
        BY <2>1, <2>2 DEF IsWritten, Grown
    <2> QED BY <1>2, <1>3, <2>1, <2>3
<1>5. ASSUME NEW n \in Nat, NEW v \in S[n], n < l PROVE write[<<v, n + 1>>] \in S[n + 1]
    <2>1. n + 1 \in Nat /\ n + 1 \in 1 .. l
        BY <1>5, SMT
    <2>2. v \in Writers /\ IsWritten(v, w, ks, n)
        BY <1>2
    <2>3. IsWritten(prepare(v, Value(ks[n + 1])), w, ks, n + 1)
        BY <2>1, <2>2, WriteNext
    <2> QED BY <1>1, <1>2, <1>3, <2>1, <2>2, <2>3
<1>6. Loop(write, w, l) \in S[l]
    BY <1>4, <1>5, LoopReaches
<1> QED BY <1>2, <1>6

\* The values afterwards: those before, and what is behind position l.
IsValued(E, D, ks, n, l) ==
    /\ \A o \in ValuesOf(D) : o \in ValuesOf(E) /\ E[o] = D[o]
    /\ \A i \in 1 .. n : l + i \in ValuesOf(E) /\ l + i \notin ValuesOf(D) /\ E[l + i].key = ks[i]
    /\ \A o \in ValuesOf(E) : o \in ValuesOf(D) \/ \E i \in 1 .. n : o = l + i

LEMMA WrittenValues ==
    ASSUME NEW w, IsWriter(w), NEW v, NEW ks, NEW n \in Nat, IsWritten(v, w, ks, n),
           \A i \in 1 .. n : ks[i] \in Nat \ {0}, NEW l, l = Len(w.df)
    PROVE  IsValued(v.df, w.df, ks, n, l)
<1>1. PICK D, E, m : D = w.df /\ E = v.df /\ m = Len(E) /\ l = Len(D) /\ l \in Nat /\ m \in Nat /\ m = l + n
    <2>1. l \in Nat /\ Len(v.df) \in Nat /\ Len(v.df) = l + n
        BY WriterFields DEF IsWritten
    <2> QED BY <2>1
<1>2. l \in Nat /\ m \in Nat /\ m = l + n
    BY <1>1
<1>3. /\ \A o \in 1 .. l : o \in 1 .. m
      /\ \A i \in 1 .. n : l + i \in 1 .. m /\ l + i \notin 1 .. l
      /\ \A o \in 1 .. m : o \in 1 .. l \/ (o - l \in 1 .. n /\ o = l + (o - l))
    BY <1>2, SMT
<1>4. \A o \in 1 .. l : E[o] = D[o]
    BY <1>1 DEF IsWritten, Grown
<1>5. \A i \in 1 .. n : E[l + i].key = ks[i] /\ ks[i] # 0
    BY <1>1, ValueFields DEF IsWritten
<1>6. \A o : /\ o \in ValuesOf(D) <=> o \in 1 .. l /\ D[o].key # 0
             /\ o \in ValuesOf(E) <=> o \in 1 .. m /\ E[o].key # 0
    BY <1>1 DEF ValuesOf
<1>7. \A o \in ValuesOf(D) : o \in ValuesOf(E) /\ E[o] = D[o]
    BY <1>3, <1>4, <1>6
<1>8. \A i \in 1 .. n : l + i \in ValuesOf(E) /\ l + i \notin ValuesOf(D) /\ E[l + i].key = ks[i]
    BY <1>3, <1>5, <1>6
<1>9. \A o \in ValuesOf(E) : o \in ValuesOf(D) \/ \E i \in 1 .. n : o = l + i
    BY <1>3, <1>4, <1>6
<1> QED BY <1>1, <1>7, <1>8, <1>9 DEF IsValued

LEMMA CommitBeginIInv ==
    ASSUME IInv, NEW P \in SUBSET Keys, CommitBegin(P) PROVE IInv'
<1>1. /\ opened /\ batch = <<>> /\ c1 = NoCache /\ P # {} /\ \A k \in P : Lookup(k) = 0
      /\ UNCHANGED <<kh, hash, kf, c0, c1, buckets, modulus, frac, opened, short, rekeys>>
    BY DEF CommitBegin, Idle
<1>2. PICK ks, write, v :
          /\ ks = InOrder(P) /\ write = [p \in Writers \X Nat |-> prepare(p[1], Value(ks[p[2]]))]
          /\ v = Loop(write, Disk, Len(ks)) /\ df' = v.df /\ flushed' = v.flushed
          /\ batch' = [i \in 1 .. Len(ks) |-> [key |-> ks[i], o |-> Len(df) + i]]
    BY DEF CommitBegin, Disk
<1>3. IsFiniteSet(P) /\ P \in SUBSET Nat /\ 0 \notin P
    BY FS_Subset, WordAssumption, ConstantsAssumption
<1>4. PICK n \in Nat : n = Cardinality(P) /\ n # 0
    BY <1>1, <1>3, FS_CardinalityType, FS_EmptySet
<1>5. IsOrder(ks, P, n)
    BY <1>2, <1>3, <1>4, InOrderNames
<1>6. IsWriter(Disk) /\ IsTable(Held(c1, buckets), buckets, modulus, Disk, IndexOf(hash, df, Values \ Waiting))
    BY DEF IInv, TableOK, IsTable
<1>7. /\ Len(ks) = n /\ \A i \in 1 .. n : ks[i] \in P /\ ks[i] \in Keys /\ ks[i] \in Nat /\ ks[i] \in Nat \ {0}
      /\ \A i, j \in 1 .. n : ks[i] = ks[j] => i = j
    BY <1>3, <1>5 DEF IsOrder
<1>8. IsWritten(v, Disk, ks, n)
    <2>1. \A i \in 1 .. n : ks[i] \in Nat
        BY <1>7
    <2>2. v = Loop(write, Disk, n)
        BY <1>2, <1>7
    <2>3. write = [p \in Writers \X Nat |-> prepare(p[1], Value(ks[p[2]]))]
        BY <1>2
    <2>4. IsWritten(Loop(write, Disk, n), Disk, ks, n)
        BY <1>6, <2>1, <2>3, WriteAll
    <2> QED BY <2>2, <2>4
<1>9. Disk' = v
    <2>1. v \in Writers
        BY <1>8 DEF IsWritten, IsWriter
    <2>2. v = [df |-> v.df, flushed |-> v.flushed]
        BY <2>1, SMT DEF Writers
    <2> QED BY <1>2, <2>2 DEF Disk
<1>10. PICK l \in Nat : l = Len(df)
    BY <1>6, WriterFields, DiskFields
<1>11. IsValued(df', df, ks, n, l)
    BY <1>2, <1>6, <1>7, <1>8, <1>10, WrittenValues, DiskFields
<1>12. Values = ValuesOf(df) /\ Values' = ValuesOf(df')
    BY DEF Values, ValuesOf
<1>13. /\ \A o \in Values : o \in Values' /\ df'[o] = df[o]
       /\ \A i \in 1 .. n : l + i \in Values' /\ l + i \notin Values /\ df'[l + i].key = ks[i]
       /\ \A o \in Values' : o \in Values \/ \E i \in 1 .. n : o = l + i
    BY <1>11, <1>12 DEF IsValued
<1>14. /\ batch' \in Seq([key : Keys, o : Nat]) /\ Len(batch') = n
       /\ \A i \in 1 .. n : batch'[i].key = ks[i] /\ batch'[i].o = l + i
    <2>1. batch' = [i \in 1 .. n |-> [key |-> ks[i], o |-> l + i]]
        BY <1>2, <1>7, <1>10
    <2>2. \A i \in 1 .. n : l + i \in Nat
        BY SMT
    <2>3. \A i \in 1 .. n : [key |-> ks[i], o |-> l + i] \in [key : Keys, o : Nat]
        BY <1>7, <2>2
    <2>4. batch' \in Seq([key : Keys, o : Nat]) /\ Len(batch') = n
        BY <2>1, <2>3, SMT
    <2>5. \A i \in 1 .. n : batch'[i].key = ks[i] /\ batch'[i].o = l + i
        BY <2>1, SMT
    <2> QED BY <2>4, <2>5
<1>15. Waiting = {} /\ Pending = {}
    <2>1. 1 .. Len(batch) = {}
        BY <1>1, SMT
    <2> QED BY <2>1 DEF Waiting, Pending
<1>16. ASSUME NEW o \in Values, NEW i \in 1 .. n PROVE df[o].key # ks[i]
    <2>1. TableOK /\ DataOK /\ BatchOK
        BY DEF IInv
    <2>2. ks[i] \notin Stored
        BY <1>1, <1>7, <2>1, LookupFinds
    <2> QED BY <1>15, <2>2 DEF Stored
<1>17. /\ \A y : y \in Waiting' <=> \E i \in 1 .. n : y = l + i
       /\ \A y : y \in Pending' <=> \E i \in 1 .. n : y = ks[i]
    BY <1>14 DEF Waiting, Pending
<1>18. Values' \ Waiting' = Values \ Waiting
    <2>1. ASSUME NEW o \in Values, o \in Waiting' PROVE FALSE
        <3>1. PICK i \in 1 .. n : o = l + i
            BY <1>17, <2>1
        <3>2. l + i \notin Values
            BY <1>13
        <3> QED BY <3>1, <3>2
    <2>2. ASSUME NEW o \in Values', o \notin Waiting', o \notin Values PROVE FALSE
        <3>1. PICK i \in 1 .. n : o = l + i
            BY <1>13, <2>2
        <3> QED BY <1>17, <2>2, <3>1
    <2>3. \A o \in Values : o \in Values'
        BY <1>13
    <2> QED BY <1>15, <2>1, <2>2, <2>3
<1>19. IndexOf(hash, df, Values \ Waiting)' = IndexOf(hash, df, Values \ Waiting)
    <2>1. PICK T : T = Values \ Waiting /\ T = Values' \ Waiting' /\ T \subseteq Values
        BY <1>18
    <2>2. \A o \in T : EntryFor(hash, df', o) = EntryFor(hash, df, o)
        BY <1>13, <2>1 DEF EntryFor
    <2>3. IndexOf(hash, df', T) = IndexOf(hash, df, T)
        BY <2>2 DEF IndexOf
    <2> QED BY <1>1, <2>1, <2>3
<1>20. TableOK'
    <2>1. IsTable(Held(c1, buckets), buckets, modulus, v, IndexOf(hash, df, Values \ Waiting))
        BY <1>6, <1>8, TableStays DEF IsWritten
    <2>2. \A i \in 0 .. buckets - 1 : Held(c1, buckets)'[i] = Held(c1, buckets)[i]
        BY <1>1 DEF Held, BucketIn
    <2>3. IsTable(Held(c1, buckets)', buckets, modulus, v, IndexOf(hash, df, Values \ Waiting))
        BY <2>1, <2>2, TableSame
    <2> QED BY <1>1, <1>9, <1>19, <2>3 DEF TableOK
<1>21. DataOK'
    <2>1. ASSUME NEW o \in Values' PROVE df'[o].key \in Keys
        <3>1. CASE o \in Values
            BY <1>13, <3>1 DEF IInv, DataOK
        <3>2. ASSUME NEW i \in 1 .. n, o = l + i PROVE df'[o].key \in Keys
            BY <1>7, <1>13, <3>2
        <3> QED BY <1>13, <3>1, <3>2
    <2>2. ASSUME NEW o \in Values', NEW p \in Values', df'[o].key = df'[p].key PROVE o = p
        <3>1. CASE o \in Values /\ p \in Values
            <4>1. df[o].key = df[p].key
                BY <1>13, <2>2, <3>1
            <4> QED BY <3>1, <4>1 DEF IInv, DataOK
        <3>2. ASSUME NEW a \in Values, NEW i \in 1 .. n, df'[a].key = df'[l + i].key PROVE FALSE
            <4>1. df'[a] = df[a] /\ df'[l + i].key = ks[i]
                BY <1>13
            <4> QED BY <1>16, <3>2, <4>1
        <3>3. ASSUME NEW i \in 1 .. n, NEW j \in 1 .. n, o = l + i, p = l + j PROVE o = p
            <4>1. ks[i] = ks[j]
                BY <1>13, <2>2, <3>3
            <4> QED BY <1>7, <3>3, <4>1
        <3> QED BY <1>13, <2>2, <3>1, <3>2, <3>3
    <2> QED BY <1>1, <2>1, <2>2 DEF IInv, DataOK
<1>22. BatchOK'
    <2>1. \A i \in 1 .. n : batch'[i].o \in Values' /\ df'[batch'[i].o].key = batch'[i].key
        BY <1>13, <1>14
    <2>2. ASSUME NEW i \in 1 .. n, NEW j \in 1 .. n, batch'[i].o = batch'[j].o PROVE i = j
        <3>1. l + i = l + j
            BY <1>14, <2>2
        <3> QED BY <3>1, SMT
    <2> QED BY <1>14, <2>1, <2>2 DEF BatchOK
<1>23. FilesOK'
    <2>1. batch' # <<>>
        <3>1. Len(<<>>) = 0
            BY SMT
        <3> QED BY <1>4, <1>14, <3>1
    <2> QED BY <1>1, <2>1 DEF IInv, FilesOK
<1>24. SizeOK'
    <2>1. ASSUME NEW k \in Stored PROVE k \in Stored'
        <3>1. PICK o \in Values : k = df[o].key
            BY DEF Stored
        <3>2. o \in Values' /\ df'[o].key = k
            BY <1>13, <3>1
        <3>3. k \notin Pending'
            BY <1>16, <1>17, <3>1
        <3> QED BY <3>2, <3>3 DEF Stored
    <2>2. ASSUME NEW k \in Stored' PROVE k \in Stored
        <3>1. PICK o \in Values' : k = df'[o].key /\ k \notin Pending'
            BY DEF Stored
        <3>2. ~ \E i \in 1 .. n : o = l + i
            BY <1>13, <1>17, <3>1
        <3>3. o \in Values /\ df[o].key = k
            BY <1>13, <3>1, <3>2
        <3> QED BY <1>15, <3>3 DEF Stored
    <2>3. Stored' = Stored
        BY <2>1, <2>2
    <2> QED BY <1>1, <2>3 DEF IInv, SizeOK
<1> QED BY <1>20, <1>21, <1>22, <1>23, <1>24 DEF IInv

-----------------------------------------------------------------------------
(* rekey *)

\* The buckets before b0 have their part of X, those from b0 to b1 - 1 of T.
IsFilled(a, w, X, T, b0, b1, nb, m) ==
    /\ a \in Rekeys(nb) /\ IsWriter(a.w) /\ Later(w, a.w)
    /\ \A i \in 0 .. nb - 1 : IsBucket(a.b[i], a.w.df)
    /\ \A i \in 0 .. nb - 1 : i < b0 => Contents(a.w.df, a.b[i]) = Home(X, i, nb, m)
    /\ \A i \in 0 .. nb - 1 : b0 <= i /\ i < b1 => Contents(a.w.df, a.b[i]) = Home(T, i, nb, m)

LEMMA RekeysFields ==
    ASSUME NEW nb, NEW a \in Rekeys(nb) PROVE a.b \in [0 .. nb - 1 -> Buckets] /\ a.w \in Writers
BY DEF Rekeys

\* The buckets that do not change.
LEMMA RekeyPassedOver ==
    ASSUME NEW nb \in Nat, NEW m, NEW w, NEW a, NEW X, NEW T, NEW b0 \in Nat, NEW b1 \in Nat,
           IsFilled(a, w, X, T, b0, b1, nb, m), NEW x, NEW n \in Nat, n = bucket_index(x.h, nb, m),
           n < b0 \/ n >= b1
    PROVE  IsFilled(a, w, X, T \cup {x}, b0, b1, nb, m)
<1>1. ASSUME NEW i \in 0 .. nb - 1, b0 <= i /\ i < b1
      PROVE  Contents(a.w.df, a.b[i]) = Home(T \cup {x}, i, nb, m)
    <2>1. i # n
        BY <1>1, SMT
    <2>2. Home(T \cup {x}, i, nb, m) = Home(T, i, nb, m)
        BY <2>1 DEF Home, Belongs
    <2> QED BY <1>1, <2>2 DEF IsFilled
<1> QED BY <1>1 DEF IsFilled

\* The bucket that gets the entry x.
LEMMA RekeyEnters ==
    ASSUME NEW nb \in Nat, NEW m, NEW w, IsWriter(w), NEW a, NEW X, NEW T, NEW b0 \in Nat, NEW b1 \in Nat,
           IsFilled(a, w, X, T, b0, b1, nb, m), NEW x \in Entries,
           NEW n \in 0 .. nb - 1, n = bucket_index(x.h, nb, m), b0 <= n, n < b1,
           NEW c, NEW v, IsPut(c, v, a.b[n], a.w, x), NEW out, out = [b |-> [a.b EXCEPT ![n] = c], w |-> v]
    PROVE  IsFilled(out, w, X, T \cup {x}, b0, b1, nb, m)
<1>1. /\ a \in Rekeys(nb) /\ IsWriter(a.w) /\ Later(w, a.w)
      /\ \A i \in 0 .. nb - 1 : IsBucket(a.b[i], a.w.df)
    BY DEF IsFilled
<1>2. PICK B : B = [a.b EXCEPT ![n] = c]
    OBVIOUS
<1>3. out.b = B /\ out.w = v
    BY <1>2, SMT
<1>4. /\ IsWriter(v) /\ Later(a.w, v) /\ IsBucket(c, v.df) /\ c \in Buckets
      /\ Contents(v.df, c) = Contents(a.w.df, a.b[n]) \cup {x}
    BY DEF IsPut, IsBucket
<1>5. B \in [0 .. nb - 1 -> Buckets] /\ B[n] = c /\ \A i \in 0 .. nb - 1 : i # n => B[i] = a.b[i]
    BY <1>1, <1>2, <1>4, RekeysFields
<1>6. out \in Rekeys(nb)
    <2>1. v \in Writers
        BY <1>4 DEF IsWriter
    <2> QED BY <1>2, <1>5, <2>1 DEF Rekeys
<1>7. Later(w, v)
    BY <1>1, <1>4, LaterAgain
<1>8. ASSUME NEW i \in 0 .. nb - 1, i # n PROVE Stays(a.b[i], a.w, v)
    <2>1. Grown(a.w.df, v.df)
        BY <1>4 DEF Later
    <2> QED BY <1>1, <1>4, <2>1, BucketStays
<1>9. ASSUME NEW i \in 0 .. nb - 1 PROVE IsBucket(B[i], v.df)
    <2>1. CASE i = n
        BY <1>4, <1>5, <2>1
    <2>2. CASE i # n
        BY <1>5, <1>8, <2>2 DEF Stays
    <2> QED BY <2>1, <2>2
<1>10. ASSUME NEW i \in 0 .. nb - 1, i < b0 PROVE Contents(v.df, B[i]) = Home(X, i, nb, m)
    <2>1. i # n
        BY <1>10, SMT
    <2>2. Contents(v.df, B[i]) = Contents(a.w.df, a.b[i])
        BY <1>5, <1>8, <2>1 DEF Stays
    <2> QED BY <1>10, <2>2 DEF IsFilled
<1>11. ASSUME NEW i \in 0 .. nb - 1, b0 <= i /\ i < b1
       PROVE  Contents(v.df, B[i]) = Home(T \cup {x}, i, nb, m)
    <2>1. Contents(a.w.df, a.b[i]) = Home(T, i, nb, m)
        BY <1>11 DEF IsFilled
    <2>2. CASE i = n
        <3>1. Home(T \cup {x}, i, nb, m) = Home(T, i, nb, m) \cup {x}
            BY <2>2 DEF Home, Belongs
        <3>2. Contents(v.df, B[i]) = Home(T, i, nb, m) \cup {x}
            BY <1>4, <1>5, <2>1, <2>2
        <3> QED BY <3>1, <3>2
    <2>3. CASE i # n
        <3>1. Home(T \cup {x}, i, nb, m) = Home(T, i, nb, m)
            BY <2>3 DEF Home, Belongs
        <3>2. Contents(v.df, B[i]) = Contents(a.w.df, a.b[i])
            BY <1>5, <1>8, <2>3 DEF Stays
        <3> QED BY <2>1, <3>1, <3>2
    <2> QED BY <2>2, <2>3
<1> QED BY <1>3, <1>4, <1>6, <1>7, <1>9, <1>10, <1>11 DEF IsFilled

\* The values a pass has come to after n records.
UpTo(n) == {o \in Values : o <= n}

LEMMA UpToNext ==
    ASSUME NEW n \in Nat, NEW l \in Nat, l = Len(df), n < l
    PROVE  UpTo(n + 1) = IF df[n + 1].key = 0 THEN UpTo(n) ELSE UpTo(n) \cup {n + 1}
<1>1. \A o : o \in Values <=> o \in 1 .. l /\ df[o].key # 0
    BY DEF Values
<1>2. n + 1 \in 1 .. l /\ n + 1 <= n + 1 /\ \A o \in 1 .. l : o <= n + 1 <=> o <= n \/ o = n + 1
    BY SMT
<1>3. CASE df[n + 1].key = 0
    <2>1. \A o \in Values : o # n + 1
        BY <1>1, <1>3
    <2>2. \A o \in Values : o <= n + 1 <=> o <= n
        BY <1>1, <1>2, <2>1
    <2>3. UpTo(n + 1) = UpTo(n)
        BY <2>2 DEF UpTo
    <2> QED BY <1>3, <2>3
<1>4. CASE df[n + 1].key # 0
    <2>1. n + 1 \in Values
        BY <1>1, <1>2, <1>4
    <2>2. \A o \in Values : o <= n + 1 <=> o <= n \/ o = n + 1
        BY <1>1, <1>2
    <2>3. UpTo(n + 1) = UpTo(n) \cup {n + 1}
        BY <2>1, <2>2 DEF UpTo
    <2> QED BY <1>4, <2>3
<1> QED BY <1>3, <1>4

\* What rekey is given: the new shape and hash function.
IsTarget(hf, nb, m) == IsShape(nb, m) /\ m = ceil_pow2(nb, WordBits) /\ hf \in HashFunctions

LEMMA RekeyPutKeeps ==
    ASSUME DataOK, NEW w, IsWriter(w), NEW hf, NEW nb, NEW m, IsTarget(hf, nb, m),
           NEW b0 \in Nat, NEW b1 \in Nat, NEW X, NEW a, NEW n \in Nat, n < Len(df), Len(df) \in Nat,
           NEW capacity,
           IsFilled(a, w, X, IndexOf(hf, df, UpTo(n)), b0, b1, nb, m)
    PROVE  IsFilled(RekeyPut(a, n + 1, b0, b1, hf, nb, capacity), w, X, IndexOf(hf, df, UpTo(n + 1)), b0, b1, nb, m)
<1>1. PICK o, k : o = n + 1 /\ k = df[o].key
    OBVIOUS
<1>2. UpTo(o) = IF k = 0 THEN UpTo(n) ELSE UpTo(n) \cup {o}
    BY <1>1, UpToNext
<1>3. o \in Nat /\ o \in 1 .. Len(df)
    BY <1>1, SMT
<1>4. PICK T : T = IndexOf(hf, df, UpTo(n))
    OBVIOUS
<1>5. PICK out : out = RekeyPut(a, o, b0, b1, hf, nb, capacity)
    OBVIOUS
<1>6. CASE k = 0
    <2>1. out = a
        BY <1>1, <1>5, <1>6 DEF RekeyPut
    <2>2. UpTo(o) = UpTo(n)
        BY <1>2, <1>6
    <2> QED BY <1>1, <1>5, <2>1, <2>2
<1>7. CASE k # 0
    <2>1. k \in Keys
        BY <1>1, <1>3, <1>7 DEF DataOK, Values
    <2>2. PICK h \in Nat : h = hf[k]
        BY <2>1, ConstantsAssumption DEF IsTarget
    <2>3. PICK x : x = EntryFor(hf, df, o) /\ x \in Entries /\ x.h = h /\ x.o = o
        <3>1. EntryFor(hf, df, o) = [h |-> h, o |-> o]
            BY <1>1, <2>2 DEF EntryFor
        <3>2. [h |-> h, o |-> o] \in Entries /\ [h |-> h, o |-> o].h = h /\ [h |-> h, o |-> o].o = o
            BY <1>3, NewEntry
        <3> QED BY <3>1, <3>2
    <2>4. IndexOf(hf, df, UpTo(o)) = T \cup {x}
        <3>1. IsMore(UpTo(o), UpTo(n), o) /\ IsSame(df, df, UpTo(o))
            BY <1>2, <1>7 DEF IsMore, IsSame
        <3>2. IsMore(IndexOf(hf, df, UpTo(o)), IndexOf(hf, df, UpTo(n)), EntryFor(hf, df, o))
            BY <3>1, IndexMore
        <3> QED BY <1>4, <2>3, <3>2 DEF IsMore
    <2>5. PICK i : i = bucket_index(h, nb, m) /\ i \in 0 .. nb - 1
        BY <2>2, IndexOfShape DEF IsTarget
    <2>6. nb \in Nat /\ i \in Nat
        <3>1. nb \in Nat
            BY DEF IsTarget, IsShape
        <3> QED BY <2>5, <3>1, SMT
    <2>7. PICK r, c : r = maybe_spill(a.b[i], a.w, capacity) /\ c = insert(r.b, o, h)
        OBVIOUS
    <2>8. IsFilled(a, w, X, T, b0, b1, nb, m)
        BY <1>4
    <2>9. CASE i < b0 \/ i >= b1
        <3>1. out = a
            BY <1>1, <1>5, <2>2, <2>5, <2>9 DEF RekeyPut, IsTarget
        <3>2. IsFilled(a, w, X, T \cup {x}, b0, b1, nb, m)
            BY <2>3, <2>5, <2>6, <2>8, <2>9, RekeyPassedOver
        <3> QED BY <1>1, <1>5, <2>4, <3>1, <3>2
    <2>10. CASE ~(i < b0 \/ i >= b1)
        <3>1. out = [b |-> [a.b EXCEPT ![i] = c], w |-> r.w]
            BY <1>1, <1>5, <1>7, <2>2, <2>5, <2>7, <2>10 DEF RekeyPut, IsTarget
        <3>2. b0 <= i /\ i < b1
            BY <2>6, <2>10, SMT
        <3>3. IsWriter(a.w) /\ IsBucket(a.b[i], a.w.df)
            BY <2>5, <2>8 DEF IsFilled
        <3>4. IsPut(c, r.w, a.b[i], a.w, x)
            BY <2>3, <2>7, <3>3, PutKeeps
        <3>5. IsFilled(out, w, X, T \cup {x}, b0, b1, nb, m)
            BY <2>3, <2>5, <2>6, <2>8, <3>1, <3>2, <3>4, RekeyEnters
        <3> QED BY <1>1, <1>5, <2>4, <3>5
    <2> QED BY <2>9, <2>10
<1> QED BY <1>6, <1>7

\* A pass fills the buckets from b0 to b1 - 1.
LEMMA RekeyPassKeeps ==
    ASSUME DataOK, NEW w, IsWriter(w), NEW hf, NEW nb, NEW m, IsTarget(hf, nb, m), Len(df) \in Nat,
           NEW b0 \in Nat, NEW b1 \in Nat, b0 <= b1, NEW X, X = IndexOf(hf, df, Values),
           NEW st, IsFilled(st, w, X, {}, b0, b0, nb, m), NEW capacity
    PROVE  IsFilled(RekeyPass(st, b0, b1, hf, nb, capacity), w, X, {}, b1, b1, nb, m)
<1> DEFINE put == [p \in Rekeys(nb) \X Nat |-> RekeyPut(p[1], p[2], b0, b1, hf, nb, capacity)]
           T(n) == IndexOf(hf, df, UpTo(n))
           S == [n \in Nat |-> {a \in Rekeys(nb) : IsFilled(a, w, X, T(n), b0, b1, nb, m)}]
           clear == [n \in 0 .. nb - 1 |-> IF n \in b0 .. b1 - 1 THEN Empty ELSE st.b[n]]
<1>1. PICK l \in Nat : l = Len(df)
    OBVIOUS
<1>2. PICK C, in : C = clear /\ in = [b |-> C, w |-> st.w]
    OBVIOUS
<1>3. PICK out : out = Loop(put, in, l) /\ out = RekeyPass(st, b0, b1, hf, nb, capacity)
    BY <1>1, <1>2 DEF RekeyPass
<1>4. nb \in Nat
    BY DEF IsTarget, IsShape
<1>5. ASSUME NEW a \in Rekeys(nb), NEW n \in Nat PROVE put[<<a, n>>] = RekeyPut(a, n, b0, b1, hf, nb, capacity)
    <2>1. <<a, n>> \in Rekeys(nb) \X Nat /\ <<a, n>>[1] = a /\ <<a, n>>[2] = n
        OBVIOUS
    <2> QED BY <2>1
<1>6. \A n \in Nat : S[n] = {a \in Rekeys(nb) : IsFilled(a, w, X, T(n), b0, b1, nb, m)}
    OBVIOUS
<1>7. \A a, Y : IsFilled(a, w, X, Y, b0, b1, nb, m) => a \in Rekeys(nb)
    BY DEF IsFilled
<1>8. \A i \in 0 .. nb - 1 : C[i] = IF i \in b0 .. b1 - 1 THEN Empty ELSE st.b[i]
    BY <1>2
<1>9. T(0) = {} /\ T(l) = X
    <2>1. \A o \in Values : ~(o <= 0) /\ o <= l
        BY <1>1, SMT DEF Values
    <2>2. UpTo(0) = {} /\ UpTo(l) = Values
        BY <2>1 DEF UpTo
    <2> QED BY <2>2 DEF IndexOf
<1>10. /\ IsWriter(st.w) /\ Later(w, st.w) /\ st \in Rekeys(nb)
       /\ \A i \in 0 .. nb - 1 : IsBucket(st.b[i], st.w.df)
       /\ \A i \in 0 .. nb - 1 : i < b0 => Contents(st.w.df, st.b[i]) = Home(X, i, nb, m)
    BY DEF IsFilled
<1>11. IsBucket(Empty, st.w.df) /\ Contents(st.w.df, Empty) = {} /\ Empty \in Buckets
    BY <1>10, EmptyBucket DEF IsBucket
<1>12. in \in Rekeys(nb) /\ in.b = C /\ in.w = st.w
    <2>1. C \in [0 .. nb - 1 -> Buckets]
        BY <1>2, <1>10, <1>11, RekeysFields
    <2>2. st.w \in Writers
        BY <1>10, RekeysFields
    <2>3. in.b = C /\ in.w = st.w
        BY <1>2, SMT
    <2> QED BY <1>2, <2>1, <2>2, <2>3 DEF Rekeys
<1> HIDE DEF S, put, clear
<1>13. in \in S[0]
    <2>1. 0 \in Nat
        BY SMT
    <2>2. ASSUME NEW i \in 0 .. nb - 1 PROVE IsBucket(C[i], st.w.df)
        <3>1. C[i] = Empty \/ C[i] = st.b[i]
            BY <1>8
        <3> QED BY <1>10, <1>11, <3>1
    <2>3. ASSUME NEW i \in 0 .. nb - 1, i < b0 PROVE Contents(st.w.df, C[i]) = Home(X, i, nb, m)
        <3>1. i \notin b0 .. b1 - 1
            BY <1>4, <2>3, SMT
        <3>2. C[i] = st.b[i]
            BY <1>8, <3>1
        <3> QED BY <1>10, <2>3, <3>2
    <2>4. ASSUME NEW i \in 0 .. nb - 1, b0 <= i /\ i < b1 PROVE Contents(st.w.df, C[i]) = Home({}, i, nb, m)
        <3>1. i \in b0 .. b1 - 1
            BY <1>4, <2>4, SMT
        <3>2. C[i] = Empty
            BY <1>8, <3>1
        <3> QED BY <1>11, <3>2 DEF Home
    <2>5. IsFilled(in, w, X, {}, b0, b1, nb, m)
        BY <1>10, <1>12, <2>2, <2>3, <2>4 DEF IsFilled
    <2> QED BY <1>6, <1>9, <1>12, <2>1, <2>5
<1> HIDE DEF T
<1>14. ASSUME NEW n \in Nat, NEW a \in S[n], n < l PROVE put[<<a, n + 1>>] \in S[n + 1]
    <2>1. n + 1 \in Nat
        BY SMT
    <2>2. a \in Rekeys(nb) /\ IsFilled(a, w, X, T(n), b0, b1, nb, m)
        BY <1>6
    <2>3. IsFilled(RekeyPut(a, n + 1, b0, b1, hf, nb, capacity), w, X, T(n + 1), b0, b1, nb, m)
        BY <1>1, <1>14, <2>2, RekeyPutKeeps DEF T
    <2> QED BY <1>5, <1>6, <1>7, <2>1, <2>2, <2>3
<1>15. out \in S[l]
    BY <1>3, <1>13, <1>14, LoopReaches
<1>16. IsFilled(out, w, X, X, b0, b1, nb, m)
    BY <1>6, <1>9, <1>15
<1>17. \A i \in 0 .. nb - 1 : i < b1 => i < b0 \/ (b0 <= i /\ i < b1)
    BY <1>4, SMT
<1>18. \A i \in 0 .. nb - 1 : ~(b1 <= i /\ i < b1)
    BY <1>4, SMT
<1>19. IsFilled(out, w, X, {}, b1, b1, nb, m)
    BY <1>16, <1>17, <1>18 DEF IsFilled
<1> QED BY <1>3, <1>19

\* The buckets before s[2] are filled: n of them, or all.
IsPassed(s, w, X, nb, m, n) ==
    \E a \in Rekeys(nb), b \in Nat :
        s = <<a, b>> /\ b <= nb /\ (n <= b \/ b = nb) /\ IsFilled(a, w, X, {}, b, b, nb, m)

LEMMA RekeyRoundKeeps ==
    ASSUME DataOK, NEW w, IsWriter(w), NEW hf, NEW nb, NEW m, IsTarget(hf, nb, m), Len(df) \in Nat,
           NEW X, X = IndexOf(hf, df, Values), NEW chunk \in Nat \ {0}, NEW capacity,
           NEW n \in Nat, NEW s, IsPassed(s, w, X, nb, m, n)
    PROVE  IsPassed(RekeyRound(s, chunk, hf, nb, capacity), w, X, nb, m, n + 1)
<1>1. PICK a \in Rekeys(nb), b \in Nat :
          s = <<a, b>> /\ b <= nb /\ (n <= b \/ b = nb) /\ IsFilled(a, w, X, {}, b, b, nb, m)
    BY DEF IsPassed
<1>2. s[1] = a /\ s[2] = b
    BY <1>1
<1>3. nb \in Nat
    BY DEF IsTarget, IsShape
<1>4. CASE b >= nb
    <2>1. RekeyRound(s, chunk, hf, nb, capacity) = s
        BY <1>2, <1>4 DEF RekeyRound
    <2>2. b = nb
        <3>1. b <= nb
            BY <1>1
        <3> QED BY <1>3, <1>4, <3>1, SMT
    <2> QED BY <1>1, <2>1, <2>2 DEF IsPassed
<1>5. CASE ~(b >= nb)
    <2>1. PICK b1 : b1 = IF b + chunk < nb THEN b + chunk ELSE nb
        OBVIOUS
    <2>2. RekeyRound(s, chunk, hf, nb, capacity) = <<RekeyPass(a, b, b1, hf, nb, capacity), b1>>
        BY <1>2, <1>5, <2>1 DEF RekeyRound
    <2>3. n <= b \/ b = nb
        BY <1>1
    <2>4. b1 \in Nat /\ b <= b1 /\ b1 <= nb /\ (n + 1 <= b1 \/ b1 = nb)
        <3>1. CASE b + chunk < nb
            <4>1. b1 = b + chunk
                BY <2>1, <3>1
            <4> QED BY <1>3, <1>5, <2>3, <3>1, <4>1, SMT
        <3>2. CASE ~(b + chunk < nb)
            <4>1. b1 = nb
                BY <2>1, <3>2
            <4> QED BY <1>3, <1>5, <4>1, SMT
        <3> QED BY <3>1, <3>2
    <2>5. PICK c : c = RekeyPass(a, b, b1, hf, nb, capacity) /\ IsFilled(c, w, X, {}, b1, b1, nb, m)
        <3>1. IsFilled(a, w, X, {}, b, b, nb, m) /\ b \in Nat /\ b1 \in Nat /\ b <= b1
            BY <1>1, <2>4
        <3>2. IsFilled(RekeyPass(a, b, b1, hf, nb, capacity), w, X, {}, b1, b1, nb, m)
            BY <3>1, RekeyPassKeeps
        <3> QED BY <3>2
    <2>6. c \in Rekeys(nb)
        BY <2>5 DEF IsFilled
    <2> QED BY <2>2, <2>4, <2>5, <2>6 DEF IsPassed
<1> QED BY <1>4, <1>5

\* All passes together make a table of all values.
LEMMA RekeyFills ==
    ASSUME DataOK, NEW w, IsWriter(w), NEW hf, NEW nb, NEW m, IsTarget(hf, nb, m), Len(df) \in Nat,
           NEW X, X = IndexOf(hf, df, Values), NEW chunk \in Nat \ {0}, NEW capacity,
           NEW st, st = [b |-> [n \in 0 .. nb - 1 |-> Empty], w |-> w], NEW pass,
           pass = [p \in (Rekeys(nb) \X Nat) \X Nat |-> RekeyRound(p[1], chunk, hf, nb, capacity)]
    PROVE  IsFilled(Loop(pass, <<st, 0>>, nb)[1], w, X, {}, nb, nb, nb, m)
<1> DEFINE S == [n \in Nat |-> {s \in Rekeys(nb) \X Nat : IsPassed(s, w, X, nb, m, n)}]
<1>1. nb \in Nat
    BY DEF IsTarget, IsShape
<1>2. ASSUME NEW s \in Rekeys(nb) \X Nat, NEW n \in Nat PROVE pass[<<s, n>>] = RekeyRound(s, chunk, hf, nb, capacity)
    <2>1. <<s, n>> \in (Rekeys(nb) \X Nat) \X Nat /\ <<s, n>>[1] = s
        OBVIOUS
    <2> QED BY <2>1
<1>3. \A n \in Nat : S[n] = {s \in Rekeys(nb) \X Nat : IsPassed(s, w, X, nb, m, n)}
    OBVIOUS
<1>4. ASSUME NEW s, NEW n, IsPassed(s, w, X, nb, m, n) PROVE s \in Rekeys(nb) \X Nat
    <2>1. PICK a \in Rekeys(nb), b \in Nat : s = <<a, b>>
        BY <1>4 DEF IsPassed
    <2> QED BY <2>1
<1>5. PICK B : B = [n \in 0 .. nb - 1 |-> Empty]
    OBVIOUS
<1>6. IsBucket(Empty, w.df) /\ Empty \in Buckets
    BY EmptyBucket DEF IsBucket
<1>7. st \in Rekeys(nb) /\ st.b = B /\ st.w = w
    <2>1. B \in [0 .. nb - 1 -> Buckets] /\ w \in Writers
        BY <1>5, <1>6 DEF IsWriter
    <2>2. st.b = B /\ st.w = w
        BY <1>5, SMT
    <2> QED BY <1>5, <2>1, <2>2 DEF Rekeys
<1> HIDE DEF S
<1>8. <<st, 0>> \in S[0]
    <2>1. 0 \in Nat /\ 0 <= nb /\ 0 <= 0 /\ \A i \in 0 .. nb - 1 : ~(i < 0) /\ ~(0 <= i /\ i < 0)
        BY <1>1, SMT
    <2>2. Later(w, w)
        BY LaterSame
    <2>3. \A i \in 0 .. nb - 1 : IsBucket(B[i], w.df)
        BY <1>5, <1>6
    <2>4. IsFilled(st, w, X, {}, 0, 0, nb, m)
        BY <1>7, <2>1, <2>2, <2>3 DEF IsFilled
    <2>5. IsPassed(<<st, 0>>, w, X, nb, m, 0)
        BY <1>7, <2>1, <2>4 DEF IsPassed
    <2> QED BY <1>3, <1>4, <2>1, <2>5
<1>9. ASSUME NEW n \in Nat, NEW s \in S[n], n < nb PROVE pass[<<s, n + 1>>] \in S[n + 1]
    <2>1. n + 1 \in Nat
        BY SMT
    <2>2. s \in Rekeys(nb) \X Nat /\ IsPassed(s, w, X, nb, m, n)
        BY <1>3
    <2>3. IsPassed(RekeyRound(s, chunk, hf, nb, capacity), w, X, nb, m, n + 1)
        BY <2>2, RekeyRoundKeeps
    <2> QED BY <1>2, <1>3, <1>4, <2>1, <2>2, <2>3
<1>10. PICK last : last = Loop(pass, <<st, 0>>, nb) /\ last \in S[nb]
    BY <1>1, <1>8, <1>9, LoopReaches
<1>11. PICK a \in Rekeys(nb), b \in Nat :
           last = <<a, b>> /\ b <= nb /\ (nb <= b \/ b = nb) /\ IsFilled(a, w, X, {}, b, b, nb, m)
    BY <1>1, <1>3, <1>10 DEF IsPassed
<1>12. b = nb
    <2>1. b <= nb /\ (nb <= b \/ b = nb)
        BY <1>11
    <2> QED BY <1>1, <2>1, SMT
<1>13. last[1] = a
    BY <1>11
<1> QED BY <1>10, <1>11, <1>12, <1>13

\* The bound on the buckets of a file is one of a word.
LEMMA RekeyTarget ==
    ASSUME NEW nb \in 1 .. MaxRekeyBuckets, NEW hf \in HashFunctions
    PROVE  /\ IsTarget(hf, nb, ceil_pow2(nb, WordBits))
           /\ \E k \in Nat : ceil_pow2(nb, WordBits) = Pow2(k)
<1>1. nb \in Nat \ {0} /\ nb <= MaxRekeyBuckets /\ MaxRekeyBuckets \in Nat
    BY ConstantsAssumption, SMT
<1>2. PICK c \in Nat : c = Cardinality(Keys)
    BY FS_CardinalityType, WordAssumption
<1>3. WordBits \in Nat
    BY ConstantsAssumption
<1>4. PICK q \in Nat : q = Pow2(Pow2(WordBits) - 1)
    <2>1. Pow2(WordBits) \in Nat \ {0}
        BY <1>3, PowerSteps
    <2>2. Pow2(WordBits) - 1 \in Nat
        BY <2>1, SMT
    <2> QED BY <2>2, PowerSteps
<1>5. 1 + MaxRekeyBuckets + c <= q
    BY <1>2, <1>4, WordAssumption
<1>6. nb <= q
    BY <1>1, <1>5, SMT
<1>7. IsShape(nb, ceil_pow2(nb, WordBits)) /\ \E k \in Nat : ceil_pow2(nb, WordBits) = Pow2(k)
    BY <1>1, <1>3, <1>4, <1>6, CeilIsShape
<1> QED BY <1>7 DEF IsTarget

LEMMA RekeyIInv ==
    ASSUME IInv, NEW nb \in 1 .. MaxRekeyBuckets, NEW chunk \in 1 .. MaxRekeyBuckets,
           NEW hf \in HashFunctions, NEW header \in Headers, rekey(nb, chunk, hf, header)
    PROVE  IInv'
<1>1. PICK m : m = ceil_pow2(nb, WordBits)
    OBVIOUS
<1>2. /\ ~opened /\ hash' = hf /\ buckets' = nb /\ modulus' = m
      /\ UNCHANGED <<c0, c1, frac, batch, opened, short>>
    BY <1>1 DEF rekey
<1>3. PICK pass, st, out :
          /\ pass = [p \in (Rekeys(nb) \X Nat) \X Nat |-> RekeyRound(p[1], chunk, hf, nb, header.capacity)]
          /\ st = [b |-> [n \in 0 .. nb - 1 |-> Empty], w |-> Disk]
          /\ out = Loop(pass, <<st, 0>>, nb)[1]
          /\ kf' = [i \in 1 .. nb |-> out.b[i - 1]]
          /\ df' = out.w.df /\ flushed' = flush(out.w).flushed
    BY DEF rekey, Disk
<1>4. batch = <<>> /\ c1 = NoCache
    BY <1>2 DEF IInv, FilesOK
<1>5. Waiting = {} /\ Waiting' = {} /\ Pending = {} /\ Pending' = {}
    <2>1. 1 .. Len(batch) = {}
        BY <1>4, SMT
    <2> QED BY <1>2, <2>1 DEF Waiting, Pending
<1>6. IsWriter(Disk)
    BY DEF IInv, TableOK, IsTable
<1>7. IsTarget(hf, nb, m) /\ \E k \in Nat : m = Pow2(k)
    BY <1>1, RekeyTarget
<1>8. nb \in Nat /\ chunk \in Nat \ {0} /\ nb <= MaxRekeyBuckets
    BY ConstantsAssumption, SMT
<1>9. PICK X : X = IndexOf(hf, df, Values)
    OBVIOUS
<1>10. IsFilled(out, Disk, X, {}, nb, nb, nb, m)
    <2>1. Len(df) \in Nat
        BY <1>6, WriterFields, DiskFields
    <2>2. DataOK
        BY DEF IInv
    <2> QED BY <1>3, <1>6, <1>7, <1>8, <1>9, <2>1, <2>2, RekeyFills
<1>11. /\ IsWriter(out.w) /\ Later(Disk, out.w)
       /\ \A i \in 0 .. nb - 1 : IsBucket(out.b[i], out.w.df)
       /\ \A i \in 0 .. nb - 1 : Contents(out.w.df, out.b[i]) = Home(X, i, nb, m)
    <2>1. \A i \in 0 .. nb - 1 : i < nb
        BY <1>8, SMT
    <2> QED BY <1>10, <2>1 DEF IsFilled
<1>12. flushed' = Len(df')
    <2>1. flush(out.w).flushed = Len(out.w.df)
        BY SMT DEF flush
    <2> QED BY <1>3, <2>1
<1>13. IsWriter(Disk') /\ Disk'.df = df'
    <2>1. df' \in Seq(Records) /\ Len(df') \in Nat /\ IsData(df')
        BY <1>3, <1>11, WriterFields DEF IsWriter
    <2>2. PICK w : w = [df |-> df', flushed |-> Len(df')] /\ w \in Writers /\ w.df = df' /\ w.flushed = Len(df')
        BY <2>1, NewWriter
    <2>3. Disk' = w
        BY <1>12, <2>2 DEF Disk
    <2>4. Len(df') <= Len(df')
        BY <2>1, SMT
    <2> QED BY <2>1, <2>2, <2>3, <2>4 DEF IsWriter
<1>14. Values' = Values /\ \A o \in Values : df'[o] = df[o]
    <2>1. SameValues(df, df')
        BY <1>3, <1>6, <1>11, LaterValues, DiskFields
    <2>2. Values = ValuesOf(df) /\ Values' = ValuesOf(df')
        BY DEF Values, ValuesOf
    <2> QED BY <2>1, <2>2 DEF SameValues
<1>15. IndexOf(hash, df, Values \ Waiting)' = X
    <2>1. Values' \ Waiting' = Values
        BY <1>5, <1>14
    <2>2. \A o \in Values : EntryFor(hf, df', o) = EntryFor(hf, df, o)
        BY <1>14 DEF EntryFor
    <2>3. IndexOf(hf, df', Values) = X
        BY <1>9, <2>2 DEF IndexOf
    <2> QED BY <1>2, <2>1, <2>3
<1>16. \A o \in Values : df[o].key \in Keys
    BY DEF IInv, DataOK
<1>17. X \subseteq Entries
    <2>1. ASSUME NEW o \in Values PROVE EntryFor(hf, df, o) \in Entries
        <3>1. hf[df[o].key] \in Nat
            BY <1>16, ConstantsAssumption
        <3>2. o \in Nat
            <4>1. Len(df) \in Nat
                BY <1>6, WriterFields, DiskFields
            <4> QED BY <4>1, SMT DEF Values
        <3> QED BY <3>1, <3>2, NewEntry DEF EntryFor
    <2> QED BY <1>9, <2>1 DEF IndexOf
<1>18. TableOK'
    <2>1. ASSUME NEW i \in 0 .. nb - 1 PROVE Held(c1, buckets)'[i] = out.b[i]
        <3>1. i + 1 \in 1 .. nb /\ (i + 1) - 1 = i
            BY <1>8, SMT
        <3>2. i \notin DOMAIN c1' /\ kf'[i + 1] = out.b[i]
            BY <1>2, <1>3, <1>4, <3>1 DEF NoCache
        <3> QED BY <1>2, <3>2 DEF Held, BucketIn
    <2>2. IsTable(out.b, nb, m, Disk', X)
        BY <1>3, <1>7, <1>11, <1>13, <1>17 DEF IsTable, IsTarget
    <2>3. IsTable(Held(c1, buckets)', nb, m, Disk', X)
        BY <2>1, <2>2, TableSame
    <2> QED BY <1>2, <1>15, <2>3 DEF TableOK
<1>19. DataOK'
    <2>1. /\ \A o \in Values : df'[o].key \in Keys
          /\ \A o, p \in Values : df'[o].key = df'[p].key => o = p
        BY <1>14 DEF IInv, DataOK
    <2> QED BY <1>2, <1>14, <2>1 DEF DataOK
<1>20. BatchOK'
    <2>1. 1 .. Len(batch') = {} /\ batch' \in Seq([key : Keys, o : Nat])
        BY <1>2, <1>4, SMT
    <2> QED BY <2>1 DEF BatchOK
<1>21. FilesOK'
    <2>1. Len(kf') = nb
        BY <1>3, <1>8, SMTT(30)
    <2> QED BY <1>2, <1>4, <1>12, <2>1 DEF IInv, FilesOK
<1>22. SizeOK'
    <2>1. Stored' \in SUBSET Keys
        BY <1>19 DEF DataOK, Stored
    <2>2. IsFiniteSet(Stored')
        BY <2>1, FS_Subset, WordAssumption
    <2>3. PICK n \in Nat : n = Cardinality(Stored')
        BY <2>2, FS_CardinalityType
    <2>4. nb <= 1 + MaxRekeyBuckets + n
        BY <1>8, ConstantsAssumption, SMT
    <2> QED BY <1>2, <1>7, <2>3, <2>4 DEF SizeOK
<1> QED BY <1>18, <1>19, <1>20, <1>21, <1>22 DEF IInv

-----------------------------------------------------------------------------
(* The theorems *)

LEMMA NextIInv == IInv /\ [Next]_vars => IInv'
<1> SUFFICES ASSUME IInv, [Next]_vars PROVE IInv'
    OBVIOUS
<1>1. ASSUME NEW P \in SUBSET Keys, CommitBegin(P) PROVE IInv'
    BY <1>1, CommitBeginIInv
<1>2. CASE CommitStep
    BY <1>2, CommitStepIInv
<1>3. CASE CommitEnd
    BY <1>3, CommitEndIInv
<1>4. CASE close
    BY <1>4, CloseIInv
<1>5. CASE open
    BY <1>5, OpenIInv
<1>6. ASSUME NEW nb \in 1 .. MaxRekeyBuckets, NEW chunk \in 1 .. MaxRekeyBuckets,
             NEW hf \in HashFunctions, NEW header \in Headers, rekey(nb, chunk, hf, header)
      PROVE  IInv'
    BY <1>6, RekeyIInv
<1>7. CASE UNCHANGED vars
    BY <1>7, StutterIInv
<1> QED BY <1>1, <1>2, <1>3, <1>4, <1>5, <1>6, <1>7 DEF Next

LEMMA IInvHolds == Spec => []IInv
BY InitIInv, NextIInv, PTL DEF Spec

\* However many buckets were split, spilled into the data file, reopened with a
\* modulus computed anew or rebuilt by rekey under another hash function, a
\* lookup finds exactly the keys inserted, also in the middle of a commit
\* (basic_store::fetch, split, load, maybe_spill, rekey).
THEOREM AllFoundThm == Spec => []AllFound
<1>1. IInv => AllFound
    BY LookupFinds DEF IInv, AllFound
<1> QED BY <1>1, IInvHolds, PTL

\* split has flushed every spill it reads back, and after a commit or a rekey
\* all the data the buckets refer to is in the file (bulk_writer, split).
THEOREM SpillsReadableThm == Spec => []SpillsReadable
<1>1. IInv => SpillsReadable
    BY DEF IInv, FilesOK, SpillsReadable
<1> QED BY <1>1, IInvHolds, PTL
=============================================================================
