---------------------------- MODULE HashingProofs ----------------------------
(* Lemmas about the arithmetic of the table, for tables of any size: they are *)
(* used by the proofs about a growing table (TableShapeProofs) and about the  *)
(* threads that share one (StoreProofs).                                      *)
EXTENDS Hashing, WellFoundedInduction, TLAPS

\* The modulus of a table lies between the number of buckets and twice that
\* number, and is even or one.
IsShape(buckets, modulus) ==
    /\ buckets \in Nat \ {0} /\ modulus \in buckets .. 2 * buckets - 1
    /\ modulus = 1 \/ modulus = 2 * (modulus \div 2)

\* Division with remainder.
LEMMA DivisionWithRemainder ==
    ASSUME NEW h \in Nat, NEW m \in Nat \ {0}
    PROVE  h \div m \in Nat /\ h % m \in 0 .. m - 1 /\ h = m * (h \div m) + (h % m)
  OBVIOUS

\* Multiples of a positive number are as far apart as their factors say.
LEMMA ProductGap ==
    ASSUME NEW m \in Nat \ {0}, NEW a \in Int, NEW b \in Int, a <= b
    PROVE  m * a \in Int /\ m * b \in Int /\ m * a <= m * b
  OBVIOUS

\* One number written with two remainders, the second by twice the divisor.
LEMMA TwoRemainders ==
    ASSUME NEW m \in Nat \ {0}, NEW q \in Nat, NEW p \in Nat,
           NEW r \in Nat, NEW s \in Nat, r < m, s < 2 * m,
           m * q + r = m * (2 * p) + s
    PROVE  s = r \/ s = r + m
<1>1. PICK x \in Int, y \in Int : x = m * q /\ y = m * (2 * p)
  OBVIOUS
<1>2. x + r = y + s
  BY <1>1
<1>3. q + 1 <= 2 * p => x + m <= y
  BY <1>1, ProductGap
<1>4. 2 * p + 2 <= q => y + 2 * m <= x
  BY <1>1, ProductGap
<1>5. q = 2 * p => x = y
  BY <1>1
<1>6. q = 2 * p + 1 => x = y + m
  BY <1>1
<1>7. q + 1 <= 2 * p \/ q = 2 * p \/ q = 2 * p + 1 \/ 2 * p + 2 <= q
  OBVIOUS
<1>8. x + m <= y \/ x = y \/ x = y + m \/ y + 2 * m <= x
  BY <1>3, <1>4, <1>5, <1>6, <1>7
<1> HIDE <1>1
<1> QED BY <1>2, <1>8

\* Remainders by a number and by twice that number: the larger one is the
\* smaller one, or that plus the number.
LEMMA RemainderOfDouble ==
    ASSUME NEW h \in Nat, NEW m \in Nat \ {0}
    PROVE  /\ h % m \in 0 .. m - 1 /\ h % (2 * m) \in 0 .. 2 * m - 1
           /\ h % (2 * m) = h % m \/ h % (2 * m) = (h % m) + m
<1> DEFINE d == 2 * m
<1>1. d \in Nat \ {0} /\ 0 .. d - 1 = 0 .. 2 * m - 1 /\ \A p \in Nat : d * p = m * (2 * p)
  OBVIOUS
<1> HIDE DEF d
<1>2. h \div m \in Nat /\ h % m \in 0 .. m - 1 /\ h = m * (h \div m) + (h % m)
  BY DivisionWithRemainder, Zenon
<1>3. h \div d \in Nat /\ h % d \in 0 .. d - 1 /\ h = d * (h \div d) + (h % d)
  BY <1>1, DivisionWithRemainder, Zenon
<1>4. PICK p \in Nat, s \in 0 .. 2 * m - 1 : s = h % d /\ p = h \div d /\ h = d * p + s
  BY <1>1, <1>3, Zenon
<1>5. PICK q \in Nat, r \in 0 .. m - 1 : r = h % m /\ q = h \div m /\ h = m * q + r
  BY <1>2, Zenon
<1>6. m * q + r = m * (2 * p) + s
  BY <1>1, <1>4, <1>5, Zenon
<1>7. r \in Nat /\ s \in Nat /\ r < m /\ s < 2 * m
  OBVIOUS
<1>8. s = r \/ s = r + m
  BY <1>6, <1>7, TwoRemainders, Zenon
<1> QED BY <1>4, <1>5, <1>8, Zenon DEF d

-----------------------------------------------------------------------------
\* A hash's bucket is one of the table's.
LEMMA IndexOfShape ==
    ASSUME NEW buckets, NEW modulus, IsShape(buckets, modulus), NEW h \in Nat
    PROVE  bucket_index(h, buckets, modulus) \in 0 .. buckets - 1
<1>1. modulus \in Nat \ {0} /\ buckets \in Nat \ {0} /\ h % modulus \in 0 .. modulus - 1
  BY DivisionWithRemainder DEF IsShape
<1>2. CASE modulus = 1
  BY <1>1, <1>2 DEF IsShape, bucket_index
<1>3. CASE modulus = 2 * (modulus \div 2)
  <2>1. PICK half \in Nat : half = modulus \div 2 /\ modulus = 2 * half
    BY <1>1, <1>3, DivisionWithRemainder
  <2> QED BY <1>1, <2>1 DEF IsShape, bucket_index
<1> QED BY <1>2, <1>3 DEF IsShape

\* A split gives a table of one bucket more, and its two buckets are of that
\* table.
LEMMA SplitKeepsShape ==
    ASSUME NEW buckets, NEW modulus, IsShape(buckets, modulus)
    PROVE  /\ IsShape(buckets + 1, SplitModulus(buckets, modulus))
           /\ SplitFrom(buckets, modulus) \in 0 .. buckets - 1
           /\ SplitTo(buckets) = buckets
<1>1. modulus \in Nat \ {0} /\ buckets \in Nat \ {0}
  BY DEF IsShape
<1>2. CASE buckets = modulus
  <2>1. SplitModulus(buckets, modulus) = 2 * modulus /\ (2 * modulus) \div 2 = modulus
    BY <1>1, <1>2 DEF SplitModulus
  <2> QED BY <1>1, <1>2, <2>1 DEF IsShape, SplitFrom, SplitTo
<1>3. CASE buckets # modulus
  <2>1. SplitModulus(buckets, modulus) = modulus
    BY <1>3 DEF SplitModulus
  <2>2. PICK half \in Nat \ {0} : half = modulus \div 2 /\ modulus = 2 * half /\ half < buckets
    <3>1. modulus # 1 /\ modulus = 2 * (modulus \div 2) /\ buckets < modulus
      BY <1>1, <1>3 DEF IsShape
    <3>2. modulus \div 2 \in Nat
      BY <1>1, DivisionWithRemainder
    <3> QED BY <1>1, <3>1, <3>2 DEF IsShape
  <2> QED BY <1>1, <1>3, <2>1, <2>2 DEF IsShape, SplitFrom, SplitTo
<1> QED BY <1>2, <1>3

\* The lemma on one split: every hash has its bucket in the new table where it
\* had it in the old one, or moves from the bucket that is split to the new one.
LEMMA SplitOfShape ==
    ASSUME NEW buckets, NEW modulus, IsShape(buckets, modulus), NEW h \in Nat
    PROVE  LET old == bucket_index(h, buckets, modulus)
               new == bucket_index(h, buckets + 1, SplitModulus(buckets, modulus))
           IN  new = old \/ (old = SplitFrom(buckets, modulus) /\ new = SplitTo(buckets))
<1> DEFINE doubled == SplitModulus(buckets, modulus)
<1>1. modulus \in Nat \ {0} /\ buckets \in Nat \ {0}
  BY DEF IsShape
<1>2. CASE buckets = modulus
  <2>1. doubled = 2 * modulus /\ doubled \div 2 = modulus
    BY <1>1, <1>2 DEF SplitModulus
  <2>2. /\ h % modulus \in 0 .. modulus - 1 /\ h % doubled \in 0 .. 2 * modulus - 1
        /\ h % doubled = h % modulus \/ h % doubled = (h % modulus) + modulus
    BY <1>1, <2>1, RemainderOfDouble, Zenon
  <2>3. SplitFrom(buckets, modulus) = 0
    BY <1>1, <1>2, <2>1 DEF SplitFrom
  <2> HIDE DEF doubled
  <2> QED BY <1>1, <1>2, <2>1, <2>2, <2>3 DEF bucket_index, SplitTo, doubled
<1>3. CASE buckets # modulus
  <2>1. doubled = modulus /\ SplitFrom(buckets, modulus) = buckets - modulus \div 2
    BY <1>3 DEF SplitModulus, SplitFrom
  <2>2. PICK half \in Nat \ {0} : half = modulus \div 2 /\ modulus = 2 * half /\ half < buckets
    <3>1. modulus # 1 /\ modulus = 2 * (modulus \div 2) /\ buckets < modulus
      BY <1>1, <1>3 DEF IsShape
    <3>2. modulus \div 2 \in Nat
      BY <1>1, DivisionWithRemainder
    <3> QED BY <1>1, <3>1, <3>2 DEF IsShape
  <2>3. h % modulus \in 0 .. modulus - 1
    BY <1>1, DivisionWithRemainder, Zenon
  <2> QED BY <1>1, <2>1, <2>2, <2>3 DEF bucket_index, SplitTo
<1> QED BY <1>2, <1>3

-----------------------------------------------------------------------------
USE ZenonT(40)      \* from here on; leaves that need arithmetic cite SMT

(* Induction, for sets of numbers, and the function that Loop defines *)

\* A set of numbers that holds 0, and with a number the next, holds them all.
LEMMA Induction ==
    ASSUME NEW P, 0 \in P, \A n \in Nat : n \in P => n + 1 \in P
    PROVE  \A n \in Nat : n \in P
<1> SUFFICES ASSUME NEW n \in Nat, n \notin P PROVE FALSE
    OBVIOUS
<1> DEFINE less == {p \in Nat \X Nat : p[1] < p[2]}
           outside == {k \in Nat : k \notin P}
<1>1. OpToRel(<, Nat) = less
    BY SMT DEF OpToRel
<1>2. IsWellFoundedOn(less, Nat)
    BY <1>1, NatLessThanWellFounded
<1>3. outside \in SUBSET Nat /\ outside # {}
    OBVIOUS
<1>4. PICK m \in outside : \A k \in outside : <<k, m>> \notin less
    <2> HIDE DEF less, outside
    <2> QED BY <1>2, <1>3, WFMin
<1>5. m \in Nat /\ m # 0
    OBVIOUS
<1>6. m - 1 \in Nat /\ (m - 1) + 1 = m /\ <<m - 1, m>> \in less
    BY <1>5, SMT
<1>7. m - 1 \in P
    BY <1>4, <1>6
<1>8. m \in P
    BY <1>6, <1>7
<1> QED BY <1>8

\* f has the values of x in the first n rounds of a loop.
IsRun(f, g, x, n) == f[0] = x /\ \A i \in Nat : i < n => f[i + 1] = g[<<f[i], i + 1>>]

LEMMA RunExists ==
    ASSUME NEW g, NEW x
    PROVE  \A n \in Nat : \E f : IsRun(f, g, x, n)
<1> DEFINE P == {n \in Nat : \E f : IsRun(f, g, x, n)}
<1>1. 0 \in P
    <2>1. [i \in Nat |-> x][0] = x
        BY SMT
    <2>2. 0 \in Nat /\ \A i \in Nat : ~(i < 0)
        BY SMT
    <2> QED BY <2>1, <2>2 DEF IsRun
<1>2. ASSUME NEW n \in Nat, n \in P PROVE n + 1 \in P
    <2>1. PICK f : IsRun(f, g, x, n)
        BY <1>2
    <2> DEFINE e == [i \in Nat |-> IF i <= n THEN f[i] ELSE g[<<f[n], n + 1>>]]
    <2>2. n + 1 \in Nat /\ 0 <= n /\ 0 \in Nat
        BY SMT
    <2>3. e[0] = f[0]
        BY <2>2
    <2>4. ASSUME NEW i \in Nat, i < n + 1 PROVE e[i + 1] = g[<<e[i], i + 1>>]
        <3>1. i <= n /\ i + 1 \in Nat
            BY <2>4, SMT
        <3>2. CASE i = n
            <4>1. ~(i + 1 <= n)
                BY <3>2, SMT
            <4> QED BY <3>1, <3>2, <4>1
        <3>3. CASE i < n
            <4>1. i + 1 <= n
                BY <3>3, SMT
            <4>2. e[i + 1] = f[i + 1] /\ e[i] = f[i]
                BY <3>1, <4>1
            <4>3. f[i + 1] = g[<<f[i], i + 1>>]
                BY <2>1, <3>3 DEF IsRun
            <4> QED BY <4>2, <4>3
        <3>4. i = n \/ i < n
            BY <3>1, SMT
        <3> QED BY <3>2, <3>3, <3>4
    <2> HIDE DEF e
    <2>5. IsRun(e, g, x, n + 1)
        BY <2>1, <2>3, <2>4 DEF IsRun
    <2> QED BY <2>2, <2>5
<1> HIDE DEF P
<1>3. \A n \in Nat : n \in P
    BY <1>1, <1>2, Induction
<1> QED BY <1>3 DEF P

LEMMA RunsAgree ==
    ASSUME NEW g, NEW x, NEW f, NEW e, NEW m \in Nat, NEW n \in Nat,
           IsRun(f, g, x, m), IsRun(e, g, x, n)
    PROVE  \A i \in Nat : i <= m /\ i <= n => f[i] = e[i]
<1> DEFINE P == {i \in Nat : i <= m /\ i <= n => f[i] = e[i]}
<1>1. 0 \in P
    <2>1. 0 \in Nat
        BY SMT
    <2> QED BY <2>1 DEF IsRun
<1>2. ASSUME NEW i \in Nat, i \in P PROVE i + 1 \in P
    <2> SUFFICES ASSUME i + 1 <= m, i + 1 <= n PROVE f[i + 1] = e[i + 1]
        BY SMT
    <2>1. i <= m /\ i <= n /\ i < m /\ i < n
        BY SMT
    <2>2. f[i] = e[i]
        BY <1>2, <2>1
    <2> QED BY <2>1, <2>2 DEF IsRun
<1> HIDE DEF P
<1>3. \A i \in Nat : i \in P
    BY <1>1, <1>2, Induction
<1> QED BY <1>3 DEF P

\* The recursive function of Iterate exists, so that it has the equations that
\* define it.
LEMMA Looped ==
    ASSUME NEW g, NEW x
    PROVE  /\ Loop(g, x, 0) = x
           /\ \A n \in Nat : Loop(g, x, n + 1) = g[<<Loop(g, x, n), n + 1>>]
<1>z. 0 \in Nat
    BY SMT
<1> DEFINE F(n) == CHOOSE f : IsRun(f, g, x, n)
           h == [n \in Nat |-> F(n)[n]]
<1>h. \A n \in Nat : h[n] = F(n)[n]
    OBVIOUS
<1>1. ASSUME NEW n \in Nat PROVE IsRun(F(n), g, x, n)
    BY RunExists
<1> HIDE DEF F, h
<1>2. ASSUME NEW n \in Nat, n # 0 PROVE h[n] = g[<<h[n - 1], n>>]
    <2>1. n - 1 \in Nat /\ (n - 1) + 1 = n /\ n - 1 < n /\ n - 1 <= n /\ n - 1 <= n - 1
        BY <1>2, SMT
    <2>2. IsRun(F(n), g, x, n) /\ IsRun(F(n - 1), g, x, n - 1)
        BY <1>1, <2>1
    <2>3. F(n)[n] = g[<<F(n)[n - 1], n>>]
        BY <2>1, <2>2 DEF IsRun
    <2>4. F(n)[n - 1] = F(n - 1)[n - 1]
        <3>1. PICK a, b, k : a = F(n) /\ b = F(n - 1) /\ k = n - 1
            OBVIOUS
        <3>2. k \in Nat /\ k <= n /\ k <= k /\ IsRun(a, g, x, n) /\ IsRun(b, g, x, k)
            BY <2>1, <2>2, <3>1
        <3>3. \A i \in Nat : i <= n /\ i <= k => a[i] = b[i]
            BY <3>2, RunsAgree, SMT
        <3>4. a[k] = b[k]
            BY <3>2, <3>3
        <3> QED BY <3>1, <3>4
    <2> QED BY <1>h, <2>1, <2>3, <2>4
<1>3. h[0] = x
    BY <1>1, <1>h, <1>z DEF IsRun
<1>4. h = [i \in Nat |-> IF i = 0 THEN x ELSE g[<<h[i - 1], i>>]]
    <2>1. \A i \in Nat : F(i)[i] = IF i = 0 THEN x ELSE g[<<h[i - 1], i>>]
        BY <1>2, <1>3, <1>h
    <2>2. h = [i \in Nat |-> F(i)[i]]
        BY DEF h
    <2> QED BY <2>1, <2>2
<1> DEFINE it[i \in Nat] == IF i = 0 THEN x ELSE g[<<it[i - 1], i>>]
<1>5. it = [i \in Nat |-> IF i = 0 THEN x ELSE g[<<it[i - 1], i>>]]
    BY <1>4
<1>6. \A n : Loop(g, x, n) = it[n]
    BY DEF Loop
<1> HIDE DEF it
<1>7. it[0] = x
    BY <1>5, <1>z
<1>8. ASSUME NEW n \in Nat PROVE it[n + 1] = g[<<it[n], n + 1>>]
    <2>1. n + 1 \in Nat /\ n + 1 # 0 /\ (n + 1) - 1 = n
        BY SMT
    <2>2. it[n + 1] = g[<<it[(n + 1) - 1], n + 1>>]
        BY <1>5, <2>1
    <2> QED BY <2>1, <2>2
<1> QED BY <1>6, <1>7, <1>8

\* The invariant of a loop: S[i] are the values allowed after i rounds.
LEMMA LoopReaches ==
    ASSUME NEW g, NEW x, NEW n \in Nat, NEW S, x \in S[0],
           \A i \in Nat : \A s \in S[i] : i < n => g[<<s, i + 1>>] \in S[i + 1]
    PROVE  Loop(g, x, n) \in S[n]
<1> DEFINE P == {i \in Nat : i <= n => Loop(g, x, i) \in S[i]}
<1>1. 0 \in P
    <2>1. 0 \in Nat
        BY SMT
    <2> QED BY <2>1, Looped
<1>2. ASSUME NEW i \in Nat, i \in P PROVE i + 1 \in P
    <2>1. i + 1 \in Nat /\ (i + 1 <= n => i <= n /\ i < n)
        BY SMT
    <2>2. Loop(g, x, i + 1) = g[<<Loop(g, x, i), i + 1>>]
        BY Looped
    <2> QED BY <1>2, <2>1, <2>2
<1> HIDE DEF P
<1>3. n \in P
    BY <1>1, <1>2, Induction
<1>4. n <= n
    BY SMT
<1> QED BY <1>3, <1>4 DEF P

-----------------------------------------------------------------------------
(* Powers of two *)

LEMMA PowerSteps ==
    /\ Pow2(0) = 1 /\ \A n \in Nat : Pow2(n) \in Nat \ {0}
    /\ \A n \in Nat : Pow2(n + 1) = 2 * Pow2(n)
<1> DEFINE g == [p \in Nat \X Nat |-> 2 * p[1]]
           S == [i \in Nat |-> Nat \ {0}]
<1>1. \A n : Pow2(n) = Loop(g, 1, n)
    BY DEF Pow2
<1>2. ASSUME NEW i \in Nat, NEW j \in Nat PROVE g[<<i, j>>] = 2 * i
    <2>1. <<i, j>> \in Nat \X Nat /\ <<i, j>>[1] = i
        OBVIOUS
    <2> QED BY <2>1
<1>3. \A i \in Nat : S[i] = Nat \ {0}
    OBVIOUS
<1> HIDE DEF g, S
<1>4. 0 \in Nat /\ 1 \in Nat \ {0} /\ \A i \in Nat : i + 1 \in Nat
    BY SMT
<1>5. \A a \in Nat \ {0} : 2 * a \in Nat \ {0}
    BY SMT
<1>6. ASSUME NEW n \in Nat PROVE Pow2(n) \in Nat \ {0}
    <2>1. 1 \in S[0]
        BY <1>3, <1>4
    <2>2. ASSUME NEW i \in Nat, NEW s \in S[i], i < n PROVE g[<<s, i + 1>>] \in S[i + 1]
        <3>1. s \in Nat \ {0} /\ i + 1 \in Nat
            BY <1>3, <1>4
        <3>2. g[<<s, i + 1>>] = 2 * s
            BY <1>2, <3>1
        <3> QED BY <1>3, <1>5, <3>1, <3>2
    <2>3. Loop(g, 1, n) \in S[n]
        BY <2>1, <2>2, LoopReaches
    <2> QED BY <1>1, <1>3, <2>3
<1>7. ASSUME NEW n \in Nat PROVE Pow2(n + 1) = 2 * Pow2(n)
    <2>1. Loop(g, 1, n + 1) = g[<<Loop(g, 1, n), n + 1>>]
        BY Looped
    <2>2. Pow2(n + 1) = g[<<Pow2(n), n + 1>>]
        BY <1>1, <2>1
    <2>3. Pow2(n) \in Nat /\ n + 1 \in Nat
        BY <1>4, <1>6
    <2> QED BY <1>2, <2>2, <2>3
<1>8. Pow2(0) = 1
    BY <1>1, Looped
<1> QED BY <1>6, <1>7, <1>8

LEMMA PowerOfSum ==
    ASSUME NEW a \in Nat, NEW b \in Nat PROVE Pow2(a + b) = Pow2(a) * Pow2(b)
<1> DEFINE P == {n \in Nat : Pow2(a + n) = Pow2(a) * Pow2(n)}
<1>1. 0 \in P
    <2>1. Pow2(a) \in Nat \ {0} /\ Pow2(0) = 1
        BY PowerSteps
    <2>2. 0 \in Nat /\ a + 0 = a /\ Pow2(a) = Pow2(a) * 1
        BY <2>1, SMT
    <2> QED BY <2>1, <2>2
<1>2. ASSUME NEW n \in Nat, n \in P PROVE n + 1 \in P
    <2>1. a + n \in Nat /\ n + 1 \in Nat /\ a + (n + 1) = (a + n) + 1
        BY SMT
    <2>2. PICK u \in Nat, v \in Nat : u = Pow2(a) /\ v = Pow2(n)
        BY PowerSteps
    <2>3. Pow2((a + n) + 1) = 2 * (u * v) /\ Pow2(n + 1) = 2 * v
        BY <1>2, <2>1, <2>2, PowerSteps
    <2>4. 2 * (u * v) = u * (2 * v)
        BY SMT
    <2> QED BY <2>1, <2>2, <2>3, <2>4
<1> HIDE DEF P
<1>3. \A n \in Nat : n \in P
    BY <1>1, <1>2, Induction
<1> QED BY <1>3 DEF P

\* The powers grow, and so name their exponents.
LEMMA PowersGrow ==
    ASSUME NEW a \in Nat, NEW b \in Nat, a < b PROVE 2 * Pow2(a) <= Pow2(b)
<1>1. PICK c \in Nat : b = (a + 1) + c
    <2>1. b - (a + 1) \in Nat /\ b = (a + 1) + (b - (a + 1))
        BY SMT
    <2> QED BY <2>1
<1>2. a + 1 \in Nat
    BY SMT
<1>3. Pow2(b) = Pow2(a + 1) * Pow2(c) /\ Pow2(a + 1) = 2 * Pow2(a)
    BY <1>1, <1>2, PowerOfSum, PowerSteps
<1>4. PICK u \in Nat, v \in Nat \ {0} : u = 2 * Pow2(a) /\ v = Pow2(c)
    <2>1. Pow2(a) \in Nat \ {0} /\ Pow2(c) \in Nat \ {0}
        BY PowerSteps
    <2>2. 2 * Pow2(a) \in Nat
        BY <2>1, SMT
    <2> QED BY <2>1, <2>2
<1>5. u <= u * v
    BY SMT
<1> QED BY <1>3, <1>4, <1>5

LEMMA ExponentAgrees ==
    ASSUME NEW a \in Nat, NEW b \in Nat, Pow2(a) <= Pow2(b), Pow2(b) < 2 * Pow2(a)
    PROVE  a = b
<1>1. PICK u \in Nat \ {0}, v \in Nat \ {0} : u = Pow2(a) /\ v = Pow2(b)
    BY PowerSteps
<1>2. a < b => 2 * u <= v
    BY <1>1, PowersGrow
<1>3. b < a => 2 * v <= u
    BY <1>1, PowersGrow
<1>4. u <= v /\ v < 2 * u
    BY <1>1
<1> QED BY <1>1, <1>2, <1>3, <1>4, SMT

-----------------------------------------------------------------------------
(* ceil_pow2, by the invariant of its loop *)

\* What the loop of ceil_pow2(x), begun with exponent y, has done when m of its
\* rounds are left: s[2] is x without its last e binary digits and fits in the
\* Pow2(m) bits that are still to be searched.
InCeil(s, x, y, m) ==
    /\ s \in Nat \X Nat \X Nat /\ s[3] = Pow2(m) \div 2
    /\ s[2] # 0 /\ s[2] < Pow2(Pow2(m))
    /\ \E e \in Nat : s[1] = y + e /\ Pow2(e) * s[2] <= x /\ x < Pow2(e) * (s[2] + 1)

\* Cutting off digits twice is cutting off their sum.
LEMMA CutTwice ==
    ASSUME NEW p \in Nat, NEW d \in Nat, NEW v \in Nat, NEW w \in Nat, NEW r \in Nat,
           NEW x \in Nat, v = d * w + r, r < d, p * v <= x, x < p * (v + 1)
    PROVE  (p * d) * w <= x /\ x < (p * d) * (w + 1)
<1>1. d * w <= v /\ v + 1 <= d * (w + 1) /\ d * w \in Nat /\ d * (w + 1) \in Nat
    BY SMT
<1>2. p * (d * w) <= p * v /\ p * (v + 1) <= p * (d * (w + 1))
    BY <1>1, SMT
<1>3. p * (d * w) = (p * d) * w /\ p * (d * (w + 1)) = (p * d) * (w + 1)
    BY SMT
<1>4. p * v \in Nat /\ p * (v + 1) \in Nat /\ (p * d) * w \in Nat /\ (p * d) * (w + 1) \in Nat
    BY SMT
<1> QED BY <1>2, <1>3, <1>4, SMT

\* The upper half of a number that fits in two halves fits in one.
LEMMA UpperHalf ==
    ASSUME NEW d \in Nat \ {0}, NEW v \in Nat, v < d * d
    PROVE  /\ v \div d \in Nat /\ v \div d < d /\ (v \div d) % d = v \div d
           /\ \E r \in Nat : r < d /\ v = d * (v \div d) + r
<1>1. PICK w \in Nat, r \in Nat : w = v \div d /\ r < d /\ v = d * w + r
    <2>1. v \div d \in Nat /\ v % d \in 0 .. d - 1 /\ v = d * (v \div d) + (v % d)
        BY DivisionWithRemainder
    <2>2. v % d \in Nat /\ v % d < d
        BY <2>1, SMT
    <2> QED BY <2>1, <2>2
<1>2. w < d
    <2>1. d <= w => d * d <= d * w
        BY SMT
    <2> QED BY <1>1, <2>1, SMT
<1>3. w % d = w
    BY <1>2, SMT
<1> QED BY <1>1, <1>2, <1>3

LEMMA HalveKeeps ==
    ASSUME NEW s, NEW x \in Nat, NEW y \in Nat, NEW m \in Nat, InCeil(s, x, y, m + 1)
    PROVE  InCeil(Halve(s), x, y, m)
<1>1. s \in Nat \X Nat \X Nat /\ s[3] = Pow2(m + 1) \div 2 /\ s[2] # 0 /\ s[2] < Pow2(Pow2(m + 1))
    BY DEF InCeil
<1>2. PICK j \in Nat \ {0} : j = Pow2(m)
    BY PowerSteps
<1>3. PICK d \in Nat \ {0} : d = Pow2(j)
    BY PowerSteps
<1>4. Pow2(m + 1) = j + j /\ s[3] = j
    <2>1. Pow2(m + 1) = 2 * j
        BY <1>2, PowerSteps
    <2>2. 2 * j = j + j /\ (2 * j) \div 2 = j
        BY SMT
    <2> QED BY <1>1, <2>1, <2>2
<1>5. PICK u \in Nat, v \in Nat : s[1] = u /\ s[2] = v
    BY <1>1
<1>6. v # 0 /\ v < d * d
    <2>1. Pow2(j + j) = d * d
        BY <1>3, PowerOfSum
    <2>2. v # 0 /\ v < Pow2(j + j)
        BY <1>1, <1>4, <1>5
    <2> QED BY <2>1, <2>2
<1>7. PICK e \in Nat : u = y + e /\ Pow2(e) * v <= x /\ x < Pow2(e) * (v + 1)
    BY <1>5 DEF InCeil
<1>8. PICK w \in Nat : w = v \div d
    BY <1>6, UpperHalf
<1>9. w < d /\ w % d = w /\ \E r \in Nat : r < d /\ v = d * w + r
    BY <1>6, <1>8, UpperHalf
<1>10. PICK i : i = j \div 2 /\ i \in Nat
    BY SMT
<1>11. Halve(s) = <<u + (IF w = 0 THEN 0 ELSE j), v \div Pow2(IF w = 0 THEN 0 ELSE j), i>>
    BY <1>3, <1>4, <1>5, <1>8, <1>9, <1>10 DEF Halve
<1>12. CASE w = 0
    <2>1. v < d
        BY <1>9, <1>12, SMT
    <2>2. u + 0 = u /\ v \div 1 = v
        BY SMT
    <2>3. Halve(s) = <<u, v, i>>
        BY <1>11, <1>12, <2>2, PowerSteps
    <2>4. <<u, v, i>> \in Nat \X Nat \X Nat /\ <<u, v, i>>[1] = u /\ <<u, v, i>>[2] = v /\ <<u, v, i>>[3] = i
        BY <1>10
    <2> QED BY <1>2, <1>3, <1>6, <1>7, <1>10, <2>1, <2>3, <2>4 DEF InCeil
<1>13. CASE w # 0
    <2>1. Halve(s) = <<u + j, w, i>>
        BY <1>3, <1>8, <1>11, <1>13
    <2>2. PICK p \in Nat : p = Pow2(e)
        BY PowerSteps
    <2>3. e + j \in Nat /\ u + j \in Nat /\ u + j = y + (e + j)
        BY <1>7, SMT
    <2>4. Pow2(e + j) = p * d
        BY <1>3, <2>2, PowerOfSum
    <2>5. (p * d) * w <= x /\ x < (p * d) * (w + 1)
        BY <1>7, <1>9, <2>2, CutTwice
    <2>6. <<u + j, w, i>> \in Nat \X Nat \X Nat /\ <<u + j, w, i>>[1] = u + j
          /\ <<u + j, w, i>>[2] = w /\ <<u + j, w, i>>[3] = i
        BY <1>10, <2>3
    <2> QED BY <1>2, <1>3, <1>9, <1>10, <1>13, <2>1, <2>3, <2>4, <2>5, <2>6 DEF InCeil
<1> QED BY <1>12, <1>13

\* After all its rounds the loop has found the exponent of the highest bit.
LEMMA LoopFinds ==
    ASSUME NEW x \in Nat \ {0}, NEW b \in Nat, x < Pow2(Pow2(b))
    PROVE  \E e \in Nat : /\ Pow2(e) <= x /\ x < 2 * Pow2(e)
                          /\ ceil_pow2(x, b) = Pow2(RoundUp(x, b) + e)
<1> DEFINE N3 == Nat \X Nat \X Nat
           halve == [p \in N3 \X Nat |-> Halve(p[1])]
           start == <<RoundUp(x, b), x, Pow2(b) \div 2>>
           S == [n \in Nat |-> {s \in N3 : n <= b => InCeil(s, x, RoundUp(x, b), b - n)}]
<1>1. PICK last : last = Loop(halve, start, b) /\ ceil_pow2(x, b) = Pow2(last[1])
    BY DEF ceil_pow2
<1>2. RoundUp(x, b) \in Nat
    <2>1. 0 \in Nat /\ 1 \in Nat
        BY SMT
    <2> QED BY <2>1 DEF RoundUp
<1>3. InCeil(start, x, RoundUp(x, b), b)
    <2>1. PICK q \in Nat : q = Pow2(b) \div 2
        <3>1. PICK n \in Nat : n = Pow2(b)
            BY PowerSteps
        <3>2. n \div 2 \in Nat
            BY SMT
        <3> QED BY <3>1, <3>2
    <2>2. start = <<RoundUp(x, b), x, q>> /\ start \in N3
        BY <1>2, <2>1
    <2>3. start[1] = RoundUp(x, b) /\ start[2] = x /\ start[3] = q
        BY <2>2
    <2>4. 0 \in Nat /\ 1 * x = x /\ 1 * (x + 1) = x + 1 /\ x <= x /\ x < x + 1
        BY SMT
    <2>5. RoundUp(x, b) = RoundUp(x, b) + 0
        BY <1>2, SMT
    <2> HIDE DEF start
    <2>6. Pow2(0) * x <= x /\ x < Pow2(0) * (x + 1)
        BY <2>4, PowerSteps
    <2> QED BY <2>1, <2>2, <2>3, <2>4, <2>5, <2>6 DEF InCeil
<1>4. ASSUME NEW s \in N3, NEW n \in Nat PROVE halve[<<s, n>>] = Halve(s)
    <2>1. <<s, n>> \in N3 \X Nat /\ <<s, n>>[1] = s
        OBVIOUS
    <2> QED BY <2>1
<1>5. \A n \in Nat : S[n] = {s \in N3 : n <= b => InCeil(s, x, RoundUp(x, b), b - n)}
    OBVIOUS
<1>6. \A s, y, m : InCeil(s, x, y, m) => s \in N3
    BY DEF InCeil
<1> HIDE DEF halve, start, S, N3
<1>7. start \in S[0]
    <2>1. 0 \in Nat /\ b - 0 = b
        BY SMT
    <2> QED BY <1>3, <1>5, <1>6, <2>1
<1>8. ASSUME NEW n \in Nat, NEW s \in S[n], n < b PROVE halve[<<s, n + 1>>] \in S[n + 1]
    <2>1. /\ n <= b /\ n + 1 \in Nat /\ n + 1 <= b
          /\ b - (n + 1) \in Nat /\ b - n = (b - (n + 1)) + 1
        BY <1>8, SMT
    <2>2. s \in N3 /\ InCeil(s, x, RoundUp(x, b), (b - (n + 1)) + 1)
        BY <1>5, <2>1
    <2>3. InCeil(Halve(s), x, RoundUp(x, b), b - (n + 1))
        BY <1>2, <2>1, <2>2, HalveKeeps
    <2>4. halve[<<s, n + 1>>] = Halve(s)
        BY <1>4, <2>1, <2>2
    <2> QED BY <1>5, <1>6, <2>1, <2>3, <2>4
<1>9. last \in S[b]
    BY <1>1, <1>7, <1>8, LoopReaches
<1>10. InCeil(last, x, RoundUp(x, b), 0)
    <2>1. b <= b /\ b - b = 0
        BY SMT
    <2> QED BY <1>5, <1>9, <2>1
<1>11. PICK v \in Nat : v = last[2]
    BY <1>10 DEF InCeil
<1>12. v = 1
    <2>1. Pow2(Pow2(0)) = 2
        <3>1. 0 \in Nat /\ 0 + 1 = 1 /\ 2 * 1 = 2
            BY SMT
        <3> QED BY <3>1, PowerSteps
    <2>2. v # 0 /\ v < 2
        BY <1>10, <1>11, <2>1 DEF InCeil
    <2> QED BY <2>2, SMT
<1>13. PICK e \in Nat : last[1] = RoundUp(x, b) + e /\ Pow2(e) * 1 <= x /\ x < Pow2(e) * (1 + 1)
    BY <1>10, <1>11, <1>12 DEF InCeil
<1>14. PICK p \in Nat : p = Pow2(e)
    BY PowerSteps
<1>15. p * 1 = p /\ p * (1 + 1) = 2 * p
    BY SMT
<1> QED BY <1>1, <1>13, <1>14, <1>15

\* ceil_pow2 returns the least power of two that is not less than its argument,
\* for every word size and every argument whose answer is a word: the comment
\* above it, "Returns the closest power of 2 not less than x".
THEOREM CeilPow2IsLeast ==
    ASSUME NEW b \in Nat, NEW x \in Nat \ {0}, x <= Pow2(Pow2(b) - 1),
           NEW k \in Nat, x <= Pow2(k), Pow2(k) < 2 * x
    PROVE  ceil_pow2(x, b) = Pow2(k)
<1>1. PICK n \in Nat : Pow2(b) = n + 1
    <2>1. PICK q \in Nat \ {0} : q = Pow2(b)
        BY PowerSteps
    <2>2. q - 1 \in Nat /\ q = (q - 1) + 1
        BY SMT
    <2> QED BY <2>1, <2>2
<1>2. n = Pow2(b) - 1 /\ 0 .. n = 0 .. Pow2(b) - 1
    <2>1. n = (n + 1) - 1
        BY SMT
    <2> QED BY <1>1, <2>1
<1>3. PICK t \in Nat \ {0} : t = Pow2(n)
    BY PowerSteps
<1>4. x <= t
    BY <1>2, <1>3
<1>5. x < Pow2(Pow2(b))
    <2>1. Pow2(Pow2(b)) = 2 * t
        BY <1>1, <1>3, PowerSteps
    <2>2. x < 2 * t
        BY <1>4, SMT
    <2> QED BY <2>1, <2>2
<1>6. PICK e \in Nat : /\ Pow2(e) <= x /\ x < 2 * Pow2(e)
                       /\ ceil_pow2(x, b) = Pow2(RoundUp(x, b) + e)
    BY <1>5, LoopFinds
<1>7. PICK p \in Nat \ {0}, q \in Nat \ {0} : p = Pow2(e) /\ q = Pow2(k)
    BY PowerSteps
<1>8. p <= x /\ x < 2 * p /\ x <= q /\ q < 2 * x
    BY <1>6, <1>7
<1>9. CASE \E i \in 0 .. n : x = Pow2(i)
    <2>1. PICK i \in Nat : x = Pow2(i)
        <3>1. \A i \in 0 .. n : i \in Nat
            BY SMT
        <3> QED BY <1>9, <3>1
    <2>2. e = i /\ i = k
        BY <1>6, <2>1, ExponentAgrees
    <2>3. RoundUp(x, b) = 0 /\ 0 + e = e
        BY <1>2, <1>9, SMT DEF RoundUp
    <2> QED BY <1>6, <2>2, <2>3
<1>10. CASE ~\E i \in 0 .. n : x = Pow2(i)
    <2>1. RoundUp(x, b) = 1 /\ 1 + e = e + 1 /\ e + 1 \in Nat
        <3>1. x # 0
            OBVIOUS
        <3>2. RoundUp(x, b) = 1
            BY <1>2, <1>10, <3>1 DEF RoundUp
        <3>3. 1 + e = e + 1 /\ e + 1 \in Nat
            BY SMT
        <3> QED BY <3>2, <3>3
    <2>2. e \in 0 .. n
        <3>1. n < e => 2 * t <= p
            BY <1>3, <1>7, PowersGrow
        <3> QED BY <1>4, <1>8, <3>1, SMT
    <2>3. p # x
        BY <1>7, <1>10, <2>2
    <2>4. e < k
        <3>1. k < e => 2 * q <= p
            BY <1>7, PowersGrow
        <3>2. k = e => p = q
            BY <1>7
        <3> QED BY <1>8, <2>3, <3>1, <3>2, SMT
    <2>5. 2 * p <= q
        BY <1>7, <2>4, PowersGrow
    <2>6. q < 2 * (2 * p)
        BY <1>8, SMT
    <2>7. Pow2(e + 1) = 2 * p
        BY <1>7, PowerSteps
    <2>8. e + 1 = k
        BY <1>7, <2>1, <2>5, <2>6, <2>7, ExponentAgrees
    <2> QED BY <1>6, <2>1, <2>8
<1> QED BY <1>9, <1>10

\* The numbers of buckets a file is made with: the modulus open and rekey compute
\* fits.
LEMMA CeilIsShape ==
    ASSUME NEW b \in Nat, NEW x \in Nat \ {0}, x <= Pow2(Pow2(b) - 1)
    PROVE  IsShape(x, ceil_pow2(x, b)) /\ \E k \in Nat : ceil_pow2(x, b) = Pow2(k)
<1>1. PICK q \in Nat : q = Pow2(b) - 1 /\ q + 1 = Pow2(b)
    <2>1. Pow2(b) \in Nat \ {0}
        BY PowerSteps
    <2>2. Pow2(b) - 1 \in Nat /\ (Pow2(b) - 1) + 1 = Pow2(b)
        BY <2>1, SMT
    <2> QED BY <2>2
<1>2. x < Pow2(Pow2(b))
    <2>1. Pow2(q + 1) = 2 * Pow2(q) /\ Pow2(q) \in Nat \ {0} /\ x <= Pow2(q)
        BY <1>1, PowerSteps
    <2>2. x < 2 * Pow2(q)
        BY <2>1, SMT
    <2> QED BY <1>1, <2>1, <2>2
<1>3. PICK e \in Nat : Pow2(e) <= x /\ x < 2 * Pow2(e)
    BY <1>2, LoopFinds
<1>4. Pow2(e) \in Nat /\ Pow2(e + 1) = 2 * Pow2(e) /\ e + 1 \in Nat
    <2>1. e + 1 \in Nat
        BY SMT
    <2> QED BY <2>1, PowerSteps
<1>5. PICK k \in Nat : x <= Pow2(k) /\ Pow2(k) < 2 * x
    <2>1. CASE x = Pow2(e)
        <3>1. x <= Pow2(e) /\ Pow2(e) < 2 * x
            BY <2>1, SMT
        <3> QED BY <3>1
    <2>2. CASE x # Pow2(e)
        <3>1. x <= Pow2(e + 1) /\ Pow2(e + 1) < 2 * x
            BY <1>3, <1>4, <2>2, SMT
        <3> QED BY <1>4, <3>1
    <2> QED BY <2>1, <2>2
<1>6. ceil_pow2(x, b) = Pow2(k)
    BY <1>5, CeilPow2IsLeast
<1>7. PICK m \in Nat \ {0} : m = Pow2(k)
    BY PowerSteps
<1>8. m = 1 \/ m = 2 * (m \div 2)
    <2>1. CASE k = 0
        BY <1>7, <2>1, PowerSteps
    <2>2. CASE k # 0
        <3>1. PICK j \in Nat : k = j + 1
            <4>1. k - 1 \in Nat /\ k = (k - 1) + 1
                BY <2>2, SMT
            <4> QED BY <4>1
        <3>2. m = 2 * Pow2(j) /\ Pow2(j) \in Nat
            BY <1>7, <3>1, PowerSteps
        <3> QED BY <3>2, SMT
    <2> QED BY <2>1, <2>2
<1>9. m \in x .. 2 * x - 1
    <2>1. x <= m /\ m < 2 * x
        BY <1>5, <1>7
    <2> QED BY <2>1, SMT
<1> QED BY <1>6, <1>7, <1>8, <1>9 DEF IsShape
=============================================================================
