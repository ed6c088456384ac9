------------------------------- MODULE Hashing -------------------------------
(***************************************************************************)
(* The arithmetic of NuDB's key file: which bucket a hash belongs to, how  *)
(* the table grows by one bucket, and how many entries fit in a block      *)
(* (nudb/detail/bucket.hpp, nudb/detail/format.hpp).                       *)
(***************************************************************************)
EXTENDS Integers

\* Mutant: a bucket number equal to the number of buckets is kept.
bucket_index_OffByOne(h, buckets, modulus) ==
    LET n == h % modulus IN IF n > buckets THEN n - modulus \div 2 ELSE n

\* The bucket of hash h in a table of that many buckets.
bucket_index(h, buckets, modulus) ==
    LET n == h % modulus IN IF n >= buckets THEN n - modulus \div 2 ELSE n

\* The modulus and the bucket count after one split, and the bucket that is
\* split (n1) into itself and the new last bucket (n2).
SplitModulus(buckets, modulus) ==
    IF buckets = modulus THEN 2 * modulus ELSE modulus

\* Mutant: the modulus is halved before it is doubled.
SplitFrom_OldModulus(buckets, modulus) == buckets - modulus \div 2

SplitFrom(buckets, modulus) == buckets - SplitModulus(buckets, modulus) \div 2
SplitTo(buckets) == buckets

\* Bytes of the fields of a Bucket Record: Count and Spill, and one entry of
\* Offset, Size and Hash.
BucketHeaderSize == 2 + 6
EntrySize == 6 + 6 + 6
KeyFileHeaderSize == 8 + 2 + 8 + 8 + 2 + 8 + 8 + 2 + 2 + 56

\* Mutant: the header of the bucket is not counted.
bucket_size_NoHeader(capacity) == capacity * EntrySize

bucket_size(capacity) == BucketHeaderSize + capacity * EntrySize

bucket_capacity(block_size) ==
    IF block_size < KeyFileHeaderSize \/ block_size < BucketHeaderSize
    THEN 0
    ELSE (block_size - BucketHeaderSize) \div EntrySize

\* The number of buckets a key file of that many bytes holds, as its header is
\* read.
BucketsOfSize(file_size, block_size) ==
    IF file_size > block_size /\ block_size > 0
    THEN (file_size - block_size) \div block_size
    ELSE 0

\* The value of x after n rounds of a loop whose round i makes x into g[<<x, i>>].
Loop(g, x, n) == LET it[i \in Nat] == IF i = 0 THEN x ELSE g[<<it[i - 1], i>>] IN it[n]

\* T{1} << n
Pow2(n) == Loop([p \in Nat \X Nat |-> 2 * p[1]], 1, n)

\* Mutant: a power of two is rounded up to the next one.
RoundUp_Always(x, Bits) == 1

\* (x & (x - 1)) == 0 ? 0 : 1
RoundUp(x, Bits) == IF x = 0 \/ \E i \in 0 .. Pow2(Bits) - 1 : x = Pow2(i) THEN 0 ELSE 1

\* ceil_pow2 halves the range in which the highest set bit of x lies: at each
\* of the steps j = 32, 16, ... 1 it asks whether any of the j bits above the
\* lower j is set, and if so shifts x by j and adds j to the exponent.  Bits is
\* log2 of the word size: 6 for 64-bit words.  The state is <<y, x, j>>.
Halve(s) ==
    LET j == s[3]
        k == IF (s[2] \div Pow2(j)) % Pow2(j) = 0 THEN 0 ELSE j
    IN  <<s[1] + k, s[2] \div Pow2(k), j \div 2>>

ceil_pow2(x, Bits) ==
    LET halve == [p \in (Nat \X Nat \X Nat) \X Nat |-> Halve(p[1])]
    IN  Pow2(Loop(halve, <<RoundUp(x, Bits), x, Pow2(Bits) \div 2>>, Bits)[1])
=============================================================================
