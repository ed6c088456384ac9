----------------------------- MODULE TableShape -----------------------------
(***************************************************************************)
(* How a NuDB table grows: create fixes the block size and makes one       *)
(* bucket, and every split in commit adds one bucket at the end            *)
(* (nudb/impl/create.ipp, nudb/impl/basic_store.ipp).                      *)
(***************************************************************************)
EXTENDS Hashing

CONSTANTS
    MaxBlockSize,   \* bound: block sizes tried (field<uint16_t>::max in create)
    MaxBuckets,     \* bound: buckets
    MaxHash,        \* bound: hashes 0 .. MaxHash
    WordBits        \* log2 of the word size of ceil_pow2

ASSUME BoundsAssumption ==
    /\ MaxBlockSize \in Nat /\ MaxBuckets \in Nat \ {0}
    /\ MaxHash \in Nat /\ WordBits \in Nat
\* The number of buckets, and its ceil_pow2, are numbers of one word: the size
\* of the key file is, and a block has more bytes than one.
ASSUME WordAssumption == MaxBuckets <= Pow2(Pow2(WordBits) - 1)

VARIABLES blockSize, buckets, modulus

vars == <<blockSize, buckets, modulus>>

Hashes == 0 .. MaxHash

\* create accepts the block size and makes a key file of one bucket.
create ==
    /\ blockSize \in 0 .. MaxBlockSize /\ bucket_capacity(blockSize) >= 1
    /\ buckets = 1 /\ modulus = 1

Split ==
    /\ buckets < MaxBuckets
    /\ modulus' = SplitModulus(buckets, modulus)
    /\ buckets' = SplitTo(buckets) + 1
    /\ UNCHANGED blockSize

Next == Split
Spec == create /\ [][Next]_vars

-----------------------------------------------------------------------------
\* The block size is one create accepts, and the modulus is at least the
\* number of buckets and less than twice that number.
TypeOK ==
    /\ blockSize \in 0 .. MaxBlockSize /\ bucket_capacity(blockSize) >= 1
    /\ buckets \in 1 .. MaxBuckets /\ modulus \in buckets .. 2 * buckets - 1

\* What the modulus needs besides to be the right one: it is one, or even.
ModulusHalves == modulus = 1 \/ modulus = 2 * (modulus \div 2)

\* Every hash has its bucket: the key file is never read behind its end
\* (bucket_index in fetch, insert, load).
IndexInRange ==
    \A h \in Hashes : bucket_index(h, buckets, modulus) \in 0 .. buckets - 1

\* A split changes the bucket of no hash but those of the bucket being split,
\* and these stay or move to the new one (the assertion n == n1 || n == n2 of
\* basic_store::split, for whatever the bucket holds).
SplitMovesOnlyFrom ==
    \A h \in Hashes :
        LET old == bucket_index(h, buckets, modulus)
            new == bucket_index(h, buckets', modulus')
        IN  new = old \/ (old = SplitFrom(buckets, modulus) /\ new = SplitTo(buckets))
SplitIsLocal == [][SplitMovesOnlyFrom]_vars

\* Closing the store and opening it again gives the table the shape it had:
\* the number of buckets comes back from the size of the key file, and
\* ceil_pow2 of it, the least power of two not below it, is the modulus the
\* splits arrived at.
ReopenKeepsShape ==
    /\ BucketsOfSize((buckets + 1) * blockSize, blockSize) = buckets
    /\ ceil_pow2(buckets, WordBits) = modulus

\* A full bucket fits in its block, and another entry would not.
BucketFitsBlock ==
    /\ bucket_size(bucket_capacity(blockSize)) <= blockSize
    /\ bucket_size(bucket_capacity(blockSize) + 1) > blockSize

\* verify_fast accepts the size of a full spill record, as verify_normal does
\* (verify.hpp names one set of checks for the two algorithms), except where
\* such a record is shorter than the header of the key file: block sizes of 104
\* to 115, whose databases it rejects.
FastAcceptsSpills ==
    LET size == bucket_size(bucket_capacity(blockSize))
    IN  bucket_size(bucket_capacity(size)) = size <=> size >= KeyFileHeaderSize
=============================================================================
