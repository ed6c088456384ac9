-------------------------- MODULE TableShapeProofs --------------------------
(***************************************************************************)
(* Proofs about TableShape, for every block size, number of buckets and    *)
(* hash.  The invariant is TypeOK with ModulusHalves: the modulus lies     *)
(* between the number of buckets and twice that number, and is even or one.*)
(***************************************************************************)
EXTENDS TableShape, HashingProofs

IInv == TypeOK /\ ModulusHalves

\* The invariant says that the table has a shape in the sense of HashingProofs.
LEMMA InvariantIsShape == IInv => IsShape(buckets, modulus)
  BY BoundsAssumption DEF IInv, TypeOK, ModulusHalves, IsShape

\* What a split keeps.
LEMMA NextIInv == IInv /\ [Next]_vars => IInv'
<1> SUFFICES ASSUME IInv, [Next]_vars PROVE IInv'
  OBVIOUS
<1>1. CASE Split
  <2>1. IsShape(buckets + 1, SplitModulus(buckets, modulus)) /\ SplitTo(buckets) = buckets
    BY InvariantIsShape, SplitKeepsShape
  <2>2. buckets' = buckets + 1 /\ modulus' = SplitModulus(buckets, modulus)
    BY <1>1, <2>1 DEF Split
  <2>3. IsShape(buckets', modulus') /\ buckets' <= MaxBuckets
    BY <1>1, <2>1, <2>2, BoundsAssumption DEF Split, IInv, TypeOK
  <2> QED BY <1>1, <2>3, BoundsAssumption DEF Split, IInv, TypeOK, ModulusHalves, IsShape
<1>2. CASE UNCHANGED vars
  BY <1>2 DEF vars, IInv, TypeOK, ModulusHalves
<1> QED BY <1>1, <1>2 DEF Next

LEMMA IInvHolds == Spec => []IInv
<1>1. create => IInv
  BY BoundsAssumption DEF create, IInv, TypeOK, ModulusHalves
<1> QED BY <1>1, NextIInv, PTL DEF Spec

\* The modulus of a growing table always lies between the number of buckets and
\* twice that number (the doubling in basic_store::commit).
THEOREM TypeCorrect == Spec => []TypeOK
<1>1. IInv => TypeOK
  BY DEF IInv
<1> QED BY <1>1, IInvHolds, PTL

\* bucket_index never names a bucket behind the end of the key file.
THEOREM IndexInRangeThm == Spec => []IndexInRange
<1>1. IInv => IndexInRange
  BY InvariantIsShape, IndexOfShape, BoundsAssumption DEF IndexInRange, Hashes
<1> QED BY <1>1, IInvHolds, PTL

\* The assertion of basic_store::split: an entry of the bucket that is split
\* stays or goes to the new bucket, and no other bucket is concerned.
THEOREM SplitIsLocalThm == Spec => SplitIsLocal
<1>1. IInv /\ [Next]_vars => [SplitMovesOnlyFrom]_vars
  <2> SUFFICES ASSUME IInv, Split PROVE SplitMovesOnlyFrom
    BY DEF Next
  <2> SUFFICES ASSUME NEW h \in Hashes
               PROVE  LET old == bucket_index(h, buckets, modulus)
                          new == bucket_index(h, buckets', modulus')
                      IN  \/ new = old
                          \/ old = SplitFrom(buckets, modulus) /\ new = SplitTo(buckets)
    BY DEF SplitMovesOnlyFrom
  <2>1. h \in Nat
    BY BoundsAssumption DEF Hashes
  <2>2. buckets' = buckets + 1 /\ modulus' = SplitModulus(buckets, modulus)
    BY DEF Split, SplitTo
  <2> QED BY <2>1, <2>2, InvariantIsShape, SplitOfShape
<1> QED BY <1>1, IInvHolds, PTL DEF Spec, SplitIsLocal

\* A full bucket fits in its block, and one entry more would not: what
\* bucket_capacity promises for every block size create accepts.
THEOREM BucketFitsBlockThm == Spec => []BucketFitsBlock
<1>1. TypeOK => BucketFitsBlock
  <2> SUFFICES ASSUME TypeOK PROVE BucketFitsBlock
    OBVIOUS
  <2>1. blockSize \in Nat /\ blockSize >= KeyFileHeaderSize
    BY BoundsAssumption
       DEF TypeOK, bucket_capacity, KeyFileHeaderSize, BucketHeaderSize, EntrySize
  <2>2. bucket_capacity(blockSize) = (blockSize - 8) \div 18
    BY <2>1 DEF bucket_capacity, KeyFileHeaderSize, BucketHeaderSize, EntrySize
  <2>3. PICK n \in Nat, m \in 0 .. 17 : n = (blockSize - 8) \div 18 /\ blockSize - 8 = 18 * n + m
    BY <2>1, DivisionWithRemainder DEF KeyFileHeaderSize
  <2> QED BY <2>1, <2>2, <2>3 DEF BucketFitsBlock, bucket_size, BucketHeaderSize, EntrySize
<1> QED BY <1>1, TypeCorrect, PTL

\* verify_fast's test of a spill record is verify_normal's for every block size
\* whose full spill record is not shorter than the header of the key file.
THEOREM FastAcceptsSpillsThm == Spec => []FastAcceptsSpills
<1>1. TypeOK => FastAcceptsSpills
  <2> SUFFICES ASSUME TypeOK PROVE FastAcceptsSpills
    OBVIOUS
  <2>1. PICK n \in Nat \ {0} : n = bucket_capacity(blockSize)
    <3>1. blockSize \in Nat /\ blockSize >= KeyFileHeaderSize
      BY BoundsAssumption
         DEF TypeOK, bucket_capacity, KeyFileHeaderSize, BucketHeaderSize, EntrySize
    <3>2. bucket_capacity(blockSize) = (blockSize - 8) \div 18
      BY <3>1 DEF bucket_capacity, KeyFileHeaderSize, BucketHeaderSize, EntrySize
    <3>3. (blockSize - 8) \div 18 \in Nat
      BY <3>1, DivisionWithRemainder DEF KeyFileHeaderSize
    <3> QED BY <3>2, <3>3 DEF TypeOK
  <2>2. PICK size \in Nat : size = bucket_size(n) /\ size = 8 + n * 18
    BY DEF bucket_size, BucketHeaderSize, EntrySize
  <2>3. CASE size >= KeyFileHeaderSize
    <3>1. bucket_capacity(size) = (size - 8) \div 18
      BY <2>3 DEF bucket_capacity, KeyFileHeaderSize, BucketHeaderSize, EntrySize
    <3>2. (size - 8) \div 18 = n
      BY <2>2
    <3> QED BY <2>1, <2>2, <2>3, <3>1, <3>2, Zenon DEF FastAcceptsSpills
  <2>4. CASE ~(size >= KeyFileHeaderSize)
    <3>1. bucket_capacity(size) = 0
      BY <2>4 DEF bucket_capacity, KeyFileHeaderSize
    <3>2. bucket_size(0) = 8 /\ size # 8
      BY <2>2 DEF bucket_size, BucketHeaderSize, EntrySize
    <3> QED BY <2>1, <2>2, <2>4, <3>1, <3>2 DEF FastAcceptsSpills
  <2> QED BY <2>3, <2>4
<1> QED BY <1>1, TypeCorrect, PTL

-----------------------------------------------------------------------------
(* The shape of a reopened table *)

USE ZenonT(40)      \* leaves that need arithmetic cite SMT

\* The modulus is a power of two: it begins as one, and a split that changes it
\* doubles it.
ModulusIsPower == \E k \in Nat : modulus = Pow2(k)

LEMMA PowerHolds == Spec => []ModulusIsPower
<1>1. create => ModulusIsPower
    <2>1. 0 \in Nat
        BY SMT
    <2> QED BY <2>1, PowerSteps DEF create, ModulusIsPower
<1>2. ASSUME ModulusIsPower, [Next]_vars PROVE ModulusIsPower'
    <2>1. PICK k \in Nat : modulus = Pow2(k)
        BY <1>2 DEF ModulusIsPower
    <2>2. CASE Split
        <3>1. modulus' = modulus \/ modulus' = 2 * modulus
            BY <2>2 DEF Split, SplitModulus
        <3>2. k + 1 \in Nat /\ 2 * Pow2(k) = Pow2(k + 1)
            <4>1. k + 1 \in Nat
                BY SMT
            <4> QED BY <4>1, PowerSteps
        <3>3. \E i \in Nat : modulus' = Pow2(i)
            BY <2>1, <3>1, <3>2
        <3> QED BY <3>3 DEF ModulusIsPower
    <2>3. CASE UNCHANGED vars
        <3>1. modulus' = modulus
            BY <2>3 DEF vars
        <3> QED BY <2>1, <3>1 DEF ModulusIsPower
    <2> QED BY <1>2, <2>2, <2>3 DEF Next
<1> QED BY <1>1, <1>2, PTL DEF Spec

\* The size of the key file, its header included, gives the number of buckets
\* back.
LEMMA BucketsComeBack ==
    ASSUME NEW n \in Nat \ {0}, NEW size \in Nat \ {0}
    PROVE  BucketsOfSize((n + 1) * size, size) = n
<1>1. PICK a \in Nat : a = n * size
    BY SMT
<1>2. (n + 1) * size = a + size /\ size <= a
    BY <1>1, SMT
<1>3. a + size > size /\ size > 0 /\ (a + size) - size = a
    BY <1>2, SMT
<1>4. a \div size = n
    <2>1. PICK q \in Nat, r \in Nat : q = a \div size /\ r < size /\ a = size * q + r
        <3>1. a \div size \in Nat /\ a % size \in 0 .. size - 1 /\ a = size * (a \div size) + (a % size)
            BY DivisionWithRemainder
        <3>2. a % size \in Nat /\ a % size < size
            BY <3>1, SMT
        <3> QED BY <3>1, <3>2
    <2>2. size * n = size * q + r
        BY <1>1, <2>1, SMT
    <2>3. q + 1 <= n => size * (q + 1) <= size * n
        BY SMT
    <2>4. n + 1 <= q => size * (n + 1) <= size * q
        BY SMT
    <2> QED BY <2>1, <2>2, <2>3, <2>4, SMT
<1> QED BY <1>2, <1>3, <1>4 DEF BucketsOfSize

\* A store that is closed and opened again finds the table it left: the size of
\* the key file gives the number of buckets, and ceil_pow2 of that number is the
\* modulus that the splits arrived at one by one.
THEOREM ReopenKeepsShapeThm == Spec => []ReopenKeepsShape
<1>1. IInv /\ ModulusIsPower => ReopenKeepsShape
    <2> SUFFICES ASSUME IInv, ModulusIsPower PROVE ReopenKeepsShape
        OBVIOUS
    <2>1. /\ blockSize \in 0 .. MaxBlockSize /\ bucket_capacity(blockSize) >= 1
          /\ buckets \in 1 .. MaxBuckets /\ modulus \in buckets .. 2 * buckets - 1
        BY DEF IInv, TypeOK
    <2>2. blockSize \in Nat \ {0}
        BY <2>1, BoundsAssumption, SMT
           DEF bucket_capacity, KeyFileHeaderSize, BucketHeaderSize, EntrySize
    <2>3. buckets \in Nat \ {0} /\ buckets <= modulus /\ modulus < 2 * buckets /\ modulus \in Nat
        BY <2>1, BoundsAssumption, SMT
    <2>4. PICK top \in Nat : top = Pow2(Pow2(WordBits) - 1)
        <3>1. PICK q \in Nat \ {0} : q = Pow2(WordBits)
            BY PowerSteps, BoundsAssumption
        <3>2. q - 1 \in Nat
            BY SMT
        <3> QED BY <3>1, <3>2, PowerSteps
    <2>5. MaxBuckets <= top
        BY <2>4, WordAssumption
    <2>6. buckets <= top
        BY <2>1, <2>5, BoundsAssumption, SMT
    <2>7. PICK k \in Nat : modulus = Pow2(k)
        BY DEF ModulusIsPower
    <2>8. ceil_pow2(buckets, WordBits) = modulus
        BY <2>3, <2>4, <2>6, <2>7, BoundsAssumption, CeilPow2IsLeast
    <2>9. BucketsOfSize((buckets + 1) * blockSize, blockSize) = buckets
        BY <2>2, <2>3, BucketsComeBack
    <2> QED BY <2>8, <2>9 DEF ReopenKeepsShape
<1> QED BY <1>1, IInvHolds, PowerHolds, PTL
=============================================================================
