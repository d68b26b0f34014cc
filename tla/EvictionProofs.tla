--------------------------- MODULE EvictionProofs ---------------------------
(***************************************************************************)
(* Proofs about Eviction, for any finite sets of manifests, blobs and      *)
(* keys, any references, sizes and limits.                                 *)
(*                                                                         *)
(* The first half holds whatever requests run beside a pass: BusyInv, by   *)
(* one lemma ...Typed and one ...Counts per action, says that a reference  *)
(* count of the pass is exact for every blob no manifest stored since the  *)
(* count references.  The second half is about passes nothing disturbs:    *)
(* QuietInv adds that the heaps hold a candidate for everything a pool     *)
(* could still evict and that the sums cover what the maps hold, by one    *)
(* lemma ...Step per conjunct.                                             *)
(***************************************************************************)
EXTENDS Eviction, SumLemmas, WellFoundedInduction

-----------------------------------------------------------------------------
(***************************************************************************)
(* Charges are numbers.                                                    *)
(***************************************************************************)
LEMMA Constants ==
  /\ ManifestSize \in Nat /\ KeySize \in Nat /\ Threshold \in Nat
  /\ SmallLimit \in Nat /\ MemoryLimit \in Nat /\ DiskLimit \in Nat
  /\ Grace \in Nat /\ StartNow \in Nat /\ MaxNow \in Nat /\ MaxOps \in Nat
  /\ Grace <= StartNow /\ StartNow <= MaxNow
  /\ \A n \in RedisSizes : n \in Nat
  /\ \A d \in Digests : BlobSize[d] \in Nat
  /\ \A m \in Manifests : Refs[m] \in SUBSET Digests
BY SizeAssumption

\* An item of a map, or none.
LEMMA Entries ==
  /\ \A x \in ManifestState(0 .. MaxNow) :
       x # None => x.used \in 0 .. MaxNow /\ x.evicted \in BOOLEAN /\ x \in [used : 0 .. MaxNow, evicted : BOOLEAN]
  /\ \A x \in BlobState(0 .. MaxNow) :
       x # None => x.tier \in {"Mem", "Disk"} /\ x.acc \in 0 .. MaxNow
                   /\ x \in [tier : {"Mem", "Disk"}, acc : 0 .. MaxNow]
  /\ \A x \in RedisState(0 .. MaxNow) :
       x # None => x.tier \in {"Mem", "Disk"} /\ x.acc \in 0 .. MaxNow /\ x.size \in RedisSizes
                   /\ x \in [tier : {"Mem", "Disk"}, acc : 0 .. MaxNow, size : RedisSizes]
BY DEF ManifestState, BlobState, RedisState

\* The entries the actions store.
LEMMA NewEntries ==
  /\ \A t \in 0 .. MaxNow, e \in BOOLEAN :
       [used |-> t, evicted |-> e] \in ManifestState(0 .. MaxNow) /\ [used |-> t, evicted |-> e] # None
  /\ \A t \in 0 .. MaxNow, p \in {"Mem", "Disk"} :
       [tier |-> p, acc |-> t] \in BlobState(0 .. MaxNow) /\ [tier |-> p, acc |-> t] # None
  /\ \A t \in 0 .. MaxNow, p \in {"Mem", "Disk"}, n \in RedisSizes :
       [tier |-> p, acc |-> t, size |-> n] \in RedisState(0 .. MaxNow) /\ [tier |-> p, acc |-> t, size |-> n] # None
  /\ None \in ManifestState(0 .. MaxNow) /\ None \in BlobState(0 .. MaxNow) /\ None \in RedisState(0 .. MaxNow)
<1>1. \A t \in 0 .. MaxNow : t \in Nat
  BY Constants
<1>2. ASSUME NEW t \in 0 .. MaxNow, NEW e \in BOOLEAN
      PROVE  [used |-> t, evicted |-> e] \in ManifestState(0 .. MaxNow) /\ [used |-> t, evicted |-> e] # None
  <2>1. [used |-> t, evicted |-> e] \in [used : Nat, evicted : BOOLEAN]
    BY <1>1
  <2> QED
    BY <2>1, NoneAssumption DEF ManifestState
<1>3. ASSUME NEW t \in 0 .. MaxNow, NEW p \in {"Mem", "Disk"}
      PROVE  [tier |-> p, acc |-> t] \in BlobState(0 .. MaxNow) /\ [tier |-> p, acc |-> t] # None
  <2>1. [tier |-> p, acc |-> t] \in [tier : {"Mem", "Disk"}, acc : Nat]
    BY <1>1
  <2> QED
    BY <2>1, NoneAssumption DEF BlobState
<1>4. ASSUME NEW t \in 0 .. MaxNow, NEW p \in {"Mem", "Disk"}, NEW n \in RedisSizes
      PROVE  [tier |-> p, acc |-> t, size |-> n] \in RedisState(0 .. MaxNow) /\ [tier |-> p, acc |-> t, size |-> n] # None
  <2>1. [tier |-> p, acc |-> t, size |-> n] \in [tier : {"Mem", "Disk"}, acc : Nat, size : RedisSizes]
    BY <1>1
  <2> QED
    BY <2>1, NoneAssumption DEF RedisState
<1>5. None \in ManifestState(0 .. MaxNow) /\ None \in BlobState(0 .. MaxNow) /\ None \in RedisState(0 .. MaxNow)
  BY DEF ManifestState, BlobState, RedisState
<1> QED
  BY <1>2, <1>3, <1>4, <1>5

Amounts == [Buckets -> Nat]

LEMMA OneBucket ==
  ASSUME NEW b \in Buckets, NEW n \in Nat
  PROVE  /\ [Zero EXCEPT ![b] = n] \in Amounts
         /\ \A c \in Buckets : [Zero EXCEPT ![b] = n][c] = IF c = b THEN n ELSE 0
BY DEF Zero, Amounts

LEMMA ZeroType == Zero \in Amounts /\ \A b \in Buckets : Zero[b] = 0
BY DEF Zero, Amounts

LEMMA BlobBucketType ==
  ASSUME NEW d, NEW t
  PROVE  BlobBucket(d, t) \in Buckets
BY DEF BlobBucket, Buckets

LEMMA RedisBucketType ==
  ASSUME NEW e
  PROVE  RedisBucket(e) \in Buckets
BY DEF RedisBucket, Buckets

LEMMA BlobChargeType ==
  ASSUME NEW d \in Digests, NEW x
  PROVE  BlobCharge(d, x) \in Amounts
BY ZeroType, OneBucket, BlobBucketType, Constants DEF BlobCharge

LEMMA ManifestChargeType ==
  ASSUME NEW x
  PROVE  ManifestCharge(x) \in Amounts
BY ZeroType, OneBucket, Constants DEF ManifestCharge, Buckets

LEMMA PlusType ==
  ASSUME NEW u \in Amounts, NEW v \in Amounts
  PROVE  Plus(u, v) \in Amounts /\ \A b \in Buckets : Plus(u, v)[b] = u[b] + v[b]
BY DEF Plus, Amounts

LEMMA RedisChargeType ==
  ASSUME NEW e \in RedisState(0 .. MaxNow)
  PROVE  ValueCharge(e) \in Amounts /\ KeyCharge(e) \in Amounts /\ RedisCharge(e) \in Amounts
<1>1. ValueCharge(e) \in Amounts
  BY ZeroType, OneBucket, RedisBucketType, Constants, Entries DEF ValueCharge
<1>2. KeyCharge(e) \in Amounts
  BY ZeroType, OneBucket, Constants DEF KeyCharge, Buckets
<1> QED
  BY <1>1, <1>2, PlusType DEF RedisCharge

\* The sums of the maps.
LEMMA BytesType ==
  ASSUME redis \in [Keys -> RedisState(0 .. MaxNow)]
  PROVE  ManifestBytes \in Amounts /\ BlobBytes \in Amounts /\ RedisBytes \in Amounts
<1>1. ASSUME NEW b \in Buckets PROVE Sum([m \in Manifests |-> ManifestCharge(manifests[m])[b]]) \in Nat
  <2> DEFINE f == [m \in Manifests |-> ManifestCharge(manifests[m])[b]]
  <2>1. f \in [Manifests -> Int] /\ \A m \in Manifests : f[m] >= 0
    BY ManifestChargeType DEF Amounts
  <2> HIDE DEF f
  <2>2. Sum(f) \in Nat
    BY <2>1, FiniteAssumption, SumIsNat
  <2> QED
    BY <2>2 DEF f
<1>2. ASSUME NEW b \in Buckets PROVE Sum([d \in Digests |-> BlobCharge(d, blobs[d])[b]]) \in Nat
  <2> DEFINE f == [d \in Digests |-> BlobCharge(d, blobs[d])[b]]
  <2>1. f \in [Digests -> Int] /\ \A d \in Digests : f[d] >= 0
    BY BlobChargeType DEF Amounts
  <2> HIDE DEF f
  <2>2. Sum(f) \in Nat
    BY <2>1, FiniteAssumption, SumIsNat
  <2> QED
    BY <2>2 DEF f
<1>3. ASSUME NEW b \in Buckets PROVE Sum([k \in Keys |-> RedisCharge(redis[k])[b]]) \in Nat
  <2> DEFINE f == [k \in Keys |-> RedisCharge(redis[k])[b]]
  <2>1. f \in [Keys -> Int] /\ \A k \in Keys : f[k] >= 0
    BY RedisChargeType DEF Amounts
  <2> HIDE DEF f
  <2>2. Sum(f) \in Nat
    BY <2>1, FiniteAssumption, SumIsNat
  <2> QED
    BY <2>2 DEF f
<1>4. ManifestBytes \in Amounts
  BY <1>1 DEF ManifestBytes, Amounts
<1>5. BlobBytes \in Amounts
  BY <1>2 DEF BlobBytes, Amounts
<1>6. RedisBytes \in Amounts
  BY <1>3 DEF RedisBytes, Amounts
<1> QED
  BY <1>4, <1>5, <1>6

LEMMA MonusType ==
  ASSUME NEW u \in Amounts, NEW b \in Buckets, NEW n \in Nat
  PROVE  /\ Monus(u, b, n) \in Amounts
         /\ \A c \in Buckets : Monus(u, b, n)[c] = IF c = b THEN (IF u[b] < n THEN 0 ELSE u[b] - n) ELSE u[c]
BY DEF Monus, Amounts

\* The counters may go below zero.
LEMMA UsageType ==
  ASSUME NEW u \in [Buckets -> Int], NEW v \in Amounts, NEW w \in Amounts
  PROVE  Minus(Plus(u, v), w) \in [Buckets -> Int]
BY DEF Minus, Plus, Amounts

-----------------------------------------------------------------------------
(***************************************************************************)
(* Every step keeps the types.                                             *)
(***************************************************************************)
LEMMA StoreBlobTyped ==
  ASSUME Typed, NEW d \in Digests, NEW x \in BlobState(0 .. MaxNow), StoreBlob(d, x)
  PROVE  blobs' \in [Digests -> BlobState(0 .. MaxNow)] /\ usage' \in [Buckets -> Int]
<1>1. blobs' \in [Digests -> BlobState(0 .. MaxNow)]
  BY DEF StoreBlob, Typed
<1>2. BlobCharge(d, x) \in Amounts /\ BlobCharge(d, blobs[d]) \in Amounts
  BY BlobChargeType
<1>3. usage' \in [Buckets -> Int]
  BY <1>2, UsageType DEF StoreBlob, Typed
<1> QED
  BY <1>1, <1>3

LEMMA StoreManifestTyped ==
  ASSUME Typed, NEW m \in Manifests, NEW x \in ManifestState(0 .. MaxNow), StoreManifest(m, x)
  PROVE  manifests' \in [Manifests -> ManifestState(0 .. MaxNow)] /\ usage' \in [Buckets -> Int]
<1>1. manifests' \in [Manifests -> ManifestState(0 .. MaxNow)]
  BY DEF StoreManifest, Typed
<1>2. ManifestCharge(x) \in Amounts /\ ManifestCharge(manifests[m]) \in Amounts
  BY ManifestChargeType
<1>3. usage' \in [Buckets -> Int]
  BY <1>2, UsageType DEF StoreManifest, Typed
<1> QED
  BY <1>1, <1>3

LEMMA StoreRedisTyped ==
  ASSUME Typed, NEW k \in Keys, NEW x \in RedisState(0 .. MaxNow), StoreRedis(k, x)
  PROVE  redis' \in [Keys -> RedisState(0 .. MaxNow)] /\ usage' \in [Buckets -> Int]
<1>1. redis' \in [Keys -> RedisState(0 .. MaxNow)]
  BY DEF StoreRedis, Typed
<1>2. RedisCharge(x) \in Amounts /\ RedisCharge(redis[k]) \in Amounts
  BY RedisChargeType DEF Typed
<1>3. usage' \in [Buckets -> Int]
  BY <1>2, UsageType DEF StoreRedis, Typed
<1> QED
  BY <1>1, <1>3
\* The pass does not move.
LEMMA PassRests ==
  ASSUME PassOK, UNCHANGED local, now \in Nat, now' \in {now, now + 1}
  PROVE  PassOK'
<1>1. UNCHANGED <<pc, cur, passNow, bk, heaps, oldest>>
  BY DEF local
<1>2. passNow' \in 0 .. now'
  BY <1>1 DEF PassOK
<1> QED
  BY <1>1, <1>2 DEF PassOK

LEMMA InitTyped ==
  ASSUME Init
  PROVE  Typed
<1>0. 0 .. StartNow \subseteq 0 .. MaxNow /\ 0 \in Nat
  BY Constants
<1>1. manifests \in [Manifests -> ManifestState(0 .. MaxNow)]
  BY <1>0 DEF Init, ManifestState, Times
<1>2. blobs \in [Digests -> BlobState(0 .. MaxNow)]
  BY <1>0 DEF Init, BlobState, Times
<1>3. redis \in [Keys -> RedisState(0 .. MaxNow)]
  BY <1>0 DEF Init, RedisState, Times
<1>4. usage \in [Buckets -> Int]
  <2>1. ManifestBytes \in Amounts /\ BlobBytes \in Amounts /\ RedisBytes \in Amounts
    BY <1>3, BytesType
  <2> QED
    BY <2>1 DEF Init, Exact, Amounts
<1>5. tags \in [Tags -> Manifests \cup {None}] /\ sums \in [Buckets -> Nat]
  BY ZeroType DEF Init, Amounts
<1>6. now \in StartNow .. MaxNow /\ ops \in 0 .. MaxOps /\ puts \in SUBSET Manifests /\ pushed \in SUBSET Manifests
  BY Constants DEF Init
<1>7. PassOK
  BY Constants DEF Init, PassOK
<1> QED
  BY <1>1, <1>2, <1>3, <1>4, <1>5, <1>6, <1>7 DEF Typed

LEMMA NowType ==
  ASSUME Typed
  PROVE  now \in Nat /\ now \in 0 .. MaxNow /\ passNow \in Nat /\ passNow <= now
BY Constants DEF Typed, PassOK

LEMMA ScanBlobsTyped ==
  ASSUME Typed, ScanBlobs
  PROVE  Typed'
<1>1. sums' \in [Buckets -> Nat]
  BY BytesType DEF ScanBlobs, Typed, Amounts
<1>2. bk' \in [Digests -> {None} \cup BlobBk]
  <2>1. ASSUME NEW d \in Digests, blobs[d] # None
        PROVE  [tier |-> BlobTier(d, blobs[d]), refs |-> 0, unevicted |-> 0, acc |-> blobs[d].acc] \in BlobBk
    <3>1. blobs[d].acc \in Nat
      BY <2>1, Entries, Constants DEF Typed
    <3>2. BlobTier(d, blobs[d]) \in {"Disk", "LargeMem", "SmallMem"}
      BY DEF BlobTier
    <3> QED
      BY <3>1, <3>2 DEF BlobBk
  <2> QED
    BY <2>1 DEF ScanBlobs
<1>3. passNow' \in 0 .. now'
  BY NowType DEF ScanBlobs
<1>4. heaps' \in [{"small", "large", "disk"} -> SUBSET (ManifestItem \cup RedisItem)]
  BY DEF ScanBlobs, Typed, PassOK
<1>5. pc' = "manifests" /\ oldest' = oldest
  BY DEF ScanBlobs
<1>6. PassOK'
  BY <1>2, <1>3, <1>4, <1>5 DEF PassOK, Typed
<1> QED
  BY <1>1, <1>6 DEF ScanBlobs, Typed, shared

LEMMA ManifestCandidateType ==
  ASSUME Typed, NEW m \in Manifests, manifests[m] # None, NEW b \in BOOLEAN
  PROVE  ManifestCandidate(m, b) \in ManifestItem
<1>1. manifests[m].used \in 0 .. MaxNow
  BY Entries DEF Typed
<1> QED
  BY <1>1 DEF ManifestCandidate, ManifestItem

LEMMA RedisCandidateType ==
  ASSUME Typed, NEW k \in Keys, redis[k] # None
  PROVE  RedisCandidate(k) \in RedisItem
<1>1. redis[k].acc \in 0 .. MaxNow /\ redis[k].size \in RedisSizes
  BY Entries DEF Typed
<1> QED
  BY <1>1 DEF RedisCandidate, RedisItem

LEMMA CountsAreNat ==
  ASSUME NEW d
  PROVE  /\ IsFiniteSet(Referrers(d)) /\ Cardinality(Referrers(d)) \in Nat
         /\ IsFiniteSet(Unevicted(d)) /\ Cardinality(Unevicted(d)) \in Nat
         /\ Cardinality(Unevicted(d)) <= Cardinality(Referrers(d))
<1>1. Referrers(d) \in SUBSET Manifests /\ Unevicted(d) \in SUBSET Referrers(d)
  BY DEF Cached, Referrers, Unevicted
<1>2. IsFiniteSet(Referrers(d))
  BY <1>1, FS_Subset, FiniteAssumption
<1>3. IsFiniteSet(Unevicted(d)) /\ Cardinality(Unevicted(d)) <= Cardinality(Referrers(d))
  BY <1>1, <1>2, FS_Subset
<1> QED
  BY <1>2, <1>3, FS_CardinalityType

LEMMA HeapsType == Typed => heaps \in [{"small", "large", "disk"} -> SUBSET (ManifestItem \cup RedisItem)]
BY DEF Typed, PassOK

LEMMA ManifestCandidatesType ==
  ASSUME Typed, NEW S \in SUBSET Cached
  PROVE  ManifestCandidates(S) \in SUBSET ManifestItem
BY ManifestCandidateType DEF Cached, ManifestCandidates

LEMMA RedisCandidatesType ==
  ASSUME Typed, NEW b
  PROVE  RedisCandidates(b) \in SUBSET RedisItem
BY RedisCandidateType DEF RedisCandidates

LEMMA ScanManifestsTyped ==
  ASSUME Typed, ScanManifests
  PROVE  Typed'
<1>1. /\ bk' = [d \in Digests |-> IF bk[d] = None THEN None ELSE Counts(d)]
      /\ sums' = Plus(sums, ManifestBytes) /\ pc' = "redis" /\ pushed' = {}
      /\ UNCHANGED <<shared, now, puts, ops, cur, passNow, oldest>>
  BY DEF ScanManifests
<1>2. sums' \in [Buckets -> Nat]
  BY <1>1, BytesType, PlusType DEF Typed, Amounts
<1>3. bk' \in [Digests -> {None} \cup BlobBk]
  <2>1. ASSUME NEW d \in Digests, bk[d] # None PROVE Counts(d) \in BlobBk
    <3>1. bk[d].tier \in {"Disk", "LargeMem", "SmallMem"} /\ bk[d].acc \in Nat
      BY <2>1 DEF Typed, PassOK, BlobBk
    <3> QED
      BY <3>1, CountsAreNat DEF BlobBk, Counts
  <2> QED
    BY <1>1, <2>1
<1>4. heaps' \in [{"small", "large", "disk"} -> SUBSET (ManifestItem \cup RedisItem)]
  <2>1. \A t : Referring(t) \in SUBSET Cached
    BY DEF Referring
  <2>2. /\ ManifestCandidates(Cached) \in SUBSET ManifestItem
        /\ ManifestCandidates(Referring("LargeMem")) \in SUBSET ManifestItem
        /\ ManifestCandidates(Referring("Disk")) \in SUBSET ManifestItem
    BY <2>1, ManifestCandidatesType
  <2> QED
    BY <2>2, HeapsType DEF ScanManifests
<1>5. PassOK'
  BY <1>1, <1>3, <1>4 DEF PassOK, Typed, Counted
<1> QED
  BY <1>1, <1>2, <1>5 DEF Typed, shared

LEMMA ScanRedisTyped ==
  ASSUME Typed, ScanRedis
  PROVE  Typed'
<1>1. sums' = Plus(sums, RedisBytes) /\ pc' = "loop"
      /\ UNCHANGED <<shared, now, puts, ops, cur, passNow, bk, oldest, pushed>>
  BY DEF ScanRedis
<1>2. sums' \in [Buckets -> Nat]
  BY <1>1, BytesType, PlusType DEF Typed, Amounts
<1>3. heaps' \in [{"small", "large", "disk"} -> SUBSET (ManifestItem \cup RedisItem)]
  BY RedisCandidatesType, HeapsType DEF ScanRedis
<1>5. PassOK'
  BY <1>1, <1>3 DEF PassOK, Typed, Counted
<1> QED
  BY <1>1, <1>2, <1>5 DEF Typed, shared

-----------------------------------------------------------------------------
\* What a pop takes from where.
LEMMA PopsFacts ==
  ASSUME Typed, NEW h, NEW c, Pops(h, c), h \in DOMAIN heaps
  PROVE  /\ h \in {"small", "large", "disk"} /\ pc = "loop"
         /\ c \in heaps[h] /\ c \in ManifestItem \cup RedisItem
         /\ Popped(h, c) \in [{"small", "large", "disk"} -> SUBSET (ManifestItem \cup RedisItem)]
         /\ Popped(h, c)[h] = heaps[h] \ {c}
         /\ \A g \in {"small", "large", "disk"} \ {h} : Popped(h, c)[g] = heaps[g]
<1>1. heaps \in [{"small", "large", "disk"} -> SUBSET (ManifestItem \cup RedisItem)]
  BY DEF Typed, PassOK
<1>2. h \in {"small", "large", "disk"} /\ pc = "loop" /\ c \in heaps[h]
  BY <1>1 DEF Pops, OldestOf
<1> QED
  BY <1>1, <1>2 DEF Popped

LEMMA ItemFacts ==
  ASSUME NEW c \in ManifestItem \cup RedisItem
  PROVE  /\ c.kind \in {"manifest", "redis"} /\ c.time \in 0 .. MaxNow
         /\ c.kind = "manifest" => c \in ManifestItem /\ c.item \in Manifests /\ c.spilled \in BOOLEAN
         /\ c.kind = "redis" => c \in RedisItem /\ c.item \in Keys /\ c.size \in RedisSizes
BY DEF ManifestItem, RedisItem

LEMMA SkipTyped ==
  ASSUME Typed, NEW h \in DOMAIN heaps, NEW c, Skip(h, c)
  PROVE  Typed'
<1>1. Pops(h, c) /\ heaps' = Popped(h, c)
      /\ UNCHANGED <<shared, now, puts, ops, pc, cur, passNow, bk, sums, oldest, pushed>>
  BY DEF Skip
<1>2. heaps' \in [{"small", "large", "disk"} -> SUBSET (ManifestItem \cup RedisItem)]
  BY <1>1, PopsFacts
<1>3. PassOK'
  BY <1>1, <1>2 DEF PassOK, Typed
<1> QED
  BY <1>1, <1>3 DEF Typed, shared

LEMMA DropRedisTyped ==
  ASSUME Typed, NEW h \in DOMAIN heaps, NEW c, DropRedis(h, c)
  PROVE  Typed'
<1>1. /\ Pops(h, c) /\ heaps' = Popped(h, c) /\ c.kind = "redis"
      /\ UNCHANGED <<manifests, blobs, tags, now, puts, ops, pc, cur, passNow, bk, oldest, pushed>>
  BY DEF DropRedis
<1>2. heaps' \in [{"small", "large", "disk"} -> SUBSET (ManifestItem \cup RedisItem)]
      /\ c \in ManifestItem \cup RedisItem
  BY <1>1, PopsFacts
<1>3. c.item \in Keys /\ c.size \in Nat
  BY <1>1, <1>2, ItemFacts, Constants
<1>4. redis' \in [Keys -> RedisState(0 .. MaxNow)] /\ usage' \in [Buckets -> Int]
  BY <1>3, NewEntries, StoreRedisTyped DEF DropRedis
<1>5. sums' \in [Buckets -> Nat]
  BY <1>3, MonusType DEF DropRedis, Typed, Amounts, Buckets
<1>6. PassOK'
  BY <1>1, <1>2 DEF PassOK, Typed
<1> QED
  BY <1>1, <1>4, <1>5, <1>6 DEF Typed

LEMMA SpillRedisTyped ==
  ASSUME Typed, NEW c, SpillRedis(c)
  PROVE  Typed'
<1>1. /\ Pops("large", c) /\ heaps' = Popped("large", c) /\ c.kind = "redis"
      /\ pc' = "writeRedis" /\ cur' = [todo |-> {}, candidate |-> c]
      /\ UNCHANGED <<shared, now, puts, ops, passNow, bk, sums, oldest, pushed>>
  BY DEF SpillRedis
<1>2. "large" \in DOMAIN heaps
  BY DEF Typed, PassOK
<1>3. heaps' \in [{"small", "large", "disk"} -> SUBSET (ManifestItem \cup RedisItem)]
      /\ c \in ManifestItem \cup RedisItem
  BY <1>1, <1>2, PopsFacts
<1>4. c \in RedisItem
  BY <1>1, <1>3, ItemFacts
<1>5. PassOK'
  BY <1>1, <1>3, <1>4 DEF PassOK, Typed, Counted
<1> QED
  BY <1>1, <1>5 DEF Typed, shared

LEMMA SpillRedisWrittenTyped ==
  ASSUME Typed, SpillRedisWritten
  PROVE  Typed'
<1>1. PICK c \in RedisItem : c = cur.candidate
  BY DEF Typed, PassOK, SpillRedisWritten
<1>2. c.item \in Keys /\ c.size \in RedisSizes /\ c.size \in Nat /\ c.time \in 0 .. MaxNow
  BY Constants DEF RedisItem
<1>3. /\ redis' = [redis EXCEPT ![c.item] = [tier |-> "Disk", acc |-> c.time, size |-> c.size]]
      /\ sums' = [Monus(sums, "largeRedis", c.size) EXCEPT !["redisDisk"] = @ + c.size]
      /\ heaps' = [heaps EXCEPT !["disk"] = @ \cup {c}]
      /\ pc' = "loop" /\ cur' = Nothing
      /\ UNCHANGED <<manifests, blobs, tags, usage, now, puts, ops, passNow, bk, oldest, pushed>>
  BY <1>1 DEF SpillRedisWritten
<1>4. redis' \in [Keys -> RedisState(0 .. MaxNow)]
  BY <1>2, <1>3, NewEntries DEF Typed
<1>5. sums' \in [Buckets -> Nat]
  <2>1. Monus(sums, "largeRedis", c.size) \in Amounts
    BY <1>2, MonusType DEF Typed, Amounts, Buckets
  <2> QED
    BY <1>2, <1>3, <2>1 DEF Amounts, Buckets
<1>6. heaps' \in [{"small", "large", "disk"} -> SUBSET (ManifestItem \cup RedisItem)]
  BY <1>3 DEF Typed, PassOK
<1>7. PassOK'
  BY <1>3, <1>6 DEF PassOK, Typed, Counted
<1> QED
  BY <1>3, <1>4, <1>5, <1>7 DEF Typed

LEMMA SpillManifestTyped ==
  ASSUME Typed, NEW c, SpillManifest(c)
  PROVE  Typed'
<1>1. /\ Pops("large", c) /\ heaps' = Popped("large", c) /\ c.kind = "manifest"
      /\ manifests[c.item] # None
      /\ manifests' = [manifests EXCEPT ![c.item].evicted = TRUE]
      /\ pc' = "spill"
      /\ cur' = [todo |-> Refs[c.item], candidate |-> c, old |-> manifests[c.item].evicted]
      /\ UNCHANGED <<blobs, redis, tags, usage, now, puts, ops, passNow, bk, sums, oldest, pushed>>
  BY DEF SpillManifest
<1>2. "large" \in DOMAIN heaps
  BY DEF Typed, PassOK
<1>3. heaps' \in [{"small", "large", "disk"} -> SUBSET (ManifestItem \cup RedisItem)]
      /\ c \in ManifestItem \cup RedisItem
  BY <1>1, <1>2, PopsFacts
<1>4. c \in ManifestItem /\ c.item \in Manifests
  BY <1>1, <1>3, ItemFacts
<1>5. manifests[c.item] \in [used : 0 .. MaxNow, evicted : BOOLEAN]
  BY <1>1, <1>4, Entries DEF Typed
<1>6. manifests' \in [Manifests -> ManifestState(0 .. MaxNow)]
  <2>1. [manifests[c.item] EXCEPT !.evicted = TRUE] \in ManifestState(0 .. MaxNow)
    BY <1>5 DEF ManifestState
  <2> QED
    BY <1>1, <1>4, <2>1 DEF Typed
<1>7. Refs[c.item] \in SUBSET Digests /\ manifests[c.item].evicted \in BOOLEAN
  BY <1>4, <1>5, Constants
<1>8. PassOK'
  BY <1>1, <1>3, <1>4, <1>7 DEF PassOK, Typed, Counted
<1> QED
  BY <1>1, <1>6, <1>8 DEF Typed

LEMMA ReleasedType ==
  ASSUME NEW b \in BlobBk, NEW old
  PROVE  /\ Released(b, old) \in BlobBk
         /\ Released(b, old).refs = b.refs /\ Released(b, old).acc = b.acc /\ Released(b, old).tier = b.tier
         /\ Released(b, old).unevicted = IF old \/ b.unevicted = 0 THEN b.unevicted ELSE b.unevicted - 1
BY DEF Released, BlobBk

LEMMA SpillRefTyped ==
  ASSUME Typed, NEW d \in Digests, SpillRef(d)
  PROVE  Typed'
<1>1. cur \in [todo : SUBSET Digests, candidate : ManifestItem, old : BOOLEAN]
  BY DEF Typed, PassOK, SpillRef
<1>2. bk' \in [Digests -> {None} \cup BlobBk]
  <2>1. bk[d] # None => bk[d] \in BlobBk
    BY DEF Typed, PassOK
  <2> QED
    BY <2>1, ReleasedType DEF SpillRef, Typed, PassOK
<1>3. UNCHANGED <<shared, now, puts, ops, passNow, heaps, sums, oldest, pushed>>
  BY DEF SpillRef
<1>4. CASE Spillable(d)
  <2>1. blobs[d].acc \in 0 .. MaxNow
    BY <1>4, Entries DEF Spillable, Typed
  <2>2. /\ pc' = "writeBlob"
        /\ cur' = [todo |-> cur.todo \ {d}, candidate |-> cur.candidate, old |-> cur.old,
                   digest |-> d, acc |-> blobs[d].acc, detached |-> FALSE]
    BY <1>4 DEF SpillRef
  <2>3. cur' \in [todo : SUBSET Digests, candidate : ManifestItem, old : BOOLEAN,
                  digest : Digests, acc : 0 .. MaxNow, detached : BOOLEAN]
    BY <1>1, <2>1, <2>2
  <2>4. PassOK'
    BY <1>2, <1>3, <2>2, <2>3 DEF PassOK, Typed, Counted
  <2> QED
    BY <1>3, <2>4 DEF Typed, shared
<1>5. CASE ~Spillable(d)
  <2>1. pc' = "spill" /\ cur' = [cur EXCEPT !.todo = @ \ {d}]
    BY <1>5 DEF SpillRef
  <2>2. cur' \in [todo : SUBSET Digests, candidate : ManifestItem, old : BOOLEAN]
    BY <1>1, <2>1
  <2>3. PassOK'
    BY <1>2, <1>3, <2>1, <2>2 DEF PassOK, Typed, Counted
  <2> QED
    BY <1>3, <2>3 DEF Typed, shared
<1> QED
  BY <1>4, <1>5

LEMMA SpillBlobWrittenTyped ==
  ASSUME Typed, SpillBlobWritten
  PROVE  Typed'
<1>1. cur \in [todo : SUBSET Digests, candidate : ManifestItem, old : BOOLEAN,
               digest : Digests, acc : 0 .. MaxNow, detached : BOOLEAN]
  BY DEF Typed, PassOK, SpillBlobWritten
<1>2. PICK d \in Digests, t \in 0 .. MaxNow : d = cur.digest /\ t = cur.acc
  BY <1>1
<1>3. BlobSize[d] \in Nat
  BY Constants
<1>4. blobs' \in [Digests -> BlobState(0 .. MaxNow)] /\ usage' \in [Buckets -> Int]
  BY <1>2, NewEntries, StoreBlobTyped DEF SpillBlobWritten
<1>5. sums' \in [Buckets -> Nat]
  <2>1. Monus(sums, "largeBlob", BlobSize[d]) \in Amounts
    BY <1>3, MonusType DEF Typed, Amounts, Buckets
  <2>2. sums' = [Monus(sums, "largeBlob", BlobSize[d]) EXCEPT !["blobDisk"] = @ + BlobSize[d]]
    BY <1>2 DEF SpillBlobWritten
  <2> QED
    BY <1>3, <2>1, <2>2 DEF Amounts, Buckets
<1>6. /\ pc' = "spill"
      /\ cur' = [todo |-> cur.todo, candidate |-> cur.candidate, old |-> cur.old]
      /\ UNCHANGED <<manifests, redis, tags, now, puts, ops, passNow, bk, heaps, oldest, pushed>>
  BY DEF SpillBlobWritten
<1>7. cur' \in [todo : SUBSET Digests, candidate : ManifestItem, old : BOOLEAN]
  BY <1>1, <1>6
<1>8. PassOK'
  BY <1>6, <1>7 DEF PassOK, Typed, Counted
<1> QED
  BY <1>4, <1>5, <1>6, <1>8 DEF Typed

LEMMA SpillManifestDoneTyped ==
  ASSUME Typed, SpillManifestDone
  PROVE  Typed'
<1>1. PICK c \in ManifestItem : c = cur.candidate
  BY DEF Typed, PassOK, SpillManifestDone
<1>2. [c EXCEPT !.spilled = TRUE] \in ManifestItem
  BY DEF ManifestItem
<1>3. /\ heaps' = [heaps EXCEPT !["disk"] = @ \cup {[c EXCEPT !.spilled = TRUE]}]
      /\ pc' = "loop"
      /\ UNCHANGED <<shared, now, puts, ops, passNow, bk, sums, oldest, pushed>>
  BY <1>1 DEF SpillManifestDone
<1>4. heaps' \in [{"small", "large", "disk"} -> SUBSET (ManifestItem \cup RedisItem)]
  BY <1>2, <1>3 DEF Typed, PassOK
<1>5. PassOK'
  BY <1>3, <1>4 DEF PassOK, Typed, Counted
<1> QED
  BY <1>3, <1>5 DEF Typed, shared

LEMMA WriteFailsTyped ==
  ASSUME Typed, WriteFails
  PROVE  Typed'
<1>1. pc' = "failed" /\ UNCHANGED <<shared, now, puts, ops, passNow, bk, heaps, sums, oldest, pushed>>
  BY DEF WriteFails
<1>2. PassOK'
  BY <1>1 DEF PassOK, Typed
<1> QED
  BY <1>1, <1>2 DEF Typed, shared

LEMMA DropManifestTyped ==
  ASSUME Typed, NEW h \in DOMAIN heaps, NEW c, DropManifest(h, c)
  PROVE  Typed'
<1>1. /\ Pops(h, c) /\ heaps' = Popped(h, c) /\ c.kind = "manifest"
      /\ manifests[c.item] # None
      /\ StoreManifest(c.item, None)
      /\ sums' = Monus(sums, "manifest", ManifestSize)
      /\ pc' = "untag"
      /\ cur' = [todo |-> Refs[c.item], candidate |-> c, old |-> manifests[c.item].evicted]
      /\ UNCHANGED <<blobs, redis, tags, now, puts, ops, passNow, bk, oldest, pushed>>
  BY DEF DropManifest
<1>2. heaps' \in [{"small", "large", "disk"} -> SUBSET (ManifestItem \cup RedisItem)]
      /\ c \in ManifestItem \cup RedisItem
  BY <1>1, PopsFacts
<1>3. c \in ManifestItem /\ c.item \in Manifests
  BY <1>1, <1>2, ItemFacts
<1>4. manifests' \in [Manifests -> ManifestState(0 .. MaxNow)] /\ usage' \in [Buckets -> Int]
  BY <1>1, <1>3, NewEntries, StoreManifestTyped
<1>5. sums' \in [Buckets -> Nat]
  BY <1>1, MonusType, Constants DEF Typed, Amounts, Buckets
<1>6. Refs[c.item] \in SUBSET Digests /\ manifests[c.item].evicted \in BOOLEAN
  BY <1>1, <1>3, Entries, Constants DEF Typed
<1>7. PassOK'
  BY <1>1, <1>2, <1>3, <1>6 DEF PassOK, Typed, Counted
<1> QED
  BY <1>1, <1>4, <1>5, <1>7 DEF Typed

LEMMA UntagTyped ==
  ASSUME Typed, Untag
  PROVE  Typed'
<1>1. /\ pc = "untag" /\ pc' = "drop"
      /\ UNCHANGED <<manifests, blobs, redis, usage, now, puts, ops, cur, passNow, bk, heaps,
                     sums, oldest, pushed>>
  BY DEF Untag
<1>2. tags' \in [Tags -> Manifests \cup {None}]
  BY DEF Untag, Typed
<1>3. PassOK'
  BY <1>1 DEF PassOK, Typed, Counted
<1> QED
  BY <1>1, <1>2, <1>3 DEF Typed

LEMMA DropRefTyped ==
  ASSUME Typed, NEW d \in Digests, DropRef(d)
  PROVE  Typed'
<1>1. cur \in [todo : SUBSET Digests, candidate : ManifestItem, old : BOOLEAN]
  BY DEF Typed, PassOK, DropRef
<1>2. bk' \in [Digests -> {None} \cup BlobBk]
  <2>1. bk[d] # None => bk[d] \in BlobBk
    BY DEF Typed, PassOK
  <2>2. bk[d] # None => Dereferenced(Released(bk[d], cur.old)) \in BlobBk
    <3>1. \A r \in BlobBk : Dereferenced(r) \in BlobBk
      BY DEF BlobBk, Dereferenced
    <3> QED
      BY <1>1, <2>1, <3>1, ReleasedType
  <2>3. bk \in [Digests -> {None} \cup BlobBk]
    BY DEF Typed, PassOK
  <2>4. bk' = IF bk[d] = None THEN bk ELSE [bk EXCEPT ![d] = Dereferenced(Released(bk[d], cur.old))]
    BY DEF DropRef
  <2> QED
    BY <2>2, <2>3, <2>4
<1>3. /\ pc = "drop" /\ cur' = [cur EXCEPT !.todo = @ \ {d}]
      /\ UNCHANGED <<manifests, redis, tags, now, puts, ops, pc, passNow, heaps, oldest, pushed>>
  BY DEF DropRef
<1>4. cur' \in [todo : SUBSET Digests, candidate : ManifestItem, old : BOOLEAN]
  BY <1>1, <1>3
<1>5. PassOK'
  BY <1>2, <1>3, <1>4 DEF PassOK, Typed, Counted
<1>6. CASE LastReference(d)
  <2>1. blobs' \in [Digests -> BlobState(0 .. MaxNow)] /\ usage' \in [Buckets -> Int]
    BY <1>6, NewEntries, StoreBlobTyped DEF DropRef
  <2>2. sums' \in [Buckets -> Nat]
    <3>1. BlobSize[d] \in Nat /\ BlobBucket(d, blobs[d].tier) \in Buckets
      BY Constants, BlobBucketType
    <3>2. sums' = Monus(sums, BlobBucket(d, blobs[d].tier), BlobSize[d])
      BY <1>6, Zenon DEF DropRef
    <3> QED
      BY <3>1, <3>2, MonusType DEF Typed, Amounts
  <2> QED
    BY <1>3, <1>5, <2>1, <2>2 DEF Typed
<1>7. CASE ~LastReference(d)
  <2>1. UNCHANGED <<blobs, usage, sums>>
    BY <1>7 DEF DropRef
  <2> QED
    BY <1>3, <1>5, <2>1 DEF Typed
<1> QED
  BY <1>6, <1>7

LEMMA DropDoneTyped ==
  ASSUME Typed, DropDone
  PROVE  Typed'
<1>1. pc' = "loop" /\ UNCHANGED <<shared, now, puts, ops, passNow, bk, heaps, sums, oldest, pushed>>
  BY DEF DropDone
<1>2. PassOK'
  BY <1>1 DEF PassOK, Typed, Counted
<1> QED
  BY <1>1, <1>2 DEF Typed, shared

LEMMA LoopEndsTyped ==
  ASSUME Typed, LoopEnds
  PROVE  Typed'
<1>1. /\ pc' = "sweep" /\ cur' = [todo |-> {d \in Digests : bk[d] # None}]
      /\ UNCHANGED <<shared, now, puts, ops, passNow, bk, heaps, sums, oldest, pushed>>
  BY DEF LoopEnds
<1>2. cur' \in [todo : SUBSET Digests]
  BY <1>1
<1>3. PassOK'
  BY <1>1, <1>2 DEF PassOK, Typed, Counted
<1> QED
  BY <1>1, <1>3 DEF Typed, shared

LEMMA SweepTyped ==
  ASSUME Typed, NEW d \in Digests, Sweep(d)
  PROVE  Typed'
<1>1. /\ pc = "sweep" /\ cur' = [cur EXCEPT !.todo = @ \ {d}]
      /\ UNCHANGED <<manifests, redis, tags, now, puts, ops, pc, passNow, bk, heaps, sums, oldest, pushed>>
  BY DEF Sweep
<1>2. cur' \in [todo : SUBSET Digests]
  BY <1>1 DEF Typed, PassOK
<1>3. PassOK'
  BY <1>1, <1>2 DEF PassOK, Typed, Counted
<1>4. CASE Swept(d)
  <2>1. blobs' \in [Digests -> BlobState(0 .. MaxNow)] /\ usage' \in [Buckets -> Int]
    BY <1>4, NewEntries, StoreBlobTyped DEF Sweep
  <2> QED
    BY <1>1, <1>3, <2>1 DEF Typed
<1>5. CASE ~Swept(d)
  <2>1. UNCHANGED <<blobs, usage>>
    BY <1>5 DEF Sweep
  <2> QED
    BY <1>1, <1>3, <2>1 DEF Typed
<1> QED
  BY <1>4, <1>5

LEMMA PublishTyped ==
  ASSUME Typed, Publish
  PROVE  Typed'
<1>1. /\ usage' = [sums EXCEPT !["manifest"] = usage["manifest"]]
      /\ DOMAIN oldest' = DOMAIN oldest
      /\ pc' = "idle" /\ passNow' = 0 /\ bk' = [d \in Digests |-> None]
      /\ heaps' = [h \in DOMAIN heaps |-> {}] /\ sums' = Zero /\ pushed' = {}
      /\ UNCHANGED <<manifests, blobs, redis, tags, now, puts, ops>>
  BY DEF Publish
<1>2. usage' \in [Buckets -> Int] /\ sums' \in [Buckets -> Nat]
  BY <1>1, ZeroType DEF Typed, Amounts, Buckets
<1>3. passNow' \in 0 .. now'
  BY <1>1, NowType
<1>4. PassOK'
  BY <1>1, <1>3 DEF PassOK, Typed, Counted
<1> QED
  BY <1>1, <1>2, <1>4 DEF Typed

-----------------------------------------------------------------------------
(***************************************************************************)
(* The requests keep the types.                                            *)
(***************************************************************************)
LEMMA RequestType ==
  ASSUME Typed, Request
  PROVE  ops' \in 0 .. MaxOps
BY Constants DEF Typed, Request

LEMMA PutBlobTyped ==
  ASSUME Typed, NEW d \in Digests, PutBlob(d)
  PROVE  Typed'
<1>1. /\ Request /\ StoreBlob(d, [tier |-> "Mem", acc |-> now])
      /\ cur' = IF pc = "writeBlob" /\ cur.digest = d THEN [cur EXCEPT !.detached = TRUE] ELSE cur
      /\ UNCHANGED <<manifests, redis, tags, now, puts, pc, passNow, bk, heaps, sums, oldest, pushed>>
  BY DEF PutBlob
<1>2. blobs' \in [Digests -> BlobState(0 .. MaxNow)] /\ usage' \in [Buckets -> Int]
  BY <1>1, NowType, NewEntries, StoreBlobTyped
<1>3. pc = "writeBlob" =>
        cur' \in [todo : SUBSET Digests, candidate : ManifestItem, old : BOOLEAN,
                  digest : Digests, acc : 0 .. MaxNow, detached : BOOLEAN]
  BY <1>1 DEF Typed, PassOK
<1>4. pc # "writeBlob" => cur' = cur
  BY <1>1
<1>5. PassOK'
  BY <1>1, <1>3, <1>4 DEF PassOK, Typed, Counted
<1> QED
  BY <1>1, <1>2, <1>5, RequestType DEF Typed

LEMMA HitBlobTyped ==
  ASSUME Typed, NEW d \in Digests, HitBlob(d)
  PROVE  Typed'
<1>1. /\ Request /\ blobs[d] # None /\ blobs' = [blobs EXCEPT ![d].acc = now]
      /\ cur' = IF pc = "writeBlob" /\ cur.digest = d /\ ~cur.detached
                THEN [cur EXCEPT !.acc = now] ELSE cur
      /\ UNCHANGED <<manifests, redis, tags, usage, now, puts, pc, passNow, bk, heaps, sums, oldest, pushed>>
  BY DEF HitBlob
<1>2. blobs' \in [Digests -> BlobState(0 .. MaxNow)]
  <2>1. blobs[d] \in [tier : {"Mem", "Disk"}, acc : 0 .. MaxNow]
    BY <1>1, Entries DEF Typed
  <2>2. [blobs[d] EXCEPT !.acc = now] \in [tier : {"Mem", "Disk"}, acc : 0 .. MaxNow]
    BY <2>1, NowType
  <2> QED
    BY <1>1, <2>2 DEF Typed, BlobState
<1>3. pc = "writeBlob" =>
        cur' \in [todo : SUBSET Digests, candidate : ManifestItem, old : BOOLEAN,
                  digest : Digests, acc : 0 .. MaxNow, detached : BOOLEAN]
  BY <1>1, NowType DEF Typed, PassOK
<1>4. pc # "writeBlob" => cur' = cur
  BY <1>1
<1>5. PassOK'
  BY <1>1, <1>3, <1>4 DEF PassOK, Typed, Counted
<1> QED
  BY <1>1, <1>2, <1>5, RequestType DEF Typed

LEMMA PutManifestTyped ==
  ASSUME Typed, NEW m \in Manifests, PutManifest(m)
  PROVE  Typed'
<1>1. /\ Request /\ StoreManifest(m, [used |-> now, evicted |-> FALSE])
      /\ puts' = puts \cup {m}
      /\ pushed' = pushed \cup (IF pc \in {"idle", "manifests"} THEN {} ELSE {m})
      /\ UNCHANGED <<blobs, redis, tags, now, local>>
  BY DEF PutManifest
<1>2. manifests' \in [Manifests -> ManifestState(0 .. MaxNow)] /\ usage' \in [Buckets -> Int]
  BY <1>1, NowType, NewEntries, StoreManifestTyped
<1>3. puts' \in SUBSET Manifests /\ pushed' \in SUBSET Manifests
  BY <1>1 DEF Typed
<1>4. PassOK'
  BY <1>1, PassRests, NowType DEF Typed
<1> QED
  BY <1>1, <1>2, <1>3, <1>4, RequestType DEF Typed, local

LEMMA PutTagTyped ==
  ASSUME Typed, NEW m \in Manifests, NEW t \in Tags, PutTag(m, t)
  PROVE  Typed'
<1>1. /\ tags' = [tags EXCEPT ![t] = m] /\ puts' \in {puts, puts \ {m}}
      /\ UNCHANGED <<manifests, blobs, redis, usage, now, ops, local, pushed>>
  BY DEF PutTag
<1>2. tags' \in [Tags -> Manifests \cup {None}] /\ puts' \in SUBSET Manifests
  BY <1>1 DEF Typed
<1>4. PassOK'
  BY <1>1, PassRests, NowType DEF Typed
<1> QED
  BY <1>1, <1>2, <1>4 DEF Typed, local

LEMMA HitManifestTyped ==
  ASSUME Typed, NEW m \in Manifests, HitManifest(m)
  PROVE  Typed'
<1>1. /\ Request /\ manifests' = [manifests EXCEPT ![m] = [used |-> now, evicted |-> FALSE]]
      /\ UNCHANGED <<blobs, redis, tags, usage, now, puts, local, pushed>>
  BY DEF HitManifest
<1>2. manifests' \in [Manifests -> ManifestState(0 .. MaxNow)]
  BY <1>1, NowType, NewEntries DEF Typed
<1>4. PassOK'
  BY <1>1, PassRests, NowType DEF Typed
<1> QED
  BY <1>1, <1>2, <1>4, RequestType DEF Typed, local

LEMMA SetRedisTyped ==
  ASSUME Typed, NEW k \in Keys, NEW n \in RedisSizes, SetRedis(k, n)
  PROVE  Typed'
<1>1. /\ Request /\ StoreRedis(k, [tier |-> "Mem", acc |-> now, size |-> n])
      /\ UNCHANGED <<manifests, blobs, tags, now, puts, local, pushed>>
  BY DEF SetRedis
<1>2. redis' \in [Keys -> RedisState(0 .. MaxNow)] /\ usage' \in [Buckets -> Int]
  BY <1>1, NowType, NewEntries, StoreRedisTyped
<1>4. PassOK'
  BY <1>1, PassRests, NowType DEF Typed
<1> QED
  BY <1>1, <1>2, <1>4, RequestType DEF Typed, local

LEMMA HitRedisTyped ==
  ASSUME Typed, NEW k \in Keys, HitRedis(k)
  PROVE  Typed'
<1>1. /\ Request /\ redis[k] # None /\ redis' = [redis EXCEPT ![k].acc = now]
      /\ UNCHANGED <<manifests, blobs, tags, usage, now, puts, local, pushed>>
  BY DEF HitRedis
<1>2. redis' \in [Keys -> RedisState(0 .. MaxNow)]
  <2>1. redis[k] \in [tier : {"Mem", "Disk"}, acc : 0 .. MaxNow, size : RedisSizes]
    BY <1>1, Entries DEF Typed
  <2>2. [redis[k] EXCEPT !.acc = now] \in [tier : {"Mem", "Disk"}, acc : 0 .. MaxNow, size : RedisSizes]
    BY <2>1, NowType
  <2> QED
    BY <1>1, <2>2 DEF Typed, RedisState
<1>4. PassOK'
  BY <1>1, PassRests, NowType DEF Typed
<1> QED
  BY <1>1, <1>2, <1>4, RequestType DEF Typed, local

LEMMA DelRedisTyped ==
  ASSUME Typed, NEW k \in Keys, DelRedis(k)
  PROVE  Typed'
<1>1. /\ Request /\ StoreRedis(k, None)
      /\ UNCHANGED <<manifests, blobs, tags, now, puts, local, pushed>>
  BY DEF DelRedis
<1>2. redis' \in [Keys -> RedisState(0 .. MaxNow)] /\ usage' \in [Buckets -> Int]
  BY <1>1, NewEntries, StoreRedisTyped
<1>4. PassOK'
  BY <1>1, PassRests, NowType DEF Typed
<1> QED
  BY <1>1, <1>2, <1>4, RequestType DEF Typed, local

LEMMA FlushRedisTyped ==
  ASSUME Typed, FlushRedis
  PROVE  Typed'
<1>1. /\ Request /\ redis' = [k \in Keys |-> None]
      /\ usage' = [usage EXCEPT !["smallRedis"] = 0, !["largeRedis"] = 0, !["redisDisk"] = 0]
      /\ UNCHANGED <<manifests, blobs, tags, now, puts, local, pushed>>
  BY DEF FlushRedis
<1>2. redis' \in [Keys -> RedisState(0 .. MaxNow)]
  BY <1>1 DEF RedisState
<1>3. usage' \in [Buckets -> Int]
  <2>1. usage \in [Buckets -> Int] /\ 0 \in Int
    BY DEF Typed
  <2>2. ASSUME NEW u \in [Buckets -> Int], NEW b PROVE [u EXCEPT ![b] = 0] \in [Buckets -> Int]
    BY <2>1
  <2> QED
    BY <1>1, <2>1, <2>2, Zenon
<1>4. PassOK'
  BY <1>1, PassRests, NowType DEF Typed
<1> QED
  BY <1>1, <1>2, <1>3, <1>4, RequestType DEF Typed, local

LEMMA TickTyped ==
  ASSUME Typed, Tick
  PROVE  Typed'
<1>1. now < MaxNow /\ now' = now + 1 /\ UNCHANGED <<shared, puts, ops, local, pushed>>
  BY DEF Tick
<1>2. now' \in StartNow .. MaxNow
  BY <1>1, Constants DEF Typed
<1>4. PassOK'
  BY <1>1, PassRests, NowType DEF Typed
<1> QED
  BY <1>1, <1>2, <1>4 DEF Typed, local, shared

LEMMA NextTyped ==
  ASSUME Typed, [Next]_vars
  PROVE  Typed'
<1>1. CASE Pass
  BY <1>1, ScanBlobsTyped, ScanManifestsTyped, ScanRedisTyped, SkipTyped, DropRedisTyped,
     DropManifestTyped, SpillRedisTyped, SpillManifestTyped, SpillRedisWrittenTyped,
     SpillBlobWrittenTyped, SpillManifestDoneTyped, WriteFailsTyped, SpillRefTyped, DropRefTyped,
     SweepTyped, UntagTyped, DropDoneTyped, LoopEndsTyped, PublishTyped DEF Pass
<1>2. CASE Clients
  BY <1>2, PutBlobTyped, HitBlobTyped, PutManifestTyped, PutTagTyped, HitManifestTyped,
     SetRedisTyped, HitRedisTyped, DelRedisTyped, FlushRedisTyped, TickTyped DEF Clients
<1>3. CASE UNCHANGED vars
  <2>1. UNCHANGED <<shared, now, puts, ops, local, pushed>>
    BY <1>3 DEF vars
  <2>2. PassOK'
    BY <2>1, PassRests, NowType DEF Typed
  <2> QED
    BY <2>1, <2>2 DEF Typed, shared, local
<1> QED
  BY <1>1, <1>2, <1>3 DEF Next

-----------------------------------------------------------------------------
(***************************************************************************)
(* While nobody stores a manifest, the pass's counts are the references.   *)
(***************************************************************************)
\* A step that neither adds nor removes a manifest and leaves the counts and
\* the references still to be given up alone.
LEMMA CountsRest ==
  ASSUME RefsCounted, pc \in Counted, pushed' = pushed,
         \A m \in Manifests : manifests'[m] = None <=> manifests[m] = None,
         \A d \in Digests : /\ bk'[d] = None <=> bk[d] = None
                            /\ bk'[d].refs = bk[d].refs
                            /\ Pending(d)' = Pending(d)
  PROVE  RefsCounted'
<1>1. \A d \in Digests : Referrers(d)' = Referrers(d)
  BY DEF Referrers, Cached
<1> QED
  BY <1>1 DEF RefsCounted

LEMMA NothingPending ==
  ASSUME pc \notin {"untag", "drop"}
  PROVE  \A d \in Digests : Pending(d) = 0
BY DEF Pending

LEMMA ReleasedRefs ==
  ASSUME NEW b \in BlobBk, NEW o \in BOOLEAN
  PROVE  Released(b, o).refs = b.refs /\ Released(b, o).acc = b.acc /\ Released(b, o).tier = b.tier
         /\ Released(b, o) # None
BY NoneAssumption, ReleasedType DEF Released, BlobBk

LEMMA ScanManifestsCounts ==
  ASSUME Typed, ScanManifests
  PROVE  RefsCounted'
<1>1. /\ pc' = "redis" /\ UNCHANGED manifests
      /\ \A d \in Digests : bk'[d] = IF bk[d] = None THEN None ELSE Counts(d)
  BY DEF ScanManifests, shared
<1>2. \A d \in Digests : Referrers(d)' = Referrers(d)
  BY <1>1 DEF Referrers, Cached
<1>3. \A d \in Digests : Pending(d)' = 0
  BY <1>1 DEF Pending
<1>4. \A d \in Digests : Counts(d).refs = Cardinality(Referrers(d))
  BY DEF Counts
<1>5. \A d \in Digests : Cardinality(Referrers(d)) \in Nat
  BY CountsAreNat
<1> QED
  BY <1>1, <1>2, <1>3, <1>4, <1>5 DEF RefsCounted

LEMMA DropManifestCounts ==
  ASSUME Typed, RefsCounted, NEW h \in DOMAIN heaps, NEW c, DropManifest(h, c)
  PROVE  RefsCounted'
<1>1. /\ Pops(h, c) /\ c.kind = "manifest" /\ manifests[c.item] # None
      /\ manifests' = [manifests EXCEPT ![c.item] = None]
      /\ pc' = "untag" /\ cur'.todo = Refs[c.item]
      /\ UNCHANGED <<bk, pushed>>
  BY DEF DropManifest, StoreManifest
<1>2. pc = "loop" /\ c \in ManifestItem \cup RedisItem
  BY <1>1, PopsFacts
<1>3. PICK m \in Manifests : m = c.item
  BY <1>1, <1>2, ItemFacts
<1>4. ASSUME NEW d \in Digests
      PROVE  Cardinality(Referrers(d)') + Pending(d)' = Cardinality(Referrers(d)) + Pending(d)
  <2>1. Referrers(d)' = Referrers(d) \ {m}
    BY <1>1, <1>3 DEF Referrers, Cached, Typed
  <2>2. Pending(d) = 0
    BY <1>2 DEF Pending
  <2>3. Pending(d)' = IF d \in Refs[m] THEN 1 ELSE 0
    BY <1>1, <1>3 DEF Pending
  <2>4. m \in Referrers(d) <=> d \in Refs[m]
    BY <1>1, <1>3 DEF Referrers, Cached
  <2>5. IsFiniteSet(Referrers(d)) /\ Cardinality(Referrers(d)) \in Nat
    BY CountsAreNat
  <2>6. Cardinality(Referrers(d) \ {m}) = IF m \in Referrers(d) THEN Cardinality(Referrers(d)) - 1
                                          ELSE Cardinality(Referrers(d))
    BY <2>5, FS_RemoveElement
  <2> QED
    BY <2>1, <2>2, <2>3, <2>4, <2>5, <2>6
<1> QED
  BY <1>1, <1>2, <1>4 DEF RefsCounted, Counted

LEMMA DropRefCounts ==
  ASSUME Typed, RefsCounted, NEW d \in Digests, DropRef(d)
  PROVE  RefsCounted'
<1>1. /\ pc = "drop" /\ d \in cur.todo /\ cur' = [cur EXCEPT !.todo = @ \ {d}]
      /\ bk' = IF bk[d] = None THEN bk ELSE [bk EXCEPT ![d] = Dereferenced(Released(bk[d], cur.old))]
      /\ UNCHANGED <<manifests, pc, pushed>>
  BY DEF DropRef
<1>2. /\ cur \in [todo : SUBSET Digests, candidate : ManifestItem, old : BOOLEAN]
      /\ bk \in [Digests -> {None} \cup BlobBk]
  BY <1>1 DEF Typed, PassOK
<1>3. \A e \in Digests : Referrers(e)' = Referrers(e)
  BY <1>1 DEF Referrers, Cached
<1>4. /\ Pending(d) = 1 /\ Pending(d)' = 0
      /\ \A e \in Digests \ {d} : Pending(e)' = Pending(e) /\ bk'[e] = bk[e]
  BY <1>1, <1>2 DEF Pending
<1>5. bk[d] # None => bk'[d].refs = IF bk[d].refs = 0 THEN 0 ELSE bk[d].refs - 1
  <2>1. bk[d] # None => Released(bk[d], cur.old) \in BlobBk /\ Released(bk[d], cur.old).refs = bk[d].refs
    BY <1>2, ReleasedType, ReleasedRefs
  <2>2. \A r \in BlobBk : Dereferenced(r).refs = IF r.refs = 0 THEN 0 ELSE r.refs - 1
    BY DEF BlobBk, Dereferenced
  <2> QED
    BY <1>1, <1>2, <2>1, <2>2
<1>6. bk[d] = None => bk'[d] = None
  BY <1>1
<1>7. Cardinality(Referrers(d)) \in Nat
  BY CountsAreNat
<1>8. ASSUME NEW e \in Digests, bk'[e] # None, \A m \in pushed : e \notin Refs[m]
      PROVE  bk'[e].refs = Cardinality(Referrers(e)') + Pending(e)'
  <2>1. bk[e] # None
    BY <1>4, <1>6, <1>8
  <2>2. bk[e].refs = Cardinality(Referrers(e)) + Pending(e)
    BY <1>1, <1>8, <2>1 DEF RefsCounted, Counted
  <2>3. CASE e = d
    BY <1>3, <1>4, <1>5, <1>7, <2>1, <2>2, <2>3
  <2>4. CASE e # d
    BY <1>3, <1>4, <2>2, <2>4
  <2> QED
    BY <2>3, <2>4
<1> QED
  BY <1>1, <1>8 DEF RefsCounted

LEMMA PutManifestCounts ==
  ASSUME Typed, RefsCounted, NEW m \in Manifests, PutManifest(m)
  PROVE  RefsCounted'
<1>1. /\ manifests' = [manifests EXCEPT ![m] = [used |-> now, evicted |-> FALSE]]
      /\ pushed' = pushed \cup (IF pc \in {"idle", "manifests"} THEN {} ELSE {m})
      /\ UNCHANGED <<pc, bk, cur>>
  BY DEF PutManifest, StoreManifest, local
<1>2. SUFFICES ASSUME pc \in Counted, NEW d \in Digests, bk[d] # None, \A n \in pushed' : d \notin Refs[n]
               PROVE  bk[d].refs = Cardinality(Referrers(d)') + Pending(d)'
  BY <1>1 DEF RefsCounted
<1>3. pushed' = pushed \cup {m}
  BY <1>1, <1>2 DEF Counted
<1>4. d \notin Refs[m] /\ bk[d].refs = Cardinality(Referrers(d)) + Pending(d)
  BY <1>2, <1>3 DEF RefsCounted
<1>5. Referrers(d)' = Referrers(d)
  BY <1>1, <1>4 DEF Referrers, Cached, Typed
<1>6. Pending(d)' = Pending(d)
  BY <1>1 DEF Pending
<1> QED
  BY <1>4, <1>5, <1>6

\* The other steps of the pass while it has its counts.
LEMMA WorkCounts ==
  ASSUME Typed, RefsCounted,
         \/ ScanRedis
         \/ \E h \in DOMAIN heaps : \E c \in heaps[h] : Skip(h, c) \/ DropRedis(h, c)
         \/ \E c \in heaps["large"] : SpillRedis(c)
         \/ SpillRedisWritten \/ SpillBlobWritten \/ SpillManifestDone
         \/ \E d \in Digests : Sweep(d)
         \/ Untag \/ DropDone \/ LoopEnds
  PROVE  RefsCounted'
<1>1. /\ UNCHANGED <<manifests, bk, pushed>>
      /\ pc \in Counted
  BY DEF ScanRedis, Skip, DropRedis, SpillRedis, SpillRedisWritten, SpillBlobWritten, SpillManifestDone,
         Sweep, Untag, DropDone, LoopEnds, StoreBlob, StoreRedis, shared, Pops, Counted
<1>2. \/ pc \notin {"untag", "drop"} /\ pc' \notin {"untag", "drop"}
      \/ Untag \/ DropDone
  BY DEF ScanRedis, Skip, DropRedis, SpillRedis, SpillRedisWritten, SpillBlobWritten, SpillManifestDone,
         Sweep, LoopEnds, Pops
<1>3. \A d \in Digests : Pending(d)' = Pending(d)
  <2>1. CASE pc \notin {"untag", "drop"} /\ pc' \notin {"untag", "drop"}
    BY <2>1 DEF Pending
  <2>2. CASE Untag
    BY <2>2 DEF Untag, Pending
  <2>3. CASE DropDone
    BY <2>3 DEF DropDone, Pending
  <2> QED
    BY <1>2, <2>1, <2>2, <2>3
<1> QED
  BY <1>1, <1>3, CountsRest

LEMMA SpillManifestCounts ==
  ASSUME Typed, RefsCounted, NEW c, SpillManifest(c)
  PROVE  RefsCounted'
<1>1. /\ Pops("large", c) /\ c.kind = "manifest" /\ manifests[c.item] # None
      /\ manifests' = [manifests EXCEPT ![c.item].evicted = TRUE]
      /\ pc' = "spill" /\ UNCHANGED <<bk, pushed>>
  BY DEF SpillManifest
<1>2. pc = "loop" /\ c \in ManifestItem \cup RedisItem
  BY <1>1, PopsFacts DEF Typed, PassOK
<1>3. PICK m \in Manifests : m = c.item
  BY <1>1, <1>2, ItemFacts
<1>4. manifests[m] \in [used : 0 .. MaxNow, evicted : BOOLEAN]
  BY <1>1, <1>3, Entries DEF Typed
<1>5. [manifests[m] EXCEPT !.evicted = TRUE] \in [used : Nat, evicted : BOOLEAN]
  <2>1. [manifests[m] EXCEPT !.evicted = TRUE] \in [used : 0 .. MaxNow, evicted : BOOLEAN]
    BY <1>4
  <2>2. \A x \in [used : 0 .. MaxNow, evicted : BOOLEAN] : x \in [used : Nat, evicted : BOOLEAN]
    BY Constants
  <2> QED
    BY <2>1, <2>2
<1>6. [manifests[m] EXCEPT !.evicted = TRUE] # None
  BY <1>5, NoneAssumption
<1>7. \A n \in Manifests : manifests'[n] = None <=> manifests[n] = None
  BY <1>1, <1>3, <1>6 DEF Typed
<1>8. \A d \in Digests : Pending(d)' = Pending(d)
  BY <1>1, <1>2 DEF Pending
<1> QED
  BY <1>1, <1>2, <1>7, <1>8, CountsRest DEF Counted

LEMMA SpillRefCounts ==
  ASSUME Typed, RefsCounted, NEW d \in Digests, SpillRef(d)
  PROVE  RefsCounted'
<1>1. /\ pc = "spill" /\ pc' \in {"spill", "writeBlob"} /\ UNCHANGED <<manifests, pushed>>
      /\ bk' = IF bk[d] = None THEN bk ELSE [bk EXCEPT ![d] = Released(bk[d], cur.old)]
  BY DEF SpillRef, shared
<1>2. cur.old \in BOOLEAN /\ bk \in [Digests -> {None} \cup BlobBk]
  BY <1>1 DEF Typed, PassOK
<1>3. bk[d] # None => Released(bk[d], cur.old) # None /\ Released(bk[d], cur.old).refs = bk[d].refs
  BY <1>2, ReleasedRefs
<1>4. \A e \in Digests : (bk'[e] = None <=> bk[e] = None) /\ bk'[e].refs = bk[e].refs
  BY <1>1, <1>2, <1>3
<1>5. \A e \in Digests : Pending(e)' = Pending(e)
  BY <1>1 DEF Pending
<1> QED
  BY <1>1, <1>4, <1>5, CountsRest DEF Counted

\* The requests other than a push.
LEMMA RequestCounts ==
  ASSUME Typed, RefsCounted,
         \/ \E d \in Digests : PutBlob(d) \/ HitBlob(d)
         \/ \E m \in Manifests : HitManifest(m)
         \/ \E m \in Manifests, t \in Tags : PutTag(m, t)
         \/ \E k \in Keys : HitRedis(k) \/ DelRedis(k)
         \/ \E k \in Keys, n \in RedisSizes : SetRedis(k, n)
         \/ FlushRedis \/ Tick
         \/ UNCHANGED vars
  PROVE  RefsCounted'
<1>1. UNCHANGED <<pc, bk, pushed>> /\ (pc = "writeBlob" \/ cur' = cur)
  BY DEF PutBlob, HitBlob, HitManifest, PutTag, HitRedis, DelRedis, SetRedis, FlushRedis, Tick, vars, local
<1>2. \A m \in Manifests : manifests'[m] = None <=> manifests[m] = None
  <2>1. CASE \E m \in Manifests : HitManifest(m)
    <3>1. PICK m \in Manifests : HitManifest(m)
      BY <2>1
    <3>2. manifests[m] # None /\ manifests' = [manifests EXCEPT ![m] = [used |-> now, evicted |-> FALSE]]
      BY <3>1 DEF HitManifest
    <3>3. [used |-> now, evicted |-> FALSE] # None
      BY NowType, NewEntries
    <3> QED
      BY <3>2, <3>3 DEF Typed
  <2>2. CASE ~\E m \in Manifests : HitManifest(m)
    <3>1. UNCHANGED manifests
      BY <2>2 DEF PutBlob, HitBlob, PutTag, HitRedis, DelRedis, SetRedis, FlushRedis, Tick, vars, shared
    <3> QED
      BY <3>1
  <2> QED
    BY <2>1, <2>2
<1>4. \A d \in Digests : Pending(d)' = Pending(d)
  BY <1>1 DEF Pending
<1>5. CASE pc \in Counted
  BY <1>1, <1>2, <1>4, <1>5, CountsRest
<1>6. CASE pc \notin Counted
  BY <1>1, <1>6 DEF RefsCounted
<1> QED
  BY <1>5, <1>6

LEMMA NextCounts ==
  ASSUME Typed, RefsCounted, [Next]_vars
  PROVE  RefsCounted'
<1>1. ASSUME ScanBlobs \/ WriteFails \/ Publish PROVE RefsCounted'
  <2>1. pc' \notin Counted
    BY <1>1 DEF ScanBlobs, WriteFails, Publish, Counted
  <2> QED
    BY <2>1 DEF RefsCounted
<1>2. CASE Pass
  BY <1>1, <1>2, ScanManifestsCounts, WorkCounts, SpillManifestCounts, SpillRefCounts, DropManifestCounts,
     DropRefCounts DEF Pass
<1>3. CASE Clients
  BY <1>3, PutManifestCounts, RequestCounts DEF Clients
<1>4. CASE UNCHANGED vars
  BY <1>4, RequestCounts
<1> QED
  BY <1>2, <1>3, <1>4 DEF Next

LEMMA NextSweeps ==
  ASSUME Typed, SweepsKnown, [Next]_vars
  PROVE  SweepsKnown'
<1>1. CASE LoopEnds
  <2>1. cur'.todo = {d \in Digests : bk[d] # None} /\ bk' = bk
    BY <1>1 DEF LoopEnds
  <2> QED
    BY <2>1 DEF SweepsKnown
<1>2. CASE \E d \in Digests : Sweep(d)
  <2>1. PICK d \in Digests : Sweep(d)
    BY <1>2
  <2>2. pc = "sweep" /\ cur' = [cur EXCEPT !.todo = @ \ {d}] /\ bk' = bk
    BY <2>1 DEF Sweep
  <2>3. cur \in [todo : SUBSET Digests]
    BY <2>2 DEF Typed, PassOK
  <2> QED
    BY <2>2, <2>3 DEF SweepsKnown
<1>3. CASE Pass /\ ~LoopEnds /\ ~\E d \in Digests : Sweep(d)
  <2>1. pc' # "sweep"
    BY <1>3 DEF Pass, ScanBlobs, ScanManifests, ScanRedis, Skip, DropRedis, DropManifest, SpillRedis,
       SpillManifest, SpillRedisWritten, SpillBlobWritten, SpillManifestDone, WriteFails, SpillRef,
       DropRef, Untag, DropDone, Publish, Pops
  <2> QED
    BY <2>1 DEF SweepsKnown
<1>4. CASE Clients \/ UNCHANGED vars
  <2>1. UNCHANGED <<pc, bk>> /\ (pc = "writeBlob" \/ cur' = cur)
    BY <1>4 DEF Clients, PutBlob, HitBlob, PutManifest, HitManifest, PutTag, HitRedis, DelRedis, SetRedis,
       FlushRedis, Tick, vars, local
  <2> QED
    BY <2>1 DEF SweepsKnown
<1> QED
  BY <1>1, <1>2, <1>3, <1>4 DEF Next

-----------------------------------------------------------------------------
(***************************************************************************)
(* What each step of a pass may change.                                    *)
(***************************************************************************)
LEMMA ManifestsFrame ==
  ASSUME Pass
  PROVE  \/ \E h \in DOMAIN heaps : \E c \in heaps[h] : DropManifest(h, c)
         \/ \E c \in heaps["large"] : SpillManifest(c)
         \/ UNCHANGED manifests
BY DEF Pass, ScanBlobs, ScanManifests, ScanRedis, Skip, DropRedis, SpillRedis,
     SpillRedisWritten, SpillBlobWritten, SpillManifestDone, WriteFails, SpillRef,
     DropRef, Sweep, Untag, DropDone, LoopEnds, Publish, shared

LEMMA TagsFrame ==
  ASSUME Pass
  PROVE  Untag \/ UNCHANGED tags
BY DEF Pass, ScanBlobs, ScanManifests, ScanRedis, Skip, DropRedis, DropManifest, SpillRedis,
     SpillManifest, SpillRedisWritten, SpillBlobWritten, SpillManifestDone, WriteFails, SpillRef,
     DropRef, Sweep, DropDone, LoopEnds, Publish, shared

LEMMA BlobsFrame ==
  ASSUME Pass
  PROVE  \/ SpillBlobWritten
         \/ \E d \in Digests : DropRef(d) \/ Sweep(d)
         \/ UNCHANGED blobs
BY DEF Pass, ScanBlobs, ScanManifests, ScanRedis, Skip, DropRedis, SpillRedis, DropManifest, SpillManifest,
     SpillRedisWritten, SpillManifestDone, WriteFails, SpillRef,
     Untag, DropDone, LoopEnds, Publish, shared

LEMMA BkFrame ==
  ASSUME Pass
  PROVE  \/ ScanBlobs \/ ScanManifests \/ Publish
         \/ \E d \in Digests : DropRef(d) \/ SpillRef(d)
         \/ UNCHANGED bk
BY DEF Pass, ScanRedis, Skip, DropRedis, SpillRedis, DropManifest, SpillManifest,
     SpillRedisWritten, SpillBlobWritten, SpillManifestDone, WriteFails, Sweep,
     Untag, DropDone, LoopEnds

\* Where a step leads.
LEMMA PcFrame ==
  ASSUME Pass
  PROVE  /\ pc' = "manifests" => ScanBlobs
         /\ pc' \in {"idle", "failed"} => Publish \/ WriteFails
         /\ pc' = "redis" => ScanManifests
         /\ pc' \in Evicting /\ ~ScanRedis => pc \in Evicting
         /\ pc' \in Counted /\ ~ScanManifests => pc \in Counted
         /\ pc = "untag" => Untag
         /\ pc' = "writeRedis" => \E c \in heaps["large"] : SpillRedis(c)
         /\ pc' = "writeBlob" => \E d \in Digests : SpillRef(d)
         /\ pc' = "spill" => \/ \E d \in Digests : SpillRef(d)
                             \/ \E c \in heaps["large"] : SpillManifest(c)
                             \/ SpillBlobWritten
         /\ pc' = "untag" => \E h \in DOMAIN heaps : \E c \in heaps[h] : DropManifest(h, c)
         /\ pc' = "drop" => Untag \/ \E d \in Digests : DropRef(d)
         /\ pc' = "sweep" => LoopEnds \/ \E d \in Digests : Sweep(d)
<1> USE DEF Counted, Evicting
<1>1. CASE ScanBlobs \/ ScanManifests \/ ScanRedis
  BY <1>1 DEF ScanBlobs, ScanManifests, ScanRedis
<1>2. CASE \E h \in DOMAIN heaps : \E c \in heaps[h] : Skip(h, c) \/ DropRedis(h, c) \/ DropManifest(h, c)
  BY <1>2 DEF Skip, DropRedis, DropManifest, Pops
<1>3. CASE \E c \in heaps["large"] : SpillRedis(c) \/ SpillManifest(c)
  BY <1>3 DEF SpillRedis, SpillManifest, Pops
<1>4. CASE SpillRedisWritten \/ SpillBlobWritten \/ SpillManifestDone \/ WriteFails
  BY <1>4 DEF SpillRedisWritten, SpillBlobWritten, SpillManifestDone, WriteFails
<1>5. CASE \E d \in Digests : SpillRef(d) \/ DropRef(d) \/ Sweep(d)
  BY <1>5 DEF SpillRef, DropRef, Sweep
<1>6. CASE Untag \/ DropDone \/ LoopEnds \/ Publish
  BY <1>6 DEF Untag, DropDone, LoopEnds, Publish
<1> QED
  BY <1>1, <1>2, <1>3, <1>4, <1>5, <1>6 DEF Pass

LEMMA HeapsDomain ==
  ASSUME Typed
  PROVE  DOMAIN heaps = {"small", "large", "disk"}
BY DEF Typed, PassOK

\* The candidate of a manifest that is dropped or spilled.
LEMMA DropManifestFacts ==
  ASSUME Typed, NEW h \in DOMAIN heaps, NEW c, DropManifest(h, c)
  PROVE  /\ pc = "loop" /\ Pool = h /\ c \in OldestOf(h) /\ h \in {"small", "disk"}
         /\ c \in ManifestItem /\ c.item \in Manifests /\ manifests[c.item] # None
         /\ manifests' = [manifests EXCEPT ![c.item] = None]
         /\ heaps'[h] = heaps[h] \ {c}
         /\ \A g \in {"small", "large", "disk"} \ {h} : heaps'[g] = heaps[g]
         /\ pc' = "untag"
         /\ cur' = [todo |-> Refs[c.item], candidate |-> c, old |-> manifests[c.item].evicted]
         /\ UNCHANGED <<blobs, redis, tags, bk, passNow, pushed>>
<1>1. /\ Pops(h, c) /\ c.kind = "manifest" /\ h \in {"small", "disk"} /\ manifests[c.item] # None
      /\ manifests' = [manifests EXCEPT ![c.item] = None]
      /\ heaps' = Popped(h, c)
      /\ pc' = "untag"
      /\ cur' = [todo |-> Refs[c.item], candidate |-> c, old |-> manifests[c.item].evicted]
      /\ UNCHANGED <<blobs, redis, tags, bk, passNow, pushed>>
  BY DEF DropManifest, StoreManifest
<1>2. /\ c \in ManifestItem \cup RedisItem /\ Popped(h, c)[h] = heaps[h] \ {c}
      /\ \A g \in {"small", "large", "disk"} \ {h} : Popped(h, c)[g] = heaps[g]
  BY <1>1, PopsFacts
<1>3. c \in ManifestItem /\ c.item \in Manifests
  BY <1>1, <1>2, ItemFacts
<1> QED
  BY <1>1, <1>2, <1>3 DEF Pops

LEMMA SpillManifestFacts ==
  ASSUME Typed, NEW c, SpillManifest(c)
  PROVE  /\ pc = "loop" /\ Pool = "large"
         /\ c \in ManifestItem /\ c.item \in Manifests /\ manifests[c.item] # None
         /\ manifests[c.item].evicted \in BOOLEAN
         /\ \A m \in Manifests \ {c.item} : manifests'[m] = manifests[m]
         /\ manifests'[c.item] # None /\ manifests'[c.item].used = manifests[c.item].used
         /\ manifests'[c.item].evicted
         /\ \A m \in Manifests : manifests'[m] = None <=> manifests[m] = None
         /\ heaps'["large"] = heaps["large"] \ {c}
         /\ heaps'["small"] = heaps["small"] /\ heaps'["disk"] = heaps["disk"]
         /\ pc' = "spill"
         /\ cur' = [todo |-> Refs[c.item], candidate |-> c, old |-> manifests[c.item].evicted]
         /\ UNCHANGED <<blobs, redis, tags, usage, bk, passNow, sums, pushed>>
<1>1. /\ Pops("large", c) /\ c.kind = "manifest" /\ manifests[c.item] # None
      /\ manifests' = [manifests EXCEPT ![c.item].evicted = TRUE]
      /\ heaps' = Popped("large", c)
      /\ pc' = "spill"
      /\ cur' = [todo |-> Refs[c.item], candidate |-> c, old |-> manifests[c.item].evicted]
      /\ UNCHANGED <<blobs, redis, tags, usage, bk, passNow, sums, pushed>>
  BY DEF SpillManifest
<1>0. "large" \in DOMAIN heaps
  BY HeapsDomain
<1>2. /\ c \in ManifestItem \cup RedisItem /\ Popped("large", c)["large"] = heaps["large"] \ {c}
      /\ Popped("large", c)["small"] = heaps["small"] /\ Popped("large", c)["disk"] = heaps["disk"]
  BY <1>0, <1>1, PopsFacts
<1>3. c \in ManifestItem /\ c.item \in Manifests
  BY <1>1, <1>2, ItemFacts
<1>4. manifests[c.item] \in [used : 0 .. MaxNow, evicted : BOOLEAN] /\ manifests[c.item].evicted \in BOOLEAN
  BY <1>1, <1>3, Entries DEF Typed
<1>5. PICK x : x = [manifests[c.item] EXCEPT !.evicted = TRUE]
  OBVIOUS
<1>6. x \in [used : 0 .. MaxNow, evicted : BOOLEAN] /\ x.used = manifests[c.item].used /\ x.evicted
  BY <1>4, <1>5
<1>7. x # None
  <2>1. \A y \in [used : 0 .. MaxNow, evicted : BOOLEAN] : y \in [used : Nat, evicted : BOOLEAN]
    BY Constants
  <2> QED
    BY <1>6, <2>1, NoneAssumption
<1>8. manifests' = [manifests EXCEPT ![c.item] = x]
  BY <1>1, <1>5
<1>9. /\ \A m \in Manifests \ {c.item} : manifests'[m] = manifests[m]
      /\ manifests'[c.item] = x
  BY <1>3, <1>8 DEF Typed
<1> QED
  BY <1>1, <1>2, <1>3, <1>4, <1>6, <1>7, <1>9 DEF Pops

\* What a spill or a drop does to one digest.
LEMMA SpillRefFacts ==
  ASSUME Typed, NEW d \in Digests, SpillRef(d)
  PROVE  /\ pc = "spill" /\ d \in cur.todo /\ pc' \in {"spill", "writeBlob"}
         /\ cur \in [todo : SUBSET Digests, candidate : ManifestItem, old : BOOLEAN]
         /\ cur'.todo = cur.todo \ {d} /\ cur'.candidate = cur.candidate /\ cur'.old = cur.old
         /\ pc' = "writeBlob" => Spillable(d) /\ cur'.digest = d /\ cur'.acc = blobs[d].acc
         /\ pc' = "spill" => ~Spillable(d)
         /\ bk[d] = None => bk'[d] = None
         /\ bk[d] # None => bk[d] \in BlobBk /\ bk'[d] = Released(bk[d], cur.old)
         /\ \A e \in Digests \ {d} : bk'[e] = bk[e]
         /\ UNCHANGED <<manifests, blobs, redis, tags, usage, passNow, heaps, sums, pushed>>
<1>1. /\ pc = "spill" /\ d \in cur.todo
      /\ bk' = IF bk[d] = None THEN bk ELSE [bk EXCEPT ![d] = Released(bk[d], cur.old)]
      /\ UNCHANGED <<shared, passNow, heaps, sums, pushed>>
  BY DEF SpillRef
<1>2. cur \in [todo : SUBSET Digests, candidate : ManifestItem, old : BOOLEAN]
      /\ bk \in [Digests -> {None} \cup BlobBk]
  BY <1>1 DEF Typed, PassOK
<1>3. CASE Spillable(d)
  <2>1. /\ pc' = "writeBlob"
        /\ cur' = [todo |-> cur.todo \ {d}, candidate |-> cur.candidate, old |-> cur.old,
                   digest |-> d, acc |-> blobs[d].acc, detached |-> FALSE]
    BY <1>3 DEF SpillRef
  <2> QED
    BY <1>1, <1>2, <1>3, <2>1 DEF shared
<1>4. CASE ~Spillable(d)
  <2>1. pc' = "spill" /\ cur' = [cur EXCEPT !.todo = @ \ {d}]
    BY <1>1, <1>4 DEF SpillRef
  <2> QED
    BY <1>1, <1>2, <1>4, <2>1 DEF shared
<1> QED
  BY <1>3, <1>4

LEMMA DropRefFacts ==
  ASSUME Typed, NEW d \in Digests, DropRef(d)
  PROVE  /\ pc = "drop" /\ d \in cur.todo /\ pc' = "drop"
         /\ cur \in [todo : SUBSET Digests, candidate : ManifestItem, old : BOOLEAN]
         /\ cur'.todo = cur.todo \ {d} /\ cur'.candidate = cur.candidate /\ cur'.old = cur.old
         /\ bk[d] = None => bk'[d] = None
         /\ bk[d] # None =>
              /\ bk[d] \in BlobBk /\ bk'[d] # None
              /\ bk'[d].acc = bk[d].acc /\ bk'[d].tier = bk[d].tier
              /\ bk'[d].unevicted = Released(bk[d], cur.old).unevicted
         /\ \A e \in Digests \ {d} : bk'[e] = bk[e] /\ blobs'[e] = blobs[e]
         /\ LastReference(d) => /\ blobs' = [blobs EXCEPT ![d] = None]
                                /\ sums' = Monus(sums, BlobBucket(d, blobs[d].tier), BlobSize[d])
         /\ ~LastReference(d) => UNCHANGED <<blobs, usage, sums>>
         /\ UNCHANGED <<manifests, redis, tags, passNow, heaps, pushed>>
<1>1. /\ pc = "drop" /\ d \in cur.todo /\ cur' = [cur EXCEPT !.todo = @ \ {d}]
      /\ bk' = IF bk[d] = None THEN bk ELSE [bk EXCEPT ![d] = Dereferenced(Released(bk[d], cur.old))]
      /\ UNCHANGED <<manifests, redis, tags, pc, passNow, heaps, pushed>>
  BY DEF DropRef
<1>2. cur \in [todo : SUBSET Digests, candidate : ManifestItem, old : BOOLEAN]
      /\ bk \in [Digests -> {None} \cup BlobBk]
  BY <1>1 DEF Typed, PassOK
<1>3. bk[d] # None =>
        /\ bk[d] \in BlobBk /\ bk'[d] # None
        /\ bk'[d].acc = bk[d].acc /\ bk'[d].tier = bk[d].tier
        /\ bk'[d].unevicted = Released(bk[d], cur.old).unevicted
  <2>1. SUFFICES ASSUME bk[d] # None
                 PROVE /\ bk[d] \in BlobBk /\ bk'[d] # None
                       /\ bk'[d].acc = bk[d].acc /\ bk'[d].tier = bk[d].tier
                       /\ bk'[d].unevicted = Released(bk[d], cur.old).unevicted
    OBVIOUS
  <2>2. bk[d] \in BlobBk
    BY <1>2, <2>1
  <2>3. PICK r \in BlobBk : r = Released(bk[d], cur.old)
    BY <2>2, ReleasedType
  <2>4. r.acc = bk[d].acc /\ r.tier = bk[d].tier
    BY <2>2, <2>3, ReleasedType
  <2>5. Dereferenced(r) \in BlobBk /\ Dereferenced(r).acc = r.acc /\ Dereferenced(r).tier = r.tier
        /\ Dereferenced(r).unevicted = r.unevicted
    BY DEF BlobBk, Dereferenced
  <2>6. bk'[d] = Dereferenced(r)
    BY <1>1, <1>2, <2>1, <2>3
  <2> QED
    BY <2>2, <2>3, <2>4, <2>5, <2>6, NoneAssumption
<1>4. \A e \in Digests \ {d} : bk'[e] = bk[e]
  BY <1>1, <1>2
<1>5. CASE LastReference(d)
  <2>1. /\ blobs' = [blobs EXCEPT ![d] = None]
        /\ sums' = Monus(sums, BlobBucket(d, blobs[d].tier), BlobSize[d])
    BY <1>5, Zenon DEF DropRef, StoreBlob
  <2>2. \A e \in Digests \ {d} : blobs'[e] = blobs[e]
    BY <2>1 DEF Typed
  <2> QED
    BY <1>1, <1>2, <1>3, <1>4, <1>5, <2>1, <2>2
<1>6. CASE ~LastReference(d)
  <2>1. UNCHANGED <<blobs, usage, sums>>
    BY <1>6 DEF DropRef
  <2> QED
    BY <1>1, <1>2, <1>3, <1>4, <1>6, <2>1
<1> QED
  BY <1>5, <1>6

LEMMA SweepFacts ==
  ASSUME Typed, NEW d \in Digests, Sweep(d)
  PROVE  /\ pc = "sweep" /\ pc' = "sweep" /\ d \in cur.todo /\ cur'.todo = cur.todo \ {d}
         /\ \A e \in Digests \ {d} : blobs'[e] = blobs[e]
         /\ blobs'[d] = None \/ blobs'[d] = blobs[d]
         /\ Swept(d) => blobs' = [blobs EXCEPT ![d] = None] /\ blobs'[d] = None
         /\ ~Swept(d) => UNCHANGED <<blobs, usage>>
         /\ UNCHANGED <<manifests, redis, tags, passNow, bk, heaps, sums, pushed>>
<1>1. /\ pc = "sweep" /\ d \in cur.todo /\ cur' = [cur EXCEPT !.todo = @ \ {d}]
      /\ UNCHANGED <<manifests, redis, tags, pc, passNow, bk, heaps, sums, pushed>>
  BY DEF Sweep
<1>2. cur \in [todo : SUBSET Digests] /\ blobs \in [Digests -> BlobState(0 .. MaxNow)]
  BY <1>1 DEF Typed, PassOK
<1>3. Swept(d) => blobs' = [blobs EXCEPT ![d] = None]
  BY DEF Sweep, StoreBlob
<1>4. ~Swept(d) => UNCHANGED <<blobs, usage>>
  BY DEF Sweep
<1> QED
  BY <1>1, <1>2, <1>3, <1>4

LEMMA SpillBlobWrittenFacts ==
  ASSUME Typed, SpillBlobWritten
  PROVE  /\ pc = "writeBlob" /\ pc' = "spill"
         /\ cur.digest \in Digests /\ cur.acc \in 0 .. MaxNow /\ cur.old \in BOOLEAN /\ cur.todo \subseteq Digests
         /\ cur' = [todo |-> cur.todo, candidate |-> cur.candidate, old |-> cur.old]
         /\ blobs' = [blobs EXCEPT ![cur.digest] = [tier |-> "Disk", acc |-> cur.acc]]
         /\ blobs'[cur.digest] # None /\ blobs'[cur.digest].tier = "Disk" /\ blobs'[cur.digest].acc = cur.acc
         /\ \A e \in Digests \ {cur.digest} : blobs'[e] = blobs[e]
         /\ sums' = [Monus(sums, "largeBlob", BlobSize[cur.digest])
                       EXCEPT !["blobDisk"] = @ + BlobSize[cur.digest]]
         /\ UNCHANGED <<manifests, redis, tags, passNow, bk, heaps, pushed>>
<1>1. /\ pc = "writeBlob" /\ pc' = "spill"
      /\ cur' = [todo |-> cur.todo, candidate |-> cur.candidate, old |-> cur.old]
      /\ blobs' = [blobs EXCEPT ![cur.digest] = [tier |-> "Disk", acc |-> cur.acc]]
      /\ sums' = [Monus(sums, "largeBlob", BlobSize[cur.digest])
                       EXCEPT !["blobDisk"] = @ + BlobSize[cur.digest]]
      /\ UNCHANGED <<manifests, redis, tags, passNow, bk, heaps, pushed>>
  BY DEF SpillBlobWritten, StoreBlob
<1>2. /\ cur.digest \in Digests /\ cur.acc \in 0 .. MaxNow /\ cur.old \in BOOLEAN /\ cur.todo \subseteq Digests
      /\ blobs \in [Digests -> BlobState(0 .. MaxNow)]
  BY <1>1 DEF Typed, PassOK
<1>3. [tier |-> "Disk", acc |-> cur.acc] # None
  BY <1>2, NewEntries
<1> QED
  BY <1>1, <1>2, <1>3

-----------------------------------------------------------------------------
(***************************************************************************)
(* The times a pass works with are those of the blobs nobody used since.   *)
(***************************************************************************)
LEMMA TimesOfPass ==
  ASSUME Typed, TimesKnown, Pass
  PROVE  TimesKnown'
<1>0. blobs \in [Digests -> BlobState(0 .. MaxNow)]
  BY DEF Typed
<1>1. CASE ScanBlobs
  <2>1. /\ pc' = "manifests" /\ blobs' = blobs
        /\ \A d \in Digests : blobs[d] # None =>
             bk'[d] = [tier |-> BlobTier(d, blobs[d]), refs |-> 0, unevicted |-> 0, acc |-> blobs[d].acc]
    BY <1>1 DEF ScanBlobs, shared
  <2>2. ASSUME NEW d \in Digests, blobs[d] # None
        PROVE  bk'[d] # None /\ bk'[d].acc = blobs[d].acc
    <3>1. blobs[d].acc \in Nat
      BY <1>0, <2>2, Entries, Constants
    <3>2. PICK t \in {"Disk", "LargeMem", "SmallMem"} : t = BlobTier(d, blobs[d])
      BY DEF BlobTier
    <3>3. bk'[d] = [tier |-> t, refs |-> 0, unevicted |-> 0, acc |-> blobs[d].acc]
      BY <2>1, <2>2, <3>2
    <3>4. bk'[d] \in BlobBk
      BY <3>1, <3>3 DEF BlobBk
    <3> QED
      BY <3>3, <3>4, NoneAssumption
  <2> QED
    BY <2>1, <2>2 DEF TimesKnown
<1>2. CASE ScanManifests
  <2>1. /\ pc' = "redis" /\ UNCHANGED <<blobs, passNow>>
        /\ \A d \in Digests : bk[d] # None => bk'[d] = Counts(d)
    BY <1>2 DEF ScanManifests, shared
  <2>2. \A d \in Digests : bk[d] # None => Counts(d) \in BlobBk
    BY CountsAreNat DEF Counts, BlobBk, Typed, PassOK
  <2>3. \A d \in Digests : Counts(d).acc = bk[d].acc
    BY DEF Counts
  <2> QED
    BY <2>1, <2>2, <2>3, NoneAssumption DEF TimesKnown
<1>3. CASE \E d \in Digests : SpillRef(d)
  <2>1. PICK d \in Digests : SpillRef(d)
    BY <1>3
  <2>2. /\ UNCHANGED <<blobs, passNow>>
        /\ pc' = "writeBlob" => blobs[d] # None /\ cur'.digest = d /\ cur'.acc = blobs[d].acc
        /\ bk[d] # None => bk'[d] # None /\ bk'[d].acc = bk[d].acc
        /\ \A e \in Digests \ {d} : bk'[e] = bk[e]
    BY <2>1, SpillRefFacts, ReleasedRefs DEF Spillable
  <2> QED
    BY <2>2 DEF TimesKnown
<1>4. CASE \E d \in Digests : DropRef(d)
  <2>1. PICK d \in Digests : DropRef(d)
    BY <1>4
  <2>2. /\ pc' = "drop" /\ passNow' = passNow /\ (blobs'[d] = None \/ blobs'[d] = blobs[d])
        /\ bk[d] # None => bk'[d] # None /\ bk'[d].acc = bk[d].acc
        /\ \A e \in Digests \ {d} : bk'[e] = bk[e] /\ blobs'[e] = blobs[e]
    BY <1>0, <2>1, DropRefFacts
  <2> QED
    BY <2>2 DEF TimesKnown
<1>5. CASE \E d \in Digests : Sweep(d)
  <2>1. PICK d \in Digests : Sweep(d)
    BY <1>5
  <2>2. /\ pc' = "sweep" /\ (blobs'[d] = None \/ blobs'[d] = blobs[d])
        /\ \A e \in Digests \ {d} : blobs'[e] = blobs[e]
        /\ UNCHANGED <<bk, passNow>>
    BY <2>1, SweepFacts
  <2> QED
    BY <2>2 DEF TimesKnown
<1>6. CASE SpillBlobWritten
  <2>1. /\ pc = "writeBlob" /\ pc' = "spill" /\ UNCHANGED <<bk, passNow>>
        /\ blobs'[cur.digest].acc = cur.acc
        /\ \A e \in Digests \ {cur.digest} : blobs'[e] = blobs[e]
    BY <1>6, SpillBlobWrittenFacts
  <2> QED
    BY <2>1 DEF TimesKnown
<1>7. CASE Publish
  <2>1. passNow' = 0 /\ pc' = "idle" /\ blobs' = blobs
    BY <1>7 DEF Publish
  <2>2. \A d \in Digests : blobs[d] # None => ~(blobs[d].acc < 0)
    BY <1>0, Entries, Constants
  <2> QED
    BY <2>1, <2>2 DEF TimesKnown
<1>8. CASE /\ UNCHANGED <<blobs, bk>> /\ ~ScanBlobs /\ ~ScanManifests /\ ~Publish
           /\ ~\E d \in Digests : SpillRef(d)
  <2>1. passNow' = passNow
    BY <1>8 DEF Pass, ScanRedis, Skip, DropRedis, DropManifest, SpillRedis, SpillManifest, SpillRedisWritten,
       SpillBlobWritten, SpillManifestDone, WriteFails, DropRef, Sweep, Untag, DropDone, LoopEnds
  <2>2. pc' # "writeBlob"
    BY <1>8, PcFrame
  <2> QED
    BY <1>8, <2>1, <2>2 DEF TimesKnown
<1> QED
  BY <1>1, <1>2, <1>3, <1>4, <1>5, <1>6, <1>7, <1>8, BlobsFrame, BkFrame

LEMMA TimesOfClients ==
  ASSUME Typed, TimesKnown, Clients \/ UNCHANGED vars
  PROVE  TimesKnown'
<1>0. /\ blobs \in [Digests -> BlobState(0 .. MaxNow)]
      /\ now \in Nat /\ passNow \in Nat /\ passNow <= now
  BY NowType DEF Typed, PassOK
<1>1. ASSUME NEW d \in Digests, blobs'[d].acc = now, \A e \in Digests \ {d} : blobs'[e] = blobs[e],
             UNCHANGED <<pc, passNow, bk>>,
             pc = "writeBlob" => cur'.digest = cur.digest /\ cur'.acc \in {cur.acc, now}
      PROVE  TimesKnown'
  BY <1>0, <1>1 DEF TimesKnown
<1>2. CASE \E d \in Digests : PutBlob(d)
  <2>1. PICK d \in Digests : PutBlob(d)
    BY <1>2
  <2>2. /\ blobs' = [blobs EXCEPT ![d] = [tier |-> "Mem", acc |-> now]]
        /\ UNCHANGED <<pc, passNow, bk>>
        /\ cur' = IF pc = "writeBlob" /\ cur.digest = d THEN [cur EXCEPT !.detached = TRUE] ELSE cur
    BY <2>1 DEF PutBlob, StoreBlob
  <2>3. pc = "writeBlob" => cur'.digest = cur.digest /\ cur'.acc \in {cur.acc, now}
    BY <2>2 DEF Typed, PassOK
  <2> QED
    BY <1>0, <1>1, <2>2, <2>3
<1>3. CASE \E d \in Digests : HitBlob(d)
  <2>1. PICK d \in Digests : HitBlob(d)
    BY <1>3
  <2>2. /\ blobs[d] # None /\ blobs' = [blobs EXCEPT ![d].acc = now]
        /\ UNCHANGED <<pc, passNow, bk>>
        /\ cur' = IF pc = "writeBlob" /\ cur.digest = d /\ ~cur.detached
                  THEN [cur EXCEPT !.acc = now] ELSE cur
    BY <2>1 DEF HitBlob
  <2>3. pc = "writeBlob" => cur'.digest = cur.digest /\ cur'.acc \in {cur.acc, now}
    BY <2>2 DEF Typed, PassOK
  <2>4. blobs'[d].acc = now
    BY <1>0, <2>2, Entries
  <2> QED
    BY <1>0, <1>1, <2>2, <2>3, <2>4
<1>4. CASE ~\E d \in Digests : PutBlob(d) \/ HitBlob(d)
  <2>1. UNCHANGED <<blobs, pc, cur, passNow, bk>>
    BY <1>4 DEF Clients, PutManifest, HitManifest, PutTag, HitRedis, DelRedis, SetRedis, FlushRedis, Tick,
       vars, shared, local
  <2> QED
    BY <2>1 DEF TimesKnown
<1> QED
  BY <1>2, <1>3, <1>4

LEMMA TimesStep ==
  ASSUME Typed, TimesKnown, [Next]_vars
  PROVE  TimesKnown'
BY TimesOfPass, TimesOfClients DEF Next

LEMMA BusyInit == Init => BusyInv
<1>1. SUFFICES ASSUME Init PROVE BusyInv
  OBVIOUS
<1>2. pc = "idle" /\ passNow = 0
  BY <1>1 DEF Init
<1>3. Typed
  BY <1>1, InitTyped
<1>4. \A d \in Digests : blobs[d] # None => ~(blobs[d].acc < 0)
  BY <1>3, Entries, Constants DEF Typed
<1> QED
  BY <1>2, <1>3, <1>4 DEF BusyInv, RefsCounted, SweepsKnown, TimesKnown, Counted

\* The inductive invariant, with any requests.
THEOREM EvictionInvariant == Spec => []BusyInv
<1>1. BusyInv /\ [Next]_vars => BusyInv'
  BY NextTyped, NextCounts, NextSweeps, TimesStep DEF BusyInv
<1> QED
  BY <1>1, BusyInit, PTL DEF Spec

\* The only steps that remove a blob.
LEMMA Removals ==
  ASSUME Typed, [Next]_vars, NEW d \in Digests, Removed(d)
  PROVE  \/ DropRef(d) /\ LastReference(d)
         \/ Sweep(d) /\ Swept(d)
<1>1. blobs \in [Digests -> BlobState(0 .. MaxNow)] /\ blobs[d] # None /\ blobs'[d] = None
  BY DEF Typed, Removed
<1>2. blobs' # blobs
  BY <1>1
<1>3. ASSUME NEW e \in Digests, NEW x, x # None, blobs' = [blobs EXCEPT ![e] = x] PROVE FALSE
  BY <1>1, <1>3
<1>4. ~SpillBlobWritten
  <2>1. SUFFICES ASSUME SpillBlobWritten PROVE FALSE
    OBVIOUS
  <2>2. cur.digest \in Digests /\ cur.acc \in 0 .. MaxNow
    BY <2>1 DEF SpillBlobWritten, Typed, PassOK
  <2>3. blobs' = [blobs EXCEPT ![cur.digest] = [tier |-> "Disk", acc |-> cur.acc]]
    BY <2>1 DEF SpillBlobWritten, StoreBlob
  <2> QED
    BY <1>3, <2>2, <2>3, NewEntries
<1>5. ~\E e \in Digests : PutBlob(e)
  <2>1. SUFFICES ASSUME NEW e \in Digests, PutBlob(e) PROVE FALSE
    OBVIOUS
  <2>2. blobs' = [blobs EXCEPT ![e] = [tier |-> "Mem", acc |-> now]]
    BY <2>1 DEF PutBlob, StoreBlob
  <2> QED
    BY <1>3, <2>2, NowType, NewEntries
<1>6. ~\E e \in Digests : HitBlob(e)
  <2>1. SUFFICES ASSUME NEW e \in Digests, HitBlob(e) PROVE FALSE
    OBVIOUS
  <2>2. blobs[e] # None /\ blobs' = [blobs EXCEPT ![e].acc = now]
    BY <2>1 DEF HitBlob
  <2>3. [blobs[e] EXCEPT !.acc = now] \in [tier : {"Mem", "Disk"}, acc : Nat]
    BY <1>1, <2>2, Entries, NowType
  <2>4. [blobs[e] EXCEPT !.acc = now] # None
    BY <2>3, NoneAssumption
  <2> QED
    BY <1>3, <2>2, <2>4
<1>7. \/ \E e \in Digests : DropRef(e) \/ Sweep(e)
      \/ SpillBlobWritten \/ \E e \in Digests : PutBlob(e) \/ HitBlob(e)
  <2>1. CASE Pass
    BY <1>2, <2>1 DEF Pass, ScanBlobs, ScanManifests, ScanRedis, Skip, DropRedis, DropManifest, SpillRedis,
       SpillManifest, SpillRedisWritten, SpillManifestDone, WriteFails, SpillRef,
       Untag, DropDone, LoopEnds, Publish, shared
  <2>2. CASE Clients
    BY <1>2, <2>2 DEF Clients, PutManifest, HitManifest, PutTag, HitRedis, DelRedis, SetRedis, FlushRedis,
       Tick, shared
  <2>3. CASE UNCHANGED vars
    BY <1>2, <2>3 DEF vars, shared
  <2> QED
    BY <2>1, <2>2, <2>3 DEF Next
<1>8. PICK e \in Digests : DropRef(e) \/ Sweep(e)
  BY <1>4, <1>5, <1>6, <1>7
<1>9. CASE DropRef(e)
  <2>1. LastReference(e)
    BY <1>2, <1>9 DEF DropRef
  <2>2. e = d
    BY <1>1, <1>9, <2>1 DEF DropRef, StoreBlob
  <2> QED
    BY <1>9, <2>1, <2>2
<1>10. CASE Sweep(e)
  <2>1. Swept(e)
    BY <1>2, <1>10 DEF Sweep
  <2>2. e = d
    BY <1>1, <1>10, <2>1 DEF Sweep, StoreBlob
  <2> QED
    BY <1>10, <2>1, <2>2
<1> QED
  BY <1>8, <1>9, <1>10

LossStep == \A d \in Digests : Removed(d) /\ Needed(d) => \E m \in pushed : d \in Refs[m]

LEMMA LossNeedsPushStep == BusyInv /\ [Next]_vars => LossStep
<1>1. SUFFICES ASSUME BusyInv, [Next]_vars, NEW d \in Digests, Removed(d), \A m \in pushed : d \notin Refs[m]
               PROVE  ~Needed(d)
  BY DEF LossStep
<1>2. Typed /\ RefsCounted /\ SweepsKnown
  BY <1>1 DEF BusyInv
<1>3. Cardinality(Referrers(d)) \in Nat /\ IsFiniteSet(Referrers(d))
  BY CountsAreNat
<1>4. Cardinality(Referrers(d)) = 0
  <2>1. CASE DropRef(d) /\ LastReference(d)
    <3>1. pc = "drop" /\ d \in cur.todo /\ bk[d] # None /\ bk[d].refs <= 1
      BY <2>1 DEF DropRef, LastReference
    <3>2. Pending(d) = 1
      BY <3>1 DEF Pending
    <3>3. bk[d].refs = Cardinality(Referrers(d)) + Pending(d)
      BY <1>1, <1>2, <3>1 DEF RefsCounted, Counted
    <3> QED
      BY <1>3, <3>1, <3>2, <3>3
  <2>2. CASE Sweep(d) /\ Swept(d)
    <3>1. pc = "sweep" /\ d \in cur.todo /\ bk[d] # None /\ bk[d].refs = 0
      BY <1>2, <2>2 DEF Sweep, Swept, SweepsKnown
    <3>2. Pending(d) = 0
      BY <3>1 DEF Pending
    <3>3. bk[d].refs = Cardinality(Referrers(d)) + Pending(d)
      BY <1>1, <1>2, <3>1 DEF RefsCounted, Counted
    <3> QED
      BY <1>3, <3>1, <3>2, <3>3
  <2> QED
    BY <1>1, <1>2, <2>1, <2>2, Removals
<1> QED
  BY <1>3, <1>4, FS_EmptySet DEF Needed

\* A pass removes a blob that a cached manifest references only when a
\* manifest that references it was stored after the pass took its counts,
\* whatever else the clients do (eviction.rs, evict).
THEOREM LossesNeedPushes == Spec => LossNeedsPush
<1>1. BusyInv /\ [Next]_vars => [LossStep]_vars
  BY LossNeedsPushStep
<1>2. LossNeedsPush <=> [][LossStep]_vars
  BY PTL DEF LossNeedsPush, LossStep
<1> QED
  BY <1>1, <1>2, EvictionInvariant, PTL DEF Spec

YoungStep ==
  \A d \in Digests : Removed(d) => now - blobs[d].acc >= Grace \/ blobs[d].acc >= passNow

LEMMA YoungLossNeedsHitStep == BusyInv /\ [Next]_vars => YoungStep
<1>1. SUFFICES ASSUME BusyInv, [Next]_vars, NEW d \in Digests, Removed(d), ~(blobs[d].acc >= passNow)
               PROVE  now - blobs[d].acc >= Grace
  BY DEF YoungStep
<1>2. Typed /\ TimesKnown
  BY <1>1 DEF BusyInv
<1>3. blobs[d] # None /\ blobs[d].acc \in Nat
  BY <1>1, <1>2, Entries, Constants DEF Removed, Typed
<1>4. passNow \in Nat /\ now \in Nat /\ passNow <= now /\ Grace \in Nat
  BY <1>2, NowType, Constants DEF Typed, PassOK
<1>5. bk[d] # None /\ bk[d].acc = blobs[d].acc
  BY <1>1, <1>2, <1>3, <1>4 DEF TimesKnown
<1>6. passNow - bk[d].acc >= Grace
  <2>1. CASE DropRef(d) /\ LastReference(d)
    <3>1. bk[d].acc <= passNow - Grace
      BY <2>1 DEF LastReference
    <3> QED
      BY <1>3, <1>4, <1>5, <3>1
  <2>2. CASE Sweep(d) /\ Swept(d)
    BY <2>2 DEF Swept
  <2> QED
    BY <1>1, <1>2, <2>1, <2>2, Removals
<1> QED
  BY <1>3, <1>4, <1>5, <1>6

\* Whatever requests run beside it, a pass deletes a blob younger than
\* BLOB_GRACE_SECONDS only if it was used or uploaded again after the pass
\* read its clock: on every other blob the copied access time is the blob's.
THEOREM YoungLossesNeedHits == Spec => YoungLossNeedsHit
<1>1. BusyInv /\ [Next]_vars => [YoungStep]_vars
  BY YoungLossNeedsHitStep
<1>2. YoungLossNeedsHit <=> [][YoungStep]_vars
  BY PTL DEF YoungLossNeedsHit, YoungStep
<1> QED
  BY <1>1, <1>2, EvictionInvariant, PTL DEF Spec

DanglingStep ==
  \A t \in Tags :
    ~Dangles(t) /\ Dangles(t)' => \E m \in puts : tags[t] # m /\ tags'[t] = m /\ manifests[m] = None

LEMMA DanglingTagNeedsPutStep == BusyInv /\ [Next]_vars => DanglingStep
<1>1. SUFFICES ASSUME BusyInv, [Next]_vars, NEW t \in Tags, ~Dangles(t), Dangles(t)'
               PROVE  \E m \in puts : tags[t] # m /\ tags'[t] = m /\ manifests[m] = None
  BY DEF DanglingStep
<1>2. /\ Typed
      /\ tags \in [Tags -> Manifests \cup {None}]
      /\ manifests \in [Manifests -> ManifestState(0 .. MaxNow)]
  BY <1>1 DEF BusyInv, Typed
<1>3. /\ tags'[t] # None /\ manifests'[tags'[t]] = None
      /\ ~(pc' = "untag" /\ cur'.candidate.item = tags'[t])
  BY <1>1 DEF Dangles
<1>4. tags[t] # None /\ manifests[tags[t]] = None => pc = "untag" /\ cur.candidate.item = tags[t]
  BY <1>1 DEF Dangles
<1>5. ASSUME tags' = tags, manifests[tags[t]] = None, pc # "untag" \/ UNCHANGED <<pc, cur>>
      PROVE  FALSE
  BY <1>3, <1>4, <1>5
<1>6. ASSUME NEW m \in Manifests, NEW x, x # None, manifests' = [manifests EXCEPT ![m] = x],
             UNCHANGED <<tags, pc, cur>>
      PROVE  FALSE
  BY <1>2, <1>3, <1>4, <1>6
<1>7. CASE Untag
  <2>1. /\ pc = "untag" /\ UNCHANGED <<manifests, cur>>
        /\ tags' = [u \in Tags |-> IF tags[u] = cur.candidate.item THEN None ELSE tags[u]]
    BY <1>7 DEF Untag
  <2> QED
    BY <1>2, <1>3, <1>4, <2>1
<1>8. CASE \E h \in DOMAIN heaps : \E c \in heaps[h] : DropManifest(h, c)
  <2>1. PICK h \in DOMAIN heaps : \E c \in heaps[h] : DropManifest(h, c)
    BY <1>8
  <2>2. PICK c \in heaps[h] : DropManifest(h, c)
    BY <2>1
  <2>3. /\ pc = "loop" /\ pc' = "untag" /\ cur'.candidate = c /\ tags' = tags
        /\ manifests' = [manifests EXCEPT ![c.item] = None]
    BY <1>2, <2>2, DropManifestFacts
  <2> QED
    BY <1>2, <1>3, <1>5, <2>3
<1>9. CASE \E c \in heaps["large"] : SpillManifest(c)
  <2>1. PICK c \in heaps["large"] : SpillManifest(c)
    BY <1>9
  <2>2. /\ pc = "loop" /\ tags' = tags
        /\ \A m \in Manifests : manifests'[m] = None <=> manifests[m] = None
    BY <1>2, <2>1, SpillManifestFacts
  <2> QED
    BY <1>2, <1>3, <1>5, <2>2
<1>10. CASE Pass /\ ~Untag /\ UNCHANGED manifests
  <2>1. pc # "untag" /\ UNCHANGED <<tags, manifests>>
    BY <1>10, TagsFrame, PcFrame
  <2> QED
    BY <1>3, <1>5, <2>1
<1>11. CASE \E m \in Manifests, u \in Tags : PutTag(m, u)
  <2>1. PICK m \in Manifests, u \in Tags : PutTag(m, u)
    BY <1>11
  <2>2. m \in puts /\ tags' = [tags EXCEPT ![u] = m] /\ UNCHANGED <<manifests, pc, cur>>
    BY <2>1 DEF PutTag, local
  <2>3. tags'[t] # tags[t]
    BY <1>3, <1>4, <2>2
  <2>4. t = u /\ tags'[t] = m
    BY <1>2, <2>2, <2>3
  <2> QED
    BY <1>3, <2>2, <2>3, <2>4
<1>12. CASE \E m \in Manifests : PutManifest(m) \/ HitManifest(m)
  <2>1. PICK m \in Manifests : PutManifest(m) \/ HitManifest(m)
    BY <1>12
  <2>2. /\ manifests' = [manifests EXCEPT ![m] = [used |-> now, evicted |-> FALSE]]
        /\ UNCHANGED <<tags, pc, cur>>
    BY <2>1 DEF PutManifest, HitManifest, StoreManifest, local
  <2>3. [used |-> now, evicted |-> FALSE] # None
    BY <1>2, NowType, NewEntries
  <2> QED
    BY <1>6, <2>2, <2>3
<1>13. CASE /\ Clients \/ UNCHANGED vars
            /\ ~\E m \in Manifests, u \in Tags : PutTag(m, u)
            /\ ~\E m \in Manifests : PutManifest(m) \/ HitManifest(m)
  <2>1. UNCHANGED <<tags, manifests, pc>> /\ (pc = "writeBlob" \/ cur' = cur)
    BY <1>13 DEF Clients, PutBlob, HitBlob, HitRedis, DelRedis, SetRedis, FlushRedis, Tick, vars, shared, local
  <2> QED
    BY <1>3, <1>5, <2>1
<1> QED
  BY <1>1, <1>7, <1>8, <1>9, <1>10, <1>11, <1>12, <1>13, ManifestsFrame DEF Next

\* Whatever requests run beside the passes, only the tags.insert of a push
\* whose manifest a pass dropped since its insert_manifest makes a tag name
\* a manifest that is gone: evict takes the tags with every manifest it
\* drops.
THEOREM DanglingTagsNeedPuts == Spec => DanglingTagNeedsPut
<1>1. BusyInv /\ [Next]_vars => [DanglingStep]_vars
  BY DanglingTagNeedsPutStep
<1>2. DanglingTagNeedsPut <=> [][DanglingStep]_vars
  BY PTL DEF DanglingTagNeedsPut, DanglingStep
<1> QED
  BY <1>1, <1>2, EvictionInvariant, PTL DEF Spec

-----------------------------------------------------------------------------
(***************************************************************************)
(* Passes nothing disturbs (MaxOps = 0): from any content of the cache,    *)
(* for any finite sets of manifests, blobs and keys, any references, sizes *)
(* and limits.                                                             *)
(***************************************************************************)
\* Nothing but the clock moves.
Rest == UNCHANGED <<shared, puts, ops, local, pushed>>

LEMMA QuietStep ==
  ASSUME MaxOps = 0, Typed, Undisturbed, [Next]_vars
  PROVE  Pass \/ Rest
<1>1. ~Request
  BY DEF Request, Undisturbed
<1>2. CASE Clients
  BY <1>1, <1>2 DEF Clients, PutBlob, HitBlob, PutManifest, HitManifest, PutTag, HitRedis, DelRedis, SetRedis,
     FlushRedis, Tick, Rest, Undisturbed
<1> QED
  BY <1>2 DEF Next, vars, Rest

LEMMA UndisturbedStep ==
  ASSUME Undisturbed, Pass \/ Rest
  PROVE  Undisturbed'
<1>1. CASE Rest
  BY <1>1 DEF Rest, Undisturbed
<1>2. CASE Pass
  BY <1>2 DEF Pass, ScanBlobs, ScanManifests, ScanRedis, Skip, DropRedis, DropManifest, SpillRedis,
     SpillManifest, SpillRedisWritten, SpillBlobWritten, SpillManifestDone, WriteFails, SpillRef,
     DropRef, Sweep, Untag, DropDone, LoopEnds, Publish, Undisturbed
<1> QED
  BY <1>1, <1>2

-----------------------------------------------------------------------------
(***************************************************************************)
(* What the pass knows of the blobs.                                       *)
(***************************************************************************)
LEMMA BlobsKnownStep ==
  ASSUME Typed, BlobsKnown, SpillKnown, Pass \/ Rest
  PROVE  BlobsKnown'
<1>1. CASE ScanBlobs
  <2>1. /\ pc' = "manifests" /\ blobs' = blobs
        /\ \A d \in Digests : blobs[d] # None =>
             bk'[d] = [tier |-> BlobTier(d, blobs[d]), refs |-> 0, unevicted |-> 0, acc |-> blobs[d].acc]
    BY <1>1 DEF ScanBlobs, shared
  <2>2. \A d \in Digests : blobs[d] # None =>
          [tier |-> BlobTier(d, blobs[d]), refs |-> 0, unevicted |-> 0, acc |-> blobs[d].acc] # None
    <3>1. SUFFICES ASSUME NEW d \in Digests, blobs[d] # None
          PROVE [tier |-> BlobTier(d, blobs[d]), refs |-> 0, unevicted |-> 0, acc |-> blobs[d].acc] \in BlobBk
      BY NoneAssumption
    <3>2. blobs[d].acc \in Nat
      BY <3>1, Entries, Constants DEF Typed
    <3>3. BlobTier(d, blobs[d]) \in {"Disk", "LargeMem", "SmallMem"}
      BY DEF BlobTier
    <3> QED
      BY <3>2, <3>3 DEF BlobBk
  <2>3. ASSUME NEW d \in Digests, blobs[d] # None
        PROVE  bk'[d] # None /\ bk'[d].acc = blobs[d].acc /\ bk'[d].tier = BlobTier(d, blobs[d])
    <3>1. PICK t : t = BlobTier(d, blobs[d])
      OBVIOUS
    <3>2. bk'[d] = [tier |-> t, refs |-> 0, unevicted |-> 0, acc |-> blobs[d].acc]
      BY <2>1, <2>3, <3>1
    <3> QED
      BY <2>2, <2>3, <3>1, <3>2
  <2> QED
    BY <2>1, <2>3 DEF BlobsKnown, BlobTier
<1>2. CASE ScanManifests
  <2>1. /\ pc = "manifests" /\ pc' = "redis" /\ blobs' = blobs
        /\ \A d \in Digests : bk[d] # None => bk'[d] = Counts(d)
    BY <1>2 DEF ScanManifests, shared
  <2>2. \A d \in Digests : bk[d] # None => Counts(d) \in BlobBk
    BY CountsAreNat DEF Counts, BlobBk, Typed, PassOK
  <2>3. \A d \in Digests : Counts(d).acc = bk[d].acc /\ Counts(d).tier = bk[d].tier
    BY DEF Counts
  <2> QED
    BY <2>1, <2>2, <2>3, NoneAssumption DEF BlobsKnown, BlobTier
<1>3. CASE \E d \in Digests : SpillRef(d)
  <2>1. PICK d \in Digests : SpillRef(d)
    BY <1>3
  <2>2. /\ pc = "spill" /\ pc' \in {"spill", "writeBlob"} /\ blobs' = blobs
        /\ bk[d] # None => bk'[d] # None /\ bk'[d].acc = bk[d].acc /\ bk'[d].tier = bk[d].tier
        /\ \A e \in Digests \ {d} : bk'[e] = bk[e]
    BY <2>1, SpillRefFacts, ReleasedRefs
  <2> QED
    BY <2>2 DEF BlobsKnown, BlobTier, Counted
<1>4. CASE \E d \in Digests : DropRef(d)
  <2>1. PICK d \in Digests : DropRef(d)
    BY <1>4
  <2>2. /\ pc = "drop" /\ pc' = "drop" /\ (blobs'[d] = None \/ blobs'[d] = blobs[d])
        /\ bk[d] # None => bk'[d] # None /\ bk'[d].acc = bk[d].acc /\ bk'[d].tier = bk[d].tier
        /\ \A e \in Digests \ {d} : bk'[e] = bk[e] /\ blobs'[e] = blobs[e]
    BY <2>1, DropRefFacts DEF Typed
  <2> QED
    BY <2>2 DEF BlobsKnown, BlobTier, Counted
<1>5. CASE \E d \in Digests : Sweep(d)
  <2>1. PICK d \in Digests : Sweep(d)
    BY <1>5
  <2>2. /\ pc = "sweep" /\ pc' = "sweep" /\ (blobs'[d] = None \/ blobs'[d] = blobs[d])
        /\ \A e \in Digests \ {d} : blobs'[e] = blobs[e]
        /\ bk' = bk
    BY <2>1, SweepFacts
  <2> QED
    BY <2>2 DEF BlobsKnown, BlobTier, Counted
<1>6. CASE SpillBlobWritten
  <2>1. /\ pc = "writeBlob" /\ pc' = "spill" /\ bk' = bk
        /\ blobs'[cur.digest].tier = "Disk" /\ blobs'[cur.digest].acc = cur.acc
        /\ \A e \in Digests \ {cur.digest} : blobs'[e] = blobs[e]
    BY <1>6, SpillBlobWrittenFacts
  <2> QED
    BY <2>1 DEF BlobsKnown, SpillKnown, BlobTier, Counted
<1>7. CASE Publish
  BY <1>7 DEF Publish, BlobsKnown, Counted
<1>8. CASE Pass /\ UNCHANGED <<blobs, bk>> /\ ~ScanBlobs /\ ~ScanManifests
  <2>1. pc' \in Counted \cup {"manifests"} => pc \in Counted /\ pc' # "manifests"
    BY <1>8, PcFrame
  <2> QED
    BY <1>8, <2>1 DEF BlobsKnown, BlobTier
<1>9. CASE Rest
  BY <1>9 DEF Rest, shared, local, BlobsKnown, BlobTier
<1> QED
  BY <1>1, <1>2, <1>3, <1>4, <1>5, <1>6, <1>7, <1>8, <1>9, BlobsFrame, BkFrame

LEMMA SpillKnownStep ==
  ASSUME Typed, BlobsKnown, SpillKnown, UnevictedCounted, Pass \/ Rest
  PROVE  SpillKnown'
<1>1. CASE \E c \in heaps["large"] : SpillManifest(c)
  <2>1. PICK c \in heaps["large"] : SpillManifest(c)
    BY <1>1
  <2>2. /\ pc' = "spill" /\ cur'.candidate = c /\ cur'.todo = Refs[c.item]
        /\ manifests'[c.item] # None /\ manifests'[c.item].evicted
    BY <2>1, SpillManifestFacts
  <2> QED
    BY <2>2 DEF SpillKnown
<1>2. CASE \E d \in Digests : SpillRef(d)
  <2>1. PICK d \in Digests : SpillRef(d)
    BY <1>2
  <2>2. /\ pc = "spill" /\ d \in cur.todo /\ pc' \in {"spill", "writeBlob"}
        /\ cur'.todo = cur.todo \ {d} /\ cur'.candidate = cur.candidate
        /\ cur.old \in BOOLEAN
        /\ pc' = "writeBlob" => Spillable(d) /\ cur'.digest = d /\ cur'.acc = blobs[d].acc
        /\ UNCHANGED <<manifests, blobs>>
    BY <2>1, SpillRefFacts
  <2>3. /\ manifests'[cur'.candidate.item] # None
        /\ manifests'[cur'.candidate.item].evicted
        /\ cur'.todo \subseteq Refs[cur'.candidate.item]
    BY <2>2 DEF SpillKnown
  <2>4. ASSUME Spillable(d)
        PROVE  /\ blobs[d] # None /\ blobs[d].tier = "Mem" /\ BlobSize[d] > Threshold
               /\ Unevicted(d) = {}
    <3>1. /\ bk[d] # None /\ Released(bk[d], cur.old).unevicted = 0 /\ bk[d].tier = "LargeMem"
          /\ blobs[d] # None /\ blobs[d].tier = "Mem"
      BY <2>4 DEF Spillable
    <3>2. bk[d].tier = BlobTier(d, blobs[d])
      BY <2>2, <3>1 DEF BlobsKnown, Counted
    <3>3. BlobSize[d] > Threshold
      BY <3>1, <3>2 DEF BlobTier
    <3>4. bk[d] \in BlobBk
      BY <3>1 DEF Typed, PassOK
    <3>5. bk[d].unevicted = Cardinality(Unevicted(d)) + Unreleased(d)
      BY <2>2, <3>1 DEF UnevictedCounted, Counted
    <3>6. Unreleased(d) = IF cur.old THEN 0 ELSE 1
      BY <2>2 DEF Unreleased
    <3>7. Cardinality(Unevicted(d)) \in Nat /\ IsFiniteSet(Unevicted(d))
      BY CountsAreNat
    <3>8. Released(bk[d], cur.old).unevicted
            = IF cur.old \/ bk[d].unevicted = 0 THEN bk[d].unevicted ELSE bk[d].unevicted - 1
      BY <3>4, ReleasedType
    <3>9. Cardinality(Unevicted(d)) = 0
      BY <2>2, <3>1, <3>5, <3>6, <3>7, <3>8
    <3> QED
      BY <3>1, <3>3, <3>7, <3>9, FS_EmptySet
  <2>5. Unevicted(d)' = Unevicted(d)
    BY <2>2 DEF Unevicted, Referrers, Cached
  <2> QED
    BY <2>2, <2>3, <2>4, <2>5 DEF SpillKnown
<1>3. CASE SpillBlobWritten
  <2>1. pc = "writeBlob" /\ pc' = "spill" /\ cur'.todo = cur.todo /\ cur'.candidate = cur.candidate
        /\ UNCHANGED manifests
    BY <1>3, SpillBlobWrittenFacts
  <2> QED
    BY <2>1 DEF SpillKnown
<1>4. CASE Rest
  <2>1. UNCHANGED <<pc, cur, manifests, blobs>>
    BY <1>4 DEF Rest, shared, local
  <2>2. \A d \in Digests : Unevicted(d)' = Unevicted(d)
    BY <2>1 DEF Unevicted, Referrers, Cached
  <2>3. pc = "writeBlob" => cur.digest \in Digests
    BY DEF Typed, PassOK
  <2> QED
    BY <2>1, <2>2, <2>3 DEF SpillKnown
<1>5. CASE Pass /\ pc' \notin {"spill", "writeBlob"}
  BY <1>5 DEF SpillKnown
<1> QED
  BY <1>1, <1>2, <1>3, <1>4, <1>5, PcFrame

LEMMA SweptCleanStep ==
  ASSUME Typed, RefsCounted, SweepsKnown, Undisturbed, BlobsKnown, SweptClean, Pass \/ Rest
  PROVE  SweptClean'
<1>1. CASE LoopEnds
  <2>1. /\ pc = "loop" /\ cur'.todo = {d \in Digests : bk[d] # None}
        /\ UNCHANGED <<blobs, bk>>
    BY <1>1 DEF LoopEnds, shared
  <2>2. \A d \in Digests \ cur'.todo : blobs'[d] = None
    BY <2>1 DEF BlobsKnown, Counted
  <2> QED
    BY <2>2 DEF SweptClean
<1>2. CASE \E d \in Digests : Sweep(d)
  <2>1. PICK d \in Digests : Sweep(d)
    BY <1>2
  <2>2. /\ pc = "sweep" /\ d \in cur.todo /\ cur'.todo = cur.todo \ {d}
        /\ \A e \in Digests \ {d} : blobs'[e] = blobs[e]
        /\ Swept(d) => blobs'[d] = None
        /\ ~Swept(d) => UNCHANGED blobs
        /\ UNCHANGED <<manifests, passNow>>
    BY <2>1, SweepFacts
  <2>3. \A e \in Digests : Needed(e)' <=> Needed(e)
    BY <2>2 DEF Needed, Referrers, Cached
  <2>4. ASSUME ~Swept(d), blobs[d] # None, ~Needed(d) PROVE passNow - blobs[d].acc < Grace
    <3>1. bk[d] # None /\ bk[d].acc = blobs[d].acc
      BY <2>2, <2>4 DEF SweepsKnown, BlobsKnown, Counted
    <3>2. bk[d].refs = Cardinality(Referrers(d)) + Pending(d)
      BY <2>2, <3>1 DEF RefsCounted, Undisturbed, Counted
    <3>3. Pending(d) = 0
      BY <2>2 DEF Pending
    <3>4. Cardinality(Referrers(d)) = 0
      BY <2>4, FS_EmptySet DEF Needed
    <3>5. ~(passNow - blobs[d].acc >= Grace)
      BY <2>4, <3>1, <3>2, <3>3, <3>4 DEF Swept
    <3>6. passNow \in Nat /\ blobs[d].acc \in Nat
      BY <2>4, NowType, Entries, Constants DEF Typed
    <3> QED
      BY <3>5, <3>6, Constants
  <2> QED
    BY <2>2, <2>3, <2>4 DEF SweptClean
<1>3. CASE Rest
  <2>1. UNCHANGED <<manifests, blobs, pc, cur, passNow>>
    BY <1>3 DEF Rest, shared, local
  <2>2. \A e \in Digests : Needed(e)' <=> Needed(e)
    BY <2>1 DEF Needed, Referrers, Cached
  <2> QED
    BY <2>1, <2>2 DEF SweptClean
<1>4. CASE Pass /\ pc' # "sweep"
  BY <1>4 DEF SweptClean
<1> QED
  BY <1>1, <1>2, <1>3, <1>4, PcFrame

-----------------------------------------------------------------------------
(***************************************************************************)
(* The counts of references that are not evicted.                          *)
(***************************************************************************)
LEMMA UnevictedRest ==
  ASSUME UnevictedCounted, pc \in Counted, UNCHANGED <<manifests, bk>>,
         \A d \in Digests : Unreleased(d)' = Unreleased(d)
  PROVE  UnevictedCounted'
<1>1. \A d \in Digests : Unevicted(d)' = Unevicted(d)
  BY DEF Unevicted, Referrers, Cached
<1> QED
  BY <1>1 DEF UnevictedCounted

\* A manifest m is no longer one that is not evicted.
LEMMA UnevictedLeaves ==
  ASSUME Typed, NEW m \in Manifests, manifests[m] # None, NEW d \in Digests,
         manifests'[m] = None \/ manifests'[m].evicted,
         \A n \in Manifests \ {m} : manifests'[n] = manifests[n]
  PROVE  Cardinality(Unevicted(d)')
           = IF d \in Refs[m] /\ ~manifests[m].evicted THEN Cardinality(Unevicted(d)) - 1
             ELSE Cardinality(Unevicted(d))
<1>1. Unevicted(d)' = Unevicted(d) \ {m}
  BY DEF Unevicted, Referrers, Cached
<1>2. m \in Unevicted(d) <=> d \in Refs[m] /\ ~manifests[m].evicted
  BY DEF Unevicted, Referrers, Cached
<1>3. IsFiniteSet(Unevicted(d)) /\ Cardinality(Unevicted(d)) \in Nat
  BY CountsAreNat
<1>4. Cardinality(Unevicted(d) \ {m}) = IF m \in Unevicted(d) THEN Cardinality(Unevicted(d)) - 1
                                        ELSE Cardinality(Unevicted(d))
  BY <1>3, FS_RemoveElement
<1> QED
  BY <1>1, <1>2, <1>4

LEMMA ManifestLeaves ==
  ASSUME Typed, UnevictedCounted, NEW m \in Manifests, manifests[m] # None, pc = "loop",
         pc' \in {"spill", "untag"}, cur'.todo = Refs[m], cur'.old = manifests[m].evicted,
         manifests'[m] = None \/ manifests'[m].evicted,
         \A n \in Manifests \ {m} : manifests'[n] = manifests[n],
         UNCHANGED bk
  PROVE  UnevictedCounted'
<1>1. manifests[m].evicted \in BOOLEAN
  BY Entries DEF Typed
<1>2. ASSUME NEW d \in Digests, bk[d] # None
      PROVE  bk[d].unevicted = Cardinality(Unevicted(d)') + Unreleased(d)'
  <2>1. bk[d].unevicted = Cardinality(Unevicted(d)) + Unreleased(d)
    BY <1>2 DEF UnevictedCounted, Counted
  <2>2. Unreleased(d) = 0
    BY DEF Unreleased
  <2>3. Unreleased(d)' = IF d \in Refs[m] /\ ~manifests[m].evicted THEN 1 ELSE 0
    BY DEF Unreleased
  <2>4. Cardinality(Unevicted(d)')
           = IF d \in Refs[m] /\ ~manifests[m].evicted THEN Cardinality(Unevicted(d)) - 1
             ELSE Cardinality(Unevicted(d))
    BY UnevictedLeaves
  <2>5. Cardinality(Unevicted(d)) \in Nat
    BY CountsAreNat
  <2> QED
    BY <2>1, <2>2, <2>3, <2>4, <2>5
<1> QED
  BY <1>2 DEF UnevictedCounted

\* One digest is released, by a spill or by a drop.
LEMMA DigestReleased ==
  ASSUME Typed, UnevictedCounted, NEW d \in Digests, UNCHANGED manifests,
         pc \in {"spill", "drop"}, pc' \in {"spill", "writeBlob", "drop"}, d \in cur.todo,
         cur.old \in BOOLEAN,
         cur'.todo = cur.todo \ {d}, cur'.old = cur.old,
         bk[d] = None => bk'[d] = None,
         bk[d] # None => bk[d] \in BlobBk /\ bk'[d].unevicted = Released(bk[d], cur.old).unevicted,
         \A e \in Digests \ {d} : bk'[e] = bk[e]
  PROVE  UnevictedCounted'
<1>1. \A e \in Digests : Unevicted(e)' = Unevicted(e)
  BY DEF Unevicted, Referrers, Cached
<1>2. Unreleased(d) = (IF cur.old THEN 0 ELSE 1) /\ Unreleased(d)' = 0
  BY DEF Unreleased
<1>3. \A e \in Digests \ {d} : Unreleased(e)' = Unreleased(e)
  BY DEF Unreleased
<1>4. pc \in Counted
  BY DEF Counted
<1>5. ASSUME bk[d] # None
      PROVE  bk'[d].unevicted = Cardinality(Unevicted(d))
  <2>1. bk[d].unevicted = Cardinality(Unevicted(d)) + Unreleased(d)
    BY <1>4, <1>5 DEF UnevictedCounted
  <2>2. Released(bk[d], cur.old).unevicted
          = IF cur.old \/ bk[d].unevicted = 0 THEN bk[d].unevicted ELSE bk[d].unevicted - 1
    BY <1>5, ReleasedType
  <2>3. Cardinality(Unevicted(d)) \in Nat
    BY CountsAreNat
  <2> QED
    BY <1>2, <1>5, <2>1, <2>2, <2>3
<1>6. ASSUME NEW e \in Digests, bk'[e] # None
      PROVE  bk'[e].unevicted = Cardinality(Unevicted(e)') + Unreleased(e)'
  <2>1. CASE e = d
    <3>1. Cardinality(Unevicted(d)) \in Nat
      BY CountsAreNat
    <3> QED
      BY <1>1, <1>2, <1>5, <1>6, <2>1, <3>1
  <2>2. CASE e # d
    BY <1>1, <1>3, <1>4, <1>6, <2>2 DEF UnevictedCounted
  <2> QED
    BY <2>1, <2>2
<1> QED
  BY <1>6 DEF UnevictedCounted

LEMMA UnevictedStep ==
  ASSUME Typed, UnevictedCounted, Pass \/ Rest
  PROVE  UnevictedCounted'
<1>1. CASE ScanManifests
  <2>1. /\ pc' = "redis" /\ UNCHANGED manifests
        /\ \A d \in Digests : bk'[d] = IF bk[d] = None THEN None ELSE Counts(d)
    BY <1>1 DEF ScanManifests, shared
  <2>2. \A d \in Digests : Unevicted(d)' = Unevicted(d)
    BY <2>1 DEF Unevicted, Referrers, Cached
  <2>3. \A d \in Digests : Unreleased(d)' = 0
    BY <2>1 DEF Unreleased
  <2>4. \A d \in Digests : Counts(d).unevicted = Cardinality(Unevicted(d))
    BY DEF Counts
  <2>5. \A d \in Digests : Cardinality(Unevicted(d)) \in Nat
    BY CountsAreNat
  <2> QED
    BY <2>1, <2>2, <2>3, <2>4, <2>5 DEF UnevictedCounted
<1>2. CASE \E h \in DOMAIN heaps : \E c \in heaps[h] : DropManifest(h, c)
  <2>1. PICK h \in DOMAIN heaps : \E c \in heaps[h] : DropManifest(h, c)
    BY <1>2
  <2>2. PICK c \in heaps[h] : DropManifest(h, c)
    BY <2>1
  <2>3. /\ pc = "loop" /\ pc' = "untag" /\ c.item \in Manifests /\ manifests[c.item] # None
        /\ cur' = [todo |-> Refs[c.item], candidate |-> c, old |-> manifests[c.item].evicted]
        /\ manifests' = [manifests EXCEPT ![c.item] = None] /\ UNCHANGED bk
    BY <2>2, DropManifestFacts
  <2>4. manifests'[c.item] = None /\ \A n \in Manifests \ {c.item} : manifests'[n] = manifests[n]
    BY <2>3 DEF Typed
  <2>5. cur'.todo = Refs[c.item] /\ cur'.old = manifests[c.item].evicted
    BY <2>3
  <2> QED
    BY <2>3, <2>4, <2>5, ManifestLeaves
<1>3. CASE \E c \in heaps["large"] : SpillManifest(c)
  <2>1. PICK c \in heaps["large"] : SpillManifest(c)
    BY <1>3
  <2>2. /\ pc = "loop" /\ pc' = "spill" /\ c.item \in Manifests /\ manifests[c.item] # None
        /\ cur' = [todo |-> Refs[c.item], candidate |-> c, old |-> manifests[c.item].evicted]
        /\ manifests'[c.item].evicted /\ \A n \in Manifests \ {c.item} : manifests'[n] = manifests[n]
        /\ UNCHANGED bk
    BY <2>1, SpillManifestFacts
  <2>3. cur'.todo = Refs[c.item] /\ cur'.old = manifests[c.item].evicted
    BY <2>2
  <2> QED
    BY <2>2, <2>3, ManifestLeaves
<1>4. CASE \E d \in Digests : SpillRef(d)
  <2>1. PICK d \in Digests : SpillRef(d)
    BY <1>4
  <2>2. cur.old \in BOOLEAN /\ pc' \in {"spill", "writeBlob"}
    BY <2>1, SpillRefFacts
  <2> QED
    BY <2>1, <2>2, SpillRefFacts, DigestReleased
<1>5. CASE \E d \in Digests : DropRef(d)
  <2>1. PICK d \in Digests : DropRef(d)
    BY <1>5
  <2>2. cur.old \in BOOLEAN
    BY <2>1, DropRefFacts
  <2> QED
    BY <2>1, <2>2, DropRefFacts, DigestReleased
<1>6. CASE ScanBlobs \/ Publish \/ WriteFails
  <2>1. pc' \notin Counted
    BY <1>6 DEF ScanBlobs, Publish, WriteFails, Counted
  <2> QED
    BY <2>1 DEF UnevictedCounted
<1>7. CASE Rest
  <2>1. UNCHANGED <<manifests, bk, pc, cur>>
    BY <1>7 DEF Rest, shared, local
  <2>2. \A d \in Digests : Unreleased(d)' = Unreleased(d)
    BY <2>1 DEF Unreleased
  <2>3. CASE pc \in Counted
    BY <2>1, <2>2, <2>3, UnevictedRest
  <2>4. CASE pc \notin Counted
    BY <2>1, <2>4 DEF UnevictedCounted
  <2> QED
    BY <2>3, <2>4
<1>8. CASE SpillBlobWritten \/ SpillManifestDone \/ Untag \/ DropDone
  <2>1. pc \in Counted /\ UNCHANGED <<manifests, bk>>
    BY <1>8 DEF SpillBlobWritten, SpillManifestDone, Untag, DropDone, Counted, shared
  <2>2. \A d \in Digests : Unreleased(d)' = Unreleased(d)
    BY <1>8 DEF SpillBlobWritten, SpillManifestDone, Untag, DropDone, Unreleased
  <2> QED
    BY <2>1, <2>2, UnevictedRest
<1>9. CASE \/ ScanRedis \/ SpillRedisWritten \/ LoopEnds
           \/ \E h \in DOMAIN heaps : \E c \in heaps[h] : Skip(h, c) \/ DropRedis(h, c)
           \/ \E c \in heaps["large"] : SpillRedis(c)
           \/ \E d \in Digests : Sweep(d)
  <2>1. /\ pc \in Counted /\ pc \notin {"spill", "writeBlob", "untag", "drop"}
        /\ pc' \notin {"spill", "writeBlob", "untag", "drop"}
        /\ UNCHANGED <<manifests, bk>>
    BY <1>9 DEF ScanRedis, SpillRedisWritten, LoopEnds, Skip, DropRedis, SpillRedis, Sweep, Pops, Counted, shared
  <2>2. \A d \in Digests : Unreleased(d)' = Unreleased(d)
    BY <2>1 DEF Unreleased
  <2> QED
    BY <2>1, <2>2, UnevictedRest
<1> QED
  BY <1>1, <1>2, <1>3, <1>4, <1>5, <1>6, <1>7, <1>8, <1>9 DEF Pass

-----------------------------------------------------------------------------
(***************************************************************************)
(* What leaves the heaps, and that sums and pools only shrink.             *)
(***************************************************************************)
Heaps == {"small", "large", "disk"}

\* A step that pops a candidate of a redis entry or of a manifest that is gone.
LEMMA PoppedAlone ==
  ASSUME Typed, NEW h \in DOMAIN heaps, NEW c, Pops(h, c), heaps' = Popped(h, c), UNCHANGED manifests,
         c.kind = "redis" \/ manifests[c.item] = None
  PROVE  /\ \A g \in Heaps : \A e \in heaps[g] : e.kind = "manifest" /\ manifests'[e.item] # None => e \in heaps'[g]
         /\ heaps'["small"] \subseteq heaps["small"]
<1>1. /\ Popped(h, c)[h] = heaps[h] \ {c} /\ h \in Heaps
      /\ \A g \in Heaps \ {h} : Popped(h, c)[g] = heaps[g]
  BY PopsFacts DEF Heaps
<1> QED
  BY <1>1 DEF Heaps

LEMMA CandidatesFrame ==
  ASSUME Typed, Pass \/ Rest, pc' \in Counted, ~ScanManifests
  PROVE  /\ \A h \in Heaps : \A e \in heaps[h] :
              e.kind = "manifest" /\ manifests'[e.item] # None =>
                e \in heaps'[h] \/ (h = "large" /\ SpillManifest(e))
         /\ \A e \in heaps'["small"] : e \in heaps["small"] \/ (pc = "redis" /\ e.kind = "redis")
<1>0. heaps \in [Heaps -> SUBSET (ManifestItem \cup RedisItem)] /\ "large" \in DOMAIN heaps
  BY DEF Typed, PassOK, Heaps
<1>1. CASE \E h \in DOMAIN heaps : \E c \in heaps[h] : DropManifest(h, c)
  <2>1. PICK h \in DOMAIN heaps : \E c \in heaps[h] : DropManifest(h, c)
    BY <1>1
  <2>2. PICK c \in heaps[h] : DropManifest(h, c)
    BY <2>1
  <2>3. /\ c.item \in Manifests /\ manifests' = [manifests EXCEPT ![c.item] = None]
        /\ heaps'[h] = heaps[h] \ {c}
        /\ \A g \in Heaps \ {h} : heaps'[g] = heaps[g]
    BY <2>2, DropManifestFacts DEF Heaps
  <2>4. manifests'[c.item] = None
    BY <2>3 DEF Typed
  <2> QED
    BY <1>0, <2>3, <2>4 DEF Heaps
<1>2. CASE \E c \in heaps["large"] : SpillManifest(c)
  <2>1. PICK c \in heaps["large"] : SpillManifest(c)
    BY <1>2
  <2>2. /\ heaps'["large"] = heaps["large"] \ {c}
        /\ heaps'["small"] = heaps["small"] /\ heaps'["disk"] = heaps["disk"]
    BY <2>1, SpillManifestFacts
  <2> QED
    BY <2>1, <2>2 DEF Heaps
<1>3. CASE \E h \in DOMAIN heaps : \E c \in heaps[h] : Skip(h, c) \/ DropRedis(h, c)
  <2>1. PICK h \in DOMAIN heaps : \E c \in heaps[h] : Skip(h, c) \/ DropRedis(h, c)
    BY <1>3
  <2>2. PICK c \in heaps[h] : Skip(h, c) \/ DropRedis(h, c)
    BY <2>1
  <2>3. /\ Pops(h, c) /\ heaps' = Popped(h, c) /\ UNCHANGED manifests
        /\ c.kind = "redis" \/ manifests[c.item] = None
    BY <2>2 DEF Skip, DropRedis, shared
  <2> QED
    BY <2>3, PoppedAlone
<1>4. CASE \E c \in heaps["large"] : SpillRedis(c)
  <2>1. PICK c \in heaps["large"] : SpillRedis(c)
    BY <1>4
  <2>2. Pops("large", c) /\ heaps' = Popped("large", c) /\ UNCHANGED manifests /\ c.kind = "redis"
    BY <2>1 DEF SpillRedis, shared
  <2> QED
    BY <1>0, <2>2, PoppedAlone
<1>5. CASE ScanRedis
  <2>1. /\ pc = "redis"
        /\ heaps' = [heaps EXCEPT !["small"] = @ \cup RedisCandidates("smallRedis"),
                                  !["large"] = @ \cup RedisCandidates("largeRedis"),
                                  !["disk"]  = @ \cup RedisCandidates("redisDisk")]
    BY <1>5 DEF ScanRedis
  <2>2. \A e \in RedisCandidates("smallRedis") : e.kind = "redis"
    BY DEF RedisCandidates, RedisCandidate
  <2> QED
    BY <1>0, <2>1, <2>2 DEF Heaps
<1>6. CASE SpillRedisWritten \/ SpillManifestDone
  <2>1. PICK c : heaps' = [heaps EXCEPT !["disk"] = @ \cup {c}]
    BY <1>6 DEF SpillRedisWritten, SpillManifestDone
  <2> QED
    BY <1>0, <2>1 DEF Heaps
<1>7. CASE UNCHANGED heaps
  BY <1>7
<1>8. CASE Rest
  BY <1>8 DEF Rest, local
<1>9. CASE \/ SpillBlobWritten \/ Untag \/ DropDone \/ LoopEnds
           \/ \E d \in Digests : SpillRef(d) \/ DropRef(d) \/ Sweep(d)
  BY <1>7, <1>9 DEF SpillBlobWritten, Untag, DropDone, LoopEnds, SpillRef, DropRef, Sweep
<1>10. ~ScanBlobs /\ ~Publish /\ ~WriteFails
  BY DEF ScanBlobs, Publish, WriteFails, Counted
<1> QED
  BY <1>1, <1>2, <1>3, <1>4, <1>5, <1>6, <1>8, <1>9, <1>10 DEF Pass

\* Lists persist: a cached manifest leaves a heap only to be spilled.
LEMMA ListedKept ==
  ASSUME Typed, Pass \/ Rest, pc' \in Counted, ~ScanManifests, NEW m \in Manifests, NEW h \in Heaps,
         Listed(m, h), manifests'[m] # None
  PROVE  Listed(m, h)' \/ (h = "large" /\ \E c \in heaps["large"] : SpillManifest(c) /\ c.item = m)
<1>1. PICK e \in heaps[h] : e.kind = "manifest" /\ e.item = m
  BY DEF Listed
<1>2. e \in heaps'[h] \/ (h = "large" /\ SpillManifest(e))
  BY <1>1, CandidatesFrame
<1> QED
  BY <1>1, <1>2 DEF Listed

\* No manifest appears, and none is unmarked.
LEMMA ManifestsKept ==
  ASSUME Typed, Pass \/ Rest, NEW m \in Manifests, manifests'[m] # None
  PROVE  /\ manifests[m] # None /\ manifests'[m].used = manifests[m].used
         /\ manifests[m].evicted => manifests'[m].evicted
<1>1. CASE \E h \in DOMAIN heaps : \E c \in heaps[h] : DropManifest(h, c)
  <2>1. PICK h \in DOMAIN heaps : \E c \in heaps[h] : DropManifest(h, c)
    BY <1>1
  <2>2. PICK c \in heaps[h] : DropManifest(h, c)
    BY <2>1
  <2>3. c.item \in Manifests /\ manifests' = [manifests EXCEPT ![c.item] = None]
    BY <2>2, DropManifestFacts
  <2> QED
    BY <2>3 DEF Typed
<1>2. CASE \E c \in heaps["large"] : SpillManifest(c)
  BY <1>2, SpillManifestFacts
<1>3. CASE UNCHANGED manifests
  BY <1>3
<1> QED
  BY <1>1, <1>2, <1>3, ManifestsFrame DEF Rest, shared

LEMMA ReferrersKept ==
  ASSUME Typed, Pass \/ Rest
  PROVE  Cached' \subseteq Cached /\ \A d \in Digests : Referrers(d)' \subseteq Referrers(d)
BY ManifestsKept DEF Cached, Referrers

\* The pass forgets no tier.
LEMMA TiersKept ==
  ASSUME Typed, Pass \/ Rest, pc \in Counted, pc' \in Counted, NEW d \in Digests
  PROVE  /\ bk'[d] = None <=> bk[d] = None
         /\ bk[d] # None => bk'[d].tier = bk[d].tier
<1>1. ~ScanBlobs /\ ~ScanManifests /\ ~Publish
  BY DEF ScanBlobs, ScanManifests, Publish, Counted
<1>2. CASE UNCHANGED bk
  BY <1>2
<1>3. CASE \E e \in Digests : SpillRef(e)
  <2>1. PICK e \in Digests : SpillRef(e)
    BY <1>3
  <2>2. /\ bk[e] = None => bk'[e] = None
        /\ bk[e] # None => bk'[e] # None /\ bk'[e].tier = bk[e].tier
        /\ \A f \in Digests \ {e} : bk'[f] = bk[f]
    BY <2>1, SpillRefFacts, ReleasedRefs
  <2> QED
    BY <2>2
<1>4. CASE \E e \in Digests : DropRef(e)
  <2>1. PICK e \in Digests : DropRef(e)
    BY <1>4
  <2>2. /\ bk[e] = None => bk'[e] = None
        /\ bk[e] # None => bk'[e] # None /\ bk'[e].tier = bk[e].tier
        /\ \A f \in Digests \ {e} : bk'[f] = bk[f]
    BY <2>1, DropRefFacts
  <2> QED
    BY <2>2
<1> QED
  BY <1>1, <1>2, <1>3, <1>4, BkFrame DEF Rest, local

LEMMA ReferringKept ==
  ASSUME Typed, Pass \/ Rest, pc \in Counted, pc' \in Counted, NEW t
  PROVE  Referring(t)' \subseteq Referring(t)
<1>1. SUFFICES ASSUME NEW m \in Cached', NEW d \in Refs[m], bk'[d] # None, bk'[d].tier = t
               PROVE  m \in Referring(t)
  BY DEF Referring
<1>2. m \in Manifests /\ m \in Cached /\ d \in Digests
  BY <1>1, ReferrersKept, Constants DEF Cached
<1>3. bk[d] # None /\ bk[d].tier = t
  BY <1>1, <1>2, TiersKept
<1> QED
  BY <1>1, <1>2, <1>3 DEF Referring

InMemory == {"manifest", "smallBlob", "largeBlob", "smallRedis", "largeRedis"}

LEMMA MonusFalls ==
  ASSUME NEW u \in Amounts, NEW b, NEW n \in Nat, NEW c \in Buckets
  PROVE  Monus(u, b, n)[c] = IF c = b THEN (IF u[c] < n THEN 0 ELSE u[c] - n) ELSE u[c]
BY DEF Monus, Amounts

LEMMA SumsFall ==
  ASSUME Typed, Pass \/ Rest, pc \in Evicting, pc' \in Evicting
  PROVE  \A b \in InMemory : sums'[b] <= sums[b]
<1>0. sums \in Amounts /\ InMemory \subseteq Buckets /\ \A b \in Buckets : sums[b] \in Nat
  BY DEF Typed, Amounts, InMemory, Buckets
<1>1. CASE UNCHANGED sums
  BY <1>0, <1>1
<1>2. CASE \E h \in DOMAIN heaps : \E c \in heaps[h] : DropRedis(h, c)
  <2>1. PICK h \in DOMAIN heaps : \E c \in heaps[h] : DropRedis(h, c)
    BY <1>2
  <2>2. PICK c \in heaps[h] : DropRedis(h, c)
    BY <2>1
  <2>3. Pops(h, c) /\ c.kind = "redis" /\ sums' = Monus(sums, IF h = "small" THEN "smallRedis" ELSE "redisDisk", c.size)
    BY <2>2 DEF DropRedis
  <2>4. c.size \in Nat
    BY <2>3, PopsFacts, ItemFacts, Constants
  <2> QED
    BY <1>0, <2>3, <2>4, MonusFalls
<1>3. CASE \E h \in DOMAIN heaps : \E c \in heaps[h] : DropManifest(h, c)
  <2>1. sums' = Monus(sums, "manifest", ManifestSize)
    BY <1>3 DEF DropManifest
  <2> QED
    BY <1>0, <2>1, MonusFalls, Constants
<1>4. CASE SpillRedisWritten
  <2>1. PICK n : sums' = [Monus(sums, "largeRedis", n) EXCEPT !["redisDisk"] = @ + n] /\ n \in Nat
    BY <1>4, Constants DEF SpillRedisWritten, Typed, PassOK, RedisItem
  <2>2. \A b \in InMemory : sums'[b] = Monus(sums, "largeRedis", n)[b]
    BY <1>0, <2>1 DEF InMemory, Monus, Amounts
  <2> QED
    BY <1>0, <2>1, <2>2, MonusFalls
<1>5. CASE SpillBlobWritten
  <2>1. PICK n : sums' = [Monus(sums, "largeBlob", n) EXCEPT !["blobDisk"] = @ + n] /\ n \in Nat
    BY <1>5, SpillBlobWrittenFacts, Constants
  <2>2. \A b \in InMemory : sums'[b] = Monus(sums, "largeBlob", n)[b]
    BY <1>0, <2>1 DEF InMemory, Monus, Amounts
  <2> QED
    BY <1>0, <2>1, <2>2, MonusFalls
<1>6. CASE \E d \in Digests : DropRef(d)
  <2>1. PICK d \in Digests : DropRef(d)
    BY <1>6
  <2>2. sums' = Monus(sums, BlobBucket(d, blobs[d].tier), BlobSize[d]) \/ UNCHANGED sums
    BY <2>1, DropRefFacts
  <2>3. BlobSize[d] \in Nat
    BY Constants
  <2> QED
    BY <1>0, <1>1, <2>2, <2>3, MonusFalls
<1>7. CASE \/ SpillManifestDone \/ Untag \/ DropDone \/ LoopEnds \/ Rest
           \/ \E h \in DOMAIN heaps : \E c \in heaps[h] : Skip(h, c)
           \/ \E c \in heaps["large"] : SpillRedis(c) \/ SpillManifest(c)
           \/ \E d \in Digests : SpillRef(d) \/ Sweep(d)
  BY <1>1, <1>7 DEF SpillManifestDone, Untag, DropDone, LoopEnds, Skip, SpillRedis, SpillManifest, SpillRef,
     Sweep, Rest, local
<1>8. ~ScanBlobs /\ ~ScanManifests /\ ~ScanRedis /\ ~Publish /\ ~WriteFails
  BY DEF ScanBlobs, ScanManifests, ScanRedis, Publish, WriteFails, Evicting, Counted
<1> QED
  BY <1>2, <1>3, <1>4, <1>5, <1>6, <1>7, <1>8 DEF Pass

LEMMA PoolsShrink ==
  ASSUME Typed, Pass \/ Rest, pc \in Evicting, pc' \in Evicting
  PROVE  /\ Memory(sums') > Target(MemoryLimit) => Memory(sums) > Target(MemoryLimit)
         /\ PopsSmall' => PopsSmall
<1>1. /\ sums \in Amounts /\ sums' \in Amounts
      /\ \A b \in InMemory : sums[b] \in Nat /\ sums'[b] \in Nat /\ sums'[b] <= sums[b]
  <2>1. sums \in Amounts /\ sums' \in Amounts
    <3>1. CASE Pass
      BY <3>1, NextTyped DEF Next, Typed, Amounts
    <3>2. CASE Rest
      BY <3>2 DEF Rest, local, Typed, Amounts
    <3> QED
      BY <3>1, <3>2
  <2> QED
    BY <2>1, SumsFall DEF Amounts, InMemory, Buckets
<1>2. Target(MemoryLimit) \in Int /\ Target(SmallLimit) \in Int
  BY Constants DEF Target
<1>3. Small(sums') <= Small(sums) /\ Memory(sums') <= Memory(sums) /\ Small(sums) \in Int /\ Small(sums') \in Int
      /\ Memory(sums) \in Int /\ Memory(sums') \in Int
  BY <1>1 DEF Small, Memory, InMemory
<1>4. heaps'["small"] # {} => heaps["small"] # {}
  BY CandidatesFrame DEF Evicting, Counted, ScanManifests
<1> QED
  BY <1>2, <1>3, <1>4 DEF PopsSmall

-----------------------------------------------------------------------------
(***************************************************************************)
(* The manifests' candidates.                                              *)
(***************************************************************************)
LEMMA SpillingSteps ==
  ASSUME Pass, pc \in {"spill", "writeBlob"}
  PROVE  SpillBlobWritten \/ SpillManifestDone \/ WriteFails \/ \E d \in Digests : SpillRef(d)
<1>1. ~ScanBlobs /\ ~ScanManifests /\ ~ScanRedis /\ ~SpillRedisWritten
  BY DEF ScanBlobs, ScanManifests, ScanRedis, SpillRedisWritten
<1>2. \A h, c : ~Skip(h, c) /\ ~DropRedis(h, c) /\ ~DropManifest(h, c) /\ ~SpillRedis(c) /\ ~SpillManifest(c)
  BY DEF Skip, DropRedis, DropManifest, SpillRedis, SpillManifest, Pops
<1>3. ~Untag /\ ~DropDone /\ ~LoopEnds /\ ~Publish /\ \A d \in Digests : ~DropRef(d) /\ ~Sweep(d)
  BY DEF Untag, DropDone, LoopEnds, Publish, DropRef, Sweep
<1> QED
  BY <1>1, <1>2, <1>3 DEF Pass

\* A manifest is being spilled until it is a candidate for the disk.
LEMMA SpillingKept ==
  ASSUME Typed, Pass \/ Rest, pc' \in Counted, NEW m \in Manifests, Spilling(m)
  PROVE  Spilling(m)' \/ Listed(m, "disk")'
<1>1. CASE SpillManifestDone
  <2>1. PICK c \in ManifestItem : c = cur.candidate
    BY <1>1 DEF SpillManifestDone, Typed, PassOK
  <2>2. [c EXCEPT !.spilled = TRUE].kind = "manifest" /\ [c EXCEPT !.spilled = TRUE].item = m
    BY <2>1 DEF ManifestItem, Spilling
  <2>3. [c EXCEPT !.spilled = TRUE] \in heaps'["disk"]
    BY <1>1, <2>1 DEF SpillManifestDone, Typed, PassOK
  <2> QED
    BY <2>2, <2>3 DEF Listed
<1>2. CASE SpillBlobWritten
  BY <1>2, SpillBlobWrittenFacts DEF Spilling
<1>3. CASE \E d \in Digests : SpillRef(d)
  BY <1>3, SpillRefFacts DEF Spilling
<1>4. CASE Rest
  BY <1>4 DEF Rest, local, Spilling
<1>5. ~WriteFails
  BY DEF WriteFails, Counted
<1> QED
  BY <1>1, <1>2, <1>3, <1>4, <1>5, SpillingSteps DEF Spilling

\* What ScanManifests lists.
LEMMA ScanLists ==
  ASSUME Typed, RedisListed, ScanManifests
  PROVE  /\ pc = "manifests" /\ pc' = "redis"
         /\ UNCHANGED <<manifests, blobs>>
         /\ heaps'["small"] = ManifestCandidates(Cached)
         /\ \A m \in Cached : Listed(m, "small")'
         /\ \A m \in Referring("LargeMem") : Listed(m, "large")'
         /\ \A m \in Referring("Disk") : Listed(m, "disk")'
         /\ \A h \in Heaps : \A c \in heaps'[h] : c.kind = "manifest"
         /\ \A d \in Digests : (bk'[d] = None <=> bk[d] = None) /\ (bk[d] # None => bk'[d].tier = bk[d].tier)
<1>1. /\ pc = "manifests" /\ pc' = "redis" /\ UNCHANGED <<manifests, blobs>>
      /\ heaps' = [heaps EXCEPT !["small"] = @ \cup ManifestCandidates(Cached),
                                !["large"] = @ \cup ManifestCandidates(Referring("LargeMem")),
                                !["disk"]  = @ \cup ManifestCandidates(Referring("Disk"))]
      /\ \A d \in Digests : bk'[d] = IF bk[d] = None THEN None ELSE Counts(d)
  BY DEF ScanManifests, shared
<1>2. \A h \in Heaps : heaps[h] = {}
  BY <1>1 DEF RedisListed, Typed, PassOK, Heaps
<1>3. /\ heaps'["small"] = ManifestCandidates(Cached)
      /\ heaps'["large"] = ManifestCandidates(Referring("LargeMem"))
      /\ heaps'["disk"] = ManifestCandidates(Referring("Disk"))
  BY <1>1, <1>2, HeapsType DEF Heaps
<1>4. ASSUME NEW S
      PROVE  /\ \A m \in S : \E c \in ManifestCandidates(S) : c.kind = "manifest" /\ c.item = m
             /\ \A c \in ManifestCandidates(S) : c.kind = "manifest"
  <2>1. \A m \in S : ManifestCandidate(m, FALSE) \in ManifestCandidates(S)
    BY DEF ManifestCandidates
  <2>2. \A m \in S : ManifestCandidate(m, FALSE).kind = "manifest" /\ ManifestCandidate(m, FALSE).item = m
    BY DEF ManifestCandidate
  <2>3. \A c \in ManifestCandidates(S) : \E m \in S : c = ManifestCandidate(m, FALSE)
    BY DEF ManifestCandidates
  <2> QED
    BY <2>1, <2>2, <2>3
<1>5. /\ \A m \in Cached : Listed(m, "small")'
      /\ \A m \in Referring("LargeMem") : Listed(m, "large")'
      /\ \A m \in Referring("Disk") : Listed(m, "disk")'
      /\ \A h \in Heaps : \A c \in heaps'[h] : c.kind = "manifest"
  BY <1>3, <1>4 DEF Listed, Heaps
<1>6. \A d \in Digests : bk[d] # None => Counts(d) # None /\ Counts(d).tier = bk[d].tier
  <2>1. \A d \in Digests : bk[d] # None => Counts(d) \in BlobBk
    BY CountsAreNat DEF Counts, BlobBk, Typed, PassOK
  <2>2. \A d \in Digests : Counts(d).tier = bk[d].tier
    BY DEF Counts
  <2> QED
    BY <2>1, <2>2, NoneAssumption
<1> QED
  BY <1>1, <1>3, <1>5, <1>6

LEMMA SmallListedStep ==
  ASSUME Typed, RedisListed, SmallListed, Pass \/ Rest
  PROVE  SmallListed'
<1>1. CASE ScanManifests
  <2>1. /\ UNCHANGED manifests /\ heaps'["small"] = ManifestCandidates(Cached)
        /\ \A m \in Cached : Listed(m, "small")'
    BY <1>1, ScanLists
  <2>2. Cached' = Cached
    BY <2>1 DEF Cached
  <2>3. \A c \in ManifestCandidates(Cached) : c.time = manifests[c.item].used
    BY DEF ManifestCandidates, ManifestCandidate
  <2> QED
    BY <2>1, <2>2, <2>3 DEF SmallListed
<1>2. CASE ~ScanManifests /\ pc' \in Counted
  <2>1. pc \in Counted
    BY <1>2, PcFrame DEF Rest, local
  <2>2. \A m \in Cached' : Listed(m, "small")'
    <3>1. SUFFICES ASSUME NEW m \in Cached' PROVE Listed(m, "small")'
      OBVIOUS
    <3>2. m \in Manifests /\ m \in Cached /\ manifests'[m] # None
      BY <3>1, ReferrersKept DEF Cached
    <3>3. Listed(m, "small")
      BY <2>1, <3>2 DEF SmallListed
    <3> QED
      BY <1>2, <3>2, <3>3, ListedKept DEF Heaps
  <2>3. ASSUME NEW c \in heaps'["small"], c.kind = "manifest", manifests'[c.item] # None
        PROVE  c.time = manifests'[c.item].used
    <3>1. c \in heaps["small"]
      BY <1>2, <2>3, CandidatesFrame
    <3>2. c.item \in Manifests
      BY <2>3, <3>1, ItemFacts DEF Typed, PassOK
    <3>3. manifests[c.item] # None /\ manifests'[c.item].used = manifests[c.item].used
      BY <2>3, <3>2, ManifestsKept
    <3> QED
      BY <2>1, <2>3, <3>1, <3>3 DEF SmallListed
  <2> QED
    BY <2>2, <2>3 DEF SmallListed
<1>3. CASE pc' \notin Counted
  BY <1>3 DEF SmallListed
<1> QED
  BY <1>1, <1>2, <1>3

LEMMA LargeListedStep ==
  ASSUME Typed, RedisListed, LargeListed, Pass \/ Rest
  PROVE  LargeListed'
<1>1. CASE ScanManifests
  <2>1. /\ UNCHANGED manifests /\ \A m \in Referring("LargeMem") : Listed(m, "large")'
        /\ \A d \in Digests : (bk'[d] = None <=> bk[d] = None) /\ (bk[d] # None => bk'[d].tier = bk[d].tier)
    BY <1>1, ScanLists
  <2>2. Referring("LargeMem")' \subseteq Referring("LargeMem")
    BY <2>1, Constants DEF Referring, Cached
  <2> QED
    BY <2>1, <2>2 DEF LargeListed
<1>2. CASE ~ScanManifests /\ pc' \in Counted
  <2>1. pc \in Counted
    BY <1>2, PcFrame DEF Rest, local
  <2>2. SUFFICES ASSUME NEW m \in Referring("LargeMem")'
                 PROVE  \/ Listed(m, "large")'
                        \/ /\ pc' # "redis" /\ ~PopsSmall'
                           /\ manifests'[m].evicted
                           /\ Listed(m, "disk")' \/ Spilling(m)'
    BY DEF LargeListed
  <2>3. m \in Referring("LargeMem") /\ m \in Manifests /\ manifests'[m] # None
    BY <1>2, <2>1, <2>2, ReferringKept DEF Referring, Cached
  <2>4. CASE Listed(m, "large")
    <3>1. CASE \E c \in heaps["large"] : SpillManifest(c) /\ c.item = m
      <4>1. PICK c \in heaps["large"] : SpillManifest(c) /\ c.item = m
        BY <3>1
      <4>2. /\ Pool = "large" /\ pc' = "spill" /\ cur'.candidate = c /\ manifests'[m].evicted
            /\ heaps'["small"] = heaps["small"] /\ UNCHANGED sums
        BY <4>1, SpillManifestFacts
      <4>3. ~PopsSmall
        BY <4>2 DEF Pool
      <4>4. ~PopsSmall'
        BY <4>2, <4>3 DEF PopsSmall
      <4> QED
        BY <4>1, <4>2, <4>4 DEF Spilling
    <3> QED
      BY <1>2, <2>3, <2>4, <3>1, ListedKept DEF Heaps
  <2>5. CASE ~Listed(m, "large")
    <3>1. /\ pc # "redis" /\ ~PopsSmall /\ manifests[m].evicted
          /\ Listed(m, "disk") \/ Spilling(m)
      BY <2>1, <2>3, <2>5 DEF LargeListed
    <3>2. pc \in Evicting
      BY <2>1, <3>1 DEF Evicting
    <3>3. pc' \in Evicting
      BY <1>2, <3>2, PcFrame DEF Evicting, Rest, local
    <3>4. ~PopsSmall'
      BY <3>1, <3>2, <3>3, PoolsShrink
    <3>5. manifests'[m].evicted
      BY <2>3, <3>1, ManifestsKept
    <3>6. Listed(m, "disk")' \/ Spilling(m)'
      BY <1>2, <2>3, <3>1, ListedKept, SpillingKept DEF Heaps
    <3> QED
      BY <3>3, <3>4, <3>5, <3>6 DEF Evicting
  <2> QED
    BY <2>4, <2>5
<1>3. CASE pc' \notin Counted
  BY <1>3 DEF LargeListed
<1> QED
  BY <1>1, <1>2, <1>3

LEMMA DiskListedStep ==
  ASSUME Typed, RedisListed, BlobsKnown, SpillKnown, LargeListed, DiskListed, Pass \/ Rest
  PROVE  DiskListed'
<1>1. CASE ScanManifests
  <2>1. /\ pc = "manifests" /\ UNCHANGED <<manifests, blobs>>
        /\ \A m \in Referring("Disk") : Listed(m, "disk")'
    BY <1>1, ScanLists
  <2>2. \A m \in Cached', d \in Digests :
          d \in Refs[m] /\ blobs'[d] # None /\ blobs'[d].tier = "Disk" => m \in Referring("Disk")
    BY <2>1 DEF BlobsKnown, BlobTier, Referring, Cached
  <2> QED
    BY <2>1, <2>2 DEF DiskListed
<1>2. CASE ~ScanManifests /\ pc' \in Counted
  <2>1. pc \in Counted
    BY <1>2, PcFrame DEF Rest, local
  <2>2. SUFFICES ASSUME NEW m \in Cached', NEW d \in Digests, d \in Refs[m],
                        blobs'[d] # None, blobs'[d].tier = "Disk"
                 PROVE  \/ Listed(m, "disk")'
                        \/ manifests'[m].evicted /\ Listed(m, "large")'
                        \/ Spilling(m)'
    BY DEF DiskListed
  <2>3. /\ m \in Manifests /\ m \in Cached /\ manifests[m] # None /\ manifests'[m] # None
        /\ manifests[m].evicted => manifests'[m].evicted
    BY <2>2, ReferrersKept, ManifestsKept DEF Cached
  <2>4. SUFFICES \/ Listed(m, "disk")
                 \/ manifests[m].evicted /\ Listed(m, "large")
                 \/ Spilling(m)
    <3>1. Listed(m, "disk") => Listed(m, "disk")'
      BY <1>2, <2>3, ListedKept DEF Heaps
    <3>2. Listed(m, "large") => Listed(m, "large")' \/ Spilling(m)'
      <4>1. ASSUME NEW c, SpillManifest(c), c.item = m PROVE Spilling(m)'
        BY <4>1, SpillManifestFacts DEF Spilling
      <4> QED
        BY <1>2, <2>3, <4>1, ListedKept DEF Heaps
    <3>3. Spilling(m) => Spilling(m)' \/ Listed(m, "disk")'
      BY <1>2, <2>3, SpillingKept
    <3> QED
      BY <2>3, <2>4, <3>1, <3>2, <3>3
  <2>5. CASE blobs[d] # None /\ blobs[d].tier = "Disk"
    BY <2>1, <2>2, <2>3, <2>5 DEF DiskListed
  <2>6. CASE ~(blobs[d] # None /\ blobs[d].tier = "Disk")
    <3>1. blobs'[d] # blobs[d] /\ blobs'[d] # None
      BY <2>2, <2>6
    <3>2. ~\E e \in Digests : DropRef(e) \/ Sweep(e)
      <4>1. ASSUME NEW e \in Digests, DropRef(e) PROVE FALSE
        <5>1. \/ blobs' = [blobs EXCEPT ![e] = None]
              \/ UNCHANGED blobs
          BY <4>1, DropRefFacts
        <5> QED
          BY <3>1, <5>1 DEF Typed
      <4>2. ASSUME NEW e \in Digests, Sweep(e) PROVE FALSE
        BY <3>1, <4>2, SweepFacts
      <4> QED
        BY <4>1, <4>2
    <3>3. SpillBlobWritten
      BY <3>1, <3>2, BlobsFrame DEF Rest, shared
    <3>4. pc = "writeBlob" /\ d = cur.digest
      BY <3>1, <3>3, SpillBlobWrittenFacts
    <3>5. blobs[d] # None /\ blobs[d].tier = "Mem" /\ BlobSize[d] > Threshold /\ Unevicted(d) = {}
      BY <3>4 DEF SpillKnown
    <3>6. bk[d] # None /\ bk[d].tier = "LargeMem"
      BY <2>1, <3>5 DEF BlobsKnown, BlobTier
    <3>7. m \in Referring("LargeMem")
      BY <2>2, <2>3, <3>6 DEF Referring
    <3>8. manifests[m].evicted
      BY <2>2, <2>3, <3>5 DEF Unevicted, Referrers
    <3> QED
      BY <2>1, <3>7, <3>8 DEF LargeListed
  <2> QED
    BY <2>5, <2>6
<1>3. CASE pc' \notin Counted
  BY <1>3 DEF DiskListed
<1> QED
  BY <1>1, <1>2, <1>3

\* The reference that is being released, without it.
LEMMA ReleasedCount ==
  ASSUME Typed, UnevictedCounted, NEW d \in Digests, pc = "spill", d \in cur.todo, bk[d] # None
  PROVE  Released(bk[d], cur.old).unevicted = Cardinality(Unevicted(d))
<1>1. bk[d].unevicted = Cardinality(Unevicted(d)) + Unreleased(d)
  BY DEF UnevictedCounted, Counted
<1>2. Unreleased(d) = IF cur.old THEN 0 ELSE 1
  BY DEF Unreleased
<1>3. bk[d] \in BlobBk /\ cur.old \in BOOLEAN
  BY DEF Typed, PassOK
<1>4. Released(bk[d], cur.old).unevicted
        = IF cur.old \/ bk[d].unevicted = 0 THEN bk[d].unevicted ELSE bk[d].unevicted - 1
  BY <1>3, ReleasedType
<1>5. Cardinality(Unevicted(d)) \in Nat
  BY CountsAreNat
<1> QED
  BY <1>1, <1>2, <1>3, <1>4, <1>5

\* A large blob in memory was one before.
LEMMA LargeBefore ==
  ASSUME Typed, Pass \/ Rest, NEW d \in Digests, blobs'[d] # None, BlobTier(d, blobs'[d]) = "LargeMem"
  PROVE  blobs[d] = blobs'[d]
<1>1. blobs'[d].tier # "Disk"
  BY DEF BlobTier
<1>2. CASE SpillBlobWritten
  BY <1>1, <1>2, SpillBlobWrittenFacts
<1>3. CASE \E e \in Digests : DropRef(e)
  <2>1. PICK e \in Digests : DropRef(e)
    BY <1>3
  <2>2. blobs' = [blobs EXCEPT ![e] = None] \/ UNCHANGED blobs
    BY <2>1, DropRefFacts
  <2> QED
    BY <2>2 DEF Typed
<1>4. CASE \E e \in Digests : Sweep(e)
  BY <1>4, SweepFacts
<1>5. CASE UNCHANGED blobs
  BY <1>5
<1> QED
  BY <1>2, <1>3, <1>4, <1>5, BlobsFrame DEF Rest, shared

LEMMA LargeCoveredStep ==
  ASSUME Typed, RedisListed, BlobsKnown, SpillKnown, UnevictedCounted, LargeListed, LargeCovered, Pass \/ Rest
  PROVE  LargeCovered'
<1>1. SUFFICES ASSUME pc' \in Counted, pc' = "redis" \/ Memory(sums') > Target(MemoryLimit),
                      NEW d \in Digests, blobs'[d] # None, Needed(d)', BlobTier(d, blobs'[d]) = "LargeMem"
               PROVE  ToSpill(d)' \/ \E m \in Referrers(d)' : Listed(m, "large")'
  BY DEF LargeCovered, BlobTier
<1>2. blobs[d] = blobs'[d] /\ blobs[d] # None /\ BlobTier(d, blobs[d]) = "LargeMem" /\ blobs[d].tier = "Mem"
  BY <1>1, LargeBefore, Entries DEF Typed, BlobTier
<1>3. PICK r \in Referrers(d)' : TRUE
  BY <1>1 DEF Needed
<1>4. r \in Referrers(d) /\ r \in Manifests /\ r \in Cached /\ manifests'[r] # None /\ d \in Refs[r]
  BY <1>3, ReferrersKept DEF Referrers, Cached
<1>5. pc \in Counted \cup {"manifests"} => bk[d] # None /\ bk[d].tier = "LargeMem"
  BY <1>2 DEF BlobsKnown
<1>6. CASE ScanManifests
  <2>1. pc = "manifests" /\ \A m \in Referring("LargeMem") : Listed(m, "large")'
    BY <1>6, ScanLists
  <2>2. r \in Referring("LargeMem")
    BY <1>4, <1>5, <2>1 DEF Referring
  <2> QED
    BY <1>3, <2>1, <2>2
<1>7. CASE ~ScanManifests
  <2>1. pc \in Counted
    BY <1>1, <1>7, PcFrame DEF Rest, local
  <2>2. pc = "redis" \/ Memory(sums) > Target(MemoryLimit)
    <3>1. CASE pc # "redis"
      <4>1. pc \in Evicting
        BY <2>1, <3>1 DEF Evicting
      <4>2. pc' \in Evicting
        BY <1>1, <1>7, <4>1, PcFrame DEF Evicting, Rest, local
      <4> QED
        BY <1>1, <4>1, <4>2, PoolsShrink DEF Evicting
    <3> QED
      BY <3>1
  <2>3. ToSpill(d) \/ \E m \in Referrers(d) : Listed(m, "large")
    BY <1>2, <1>4, <2>1, <2>2 DEF LargeCovered, Needed
  \* A listed manifest that stays cached stays listed, or is spilled now.
  <2>4. ASSUME NEW m \in Referrers(d), Listed(m, "large"), manifests'[m] # None
        PROVE  ToSpill(d)' \/ \E n \in Referrers(d)' : Listed(n, "large")'
    <3>1. m \in Manifests /\ m \in Referrers(d)' /\ d \in Refs[m]
      BY <2>4 DEF Referrers, Cached
    <3>2. ASSUME NEW c, SpillManifest(c), c.item = m PROVE ToSpill(d)'
      <4>1. pc' = "spill" /\ cur'.todo = Refs[m]
        BY <3>2, SpillManifestFacts
      <4> QED
        BY <3>1, <4>1 DEF ToSpill
    <3> QED
      BY <1>1, <1>7, <2>4, <3>1, <3>2, ListedKept DEF Heaps
  <2>5. CASE ToSpill(d)
    <3>1. CASE Rest
      BY <2>5, <3>1 DEF Rest, local, ToSpill
    <3>2. CASE SpillBlobWritten
      <4>1. /\ pc' = "spill" /\ cur'.todo = cur.todo /\ blobs'[cur.digest].tier = "Disk"
        BY <3>2, SpillBlobWrittenFacts
      <4>2. d \in cur.todo
        BY <1>2, <2>5, <4>1 DEF ToSpill
      <4> QED
        BY <4>1, <4>2 DEF ToSpill
    <3>3. CASE SpillManifestDone
      BY <2>5, <3>3 DEF SpillManifestDone, ToSpill
    <3>4. CASE \E e \in Digests : SpillRef(e)
      <4>1. PICK e \in Digests : SpillRef(e)
        BY <3>4
      <4>2. /\ pc = "spill" /\ e \in cur.todo /\ pc' \in {"spill", "writeBlob"} /\ cur'.todo = cur.todo \ {e}
            /\ pc' = "writeBlob" => cur'.digest = e
            /\ pc' = "spill" => ~Spillable(e)
            /\ UNCHANGED <<manifests, heaps>>
        BY <4>1, SpillRefFacts
      <4>3. CASE e # d \/ pc' = "writeBlob"
        BY <2>5, <4>2, <4>3 DEF ToSpill
      <4>4. CASE e = d /\ pc' = "spill"
        <5>1. Released(bk[d], cur.old).unevicted # 0
          BY <1>2, <1>5, <2>1, <4>2, <4>4 DEF Spillable
        <5>2. Cardinality(Unevicted(d)) # 0
          BY <1>5, <2>1, <4>2, <4>4, <5>1, ReleasedCount
        <5>3. PICK n \in Unevicted(d) : TRUE
          BY <5>2, FS_EmptySet
        <5>4. n \in Referrers(d) /\ n \in Referring("LargeMem") /\ ~manifests[n].evicted /\ manifests[n] # None
          BY <1>5, <2>1, <5>3 DEF Unevicted, Referrers, Referring, Cached
        <5>5. Listed(n, "large")
          BY <2>1, <5>4 DEF LargeListed
        <5> QED
          BY <2>4, <4>2, <5>4, <5>5
      <4> QED
        BY <4>2, <4>3, <4>4
    <3>5. ~WriteFails
      BY <1>1 DEF WriteFails, Counted
    <3> QED
      BY <2>5, <3>1, <3>2, <3>3, <3>4, <3>5, SpillingSteps DEF ToSpill
  <2>6. CASE ~ToSpill(d)
    <3>1. PICK m \in Referrers(d) : Listed(m, "large")
      BY <2>3, <2>6
    <3>2. CASE manifests'[m] # None
      BY <2>4, <3>1, <3>2
    <3>3. CASE manifests'[m] = None
      <4>1. \E h \in DOMAIN heaps : \E c \in heaps[h] : DropManifest(h, c)
        <5>1. manifests[m] # None /\ m \in Manifests
          BY <3>1 DEF Referrers, Cached
        <5> QED
          BY <3>3, <5>1, ManifestsFrame, SpillManifestFacts DEF Rest, shared
      <4>2. PICK h \in DOMAIN heaps : \E c \in heaps[h] : DropManifest(h, c)
        BY <4>1
      <4>3. h \in {"small", "disk"} /\ Pool = h /\ pc = "loop"
        BY <4>2, DropManifestFacts
      <4>4. CASE h = "small"
        <5>1. PopsSmall
          BY <4>3, <4>4, NoneAssumption DEF Pool
        <5>2. r \in Referring("LargeMem")
          BY <1>4, <1>5, <2>1 DEF Referring
        <5>3. Listed(r, "large")
          BY <2>1, <5>1, <5>2 DEF LargeListed
        <5> QED
          BY <1>4, <2>4, <5>3
      <4>5. CASE h = "disk"
        <5>1. ~PopsSmall /\ ~PopsLarge
          BY <4>3, <4>5, NoneAssumption DEF Pool
        <5>2. heaps["large"] = {}
          BY <2>2, <4>3, <5>1 DEF PopsLarge
        <5> QED
          BY <3>1, <5>2 DEF Listed
      <4> QED
        BY <4>3, <4>4, <4>5
    <3> QED
      BY <3>2, <3>3
  <2> QED
    BY <2>5, <2>6
<1> QED
  BY <1>6, <1>7

-----------------------------------------------------------------------------
(***************************************************************************)
(* The redis entries' candidates.                                          *)
(***************************************************************************)
LEMMA DomainKept ==
  ASSUME Typed, Pass \/ Rest
  PROVE  DOMAIN heaps = Heaps /\ DOMAIN heaps' = Heaps
<1>1. CASE Pass
  <2>1. Typed'
    BY <1>1, NextTyped DEF Next
  <2> QED
    BY <2>1 DEF Typed, PassOK, Heaps
<1>2. CASE Rest
  BY <1>2 DEF Rest, local, Typed, PassOK, Heaps
<1> QED
  BY <1>1, <1>2

LEMMA RedisEntry ==
  ASSUME NEW e \in RedisState(0 .. MaxNow), e # None
  PROVE  /\ HeapOf(e) \in Heaps
         /\ HeapOf(e) = "small" <=> RedisBucket(e) = "smallRedis"
         /\ HeapOf(e) = "large" <=> RedisBucket(e) = "largeRedis"
         /\ HeapOf(e) = "disk" <=> RedisBucket(e) = "redisDisk"
         /\ HeapOf(e) = "disk" <=> e.tier = "Disk"
         /\ HeapOf(e) = "large" <=> e.tier = "Mem" /\ e.size > Threshold
BY Entries DEF HeapOf, RedisBucket, Heaps

\* Steps that take redis entries and their candidates away together.
LEMMA RedisRest ==
  ASSUME Typed, RedisListed, Pass \/ Rest, pc \in Evicting \ {"writeRedis"}, pc' \in Evicting \ {"writeRedis"},
         \A h \in Heaps : \A e \in heaps'[h] : e.kind = "redis" => e \in heaps[h],
         \A h \in Heaps : \A e \in heaps[h] : e.kind = "redis" /\ redis'[e.item] # None => e \in heaps'[h],
         \A k \in Keys : redis'[k] # None => redis'[k] = redis[k]
  PROVE  RedisListed'
<1>1. DOMAIN heaps = Heaps /\ DOMAIN heaps' = Heaps
  BY DomainKept
<1>2. heaps \in [Heaps -> SUBSET (ManifestItem \cup RedisItem)] /\ redis \in [Keys -> RedisState(0 .. MaxNow)]
  BY DEF Typed, PassOK, Heaps
<1>3. ASSUME NEW h \in Heaps, NEW c \in heaps'[h], c.kind = "redis", redis'[c.item] # None
      PROVE  /\ redis'[c.item].size = c.size
             /\ redis'[c.item].acc = c.time
             /\ HeapOf(redis'[c.item]) = h
  <2>1. c \in heaps[h] /\ c.item \in Keys
    BY <1>2, <1>3, ItemFacts
  <2>2. redis'[c.item] = redis[c.item]
    BY <1>3, <2>1
  <2> QED
    BY <1>1, <1>3, <2>1, <2>2 DEF RedisListed
<1>4. ASSUME NEW h \in Heaps, NEW c \in heaps'[h], NEW e \in heaps'[h], c.kind = "redis", e.kind = "redis", c.item = e.item
      PROVE  c = e
  BY <1>1, <1>4 DEF RedisListed
<1>5. ASSUME NEW k \in Keys, redis'[k] # None
      PROVE  \E c \in heaps'[HeapOf(redis'[k])] : c.kind = "redis" /\ c.item = k
  <2>1. redis'[k] = redis[k] /\ redis[k] # None
    BY <1>5
  <2>2. PICK c \in heaps[HeapOf(redis[k])] : c.kind = "redis" /\ c.item = k
    BY <2>1 DEF RedisListed
  <2>3. HeapOf(redis[k]) \in Heaps
    BY <1>2, <2>1, RedisEntry
  <2> QED
    BY <1>5, <2>1, <2>2, <2>3
<1>6. pc' \notin {"manifests", "redis", "writeRedis"}
  BY DEF Evicting, Counted
<1> QED
  BY <1>1, <1>3, <1>4, <1>5, <1>6 DEF RedisListed, HeapOf, RedisBucket

\* What a pop leaves of the heaps.
LEMMA PopLeaves ==
  ASSUME Typed, NEW h \in DOMAIN heaps, NEW c, Pops(h, c), heaps' = Popped(h, c)
  PROVE  /\ pc = "loop" /\ c \in heaps[h] /\ h \in Heaps
         /\ \A g \in Heaps : \A e \in heaps'[g] : e \in heaps[g]
         /\ \A g \in Heaps : \A e \in heaps[g] : e \in heaps'[g] \/ (g = h /\ e = c)
         /\ c \notin heaps'[h]
<1>1. /\ Popped(h, c)[h] = heaps[h] \ {c} /\ h \in Heaps /\ c \in heaps[h] /\ pc = "loop"
      /\ \A g \in Heaps \ {h} : Popped(h, c)[g] = heaps[g]
  BY PopsFacts DEF Heaps
<1> QED
  BY <1>1

LEMMA ScanRedisLists ==
  ASSUME Typed, RedisListed, ScanRedis
  PROVE  RedisListed'
<1>1. /\ pc = "redis" /\ pc' = "loop" /\ UNCHANGED redis
      /\ heaps' = [heaps EXCEPT !["small"] = @ \cup RedisCandidates("smallRedis"),
                                !["large"] = @ \cup RedisCandidates("largeRedis"),
                                !["disk"]  = @ \cup RedisCandidates("redisDisk")]
  BY DEF ScanRedis, shared
<1>2. heaps \in [Heaps -> SUBSET (ManifestItem \cup RedisItem)] /\ redis \in [Keys -> RedisState(0 .. MaxNow)]
  BY DEF Typed, PassOK, Heaps
<1>3. \A h \in Heaps : \A c \in heaps[h] : c.kind = "manifest"
  BY <1>1, <1>2 DEF RedisListed
<1>4. /\ DOMAIN heaps' = Heaps
      /\ heaps'["small"] = heaps["small"] \cup RedisCandidates("smallRedis")
      /\ heaps'["large"] = heaps["large"] \cup RedisCandidates("largeRedis")
      /\ heaps'["disk"] = heaps["disk"] \cup RedisCandidates("redisDisk")
  BY <1>1, <1>2 DEF Heaps
<1>5. ASSUME NEW b
      PROVE  /\ \A c \in RedisCandidates(b) :
                  \E k \in Keys : c = RedisCandidate(k) /\ redis[k] # None /\ RedisBucket(redis[k]) = b
             /\ \A k \in Keys : redis[k] # None /\ RedisBucket(redis[k]) = b => RedisCandidate(k) \in RedisCandidates(b)
  BY DEF RedisCandidates
<1>6. \A k : /\ RedisCandidate(k).kind = "redis" /\ RedisCandidate(k).item = k
             /\ RedisCandidate(k).time = redis[k].acc /\ RedisCandidate(k).size = redis[k].size
  BY DEF RedisCandidate
<1>7. ASSUME NEW h \in Heaps, NEW c \in heaps'[h], c.kind = "redis"
      PROVE  c.item \in Keys /\ c = RedisCandidate(c.item) /\ redis[c.item] # None /\ HeapOf(redis[c.item]) = h
  <2>1. PICK b : /\ c \in RedisCandidates(b)
                 /\ \/ h = "small" /\ b = "smallRedis"
                    \/ h = "large" /\ b = "largeRedis"
                    \/ h = "disk" /\ b = "redisDisk"
    <3>1. c \notin heaps[h]
      BY <1>3, <1>7
    <3> QED
      BY <1>4, <1>7, <3>1 DEF Heaps
  <2>2. PICK k \in Keys : c = RedisCandidate(k) /\ redis[k] # None /\ RedisBucket(redis[k]) = b
    BY <1>5, <2>1
  <2>3. c.item = k
    BY <1>6, <2>2
  <2>4. HeapOf(redis[k]) = h
    BY <1>2, <2>1, <2>2, RedisEntry
  <2> QED
    BY <2>2, <2>3, <2>4
<1>8. ASSUME NEW k \in Keys, redis[k] # None
      PROVE  \E c \in heaps'[HeapOf(redis[k])] : c.kind = "redis" /\ c.item = k
  <2>1. RedisCandidate(k) \in RedisCandidates(RedisBucket(redis[k]))
    BY <1>5, <1>8
  <2>2. RedisCandidate(k) \in heaps'[HeapOf(redis[k])]
    BY <1>2, <1>4, <1>8, <2>1, RedisEntry DEF Heaps
  <2> QED
    BY <1>6, <2>2
<1>9. ASSUME NEW h \in Heaps, NEW c \in heaps'[h], NEW e \in heaps'[h], c.kind = "redis", e.kind = "redis", c.item = e.item
      PROVE  c = e
  BY <1>7, <1>9
<1>10. ASSUME NEW h \in Heaps, NEW c \in heaps'[h], c.kind = "redis"
       PROVE  redis[c.item].size = c.size /\ redis[c.item].acc = c.time /\ HeapOf(redis[c.item]) = h
  BY <1>6, <1>7, <1>10
<1>11. /\ \A h \in Heaps : \A c \in heaps'[h] :
            c.kind = "redis" => redis[c.item].size = c.size /\ redis[c.item].acc = c.time /\ HeapOf(redis[c.item]) = h
       /\ \A h \in Heaps : \A c, e \in heaps'[h] :
            c.kind = "redis" /\ e.kind = "redis" /\ c.item = e.item => c = e
       /\ \A k \in Keys : redis[k] # None =>
            \E c \in heaps'[HeapOf(redis[k])] : c.kind = "redis" /\ c.item = k
  BY <1>8, <1>9, <1>10
<1>12. DOMAIN heaps' = Heaps /\ redis' = redis /\ pc' = "loop"
  BY <1>1, <1>4
<1> QED
  BY <1>11, <1>12 DEF RedisListed, HeapOf, RedisBucket

LEMMA SpillRedisLists ==
  ASSUME Typed, RedisListed, NEW c, SpillRedis(c)
  PROVE  RedisListed'
<1>1. /\ Pops("large", c) /\ c.kind = "redis" /\ redis[c.item] # None /\ redis[c.item].tier = "Mem"
      /\ heaps' = Popped("large", c) /\ pc' = "writeRedis" /\ cur' = [todo |-> {}, candidate |-> c]
      /\ UNCHANGED redis
  BY DEF SpillRedis, shared
<1>2. heaps \in [Heaps -> SUBSET (ManifestItem \cup RedisItem)] /\ redis \in [Keys -> RedisState(0 .. MaxNow)]
      /\ "large" \in DOMAIN heaps
  BY DEF Typed, PassOK, Heaps
<1>3. /\ pc = "loop" /\ c \in heaps["large"]
      /\ \A g \in Heaps : \A e \in heaps'[g] : e \in heaps[g]
      /\ \A g \in Heaps : \A e \in heaps[g] : e \in heaps'[g] \/ (g = "large" /\ e = c)
      /\ c \notin heaps'["large"]
  BY <1>1, <1>2, PopLeaves
<1>4. c.item \in Keys
  BY <1>1, <1>2, <1>3, ItemFacts DEF Heaps
<1>5. DOMAIN heaps' = Heaps
  BY <1>1, <1>2 DEF Popped
<1>6. /\ redis[c.item].size = c.size /\ redis[c.item].acc = c.time /\ HeapOf(redis[c.item]) = "large"
      /\ \A h \in Heaps : \A e \in heaps[h] : e.kind = "redis" /\ e.item = c.item => h = "large" /\ e = c
  BY <1>1, <1>2, <1>3 DEF RedisListed, Evicting, Counted, Heaps
<1>7. c.size > Threshold
  BY <1>1, <1>2, <1>4, <1>6, RedisEntry
<1>8. \A h \in Heaps : \A e \in heaps'[h] : e.kind = "redis" => e.item # c.item
  BY <1>3, <1>6
<1>9. ASSUME NEW k \in Keys, redis[k] # None, k # c.item
      PROVE  \E e \in heaps'[HeapOf(redis[k])] : e.kind = "redis" /\ e.item = k
  <2>1. PICK e \in heaps[HeapOf(redis[k])] : e.kind = "redis" /\ e.item = k
    BY <1>3, <1>9 DEF RedisListed, Evicting, Counted
  <2>2. HeapOf(redis[k]) \in Heaps
    BY <1>2, <1>9, RedisEntry
  <2> QED
    BY <1>3, <1>9, <2>1, <2>2
<1>10. /\ \A h \in Heaps : \A e \in heaps'[h] :
            e.kind = "redis" /\ redis[e.item] # None =>
              redis[e.item].size = e.size /\ redis[e.item].acc = e.time /\ HeapOf(redis[e.item]) = h
       /\ \A h \in Heaps : \A e, f \in heaps'[h] :
            e.kind = "redis" /\ f.kind = "redis" /\ e.item = f.item => e = f
  BY <1>2, <1>3 DEF RedisListed, Evicting, Counted
<1>11. cur'.candidate = c
  BY <1>1
<1> QED
  BY <1>1, <1>5, <1>6, <1>7, <1>8, <1>9, <1>10, <1>11 DEF RedisListed, HeapOf, RedisBucket

LEMMA SpillRedisWrittenLists ==
  ASSUME Typed, RedisListed, SpillRedisWritten
  PROVE  RedisListed'
<1>1. PICK c \in RedisItem : c = cur.candidate
  BY DEF SpillRedisWritten, Typed, PassOK
<1>2. /\ pc = "writeRedis" /\ pc' = "loop"
      /\ redis' = [redis EXCEPT ![c.item] = [tier |-> "Disk", acc |-> c.time, size |-> c.size]]
      /\ heaps' = [heaps EXCEPT !["disk"] = @ \cup {c}]
  BY <1>1 DEF SpillRedisWritten
<1>3. c.kind = "redis" /\ c.item \in Keys /\ c.time \in 0 .. MaxNow /\ c.size \in RedisSizes
  BY DEF RedisItem
<1>4. heaps \in [Heaps -> SUBSET (ManifestItem \cup RedisItem)] /\ redis \in [Keys -> RedisState(0 .. MaxNow)]
  BY DEF Typed, PassOK, Heaps
<1>5. PICK x : x = [tier |-> "Disk", acc |-> c.time, size |-> c.size]
  OBVIOUS
<1>6. x.tier = "Disk" /\ x.acc = c.time /\ x.size = c.size /\ x # None /\ HeapOf(x) = "disk"
  BY <1>3, <1>5, NewEntries, RedisEntry
<1>7. redis'[c.item] = x /\ \A k \in Keys \ {c.item} : redis'[k] = redis[k]
  BY <1>2, <1>3, <1>4, <1>5
<1>8. /\ DOMAIN heaps' = Heaps /\ c \in heaps'["disk"]
      /\ \A h \in Heaps : \A e \in heaps'[h] : e \in heaps[h] \/ (h = "disk" /\ e = c)
      /\ \A h \in Heaps : \A e \in heaps[h] : e \in heaps'[h]
  BY <1>2, <1>4 DEF Heaps
<1>9. \A h \in Heaps : \A e \in heaps[h] : e.kind = "redis" => e.item # c.item
  BY <1>1, <1>2, <1>4 DEF RedisListed
<1>10. ASSUME NEW h \in Heaps, NEW e \in heaps'[h], e.kind = "redis", redis'[e.item] # None
       PROVE  redis'[e.item].size = e.size /\ redis'[e.item].acc = e.time /\ HeapOf(redis'[e.item]) = h
  <2>1. CASE h = "disk" /\ e = c
    BY <1>6, <1>7, <2>1
  <2>2. CASE e \in heaps[h]
    <3>1. e.item \in Keys \ {c.item}
      BY <1>4, <1>9, <1>10, <2>2, ItemFacts
    <3>2. redis'[e.item] = redis[e.item]
      BY <1>7, <3>1
    <3> QED
      BY <1>2, <1>4, <1>10, <2>2, <3>2 DEF RedisListed, Evicting, Counted
  <2> QED
    BY <1>8, <1>10, <2>1, <2>2
<1>11. ASSUME NEW h \in Heaps, NEW e \in heaps'[h], NEW f \in heaps'[h], e.kind = "redis", f.kind = "redis", e.item = f.item
       PROVE  e = f
  <2>1. CASE e \in heaps[h] /\ f \in heaps[h]
    BY <1>2, <1>4, <1>11, <2>1 DEF RedisListed, Evicting, Counted
  <2> QED
    BY <1>8, <1>9, <1>11, <2>1
<1>12. ASSUME NEW k \in Keys, redis'[k] # None
       PROVE  \E e \in heaps'[HeapOf(redis'[k])] : e.kind = "redis" /\ e.item = k
  <2>1. CASE k = c.item
    BY <1>3, <1>6, <1>7, <1>8, <2>1
  <2>2. CASE k # c.item
    <3>1. redis'[k] = redis[k] /\ redis[k] # None
      BY <1>7, <1>12, <2>2
    <3>2. PICK e \in heaps[HeapOf(redis[k])] : e.kind = "redis" /\ e.item = k
      BY <1>1, <1>2, <2>2, <3>1 DEF RedisListed, Evicting, Counted
    <3>3. HeapOf(redis[k]) \in Heaps
      BY <1>4, <3>1, RedisEntry
    <3> QED
      BY <1>8, <3>1, <3>2, <3>3
  <2> QED
    BY <2>1, <2>2
<1> QED
  BY <1>2, <1>8, <1>10, <1>11, <1>12 DEF RedisListed, HeapOf, RedisBucket

LEMMA RedisListedStep ==
  ASSUME Typed, RedisListed, Pass \/ Rest
  PROVE  RedisListed'
<1>0. /\ heaps \in [Heaps -> SUBSET (ManifestItem \cup RedisItem)] /\ redis \in [Keys -> RedisState(0 .. MaxNow)]
      /\ DOMAIN heaps = Heaps /\ DOMAIN heaps' = Heaps
  BY DomainKept DEF Typed, PassOK, Heaps
<1>1. CASE ScanBlobs
  <2>1. pc' = "manifests" /\ heaps' = [h \in DOMAIN heaps |-> {}]
    BY <1>1 DEF ScanBlobs
  <2> QED
    BY <1>0, <2>1 DEF RedisListed, Evicting, Counted
<1>2. CASE ScanManifests
  BY <1>0, <1>2, ScanLists DEF RedisListed, Evicting, Counted
<1>3. CASE ScanRedis
  BY <1>3, ScanRedisLists
<1>4. CASE \E c \in heaps["large"] : SpillRedis(c)
  BY <1>4, SpillRedisLists
<1>5. CASE SpillRedisWritten
  BY <1>5, SpillRedisWrittenLists
<1>6. CASE Publish \/ WriteFails
  <2>1. pc' \notin Evicting \cup {"manifests", "redis", "writeRedis"}
    BY <1>6 DEF Publish, WriteFails, Evicting, Counted
  <2> QED
    BY <2>1 DEF RedisListed
<1>7. CASE Rest
  <2>1. UNCHANGED <<pc, cur, heaps, redis>>
    BY <1>7 DEF Rest, shared, local
  <2> QED
    BY <2>1 DEF RedisListed, HeapOf, RedisBucket
<1>8. CASE \E h \in DOMAIN heaps : \E c \in heaps[h] : Skip(h, c) \/ DropRedis(h, c) \/ DropManifest(h, c)
  <2>1. PICK h \in DOMAIN heaps : \E c \in heaps[h] : Skip(h, c) \/ DropRedis(h, c) \/ DropManifest(h, c)
    BY <1>8
  <2>2. PICK c \in heaps[h] : Skip(h, c) \/ DropRedis(h, c) \/ DropManifest(h, c)
    BY <2>1
  <2>3. Pops(h, c) /\ heaps' = Popped(h, c)
    BY <2>2 DEF Skip, DropRedis, DropManifest
  <2>4. /\ pc = "loop" /\ h \in Heaps
        /\ \A g \in Heaps : \A e \in heaps'[g] : e \in heaps[g]
        /\ \A g \in Heaps : \A e \in heaps[g] : e \in heaps'[g] \/ (g = h /\ e = c)
    BY <2>3, PopLeaves
  <2>5. pc' \in {"loop", "untag"}
    BY <2>2, <2>4 DEF Skip, DropRedis, DropManifest
  <2>6. c.kind = "redis" => c.item \in Keys
    BY <1>0, <2>4, ItemFacts
  <2>7. /\ c.kind = "redis" => redis'[c.item] = None
        /\ \A k \in Keys : redis'[k] # None => redis'[k] = redis[k]
    <3>1. CASE DropManifest(h, c)
      BY <3>1 DEF DropManifest
    <3>2. CASE DropRedis(h, c)
      <4>1. redis' = [redis EXCEPT ![c.item] = None]
        BY <3>2 DEF DropRedis, StoreRedis
      <4> QED
        BY <1>0, <2>6, <4>1
    <3>3. CASE Skip(h, c)
      <4>1. /\ UNCHANGED redis
            /\ \/ c.kind = "manifest"
               \/ c.kind = "redis" /\ redis[c.item] = None
               \/ /\ c.kind = "redis" /\ h = "large"
                  /\ redis[c.item] # None /\ redis[c.item].tier = "Disk"
        BY <3>3 DEF Skip, shared
      <4>2. ~(c.kind = "redis" /\ h = "large" /\ redis[c.item] # None /\ redis[c.item].tier = "Disk")
        <5>1. SUFFICES ASSUME c.kind = "redis", h = "large", redis[c.item] # None, redis[c.item].tier = "Disk"
                       PROVE FALSE
          OBVIOUS
        <5>2. HeapOf(redis[c.item]) = "large"
          BY <1>0, <2>4, <5>1 DEF RedisListed, Evicting, Counted
        <5> QED
          BY <1>0, <2>6, <5>1, <5>2, RedisEntry
      <4> QED
        BY <4>1, <4>2
    <3> QED
      BY <2>2, <3>1, <3>2, <3>3
  <2> QED
    BY <2>4, <2>5, <2>7, RedisRest DEF Evicting, Counted
<1>9. CASE \E c \in heaps["large"] : SpillManifest(c)
  <2>1. PICK c \in heaps["large"] : SpillManifest(c)
    BY <1>9
  <2>2. /\ pc = "loop" /\ pc' = "spill" /\ UNCHANGED redis /\ c \in ManifestItem
        /\ heaps'["large"] = heaps["large"] \ {c}
        /\ heaps'["small"] = heaps["small"] /\ heaps'["disk"] = heaps["disk"]
    BY <2>1, SpillManifestFacts
  <2>3. c.kind = "manifest"
    BY <2>2 DEF ManifestItem
  <2> QED
    BY <2>2, <2>3, RedisRest DEF Evicting, Counted, Heaps
<1>10. CASE SpillManifestDone
  <2>1. PICK c \in ManifestItem : c = cur.candidate
    BY <1>10 DEF SpillManifestDone, Typed, PassOK
  <2>2. /\ pc = "spill" /\ pc' = "loop" /\ UNCHANGED redis
        /\ heaps' = [heaps EXCEPT !["disk"] = @ \cup {[c EXCEPT !.spilled = TRUE]}]
    BY <1>10, <2>1 DEF SpillManifestDone, shared
  <2>3. [c EXCEPT !.spilled = TRUE].kind = "manifest"
    BY DEF ManifestItem
  <2>4. /\ \A h \in Heaps : \A e \in heaps'[h] : e.kind = "redis" => e \in heaps[h]
        /\ \A h \in Heaps : \A e \in heaps[h] : e \in heaps'[h]
    BY <1>0, <2>2, <2>3 DEF Heaps
  <2> QED
    BY <2>2, <2>4, RedisRest DEF Evicting, Counted
<1>11. CASE \/ SpillBlobWritten \/ Untag \/ DropDone \/ LoopEnds
            \/ \E d \in Digests : SpillRef(d) \/ DropRef(d) \/ Sweep(d)
  <2>1. UNCHANGED <<redis, heaps>> /\ pc \in Evicting \ {"writeRedis"} /\ pc' \in Evicting \ {"writeRedis"}
    BY <1>11 DEF SpillBlobWritten, Untag, DropDone, LoopEnds, SpillRef, DropRef, Sweep, StoreBlob, shared,
       Evicting, Counted
  <2> QED
    BY <2>1, RedisRest
<1> QED
  BY <1>1, <1>2, <1>3, <1>4, <1>5, <1>6, <1>7, <1>8, <1>9, <1>10, <1>11 DEF Pass

-----------------------------------------------------------------------------
(***************************************************************************)
(* The sums.                                                               *)
(***************************************************************************)
LEMMA BlobChargeOf ==
  ASSUME NEW d \in Digests, NEW x, NEW b \in Buckets
  PROVE  /\ x = None => BlobCharge(d, x)[b] = 0
         /\ x # None => BlobCharge(d, x)[b] = IF b = BlobBucket(d, x.tier) THEN BlobSize[d] ELSE 0
<1>1. x = None => BlobCharge(d, x) = Zero
  BY DEF BlobCharge
<1>2. PICK c \in Buckets : c = BlobBucket(d, x.tier)
  BY BlobBucketType
<1>3. PICK n \in Nat : n = BlobSize[d]
  BY Constants
<1>4. x # None => BlobCharge(d, x) = [Zero EXCEPT ![c] = n]
  BY <1>2, <1>3 DEF BlobCharge
<1>5. [Zero EXCEPT ![c] = n][b] = IF b = c THEN n ELSE 0
  BY OneBucket
<1>6. Zero[b] = 0
  BY ZeroType
<1> QED
  BY <1>1, <1>2, <1>3, <1>4, <1>5, <1>6

LEMMA ManifestChargeOf ==
  ASSUME NEW x, NEW b \in Buckets
  PROVE  /\ x = None => ManifestCharge(x)[b] = 0
         /\ x # None => ManifestCharge(x)[b] = IF b = "manifest" THEN ManifestSize ELSE 0
<1>1. x = None => ManifestCharge(x) = Zero
  BY DEF ManifestCharge
<1>2. x # None => ManifestCharge(x) = [Zero EXCEPT !["manifest"] = ManifestSize]
  BY DEF ManifestCharge
<1>3. "manifest" \in Buckets /\ ManifestSize \in Nat
  BY Constants DEF Buckets
<1>4. [Zero EXCEPT !["manifest"] = ManifestSize][b] = IF b = "manifest" THEN ManifestSize ELSE 0
  BY <1>3, OneBucket
<1>5. Zero[b] = 0
  BY ZeroType
<1> QED
  BY <1>1, <1>2, <1>4, <1>5

LEMMA RedisChargeOf ==
  ASSUME NEW e \in RedisState(0 .. MaxNow), NEW b \in Buckets
  PROVE  /\ e = None => RedisCharge(e)[b] = 0
         /\ e # None => /\ e.size \in Nat
                        /\ RedisCharge(e)[b] = (IF b = RedisBucket(e) THEN e.size ELSE 0)
                                             + (IF b = "smallRedis" THEN KeySize ELSE 0)
<1>1. RedisCharge(e)[b] = ValueCharge(e)[b] + KeyCharge(e)[b]
  BY RedisChargeType, PlusType DEF RedisCharge
<1>2. CASE e = None
  <2>1. ValueCharge(e) = Zero /\ KeyCharge(e) = Zero
    BY <1>2 DEF ValueCharge, KeyCharge
  <2> QED
    BY <1>1, <1>2, <2>1, ZeroType
<1>3. CASE e # None
  <2>1. PICK c \in Buckets : c = RedisBucket(e)
    BY RedisBucketType
  <2>2. PICK n \in Nat : n = e.size
    BY <1>3, Entries, Constants
  <2>3. ValueCharge(e) = [Zero EXCEPT ![c] = n]
    BY <1>3, <2>1, <2>2 DEF ValueCharge
  <2>4. KeyCharge(e) = [Zero EXCEPT !["smallRedis"] = KeySize]
    BY <1>3 DEF KeyCharge
  <2>5. "smallRedis" \in Buckets /\ KeySize \in Nat
    BY Constants DEF Buckets
  <2>6. ValueCharge(e)[b] = IF b = c THEN n ELSE 0
    BY <2>3, OneBucket
  <2>7. KeyCharge(e)[b] = IF b = "smallRedis" THEN KeySize ELSE 0
    BY <2>4, <2>5, OneBucket
  <2> QED
    BY <1>1, <1>3, <2>1, <2>2, <2>6, <2>7
<1> QED
  BY <1>2, <1>3

\* One item changes.
LEMMA BlobBytesChange ==
  ASSUME NEW d \in Digests, NEW b \in Buckets, \A e \in Digests \ {d} : blobs'[e] = blobs[e]
  PROVE  BlobBytes'[b] = BlobBytes[b] - BlobCharge(d, blobs[d])[b] + BlobCharge(d, blobs'[d])[b]
<1> DEFINE f == [e \in Digests |-> BlobCharge(e, blobs[e])[b]]
           g == [e \in Digests |-> BlobCharge(e, blobs'[e])[b]]
<1>1. f \in [Digests -> Int] /\ g \in [Digests -> Int]
  BY BlobChargeType DEF Amounts
<1>2. \A e \in Digests \ {d} : g[e] = f[e]
  OBVIOUS
<1>3. f[d] = BlobCharge(d, blobs[d])[b] /\ g[d] = BlobCharge(d, blobs'[d])[b]
  OBVIOUS
<1>4. BlobBytes[b] = Sum(f) /\ BlobBytes'[b] = Sum(g)
  BY DEF BlobBytes
<1> HIDE DEF f, g
<1>5. Sum(g) = Sum(f) - f[d] + g[d]
  BY <1>1, <1>2, FiniteAssumption, SumChange
<1> QED
  BY <1>3, <1>4, <1>5

LEMMA ManifestBytesChange ==
  ASSUME NEW m \in Manifests, NEW b \in Buckets, \A n \in Manifests \ {m} : manifests'[n] = manifests[n]
  PROVE  ManifestBytes'[b] = ManifestBytes[b] - ManifestCharge(manifests[m])[b] + ManifestCharge(manifests'[m])[b]
<1> DEFINE f == [n \in Manifests |-> ManifestCharge(manifests[n])[b]]
           g == [n \in Manifests |-> ManifestCharge(manifests'[n])[b]]
<1>1. f \in [Manifests -> Int] /\ g \in [Manifests -> Int]
  BY ManifestChargeType DEF Amounts
<1>2. \A n \in Manifests \ {m} : g[n] = f[n]
  OBVIOUS
<1>3. f[m] = ManifestCharge(manifests[m])[b] /\ g[m] = ManifestCharge(manifests'[m])[b]
  OBVIOUS
<1>4. ManifestBytes[b] = Sum(f) /\ ManifestBytes'[b] = Sum(g)
  BY DEF ManifestBytes
<1> HIDE DEF f, g
<1>5. Sum(g) = Sum(f) - f[m] + g[m]
  BY <1>1, <1>2, FiniteAssumption, SumChange
<1> QED
  BY <1>3, <1>4, <1>5

LEMMA RedisBytesChange ==
  ASSUME NEW k \in Keys, NEW b \in Buckets, \A i \in Keys \ {k} : redis'[i] = redis[i],
         redis \in [Keys -> RedisState(0 .. MaxNow)], redis' \in [Keys -> RedisState(0 .. MaxNow)]
  PROVE  RedisBytes'[b] = RedisBytes[b] - RedisCharge(redis[k])[b] + RedisCharge(redis'[k])[b]
<1> DEFINE f == [i \in Keys |-> RedisCharge(redis[i])[b]]
           g == [i \in Keys |-> RedisCharge(redis'[i])[b]]
<1>1. f \in [Keys -> Int] /\ g \in [Keys -> Int]
  BY RedisChargeType DEF Amounts
<1>2. \A i \in Keys \ {k} : g[i] = f[i]
  OBVIOUS
<1>3. f[k] = RedisCharge(redis[k])[b] /\ g[k] = RedisCharge(redis'[k])[b]
  OBVIOUS
<1>4. RedisBytes[b] = Sum(f) /\ RedisBytes'[b] = Sum(g)
  BY DEF RedisBytes
<1> HIDE DEF f, g
<1>5. Sum(g) = Sum(f) - f[k] + g[k]
  BY <1>1, <1>2, FiniteAssumption, SumChange
<1> QED
  BY <1>3, <1>4, <1>5

\* Blobs and redis entries take no manifest bytes.
LEMMA ExactManifest ==
  ASSUME Typed
  PROVE  Exact["manifest"] = ManifestBytes["manifest"]
<1> DEFINE f == [d \in Digests |-> BlobCharge(d, blobs[d])["manifest"]]
           g == [k \in Keys |-> RedisCharge(redis[k])["manifest"]]
<1>0. "manifest" \in Buckets
  BY DEF Buckets
<1>1. f \in [Digests -> Int] /\ \A d \in Digests : f[d] = 0
  BY <1>0, BlobChargeOf DEF BlobBucket
<1>2. g \in [Keys -> Int] /\ \A k \in Keys : g[k] = 0
  <2>1. ASSUME NEW k \in Keys PROVE RedisCharge(redis[k])["manifest"] = 0
    <3>1. redis[k] \in RedisState(0 .. MaxNow)
      BY DEF Typed
    <3>2. "manifest" # RedisBucket(redis[k])
      BY DEF RedisBucket
    <3> QED
      BY <1>0, <3>1, <3>2, RedisChargeOf
  <2> QED
    BY <2>1
<1>3. BlobBytes["manifest"] = Sum(f) /\ RedisBytes["manifest"] = Sum(g)
  BY <1>0 DEF BlobBytes, RedisBytes
<1> HIDE DEF f, g
<1>4. Sum(f) = 0 /\ Sum(g) = 0
  BY <1>1, <1>2, SumZero
<1>5. ManifestBytes["manifest"] \in Nat
  BY <1>0, BytesType DEF Typed, Amounts
<1> QED
  BY <1>0, <1>3, <1>4, <1>5 DEF Exact

\* The three maps' bytes are numbers.
BytesAdd ==
  \A b \in Buckets :
    /\ ManifestBytes[b] \in Nat /\ BlobBytes[b] \in Nat /\ RedisBytes[b] \in Nat
    /\ Exact[b] = ManifestBytes[b] + BlobBytes[b] + RedisBytes[b]

LEMMA BytesNat == Typed => BytesAdd
BY BytesType DEF Typed, Amounts, Exact, BytesAdd

LEMMA NextBytesNat == Typed' => BytesAdd'
BY BytesNat, PTL

\* Charging a counter.
LEMMA ChargedUsage ==
  ASSUME NEW u, NEW v, NEW w, NEW b \in Buckets
  PROVE  Minus(Plus(u, v), w)[b] = (u[b] + v[b]) - w[b]
<1>1. Plus(u, v)[b] = u[b] + v[b]
  BY DEF Plus
<1>2. PICK x : x = Plus(u, v)
  OBVIOUS
<1>3. Minus(x, w)[b] = x[b] - w[b]
  BY DEF Minus
<1> QED
  BY <1>1, <1>2, <1>3

-----------------------------------------------------------------------------
\* A manifest's bytes go with it.
LEMMA DropManifestCovers ==
  ASSUME Typed, SumsCover, NEW h \in DOMAIN heaps, NEW c, DropManifest(h, c)
  PROVE  /\ usage'["manifest"] = ManifestBytes'["manifest"]
         /\ \A b \in Buckets : sums'[b] >= ManifestBytes'[b] + BlobBytes[b] + RedisBytes[b]
<1>1. /\ pc = "loop" /\ c.item \in Manifests /\ manifests[c.item] # None
      /\ manifests' = [manifests EXCEPT ![c.item] = None]
  BY DropManifestFacts
<1>2. /\ usage' = Minus(Plus(usage, ManifestCharge(None)), ManifestCharge(manifests[c.item]))
      /\ sums' = Monus(sums, "manifest", ManifestSize)
  BY DEF DropManifest, StoreManifest
<1>3. manifests'[c.item] = None /\ \A n \in Manifests \ {c.item} : manifests'[n] = manifests[n]
  BY <1>1 DEF Typed
<1>4. \A b \in Buckets :
        ManifestBytes'[b] = ManifestBytes[b] - ManifestCharge(manifests[c.item])[b] + ManifestCharge(None)[b]
  BY <1>1, <1>3, ManifestBytesChange
<1>5. \A b \in Buckets : /\ ManifestCharge(None)[b] = 0
                         /\ ManifestCharge(manifests[c.item])[b] = IF b = "manifest" THEN ManifestSize ELSE 0
  BY <1>1, ManifestChargeOf
<1>6. "manifest" \in Buckets /\ usage["manifest"] \in Int /\ ManifestBytes["manifest"] \in Nat
  BY BytesNat DEF BytesAdd, Buckets, Typed
<1>7. usage'["manifest"] = (usage["manifest"] + ManifestCharge(None)["manifest"]) - ManifestCharge(manifests[c.item])["manifest"]
  BY <1>2, <1>6, ChargedUsage
<1>8. usage'["manifest"] = ManifestBytes'["manifest"]
  <2>1. usage["manifest"] = ManifestBytes["manifest"]
    BY DEF SumsCover
  <2>2. /\ ManifestBytes'["manifest"] = ManifestBytes["manifest"] - ManifestSize + 0
        /\ usage'["manifest"] = (usage["manifest"] + 0) - ManifestSize
    <3>1. /\ ManifestCharge(None)["manifest"] = 0
          /\ ManifestCharge(manifests[c.item])["manifest"] = ManifestSize
      BY <1>5, <1>6
    <3> QED
      BY <1>4, <1>6, <1>7, <3>1
  <2> QED
    BY <1>6, <2>1, <2>2, Constants
<1>9. ASSUME NEW b \in Buckets
      PROVE  sums'[b] >= ManifestBytes'[b] + BlobBytes[b] + RedisBytes[b]
  <2>1. sums[b] >= Exact[b] /\ sums[b] \in Nat
    BY <1>1 DEF SumsCover, Evicting, Counted, Typed
  <2>0. sums \in Amounts /\ ManifestSize \in Nat
    BY Constants DEF Typed, Amounts
  <2>2. sums'[b] = IF b = "manifest" THEN (IF sums[b] < ManifestSize THEN 0 ELSE sums[b] - ManifestSize) ELSE sums[b]
    BY <1>2, <2>0, MonusFalls
  <2>3. ManifestBytes'[b] = ManifestBytes[b] - (IF b = "manifest" THEN ManifestSize ELSE 0)
    BY <1>4, <1>5, BytesNat, Constants DEF BytesAdd
  <2>4. /\ ManifestBytes[b] \in Nat /\ BlobBytes[b] \in Nat /\ RedisBytes[b] \in Nat
        /\ Exact[b] = ManifestBytes[b] + BlobBytes[b] + RedisBytes[b]
    BY BytesNat, NextBytesNat DEF BytesAdd
  <2>5. ManifestSize \in Nat
    BY Constants
  <2> QED
    BY <2>1, <2>2, <2>3, <2>4, <2>5
<1> QED
  BY <1>8, <1>9

\* Spilling a manifest moves none of its bytes.
LEMMA ManifestBytesKept ==
  ASSUME \A m \in Manifests : manifests'[m] = None <=> manifests[m] = None
  PROVE  ManifestBytes' = ManifestBytes
<1>1. ASSUME NEW b \in Buckets
      PROVE  [m \in Manifests |-> ManifestCharge(manifests'[m])[b]] = [m \in Manifests |-> ManifestCharge(manifests[m])[b]]
  <2>1. \A m \in Manifests : ManifestCharge(manifests'[m])[b] = ManifestCharge(manifests[m])[b]
    BY ManifestChargeOf
  <2> QED
    BY <2>1
<1>2. \A b \in Buckets : Sum([m \in Manifests |-> ManifestCharge(manifests'[m])[b]])
                       = Sum([m \in Manifests |-> ManifestCharge(manifests[m])[b]])
  BY <1>1, Zenon
<1> QED
  BY <1>2, Zenon DEF ManifestBytes

LEMMA BlobBytesKept == UNCHANGED blobs => BlobBytes' = BlobBytes
BY Zenon DEF BlobBytes

LEMMA RedisBytesKept == UNCHANGED redis => RedisBytes' = RedisBytes
BY Zenon DEF RedisBytes

\* No step of a pass but the drop of a manifest changes what manifests hold.
LEMMA ManifestBytesRest ==
  ASSUME Typed, Pass \/ Rest, \A h \in DOMAIN heaps : \A c \in heaps[h] : ~DropManifest(h, c)
  PROVE  ManifestBytes' = ManifestBytes
<1>1. UNCHANGED manifests \/ \E c \in heaps["large"] : SpillManifest(c)
  BY ManifestsFrame DEF Rest, shared
<1>2. \A m \in Manifests : manifests'[m] = None <=> manifests[m] = None
  BY <1>1, SpillManifestFacts
<1> QED
  BY <1>2, ManifestBytesKept

\* Blobs and redis entries are not charged to the manifests.
LEMMA OtherUsage ==
  ASSUME Typed, NEW v, NEW w, v["manifest"] = 0, w["manifest"] = 0, usage' = Minus(Plus(usage, v), w)
  PROVE  usage'["manifest"] = usage["manifest"]
<1>1. "manifest" \in Buckets /\ usage["manifest"] \in Int
  BY DEF Buckets, Typed
<1>2. usage'["manifest"] = (usage["manifest"] + v["manifest"]) - w["manifest"]
  BY <1>1, ChargedUsage
<1> QED
  BY <1>1, <1>2

LEMMA OtherCharges ==
  /\ \A d \in Digests : \A x : BlobCharge(d, x)["manifest"] = 0
  /\ \A e \in RedisState(0 .. MaxNow) : RedisCharge(e)["manifest"] = 0
<1>1. "manifest" \in Buckets
  BY DEF Buckets
<1>2. \A d, t : BlobBucket(d, t) # "manifest"
  BY DEF BlobBucket
<1>3. \A e : RedisBucket(e) # "manifest"
  BY DEF RedisBucket
<1>4. ASSUME NEW d \in Digests, NEW x PROVE BlobCharge(d, x)["manifest"] = 0
  BY <1>1, <1>2, BlobChargeOf
<1>5. ASSUME NEW e \in RedisState(0 .. MaxNow) PROVE RedisCharge(e)["manifest"] = 0
  BY <1>1, <1>3, RedisChargeOf
<1> QED
  BY <1>4, <1>5

LEMMA ManifestUsageRest ==
  ASSUME Typed, Pass \/ Rest, \A h \in DOMAIN heaps : \A c \in heaps[h] : ~DropManifest(h, c)
  PROVE  usage'["manifest"] = usage["manifest"]
<1>1. CASE \E h \in DOMAIN heaps : \E c \in heaps[h] : DropRedis(h, c)
  <2>1. PICK h \in DOMAIN heaps : \E c \in heaps[h] : DropRedis(h, c)
    BY <1>1
  <2>2. PICK c \in heaps[h] : DropRedis(h, c)
    BY <2>1
  <2>3. usage' = Minus(Plus(usage, RedisCharge(None)), RedisCharge(redis[c.item])) /\ Pops(h, c) /\ c.kind = "redis"
    BY <2>2 DEF DropRedis, StoreRedis
  <2>4. c.item \in Keys
    BY <2>3, PopsFacts, ItemFacts
  <2>5. redis[c.item] \in RedisState(0 .. MaxNow) /\ None \in RedisState(0 .. MaxNow)
    BY <2>4, NewEntries DEF Typed
  <2>6. RedisCharge(None)["manifest"] = 0 /\ RedisCharge(redis[c.item])["manifest"] = 0
    BY <2>5, OtherCharges
  <2> QED
    BY <2>3, <2>6, OtherUsage
<1>2. CASE SpillBlobWritten
  <2>1. cur.digest \in Digests
    BY <1>2, SpillBlobWrittenFacts
  <2>2. usage' = Minus(Plus(usage, BlobCharge(cur.digest, [tier |-> "Disk", acc |-> cur.acc])),
                       BlobCharge(cur.digest, blobs[cur.digest]))
    BY <1>2 DEF SpillBlobWritten, StoreBlob
  <2> QED
    BY <2>1, <2>2, OtherCharges, OtherUsage
<1>3. CASE \E d \in Digests : DropRef(d) \/ Sweep(d)
  <2>1. PICK d \in Digests : DropRef(d) \/ Sweep(d)
    BY <1>3
  <2>2. UNCHANGED usage \/ usage' = Minus(Plus(usage, BlobCharge(d, None)), BlobCharge(d, blobs[d]))
    BY <2>1, Zenon DEF DropRef, Sweep, StoreBlob
  <2> QED
    BY <2>2, OtherCharges, OtherUsage
<1>4. CASE Publish
  BY <1>4 DEF Publish, Typed, Buckets
<1>5. CASE UNCHANGED usage
  BY <1>5
<1> QED
  BY <1>1, <1>2, <1>3, <1>4, <1>5 DEF Pass, ScanBlobs, ScanManifests, ScanRedis, Skip, SpillRedis,
     SpillManifest, SpillRedisWritten, SpillManifestDone, WriteFails, SpillRef,
     Untag, DropDone, LoopEnds, shared, Rest

-----------------------------------------------------------------------------
LEMMA ExactRedisChange ==
  ASSUME Typed, Typed', UNCHANGED <<manifests, blobs>>,
         NEW b \in Buckets, NEW x \in Nat, NEW y \in Nat, RedisBytes'[b] = RedisBytes[b] - x + y
  PROVE  Exact'[b] = Exact[b] - x + y /\ Exact[b] \in Nat /\ Exact'[b] \in Nat
<1>1. ManifestBytes' = ManifestBytes /\ BlobBytes' = BlobBytes
  BY ManifestBytesKept, BlobBytesKept
<1>2. /\ ManifestBytes[b] \in Nat /\ BlobBytes[b] \in Nat /\ RedisBytes[b] \in Nat /\ RedisBytes'[b] \in Nat
      /\ Exact[b] = ManifestBytes[b] + BlobBytes[b] + RedisBytes[b]
      /\ Exact'[b] = ManifestBytes[b] + BlobBytes[b] + RedisBytes'[b]
  BY <1>1, BytesNat, NextBytesNat DEF BytesAdd
<1>3. PICK m \in Nat : m = ManifestBytes[b] + BlobBytes[b]
  BY <1>2
<1>4. Exact[b] = m + RedisBytes[b] /\ Exact'[b] = m + RedisBytes'[b]
  BY <1>2, <1>3
<1> QED
  BY <1>2, <1>4

LEMMA DropRedisCovers ==
  ASSUME Typed, Typed', SumsCover, RedisListed, NEW h \in DOMAIN heaps, NEW c \in heaps[h], DropRedis(h, c)
  PROVE  \A b \in Buckets : sums'[b] >= Exact'[b]
<1>1. /\ Pops(h, c) /\ pc = "loop" /\ c.kind = "redis" /\ h \in {"small", "disk"} /\ redis[c.item] # None
      /\ redis' = [redis EXCEPT ![c.item] = None]
      /\ sums' = Monus(sums, IF h = "small" THEN "smallRedis" ELSE "redisDisk", c.size)
      /\ UNCHANGED <<manifests, blobs>>
  BY DEF DropRedis, StoreRedis, Pops
<1>2. c.item \in Keys /\ redis[c.item] \in RedisState(0 .. MaxNow)
  BY <1>1, PopsFacts, ItemFacts DEF Typed
<1>3. redis[c.item].size = c.size /\ HeapOf(redis[c.item]) = h
  BY <1>1 DEF RedisListed, Evicting, Counted
<1>4. PICK w : w = RedisBucket(redis[c.item])
  OBVIOUS
<1>5. w \in {"smallRedis", "largeRedis", "redisDisk"}
  BY <1>4 DEF RedisBucket
<1>6. w = IF h = "small" THEN "smallRedis" ELSE "redisDisk"
  BY <1>1, <1>3, <1>4, <1>5 DEF HeapOf
<1>7. PICK n \in Nat : n = c.size
  BY <1>1, PopsFacts, ItemFacts, Constants
<1>8. \A b \in Buckets : RedisCharge(None)[b] = 0
  BY NewEntries, RedisChargeOf
<1>9. redis'[c.item] = None /\ \A i \in Keys \ {c.item} : redis'[i] = redis[i]
  BY <1>1, <1>2 DEF Typed
<1>11. ASSUME NEW b \in Buckets PROVE sums'[b] >= Exact'[b]
  <2>1. RedisCharge(redis[c.item])[b] = (IF b = w THEN n ELSE 0) + (IF b = "smallRedis" THEN KeySize ELSE 0)
    BY <1>1, <1>2, <1>3, <1>4, <1>7, RedisChargeOf
  <2>2. PICK k \in Nat : k = IF b = "smallRedis" THEN KeySize ELSE 0
    BY Constants
  <2>3. PICK x \in Nat : x = IF b = w THEN n ELSE 0
    OBVIOUS
  <2>4. PICK z \in Nat : z = x + k
    BY <2>2, <2>3
  <2>5. Exact'[b] = Exact[b] - z + 0
    <3>1. RedisCharge(redis[c.item])[b] = z /\ RedisCharge(redis'[c.item])[b] = 0
      BY <1>8, <1>9, <2>1, <2>2, <2>3, <2>4
    <3>2. redis \in [Keys -> RedisState(0 .. MaxNow)] /\ redis' \in [Keys -> RedisState(0 .. MaxNow)]
      BY DEF Typed
    <3>3. RedisBytes'[b] = RedisBytes[b] - z + 0
      BY <1>2, <1>9, <3>1, <3>2, RedisBytesChange
    <3> QED
      BY <1>1, <3>3, ExactRedisChange
  <2>6. /\ sums \in Amounts /\ sums[b] \in Nat /\ sums[b] >= Exact[b]
    BY <1>1 DEF Typed, Amounts, SumsCover, Evicting, Counted
  <2>8. Exact[b] \in Nat /\ Exact'[b] \in Nat
    BY BytesNat, NextBytesNat DEF BytesAdd
  <2>7. sums'[b] = IF b = w THEN (IF sums[b] < n THEN 0 ELSE sums[b] - n) ELSE sums[b]
    BY <1>1, <1>6, <1>7, <2>6, MonusFalls
  <2> QED
    BY <2>3, <2>4, <2>5, <2>6, <2>7, <2>8
<1> QED
  BY <1>11

LEMMA SpillRedisWrittenCovers ==
  ASSUME Typed, Typed', SumsCover, RedisListed, SpillRedisWritten
  PROVE  \A b \in Buckets : sums'[b] >= Exact'[b]
<1>1. PICK c : c = cur.candidate
  OBVIOUS
<1>2. /\ pc = "writeRedis"
      /\ redis' = [redis EXCEPT ![c.item] = [tier |-> "Disk", acc |-> c.time, size |-> c.size]]
      /\ sums' = [Monus(sums, "largeRedis", c.size) EXCEPT !["redisDisk"] = @ + c.size]
      /\ UNCHANGED <<manifests, blobs>>
  BY <1>1 DEF SpillRedisWritten
<1>3. c \in RedisItem /\ c.item \in Keys /\ c.size \in RedisSizes /\ c.time \in 0 .. MaxNow
  BY <1>1, <1>2 DEF Typed, PassOK, RedisItem
<1>4. PICK n \in Nat : n = c.size
  BY <1>3, Constants
<1>5. PICK e \in RedisState(0 .. MaxNow) : e = [tier |-> "Disk", acc |-> c.time, size |-> c.size] /\ e # None
  BY <1>3, NewEntries
<1>6. redis'[c.item] = e /\ \A i \in Keys \ {c.item} : redis'[i] = redis[i]
  BY <1>2, <1>3, <1>5 DEF Typed
<1>7. e.size = n /\ RedisBucket(e) = "redisDisk"
  BY <1>4, <1>5 DEF RedisBucket
<1>8. /\ redis[c.item] # None /\ redis[c.item].tier = "Mem" /\ redis[c.item].size = n /\ n > Threshold
      /\ redis[c.item] \in RedisState(0 .. MaxNow)
  BY <1>1, <1>2, <1>3, <1>4 DEF RedisListed, Typed
<1>9. RedisBucket(redis[c.item]) = "largeRedis"
  BY <1>8, Constants DEF RedisBucket
<1>10. ManifestBytes' = ManifestBytes /\ BlobBytes' = BlobBytes
  BY <1>2, ManifestBytesKept, BlobBytesKept
<1>11. ASSUME NEW b \in Buckets PROVE sums'[b] >= Exact'[b]
  <2>1. PICK k \in Nat : k = IF b = "smallRedis" THEN KeySize ELSE 0
    BY Constants
  <2>2. PICK x \in Nat : x = IF b = "largeRedis" THEN n ELSE 0
    OBVIOUS
  <2>3. PICK y \in Nat : y = IF b = "redisDisk" THEN n ELSE 0
    OBVIOUS
  <2>4. RedisCharge(redis[c.item])[b] = x + k
    BY <1>8, <1>9, <2>1, <2>2, RedisChargeOf
  <2>5. RedisCharge(e)[b] = y + k
    BY <1>5, <1>7, <2>1, <2>3, RedisChargeOf
  <2>6. RedisBytes'[b] = RedisBytes[b] - (x + k) + (y + k)
    BY <1>3, <1>6, <2>4, <2>5, RedisBytesChange DEF Typed
  <2>7. /\ ManifestBytes[b] \in Nat /\ BlobBytes[b] \in Nat /\ RedisBytes[b] \in Nat /\ RedisBytes'[b] \in Nat
        /\ Exact[b] = ManifestBytes[b] + BlobBytes[b] + RedisBytes[b]
        /\ Exact'[b] = ManifestBytes[b] + BlobBytes[b] + RedisBytes'[b]
    BY <1>10, BytesNat, NextBytesNat DEF BytesAdd
  <2>8. sums \in Amounts /\ sums[b] \in Nat /\ sums[b] >= Exact[b]
    BY <1>2 DEF Typed, Amounts, SumsCover, Evicting, Counted
  <2>9. Monus(sums, "largeRedis", n)[b] = IF b = "largeRedis" THEN (IF sums[b] < n THEN 0 ELSE sums[b] - n) ELSE sums[b]
    BY <2>8, MonusFalls
  <2>10. sums'[b] = IF b = "redisDisk" THEN Monus(sums, "largeRedis", n)[b] + n ELSE Monus(sums, "largeRedis", n)[b]
    <3>1. Monus(sums, "largeRedis", n) \in Amounts
      BY <1>4, <2>8, MonusType DEF Buckets
    <3> QED
      BY <1>2, <1>4, <3>1 DEF Amounts
  <2>11. Exact'[b] = Exact[b] - x + y /\ Exact[b] \in Nat
    <3>1. RedisBytes'[b] = RedisBytes[b] - x + y
      BY <2>6, <2>7
    <3> QED
      BY <1>2, <3>1, ExactRedisChange
  <2>12. sums'[b] >= sums[b] - x + y
    BY <2>2, <2>3, <2>8, <2>9, <2>10
  <2>13. sums'[b] \in Nat
    BY DEF Typed
  <2> QED
    BY <2>8, <2>11, <2>12, <2>13
<1> QED
  BY <1>11

\* A blob's bytes go with it; a spilled blob's bytes move to the disk.
LEMMA ExactBlobChange ==
  ASSUME Typed, Typed', NEW d \in Digests, NEW b \in Buckets, \A e \in Digests \ {d} : blobs'[e] = blobs[e],
         UNCHANGED <<manifests, redis>>, NEW x \in Nat, NEW y \in Nat,
         x = BlobCharge(d, blobs[d])[b], y = BlobCharge(d, blobs'[d])[b]
  PROVE  Exact'[b] = Exact[b] - x + y /\ Exact[b] \in Nat /\ Exact'[b] \in Nat
<1>1. BlobBytes'[b] = BlobBytes[b] - x + y
  BY BlobBytesChange
<1>2. ManifestBytes' = ManifestBytes /\ RedisBytes' = RedisBytes
  BY ManifestBytesKept, RedisBytesKept
<1>3. /\ ManifestBytes[b] \in Nat /\ BlobBytes[b] \in Nat /\ RedisBytes[b] \in Nat /\ BlobBytes'[b] \in Nat
      /\ Exact[b] = ManifestBytes[b] + BlobBytes[b] + RedisBytes[b]
      /\ Exact'[b] = ManifestBytes[b] + BlobBytes'[b] + RedisBytes[b]
  BY <1>2, BytesNat, NextBytesNat DEF BytesAdd
<1>4. PICK m \in Nat : m = ManifestBytes[b] + RedisBytes[b]
  BY <1>3
<1>5. Exact[b] = m + BlobBytes[b] /\ Exact'[b] = m + BlobBytes'[b]
  BY <1>3, <1>4
<1> QED
  BY <1>1, <1>3, <1>5

LEMMA SpillBlobWrittenCovers ==
  ASSUME Typed, Typed', SumsCover, SpillKnown, SpillBlobWritten
  PROVE  \A b \in Buckets : sums'[b] >= Exact'[b]
<1>1. PICK d : d = cur.digest
  OBVIOUS
<1>2. /\ pc = "writeBlob" /\ d \in Digests
      /\ blobs'[d] # None /\ blobs'[d].tier = "Disk"
      /\ \A e \in Digests \ {d} : blobs'[e] = blobs[e]
      /\ sums' = [Monus(sums, "largeBlob", BlobSize[d]) EXCEPT !["blobDisk"] = @ + BlobSize[d]]
      /\ UNCHANGED <<manifests, redis>>
  BY <1>1, SpillBlobWrittenFacts
<1>3. blobs[d] # None /\ blobs[d].tier = "Mem" /\ BlobSize[d] > Threshold
  BY <1>1, <1>2 DEF SpillKnown
<1>4. BlobBucket(d, blobs[d].tier) = "largeBlob" /\ BlobBucket(d, blobs'[d].tier) = "blobDisk"
  BY <1>2, <1>3 DEF BlobBucket
<1>5. PICK n \in Nat : n = BlobSize[d]
  BY <1>2, Constants
<1>6. ASSUME NEW b \in Buckets PROVE sums'[b] >= Exact'[b]
  <2>1. PICK x \in Nat : x = IF b = "largeBlob" THEN n ELSE 0
    OBVIOUS
  <2>2. PICK y \in Nat : y = IF b = "blobDisk" THEN n ELSE 0
    OBVIOUS
  <2>3. x = BlobCharge(d, blobs[d])[b] /\ y = BlobCharge(d, blobs'[d])[b]
    BY <1>2, <1>3, <1>4, <1>5, <2>1, <2>2, BlobChargeOf
  <2>4. Exact'[b] = Exact[b] - x + y /\ Exact[b] \in Nat
    BY <1>2, <2>3, ExactBlobChange
  <2>5. sums \in Amounts /\ sums[b] \in Nat /\ sums[b] >= Exact[b]
    BY <1>2 DEF Typed, Amounts, SumsCover, Evicting, Counted
  <2>6. Monus(sums, "largeBlob", n)[b] = IF b = "largeBlob" THEN (IF sums[b] < n THEN 0 ELSE sums[b] - n) ELSE sums[b]
    BY <2>5, MonusFalls
  <2>7. sums'[b] = IF b = "blobDisk" THEN Monus(sums, "largeBlob", n)[b] + n ELSE Monus(sums, "largeBlob", n)[b]
    <3>1. Monus(sums, "largeBlob", n) \in Amounts
      BY <2>5, MonusType DEF Buckets
    <3> QED
      BY <1>2, <1>5, <3>1 DEF Amounts
  <2>8. sums'[b] >= sums[b] - x + y
    BY <2>1, <2>2, <2>5, <2>6, <2>7
  <2>9. sums'[b] \in Nat
    BY DEF Typed
  <2> QED
    BY <2>4, <2>5, <2>8, <2>9
<1> QED
  BY <1>6

LEMMA BlobGoneCovers ==
  ASSUME Typed, Typed', SumsCover, pc \in Evicting, NEW d \in Digests, blobs[d] # None, blobs'[d] = None,
         \A e \in Digests \ {d} : blobs'[e] = blobs[e], UNCHANGED <<manifests, redis>>,
         sums' = Monus(sums, BlobBucket(d, blobs[d].tier), BlobSize[d]) \/ sums' = sums
  PROVE  \A b \in Buckets : sums'[b] >= Exact'[b]
<1>1. PICK w \in Buckets : w = BlobBucket(d, blobs[d].tier)
  BY BlobBucketType
<1>2. PICK n \in Nat : n = BlobSize[d]
  BY Constants
<1>3. ASSUME NEW b \in Buckets PROVE sums'[b] >= Exact'[b]
  <2>1. PICK x \in Nat : x = IF b = w THEN n ELSE 0
    OBVIOUS
  <2>2. x = BlobCharge(d, blobs[d])[b] /\ 0 = BlobCharge(d, blobs'[d])[b]
    BY <1>1, <1>2, <2>1, BlobChargeOf
  <2>3. Exact'[b] = Exact[b] - x + 0 /\ Exact[b] \in Nat /\ Exact'[b] \in Nat
    BY <2>2, ExactBlobChange
  <2>4. sums \in Amounts /\ sums[b] \in Nat /\ sums[b] >= Exact[b]
    BY DEF Typed, Amounts, SumsCover
  <2>5. Monus(sums, w, n)[b] = IF b = w THEN (IF sums[b] < n THEN 0 ELSE sums[b] - n) ELSE sums[b]
    BY <2>4, MonusFalls
  <2> QED
    BY <1>1, <1>2, <2>1, <2>3, <2>4, <2>5
<1> QED
  BY <1>3

-----------------------------------------------------------------------------
\* A step of the loop or of the sweep.
LEMMA EvictingCovers ==
  ASSUME Typed, Typed', SumsCover, SpillKnown, RedisListed, Pass \/ Rest, pc \in Evicting, pc' \in Evicting
  PROVE  \A b \in Buckets : sums'[b] >= Exact'[b]
<1>1. CASE \E h \in DOMAIN heaps : \E c \in heaps[h] : DropRedis(h, c)
  BY <1>1, DropRedisCovers
<1>2. CASE \E h \in DOMAIN heaps : \E c \in heaps[h] : DropManifest(h, c)
  <2>1. PICK h \in DOMAIN heaps : \E c \in heaps[h] : DropManifest(h, c)
    BY <1>2
  <2>2. PICK c \in heaps[h] : DropManifest(h, c)
    BY <2>1
  <2>3. \A b \in Buckets : sums'[b] >= ManifestBytes'[b] + BlobBytes[b] + RedisBytes[b]
    BY <2>2, DropManifestCovers
  <2>4. BlobBytes' = BlobBytes /\ RedisBytes' = RedisBytes
    BY <2>2, DropManifestFacts, BlobBytesKept, RedisBytesKept
  <2> QED
    BY <2>3, <2>4, NextBytesNat DEF BytesAdd
<1>3. CASE SpillRedisWritten
  BY <1>3, SpillRedisWrittenCovers
<1>4. CASE SpillBlobWritten
  BY <1>4, SpillBlobWrittenCovers
<1>5. CASE UNCHANGED <<blobs, redis, sums>> /\ \A m \in Manifests : manifests'[m] = None <=> manifests[m] = None
  <2>1. ManifestBytes' = ManifestBytes /\ BlobBytes' = BlobBytes /\ RedisBytes' = RedisBytes
    BY <1>5, ManifestBytesKept, BlobBytesKept, RedisBytesKept
  <2>2. \A b \in Buckets : Exact'[b] = Exact[b]
    BY <2>1, BytesNat, NextBytesNat DEF BytesAdd
  <2> QED
    BY <1>5, <2>2 DEF SumsCover
<1>6. CASE \E d \in Digests : DropRef(d)
  <2>1. PICK d \in Digests : DropRef(d)
    BY <1>6
  <2>2. CASE LastReference(d)
    <3>1. /\ \A e \in Digests \ {d} : blobs'[e] = blobs[e]
          /\ blobs' = [blobs EXCEPT ![d] = None]
          /\ sums' = Monus(sums, BlobBucket(d, blobs[d].tier), BlobSize[d])
          /\ UNCHANGED <<manifests, redis>>
      BY <2>1, <2>2, DropRefFacts
    <3>2. blobs[d] # None /\ blobs'[d] = None
      BY <2>2, <3>1 DEF LastReference, Typed
    <3> QED
      BY <3>1, <3>2, BlobGoneCovers
  <2>3. CASE ~LastReference(d)
    BY <1>5, <2>1, <2>3, DropRefFacts
  <2> QED
    BY <2>2, <2>3
<1>7. CASE \E d \in Digests : Sweep(d)
  <2>1. PICK d \in Digests : Sweep(d)
    BY <1>7
  <2>2. CASE Swept(d)
    <3>1. /\ \A e \in Digests \ {d} : blobs'[e] = blobs[e]
          /\ blobs'[d] = None /\ sums' = sums
          /\ UNCHANGED <<manifests, redis>>
      BY <2>1, <2>2, SweepFacts
    <3>2. blobs[d] # None
      BY <2>2 DEF Swept
    <3> QED
      BY <3>1, <3>2, BlobGoneCovers
  <2>3. CASE ~Swept(d)
    BY <1>5, <2>1, <2>3, SweepFacts
  <2> QED
    BY <2>2, <2>3
<1>8. CASE \E c \in heaps["large"] : SpillManifest(c)
  BY <1>5, <1>8, SpillManifestFacts
<1>9. CASE \/ SpillManifestDone \/ Untag \/ DropDone \/ LoopEnds \/ Rest
           \/ \E h \in DOMAIN heaps : \E c \in heaps[h] : Skip(h, c)
           \/ \E c \in heaps["large"] : SpillRedis(c)
           \/ \E d \in Digests : SpillRef(d)
  <2>1. UNCHANGED <<manifests, blobs, redis, sums>>
    BY <1>9 DEF SpillManifestDone, Untag, DropDone, LoopEnds, Skip, SpillRedis, SpillRef, Rest, local, shared
  <2> QED
    BY <1>5, <2>1
<1>10. ~ScanBlobs /\ ~ScanManifests /\ ~ScanRedis /\ ~Publish /\ ~WriteFails
  BY DEF ScanBlobs, ScanManifests, ScanRedis, Publish, WriteFails, Evicting, Counted
<1> QED
  BY <1>1, <1>2, <1>3, <1>4, <1>6, <1>7, <1>8, <1>9, <1>10 DEF Pass

LEMMA BytesUnchanged ==
  ASSUME Typed, Typed', UNCHANGED <<manifests, blobs, redis>>
  PROVE  /\ ManifestBytes' = ManifestBytes /\ BlobBytes' = BlobBytes /\ RedisBytes' = RedisBytes
         /\ \A b \in Buckets : Exact'[b] = Exact[b]
<1>1. ManifestBytes' = ManifestBytes /\ BlobBytes' = BlobBytes /\ RedisBytes' = RedisBytes
  BY ManifestBytesKept, BlobBytesKept, RedisBytesKept
<1> QED
  BY <1>1, BytesNat, NextBytesNat DEF BytesAdd

LEMMA SumsCoverStep ==
  ASSUME Typed, Typed', SumsCover, SpillKnown, RedisListed, Pass \/ Rest
  PROVE  SumsCover'
<1>1. usage'["manifest"] = ManifestBytes'["manifest"]
  <2>1. CASE \E h \in DOMAIN heaps : \E c \in heaps[h] : DropManifest(h, c)
    BY <2>1, DropManifestCovers
  <2>2. CASE \A h \in DOMAIN heaps : \A c \in heaps[h] : ~DropManifest(h, c)
    <3>1. usage'["manifest"] = usage["manifest"] /\ ManifestBytes' = ManifestBytes
      BY <2>2, ManifestUsageRest, ManifestBytesRest
    <3> QED
      BY <3>1 DEF SumsCover
  <2> QED
    BY <2>1, <2>2
<1>2. CASE Rest
  <2>1. UNCHANGED <<manifests, blobs, redis, usage, sums, pc>>
    BY <1>2 DEF Rest, shared, local
  <2>2. /\ ManifestBytes' = ManifestBytes /\ BlobBytes' = BlobBytes
        /\ \A b \in Buckets : Exact'[b] = Exact[b]
    BY <2>1, BytesUnchanged
  <2> QED
    BY <1>1, <2>1, <2>2, Zenon DEF SumsCover
<1>3. CASE Pass /\ pc' = "idle"
  <2>1. Publish
    BY <1>3, PcFrame DEF WriteFails
  <2>2. /\ pc = "sweep" /\ usage' = [sums EXCEPT !["manifest"] = usage["manifest"]]
        /\ UNCHANGED <<manifests, blobs, redis>>
    BY <2>1 DEF Publish
  <2>3. \A b \in Buckets : Exact'[b] = Exact[b]
    BY <2>2, BytesUnchanged
  <2>4. ASSUME NEW b \in Buckets PROVE usage'[b] >= Exact'[b]
    <3>1. CASE b = "manifest"
      <4>1. usage'[b] = usage["manifest"] /\ usage["manifest"] = ManifestBytes["manifest"]
        BY <2>2, <3>1 DEF SumsCover, Typed
      <4>2. Exact["manifest"] = ManifestBytes["manifest"] /\ ManifestBytes["manifest"] \in Nat
        BY <3>1, ExactManifest, BytesNat DEF BytesAdd
      <4> QED
        BY <2>3, <3>1, <4>1, <4>2
    <3>2. CASE b # "manifest"
      <4>1. usage'[b] = sums[b]
        BY <2>2, <3>2 DEF Typed
      <4>2. sums[b] >= Exact[b]
        BY <2>2 DEF SumsCover, Evicting, Counted
      <4> QED
        BY <2>3, <4>1, <4>2
    <3> QED
      BY <3>1, <3>2
  <2> QED
    BY <1>1, <1>3, <2>4 DEF SumsCover, Evicting, Counted
<1>4. CASE Pass /\ pc' = "manifests"
  <2>1. ScanBlobs
    BY <1>4, PcFrame
  <2>2. sums' = BlobBytes /\ UNCHANGED blobs
    BY <2>1 DEF ScanBlobs, shared
  <2>3. BlobBytes' = BlobBytes
    BY <2>2, BlobBytesKept
  <2> QED
    BY <1>1, <1>4, <2>2, <2>3 DEF SumsCover, Evicting, Counted
<1>5. CASE Pass /\ pc' = "redis"
  <2>1. ScanManifests
    BY <1>5, PcFrame
  <2>2. pc = "manifests" /\ sums' = Plus(sums, ManifestBytes) /\ UNCHANGED <<manifests, blobs, redis>>
    BY <2>1 DEF ScanManifests, shared
  <2>3. BlobBytes' = BlobBytes /\ ManifestBytes' = ManifestBytes /\ sums = BlobBytes
    BY <2>2, BytesUnchanged DEF SumsCover
  <2>4. sums' = Plus(BlobBytes', ManifestBytes')
    BY <2>2, <2>3
  <2> QED
    BY <1>1, <1>5, <2>4, Zenon DEF SumsCover, Evicting, Counted
<1>6. CASE Pass /\ pc' \in Evicting
  <2>1. \A b \in Buckets : sums'[b] >= Exact'[b]
    <3>1. CASE ScanRedis
      <4>1. pc = "redis" /\ sums' = Plus(sums, RedisBytes) /\ UNCHANGED <<manifests, blobs, redis>>
        BY <3>1 DEF ScanRedis, shared
      <4>2. sums = Plus(BlobBytes, ManifestBytes)
        BY <4>1 DEF SumsCover
      <4>3. BlobBytes \in Amounts /\ ManifestBytes \in Amounts /\ RedisBytes \in Amounts /\ sums \in Amounts
        BY BytesType DEF Typed, Amounts
      <4>4. ASSUME NEW b \in Buckets PROVE sums'[b] = BlobBytes[b] + ManifestBytes[b] + RedisBytes[b]
        BY <4>1, <4>2, <4>3, PlusType
      <4>5. \A b \in Buckets : Exact'[b] = Exact[b]
        BY <4>1, BytesUnchanged
      <4> QED
        BY <4>4, <4>5, BytesNat DEF BytesAdd
    <3>2. CASE ~ScanRedis
      BY <1>6, <3>2, PcFrame, EvictingCovers
    <3> QED
      BY <3>1, <3>2
  <2> QED
    BY <1>1, <1>6, <2>1 DEF SumsCover, Evicting, Counted
<1>7. CASE Pass /\ pc' = "failed"
  BY <1>1, <1>7 DEF SumsCover, Evicting, Counted
<1>8. pc' \in {"idle", "manifests", "failed", "redis"} \cup Evicting
  BY DEF Typed, PassOK, Evicting
<1> QED
  BY <1>2, <1>3, <1>4, <1>5, <1>6, <1>7, <1>8

-----------------------------------------------------------------------------
(***************************************************************************)
(* The end of the loop, and the invariant.                                 *)
(***************************************************************************)
LEMMA PoolKept == UNCHANGED <<heaps, sums>> => Pool' = Pool
<1>1. SUFFICES ASSUME heaps' = heaps, sums' = sums PROVE Pool' = Pool
  OBVIOUS
<1>2. Small(sums)' = Small(sums) /\ Memory(sums)' = Memory(sums) /\ Disk(sums)' = Disk(sums)
  BY <1>1 DEF Small, Memory, Disk
<1>3. (PopsSmall' <=> PopsSmall) /\ (PopsLarge' <=> PopsLarge) /\ (PopsDisk' <=> PopsDisk)
  BY <1>1, <1>2 DEF PopsSmall, PopsLarge, PopsDisk
<1> QED
  BY <1>3, Zenon DEF Pool

LEMMA NothingToPopStep ==
  ASSUME Typed, NothingToPop, Pass \/ Rest
  PROVE  NothingToPop'
<1>1. SUFFICES ASSUME pc' = "sweep" PROVE Pool' = None
  BY DEF NothingToPop
<1>2. CASE Rest
  BY <1>1, <1>2, PoolKept DEF Rest, local, NothingToPop
<1>3. CASE LoopEnds
  BY <1>3, PoolKept DEF LoopEnds
<1>4. CASE \E d \in Digests : Sweep(d)
  BY <1>4, SweepFacts, PoolKept DEF NothingToPop
<1> QED
  BY <1>1, <1>2, <1>3, <1>4, PcFrame

LEMMA QuietInit == Init => QuietInv
<1>1. SUFFICES ASSUME Init PROVE QuietInv
  OBVIOUS
<1>2. pc = "idle" /\ ops = 0 /\ puts = {} /\ pushed = {} /\ usage = Exact
  BY <1>1 DEF Init
<1>3. Typed
  BY <1>1, InitTyped
<1>4. BusyInv
  BY <1>1, BusyInit
<1>5. Undisturbed /\ BlobsKnown /\ SpillKnown /\ UnevictedCounted /\ SweptClean
  BY <1>2 DEF Undisturbed, BlobsKnown, SpillKnown, UnevictedCounted, SweptClean, Counted
<1>6. SmallListed /\ LargeListed /\ LargeCovered /\ DiskListed /\ RedisListed /\ NothingToPop
  BY <1>2 DEF SmallListed, LargeListed, LargeCovered, DiskListed, RedisListed, NothingToPop, Counted, Evicting
<1>8. SumsCover
  <2>1. \A b \in Buckets : usage[b] >= Exact[b]
    <3>1. \A b \in Buckets : Exact[b] \in Nat
      BY <1>3, BytesNat DEF BytesAdd
    <3> QED
      BY <1>2, <3>1
  <2>2. usage["manifest"] = ManifestBytes["manifest"]
    BY <1>2, <1>3, ExactManifest
  <2> QED
    BY <1>2, <2>1, <2>2 DEF SumsCover, Counted, Evicting
<1> QED
  BY <1>4, <1>5, <1>6, <1>8 DEF QuietInv

LEMMA QuietNext ==
  ASSUME MaxOps = 0, QuietInv, [Next]_vars
  PROVE  QuietInv'
<1>1. /\ Typed /\ RefsCounted /\ SweepsKnown /\ TimesKnown /\ Undisturbed /\ BlobsKnown /\ SpillKnown
      /\ UnevictedCounted /\ SweptClean /\ SmallListed /\ LargeListed /\ LargeCovered /\ DiskListed
      /\ RedisListed /\ SumsCover /\ NothingToPop /\ BusyInv
  BY DEF QuietInv, BusyInv
<1>2. Pass \/ Rest
  BY <1>1, QuietStep
<1>3. Typed' /\ RefsCounted' /\ SweepsKnown' /\ TimesKnown'
  BY <1>1, NextTyped, NextCounts, NextSweeps, TimesStep DEF BusyInv
<1>4. Undisturbed' /\ BlobsKnown' /\ SpillKnown'
  BY <1>1, <1>2, UndisturbedStep, BlobsKnownStep, SpillKnownStep
<1>5. UnevictedCounted' /\ SweptClean' /\ SmallListed' /\ LargeListed'
  BY <1>1, <1>2, UnevictedStep, SweptCleanStep, SmallListedStep, LargeListedStep
<1>6. LargeCovered' /\ DiskListed' /\ RedisListed' /\ NothingToPop'
  BY <1>1, <1>2, LargeCoveredStep, DiskListedStep, RedisListedStep, NothingToPopStep
<1>7. SumsCover'
  BY <1>1, <1>2, <1>3, SumsCoverStep
<1> QED
  BY <1>3, <1>4, <1>5, <1>6, <1>7 DEF QuietInv, BusyInv

\* The inductive invariant of passes nothing disturbs.
THEOREM QuietInvariant == ASSUME MaxOps = 0 PROVE Spec => []QuietInv
<1>1. QuietInv /\ [Next]_vars => QuietInv'
  BY QuietNext
<1> QED
  BY <1>1, QuietInit, PTL DEF Spec

\* A pass leaves no unreferenced blob older than the grace period: what its
\* drops of manifests leave behind, its sweep removes (eviction.rs, evict).
THEOREM SweepIsComplete == ASSUME MaxOps = 0 PROVE Spec => []UnreferencedBlobIsGone
<1>1. QuietInv => UnreferencedBlobIsGone
  <2>1. SUFFICES ASSUME SweptClean PROVE UnreferencedBlobIsGone
    BY DEF QuietInv
  <2> QED
    BY <2>1 DEF SweptClean, UnreferencedBlobIsGone, Ending
<1> QED
  BY <1>1, QuietInvariant, PTL

\* The sums a pass stores into the usage counters of State at its end cover
\* what the maps hold, although they are updated by saturating subtraction
\* and not told of the sweep.
THEOREM PublishedUsageCovers == ASSUME MaxOps = 0 PROVE Spec => []UsageIsNotUnderstated
<1>1. QuietInv => UsageIsNotUnderstated
  BY DEF QuietInv, SumsCover, UsageIsNotUnderstated
<1> QED
  BY <1>1, QuietInvariant, PTL

-----------------------------------------------------------------------------
(***************************************************************************)
(* What follows.                                                           *)
(***************************************************************************)
\* The counts of a pass are in range while it counts.
LEMMA CountsInRange ==
  ASSUME Typed, RefsCounted, UnevictedCounted, SpillKnown, Undisturbed, pc \in Counted, NEW d \in Digests, bk[d] # None
  PROVE  bk[d].unevicted <= bk[d].refs
<1>1. /\ bk[d].refs = Cardinality(Referrers(d)) + Pending(d)
      /\ bk[d].unevicted = Cardinality(Unevicted(d)) + Unreleased(d)
  BY DEF RefsCounted, UnevictedCounted, Undisturbed
<1>2. /\ IsFiniteSet(Referrers(d)) /\ IsFiniteSet(Unevicted(d))
      /\ Cardinality(Referrers(d)) \in Nat /\ Cardinality(Unevicted(d)) \in Nat
  BY CountsAreNat
<1>3. Unevicted(d) \subseteq Referrers(d) /\ Cardinality(Unevicted(d)) <= Cardinality(Referrers(d))
  BY <1>2, FS_Subset DEF Unevicted
<1>4. CASE Unreleased(d) = 0
  BY <1>1, <1>2, <1>3, <1>4 DEF Pending
<1>5. CASE Unreleased(d) = 1 /\ pc \in {"untag", "drop"}
  <2>1. Pending(d) = 1
    BY <1>5 DEF Unreleased, Pending
  <2> QED
    BY <1>1, <1>2, <1>3, <1>5, <2>1
<1>6. CASE Unreleased(d) = 1 /\ pc \in {"spill", "writeBlob"}
  <2>1. PICK m : m = cur.candidate.item
    OBVIOUS
  <2>2. m \in Manifests /\ manifests[m] # None /\ manifests[m].evicted /\ d \in Refs[m]
    BY <1>6, <2>1 DEF Typed, PassOK, SpillKnown, Unreleased, ManifestItem
  <2>3. m \in Referrers(d) /\ m \notin Unevicted(d)
    BY <2>2 DEF Referrers, Cached, Unevicted
  <2>4. Cardinality(Unevicted(d)) < Cardinality(Referrers(d))
    BY <1>2, <1>3, <2>3, FS_Subset
  <2>5. Pending(d) = 0
    BY <1>6 DEF Pending
  <2> QED
    BY <1>1, <1>2, <1>6, <2>4, <2>5
<1> QED
  BY <1>4, <1>5, <1>6 DEF Unreleased

CountsOK == \A d \in Digests : bk[d] # None => bk[d].unevicted <= bk[d].refs

LEMMA CountedOK == QuietInv /\ pc \in Counted => CountsOK
BY CountsInRange DEF QuietInv, BusyInv, CountsOK

LEMMA CountedNextOK == QuietInv' /\ pc' \in Counted => CountsOK'
<1>1. (QuietInv /\ pc \in Counted => CountsOK)'
  BY CountedOK, PTL
<1> QED
  BY <1>1

LEMMA CountsOKStep ==
  ASSUME Typed, QuietInv', CountsOK, Pass \/ Rest
  PROVE  CountsOK'
<1>1. CASE pc' \in Counted
  BY <1>1, CountedNextOK
<1>2. CASE ScanBlobs
  <2>1. \A d \in Digests : bk'[d] # None => bk'[d].unevicted = 0 /\ bk'[d].refs = 0
    BY <1>2 DEF ScanBlobs
  <2> QED
    BY <2>1 DEF CountsOK
<1>3. CASE Publish
  BY <1>3 DEF Publish, CountsOK
<1>4. CASE UNCHANGED bk
  BY <1>4 DEF CountsOK
<1> QED
  BY <1>1, <1>2, <1>3, <1>4, BkFrame DEF Rest, local, ScanManifests, DropRef, SpillRef, Counted

\* The types of State and of the pass, and the counts of BlobBk: never
\* negative, and never more unevicted references than references.
THEOREM EvictionTypeCorrect == ASSUME MaxOps = 0 PROVE Spec => []TypeOK
<1>1. Init => CountsOK
  BY DEF Init, CountsOK
<1>2. QuietInv /\ QuietInv' /\ CountsOK /\ [Next]_vars => CountsOK'
  BY QuietStep, CountsOKStep DEF QuietInv, BusyInv
<1>3. QuietInv /\ CountsOK => TypeOK
  <2>1. SUFFICES ASSUME Typed, CountsOK PROVE TypeOK
    BY DEF QuietInv, BusyInv
  <2>2. \A d \in Digests : bk[d] # None => bk[d].refs \in Nat /\ bk[d].unevicted \in 0 .. bk[d].refs
    BY <2>1 DEF Typed, PassOK, BlobBk, CountsOK
  <2> QED
    BY <2>1, <2>2 DEF Typed, TypeOK
<1> QED
  BY <1>1, <1>2, <1>3, QuietInvariant, PTL DEF Spec

-----------------------------------------------------------------------------
\* More bytes in the maps than a target are more bytes in the sums.
LEMMA PoolsCover ==
  ASSUME Typed, SumsCover, pc \in Evicting
  PROVE  Small(sums) >= Small(Exact) /\ Memory(sums) >= Memory(Exact) /\ Disk(sums) >= Disk(Exact)
<1>1. \A b \in Buckets : sums[b] >= Exact[b] /\ sums[b] \in Nat /\ Exact[b] \in Nat
  <2>1. \A b \in Buckets : sums[b] >= Exact[b] /\ sums[b] \in Nat
    BY DEF SumsCover, Typed
  <2>2. \A b \in Buckets : Exact[b] \in Nat
    BY BytesNat DEF BytesAdd
  <2> QED
    BY <2>1, <2>2
<1>2. Small(sums) >= Small(Exact) /\ Small(sums) \in Nat /\ Small(Exact) \in Nat
  <2>1. /\ sums["manifest"] >= Exact["manifest"] /\ sums["manifest"] \in Nat /\ Exact["manifest"] \in Nat
        /\ sums["smallBlob"] >= Exact["smallBlob"] /\ sums["smallBlob"] \in Nat /\ Exact["smallBlob"] \in Nat
        /\ sums["smallRedis"] >= Exact["smallRedis"] /\ sums["smallRedis"] \in Nat /\ Exact["smallRedis"] \in Nat
    BY <1>1 DEF Buckets
  <2> QED
    BY <2>1 DEF Small
<1>3. Memory(sums) >= Memory(Exact)
  BY <1>1, <1>2 DEF Memory, Buckets
<1>4. Disk(sums) >= Disk(Exact)
  BY <1>1 DEF Disk, Buckets
<1> QED
  BY <1>2, <1>3, <1>4

LEMMA PoolsNat ==
  ASSUME Typed
  PROVE  /\ Small(sums) \in Nat /\ Memory(sums) \in Nat /\ Disk(sums) \in Nat
         /\ Small(Exact) \in Nat /\ Memory(Exact) \in Nat /\ Disk(Exact) \in Nat
<1>1. \A b \in Buckets : sums[b] \in Nat /\ Exact[b] \in Nat
  BY BytesNat DEF BytesAdd, Typed
<1> QED
  BY <1>1 DEF Small, Memory, Disk, Buckets

LEMMA TargetsNat == Target(SmallLimit) \in Int /\ Target(MemoryLimit) \in Int /\ Target(DiskLimit) \in Int
BY Constants DEF Target

LEMMA NoPool == Pool = None => ~PopsSmall /\ ~PopsLarge /\ ~PopsDisk
BY NoneAssumption DEF Pool

LEMMA TargetsHold == QuietInv => TargetsMetOrNothingLeft
<1>1. SUFFICES ASSUME QuietInv, Ending PROVE TargetsMetOrNothingLeft
  BY DEF TargetsMetOrNothingLeft
<1>2. /\ Typed /\ SumsCover /\ SmallListed /\ LargeCovered /\ DiskListed /\ RedisListed /\ NothingToPop
      /\ pc = "sweep" /\ pc \in Counted /\ pc \in Evicting
  BY <1>1 DEF QuietInv, BusyInv, Ending, Counted, Evicting
<1>3. ~PopsSmall /\ ~PopsLarge /\ ~PopsDisk
  BY <1>2, NoPool DEF NothingToPop
<1>4. Small(sums) >= Small(Exact) /\ Memory(sums) >= Memory(Exact) /\ Disk(sums) >= Disk(Exact)
  BY <1>2, PoolsCover
<1>5. /\ Small(Exact) > Target(SmallLimit) => heaps["small"] = {}
      /\ Memory(Exact) > Target(MemoryLimit) => heaps["large"] = {} /\ Memory(sums) > Target(MemoryLimit)
      /\ Disk(Exact) > Target(DiskLimit) => heaps["disk"] = {}
  BY <1>2, <1>3, <1>4, PoolsNat, TargetsNat DEF PopsSmall, PopsLarge, PopsDisk
<1>6. ASSUME NEW k \in Keys, redis[k] # None
      PROVE  heaps[HeapOf(redis[k])] # {}
  BY <1>2, <1>6 DEF RedisListed
<1>7. ASSUME Small(Exact) > Target(SmallLimit)
      PROVE  /\ \A m \in Manifests : manifests[m] = None
             /\ \A k \in Keys : redis[k] # None => RedisBucket(redis[k]) # "smallRedis"
  <2>1. \A m \in Manifests : manifests[m] = None
    BY <1>2, <1>5, <1>7 DEF SmallListed, Listed, Cached
  <2>2. \A k \in Keys : redis[k] # None => RedisBucket(redis[k]) # "smallRedis"
    BY <1>5, <1>6, <1>7 DEF HeapOf
  <2> QED
    BY <2>1, <2>2
<1>8. ASSUME Memory(Exact) > Target(MemoryLimit)
      PROVE  /\ \A d \in Digests : Needed(d) /\ blobs[d] # None => BlobTier(d, blobs[d]) # "LargeMem"
             /\ \A k \in Keys : redis[k] # None => RedisBucket(redis[k]) # "largeRedis"
  <2>1. \A d \in Digests : Needed(d) /\ blobs[d] # None => BlobTier(d, blobs[d]) # "LargeMem"
    BY <1>2, <1>5, <1>8 DEF LargeCovered, ToSpill, Listed
  <2>2. \A k \in Keys : redis[k] # None => RedisBucket(redis[k]) # "largeRedis"
    BY <1>5, <1>6, <1>8 DEF HeapOf
  <2> QED
    BY <2>1, <2>2
<1>9. ASSUME Disk(Exact) > Target(DiskLimit)
      PROVE  /\ \A m \in Manifests, d \in Digests :
                  manifests[m] # None /\ d \in Refs[m] /\ blobs[d] # None /\ blobs[d].tier = "Disk" =>
                    manifests[m].evicted /\ \E c \in heaps["large"] : c.kind = "manifest" /\ c.item = m
             /\ \A k \in Keys : redis[k] # None => redis[k].tier # "Disk"
  <2>1. ASSUME NEW m \in Manifests, NEW d \in Digests, manifests[m] # None, d \in Refs[m], blobs[d] # None,
               blobs[d].tier = "Disk"
        PROVE  manifests[m].evicted /\ \E c \in heaps["large"] : c.kind = "manifest" /\ c.item = m
    <3>1. m \in Cached /\ ~Spilling(m) /\ ~Listed(m, "disk")
      BY <1>2, <1>5, <1>9, <2>1 DEF Cached, Spilling, Listed
    <3>2. manifests[m].evicted /\ Listed(m, "large")
      BY <1>2, <2>1, <3>1 DEF DiskListed
    <3> QED
      BY <3>2 DEF Listed
  <2>2. \A k \in Keys : redis[k] # None => redis[k].tier # "Disk"
    BY <1>5, <1>6, <1>9 DEF HeapOf, RedisBucket
  <2> QED
    BY <2>1, <2>2
<1> QED
  BY <1>7, <1>8, <1>9 DEF TargetsMetOrNothingLeft

\* When a pass of evict ends, every pool is below three quarters of its
\* limit or holds nothing more that this pass could have evicted for it.
THEOREM TargetsAreMet == ASSUME MaxOps = 0 PROVE Spec => []TargetsMetOrNothingLeft
BY TargetsHold, QuietInvariant, PTL

-----------------------------------------------------------------------------
KeptStep == \A d \in Digests : Removed(d) => ~Needed(d)

\* A pass nothing disturbs deletes no blob that a cached manifest references:
\* the reference counts of evict are exact.
THEOREM ReferencedBlobsStay == ASSUME MaxOps = 0 PROVE Spec => ReferencedBlobIsKept
<1>1. QuietInv /\ [Next]_vars => [KeptStep]_vars
  <2>1. QuietInv => BusyInv /\ pushed = {}
    BY DEF QuietInv, Undisturbed
  <2> QED
    BY <2>1, LossNeedsPushStep DEF LossStep, KeptStep
<1>2. ReferencedBlobIsKept <=> [][KeptStep]_vars
  BY PTL DEF ReferencedBlobIsKept, KeptStep
<1> QED
  BY <1>1, <1>2, QuietInvariant, PTL DEF Spec

OrderStep ==
  \A m \in Manifests :
    PopsSmall /\ manifests[m] # None /\ manifests'[m] = None =>
      \A n \in Manifests : manifests'[n] # None => manifests[m].used <= manifests[n].used

LEMMA OldestGoesFirst == MaxOps = 0 /\ QuietInv /\ [Next]_vars => OrderStep
<1>1. SUFFICES ASSUME MaxOps = 0, QuietInv, [Next]_vars, NEW m \in Manifests, PopsSmall,
                      manifests[m] # None, manifests'[m] = None, NEW n \in Manifests, manifests'[n] # None
               PROVE  manifests[m].used <= manifests[n].used
  BY DEF OrderStep
<1>2. Typed /\ Undisturbed /\ SmallListed
  BY <1>1 DEF QuietInv, BusyInv
<1>3. Pass \/ Rest
  BY <1>1, <1>2, QuietStep
<1>4. ~UNCHANGED manifests
  BY <1>1
<1>5. \E h \in DOMAIN heaps : \E c \in heaps[h] : DropManifest(h, c)
  BY <1>1, <1>2, <1>3, <1>4, ManifestsFrame, SpillManifestFacts DEF Rest, shared
<1>6. PICK h \in DOMAIN heaps : \E c \in heaps[h] : DropManifest(h, c)
  BY <1>5
<1>7. PICK c \in heaps[h] : DropManifest(h, c)
  BY <1>6
<1>8. /\ Pool = h /\ c \in OldestOf(h) /\ c.item \in Manifests /\ c \in ManifestItem /\ pc = "loop"
      /\ manifests' = [manifests EXCEPT ![c.item] = None]
  BY <1>2, <1>7, DropManifestFacts
<1>9. h = "small"
  BY <1>1, <1>8 DEF Pool
<1>10. c.item = m /\ manifests'[n] = manifests[n] /\ manifests[n] # None
  BY <1>1, <1>2, <1>8 DEF Typed
<1>11. c.time = manifests[m].used
  BY <1>1, <1>2, <1>7, <1>8, <1>9, <1>10 DEF SmallListed, Counted, ManifestItem
<1>12. PICK e \in heaps["small"] : e.kind = "manifest" /\ e.item = n
  BY <1>2, <1>8, <1>10 DEF SmallListed, Counted, Cached, Listed
<1>13. e.time = manifests[n].used
  BY <1>2, <1>8, <1>10, <1>12 DEF SmallListed, Counted
<1>14. c.time <= e.time
  BY <1>8, <1>9, <1>12 DEF OldestOf
<1> QED
  BY <1>11, <1>13, <1>14

\* A manifest that evict drops for small memory is the least recently used
\* one: its heap holds every cached manifest with its time of last use.
THEOREM DropsInOrder == ASSUME MaxOps = 0 PROVE Spec => LeastRecentlyUsedGoesFirst
<1>1. QuietInv /\ [Next]_vars => [OrderStep]_vars
  BY OldestGoesFirst
<1>2. LeastRecentlyUsedGoesFirst <=> [][OrderStep]_vars
  BY PTL DEF LeastRecentlyUsedGoesFirst, OrderStep
<1> QED
  BY <1>1, <1>2, QuietInvariant, PTL DEF Spec

-----------------------------------------------------------------------------
\* A heap that is not empty has a candidate with the oldest time.
LEMMA OldestExists ==
  ASSUME Typed, NEW h \in DOMAIN heaps, heaps[h] # {}
  PROVE  OldestOf(h) # {}
<1> DEFINE T == {c.time : c \in heaps[h]}
<1>1. \A c \in heaps[h] : c.time \in Nat
  BY ItemFacts, Constants DEF Typed, PassOK
<1>2. T \subseteq Nat /\ T # {}
  BY <1>1
<1> HIDE DEF T
<1> DEFINE R == {ss \in Nat \X Nat : ss[1] < ss[2]}
<1>3. \A y \in Nat, z \in Nat : y < z => <<y, z>> \in R
  OBVIOUS
<1>4. IsWellFoundedOn(R, Nat)
  BY NatLessThanWellFounded DEF OpToRel
<1> HIDE DEF R
<1>5. PICK x \in T : \A y \in T : ~(<<y, x>> \in R)
  BY <1>2, <1>4, WFMin
<1>6. ASSUME NEW y \in T PROVE x <= y
  <2>1. x \in Nat /\ y \in Nat /\ ~(<<y, x>> \in R)
    BY <1>2, <1>5
  <2>2. ~(y < x)
    BY <1>3, <2>1
  <2> QED
    BY <2>1, <2>2
<1>7. \A y \in T : x <= y
  BY <1>6
<1> QED
  BY <1>1, <1>5, <1>7 DEF T, OldestOf

\* The time a pass publishes for a heap is not after any of its candidates.
LEMMA OldestTimeBounds ==
  ASSUME Typed, NEW h \in DOMAIN heaps, NEW c \in heaps[h]
  PROVE  OldestTime(h) <= c.time
<1>1. PICK e : e = CHOOSE o \in OldestOf(h) : TRUE
  OBVIOUS
<1>2. e \in OldestOf(h)
  BY <1>1, OldestExists
<1>3. OldestTime(h) = e.time
  BY <1>1 DEF OldestTime
<1> QED
  BY <1>2, <1>3 DEF OldestOf

GaugeStep ==
  pc = "sweep" /\ pc' = "idle" =>
    /\ \A m \in Manifests : manifests[m] # None => oldest'["small"] <= manifests[m].used
    /\ \A k \in Keys : redis[k] # None => oldest'[HeapOf(redis[k])] <= redis[k].acc

LEMMA GaugesAreEarly == MaxOps = 0 /\ QuietInv /\ [Next]_vars => GaugeStep
<1>1. SUFFICES ASSUME MaxOps = 0, QuietInv, [Next]_vars, pc = "sweep", pc' = "idle"
               PROVE  /\ \A m \in Manifests : manifests[m] # None => oldest'["small"] <= manifests[m].used
                      /\ \A k \in Keys : redis[k] # None => oldest'[HeapOf(redis[k])] <= redis[k].acc
  BY DEF GaugeStep
<1>2. Typed /\ Undisturbed /\ SmallListed /\ RedisListed
  BY <1>1 DEF QuietInv, BusyInv
<1>3. Pass
  BY <1>1, <1>2, QuietStep DEF Rest, local
<1>4. Publish
  BY <1>1, <1>3, PcFrame DEF WriteFails
<1>5. /\ DOMAIN oldest = {"small", "large", "disk"} /\ DOMAIN heaps = {"small", "large", "disk"}
      /\ \A h \in DOMAIN oldest : oldest'[h] = OldestTime(h)
  BY <1>2, <1>4 DEF Publish, Typed, PassOK
<1>6. ASSUME NEW m \in Manifests, manifests[m] # None
      PROVE  oldest'["small"] <= manifests[m].used
  <2>1. PICK c \in heaps["small"] : c.kind = "manifest" /\ c.item = m
    BY <1>1, <1>2, <1>6 DEF SmallListed, Counted, Cached, Listed
  <2>2. c.time = manifests[m].used
    BY <1>1, <1>2, <1>6, <2>1 DEF SmallListed, Counted
  <2>3. OldestTime("small") <= c.time
    BY <1>2, <1>5, OldestTimeBounds
  <2> QED
    BY <1>5, <2>2, <2>3
<1>7. ASSUME NEW k \in Keys, redis[k] # None
      PROVE  oldest'[HeapOf(redis[k])] <= redis[k].acc
  <2>1. PICK h \in DOMAIN heaps : h = HeapOf(redis[k])
    BY <1>5 DEF HeapOf
  <2>2. PICK c \in heaps[h] : c.kind = "redis" /\ c.item = k
    BY <1>1, <1>2, <1>7, <2>1 DEF RedisListed, Evicting, Counted
  <2>3. c.time = redis[k].acc
    BY <1>1, <1>2, <1>7, <2>2 DEF RedisListed, Evicting, Counted
  <2>4. OldestTime(h) <= c.time
    BY <1>2, OldestTimeBounds
  <2> QED
    BY <1>5, <2>1, <2>3, <2>4
<1> QED
  BY <1>6, <1>7

\* The oldest_*_touch_time gauges a pass publishes are not after the last use
\* of any manifest or value still cached in their pool.
THEOREM GaugesAreNotTooLate == ASSUME MaxOps = 0 PROVE Spec => GaugeIsNotTooLate
<1>1. QuietInv /\ [Next]_vars => [GaugeStep]_vars
  BY GaugesAreEarly
<1>2. GaugeIsNotTooLate <=> [][GaugeStep]_vars
  BY PTL DEF GaugeIsNotTooLate, GaugeStep
<1> QED
  BY <1>1, <1>2, QuietInvariant, PTL DEF Spec
=============================================================================
