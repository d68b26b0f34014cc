------------------------------ MODULE Eviction ------------------------------
(***************************************************************************)
(* One eviction pass of dockfoxprox (eviction.rs, evict) and the requests  *)
(* that run beside it.  A pass copies what it needs of the three maps into *)
(* local bookkeeping (reference counts, last-access times, three heaps of  *)
(* candidates, seven sums), works on that copy until every pool is below   *)
(* three quarters of its limit, sweeps unreferenced blobs and publishes    *)
(* its sums as the usage counters.                                         *)
(*                                                                         *)
(* The bytes themselves, the files and their ids are the subject of the    *)
(* module TwoTierStore.  Scanning a map is one step; the code walks it     *)
(* shard by shard.                                                         *)
(***************************************************************************)
EXTENDS Integers, FiniteSets, Sums

CONSTANTS
  Manifests, Digests, Keys, Tags,
  Refs,         \* manifest -> the blobs its JSON references
  ManifestSize, \* bytes of a manifest
  BlobSize,     \* digest -> bytes
  RedisSizes,   \* the sizes of redis values
  KeySize,      \* bytes of a redis key
  Threshold,    \* MEMORY_TIER_THRESHOLD
  SmallLimit, MemoryLimit, DiskLimit,
  Grace,        \* BLOB_GRACE_SECONDS
  StartNow,     \* the clock at the start
  MaxNow,       \* bound on the clock
  MaxOps,       \* bound on the requests served; 0: passes run undisturbed
  None          \* no entry in a map, no pool to pop from

ASSUME SizeAssumption ==
  /\ Refs \in [Manifests -> SUBSET Digests]
  /\ BlobSize \in [Digests -> Nat]
  /\ {ManifestSize, KeySize, Threshold, SmallLimit, MemoryLimit, DiskLimit,
      Grace, StartNow, MaxNow, MaxOps} \cup RedisSizes \subseteq Nat
  /\ Grace <= StartNow /\ StartNow <= MaxNow

ASSUME FiniteAssumption == IsFiniteSet(Manifests) /\ IsFiniteSet(Digests) /\ IsFiniteSet(Keys)

VARIABLES
  manifests,  \* State::manifests
  blobs,      \* State::blobs
  redis,      \* State::redis_entries
  tags,       \* State::tags
  usage,      \* the seven usage counters of State
  now,        \* State::now
  oldest,     \* the three oldest_*_touch_time gauges
  puts,       \* manifest PUTs between insert_manifest and tags.insert
  ops,        \* requests served so far
  pc, cur,    \* where the pass is, and what it is working on
  passNow,    \* `now` as the pass read it
  bk,         \* BlobBk: the pass's bookkeeping of blobs
  heaps,      \* the three candidate heaps
  sums,       \* the seven local sums
  pushed      \* history: manifests stored since the pass scanned them

shared == <<manifests, blobs, redis, tags, usage>>
local  == <<pc, cur, passNow, bk, heaps, sums, oldest>>
vars   == <<shared, now, puts, ops, local, pushed>>

Nothing == [todo |-> {}]

Buckets == {"manifest", "smallBlob", "largeBlob", "blobDisk",
            "smallRedis", "largeRedis", "redisDisk"}
Zero == [b \in Buckets |-> 0]

-----------------------------------------------------------------------------
(***************************************************************************)
(* What is charged where (state.rs).                                       *)
(***************************************************************************)
BlobBucket(d, tier) ==
  IF tier = "Disk" THEN "blobDisk"
  ELSE IF BlobSize[d] > Threshold THEN "largeBlob" ELSE "smallBlob"

RedisBucket(e) ==
  IF e.tier = "Disk" THEN "redisDisk"
  ELSE IF e.size > Threshold THEN "largeRedis" ELSE "smallRedis"

BlobCharge(d, b) ==
  IF b = None THEN Zero ELSE [Zero EXCEPT ![BlobBucket(d, b.tier)] = BlobSize[d]]
ManifestCharge(m) == IF m = None THEN Zero ELSE [Zero EXCEPT !["manifest"] = ManifestSize]
ValueCharge(e) == IF e = None THEN Zero ELSE [Zero EXCEPT ![RedisBucket(e)] = e.size]
KeyCharge(e) == IF e = None THEN Zero ELSE [Zero EXCEPT !["smallRedis"] = KeySize]

Plus(u, v) == [b \in Buckets |-> u[b] + v[b]]
Minus(u, v) == [b \in Buckets |-> u[b] - v[b]]
\* u64::saturating_sub on one local sum.
Monus(u, b, n) == [u EXCEPT ![b] = IF @ < n THEN 0 ELSE @ - n]

RedisCharge(e) == Plus(ValueCharge(e), KeyCharge(e))

\* What a walk over each map adds up.
ManifestBytes == [b \in Buckets |-> Sum([m \in Manifests |-> ManifestCharge(manifests[m])[b]])]
BlobBytes  == [b \in Buckets |-> Sum([d \in Digests |-> BlobCharge(d, blobs[d])[b]])]
RedisBytes == [b \in Buckets |-> Sum([k \in Keys |-> RedisCharge(redis[k])[b]])]

\* The counters as a walk over the maps computes them (recompute_usage).
Exact == [b \in Buckets |->
    ManifestBytes[b] + BlobBytes[b] + RedisBytes[b]]

\* insert_blob and remove_blob, insert_manifest and remove_manifest,
\* insert_redis and remove_redis: the map and its counters.
StoreBlob(d, b) ==
  /\ blobs' = [blobs EXCEPT ![d] = b]
  /\ usage' = Minus(Plus(usage, BlobCharge(d, b)), BlobCharge(d, blobs[d]))

StoreManifest(m, x) ==
  /\ manifests' = [manifests EXCEPT ![m] = x]
  /\ usage' = Minus(Plus(usage, ManifestCharge(x)), ManifestCharge(manifests[m]))

StoreRedis(k, e) ==
  /\ redis' = [redis EXCEPT ![k] = e]
  /\ usage' = Minus(Plus(usage, RedisCharge(e)), RedisCharge(redis[k]))

-----------------------------------------------------------------------------
(***************************************************************************)
(* Initially the cache holds what a snapshot may restore: anything, with   *)
(* exact counters; a restored tag may name a manifest that is gone.  The   *)
(* gauges start at the current time.                                       *)
(***************************************************************************)
Times == 0 .. StartNow
ManifestState(times) == {None} \cup [used : times, evicted : BOOLEAN]
BlobState(times) == {None} \cup [tier : {"Mem", "Disk"}, acc : times]
RedisState(times) == {None} \cup [tier : {"Mem", "Disk"}, acc : times, size : RedisSizes]

Init ==
  /\ manifests \in [Manifests -> ManifestState(Times)]
  /\ blobs \in [Digests -> BlobState(Times)]
  /\ redis \in [Keys -> RedisState(Times)]
  /\ tags \in [Tags -> {None} \cup Manifests]
  /\ usage = Exact
  /\ now = StartNow
  /\ puts = {}
  /\ ops = 0
  /\ pc = "idle"
  /\ cur = Nothing
  /\ passNow = 0
  /\ bk = [d \in Digests |-> None]
  /\ heaps = [h \in {"small", "large", "disk"} |-> {}]
  /\ sums = Zero
  /\ oldest = [h \in {"small", "large", "disk"} |-> StartNow]
  /\ pushed = {}

-----------------------------------------------------------------------------
(***************************************************************************)
(* The scans.  evict_loop starts a pass when a counter is over its limit.  *)
(***************************************************************************)
Small(u)  == u["manifest"] + u["smallBlob"] + u["smallRedis"]
Memory(u) == Small(u) + u["largeBlob"] + u["largeRedis"]
Disk(u)   == u["blobDisk"] + u["redisDisk"]

Target(limit) == limit - limit \div 4

OverLimit == \/ Small(usage) > SmallLimit
             \/ Memory(usage) > MemoryLimit
             \/ Disk(usage) > DiskLimit

BlobTier(d, b) ==
  IF b.tier = "Disk" THEN "Disk" ELSE IF BlobSize[d] > Threshold THEN "LargeMem" ELSE "SmallMem"

ScanBlobs ==
  /\ pc = "idle"
  /\ OverLimit
  /\ passNow' = now
  /\ bk' = [d \in Digests |->
              IF blobs[d] = None THEN None
              ELSE [tier |-> BlobTier(d, blobs[d]), refs |-> 0, unevicted |-> 0,
                    acc |-> blobs[d].acc]]
  /\ sums' = BlobBytes
  /\ heaps' = [h \in DOMAIN heaps |-> {}]
  /\ pc' = "manifests"
  /\ UNCHANGED <<shared, now, puts, ops, cur, oldest, pushed>>

ManifestCandidate(m, spilled) ==
  [kind |-> "manifest", item |-> m, time |-> manifests[m].used, spilled |-> spilled]

RedisCandidate(k) ==
  [kind |-> "redis", item |-> k, time |-> redis[k].acc, size |-> redis[k].size]

\* The cached manifests, those that reference d, those of them not marked
\* evicted, and those that reference a blob of a tier.
Cached == {m \in Manifests : manifests[m] # None}
Referrers(d) == {m \in Cached : d \in Refs[m]}
Unevicted(d) == {m \in Referrers(d) : ~manifests[m].evicted}
Referring(tier) == {m \in Cached : \E d \in Refs[m] : bk[d] # None /\ bk[d].tier = tier}

Counts(d) == [tier |-> bk[d].tier, refs |-> Cardinality(Referrers(d)),
              unevicted |-> Cardinality(Unevicted(d)), acc |-> bk[d].acc]

ManifestCandidates(S) == {ManifestCandidate(m, FALSE) : m \in S}

ScanManifests ==
  /\ pc = "manifests"
  /\ bk' = [d \in Digests |-> IF bk[d] = None THEN None ELSE Counts(d)]
  /\ heaps' = [heaps EXCEPT !["small"] = @ \cup ManifestCandidates(Cached),
                            !["large"] = @ \cup ManifestCandidates(Referring("LargeMem")),
                            !["disk"]  = @ \cup ManifestCandidates(Referring("Disk"))]
  /\ sums' = Plus(sums, ManifestBytes)
  /\ pc' = "redis"
  /\ pushed' = {}
  /\ UNCHANGED <<shared, now, puts, ops, cur, passNow, oldest>>

RedisCandidates(b) ==
  {RedisCandidate(k) : k \in {i \in Keys : redis[i] # None /\ RedisBucket(redis[i]) = b}}

ScanRedis ==
  /\ pc = "redis"
  /\ heaps' = [heaps EXCEPT !["small"] = @ \cup RedisCandidates("smallRedis"),
                            !["large"] = @ \cup RedisCandidates("largeRedis"),
                            !["disk"]  = @ \cup RedisCandidates("redisDisk")]
  /\ sums' = Plus(sums, RedisBytes)
  /\ pc' = "loop"
  /\ UNCHANGED <<shared, now, puts, ops, cur, passNow, bk, oldest, pushed>>

-----------------------------------------------------------------------------
(***************************************************************************)
(* The loop.  A candidate is popped from the first pool that is over its   *)
(* target and has one.                                                     *)
(***************************************************************************)
PopsSmall == Small(sums) > Target(SmallLimit) /\ heaps["small"] # {}
PopsLarge == ~PopsSmall /\ Memory(sums) > Target(MemoryLimit) /\ heaps["large"] # {}
PopsDisk  == ~PopsSmall /\ ~PopsLarge /\ Disk(sums) > Target(DiskLimit) /\ heaps["disk"] # {}

Pool == IF PopsSmall THEN "small" ELSE IF PopsLarge THEN "large" ELSE IF PopsDisk THEN "disk" ELSE None

NewestOf(h) == {c \in heaps[h] : \A e \in heaps[h] : c.time >= e.time}

\* The heap pops a candidate with the oldest time.
OldestOf(h) == {c \in heaps[h] : \A e \in heaps[h] : c.time <= e.time}

Pops(h, c) ==
  /\ pc = "loop"
  /\ Pool = h
  /\ c \in OldestOf(h)

Popped(h, c) == [heaps EXCEPT ![h] = @ \ {c}]

\* The popped item has left the cache (or the tier) since the scan.
Skip(h, c) ==
  /\ Pops(h, c)
  /\ \/ c.kind = "manifest" /\ manifests[c.item] = None
     \/ c.kind = "redis" /\ redis[c.item] = None
     \/ /\ c.kind = "redis" /\ h = "large"
        /\ redis[c.item] # None /\ redis[c.item].tier = "Disk"
  /\ heaps' = Popped(h, c)
  /\ UNCHANGED <<shared, now, puts, ops, pc, cur, passNow, bk, sums, oldest, pushed>>

\* remove_redis under small or disk pressure; the key's bytes stay in the sum.
DropRedis(h, c) ==
  /\ Pops(h, c)
  /\ c.kind = "redis" /\ h \in {"small", "disk"}
  /\ redis[c.item] # None
  /\ heaps' = Popped(h, c)
  /\ StoreRedis(c.item, None)
  /\ sums' = Monus(sums, IF h = "small" THEN "smallRedis" ELSE "redisDisk", c.size)
  /\ UNCHANGED <<manifests, blobs, tags, now, puts, ops, pc, cur, passNow, bk, oldest, pushed>>

\* A large redis value is spilled: cloned, written (an await), then stored
\* OnDisk with the candidate's size and time and without the counters.
SpillRedis(c) ==
  /\ Pops("large", c)
  /\ c.kind = "redis"
  /\ redis[c.item] # None
  /\ redis[c.item].tier = "Mem"
  /\ heaps' = Popped("large", c)
  /\ pc' = "writeRedis"
  /\ cur' = [todo |-> {}, candidate |-> c]
  /\ UNCHANGED <<shared, now, puts, ops, passNow, bk, sums, oldest, pushed>>

SpillRedisWritten ==
  /\ pc = "writeRedis"
  /\ LET c == cur.candidate IN
       /\ redis' = [redis EXCEPT ![c.item] = [tier |-> "Disk", acc |-> c.time, size |-> c.size]]
       /\ sums' = [Monus(sums, "largeRedis", c.size) EXCEPT !["redisDisk"] = @ + c.size]
       /\ heaps' = [heaps EXCEPT !["disk"] = @ \cup {c}]
  /\ pc' = "loop"
  /\ cur' = Nothing
  /\ UNCHANGED <<manifests, blobs, tags, usage, now, puts, ops, passNow, bk, oldest, pushed>>

\* A manifest is spilled: marked evicted, then its blobs one by one.
SpillManifest(c) ==
  /\ Pops("large", c)
  /\ c.kind = "manifest"
  /\ manifests[c.item] # None
  /\ heaps' = Popped("large", c)
  /\ manifests' = [manifests EXCEPT ![c.item].evicted = TRUE]
  /\ pc' = "spill"
  /\ cur' = [todo |-> Refs[c.item], candidate |-> c, old |-> manifests[c.item].evicted]
  /\ UNCHANGED <<blobs, redis, tags, usage, now, puts, ops, passNow, bk, sums, oldest, pushed>>

ReleasedTwice(b, old) == [b EXCEPT !.unevicted = @ - 1]

Released(b, old) ==
  IF old \/ b.unevicted = 0 THEN b ELSE [b EXCEPT !.unevicted = @ - 1]

Spillable(d) ==
  /\ bk[d] # None
  /\ Released(bk[d], cur.old).unevicted = 0
  /\ bk[d].tier = "LargeMem"
  /\ blobs[d] # None
  /\ blobs[d].tier = "Mem"

\* The next reference: spilled only once no manifest that is not evicted
\* needs it.
SpillRef(d) ==
  /\ pc = "spill"
  /\ d \in cur.todo
  /\ bk' = IF bk[d] = None THEN bk ELSE [bk EXCEPT ![d] = Released(@, cur.old)]
  /\ IF Spillable(d)
     THEN /\ pc' = "writeBlob"
          /\ cur' = [todo |-> cur.todo \ {d}, candidate |-> cur.candidate, old |-> cur.old,
                     digest |-> d, acc |-> blobs[d].acc, detached |-> FALSE]
     ELSE /\ pc' = pc
          /\ cur' = [cur EXCEPT !.todo = @ \ {d}]
  /\ UNCHANGED <<shared, now, puts, ops, passNow, heaps, sums, oldest, pushed>>

\* The file is written; the OnDisk blob takes the time of the blob the pass
\* cloned, which an upload may have replaced in the map meanwhile.
SpillBlobWritten ==
  /\ pc = "writeBlob"
  /\ StoreBlob(cur.digest, [tier |-> "Disk", acc |-> cur.acc])
  /\ sums' = LET n == BlobSize[cur.digest] IN
               [Monus(sums, "largeBlob", n) EXCEPT !["blobDisk"] = @ + n]
  /\ pc' = "spill"
  /\ cur' = [todo |-> cur.todo, candidate |-> cur.candidate, old |-> cur.old]
  /\ UNCHANGED <<manifests, redis, tags, now, puts, ops, passNow, bk, heaps, oldest, pushed>>

SpillManifestAgain ==
  /\ pc = "spill"
  /\ cur.todo = {}
  /\ heaps' = [heaps EXCEPT !["large"] = @ \cup {cur.candidate}]
  /\ pc' = "loop"
  /\ cur' = Nothing
  /\ UNCHANGED <<shared, now, puts, ops, passNow, bk, sums, oldest, pushed>>

SpillManifestForgotten ==
  /\ pc = "spill"
  /\ cur.todo = {}
  /\ pc' = "loop"
  /\ cur' = Nothing
  /\ UNCHANGED <<shared, now, puts, ops, passNow, bk, heaps, sums, oldest, pushed>>

\* A spilled manifest may be dropped under disk pressure.
SpillManifestDone ==
  /\ pc = "spill"
  /\ cur.todo = {}
  /\ heaps' = [heaps EXCEPT !["disk"] = @ \cup {[cur.candidate EXCEPT !.spilled = TRUE]}]
  /\ pc' = "loop"
  /\ cur' = Nothing
  /\ UNCHANGED <<shared, now, puts, ops, passNow, bk, sums, oldest, pushed>>

\* A write fails: evict returns the error and its loop ends for good.
WriteFails ==
  /\ pc \in {"writeRedis", "writeBlob"}
  /\ pc' = "failed"
  /\ cur' = Nothing
  /\ UNCHANGED <<shared, now, puts, ops, passNow, bk, heaps, sums, oldest, pushed>>

\* A manifest is dropped under small or disk pressure: remove_manifest, then
\* its tags, then its blobs one by one.
DropManifest(h, c) ==
  /\ Pops(h, c)
  /\ c.kind = "manifest" /\ h \in {"small", "disk"}
  /\ manifests[c.item] # None
  /\ heaps' = Popped(h, c)
  /\ StoreManifest(c.item, None)
  /\ sums' = Monus(sums, "manifest", ManifestSize)
  /\ pc' = "untag"
  /\ cur' = [todo |-> Refs[c.item], candidate |-> c, old |-> manifests[c.item].evicted]
  /\ UNCHANGED <<blobs, redis, tags, now, puts, ops, passNow, bk, oldest, pushed>>

UntagNothing ==
  /\ pc = "untag"
  /\ pc' = "drop"
  /\ UNCHANGED <<shared, now, puts, ops, cur, passNow, bk, heaps, sums, oldest, pushed>>

Untag ==
  /\ pc = "untag"
  /\ tags' = [t \in Tags |-> IF tags[t] = cur.candidate.item THEN None ELSE tags[t]]
  /\ pc' = "drop"
  /\ UNCHANGED <<manifests, blobs, redis, usage, now, puts, ops, cur, passNow, bk, heaps,
                 sums, oldest, pushed>>

AnyReference(d) ==
  /\ bk[d] # None
  /\ bk[d].acc <= passNow - Grace
  /\ blobs[d] # None

UnreferencedNow(d) ==
  /\ bk[d] # None
  /\ bk[d].refs <= 1
  /\ blobs[d] # None

LastReference(d) ==
  /\ bk[d] # None
  /\ bk[d].refs <= 1
  /\ bk[d].acc <= passNow - Grace
  /\ blobs[d] # None

Dereferenced(b) == [b EXCEPT !.refs = IF @ = 0 THEN 0 ELSE @ - 1]

\* The next reference: the blob goes with its last reference, unless it is
\* younger than the grace period.
DropRef(d) ==
  /\ pc = "drop"
  /\ d \in cur.todo
  /\ bk' = IF bk[d] = None THEN bk
           ELSE [bk EXCEPT ![d] = Dereferenced(Released(@, cur.old))]
  /\ IF LastReference(d)
     THEN /\ StoreBlob(d, None)
          /\ sums' = Monus(sums, BlobBucket(d, blobs[d].tier), BlobSize[d])
     ELSE UNCHANGED <<blobs, usage, sums>>
  /\ cur' = [cur EXCEPT !.todo = @ \ {d}]
  /\ UNCHANGED <<manifests, redis, tags, now, puts, ops, pc, passNow, heaps, oldest, pushed>>

DropDone ==
  /\ pc = "drop"
  /\ cur.todo = {}
  /\ pc' = "loop"
  /\ cur' = Nothing
  /\ UNCHANGED <<shared, now, puts, ops, passNow, bk, heaps, sums, oldest, pushed>>

-----------------------------------------------------------------------------
(***************************************************************************)
(* The unreferenced sweep and the end of the pass.                         *)
(***************************************************************************)
LoopEnds ==
  /\ pc = "loop"
  /\ Pool = None
  /\ pc' = "sweep"
  /\ cur' = [todo |-> {d \in Digests : bk[d] # None}]
  /\ UNCHANGED <<shared, now, puts, ops, passNow, bk, heaps, sums, oldest, pushed>>

SweptNever(d) == FALSE

Swept(d) == bk[d].refs = 0 /\ passNow - bk[d].acc >= Grace /\ blobs[d] # None

\* The local sums are not told.
Sweep(d) ==
  /\ pc = "sweep"
  /\ d \in cur.todo
  /\ IF Swept(d) THEN StoreBlob(d, None) ELSE UNCHANGED <<blobs, usage>>
  /\ cur' = [cur EXCEPT !.todo = @ \ {d}]
  /\ UNCHANGED <<manifests, redis, tags, now, puts, ops, pc, passNow, bk, heaps, sums, oldest, pushed>>

NewestTime(h) == IF heaps[h] = {} THEN passNow ELSE (CHOOSE c \in NewestOf(h) : TRUE).time

OldestTime(h) == IF heaps[h] = {} THEN passNow ELSE (CHOOSE c \in OldestOf(h) : TRUE).time

PublishSwapped ==
  /\ pc = "sweep"
  /\ cur.todo = {}
  /\ oldest' = [h \in DOMAIN oldest |-> OldestTime(h)]
  /\ usage' = [sums EXCEPT !["manifest"] = usage["manifest"],
                           !["blobDisk"] = sums["redisDisk"], !["redisDisk"] = sums["blobDisk"]]
  /\ pc' = "idle"
  /\ cur' = Nothing
  /\ passNow' = 0
  /\ bk' = [d \in Digests |-> None]
  /\ heaps' = [h \in DOMAIN heaps |-> {}]
  /\ sums' = Zero
  /\ pushed' = {}
  /\ UNCHANGED <<manifests, blobs, redis, tags, now, puts, ops>>

\* The gauges are set and the sums stored, all but the manifests'.
Publish ==
  /\ pc = "sweep"
  /\ cur.todo = {}
  /\ oldest' = [h \in DOMAIN oldest |-> OldestTime(h)]
  /\ usage' = [sums EXCEPT !["manifest"] = usage["manifest"]]
  /\ pc' = "idle"
  /\ cur' = Nothing
  /\ passNow' = 0
  /\ bk' = [d \in Digests |-> None]
  /\ heaps' = [h \in DOMAIN heaps |-> {}]
  /\ sums' = Zero
  /\ pushed' = {}
  /\ UNCHANGED <<manifests, blobs, redis, tags, now, puts, ops>>

Pass ==
  \/ ScanBlobs \/ ScanManifests \/ ScanRedis
  \/ \E h \in DOMAIN heaps : \E c \in heaps[h] : Skip(h, c) \/ DropRedis(h, c) \/ DropManifest(h, c)
  \/ \E c \in heaps["large"] : SpillRedis(c) \/ SpillManifest(c)
  \/ SpillRedisWritten \/ SpillBlobWritten \/ SpillManifestDone \/ WriteFails
  \/ \E d \in Digests : SpillRef(d) \/ DropRef(d) \/ Sweep(d)
  \/ Untag \/ DropDone \/ LoopEnds \/ Publish
-----------------------------------------------------------------------------
(***************************************************************************)
(* Requests beside the pass.  Every one of them counts against MaxOps.     *)
(***************************************************************************)
Request == ops < MaxOps /\ ops' = ops + 1

\* The pass holds the guard of the manifest it spills.
Guarded(m) == pc \in {"spill", "writeBlob"} /\ cur.candidate.item = m

\* The end of an upload or a fill.
PutBlob(d) ==
  /\ Request
  /\ StoreBlob(d, [tier |-> "Mem", acc |-> now])
  /\ cur' = IF pc = "writeBlob" /\ cur.digest = d THEN [cur EXCEPT !.detached = TRUE] ELSE cur
  /\ UNCHANGED <<manifests, redis, tags, now, puts, pc, passNow, bk, heaps, sums, oldest, pushed>>

\* HEAD or GET of a cached blob.
HitBlob(d) ==
  /\ Request
  /\ blobs[d] # None
  /\ blobs' = [blobs EXCEPT ![d].acc = now]
  /\ cur' = IF pc = "writeBlob" /\ cur.digest = d /\ ~cur.detached
            THEN [cur EXCEPT !.acc = now] ELSE cur
  /\ UNCHANGED <<manifests, redis, tags, usage, now, puts, pc, passNow, bk, heaps, sums, oldest, pushed>>

\* PUT of a manifest, or the store of a pulled one: insert_manifest.
PutManifest(m) ==
  /\ Request
  /\ ~Guarded(m)
  /\ StoreManifest(m, [used |-> now, evicted |-> FALSE])
  /\ puts' = puts \cup {m}
  /\ pushed' = pushed \cup (IF pc \in {"idle", "manifests"} THEN {} ELSE {m})
  /\ UNCHANGED <<blobs, redis, tags, now, local>>

\* tags.insert, under the reference and again under the digest.  A pulled
\* manifest gets no tag.
PutTag(m, t) ==
  /\ m \in puts
  /\ tags' = [tags EXCEPT ![t] = m]
  /\ puts' \in {puts, puts \ {m}}
  /\ UNCHANGED <<manifests, blobs, redis, usage, now, ops, local, pushed>>

HitManifest(m) ==
  /\ Request
  /\ manifests[m] # None
  /\ manifests' = [manifests EXCEPT ![m] = [used |-> now, evicted |-> FALSE]]
  /\ UNCHANGED <<blobs, redis, tags, usage, now, puts, local, pushed>>

\* SET, and the promotion of a GET that read a file.
SetRedis(k, n) ==
  /\ Request
  /\ StoreRedis(k, [tier |-> "Mem", acc |-> now, size |-> n])
  /\ UNCHANGED <<manifests, blobs, tags, now, puts, local, pushed>>

\* GET of a value in memory.
HitRedis(k) ==
  /\ Request
  /\ redis[k] # None
  /\ redis[k].tier = "Mem"
  /\ redis' = [redis EXCEPT ![k].acc = now]
  /\ UNCHANGED <<manifests, blobs, tags, usage, now, puts, local, pushed>>

DelRedis(k) ==
  /\ Request
  /\ redis[k] # None
  /\ StoreRedis(k, None)
  /\ UNCHANGED <<manifests, blobs, tags, now, puts, local, pushed>>

\* FLUSHALL: the entries, then the three counters set to zero, in one step
\* here (TwoTierStore and Pressure take it apart).
FlushRedis ==
  /\ Request
  /\ redis' = [k \in Keys |-> None]
  /\ usage' = [usage EXCEPT !["smallRedis"] = 0, !["largeRedis"] = 0, !["redisDisk"] = 0]
  /\ UNCHANGED <<manifests, blobs, tags, now, puts, local, pushed>>

\* time_updater
Tick ==
  /\ now < MaxNow
  /\ now' = now + 1
  /\ UNCHANGED <<shared, puts, ops, local, pushed>>

Clients ==
  \/ \E d \in Digests : PutBlob(d) \/ HitBlob(d)
  \/ \E m \in Manifests : PutManifest(m) \/ HitManifest(m)
  \/ \E m \in Manifests, t \in Tags : PutTag(m, t)
  \/ \E k \in Keys : HitRedis(k) \/ DelRedis(k)
  \/ \E k \in Keys, n \in RedisSizes : SetRedis(k, n)
  \/ FlushRedis
  \/ Tick

Next == Pass \/ Clients

Spec == Init /\ [][Next]_vars

\* The eviction task is polled until its pass is over; clients owe nothing.
FairSpec == Spec /\ WF_vars(Pass)

-----------------------------------------------------------------------------
(***************************************************************************)
(* Properties.                                                             *)
(***************************************************************************)
\* The type of the state; the reference counts of a pass never go below
\* zero, and no more references are unevicted than there are.
TypeOK ==
  /\ manifests \in [Manifests -> ManifestState(0 .. MaxNow)]
  /\ blobs \in [Digests -> BlobState(0 .. MaxNow)]
  /\ redis \in [Keys -> RedisState(0 .. MaxNow)]
  /\ tags \in [Tags -> Manifests \cup {None}]
  /\ usage \in [Buckets -> Int]
  /\ now \in StartNow .. MaxNow
  /\ puts \in SUBSET Manifests
  /\ ops \in 0 .. MaxOps
  /\ pushed \in SUBSET Manifests
  /\ sums \in [Buckets -> Nat]
  /\ \A d \in Digests : bk[d] # None => bk[d].refs \in Nat /\ bk[d].unevicted \in 0 .. bk[d].refs

Needed(d) == Referrers(d) # {}

Removed(d) == blobs[d] # None /\ blobs'[d] = None

\* A pass never removes a blob that a cached manifest references
\* (eviction.rs, evict, deletes a blob when its reference count is 0).
ReferencedBlobIsKept == [][\A d \in Digests : Removed(d) => ~Needed(d)]_vars

\* Only a push that overlaps the pass can mislead its reference counts: a
\* blob that a cached manifest references is kept, whichever heaps the
\* manifests are popped from, in whichever order and whatever is read, set,
\* uploaded or replaced meanwhile, unless a manifest that references it was
\* stored since the pass counted.
LossNeedsPush ==
  [][\A d \in Digests :
       Removed(d) /\ Needed(d) => \E m \in pushed : d \in Refs[m]]_vars

\* A blob used less than Grace seconds ago is deleted in one way only: it was
\* used, or uploaded again, after the pass read its clock.  eviction.rs:17
\* says that "Blobs younger than this are never deleted by eviction"; a pass
\* judges by the access times of its scan (eviction.rs:458 and 486), so a
\* later hit does not count.  Every blob the pass removes that was last used
\* before that is at least Grace seconds old when it goes, through whichever
\* spill, drop or sweep, and whatever is served beside the pass.
YoungLossNeedsHit ==
  [][\A d \in Digests :
       Removed(d) => now - blobs[d].acc >= Grace \/ blobs[d].acc >= passNow]_vars

\* The pass is over, its counters not yet published.
Ending == pc = "sweep" /\ cur.todo = {}

\* After a pass no blob older than the grace period is left without a
\* manifest that references it.
UnreferencedBlobIsGone ==
  Ending => \A d \in Digests :
    blobs[d] # None /\ ~Needed(d) => passNow - blobs[d].acc < Grace

\* A pass meets every target or leaves nothing it could still have evicted:
\* over the small target no manifest and no small value is left, over the
\* memory target no large value and no referenced large blob is in memory,
\* over the disk target no value is on disk, and a referenced blob only when
\* its manifests were marked evicted before and are still among the
\* candidates for large memory.
TargetsMetOrNothingLeft ==
  Ending =>
    /\ Small(Exact) > Target(SmallLimit) =>
         /\ \A m \in Manifests : manifests[m] = None
         /\ \A k \in Keys : redis[k] # None => RedisBucket(redis[k]) # "smallRedis"
    /\ Memory(Exact) > Target(MemoryLimit) =>
         /\ \A d \in Digests : Needed(d) /\ blobs[d] # None => BlobTier(d, blobs[d]) # "LargeMem"
         /\ \A k \in Keys : redis[k] # None => RedisBucket(redis[k]) # "largeRedis"
    /\ Disk(Exact) > Target(DiskLimit) =>
         /\ \A m \in Manifests, d \in Digests :
              manifests[m] # None /\ d \in Refs[m] /\ blobs[d] # None /\ blobs[d].tier = "Disk" =>
                manifests[m].evicted /\ \E c \in heaps["large"] : c.kind = "manifest" /\ c.item = m
         /\ \A k \in Keys : redis[k] # None => redis[k].tier # "Disk"

\* A manifest dropped for small memory is the least recently used one.
LeastRecentlyUsedGoesFirst ==
  [][\A m \in Manifests :
       PopsSmall /\ manifests[m] # None /\ manifests'[m] = None =>
         \A n \in Manifests : manifests'[n] # None => manifests[m].used <= manifests[n].used]_vars

\* A pass nothing disturbs never publishes less than the cache holds.
\* (Requests beside a pass change the maps after they were summed; what that
\* does to the counters is the subject of the module Pressure.)
UsageIsNotUnderstated == pc = "idle" => \A b \in Buckets : usage[b] >= Exact[b]

\* A tag that names no cached manifest and that the pass is not about to
\* remove.
Dangles(t) ==
  /\ tags[t] # None
  /\ manifests[tags[t]] = None
  /\ ~(pc = "untag" /\ cur.candidate.item = tags[t])

\* Only a push leaves a tag without its manifest, and only when a pass
\* dropped the manifest between the push's insert_manifest and its
\* tags.insert (docker.rs:772 and 776-783, eviction.rs:439-447): the retain
\* of the pass came before the tag.  No drop of a manifest, in whichever
\* order it meets pushes, spills and other drops, leaves a tag behind.
DanglingTagNeedsPut ==
  [][\A t \in Tags :
       ~Dangles(t) /\ Dangles(t)' =>
         \E m \in puts : tags[t] # m /\ tags'[t] = m /\ manifests[m] = None]_vars

\* A pass ends, whatever requests run beside it: no candidate comes back to
\* the heap it was popped from.
PassEnds == (pc # "idle") ~> (pc \in {"idle", "failed"})

\* The heap a redis entry belongs to.
HeapOf(e) ==
  IF RedisBucket(e) = "smallRedis" THEN "small" ELSE IF RedisBucket(e) = "largeRedis" THEN "large" ELSE "disk"

\* The gauges a pass publishes are never later than an item that is still
\* cached in their pool, spilled ones included (they may be earlier, when a
\* manifest was dropped through another heap).
GaugeIsNotTooLate ==
  [][pc = "sweep" /\ pc' = "idle" =>
       /\ \A m \in Manifests : manifests[m] # None => oldest'["small"] <= manifests[m].used
       /\ \A k \in Keys : redis[k] # None => oldest'[HeapOf(redis[k])] <= redis[k].acc]_vars
-----------------------------------------------------------------------------
(***************************************************************************)
(* The inductive invariant with requests of any kind: what the pass knows  *)
(* about the maps while nobody has stored a manifest beside it.            *)
(***************************************************************************)
ManifestItem == [kind : {"manifest"}, item : Manifests, time : 0 .. MaxNow, spilled : BOOLEAN]
RedisItem == [kind : {"redis"}, item : Keys, time : 0 .. MaxNow, size : RedisSizes]
BlobBk == [tier : {"Disk", "LargeMem", "SmallMem"}, refs : Nat, unevicted : Nat, acc : Nat]

ASSUME NoneAssumption ==
  /\ None \notin Manifests \cup {"small", "large", "disk"}
  /\ None \notin [used : Nat, evicted : BOOLEAN]
  /\ None \notin [tier : {"Mem", "Disk"}, acc : Nat]
  /\ None \notin [tier : {"Mem", "Disk"}, acc : Nat, size : RedisSizes]
  /\ None \notin BlobBk

Counted == {"redis", "loop", "writeRedis", "spill", "writeBlob", "untag", "drop", "sweep"}

\* The local variables of a pass, by where it is.
PassOK ==
  /\ pc \in {"idle", "manifests", "failed"} \cup Counted
  /\ passNow \in 0 .. now
  /\ bk \in [Digests -> {None} \cup BlobBk]
  /\ heaps \in [{"small", "large", "disk"} -> SUBSET (ManifestItem \cup RedisItem)]
  /\ DOMAIN oldest = {"small", "large", "disk"}
  /\ pc \in {"spill", "untag", "drop"} =>
       cur \in [todo : SUBSET Digests, candidate : ManifestItem, old : BOOLEAN]
  /\ pc = "writeBlob" =>
       cur \in [todo : SUBSET Digests, candidate : ManifestItem, old : BOOLEAN,
                digest : Digests, acc : 0 .. MaxNow, detached : BOOLEAN]
  /\ pc = "writeRedis" => cur \in [todo : {{}}, candidate : RedisItem]
  /\ pc = "sweep" => cur \in [todo : SUBSET Digests]

Typed ==
  /\ manifests \in [Manifests -> ManifestState(0 .. MaxNow)]
  /\ blobs \in [Digests -> BlobState(0 .. MaxNow)]
  /\ redis \in [Keys -> RedisState(0 .. MaxNow)]
  /\ tags \in [Tags -> Manifests \cup {None}]
  /\ usage \in [Buckets -> Int]
  /\ now \in StartNow .. MaxNow
  /\ puts \in SUBSET Manifests
  /\ ops \in 0 .. MaxOps
  /\ pushed \in SUBSET Manifests
  /\ sums \in [Buckets -> Nat]
  /\ PassOK

\* d belongs to the manifest that was just dropped and is still counted.
Pending(d) == IF pc \in {"untag", "drop"} /\ d \in cur.todo THEN 1 ELSE 0

RefsCounted ==
  pc \in Counted =>
    \A d \in Digests :
      bk[d] # None /\ (\A m \in pushed : d \notin Refs[m]) =>
        bk[d].refs = Cardinality(Referrers(d)) + Pending(d)

SweepsKnown == pc = "sweep" => \A d \in cur.todo : bk[d] # None

\* What the pass remembers of a blob that was not used since the pass read
\* its clock, the blob it is writing out included, is the blob's own time.
TimesKnown ==
  /\ \A d \in Digests :
       blobs[d] # None /\ blobs[d].acc < passNow => bk[d] # None /\ bk[d].acc = blobs[d].acc
  /\ pc = "writeBlob" /\ cur.acc < passNow =>
       bk[cur.digest] # None /\ bk[cur.digest].acc = cur.acc

BusyInv == Typed /\ RefsCounted /\ SweepsKnown /\ TimesKnown

-----------------------------------------------------------------------------
(***************************************************************************)
(* The rest of the inductive invariant, for passes nothing disturbs.       *)
(***************************************************************************)
Evicting == Counted \ {"redis"}

\* m is a candidate of heap h; the pass is spilling m; d is still to be
\* spilled by it.
Listed(m, h) == \E c \in heaps[h] : c.kind = "manifest" /\ c.item = m
Spilling(m) == pc \in {"spill", "writeBlob"} /\ cur.candidate.item = m
ToSpill(d) == pc \in {"spill", "writeBlob"} /\ (d \in cur.todo \/ (pc = "writeBlob" /\ d = cur.digest))

Undisturbed == ops = 0 /\ puts = {} /\ pushed = {}

\* The pass knows every cached blob: its time, and its tier until it spills.
BlobsKnown ==
  pc \in Counted \cup {"manifests"} =>
    \A d \in Digests : blobs[d] # None =>
      /\ bk[d] # None
      /\ bk[d].acc = blobs[d].acc
      /\ pc = "manifests" \/ blobs[d].tier = "Mem" => bk[d].tier = BlobTier(d, blobs[d])

\* The manifest being spilled, and the blob being written.
SpillKnown ==
  /\ pc \in {"spill", "writeBlob"} =>
       /\ manifests[cur.candidate.item] # None
       /\ manifests[cur.candidate.item].evicted
       /\ cur.todo \subseteq Refs[cur.candidate.item]
  /\ pc = "writeBlob" =>
       /\ blobs[cur.digest] # None
       /\ blobs[cur.digest].tier = "Mem"
       /\ blobs[cur.digest].acc = cur.acc
       /\ BlobSize[cur.digest] > Threshold
       /\ Unevicted(cur.digest) = {}

\* d belongs to the manifest being spilled or dropped and is not released.
Unreleased(d) ==
  IF pc \in {"spill", "writeBlob", "untag", "drop"} /\ d \in cur.todo /\ ~cur.old THEN 1 ELSE 0

UnevictedCounted ==
  pc \in Counted =>
    \A d \in Digests : bk[d] # None => bk[d].unevicted = Cardinality(Unevicted(d)) + Unreleased(d)

\* Swept digests have no blob that is unreferenced and old.
SweptClean ==
  pc = "sweep" =>
    \A d \in Digests \ cur.todo : blobs[d] # None /\ ~Needed(d) => passNow - blobs[d].acc < Grace

\* Every cached manifest is a candidate for small memory, with its own time.
SmallListed ==
  pc \in Counted =>
    /\ \A m \in Cached : Listed(m, "small")
    /\ \A c \in heaps["small"] :
         c.kind = "manifest" /\ manifests[c.item] # None => c.time = manifests[c.item].used

\* A manifest that references a large blob is a candidate for large memory
\* until it is spilled, and nothing is spilled while small memory is dropped.
LargeListed ==
  pc \in Counted =>
    \A m \in Referring("LargeMem") :
      \/ Listed(m, "large")
      \/ /\ pc # "redis" /\ ~PopsSmall
         /\ manifests[m].evicted
         /\ Listed(m, "disk") \/ Spilling(m)

\* A referenced large blob in memory still has a candidate to spill it,
\* while memory is over its target.
LargeCovered ==
  pc \in Counted /\ (pc = "redis" \/ Memory(sums) > Target(MemoryLimit)) =>
    \A d \in Digests :
      blobs[d] # None /\ Needed(d) /\ BlobTier(d, blobs[d]) = "LargeMem" =>
        ToSpill(d) \/ \E m \in Referrers(d) : Listed(m, "large")

DiskListed ==
  pc \in Counted =>
    \A m \in Cached, d \in Digests :
      d \in Refs[m] /\ blobs[d] # None /\ blobs[d].tier = "Disk" =>
        \/ Listed(m, "disk")
        \/ manifests[m].evicted /\ Listed(m, "large")
        \/ Spilling(m)

\* Every redis entry has one candidate, in its own heap, with its size and time.
RedisListed ==
  /\ pc = "manifests" => \A h \in DOMAIN heaps : heaps[h] = {}
  /\ pc = "redis" => \A h \in DOMAIN heaps : \A c \in heaps[h] : c.kind = "manifest"
  /\ pc \in Evicting =>
       /\ \A h \in DOMAIN heaps : \A c \in heaps[h] :
            c.kind = "redis" /\ redis[c.item] # None =>
              /\ redis[c.item].size = c.size
              /\ redis[c.item].acc = c.time
              /\ HeapOf(redis[c.item]) = h
       /\ \A h \in DOMAIN heaps : \A c, e \in heaps[h] :
            c.kind = "redis" /\ e.kind = "redis" /\ c.item = e.item => c = e
       /\ \A k \in Keys : redis[k] # None =>
            \/ \E c \in heaps[HeapOf(redis[k])] : c.kind = "redis" /\ c.item = k
            \/ pc = "writeRedis" /\ cur.candidate.item = k
  /\ pc = "writeRedis" =>
       /\ redis[cur.candidate.item] # None
       /\ redis[cur.candidate.item].tier = "Mem"
       /\ redis[cur.candidate.item].acc = cur.candidate.time
       /\ redis[cur.candidate.item].size = cur.candidate.size
       /\ cur.candidate.size > Threshold
       /\ \A h \in DOMAIN heaps : \A c \in heaps[h] : c.kind = "redis" => c.item # cur.candidate.item

\* The sums cover what the maps hold, and so do the published counters.
SumsCover ==
  /\ usage["manifest"] = ManifestBytes["manifest"]
  /\ pc = "idle" => \A b \in Buckets : usage[b] >= Exact[b]
  /\ pc = "manifests" => sums = BlobBytes
  /\ pc = "redis" => sums = Plus(BlobBytes, ManifestBytes)
  /\ pc \in Evicting => \A b \in Buckets : sums[b] >= Exact[b]

NothingToPop == pc = "sweep" => Pool = None

QuietInv ==
  /\ BusyInv
  /\ Undisturbed
  /\ BlobsKnown
  /\ SpillKnown
  /\ UnevictedCounted
  /\ SweptClean
  /\ SmallListed
  /\ LargeListed
  /\ LargeCovered
  /\ DiskListed
  /\ RedisListed
  /\ SumsCover
  /\ NothingToPop
=============================================================================
