------------------------------ MODULE Pressure ------------------------------
(***************************************************************************)
(* How memory pressure reaches the eviction loop: the usage counters at    *)
(* the granularity of their atomic operations, the notify of every insert, *)
(* and evict_loop.  The counters are kept beside the maps, not under their *)
(* locks: an insert charges, inserts, settles the charge of what it        *)
(* replaced and notifies in four steps; flush_redis and the end of a pass  *)
(* store absolute values over whatever was added meanwhile.                *)
(*                                                                         *)
(* Two of the seven counters are modelled, those of the small pool that    *)
(* clients and passes both change all the time: small_redis (inserts,      *)
(* removals, flush_redis, and a pass, which stores its sum) and manifest   *)
(* (which is only ever added to).  The small blobs a pass finds but cannot *)
(* evict, because no manifest references them or they were used within the *)
(* grace period, are a constant load `pinned`.  The large and disk         *)
(* counters are not modelled: the spill of a redis value changes no        *)
(* counter until its pass ends (eviction.rs), so they lag by what a pass   *)
(* has spilled.  Which victim a pass picks is the subject of the module    *)
(* Eviction: here it may pick any redis value or manifest.                 *)
(***************************************************************************)
EXTENDS Integers, FiniteSets, Sums

CONSTANTS
  RedisKeys,    \* redis keys
  Manifests,    \* manifest digests
  Clients,      \* tasks that insert, remove and flush
  Sizes,        \* sizes of redis values and manifests
  KeyLen,       \* bytes of a redis key, charged while it is in the map
  Limit,        \* config.small_memory_limit()
  PinnedSizes,  \* bytes of small blobs no pass can evict
  MaxOps        \* bound on the operations of all clients

Items == RedisKeys \cup Manifests

ASSUME ItemsAssumption ==
  /\ IsFiniteSet(RedisKeys) /\ IsFiniteSet(Manifests)
  /\ RedisKeys \cap Manifests = {}
ASSUME ClientsAssumption == IsFiniteSet(Clients)
ASSUME SizesAssumption == Sizes \subseteq Nat \ {0}
ASSUME PinnedAssumption == PinnedSizes \subseteq Nat
ASSUME BoundsAssumption == KeyLen \in Nat /\ Limit \in Nat /\ MaxOps \in Nat

VARIABLES
  store,        \* redis_entries and manifests: item -> size, 0 if absent
  usage,        \* small_redis_memory_usage and manifest_memory_usage
  clients,      \* what each client task is doing
  permit,       \* eviction_notify holds a permit
  loop,         \* evict_loop and the pass it runs
  pinned,       \* small_blob_memory_usage, the blobs no pass evicts
  ops,          \* how many operations were begun
  clean,        \* history: no redis operation overlapped the open flush or pass
  lost          \* history: an overlapped flush or pass was the last to store

vars == <<store, usage, clients, permit, loop, pinned, ops, clean, lost>>

Idle   == [pc |-> "idle"]
Bucket(i) == IF i \in RedisKeys THEN "redis" ELSE "manifest"

\* The bytes item i is charged with when it has size n.
Charge(i, n) == IF n = 0 THEN 0 ELSE IF i \in RedisKeys THEN n + KeyLen ELSE n
Held(items)  == Sum([i \in items |-> Charge(i, store[i])])

Add(b, n) == usage' = [usage EXCEPT ![b] = @ + n]

\* What the open flush (or pass) began with: an operation in flight counts
\* as overlapping.
RedisBusy == \E c \in Clients : clients[c].pc \in {"charged", "settle", "refund", "flushing"}

Target == Limit - (Limit \div 4)

Init ==
  /\ store = [i \in Items |-> 0]
  /\ usage = [b \in {"redis", "manifest"} |-> 0]
  /\ clients = [c \in Clients |-> Idle]
  /\ permit = FALSE
  /\ loop = [pc |-> "waiting"]
  /\ pinned \in PinnedSizes
  /\ ops = 0
  /\ clean = TRUE
  /\ lost = FALSE

Begin(c) ==
  /\ clients[c] = Idle
  /\ ops < MaxOps
  /\ ops' = ops + 1

Goto(c, s) == clients' = [clients EXCEPT ![c] = s]

-----------------------------------------------------------------------------
(***************************************************************************)
(* insert_redis.                                                           *)
(***************************************************************************)
\* The charge of the new value.
InsertRedis(c, i, n) ==
  /\ Begin(c)
  /\ Add("redis", n)
  /\ Goto(c, [pc |-> "charged", item |-> i, size |-> n])
  /\ clean' = FALSE
  /\ UNCHANGED <<store, permit, loop, lost, pinned>>

\* The map insert returns what was replaced.
InsertRedisMap(c) ==
  /\ clients[c].pc = "charged"
  /\ store' = [store EXCEPT ![clients[c].item] = clients[c].size]
  /\ Goto(c, [pc |-> "settle", bucket |-> "redis",
              by |-> IF store[clients[c].item] = 0 THEN KeyLen ELSE -store[clients[c].item]])
  /\ UNCHANGED <<usage, permit, loop, ops, clean, lost, pinned>>

\* The old value's charge goes, or the new key's charge comes.
Settle(c) ==
  /\ clients[c].pc = "settle"
  /\ Add(clients[c].bucket, clients[c].by)
  /\ Goto(c, [pc |-> "notify"])
  /\ UNCHANGED <<store, permit, loop, ops, clean, lost, pinned>>

NotifyWaiters(c) ==
  /\ clients[c].pc = "notify"
  /\ permit' = (permit \/ loop.pc = "waiting")
  /\ Goto(c, Idle)
  /\ UNCHANGED <<store, usage, loop, ops, clean, lost, pinned>>

\* notify_one: wakes the loop, or leaves one permit for its next wait.
NotifyOne(c) ==
  /\ clients[c].pc = "notify"
  /\ permit' = TRUE
  /\ Goto(c, Idle)
  /\ UNCHANGED <<store, usage, loop, ops, clean, lost, pinned>>

\* insert_manifest: first the map, then the difference of the lengths.
InsertManifest(c, i, n) ==
  /\ Begin(c)
  /\ store' = [store EXCEPT ![i] = n]
  /\ Goto(c, [pc |-> "settle", bucket |-> "manifest", by |-> n - store[i]])
  /\ UNCHANGED <<usage, permit, loop, clean, lost, pinned>>

-----------------------------------------------------------------------------
(***************************************************************************)
(* remove_redis and flush_redis.                                           *)
(***************************************************************************)
RemoveRedis(c, i) ==
  /\ Begin(c)
  /\ store[i] # 0
  /\ store' = [store EXCEPT ![i] = 0]
  /\ Goto(c, [pc |-> "refund", by |-> Charge(i, store[i])])
  /\ clean' = FALSE
  /\ UNCHANGED <<usage, permit, loop, lost, pinned>>

Refund(c) ==
  /\ clients[c].pc = "refund"
  /\ Add("redis", -clients[c].by)
  /\ Goto(c, Idle)
  /\ UNCHANGED <<store, permit, loop, ops, clean, lost, pinned>>

Flush(c) ==
  /\ Begin(c)
  /\ Goto(c, [pc |-> "flushing", todo |-> RedisKeys])
  /\ clean' = (~RedisBusy /\ loop.pc # "pass")
  /\ UNCHANGED <<store, usage, permit, loop, lost, pinned>>

FlushKey(c, i) ==
  /\ clients[c].pc = "flushing"
  /\ i \in clients[c].todo
  /\ store' = [store EXCEPT ![i] = 0]
  /\ Goto(c, [clients[c] EXCEPT !.todo = @ \ {i}])
  /\ UNCHANGED <<usage, permit, loop, ops, clean, lost, pinned>>

\* The counter is set to 0, whatever was charged since the keys were visited.
FlushStore(c) ==
  /\ clients[c].pc = "flushing"
  /\ clients[c].todo = {}
  /\ usage' = [usage EXCEPT !["redis"] = 0]
  /\ Goto(c, Idle)
  /\ lost' = ~clean
  /\ UNCHANGED <<store, permit, loop, ops, clean, pinned>>

Client(c) ==
  \/ \E i \in RedisKeys, n \in Sizes : InsertRedis(c, i, n)
  \/ \E i \in Manifests, n \in Sizes : InsertManifest(c, i, n)
  \/ \E i \in RedisKeys : RemoveRedis(c, i) \/ FlushKey(c, i)
  \/ Flush(c)
  \/ InsertRedisMap(c) \/ Settle(c) \/ NotifyOne(c) \/ Refund(c) \/ FlushStore(c)

\* The steps of an operation that has begun: no await separates them.
Finishing(c) ==
  \/ InsertRedisMap(c) \/ Settle(c) \/ NotifyOne(c) \/ Refund(c) \/ FlushStore(c)
  \/ \E i \in RedisKeys : FlushKey(c, i)

-----------------------------------------------------------------------------
(***************************************************************************)
(* evict_loop.                                                             *)
(***************************************************************************)
Woken ==
  /\ loop.pc = "waiting"
  /\ permit
  /\ permit' = FALSE
  /\ loop' = [pc |-> "check"]
  /\ UNCHANGED <<store, usage, clients, ops, clean, lost, pinned>>

\* The 30 s timeout.
Backstop ==
  /\ loop.pc = "waiting"
  /\ loop' = [pc |-> "check"]
  /\ UNCHANGED <<store, usage, clients, permit, ops, clean, lost, pinned>>

OverLimit == usage["redis"] + usage["manifest"] + pinned > Limit

WithinLimit ==
  /\ loop.pc = "check"
  /\ ~OverLimit
  /\ loop' = [pc |-> "cooldown"]
  /\ UNCHANGED <<store, usage, clients, permit, ops, clean, lost, pinned>>

PassScanWithoutKeys ==
  /\ loop.pc = "check"
  /\ OverLimit
  /\ loop' = [pc |-> "pass", candidates |-> {i \in Items : store[i] # 0}, sizes |-> store,
              redis |-> Sum([i \in RedisKeys |-> store[i]]),
              manifest |-> Held(Manifests)]
  /\ clean' = ~RedisBusy
  /\ UNCHANGED <<store, usage, clients, permit, ops, lost, pinned>>

\* The pass scans the maps into local sums and candidates with their sizes.
PassScan ==
  /\ loop.pc = "check"
  /\ OverLimit
  /\ loop' = [pc |-> "pass", candidates |-> {i \in Items : store[i] # 0}, sizes |-> store,
              redis |-> Held(RedisKeys), manifest |-> Held(Manifests)]
  /\ clean' = ~RedisBusy
  /\ UNCHANGED <<store, usage, clients, permit, ops, lost, pinned>>

MustEvict == loop.redis + loop.manifest + pinned > Target /\ loop.candidates # {}

WrappingSub(m, n) == m - n

\* u64::saturating_sub
SaturatingSub(m, n) == IF m < n THEN 0 ELSE m - n

\* What a victim that was still there takes off the local sum of its bucket:
\* a redis value its size at the scan (and not the key), a manifest its
\* size now.
Released(i) ==
  IF store[i] = 0 THEN 0 ELSE IF i \in RedisKeys THEN loop.sizes[i] ELSE store[i]

PassEvict(i) ==
  /\ loop.pc = "pass"
  /\ MustEvict
  /\ i \in loop.candidates
  /\ store' = [store EXCEPT ![i] = 0]
  /\ Add(Bucket(i), -Charge(i, store[i]))
  /\ loop' = [loop EXCEPT !.candidates = @ \ {i},
                          ![Bucket(i)] = SaturatingSub(@, Released(i))]
  /\ UNCHANGED <<clients, permit, ops, clean, lost, pinned>>

\* The local redis sum is stored; the manifest counter is left alone.
PassEnd ==
  /\ loop.pc = "pass"
  /\ ~MustEvict
  /\ usage' = [usage EXCEPT !["redis"] = loop.redis]
  /\ lost' = ~clean
  /\ loop' = [pc |-> "cooldown"]
  /\ UNCHANGED <<store, clients, permit, ops, clean, pinned>>

\* A spill fails: evict returns its error, and the loop is over.
PassFails ==
  /\ loop.pc = "pass"
  /\ loop' = [pc |-> "dead"]
  /\ UNCHANGED <<store, usage, clients, permit, ops, clean, lost, pinned>>

\* The 1 s cool-down is over.
Cooled ==
  /\ loop.pc = "cooldown"
  /\ loop' = [pc |-> "waiting"]
  /\ UNCHANGED <<store, usage, clients, permit, ops, clean, lost, pinned>>

LoopStep ==
  \/ Woken \/ WithinLimit \/ PassScan \/ PassEnd \/ Cooled
  \/ \E i \in Items : PassEvict(i)

Next ==
  \/ \E c \in Clients : Client(c)
  \/ LoopStep \/ Backstop \/ PassFails

Spec == Init /\ [][Next]_vars

\* The runtime polls the loop and finishes operations that have begun.  The
\* backstop is not counted on: inserts must not need it.
FairSpec ==
  /\ Spec
  /\ WF_vars(LoopStep)
  /\ \A c \in Clients : WF_vars(Finishing(c))

-----------------------------------------------------------------------------
(***************************************************************************)
(* Properties.                                                             *)
(***************************************************************************)
\* The type of the state; the local sums of a pass, unlike the counters, are
\* unsigned.
TypeOK ==
  /\ store \in [Items -> Sizes \cup {0}]
  /\ usage \in [{"redis", "manifest"} -> Int]
  /\ \A c \in Clients :
       clients[c].pc \in {"idle", "charged", "settle", "notify", "refund", "flushing"}
  /\ permit \in BOOLEAN /\ clean \in BOOLEAN /\ lost \in BOOLEAN
  /\ loop.pc \in {"waiting", "check", "pass", "cooldown", "dead"}
  /\ loop.pc = "pass" =>
       /\ loop.candidates \subseteq Items
       /\ loop.redis \in Nat /\ loop.manifest \in Nat
  /\ pinned \in Nat
  /\ ops \in 0 .. MaxOps

Quiet == \A c \in Clients : clients[c].pc \in {"idle", "notify"}

\* When no operation is half done, the counters show at least what the maps
\* hold, whatever inserts, replacements, removals and passes went before,
\* unless the last flush or pass that stored a sum was overlapped by another
\* redis operation.  An undisturbed flush or pass makes up for all earlier
\* losses.
PressureIsVisible ==
  Quiet /\ ~lost =>
    /\ usage["redis"] >= Held(RedisKeys)
    /\ usage["manifest"] = Held(Manifests)

\* Once clients stop, the small pool gets under its limit without the
\* backstop, or nothing that a pass can evict is left and the rest is pinned
\* blobs: an insert during a check, a pass or the cool-down leaves a permit,
\* and its charge is in the counter before its permit.  Two exceptions: a
\* failed pass ends the loop, and a charge that an overlapped flush or pass
\* lost hides the pressure from the check it was meant for, with no other
\* check to follow than that of the backstop.
LimitIsEnforced ==
  []~lost /\ <>[](Quiet /\ loop.pc # "dead") =>
    <>[](Held(Items) + pinned <= Limit \/ Held(Items) = 0)

-----------------------------------------------------------------------------
(***************************************************************************)
(* The inductive invariant.  A counter differs from its map by what the    *)
(* operations in flight have yet to do to it.                              *)
(***************************************************************************)
ClientState ==
  {Idle, [pc |-> "notify"]}
  \cup [pc : {"charged"}, item : RedisKeys, size : Sizes]
  \cup [pc : {"settle"}, bucket : {"redis", "manifest"}, by : Int]
  \cup [pc : {"refund"}, by : Int]
  \cup [pc : {"flushing"}, todo : SUBSET RedisKeys]

PassState ==
  [pc : {"pass"}, candidates : SUBSET Items, sizes : [Items -> Sizes \cup {0}],
   redis : Nat, manifest : Nat]

LoopState == [pc : {"waiting", "check", "cooldown", "dead"}] \cup PassState

\* What client c has yet to add to the counter of bucket b, less what it has
\* added too early.
Owes(c, b) ==
  IF clients[c].pc = "settle" /\ clients[c].bucket = b THEN clients[c].by
  ELSE IF b = "redis" /\ clients[c].pc = "charged" THEN -clients[c].size
  ELSE IF b = "redis" /\ clients[c].pc = "refund" THEN -clients[c].by
  ELSE 0

Owed(b) == Sum([c \in Clients |-> Owes(c, b)])

\* c is in the middle of an operation on redis values.
InRedis(c) ==
  \/ clients[c].pc \in {"charged", "refund", "flushing"}
  \/ clients[c].pc = "settle" /\ clients[c].bucket = "redis"

ManifestExact == usage["manifest"] + Owed("manifest") = Held(Manifests)

RedisCovered == ~lost => usage["redis"] + Owed("redis") >= Held(RedisKeys)

\* A flush nothing overlapped is alone, and the keys it visited are gone.
CleanFlush ==
  \A c \in Clients : clean /\ clients[c].pc = "flushing" =>
    /\ loop.pc # "pass"
    /\ \A e \in Clients \ {c} : ~InRedis(e)
    /\ \A i \in RedisKeys \ clients[c].todo : store[i] = 0

\* A pass nothing overlapped is alone, and its sum covers what is left of
\* what it scanned.
CleanPass ==
  clean /\ loop.pc = "pass" =>
    /\ \A c \in Clients : ~InRedis(c)
    /\ \A i \in RedisKeys : store[i] \in {0, loop.sizes[i]}
    /\ loop.redis >= Held(RedisKeys)

IInv ==
  /\ TypeOK
  /\ clients \in [Clients -> ClientState]
  /\ loop \in LoopState
  /\ ManifestExact
  /\ RedisCovered
  /\ CleanFlush
  /\ CleanPass
=============================================================================
