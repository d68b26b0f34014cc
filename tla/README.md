# Verification of dockfoxprox

TLA+ models of dockfoxprox, a pull-through Docker registry cache with a built-in
registry and a redis-protocol cache on one memory and disk budget. TLC checks
the models on small instances; TLAPS proves the invariants of every component,
the action properties of eviction and that the store implements its abstract
specification, for every instance. `PROJECT.json` maps every definition to the lines it
translates and lists runs, mutants, findings, hazards and theorems.

## The system

One process, one leaked `State` (`state.rs`) shared by all tasks of a tokio
runtime. The maps are `DashMap`s: one operation on a key is atomic, an iteration
or `retain` is not, and a guard held keeps other tasks from its shard. Almost
every interesting bug hides at an `.await` between a lookup and the use of what
was looked up.

| component | state | operations | interacts with |
|---|---|---|---|
| two-tier store (`state.rs`) | `redis_entries`, `blobs`, `next_id`, files under `blobs/` | `insert_redis`, `remove_redis`, `flush_redis`, `insert_blob`, `remove_blob`, spawned `remove_file` | everything |
| redis commands (`redis.rs`) | per connection: the command being served | GET (file read, promotion), SET, DEL, FLUSH | store |
| redis protocol (`redis.rs`) | authenticated flag, read buffer | AUTH, RESP framing | redis commands |
| uploads (`docker.rs`) | `uploads`: buffer and hasher behind a mutex | POST, PATCH, PUT, DELETE, single-shot POST | `insert_blob` |
| blob serving and fill (`docker.rs`) | the guard held during an open; a stream and a bounded channel | GET/HEAD, `spawn_blob_fill` | store, upstream |
| manifests and tags (`docker.rs`) | `manifests`, `tags` | `put_manifest`, `get_head_manifest` | eviction (reference counts, `evicted` flag) |
| upstream access (`docker.rs`) | `tokens` | request, 401 challenge, token fetch, retry | fill, manifests |
| eviction pass (`eviction.rs`) | copies: `BlobBk`, three heaps, seven sums | scans, spill, drop with cascade, sweep, publish | all maps, files, counters |
| eviction loop (`eviction.rs`) | `eviction_notify` | wake, check limits, run a pass, cool down | inserts notify it |
| usage accounting (`state.rs`) | seven atomic counters | changed by every insert and remove, stored by a pass, zeroed by a flush | eviction loop, metrics |
| snapshot (`snapshot.rs`) | snapshot file, blob files | save at shutdown, load or wipe at start | all maps |
| lifecycle, listeners (`main.rs`) | tasks | start, shutdown, save | all |
| metrics, config, sizes, digests | gauges, limits | rendering, parsing | |

What makes it hard: detached unlink tasks that run at any time later; files
written while their entry can be replaced, deleted or flushed; a GET that
applies the result of a file read to a key that has changed; map guards held
across awaits; an eviction pass that works on copied times and reference counts
while clients push and pull; uploads used by several requests at once; failed
writes that end the eviction loop; a crash between two files of a snapshot; an
error that is ignored; an upstream that answers late, wrongly or not at all.

What makes each part correct: a value that is OnDisk has its complete file and
every file has an owner (store); a GET answers with what was SET (redis);
content is stored under its own digest (uploads, fill); a pass brings every
pool below its target or leaves nothing to evict, removes no blob that is
needed or young, takes the tags of what it drops along, and ends (eviction); the
counters show at least what the maps hold (accounting), and pressure leads to a
pass (loop); guards held across awaits never wait for each other in a circle
(locks); a client that sees the end of a body has all that upstream sent, and a
refused token leaves the cache (pulls); a restart restores what was saved, or
nothing (snapshot). Where the code does not keep one of these, the property
names the exception, or a run against the sentence that claims it shows it.

## Modules

| module | models | uses |
|---|---|---|
| `TwoTierStore` | redis map, blob map, files, ids, unlink tasks, redis commands, blob GETs | |
| `CachePromise` | what redis clients may rely on: one lossy map | |
| `StoreRefinement` | the mapping under which `TwoTierStore` implements `CachePromise` | both |
| `Lifecycle` | save, crash, restart, wipe; manifests and a tag pushed and dropped meanwhile | `TwoTierStore` |
| `Uploads` | the upload handlers | |
| `Eviction` | one pass of `evict`, and requests beside it | `Sums` |
| `Pressure` | counters as atomic operations, notify, `evict_loop` | `Sums` |
| `UpstreamAuth` | upstream requests and the token cache | |
| `BlobFill` | fill task, channel and client of a missed blob | |
| `Pull` | `get_head_manifest` and `get_head_blob` on misses | `UpstreamAuth`, `BlobFill` |
| `ShardLock` | map guards held across awaits, and worker threads | |
| `Sums` | the total of a function, for bytes and charges | |
| `TwoTierStoreProofs` | theorems about `TwoTierStore` and `StoreRefinement` | |
| `LifecycleProofs` | theorems about `Lifecycle` | `TwoTierStoreProofs` |
| `UploadsProofs`, `PullProofs`, `ShardLockProofs` | theorems about `Uploads`, about `Pull` with its two parts, about `ShardLock` | |
| `SumLemmas` | how a total changes with its terms | `Sums` |
| `EvictionProofs`, `PressureProofs` | theorems about `Eviction` and `Pressure` | `SumLemmas` |
| `MC*` | values of constants, symmetry, what a run follows | |

**`TwoTierStore`**. `entries`, `blobs` and `files` are the two maps and the folder (id to
content); `nextId` is `State::next_id`, `unlinks` the spawned `remove_file` tasks that
have not run. `conns`, `readers` and `evictor` say at which await each task is.
GET is four steps: lookup (`GetMiss`, `GetHit`, `GetOnDisk`), file read
(`GetRead`), `GetPromote` or `GetReadError`, and the reply. FLUSH removes keys
one by one, as `retain` locks shard by shard. A spill is a start, which clones
the entry and begins to write the file (`Partial`), and a finish, which replaces
the map entry whatever it is by then. `Locked(d)` is the guard a blob GET holds
while it opens a file. An entry that is OnDisk carries, in the model only, the
value it stands for, and `written` remembers which values were SET for a key.
The evictor may pick any victim at any time. Opening a blob's file fails only
when the file is missing; reading a redis file may fail at any time.

**`CachePromise`** has two variables: the value of each key, and what each task
has looked up and not yet written back. Any entry may be lost at any time. A
task may write back what it looked up, over whatever is stored by then, so a
late promotion or spill that loses a newer value is allowed (`spill_race` is
about that); and as anybody may SET any value, what a promotion writes is bound
by `GetReturnsWrittenValue` rather than here. What the promise binds is the
answer of a GET, which is nothing or the value of its lookup, and that no other
step changes what clients see. The mapping in `StoreRefinement` hides tiers, ids, files and unlinks: an entry stands for its value, a GET
before its read holds what its file contains, a spill holds what it cloned. A
read from the wrong file, an id handed out twice or a file unlinked under an
entry that took its id over are steps no lossy map can take.

**`Lifecycle`** puts a process around `TwoTierStore`. `phase` is where `main` is.
`ProcessEnds` empties memory and leaves `files` and `snapshot`. A clean stop
(`SaveStart`) waits for the pass and aborts redis connections at an await;
Docker requests and unlink tasks are not waited for (`Stragglers`, `PutManifest`,
`PutTag`). While the process runs a pass may drop any manifest (`DropManifest`,
then `Untag`) between the two inserts of a push, and manifests are pushed again. `save` walks blobs, manifests, tags and redis entries in that order,
writes large items to their files and reads `next_id` at the end; any write may
fail, a crash is possible everywhere, and between two lives the snapshot may be
damaged. A start loads (`LoadOk`, then `Loaded` removes the snapshot) or wipes,
completely or partly, and then removes the snapshot, or fails to and goes on
(`Wiped`). `promised` remembers what GETs would have answered at the end of
`save` (`Answer`); `raced` that the present tag was set by a push whose manifest
was gone again, or after a save had begun; `stale` that the snapshot on disk
outlived its files, and `foreign` that a process has loaded one. A pruning load
compares sizes only: `alike` is the set of ids whose foreign bytes happen to
have the right size. The promise is about answers, not entries: an OnDisk entry can outlive its file (a start that
could not read the snapshot wiped files and was killed before it removed the
snapshot; a later start loads it), and the next snapshot keeps such an entry.
Its GET answers nil before and after.

**`Uploads`**. A request looks its upload up (`Patch`, `Put`), awaits its body, and
then works under the mutex (`PatchBody`, `PutMismatch`, `PutMatch`); a successful
PUT goes on without the mutex (`PutRemove`, `PutInsert`). `inner` survives the
removal from `uploads`, as the `Arc` does. `BodyLost` is a client that
disappears. SHA-256 is an injective constructor. `overlaps` remembers the
uploads for which two requests were under way at once.

**`Eviction`**. One pass, from the scans over the loop and the sweep to the
published sums, and the requests beside it. `bk`, `heaps` and `sums` are the
pass's local copies. `pc` and `cur` say where the pass is; steps end at the
awaits and between the steps another task could observe. Sizes are small
numbers around `Threshold`. A scan of a map is one step; what it adds up is a
`Sum` over the map. A manifest that names
a digest twice counts it twice in the code, and releases it twice; the model's
`Refs` is a set and counts once. Requests are pushes and pulls of manifests and
blobs, hits, SET, DEL and FLUSH. `detached` remembers that an upload replaced
the blob a spill is writing, after which hits no longer reach the spill's copy
of the access time; `pushed` that a manifest was stored during the pass.

**`Pressure`**. An insert is four steps (charge, map, settle, notify), a removal two, a
FLUSH one per key and one for the store of 0. `loop` is `evict_loop` with the
sums, sizes and candidates of its pass; `permit` is the one permit a tokio
`Notify` can hold. It is about small memory: `small_redis`, which passes and
flushes store to, and `manifest`, which is only added to. The counters of blobs
and of the disk tier are not taken apart; a spill of a redis value changes
tiers without touching them (`eviction.rs:396`), so they lag until a pass
publishes. `pinned` is the part of small memory that no pass evicts now: small
blobs that are young, or referenced by what is not dropped. `lost` remembers
that the last such store was overlapped by another redis operation.

**`UpstreamAuth`, `BlobFill`, `Pull`**. `tokens` is the cache entry all requests
share; nothing is locked between lookup, send, removal, fetch and insert. The
registry hands out numbered tokens, accepts them until they expire, and may
accept everybody or nobody. A fill has a buffer, a channel of `Capacity` chunks
and a client that reads, stalls or leaves; upstream goes on, falls silent, ends
(perhaps too early or with wrong bytes) or fails. `refused` remembers every token
the registry refused, `selfRefused` those refused to the very call that fetched
them, and a pulled manifest has any body upstream likes, since the code does not
hash it. `Pull` composes the two: every upstream
request of a handler is a call of `UpstreamAuth`, and a blob response starts a
fill. The upstream tag may move whenever a request can notice. A HEAD of a
missing blob is a request that ends without a fill.

**`ShardLock`**. A task is absent, ready, on a worker, awaiting I/O or done. A
reader keeps a guard of the blob shard while it awaits the open; the pass keeps
the guard of a manifest while it writes and inserts that manifest's blobs. A
writer that finds a guard waits on its worker. All keys share one shard, which
is the worst case.

The models meet at `insert_blob`, at the evictor and at the counters: `Uploads`
and `BlobFill` say what is inserted, `TwoTierStore` where the bytes go,
`Eviction` who goes next, `Pressure` when, and `Lifecycle` what remains.

Definitions no action uses (`GetReadOfNothing`, `SweptNever`, `PutRemoveForgotten`
and their like, each just before the definition it imitates) are deliberate
faults. Put in the place of the real definition they must make TLC report the
property that `PROJECT.json` pairs them with.

## Runs

| run | shows |
|---|---|
| `two_tier_store` | files back their entries, GETs are genuine, redis files have owners and are reclaimed, a blob file loses its owner only when its blob is uploaded again (`OrphanNeedsReupload`), disk blobs are served, and redis clients see one lossy map (`KeepsPromise`) |
| `uploads` | uploads without overlapping requests only store verified content; wrong content needs two finalizations; a finalized upload is unreachable |
| `eviction_quiet` | undisturbed passes: targets, sweep, LRU order, gauges, counters not understated |
| `eviction_busy` | a pass ends whatever request runs beside it; only a manifest stored during the pass can lose a needed blob (`LossNeedsPush`); only the second insert of a push whose manifest is gone leaves a tag dangling (`DanglingTagNeedsPut`); only a blob used after the pass has read its clock can be deleted young (`YoungLossNeedsHit`) |
| `lifecycle` | until a process loads a snapshot that outlived its files: ids are never reused, OnDisk blobs are complete, redis values survive a clean stop exactly; a tag is restored with its manifest unless its push raced with a drop of the manifest or with a save |
| `pull` | a refused token leaves the cache unless the call that was refused had fetched it; the retry budget is only spent on expired fresh tokens; an EOF is never short of what upstream sent; tags are current; fills end unless a client or upstream holds them up |
| `pressure` | the counters do not understate the maps unless a flush or pass was overlapped; if none was, pressure leads to eviction without the backstop, down to the limit or to what is pinned |
| `shard_lock` | guards alone never block each other: a standstill needs every worker blocked on a shard (`StandstillNeedsEveryWorker`), and without one every handler of a burst ends |

Runs that end in a counterexample, each against a sentence of the repository
(quoted in `PROJECT.json`):

| run | what the code does |
|---|---|
| `spill_race` | a finished spill overwrites a newer SET, or brings back a deleted or flushed key (`eviction.rs:396`) |
| `double_put` | two PUTs of one upload at once: the second stores the emptied buffer under the digest (`docker.rs:946`) |
| `push_during_pass` | a manifest stored during a pass does not protect its blobs (`eviction.rs:486`) |
| `worker_standstill` | blocked handlers take every worker, the holder of the guard is never polled again, and a pass that is due never ends (`docker.rs:1066`) |

More disagreements came up while modelling. They have no run of their own; where
a property names one as its exception, it is said here:

- `insert_blob` forgets the file of an OnDisk blob it replaces: a spilled blob
  that is uploaded again leaves its old file behind until the next wipe, and no
  counter includes it (`state.rs:254`, against "account for every byte the cache
  holds" at 130). `OrphanNeedsReupload` names the case;
- a blob served after the scan of a pass is deleted by that pass as an old one,
  judged by the access time of the scan (`eviction.rs:458`, against "never
  deleted" at 17). `YoungLossNeedsHit` names the case;
- a good snapshot that cannot be read is removed after its files are wiped, and
  the error of the removal is ignored: if it stays, ids start at 0 beside it,
  and the first start that can read it loads entries whose files are missing,
  half written or another item's (`snapshot.rs:354`, against 326).
  `DiskSurvivesRestarts` names the case;
- the body of a pulled manifest is not hashed, so what is cached under a digest
  is whatever upstream sent for it (`docker.rs:433`, against "always cached by
  content digest" in the repository's README);
- a GET whose file was unlinked by a concurrent promotion or SET removes the
  newer entry of its key, where the comment speaks of a dangling one
  (`redis.rs:186`, comment at 182); `CachePromise` counts it as a loss;
- the last chunk of a PUT stays in the upload after a digest mismatch although
  the comment says the upload is left intact (`docker.rs:930`, comment at 922);
- `put_manifest` inserts the manifest and then its tags; a pass that drops the
  manifest and removes its tags in between leaves the tag of that push dangling
  until the manifest is pushed or pulled again (`docker.rs:774`,
  `eviction.rs:439-447`), and a save keeps it so. `DanglingTagNeedsPut` and
  `RestoredTagIsUsable` name the case;
- the published sums still contain swept blobs and the keys of dropped redis
  entries, so "reconciled" means "not too low" (`eviction.rs:525`,
  `metrics.rs:71`);
- a gauge can name a manifest that was dropped through another heap
  (`eviction.rs:515`, comment at 498), so it may be too early but never too late;
- "There is nothing left to evict" (`eviction.rs:430`) is not always so. A
  manifest is entered as a candidate for disk by the tiers of the scan
  (`eviction.rs:238`) or after its own spill. One that an earlier pass marked
  evicted, and whose large blob another manifest's spill moves to disk in this
  pass, is a candidate for large memory only, so the pass can end over the disk
  target with this manifest left. The next pass finds it;
  `TargetsMetOrNothingLeft` names the exception;
- a flush or the end of a pass stores over charges made meanwhile, so the
  counters can stay below what the maps hold and hide pressure until the next
  undisturbed flush or pass (`state.rs:364`, `eviction.rs:525`, against
  `state.rs:130`);
- the maps are not quiet when `save` walks them: Docker connections are spawned
  and not waited for. A push during the save can leave a tag in the snapshot
  whose manifest is not in it, even a tag that was complete before
  (`main.rs:351`);
- the snapshot has no metrics, although its module comment lists them
  (`snapshot.rs:15`, against the struct at 52);
- a refused cached token is removed by its key, so a fresh one another request
  has just stored may go (`docker.rs:540`); this costs a fetch, never an attempt.
  A token that the call fetched and stored itself and that is refused at once is
  not removed (`docker.rs:538`): if the next fetch fails it stays cached, and the
  next request spends its first attempt on it. `OnlySelfRefusedTokenStays` names
  the case;
- the HTTP client has a connect timeout and no other (`main.rs:284-293`), so an
  upstream that falls silent in the middle of a body holds the fill, its buffer
  and its client for ever.

### Bounds

- `TwoTierStore`: 1 key, 2 values, 1 digest, 2 connections, 1 reader, 3 ids.
  Three ids allow a SET, its spill and a promotion or replacement, beside a
  blob; every action fires, and the theorems hold for any number of keys, ids
  and tasks. Behaviours stop when the ids run out, so deadlock is not checked.
  `spill_race` has its own small instance.
- `Lifecycle`: 1 key with a small (inlined) and a large value, 1 blob, 1
  connection, 3 ids per life of the process, and any number of lives. No reader:
  a blob GET changes nothing that is saved. The run follows a process that has
  loaded a stale snapshot no further, since nothing is claimed of its files, and a
  process that runs beside one until it has handed out two ids. Two
  manifests are pushed and dropped. They share no variable with the store, only
  the phases of the process, so the run follows pushes over an empty store and
  the store without a push (`Followed` in `MCLifecycle`); the theorems have no
  such limit.
- `Uploads`: two letters, contents of length 2, one upload, two requests. Two
  requests are enough to overlap, one upload is enough since uploads share
  nothing but the blob map.
- `Eviction`: two manifests that share a large blob, in `eviction_quiet` one of
  them with a small blob too, one key, one tag. The initial states are all
  contents of the cache, tiers and access times included, so one pass covers
  every shape; limits are chosen so that each pool can be over its limit alone
  and together. In `eviction_quiet` a manifest has size 1, so that both fit and
  the second outlives the spill of the first; it has no tag and allows no
  requests; its clock moves once. `eviction_busy` allows one request of any kind
  at any step, has a grace period of two ticks, so that blobs can be older, younger
  and used since the scan, and begins with any tag, dangling or not; its clock
  stands still, and the theorems cover one that moves. A pass may stop when no limit is
  exceeded and clients owe nothing, so deadlock is not checked.
- `Pull`: two requests (two tags, a tag and a digest, or two blobs), 3 tokens,
  2 manifests, blobs of 2 chunks, a channel of 1. Three tokens let one request
  see two fresh tokens expire, or two requests refresh the cache against each
  other; a channel shorter than the blob lets a client hold a fill up. With
  three tokens TLC spends a whole retry budget only on a request that found no
  cached token and met no competing fetch; the theorem has no such bound.
- `Pressure`: 1 key, 1 manifest, 2 clients, 4 operations, sizes 1 and 3, a
  limit of 4, and 0, 2 or 5 pinned bytes, the last above the limit: replacement, removal, flush and insert can each fall into a pass,
  a check or the cool-down.
- `ShardLock`: 2 readers, 2 inserters, 1 putter, a spill of 2 blobs, 3 workers:
  enough to go on, and few enough to run out. The code bounds neither
  connections nor fills, so no assumption relates workers to tasks;
  `worker_standstill` shows with 2 workers that the process can stand still until
  it is killed. Every handler runs once: an endless stream of readers, which
  could keep an insert waiting, is not covered.

### Fairness

`TwoTierStore` polls spawned unlink tasks and a running FLUSH until they finish;
`Eviction` polls the pass; `Pull` polls fill tasks that have something to do
(`TaskStep`), not upstream, which may stay silent; `Pressure` polls the loop and lets operations that have begun finish
(no await separates their steps), but does not count on the 30 s backstop;
`ShardLock` gives ready tasks a free worker, ends I/O and lets running tasks go
on. All are weak fairness of single tasks, what the runtime does with a task
that is ready. No client is ever obliged to send, read or leave, no upstream to
answer, and no liveness property depends on one: `FillEndsUnlessHeldUp` names
the two that can hold a fill for ever, its own client and a silent upstream.
`RedisFileReclaimed` counts on `remove_file` to succeed: its error is ignored.

## Proofs

### The store

`TwoTierStoreProofs` proves, for every set of keys, values, digests, connections
and readers and every bound on ids, `Spec => []TypeOK`, `[]OnDiskIsBacked`,
`[]NoLeakedRedisFile`, `[]GetReturnsWrittenValue`, `[]DiskBlobIsServed` and
`OrphanNeedsReupload`.
None of them is inductive: a late GET, a detached unlink and a spill in flight
each hold an id outside the maps. The inductive invariant has two halves.
`CoreInv` says who may hold an id: `IdsHandedOut` (ids in use are below
`next_id`, so a fresh one is unused), `IdsDistinct`, `RemovalsUnused` (what is
to be unlinked is used by nobody), `SpillOwnsId` (the id of a spill belongs to
the entry it was started for or to none, and what it will overwrite is not
OnDisk), `ReadingIsStable` (the file a GET is about to read is complete and is
not written again) and `OpeningIsStable` (the guard keeps the blob as it was).
It holds whatever files lie around. `FilesInv` adds what is true of a data
folder that was empty at first. One lemma per action and half shows that it is
preserved; the theorems are projections, but for `OrphanNeedsReupload`, an action
property that follows from the invariant action by action. Assumptions: `MaxId` is a natural
number, values, digests and the three file markers are different things.

It also proves that the store implements `CachePromise`: `Spec => KeepsPromise`.
One lemma per action names the step of the lossy map that it is, or shows that
clients cannot see it. `ReadingIsStable` is what makes a pending read a value
the map has handed out, and `SpillOwnsId` what makes the end of a spill a
write-back of what was looked up.

### Restarts

`LifecycleProofs` proves, for any number of lives of the process,
`[]DiskSurvivesRestarts`, `[]RestoredTagIsUsable`, and `[]NextIdIsUnused` and
`[]RestartKeepsRedis` up to the load of a stale snapshot (`foreign`).
`LifeInv` has two parts. `TagsOK` holds in every life: a tag that no racing push
set leads to a manifest, in memory, in a walk of save and in a snapshot, but for
the manifest a pass has just dropped and is about to untag. `OwnFilesInv` holds
until a process loads a snapshot that outlived its files. It is the store's
`CoreInv`, in every phase, and what connects one life to the next. While the
process runs, `CoreInv` is preserved by the store's own lemmas; when it ends,
nothing is in use and `CoreInv` holds for whatever files are left. `SavingOK`
says that what save has collected is right and stays right while requests and
unlink tasks go on: the file of a saved item is in no unlink task and belongs to
no other item. At the end of the walk this becomes `SnapshotOK`, which says in
addition that a snapshot that loads exists only while nobody writes files, or is
stale; a load turns it into `CoreInv` again. Assumptions, beside the store's:
keys, digests and the names of the two other maps are different, and inline
contents are contents.

### Uploads, pulls and locks

`UploadsProofs` proves `[]TypeOK`, `[]WrongContentNeedsSecondTake`,
`[]TakenUploadIsUnreachable` and `[]SerialContentMatchesDigest` for all clients.
The argument: until an upload is taken its hasher has seen exactly its buffer
(`HasherFollowsBuffer`), so a matching digest is the digest of the bytes taken
(`TakenMatches`); an upload whose requests never overlapped cannot be reached
after it was taken, because it left the map before its PUT was answered
(`SerialUse`).

`PullProofs` proves, for any number of requests, tokens, manifests, blobs and
chunks, `[]TypeOK` of `Pull`, `[]OnlySelfRefusedTokenStays`,
`[]BudgetNeedsExpiry`, `[]EofMeansEverything` and `[]TagAnswerIsCurrent`. `IInv` of `Pull` is a conjunction of `AuthInv` (what a
request between lookup, send, fetch and store knows about its token), `FillInv`
(what was sent, is in the channel and was received add up, and the end is only
announced when everything was sent) and `TagIsWatched` (a digest that a request
carries was the tag's at some time since the request began). Assumptions: the
bounds are positive, every request may start a fill, and the markers for no body
and no digest are not manifests.

`ShardLockProofs` proves `[]StandstillNeedsEveryWorker` for any number of tasks
and workers: when no unfinished task can go on, every worker is taken by a task
that waits for a shard. The invariant says that guards belong to tasks that are
between their steps (`GuardsAreReaders`, `MiddleIsUnderWay`), that a spill inserts
only blobs it has still to insert (`InsertIsOfOneLeft`), and that no more tasks
run than there are workers (`WorkersSuffice`).

### Sums

`Eviction` and `Pressure` compare totals of bytes. A total defined by a fold or
a recursion can only be reasoned about by induction over data, which is out of
reach here. `Sum(f)` counts units instead: the cardinality of a set with `f[x]`
elements for each `x`. `SumLemmas` proves from the theorems about cardinality
what the proofs need: a total changes by what one term changes by
(`SumChange`), a total of zeros is zero, and larger terms have a larger total.

### Pressure

`PressureProofs` proves `[]TypeOK` and `[]PressureIsVisible` for any finite
number of keys, manifests and clients. The counters are almost never equal to
what the maps hold, because every operation changes one before the other. `IInv`
is a ledger: what a client has still to add to a counter, or has added too early,
is its `Owes`, and counter plus debts is the total of the map (`ManifestExact`),
or at least that for the counter that flushes and passes store to, unless an
overlapped one has lost a charge (`RedisCovered`). The stores themselves are
covered by `CleanFlush` and `CleanPass`: while nothing has overlapped it, a
flush is alone and the keys it visited are gone, and the sum of a pass covers
what is left of what it scanned. Assumptions: the sets are finite and disjoint,
sizes are positive.

### Eviction

`EvictionProofs` has two parts, each for any finite set of manifests, digests and
keys, any references, sizes and limits.

With requests of any kind and number beside the passes: `Spec => LossNeedsPush`,
`YoungLossNeedsHit` and `DanglingTagNeedsPut`. Their invariant `BusyInv` (`EvictionInvariant`) says that the reference count in
the pass's bookkeeping is the number of cached manifests that reference the
blob, plus one while the cascade of a dropped manifest has not reached it
(`RefsCounted`, `Pending`), for every blob that no manifest stored since
references. Hits, uploads, redis requests, deletions and the clock do not
disturb this; a stored manifest does, and `push_during_pass` shows what follows.
`TimesKnown` says that the copied access time of a blob nobody used since the
pass read its clock is the blob's own.

For passes that nothing disturbs (`MaxOps = 0`): `[]TypeOK`,
`[]UnreferencedBlobIsGone`, `[]TargetsMetOrNothingLeft`,
`[]UsageIsNotUnderstated`, `LeastRecentlyUsedGoesFirst`, `GaugeIsNotTooLate` and,
with no exception, `ReferencedBlobIsKept`, for any number of passes. That no request runs is a
hypothesis of these theorems, because they speak of what the pass copied; the
list of disagreements says how requests make most of them false. `QuietInv` adds
to `BusyInv`:

- the bookkeeping agrees with the maps: tiers and access times (`BlobsKnown`),
  the spill under way (`SpillKnown`), unevicted references (`UnevictedCounted`);
- nothing evictable is forgotten: each cached item is in the heap of each pool
  it can relieve (`SmallListed`, `LargeListed`, `LargeCovered`, `DiskListed`,
  `RedisListed`), or is being worked on. `DiskListed` is where the exception
  above came to light: without it the invariant is not inductive, and TLC found
  a pass that ends so once manifests were small enough;
- the running sums are at least what the maps hold (`SumsCover`), which is
  proved with `SumLemmas` for every scan, spill, drop and sweep;
- the loop ends only when no pool over its target has a candidate
  (`NothingToPop`), and what is swept is clean (`SweptClean`).

The order of drops needs that a heap that is not empty has a minimum, which
follows from the well-foundedness of `<`. Assumptions: the sets are finite, sizes
are natural numbers, `None` is not an entry, and the clock starts after the grace
period (`Grace <= StartNow`), as Unix time does.

### Only model-checked

Liveness: `RedisFileReclaimed`, `PassEnds`, `FillEndsUnlessHeldUp`,
`LimitIsEnforced` and `BurstEndsUnlessWorkersRunOut`. It needs fairness and `ENABLED`, which
are out of the reach of the prover. All other properties of the passing runs are
theorems.

## Not modelled

- Text, wire formats, logging, TLS, HTTP routing; the text of challenges, URLs
  and manifests; parsing of sizes and configuration.
- RESP framing and the AUTH flag, and client authentication: per connection and
  sequential, the check precedes every command.
- Metrics counters and their rendering: output only.
- In `Lifecycle`: loss of written data in a power failure (the code does not
  `fsync`), and access times.
- The blob, large and disk counters as separate atomic operations: `Eviction`
  changes them together with their maps.
- Reclaiming uploads that are never finished: no code does it.
- Streaming an opened file to its client: the file stays readable when
  unlinked, and nothing else changes.

## Plan

Done: the modules above, their runs, and the proof of every safety property of
a passing run. Left, in this order:

1. Find which of the remaining properties of undisturbed passes hold beside
   requests, in the form of `LossNeedsPush` and `YoungLossNeedsHit`, and prove
   those.
2. Prove of a process that has loaded a stale snapshot what does not depend on
   files (`NextIdIsUnused`).
3. Prove the safety half of the liveness properties where there is one, such as
   that no candidate returns to the heap it was popped from (`PassEnds`).
