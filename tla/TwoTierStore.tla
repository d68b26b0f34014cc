---------------------------- MODULE TwoTierStore ----------------------------
(***************************************************************************)
(* The two storage tiers of dockfoxprox: the redis map and the blob map in *)
(* memory, and the directory of spilled files that both share.  A redis    *)
(* entry or a blob is InMemory or OnDisk; an OnDisk one is only an id, and *)
(* its bytes are in the file cache_path(id).  Ids come from one counter    *)
(* (State::next_id).                                                       *)
(*                                                                         *)
(* Four kinds of task work on this state at the same time:                 *)
(*   - redis connections (redis.rs): GET, SET, DEL, FLUSH; a GET of an     *)
(*     OnDisk entry awaits the file read between its lookup and its        *)
(*     insert;                                                             *)
(*   - Docker requests (docker.rs): blob inserts, and blob GETs that hold  *)
(*     the map's guard while they await the opening of a file;             *)
(*   - the eviction task (eviction.rs): spills to disk (awaiting the       *)
(*     write between lookup and insert) and drops;                         *)
(*   - spawned unlink tasks (state.rs), one per file to remove.            *)
(*                                                                         *)
(* Which victim the evictor picks, byte counters and timestamps are the    *)
(* subject of the module Eviction: here the evictor may pick anything.     *)
(***************************************************************************)
EXTENDS Naturals

CONSTANTS
  Keys,      \* redis keys
  Values,    \* redis values
  Digests,   \* blob digests; the content of blob d is written d
  Conns,     \* redis connections
  Readers,   \* Docker requests that GET a blob
  MaxId,     \* bound on State::next_id
  NoFile,    \* the content of a file that does not exist
  Partial,   \* the content of a file that is being written
  Failed     \* the result of a read or an open that failed

ASSUME MaxIdAssumption == MaxId \in Nat

ASSUME ContentAssumption ==
  /\ Values \cap Digests = {}
  /\ {NoFile, Partial, Failed} \cap (Values \cup Digests) = {}
  /\ NoFile # Partial /\ NoFile # Failed /\ Partial # Failed

VARIABLES
  entries,   \* State::redis_entries
  blobs,     \* State::blobs
  files,     \* the data folder: id -> content
  nextId,    \* State::next_id
  unlinks,   \* ids whose remove_file task has been spawned and has not run
  conns,     \* what each redis connection is doing
  readers,   \* what each Docker blob GET is doing
  evictor,   \* what the eviction task is doing
  written    \* history: the values ever SET for a key

vars == <<entries, blobs, files, nextId, unlinks, conns, readers, evictor, written>>

Ids == 0 .. (MaxId - 1)

-----------------------------------------------------------------------------
(***************************************************************************)
(* State.  The val of an OnDisk entry is not stored by the program: it is  *)
(* the value the entry stands for, which its file must hold.               *)
(***************************************************************************)
None        == [tier |-> "None"]
InMemory(i, v) == [tier |-> "Mem", id |-> i, val |-> v]
OnDisk(i, v)   == [tier |-> "Disk", id |-> i, val |-> v]

RedisEntry == {None} \cup [tier : {"Mem", "Disk"}, id : Ids, val : Values]
Blob       == {None} \cup [tier : {"Mem", "Disk"}, id : Ids, val : Digests]
Content    == {NoFile, Partial} \cup Values \cup Digests

Idle == [pc |-> "idle"]

\* "reading" and "got" are before and after `fs::read(path).await`; "reply"
\* is the awaited write of a GET's answer; "flushing" is inside `retain`.
ConnState ==
  {Idle}
  \cup [pc : {"reading"}, key : Keys, id : Ids]
  \cup [pc : {"got"}, key : Keys, id : Ids, val : Values \cup {Failed}]
  \cup [pc : {"reply"}, key : Keys, val : Values \cup {Failed}]
  \cup [pc : {"flushing"}, todo : SUBSET Keys, delete : SUBSET Ids]

\* "opening" holds the guard of the blob map across `File::open(path).await`.
ReaderState ==
  {Idle}
  \cup [pc : {"opening"}, digest : Digests, id : Ids]
  \cup [pc : {"serving"}, digest : Digests, content : Content \cup {Failed}]

EvictorState ==
  {Idle}
  \cup [pc : {"spillRedis"}, key : Keys, id : Ids, val : Values]
  \cup [pc : {"spillBlob"}, digest : Digests, id : Ids]
  \cup [pc : {"deleting", "failed"}, id : Ids]

Init ==
  /\ entries = [k \in Keys |-> None]
  /\ blobs = [d \in Digests |-> None]
  /\ files = [i \in Ids |-> NoFile]
  /\ nextId = 0
  /\ unlinks = {}
  /\ conns = [c \in Conns |-> Idle]
  /\ readers = [r \in Readers |-> Idle]
  /\ evictor = Idle
  /\ written = [k \in Keys |-> {}]

-----------------------------------------------------------------------------
(***************************************************************************)
(* The helpers of State.                                                   *)
(***************************************************************************)
DiskFile(k) == IF entries[k].tier = "Disk" THEN {entries[k].id} ELSE {}

InsertRedisUnlinksAnyTier(k, v) ==
  /\ nextId < MaxId
  /\ nextId' = nextId + 1
  /\ entries' = [entries EXCEPT ![k] = InMemory(nextId, v)]
  /\ unlinks' = unlinks \cup (IF entries[k].tier = "None" THEN {} ELSE {entries[k].id})

InsertRedisNextId(k, v) ==
  /\ nextId < MaxId
  /\ nextId' = nextId + 1
  /\ entries' = [entries EXCEPT ![k] = InMemory(nextId', v)]
  /\ unlinks' = unlinks \cup DiskFile(k)

InsertRedisReusesId(k, v) ==
  /\ nextId < MaxId
  /\ nextId' = nextId + 1
  /\ entries' = [entries EXCEPT ![k] =
                   InMemory(IF entries[k].tier = "Disk" THEN entries[k].id ELSE nextId, v)]
  /\ unlinks' = unlinks \cup DiskFile(k)

\* insert_redis: a fresh id, and an unlink for the file of a replaced entry.
InsertRedis(k, v) ==
  /\ nextId < MaxId
  /\ nextId' = nextId + 1
  /\ entries' = [entries EXCEPT ![k] = InMemory(nextId, v)]
  /\ unlinks' = unlinks \cup DiskFile(k)

RemoveRedisLeavesFile(k) ==
  /\ entries' = [entries EXCEPT ![k] = None]
  /\ unlinks' = unlinks

\* remove_redis: does nothing when the key is gone.
RemoveRedis(k) ==
  /\ entries' = [entries EXCEPT ![k] = None]
  /\ unlinks' = unlinks \cup DiskFile(k)

NeverLocked(d) == FALSE

\* The guard a blob GET holds while it opens the file keeps every writer of
\* the same map entry out.
Locked(d) == \E r \in Readers :
               readers[r].pc = "opening" /\ readers[r].digest = d

-----------------------------------------------------------------------------
(***************************************************************************)
(* Redis connections.                                                      *)
(***************************************************************************)
\* GET, up to the first await: a miss, a hit in memory, or a file to read.
GetMiss(c, k) ==
  /\ conns[c].pc = "idle"
  /\ entries[k].tier = "None"
  /\ conns' = [conns EXCEPT ![c] = [pc |-> "reply", key |-> k, val |-> Failed]]
  /\ UNCHANGED <<entries, blobs, files, nextId, unlinks, readers, evictor, written>>

GetHit(c, k) ==
  /\ conns[c].pc = "idle"
  /\ entries[k].tier = "Mem"
  /\ conns' = [conns EXCEPT ![c] = [pc |-> "reply", key |-> k, val |-> entries[k].val]]
  /\ UNCHANGED <<entries, blobs, files, nextId, unlinks, readers, evictor, written>>

GetOnDisk(c, k) ==
  /\ conns[c].pc = "idle"
  /\ entries[k].tier = "Disk"
  /\ conns' = [conns EXCEPT ![c] = [pc |-> "reading", key |-> k, id |-> entries[k].id]]
  /\ UNCHANGED <<entries, blobs, files, nextId, unlinks, readers, evictor, written>>

GetReadOfNothing(c) ==
  /\ conns[c].pc = "reading"
  /\ conns' = [conns EXCEPT ![c] =
       [pc |-> "got", key |-> conns[c].key, id |-> conns[c].id, val |-> files[conns[c].id]]]
  /\ UNCHANGED <<entries, blobs, files, nextId, unlinks, readers, evictor, written>>

\* fs::read: the whole file, or an error (no such file, or an I/O error).
GetRead(c) ==
  /\ conns[c].pc = "reading"
  /\ \E v \in {Failed, files[conns[c].id]} \ {NoFile} :
       conns' = [conns EXCEPT ![c] =
         [pc |-> "got", key |-> conns[c].key, id |-> conns[c].id, val |-> v]]
  /\ UNCHANGED <<entries, blobs, files, nextId, unlinks, readers, evictor, written>>

\* The read succeeded: the value is promoted to memory under a new id.
GetPromote(c) ==
  /\ conns[c].pc = "got"
  /\ conns[c].val # Failed
  /\ InsertRedis(conns[c].key, conns[c].val)
  /\ conns' = [conns EXCEPT ![c] =
                 [pc |-> "reply", key |-> conns[c].key, val |-> conns[c].val]]
  /\ UNCHANGED <<blobs, files, readers, evictor, written>>

\* The read failed: the entry is removed, and the answer is nil.
GetReadError(c) ==
  /\ conns[c].pc = "got"
  /\ conns[c].val = Failed
  /\ RemoveRedis(conns[c].key)
  /\ conns' = [conns EXCEPT ![c] =
                 [pc |-> "reply", key |-> conns[c].key, val |-> Failed]]
  /\ UNCHANGED <<blobs, files, nextId, readers, evictor, written>>

GetReply(c) ==
  /\ conns[c].pc = "reply"
  /\ conns' = [conns EXCEPT ![c] = Idle]
  /\ UNCHANGED <<entries, blobs, files, nextId, unlinks, readers, evictor, written>>

Set(c, k, v) ==
  /\ conns[c].pc = "idle"
  /\ InsertRedis(k, v)
  /\ written' = [written EXCEPT ![k] = @ \cup {v}]
  /\ UNCHANGED <<blobs, files, conns, readers, evictor>>

\* DEL and UNLINK, one key at a time.
Del(c, k) ==
  /\ conns[c].pc = "idle"
  /\ entries[k].tier # "None"
  /\ RemoveRedis(k)
  /\ UNCHANGED <<blobs, files, nextId, conns, readers, evictor, written>>

\* FLUSHDB and FLUSHALL.  `retain` locks the map shard by shard, so other
\* tasks run between the removals of two keys.
FlushStart(c) ==
  /\ conns[c].pc = "idle"
  /\ conns' = [conns EXCEPT ![c] = [pc |-> "flushing", todo |-> Keys, delete |-> {}]]
  /\ UNCHANGED <<entries, blobs, files, nextId, unlinks, readers, evictor, written>>

FlushKey(c, k) ==
  /\ conns[c].pc = "flushing"
  /\ k \in conns[c].todo
  /\ entries' = [entries EXCEPT ![k] = None]
  /\ conns' = [conns EXCEPT ![c] =
       [pc |-> "flushing", todo |-> conns[c].todo \ {k},
        delete |-> conns[c].delete \cup DiskFile(k)]]
  /\ UNCHANGED <<blobs, files, nextId, unlinks, readers, evictor, written>>

FlushEndWhenEmpty(c) ==
  /\ conns[c].pc = "flushing"
  /\ conns[c].todo = {}
  /\ \A k \in Keys : entries[k].tier = "None"
  /\ unlinks' = unlinks \cup conns[c].delete
  /\ conns' = [conns EXCEPT ![c] = Idle]
  /\ UNCHANGED <<entries, blobs, files, nextId, readers, evictor, written>>

FlushEnd(c) ==
  /\ conns[c].pc = "flushing"
  /\ conns[c].todo = {}
  /\ unlinks' = unlinks \cup conns[c].delete
  /\ conns' = [conns EXCEPT ![c] = Idle]
  /\ UNCHANGED <<entries, blobs, files, nextId, readers, evictor, written>>

Conn(c) ==
  \/ \E k \in Keys : \/ GetMiss(c, k) \/ GetHit(c, k) \/ GetOnDisk(c, k)
                    \/ Del(c, k) \/ FlushKey(c, k)
  \/ \E k \in Keys, v \in Values : Set(c, k, v)
  \/ GetRead(c) \/ GetPromote(c) \/ GetReadError(c) \/ GetReply(c)
  \/ FlushStart(c) \/ FlushEnd(c)

\* A spawned remove_file task runs; a file that is not there is no error.
Unlink(i) ==
  /\ i \in unlinks
  /\ files' = [files EXCEPT ![i] = NoFile]
  /\ unlinks' = unlinks \ {i}
  /\ UNCHANGED <<entries, blobs, nextId, conns, readers, evictor, written>>

-----------------------------------------------------------------------------
(***************************************************************************)
(* Docker requests.                                                        *)
(***************************************************************************)
\* The last step of an upload or of a fill: insert_blob of an InMemory blob
\* with a fresh id.  The file of a replaced OnDisk blob is left alone.
InsertBlob(d) ==
  /\ ~Locked(d)
  /\ nextId < MaxId
  /\ nextId' = nextId + 1
  /\ blobs' = [blobs EXCEPT ![d] = InMemory(nextId, d)]
  /\ UNCHANGED <<entries, files, unlinks, conns, readers, evictor, written>>

\* GET of a cached blob: memory is served at once, a file is opened first.
BlobHitMem(r, d) ==
  /\ readers[r].pc = "idle"
  /\ blobs[d].tier = "Mem"
  /\ readers' = [readers EXCEPT ![r] =
                   [pc |-> "serving", digest |-> d, content |-> blobs[d].val]]
  /\ UNCHANGED <<entries, blobs, files, nextId, unlinks, conns, evictor, written>>

BlobHitDisk(r, d) ==
  /\ readers[r].pc = "idle"
  /\ blobs[d].tier = "Disk"
  /\ readers' = [readers EXCEPT ![r] =
                   [pc |-> "opening", digest |-> d, id |-> blobs[d].id]]
  /\ UNCHANGED <<entries, blobs, files, nextId, unlinks, conns, evictor, written>>

\* File::open: once it is open, the bytes are served even if it is unlinked.
BlobOpen(r) ==
  /\ readers[r].pc = "opening"
  /\ readers' = [readers EXCEPT ![r] =
       [pc |-> "serving", digest |-> readers[r].digest,
        content |-> IF files[readers[r].id] = NoFile
                    THEN Failed ELSE files[readers[r].id]]]
  /\ UNCHANGED <<entries, blobs, files, nextId, unlinks, conns, evictor, written>>

BlobServed(r) ==
  /\ readers[r].pc = "serving"
  /\ readers' = [readers EXCEPT ![r] = Idle]
  /\ UNCHANGED <<entries, blobs, files, nextId, unlinks, conns, evictor, written>>

Reader(r) ==
  \/ \E d \in Digests : BlobHitMem(r, d) \/ BlobHitDisk(r, d)
  \/ BlobOpen(r) \/ BlobServed(r)

-----------------------------------------------------------------------------
(***************************************************************************)
(* The eviction task.                                                      *)
(***************************************************************************)
\* A large redis entry is cloned out of the map and written to its file.
SpillRedisStart(k) ==
  /\ evictor.pc = "idle"
  /\ entries[k].tier = "Mem"
  /\ evictor' = [pc |-> "spillRedis", key |-> k, id |-> entries[k].id, val |-> entries[k].val]
  /\ files' = [files EXCEPT ![entries[k].id] = Partial]
  /\ UNCHANGED <<entries, blobs, nextId, unlinks, conns, readers, written>>

\* The write is complete; the map entry is replaced, whatever it is now.
SpillRedisFinish ==
  /\ evictor.pc = "spillRedis"
  /\ files' = [files EXCEPT ![evictor.id] = evictor.val]
  /\ entries' = [entries EXCEPT ![evictor.key] = OnDisk(evictor.id, evictor.val)]
  /\ evictor' = Idle
  /\ UNCHANGED <<blobs, nextId, unlinks, conns, readers, written>>

\* remove_redis of a victim.
DropRedis(k) ==
  /\ evictor.pc = "idle"
  /\ entries[k].tier # "None"
  /\ RemoveRedis(k)
  /\ UNCHANGED <<blobs, files, nextId, conns, readers, evictor, written>>

\* A large blob of a spilled manifest.
SpillBlobStart(d) ==
  /\ evictor.pc = "idle"
  /\ blobs[d].tier = "Mem"
  /\ evictor' = [pc |-> "spillBlob", digest |-> d, id |-> blobs[d].id]
  /\ files' = [files EXCEPT ![blobs[d].id] = Partial]
  /\ UNCHANGED <<entries, blobs, nextId, unlinks, conns, readers, written>>

SpillBlobFinish ==
  /\ evictor.pc = "spillBlob"
  /\ ~Locked(evictor.digest)
  /\ files' = [files EXCEPT ![evictor.id] = evictor.digest]
  /\ blobs' = [blobs EXCEPT ![evictor.digest] = OnDisk(evictor.id, evictor.digest)]
  /\ evictor' = Idle
  /\ UNCHANGED <<entries, nextId, unlinks, conns, readers, written>>

\* A write fails (disk full): evict returns the error, its loop ends, and
\* the file stays as it is.
SpillFail ==
  /\ evictor.pc \in {"spillRedis", "spillBlob"}
  /\ evictor' = [pc |-> "failed", id |-> evictor.id]
  /\ UNCHANGED <<entries, blobs, files, nextId, unlinks, conns, readers, written>>

DropBlobLeavesFile(d) ==
  /\ evictor.pc = "idle"
  /\ blobs[d].tier # "None"
  /\ ~Locked(d)
  /\ blobs' = [blobs EXCEPT ![d] = None]
  /\ UNCHANGED <<entries, files, nextId, unlinks, conns, readers, evictor, written>>

\* remove_blob, then (for an OnDisk blob) the awaited delete_disk_blob.
DropBlob(d) ==
  /\ evictor.pc = "idle"
  /\ blobs[d].tier # "None"
  /\ ~Locked(d)
  /\ blobs' = [blobs EXCEPT ![d] = None]
  /\ evictor' = IF blobs[d].tier = "Disk"
                THEN [pc |-> "deleting", id |-> blobs[d].id] ELSE Idle
  /\ UNCHANGED <<entries, files, nextId, unlinks, conns, readers, written>>

DeleteBlobFile ==
  /\ evictor.pc = "deleting"
  /\ files' = [files EXCEPT ![evictor.id] = NoFile]
  /\ evictor' = Idle
  /\ UNCHANGED <<entries, blobs, nextId, unlinks, conns, readers, written>>

Evict ==
  \/ \E k \in Keys : SpillRedisStart(k) \/ DropRedis(k)
  \/ \E d \in Digests : SpillBlobStart(d) \/ DropBlob(d)
  \/ SpillRedisFinish \/ SpillBlobFinish \/ SpillFail \/ DeleteBlobFile

Next ==
  \/ \E c \in Conns : Conn(c)
  \/ \E i \in unlinks : Unlink(i)
  \/ \E d \in Digests : InsertBlob(d)
  \/ \E r \in Readers : Reader(r)
  \/ Evict

Spec == Init /\ [][Next]_vars

-----------------------------------------------------------------------------
(***************************************************************************)
(* Fairness.  Spawned tasks and a connection that is between two awaits    *)
(* are polled by the runtime until they finish.  Clients owe nothing.      *)
(***************************************************************************)
FairSpec ==
  /\ Spec
  /\ \A i \in Ids : WF_vars(Unlink(i))
  /\ \A c \in Conns : WF_vars(FlushEnd(c)) /\ \A k \in Keys : WF_vars(FlushKey(c, k))

-----------------------------------------------------------------------------
(***************************************************************************)
(* Properties.                                                             *)
(***************************************************************************)
\* The type of the state: every id in use comes from next_id, and a task is
\* at one of the awaits of its handler.
TypeOK ==
  /\ entries \in [Keys -> RedisEntry]
  /\ blobs \in [Digests -> Blob]
  /\ files \in [Ids -> Content]
  /\ nextId \in 0 .. MaxId
  /\ unlinks \in SUBSET Ids
  /\ conns \in [Conns -> ConnState]
  /\ readers \in [Readers -> ReaderState]
  /\ evictor \in EvictorState
  /\ written \in [Keys -> SUBSET Values]

\* Whatever spills, promotions, deletions and unlinks overlap, the file of
\* every OnDisk entry and of every OnDisk blob is complete and holds the
\* right bytes: no unlink task removes a file that is in use, no half
\* written file is visible through a map.
OnDiskIsBacked ==
  /\ \A k \in Keys : entries[k].tier = "Disk" => files[entries[k].id] = entries[k].val
  /\ \A d \in Digests : blobs[d].tier = "Disk" => files[blobs[d].id] = d

\* Who will still look at, or remove, the file of a redis value.
RedisFileOwned(i) ==
  \/ \E k \in Keys : entries[k].tier = "Disk" /\ entries[k].id = i
  \/ i \in unlinks
  \/ \E c \in Conns : conns[c].pc = "flushing" /\ i \in conns[c].delete

\* insert_redis, remove_redis, flush_redis and the spill never lose track of
\* a redis file: a complete one belongs to an entry or to a pending unlink,
\* although the spill overwrites the entry without looking at it.
NoLeakedRedisFile ==
  \A i \in Ids : files[i] \in Values => RedisFileOwned(i)

\* A value that is stored under a key, read from its file or sent back was
\* SET for that key before: no GET answers with another key's bytes, a
\* blob's bytes or a half written file, however late its read is applied.
GetReturnsWrittenValue ==
  /\ \A k \in Keys : entries[k].tier # "None" => entries[k].val \in written[k]
  /\ \A c \in Conns : conns[c].pc \in {"got", "reply"} =>
       conns[c].val \in written[conns[c].key] \cup {Failed}

\* serve_disk_blob never meets its "missing on-disk blob; cache
\* inconsistent" branch, and serves the bytes of the digest it was asked
\* for: remove_blob comes before the file's deletion and waits for the
\* guard the request holds while it opens the file.
DiskBlobIsServed ==
  \A r \in Readers : readers[r].pc = "serving" => readers[r].content = readers[r].digest

\* A redis file that no entry refers to is removed in the end, provided that
\* remove_file succeeds (the unlink tasks ignore its error).
RedisFileReclaimed ==
  \A i \in Ids :
    (files[i] \in Values /\ \A k \in Keys : entries[k].tier = "Disk" => entries[k].id # i)
      ~> files[i] = NoFile

\* A spill that finishes turns the entry it wrote, and no other, from
\* InMemory into OnDisk (eviction.rs:856: the entries "just transition from
\* `InMemory` to `OnDisk`").
SpillIsATierMove ==
  [][evictor.pc = "spillRedis" /\ evictor'.pc = "idle" =>
       entries[evictor.key] = InMemory(evictor.id, evictor.val)]_vars

\* A complete blob file that no blob of the map, and no deletion, refers to.
OrphanedBlobFile(i) ==
  /\ files[i] \in Digests
  /\ \A d \in Digests : blobs[d].tier = "Disk" => blobs[d].id # i
  /\ ~(evictor.pc = "deleting" /\ evictor.id = i)

\* A blob file is forgotten in one way only: an OnDisk blob is uploaded again
\* and insert_blob replaces it without its file (state.rs:254).  Spills,
\* drops and failed writes, whatever is uploaded beside them, leave no
\* complete file that is outside the map, and so outside the buckets that
\* "together account for every byte the cache holds" (state.rs:130).
OrphanNeedsReupload ==
  [][\A i \in Ids : OrphanedBlobFile(i)' /\ ~OrphanedBlobFile(i) =>
       \E d \in Digests : /\ blobs[d] = OnDisk(i, d)
                          /\ blobs'[d].tier = "Mem"]_vars
-----------------------------------------------------------------------------
(***************************************************************************)
(* The inductive invariant: who may hold an id.  An id names one file for  *)
(* ever, so everything above follows from ids being fresh when they are    *)
(* handed out and never shared between two live users of their file.       *)
(***************************************************************************)
Spilling == evictor.pc \in {"spillRedis", "spillBlob"}

\* Ids in use were handed out before.
IdsHandedOut ==
  /\ \A k \in Keys : entries[k].tier # "None" => entries[k].id < nextId
  /\ \A d \in Digests : blobs[d].tier # "None" => blobs[d].id < nextId
  /\ \A i \in unlinks : i < nextId
  /\ \A c \in Conns : conns[c].pc = "reading" => conns[c].id < nextId
  /\ \A c \in Conns : conns[c].pc = "flushing" => \A i \in conns[c].delete : i < nextId
  /\ evictor.pc # "idle" => evictor.id < nextId

\* No two entries or blobs share an id.
IdsDistinct ==
  /\ \A k, l \in Keys :
       k # l /\ entries[k].tier # "None" /\ entries[l].tier # "None" => entries[k].id # entries[l].id
  /\ \A d, e \in Digests :
       d # e /\ blobs[d].tier # "None" /\ blobs[e].tier # "None" => blobs[d].id # blobs[e].id
  /\ \A k \in Keys, d \in Digests :
       entries[k].tier # "None" /\ blobs[d].tier # "None" => entries[k].id # blobs[d].id

BlobIsItsDigest == \A d \in Digests : blobs[d].tier # "None" => blobs[d].val = d

\* No entry, blob or spill uses the id i.
Unused(i) ==
  /\ \A k \in Keys : entries[k].tier # "None" => entries[k].id # i
  /\ \A d \in Digests : blobs[d].tier # "None" => blobs[d].id # i
  /\ Spilling => evictor.id # i

\* A file that is to be removed is out of use.
RemovalsUnused ==
  /\ \A i \in unlinks : Unused(i)
  /\ \A c \in Conns : conns[c].pc = "flushing" => \A i \in conns[c].delete : Unused(i)
  /\ evictor.pc = "deleting" => Unused(evictor.id)

\* The id of a spill in flight is still the id of the entry or the blob it
\* was started for, or of none; and what it will replace is not OnDisk.
SpillOwnsId ==
  /\ evictor.pc = "spillRedis" =>
       /\ entries[evictor.key].tier # "Disk"
       /\ evictor.val \in written[evictor.key]
       /\ \A k \in Keys : entries[k].tier # "None" /\ entries[k].id = evictor.id => k = evictor.key
       /\ \A d \in Digests : blobs[d].tier # "None" => blobs[d].id # evictor.id
  /\ evictor.pc = "spillBlob" =>
       /\ blobs[evictor.digest].tier = "Mem"
       /\ \A k \in Keys : entries[k].tier # "None" => entries[k].id # evictor.id
       /\ \A d \in Digests : blobs[d].tier # "None" /\ blobs[d].id = evictor.id => d = evictor.digest

\* The file a GET is about to read has been complete since before the GET's
\* lookup: nobody writes it again, it can only be unlinked.
ReadingIsStable ==
  \A c \in Conns : conns[c].pc = "reading" =>
    /\ files[conns[c].id] \in {NoFile} \cup written[conns[c].key]
    /\ \A k \in Keys : entries[k].tier = "Mem" => entries[k].id # conns[c].id
    /\ \A d \in Digests : blobs[d].tier # "None" => blobs[d].id # conns[c].id
    /\ Spilling => evictor.id # conns[c].id

\* While a blob GET opens its file, the blob stays as it was looked up.
OpeningIsStable ==
  \A r \in Readers : readers[r].pc = "opening" =>
    /\ blobs[readers[r].digest].tier = "Disk"
    /\ blobs[readers[r].digest].id = readers[r].id

\* No file that an entry or a blob points to has anything else in it.
FilesNotWrong ==
  /\ \A k \in Keys : entries[k].tier = "Disk" => files[entries[k].id] \in {entries[k].val, NoFile}
  /\ \A d \in Digests : blobs[d].tier = "Disk" => files[blobs[d].id] = d

\* What holds whatever files an earlier process has left behind.
CoreInv ==
  /\ TypeOK
  /\ IdsHandedOut
  /\ IdsDistinct
  /\ BlobIsItsDigest
  /\ RemovalsUnused
  /\ SpillOwnsId
  /\ ReadingIsStable
  /\ OpeningIsStable
  /\ FilesNotWrong
  /\ GetReturnsWrittenValue
  /\ DiskBlobIsServed

FreshIdsHaveNoFile == \A i \in Ids : i >= nextId => files[i] = NoFile

\* What holds in addition when the data folder was empty at first.
FilesInv ==
  /\ FreshIdsHaveNoFile
  /\ OnDiskIsBacked
  /\ NoLeakedRedisFile

IInv == CoreInv /\ FilesInv
=============================================================================
