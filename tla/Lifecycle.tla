----------------------------- MODULE Lifecycle ------------------------------
(***************************************************************************)
(* The process around the two-tier store: it stops cleanly and writes a    *)
(* snapshot, or crashes; it starts from the snapshot, or from nothing.     *)
(* Memory (the maps, next_id, the tasks) dies with the process; the data   *)
(* folder (the cache files and snapshot.cbor) does not.                    *)
(*                                                                         *)
(* A clean stop waits for the listeners, the redis connections and the     *)
(* eviction task (run_tasks).  Docker connections and unlink tasks are     *)
(* plain tokio::spawn tasks that nobody waits for: they go on while save   *)
(* walks the maps.                                                         *)
(*                                                                         *)
(* Manifests and tags are added here (one repository, one tag): save walks *)
(* their maps between the blobs and the redis entries.  A pass drops any   *)
(* manifest; which one it picks is the subject of the module Eviction.     *)
(***************************************************************************)
EXTENDS TwoTierStore

CONSTANTS
  Manifests,    \* digests of the manifests that are pushed
  Inline,       \* contents of at most SNAPSHOT_INLINE_THRESHOLD bytes
  NoSnapshot,   \* there is no snapshot.cbor
  Corrupt,      \* a snapshot.cbor that never loads: damaged, other version
  Nobody        \* no item, or no manifest

ASSUME InlineAssumption == Inline \subseteq Values \cup Digests
ASSUME ItemAssumption ==
  /\ Keys \cap Digests = {}
  /\ Nobody \notin Keys \cup Digests \cup Manifests
  /\ {"manifests", "tags"} \cap (Keys \cup Digests) = {}

VARIABLES
  manifests,  \* State::manifests
  tag,        \* State::tags, for one tag
  puts,       \* manifest PUTs between insert_manifest and tags.insert
  dropping,   \* the manifest a pass has removed and not yet untagged
  raced,      \* history: the tag was set by a push that raced (see PutTag)
  phase,      \* where main is
  saver,      \* the local variables of save
  snapshot,   \* the file snapshot.cbor
  promised,   \* history: what GETs would have answered when the last save ended
  stale,      \* history: the snapshot outlived the wipe of its files
  foreign     \* history: a process has loaded such a snapshot

pushVars == <<manifests, tag, puts, dropping, raced>>
diskVars == <<snapshot, promised, stale, foreign>>
lifeVars == <<phase, saver, diskVars>>
allVars  == <<vars, pushVars, lifeVars>>

Items == Digests \cup Keys

\* "loaded": load succeeded, the snapshot file is still there.  "wiped": load
\* failed and wipe_cache has run, the snapshot file is still there.
Phases == {"down", "loaded", "wiped", "running", "saving"}

\* BlobEntry and RedisEntryEntry: an item without content is in its file.
SavedItem == {None} \cup [id : Ids, val : Values \cup Digests, inline : BOOLEAN]
Image     == [items : [Items -> SavedItem], manifests : SUBSET Manifests,
              tag : Manifests \cup {Nobody}, raced : BOOLEAN, nextId : 0 .. MaxId]
Saver     == [todo : SUBSET (Items \cup {"manifests", "tags"}), at : Items \cup {Nobody},
              items : [Items -> SavedItem], manifests : SUBSET Manifests,
              tag : Manifests \cup {Nobody}, raced : BOOLEAN]
NotSaving == [todo |-> {}, at |-> Nobody, items |-> [x \in Items |-> None],
              manifests |-> {}, tag |-> Nobody, raced |-> FALSE]

Stored(x) == IF x \in Digests THEN blobs[x] ELSE entries[x]

\* What the memory of a new process holds.
Blank ==
  /\ entries' = [k \in Keys |-> None]
  /\ blobs' = [d \in Digests |-> None]
  /\ manifests' = {}
  /\ tag' = Nobody
  /\ raced' = FALSE
  /\ nextId' = 0

\* The process is gone, and its tasks with it; files stay as they are.
ProcessEnds ==
  /\ phase' = "down"
  /\ saver' = NotSaving
  /\ Blank
  /\ unlinks' = {}
  /\ conns' = [c \in Conns |-> Idle]
  /\ readers' = [r \in Readers |-> Idle]
  /\ evictor' = Idle
  /\ puts' = {}
  /\ dropping' = Nobody
  /\ UNCHANGED written

LifeInit ==
  /\ Init
  /\ manifests = {}
  /\ tag = Nobody
  /\ puts = {}
  /\ dropping = Nobody
  /\ raced = FALSE
  /\ phase = "down"
  /\ saver = NotSaving
  /\ snapshot = NoSnapshot
  /\ promised = NoSnapshot
  /\ stale = FALSE
  /\ foreign = FALSE

-----------------------------------------------------------------------------
(***************************************************************************)
(* While the process runs.                                                 *)
(***************************************************************************)
\* The eviction task does nothing else while it drops a manifest.
Running ==
  /\ phase = "running"
  /\ Next
  /\ dropping # Nobody => evictor' = evictor
  /\ UNCHANGED <<pushVars, lifeVars>>

\* put_manifest, once its body is read: insert_manifest, then (PutTag)
\* tags.insert.
PutManifest(m) ==
  /\ phase \in {"running", "saving"}
  /\ manifests' = manifests \cup {m}
  /\ puts' = puts \cup {m}
  /\ UNCHANGED <<vars, lifeVars, tag, dropping, raced>>

\* A push races when its manifest is gone again by now, or when a save has
\* begun.  It may go on (another insert under the digest, another push of
\* the same manifest) or be done.
PutTag(m) ==
  /\ m \in puts
  /\ tag' = m
  /\ puts' \in {puts, puts \ {m}}
  /\ raced' = (phase = "saving" \/ m \notin manifests)
  /\ UNCHANGED <<vars, lifeVars, manifests, dropping>>

\* A pass drops a manifest: remove_manifest, then (Untag) tags.retain.
DropManifest(m) ==
  /\ phase = "running"
  /\ evictor.pc = "idle"
  /\ dropping = Nobody
  /\ m \in manifests
  /\ manifests' = manifests \ {m}
  /\ dropping' = m
  /\ UNCHANGED <<vars, lifeVars, tag, puts, raced>>

UntagNothing ==
  /\ dropping # Nobody
  /\ dropping' = Nobody
  /\ UNCHANGED <<vars, lifeVars, manifests, tag, puts, raced>>

Untag ==
  /\ dropping # Nobody
  /\ tag' = IF tag = dropping THEN Nobody ELSE tag
  /\ raced' = (raced /\ tag # dropping)
  /\ dropping' = Nobody
  /\ UNCHANGED <<vars, lifeVars, manifests, puts>>

\* A kill, a panic, or (in "loaded") a snapshot that cannot be removed, with
\* which main returns an error.
Crash ==
  /\ phase # "down"
  /\ ProcessEnds
  /\ UNCHANGED <<files, diskVars>>

-----------------------------------------------------------------------------
(***************************************************************************)
(* A clean stop.                                                           *)
(***************************************************************************)
\* run_tasks has returned: the pass and its loop are over, and every redis
\* connection was aborted at an await (a FLUSH or a promotion that had begun
\* was finished first).  Save begins its walk.
SaveStart ==
  /\ phase = "running"
  /\ evictor.pc \in {"idle", "failed"}
  /\ dropping = Nobody
  /\ \A c \in Conns : conns[c].pc \in {"idle", "reading", "reply"}
  /\ phase' = "saving"
  /\ conns' = [c \in Conns |-> Idle]
  /\ evictor' = Idle
  /\ saver' = [NotSaving EXCEPT !.todo = Items \cup {"manifests", "tags"}]
  /\ UNCHANGED <<entries, blobs, files, nextId, unlinks, readers, written,
                 pushVars, diskVars>>

\* The tasks nobody waited for.  The iterator's guard keeps an insert_blob of
\* the blob that is being written out.
Stragglers ==
  /\ phase = "saving"
  /\ \/ \E i \in unlinks : Unlink(i)
     \/ \E d \in Digests \ {saver.at} : InsertBlob(d)
     \/ \E r \in Readers : Reader(r)
  /\ UNCHANGED <<pushVars, lifeVars>>

\* The blobs come first, then manifests, tags and redis entries.
WalkedBefore(x) ==
  IF x \in Digests THEN {}
  ELSE Digests \cup (IF x = "manifests" THEN {}
                     ELSE {"manifests"} \cup (IF x = "tags" THEN {} ELSE {"tags"}))

Walked(x) ==
  /\ phase = "saving"
  /\ saver.at = Nobody
  /\ x \in saver.todo
  /\ WalkedBefore(x) \cap saver.todo = {}

SaveManifests ==
  /\ Walked("manifests")
  /\ saver' = [saver EXCEPT !.todo = @ \ {"manifests"}, !.manifests = manifests]
  /\ UNCHANGED <<vars, pushVars, phase, diskVars>>

SaveTags ==
  /\ Walked("tags")
  /\ saver' = [saver EXCEPT !.todo = @ \ {"tags"}, !.tag = tag, !.raced = raced]
  /\ UNCHANGED <<vars, pushVars, phase, diskVars>>

NeedsFile(e) == e.tier = "Mem" /\ e.val \notin Inline

\* An item that is gone, OnDisk, or small enough for the snapshot itself.
SaveItem(x) ==
  /\ Walked(x)
  /\ ~NeedsFile(Stored(x))
  /\ saver' = [saver EXCEPT
       !.todo = @ \ {x},
       !.items[x] = IF Stored(x).tier = "None" THEN None
                    ELSE [id |-> Stored(x).id, val |-> Stored(x).val,
                          inline |-> Stored(x).tier = "Mem"]]
  /\ UNCHANGED <<vars, pushVars, phase, diskVars>>

\* A large item in memory is written to its file first.
SaveItemWrite(x) ==
  /\ Walked(x)
  /\ NeedsFile(Stored(x))
  /\ files' = [files EXCEPT ![Stored(x).id] = Partial]
  /\ saver' = [saver EXCEPT !.at = x]
  /\ UNCHANGED <<entries, blobs, nextId, unlinks, conns, readers, evictor, written,
                 pushVars, phase, diskVars>>

SaveItemWritten ==
  /\ phase = "saving"
  /\ saver.at # Nobody
  /\ LET e == Stored(saver.at) IN
       /\ files' = [files EXCEPT ![e.id] = e.val]
       /\ saver' = [saver EXCEPT
            !.todo = @ \ {saver.at}, !.at = Nobody,
            !.items[saver.at] = [id |-> e.id, val |-> e.val, inline |-> FALSE]]
  /\ UNCHANGED <<entries, blobs, nextId, unlinks, conns, readers, evictor, written,
                 pushVars, phase, diskVars>>

\* What a GET would answer now: an OnDisk entry has what its file has.
Answer(k) ==
  IF entries[k].tier = "None" \/ (entries[k].tier = "Disk" /\ files[entries[k].id] = NoFile)
  THEN Failed
  ELSE IF entries[k].tier = "Mem" THEN entries[k].val ELSE files[entries[k].id]

SnapshotNextIdOfRedis ==
  IF \E k \in Keys : saver.items[k] # None
  THEN 1 + saver.items[CHOOSE k \in Keys : saver.items[k] # None].id ELSE 0

\* next_id is read when the walks are over.
SnapshotNextId == nextId

\* The temporary file is written and renamed in place; the process ends.
SaveEnd ==
  /\ phase = "saving"
  /\ saver.todo = {}
  /\ snapshot' = [items |-> saver.items, manifests |-> saver.manifests,
                  tag |-> saver.tag, raced |-> saver.raced, nextId |-> SnapshotNextId]
  /\ promised' = [k \in Keys |-> Answer(k)]
  /\ stale' = FALSE
  /\ ProcessEnds
  /\ UNCHANGED <<files, foreign>>

\* A write or the rename fails: main logs it, and the process ends without
\* a new snapshot.
SaveError ==
  /\ phase = "saving"
  /\ saver.at # Nobody \/ saver.todo = {}
  /\ ProcessEnds
  /\ UNCHANGED <<files, diskVars>>

\* Between two processes: the disk is damaged, or the next program has
\* another SNAPSHOT_VERSION.
Damage ==
  /\ phase = "down"
  /\ snapshot # NoSnapshot
  /\ snapshot' = Corrupt
  /\ stale' = FALSE
  /\ UNCHANGED <<vars, pushVars, phase, saver, promised, foreign>>

-----------------------------------------------------------------------------
(***************************************************************************)
(* A start: load_or_wipe.                                                  *)
(***************************************************************************)
BackedNoMatterWhat(e, alike) == TRUE

\* The file exists and has the size of the blob.  A half written one has not;
\* one with other bytes, which only a stale snapshot can point to, may have.
Backed(e, alike) ==
  files[e.id] = e.val \/ (files[e.id] \notin {NoFile, Partial} /\ e.id \in alike)

RestoredRedis(e) ==
  IF e = None THEN None
  ELSE IF e.inline THEN InMemory(e.id, e.val) ELSE OnDisk(e.id, e.val)

\* Blobs without a file are pruned; redis entries are not looked at.
RestoredBlob(e, alike) ==
  IF e = None \/ (~e.inline /\ ~Backed(e, alike)) THEN None ELSE RestoredRedis(e)

LoadOk ==
  /\ phase = "down"
  /\ snapshot \notin {NoSnapshot, Corrupt}
  /\ \E alike \in SUBSET Ids :
       blobs' = [d \in Digests |-> RestoredBlob(snapshot.items[d], alike)]
  /\ entries' = [k \in Keys |-> RestoredRedis(snapshot.items[k])]
  /\ manifests' = snapshot.manifests
  /\ tag' = snapshot.tag
  /\ raced' = snapshot.raced
  /\ nextId' = snapshot.nextId
  /\ phase' = "loaded"
  /\ foreign' = (foreign \/ stale)
  /\ UNCHANGED <<files, unlinks, conns, readers, evictor, written, puts, dropping,
                 saver, snapshot, promised, stale>>

LoadedKeepsSnapshot ==
  /\ phase = "loaded"
  /\ phase' = "running"
  /\ UNCHANGED <<vars, pushVars, saver, diskVars>>

\* The snapshot is removed before anything else may touch the files.
Loaded ==
  /\ phase = "loaded"
  /\ phase' = "running"
  /\ snapshot' = NoSnapshot
  /\ promised' = NoSnapshot
  /\ stale' = FALSE
  /\ UNCHANGED <<vars, pushVars, saver, foreign>>

\* wipe_cache: remove_dir_all removes all files, or some of them before it
\* fails; the maps are empty and ids start at 0 either way.
WipeCache ==
  /\ \E left \in SUBSET Ids :
       files' = [i \in Ids |-> IF i \in left THEN files[i] ELSE NoFile]
  /\ Blank
  /\ promised' = NoSnapshot
  /\ UNCHANGED <<unlinks, conns, readers, evictor, written, puts, dropping>>

LoadMissing ==
  /\ phase = "down"
  /\ snapshot = NoSnapshot
  /\ WipeCache
  /\ phase' = "running"
  /\ UNCHANGED <<snapshot, stale, foreign, saver>>

\* The snapshot does not load, for ever (Corrupt) or because reading it
\* failed this time.
LoadOther ==
  /\ phase = "down"
  /\ snapshot # NoSnapshot
  /\ WipeCache
  /\ phase' = "wiped"
  /\ UNCHANGED <<snapshot, stale, foreign, saver>>

\* Then it is removed.  The error of remove_file is ignored, so it may stay:
\* a Corrupt one, or a good one that could not be read, whose files are gone.
Wiped ==
  /\ phase = "wiped"
  /\ phase' = "running"
  /\ snapshot' \in {NoSnapshot, snapshot}
  /\ stale' = (snapshot' \notin {NoSnapshot, Corrupt})
  /\ UNCHANGED <<vars, pushVars, saver, promised, foreign>>

LifeNext ==
  \/ Running \/ Crash \/ Untag
  \/ \E m \in Manifests : PutManifest(m) \/ PutTag(m) \/ DropManifest(m)
  \/ SaveManifests \/ SaveTags
  \/ SaveStart \/ Stragglers \/ SaveItemWritten \/ SaveEnd \/ SaveError
  \/ \E x \in Items : SaveItem(x) \/ SaveItemWrite(x)
  \/ Damage
  \/ LoadOk \/ LoadMissing \/ LoadOther \/ Loaded \/ Wiped

LifeSpec == LifeInit /\ [][LifeNext]_allVars

-----------------------------------------------------------------------------
(***************************************************************************)
(* Properties.                                                             *)
(***************************************************************************)
\* No id that next_id will hand out is in use, in any life of the process up
\* to the load of a stale snapshot: save reads next_id after it walked maps
\* to which requests still add, and a wipe resets it together with the maps.
\* (A reused id would put two items into one file.)
NextIdIsUnused ==
  /\ \A k \in Keys : entries[k].tier # "None" => entries[k].id < nextId
  /\ \A d \in Digests : blobs[d].tier # "None" => blobs[d].id < nextId

\* The file of an OnDisk blob is complete and that of a redis entry is its
\* value or is missing.
DiskIsRight ==
  /\ \A k \in Keys : entries[k].tier = "Disk" => files[entries[k].id] \in {entries[k].val, NoFile}
  /\ \A d \in Digests : blobs[d].tier = "Disk" => files[blobs[d].id] = d

\* Whatever is restored, and however often the process crashed while it was
\* writing, loading, wiping or removing files, the disk is right, as long as
\* no process has loaded a snapshot that could be neither read nor removed.
\* (snapshot.rs:326-327 says that a failed load wipes the files "and the
\* snapshot file itself"; snapshot.rs:354 ignores that error, so such a
\* snapshot outlives its files and meets those of a later process.)
DiskSurvivesRestarts == ~foreign => DiskIsRight

\* After a snapshot was loaded every GET answers what it would have answered
\* when save ended: no value is lost to an unlink task or a half written file,
\* no other value is read, and nothing that was deleted comes back.
RestartKeepsRedis ==
  phase = "loaded" /\ promised # NoSnapshot => \A k \in Keys : Answer(k) = promised[k]

\* A tag that is restored without its manifest was set by a push that raced:
\* its manifest was dropped between the two inserts of the push, in this life
\* or in an earlier one, or it came after the save had begun (main.rs:351
\* says that the maps are quiet by then).  Every other tag is restored with
\* its manifest, however drops, pushes, the walks of save and crashes met.
RestoredTagIsUsable ==
  phase = "loaded" /\ tag # Nobody /\ ~raced => tag \in manifests
-----------------------------------------------------------------------------
(***************************************************************************)
(* The inductive invariant: what tags owe to manifests, in every life; and *)
(* as long as no life began with a stale snapshot, the store's own         *)
(* invariant (CoreInv) and what a snapshot, finished or in the making,     *)
(* owes to the files it points to.                                         *)
(***************************************************************************)
LifeTypeOK ==
  /\ TypeOK
  /\ phase \in Phases
  /\ snapshot \in {NoSnapshot, Corrupt} \cup Image
  /\ manifests \in SUBSET Manifests
  /\ tag \in Manifests \cup {Nobody}
  /\ raced \in BOOLEAN
  /\ saver \in Saver
  /\ promised \in {NoSnapshot} \cup [Keys -> Values \cup {Failed}]

\* What a GET would answer after this item was restored.
ItemAnswer(e) ==
  IF e = None \/ (~e.inline /\ files[e.id] = NoFile) THEN Failed
  ELSE IF e.inline THEN e.val ELSE files[e.id]

\* Saved items: ids below n, none of them twice, and no wrong bytes.
ItemsOK(items, n) ==
  /\ \A x \in Items : items[x] # None =>
       /\ items[x].id < n
       /\ IF x \in Digests THEN items[x].val = x ELSE items[x].val \in written[x]
       /\ ~items[x].inline => files[items[x].id] \in {items[x].val, NoFile}
  /\ \A x, y \in Items :
       x # y /\ items[x] # None /\ items[y] # None => items[x].id # items[y].id

\* No task is under way unless the process is up, and save waits for all but
\* Docker requests and unlink tasks.
NoTasks ==
  /\ phase \in {"down", "loaded", "wiped"} =>
       /\ unlinks = {}
       /\ readers = [r \in Readers |-> Idle]
  /\ phase # "running" => evictor = Idle /\ conns = [c \in Conns |-> Idle]

\* A snapshot that loads is there only while nobody touches the files, or it
\* is stale.
SnapshotOK ==
  snapshot \notin {NoSnapshot, Corrupt} /\ ~stale =>
    /\ phase \in {"down", "loaded", "wiped"}
    /\ ItemsOK(snapshot.items, snapshot.nextId)
    /\ promised # NoSnapshot => \A k \in Keys : ItemAnswer(snapshot.items[k]) = promised[k]

LoadedOK ==
  phase = "loaded" =>
    /\ snapshot \notin {NoSnapshot, Corrupt} /\ ~stale
    /\ \A k \in Keys : entries[k] = RestoredRedis(snapshot.items[k])

\* What save has collected so far.  Nobody writes or removes the file of a
\* saved item: its id is in no unlink task and with no other item.
SavingOK ==
  phase = "saving" =>
    /\ saver.at # Nobody => saver.at \in saver.todo /\ Stored(saver.at).tier = "Mem"
    /\ ItemsOK(saver.items, nextId)
    /\ \A x \in Items : saver.items[x] # None =>
         /\ x \notin saver.todo
         /\ saver.items[x].id \notin unlinks
         /\ \A y \in Items \ {x} : Stored(y).tier # "None" => Stored(y).id # saver.items[x].id
    /\ \A k \in Keys \ saver.todo : ItemAnswer(saver.items[k]) = Answer(k)

\* A tag that no racing push set leads to a manifest, but for the one a pass
\* is about to untag; manifests are walked before the tags that name them.
TagsOK ==
  /\ phase \in Phases
  /\ DOMAIN saver = DOMAIN NotSaving /\ saver.at \in Items \cup {Nobody}
  /\ phase # "running" => dropping = Nobody
  /\ phase \in {"down", "loaded", "wiped"} => puts = {}
  /\ ~raced => tag \in manifests \cup {dropping, Nobody}
  /\ snapshot \notin {NoSnapshot, Corrupt} /\ ~snapshot.raced =>
       snapshot.tag \in snapshot.manifests \cup {Nobody}
  /\ phase = "saving" =>
       /\ "manifests" \in saver.todo => "tags" \in saver.todo
       /\ "manifests" \notin saver.todo /\ ~raced => tag \in saver.manifests \cup {Nobody}
       /\ "tags" \notin saver.todo /\ ~saver.raced => saver.tag \in saver.manifests \cup {Nobody}

OwnFilesInv ==
  /\ LifeTypeOK
  /\ CoreInv
  /\ NoTasks
  /\ SnapshotOK
  /\ LoadedOK
  /\ SavingOK

LifeInv == TagsOK /\ (foreign \/ OwnFilesInv)
=============================================================================
