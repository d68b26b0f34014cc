-------------------------- MODULE LifecycleProofs ---------------------------
(***************************************************************************)
(* Proofs about Lifecycle, for any keys, digests, manifests and values,    *)
(* any split into inline and large contents, and any number of restarts:   *)
(* LifeInv is an invariant.  Its first part, TagsOK, holds in every life;  *)
(* the second, OwnFilesInv, until a process loads a snapshot that has      *)
(* outlived its files (foreign).                                           *)
(*                                                                         *)
(* While the process runs it is the store, so CoreInv is preserved by the  *)
(* lemmas of TwoTierStoreProofs; when it ends nothing is in use and        *)
(* CoreInv holds again whatever files are left.  What is new is the way    *)
(* between: SavingOK hands its facts about the collected items to          *)
(* SnapshotOK, and SnapshotOK hands them to CoreInv of the next process.   *)
(***************************************************************************)
EXTENDS Lifecycle, TwoTierStoreProofs

USE DEF None, InMemory, OnDisk, Idle

-----------------------------------------------------------------------------
(***************************************************************************)
(* The pieces of the state.                                                *)
(***************************************************************************)
\* A saved item is not None.
LEMMA SavedIsSomething ==
  ASSUME NEW i, NEW v, NEW b
  PROVE  [id |-> i, val |-> v, inline |-> b] # None
<1> DEFINE s == [id |-> i, val |-> v, inline |-> b]
<1>1. DOMAIN s = {"id", "val", "inline"}
  OBVIOUS
<1>2. DOMAIN None = {"tier"}
  OBVIOUS
<1>3. "tier" \notin {"id", "val", "inline"}
  OBVIOUS
<1> QED
  BY <1>1, <1>2, <1>3

\* What the types of the local variables of save and of a snapshot say.
SaverFacts ==
  /\ saver.todo \subseteq Items \cup {"manifests", "tags"}
  /\ saver.at \in Items \cup {Nobody}
  /\ saver.items \in [Items -> SavedItem]
  /\ saver.manifests \subseteq Manifests
  /\ saver.tag \in Manifests \cup {Nobody}
  /\ saver.raced \in BOOLEAN

ImageFacts ==
  snapshot \notin {NoSnapshot, Corrupt} =>
    /\ snapshot.items \in [Items -> SavedItem]
    /\ snapshot.manifests \subseteq Manifests
    /\ snapshot.tag \in Manifests \cup {Nobody}
    /\ snapshot.raced \in BOOLEAN
    /\ snapshot.nextId \in 0 .. MaxId

LEMMA LifeTypeFacts == LifeTypeOK => SaverFacts /\ ImageFacts
BY DEF LifeTypeOK, Saver, Image, SaverFacts, ImageFacts

\* Keys, digests and the two map names are different items.
LEMMA ItemNames ==
  /\ \A k \in Keys : k \in Items /\ k \notin Digests /\ k # Nobody
  /\ \A d \in Digests : d \in Items /\ d \notin Keys /\ d # Nobody
  /\ \A x \in Items : x # "manifests" /\ x # "tags" /\ x # Nobody
BY ItemAssumption DEF Items

\* What CoreInv says about the entries and the blobs, in one.
StoredFacts ==
  /\ \A x \in Items :
       IF Stored(x).tier = "None" THEN Stored(x) = None
       ELSE /\ Stored(x).tier \in {"Mem", "Disk"}
            /\ Stored(x).id \in Ids /\ Stored(x).id < nextId /\ Stored(x).id \notin unlinks
            /\ Stored(x).val \in Values \cup Digests
            /\ IF x \in Digests THEN Stored(x).val = x ELSE Stored(x).val \in written[x]
            /\ Stored(x).tier = "Disk" => files[Stored(x).id] \in {Stored(x).val, NoFile}
  /\ \A x, y \in Items :
       x # y /\ Stored(x).tier # "None" /\ Stored(y).tier # "None" => Stored(x).id # Stored(y).id

LEMMA CoreStored == CoreInv => StoredFacts
<1> SUFFICES ASSUME CoreInv PROVE StoredFacts
  OBVIOUS
<1>1. TypeFacts
  BY TypeOKFacts DEF CoreInv
<1>2. ASSUME NEW x \in Digests
      PROVE  IF blobs[x].tier = "None" THEN blobs[x] = None
             ELSE /\ blobs[x].tier \in {"Mem", "Disk"}
                  /\ blobs[x].id \in Ids /\ blobs[x].id < nextId /\ blobs[x].id \notin unlinks
                  /\ blobs[x].val = x
                  /\ blobs[x].tier = "Disk" => files[blobs[x].id] = x
  <2>1. blobs[x].tier = "None" => blobs[x] = None
    BY DEF CoreInv, TypeOK, Blob
  <2> QED
    BY <1>1, <2>1 DEF CoreInv, TypeFacts, IdsHandedOut, RemovalsUnused, Unused, BlobIsItsDigest,
                      FilesNotWrong
<1>3. ASSUME NEW x \in Keys
      PROVE  IF entries[x].tier = "None" THEN entries[x] = None
             ELSE /\ entries[x].tier \in {"Mem", "Disk"}
                  /\ entries[x].id \in Ids /\ entries[x].id < nextId /\ entries[x].id \notin unlinks
                  /\ entries[x].val \in Values /\ entries[x].val \in written[x]
                  /\ entries[x].tier = "Disk" => files[entries[x].id] \in {entries[x].val, NoFile}
  <2>1. entries[x].tier = "None" => entries[x] = None
    BY DEF CoreInv, TypeOK, RedisEntry
  <2> QED
    BY <1>1, <2>1 DEF CoreInv, TypeFacts, IdsHandedOut, RemovalsUnused, Unused,
                      GetReturnsWrittenValue, FilesNotWrong
<1>4. ASSUME NEW x \in Items, NEW y \in Items, x # y, Stored(x).tier # "None", Stored(y).tier # "None"
      PROVE  Stored(x).id # Stored(y).id
  <2>1. IdsDistinct
    BY DEF CoreInv
  <2>2. CASE x \in Digests /\ y \in Digests
    BY <1>4, <2>1, <2>2 DEF IdsDistinct, Stored
  <2>3. CASE x \in Digests /\ y \notin Digests
    BY <1>4, <2>1, <2>3 DEF IdsDistinct, Stored, Items
  <2>4. CASE x \notin Digests /\ y \in Digests
    BY <1>4, <2>1, <2>4 DEF IdsDistinct, Stored, Items
  <2>5. CASE x \notin Digests /\ y \notin Digests
    BY <1>4, <2>1, <2>5 DEF IdsDistinct, Stored, Items
  <2> QED
    BY <2>2, <2>3, <2>4, <2>5
<1>5. ASSUME NEW x \in Items
      PROVE  IF Stored(x).tier = "None" THEN Stored(x) = None
             ELSE /\ Stored(x).tier \in {"Mem", "Disk"}
                  /\ Stored(x).id \in Ids /\ Stored(x).id < nextId /\ Stored(x).id \notin unlinks
                  /\ Stored(x).val \in Values \cup Digests
                  /\ IF x \in Digests THEN Stored(x).val = x ELSE Stored(x).val \in written[x]
                  /\ Stored(x).tier = "Disk" => files[Stored(x).id] \in {Stored(x).val, NoFile}
  <2>1. CASE x \in Digests
    BY <1>2, <2>1 DEF Stored
  <2>2. CASE x \notin Digests
    BY <1>3, <2>2 DEF Stored, Items
  <2> QED
    BY <2>1, <2>2
<1> QED
  BY <1>4, <1>5 DEF StoredFacts

-----------------------------------------------------------------------------
(***************************************************************************)
(* The end of the process.                                                 *)
(***************************************************************************)
\* A blank memory with no task is fine, whatever files are left.
LEMMA BlankCore ==
  ASSUME CoreInv, Blank, files' \in [Ids -> Content], UNCHANGED written, unlinks' = {},
         conns' = [c \in Conns |-> Idle], readers' = [r \in Readers |-> Idle], evictor' = Idle
  PROVE  CoreInv'
<1>1. TypeOK'
  <2>1. /\ entries' \in [Keys -> RedisEntry]
        /\ blobs' \in [Digests -> Blob]
    BY DEF Blank, RedisEntry, Blob
  <2>2. /\ conns' \in [Conns -> ConnState]
        /\ readers' \in [Readers -> ReaderState]
        /\ evictor' \in EvictorState
    BY DEF ConnState, ReaderState, EvictorState
  <2>3. nextId' \in 0 .. MaxId
    BY MaxIdAssumption DEF Blank
  <2> QED
    BY <2>1, <2>2, <2>3 DEF TypeOK, CoreInv
<1>2. NothingInUse'
  BY DEF Blank, NothingInUse
<1>3. (TypeOK /\ NothingInUse => CoreInv)'
  BY NothingInUseCore, PTL
<1> QED
  BY <1>1, <1>2, <1>3

\* NotSaving has the type of the saver.
LEMMA NotSavingType == NotSaving \in Saver
BY DEF NotSaving, Saver, SavedItem

\* Whatever the snapshot is then, the rest of the invariant holds once the
\* process is gone.
LEMMA ProcessEndsInv ==
  ASSUME OwnFilesInv, ProcessEnds, UNCHANGED files,
         snapshot' \in {NoSnapshot, Corrupt} \cup Image,
         promised' \in {NoSnapshot} \cup [Keys -> Values \cup {Failed}],
         SnapshotOK'
  PROVE  OwnFilesInv'
<1>1. CoreInv'
  <2>1. files' \in [Ids -> Content]
    BY DEF OwnFilesInv, CoreInv, TypeOK
  <2> QED
    BY <2>1, BlankCore DEF ProcessEnds, OwnFilesInv
<1>2. LifeTypeOK'
  <2>1. saver' \in Saver
    BY NotSavingType DEF ProcessEnds
  <2>2. /\ manifests' \in SUBSET Manifests
        /\ tag' \in Manifests \cup {Nobody}
        /\ raced' \in BOOLEAN
        /\ phase' \in Phases
    BY DEF ProcessEnds, Blank, Phases
  <2>3. TypeOK'
    BY <1>1 DEF CoreInv
  <2> QED
    BY <2>1, <2>2, <2>3 DEF LifeTypeOK
<1>3. NoTasks'
  BY DEF ProcessEnds, NoTasks
<1>4. LoadedOK' /\ SavingOK'
  BY DEF ProcessEnds, LoadedOK, SavingOK
<1> QED
  BY <1>1, <1>2, <1>3, <1>4 DEF OwnFilesInv

\* A crash leaves the snapshot as it is.
LEMMA CrashInv ==
  ASSUME OwnFilesInv, Crash \/ SaveError
  PROVE  OwnFilesInv'
<1>1. ProcessEnds /\ UNCHANGED <<files, snapshot, promised, stale>>
  BY DEF Crash, SaveError, diskVars
<1>2. SnapshotOK'
  BY <1>1 DEF OwnFilesInv, SnapshotOK, ProcessEnds, ItemsOK, ItemAnswer
<1>3. /\ snapshot' \in {NoSnapshot, Corrupt} \cup Image
      /\ promised' \in {NoSnapshot} \cup [Keys -> Values \cup {Failed}]
  BY <1>1 DEF OwnFilesInv, LifeTypeOK
<1> QED
  BY <1>1, <1>2, <1>3, ProcessEndsInv

\* What a GET answers is a value, or nil.
LEMMA AnswerType ==
  ASSUME CoreInv, NEW k \in Keys
  PROVE  Answer(k) \in Values \cup {Failed}
<1>1. TypeFacts
  BY TypeOKFacts DEF CoreInv
<1> QED
  BY <1>1 DEF Answer, CoreInv, TypeFacts, FilesNotWrong

\* The walks are over: the snapshot has the items save collected, and each of
\* them answers as its entry does.
LEMMA SaveEndInv ==
  ASSUME OwnFilesInv, SaveEnd
  PROVE  OwnFilesInv'
<1>1. SaverFacts
  BY LifeTypeFacts DEF OwnFilesInv
<1>2. snapshot' \in Image
  <2>1. nextId \in 0 .. MaxId
    BY DEF OwnFilesInv, CoreInv, TypeOK
  <2> QED
    BY <1>1, <2>1 DEF SaveEnd, SnapshotNextId, Image, SaverFacts
<1>3. promised' \in [Keys -> Values \cup {Failed}]
  BY AnswerType DEF SaveEnd, OwnFilesInv
<1>4. snapshot'.items = saver.items /\ snapshot'.nextId = nextId
  BY DEF SaveEnd, SnapshotNextId
<1>5. \A k \in Keys : promised'[k] = Answer(k)
  BY DEF SaveEnd
<1>6. phase' = "down" /\ files' = files /\ written' = written /\ saver.todo = {}
  BY DEF SaveEnd, ProcessEnds
<1>7. SnapshotOK'
  <2>1. SavingOK /\ phase = "saving"
    BY DEF OwnFilesInv, SaveEnd
  <2>2. ItemsOK(snapshot.items, snapshot.nextId)'
    BY <1>4, <1>6, <2>1 DEF SavingOK, ItemsOK
  <2>3. \A k \in Keys : ItemAnswer(saver.items[k]) = Answer(k)
    BY <1>6, <2>1 DEF SavingOK
  <2>4. \A k \in Keys : ItemAnswer(snapshot.items[k])' = promised'[k]
    BY <1>4, <1>5, <1>6, <2>3 DEF ItemAnswer
  <2> QED
    BY <1>6, <2>2, <2>4 DEF SnapshotOK
<1> QED
  BY <1>2, <1>3, <1>7, ProcessEndsInv DEF SaveEnd

-----------------------------------------------------------------------------
(***************************************************************************)
(* Steps of the running process, pushes and damage.                        *)
(***************************************************************************)
\* The store's steps: no snapshot that loads is there.
LEMMA RunningInv ==
  ASSUME OwnFilesInv, Running
  PROVE  OwnFilesInv'
<1>1. CoreInv'
  BY NextCore DEF OwnFilesInv, Running
<1>2. LifeTypeOK'
  BY <1>1 DEF CoreInv, OwnFilesInv, Running, LifeTypeOK, pushVars, lifeVars, diskVars
<1>3. NoTasks' /\ LoadedOK' /\ SavingOK'
  BY DEF Running, lifeVars, diskVars, NoTasks, LoadedOK, SavingOK
<1>4. SnapshotOK'
  BY DEF OwnFilesInv, Running, lifeVars, diskVars, SnapshotOK
<1> QED
  BY <1>1, <1>2, <1>3, <1>4 DEF OwnFilesInv

\* Steps that leave the store and the snapshot alone.
LEMMA StoreUntouched ==
  ASSUME OwnFilesInv, UNCHANGED <<vars, lifeVars>>
  PROVE  CoreInv' /\ NoTasks' /\ SnapshotOK' /\ LoadedOK' /\ SavingOK'
<1>1. CoreInv'
  BY StutterCore DEF OwnFilesInv
<1>2. NoTasks'
  BY DEF OwnFilesInv, vars, lifeVars, diskVars, NoTasks
<1>3. SnapshotOK'
  BY DEF OwnFilesInv, vars, lifeVars, diskVars, SnapshotOK, ItemsOK, ItemAnswer
<1>4. LoadedOK'
  BY DEF OwnFilesInv, vars, lifeVars, diskVars, LoadedOK
<1>5. SavingOK'
  BY DEF OwnFilesInv, vars, lifeVars, diskVars, SavingOK, ItemsOK, ItemAnswer, Answer, Stored
<1> QED
  BY <1>1, <1>2, <1>3, <1>4, <1>5

LEMMA PushInv ==
  ASSUME OwnFilesInv, NEW m \in Manifests,
         PutManifest(m) \/ PutTag(m) \/ DropManifest(m)
  PROVE  OwnFilesInv'
<1>1. UNCHANGED <<vars, lifeVars>>
  BY DEF PutManifest, PutTag, DropManifest
<1>2. CoreInv' /\ NoTasks' /\ SnapshotOK' /\ LoadedOK' /\ SavingOK'
  BY <1>1, StoreUntouched
<1>3. /\ manifests' \in SUBSET Manifests
      /\ tag' \in Manifests \cup {Nobody}
      /\ raced' \in BOOLEAN
  BY DEF PutManifest, PutTag, DropManifest, OwnFilesInv, LifeTypeOK
<1>4. LifeTypeOK'
  BY <1>1, <1>2, <1>3 DEF CoreInv, OwnFilesInv, LifeTypeOK, vars, lifeVars, diskVars
<1> QED
  BY <1>2, <1>4 DEF OwnFilesInv

LEMMA UntagInv ==
  ASSUME OwnFilesInv, Untag
  PROVE  OwnFilesInv'
<1>1. UNCHANGED <<vars, lifeVars>>
  BY DEF Untag
<1>2. CoreInv' /\ NoTasks' /\ SnapshotOK' /\ LoadedOK' /\ SavingOK'
  BY <1>1, StoreUntouched
<1>3. LifeTypeOK'
  BY <1>1, <1>2 DEF Untag, CoreInv, OwnFilesInv, LifeTypeOK, vars, lifeVars, diskVars
<1> QED
  BY <1>2, <1>3 DEF OwnFilesInv

LEMMA DamageInv ==
  ASSUME OwnFilesInv, Damage
  PROVE  OwnFilesInv'
<1>1. CoreInv'
  BY StutterCore DEF OwnFilesInv, Damage
<1>2. LifeTypeOK'
  BY <1>1 DEF CoreInv, OwnFilesInv, Damage, LifeTypeOK, vars, pushVars
<1>3. NoTasks' /\ LoadedOK' /\ SavingOK'
  BY DEF OwnFilesInv, Damage, vars, pushVars, NoTasks, LoadedOK, SavingOK
<1>4. SnapshotOK'
  BY DEF Damage, SnapshotOK
<1> QED
  BY <1>1, <1>2, <1>3, <1>4 DEF OwnFilesInv

\* A step that changes nothing.
LEMMA LifeStutter ==
  ASSUME OwnFilesInv, UNCHANGED allVars
  PROVE  OwnFilesInv'
<1>1. CoreInv' /\ NoTasks' /\ SnapshotOK' /\ LoadedOK' /\ SavingOK'
  BY StoreUntouched DEF allVars
<1>2. LifeTypeOK'
  BY <1>1 DEF CoreInv, OwnFilesInv, LifeTypeOK, allVars, vars, pushVars, lifeVars, diskVars
<1> QED
  BY <1>1, <1>2 DEF OwnFilesInv

-----------------------------------------------------------------------------
(***************************************************************************)
(* A start.                                                                *)
(***************************************************************************)
\* What is restored from an item of a good snapshot: nothing, or the item
\* itself under its id.
LEMMA RestoredFacts ==
  ASSUME NEW e \in SavedItem, NEW alike
  PROVE  /\ RestoredRedis(e).tier = "None" <=> e = None
         /\ e # None => /\ RestoredRedis(e).tier = (IF e.inline THEN "Mem" ELSE "Disk")
                        /\ RestoredRedis(e).id = e.id /\ RestoredRedis(e).val = e.val
         /\ RestoredBlob(e, alike) \in {None, RestoredRedis(e)}
         /\ RestoredBlob(e, alike).tier = "Disk" => Backed(e, alike)
<1>1. CASE e = None
  BY <1>1 DEF RestoredRedis, RestoredBlob
<1>2. CASE e # None
  <2>1. e.inline \in BOOLEAN
    BY <1>2 DEF SavedItem
  <2>2. CASE e.inline
    BY <1>2, <2>2 DEF RestoredRedis, RestoredBlob
  <2>3. CASE ~e.inline
    BY <1>2, <2>3 DEF RestoredRedis, RestoredBlob
  <2> QED
    BY <2>2, <2>3
<1> QED
  BY <1>1, <1>2

\* The maps that load fills in satisfy the store's invariant: ItemsOK is what
\* the walk had to establish for that.
LEMMA LoadOkCore ==
  ASSUME OwnFilesInv, LoadOk, ~stale
  PROVE  CoreInv'
<1> DEFINE it == snapshot.items
<1>1. /\ snapshot \notin {NoSnapshot, Corrupt} /\ phase = "down"
      /\ it \in [Items -> SavedItem] /\ nextId' = snapshot.nextId
      /\ nextId' \in 0 .. MaxId
  BY LifeTypeFacts DEF OwnFilesInv, LoadOk, ImageFacts
<1>2. ItemsOK(it, nextId')
  BY <1>1 DEF OwnFilesInv, SnapshotOK
<1> PICK alike \in SUBSET Ids : blobs' = [d \in Digests |-> RestoredBlob(it[d], alike)]
  BY DEF LoadOk
<1>3. /\ \A k \in Keys : it[k] \in SavedItem /\ entries'[k] = RestoredRedis(it[k])
      /\ \A d \in Digests : it[d] \in SavedItem /\ blobs'[d] = RestoredBlob(it[d], alike)
  BY <1>1, ItemNames DEF LoadOk
<1>4. /\ \A c \in Conns : conns[c] = Idle
      /\ \A r \in Readers : readers[r] = Idle
      /\ evictor = Idle /\ unlinks = {}
  BY <1>1 DEF OwnFilesInv, NoTasks
<1>5. UNCHANGED <<files, unlinks, conns, readers, evictor, written>>
  BY DEF LoadOk
<1>6. ASSUME NEW k \in Keys, entries'[k].tier # "None"
      PROVE  /\ it[k] # None
             /\ entries'[k].id = it[k].id /\ entries'[k].val = it[k].val
             /\ entries'[k].tier = "Disk" => ~it[k].inline
  BY <1>3, <1>6, RestoredFacts
<1>7. ASSUME NEW d \in Digests, blobs'[d].tier # "None"
      PROVE  /\ it[d] # None
             /\ blobs'[d].id = it[d].id /\ blobs'[d].val = it[d].val
             /\ blobs'[d].tier = "Disk" => ~it[d].inline /\ Backed(it[d], alike)
  BY <1>3, <1>7, RestoredFacts
<1>8. \A x \in Items : it[x] # None =>
        /\ it[x].id \in Ids /\ it[x].id < nextId'
        /\ x \in Digests => it[x].val = x
        /\ x \in Keys => it[x].val \in written[x]
        /\ ~it[x].inline => files[it[x].id] \in {it[x].val, NoFile}
  BY <1>1, <1>2, ItemNames DEF ItemsOK, SavedItem
<1>9. TypeOK'
  <2>1. entries' \in [Keys -> RedisEntry]
    <3>1. ASSUME NEW k \in Keys PROVE RestoredRedis(it[k]) \in RedisEntry
      <4>1. CASE it[k] = None
        BY <4>1 DEF RestoredRedis, RedisEntry
      <4>2. CASE it[k] # None
        <5>1. it[k].id \in Ids /\ it[k].val \in Values
          BY <1>8, <4>2, ItemNames DEF OwnFilesInv, CoreInv, TypeOK
        <5> QED
          BY <4>2, <5>1 DEF RestoredRedis, RedisEntry
      <4> QED
        BY <4>1, <4>2
    <3> QED
      BY <3>1 DEF LoadOk
  <2>2. blobs' \in [Digests -> Blob]
    <3>1. ASSUME NEW d \in Digests PROVE RestoredBlob(it[d], alike) \in Blob
      <4>1. CASE RestoredBlob(it[d], alike) = None
        BY <4>1 DEF Blob
      <4>2. CASE RestoredBlob(it[d], alike) # None
        <5>1. it[d] # None /\ RestoredBlob(it[d], alike) = RestoredRedis(it[d])
          BY <4>2 DEF RestoredBlob
        <5>2. it[d].id \in Ids /\ it[d].val \in Digests
          BY <1>8, <5>1, ItemNames
        <5> QED
          BY <5>1, <5>2 DEF RestoredRedis, Blob
      <4> QED
        BY <4>1, <4>2
    <3> QED
      BY <3>1 DEF LoadOk
  <2> QED
    BY <1>1, <1>5, <2>1, <2>2 DEF OwnFilesInv, CoreInv, TypeOK
<1>10. IdsHandedOut'
  BY <1>4, <1>5, <1>6, <1>7, <1>8, ItemNames DEF IdsHandedOut
<1>11. IdsDistinct'
  <2>1. \A x, y \in Items : x # y /\ it[x] # None /\ it[y] # None => it[x].id # it[y].id
    BY <1>2 DEF ItemsOK
  <2> QED
    BY <1>6, <1>7, <2>1, ItemNames DEF IdsDistinct
<1>12. BlobIsItsDigest'
  BY <1>7, <1>8, ItemNames DEF BlobIsItsDigest
<1>13. RemovalsUnused' /\ SpillOwnsId' /\ ReadingIsStable' /\ OpeningIsStable' /\ DiskBlobIsServed'
  BY <1>4, <1>5 DEF RemovalsUnused, SpillOwnsId, ReadingIsStable, OpeningIsStable, DiskBlobIsServed
<1>14. FilesNotWrong'
  <2>1. \A k \in Keys : entries'[k].tier = "Disk" => files[entries'[k].id] \in {entries'[k].val, NoFile}
    BY <1>6, <1>8, ItemNames
  <2>2. \A d \in Digests : blobs'[d].tier = "Disk" => files[blobs'[d].id] = d
    BY <1>7, <1>8, ItemNames DEF Backed
  <2> QED
    BY <1>5, <2>1, <2>2 DEF FilesNotWrong
<1>15. GetReturnsWrittenValue'
  BY <1>4, <1>5, <1>6, <1>8, ItemNames DEF GetReturnsWrittenValue
<1> QED
  BY <1>9, <1>10, <1>11, <1>12, <1>13, <1>14, <1>15 DEF CoreInv

LEMMA LoadOkInv ==
  ASSUME OwnFilesInv, LoadOk, ~stale
  PROVE  OwnFilesInv'
<1>1. CoreInv'
  BY LoadOkCore
<1>2. LifeTypeOK'
  <2>1. /\ manifests' \in SUBSET Manifests /\ tag' \in Manifests \cup {Nobody}
        /\ raced' \in BOOLEAN
    BY LifeTypeFacts DEF OwnFilesInv, LoadOk, ImageFacts
  <2> QED
    BY <1>1, <2>1 DEF CoreInv, OwnFilesInv, LoadOk, LifeTypeOK, Phases
<1>3. NoTasks' /\ SavingOK'
  BY DEF OwnFilesInv, LoadOk, NoTasks, SavingOK
<1>4. SnapshotOK'
  BY DEF OwnFilesInv, LoadOk, SnapshotOK, ItemsOK, ItemAnswer
<1>5. LoadedOK'
  BY DEF LoadOk, LoadedOK, RestoredRedis
<1> QED
  BY <1>1, <1>2, <1>3, <1>4, <1>5 DEF OwnFilesInv

\* The snapshot is removed, or stale, before the store takes its first step.
LEMMA StartedInv ==
  ASSUME OwnFilesInv, Loaded \/ Wiped
  PROVE  OwnFilesInv'
<1>1. /\ phase' = "running" /\ snapshot' \in {NoSnapshot, snapshot}
      /\ snapshot' \in {NoSnapshot, Corrupt} \/ stale'
      /\ promised' \in {NoSnapshot, promised} /\ UNCHANGED <<vars, pushVars, saver>>
  BY DEF Loaded, Wiped
<1>2. CoreInv'
  BY <1>1, StutterCore DEF OwnFilesInv
<1>3. LifeTypeOK'
  BY <1>1, <1>2 DEF CoreInv, OwnFilesInv, LifeTypeOK, Phases, pushVars
<1>4. NoTasks' /\ LoadedOK' /\ SavingOK' /\ SnapshotOK'
  BY <1>1 DEF NoTasks, LoadedOK, SavingOK, SnapshotOK
<1> QED
  BY <1>2, <1>3, <1>4 DEF OwnFilesInv

\* A wipe may leave any of the files: nothing refers to them, and a snapshot
\* that is still there for a moment only refers to right bytes.
LEMMA WipeInv ==
  ASSUME OwnFilesInv, LoadMissing \/ LoadOther
  PROVE  OwnFilesInv'
<1>1. /\ WipeCache /\ UNCHANGED <<snapshot, stale, saver>> /\ phase = "down"
      /\ (phase' = "running" /\ snapshot = NoSnapshot) \/ phase' = "wiped"
  BY DEF LoadMissing, LoadOther
<1>2. /\ unlinks = {} /\ evictor = Idle
      /\ readers = [r \in Readers |-> Idle] /\ conns = [c \in Conns |-> Idle]
  BY <1>1 DEF OwnFilesInv, NoTasks
<1>3. \A i \in Ids : files'[i] \in {files[i], NoFile}
  BY <1>1 DEF WipeCache
<1>4. files' \in [Ids -> Content]
  BY <1>1 DEF WipeCache, OwnFilesInv, CoreInv, TypeOK, Content
<1>5. CoreInv'
  BY <1>1, <1>2, <1>4, BlankCore DEF WipeCache, OwnFilesInv
<1>6. LifeTypeOK'
  <2>1. /\ manifests' \in SUBSET Manifests /\ tag' \in Manifests \cup {Nobody}
        /\ raced' \in BOOLEAN /\ promised' = NoSnapshot
    BY <1>1 DEF WipeCache, Blank
  <2>2. phase' \in Phases
    BY <1>1 DEF Phases
  <2> QED
    BY <1>1, <1>5, <2>1, <2>2 DEF CoreInv, OwnFilesInv, LifeTypeOK
<1>7. NoTasks' /\ LoadedOK' /\ SavingOK'
  BY <1>1, <1>2 DEF WipeCache, NoTasks, LoadedOK, SavingOK
<1>8. SnapshotOK'
  <2> SUFFICES ASSUME snapshot \notin {NoSnapshot, Corrupt}, ~stale
               PROVE  /\ ItemsOK(snapshot.items, snapshot.nextId)' /\ phase' = "wiped"
                      /\ promised' = NoSnapshot
    BY <1>1 DEF SnapshotOK
  <2>1. ImageFacts /\ ItemsOK(snapshot.items, snapshot.nextId)
    BY LifeTypeFacts DEF OwnFilesInv, SnapshotOK
  <2>2. \A x \in Items : snapshot.items[x] # None => snapshot.items[x].id \in Ids
    BY <2>1 DEF ImageFacts, SavedItem
  <2>3. ItemsOK(snapshot.items, snapshot.nextId)'
    BY <1>1, <1>3, <2>1, <2>2 DEF WipeCache, ItemsOK
  <2> QED
    BY <1>1, <2>3 DEF WipeCache
<1> QED
  BY <1>5, <1>6, <1>7, <1>8 DEF OwnFilesInv

-----------------------------------------------------------------------------
(***************************************************************************)
(* The walk of save, and the requests that go on beside it.                *)
(***************************************************************************)
\* The connections and the eviction task are gone, wherever they were.
LEMMA SaveStartCore ==
  ASSUME OwnFilesInv, SaveStart
  PROVE  CoreInv'
<1>1. /\ UNCHANGED <<entries, blobs, files, nextId, unlinks, readers, written>>
      /\ evictor' = Idle /\ conns' = [c \in Conns |-> Idle] /\ CoreInv
  BY DEF OwnFilesInv, SaveStart
<1>2. TypeOK'
  BY <1>1 DEF CoreInv, TypeOK, ConnState, EvictorState
<1>3. IdsHandedOut' /\ IdsDistinct' /\ BlobIsItsDigest'
  BY <1>1 DEF CoreInv, IdsHandedOut, IdsDistinct, BlobIsItsDigest
<1>4. RemovalsUnused' /\ SpillOwnsId' /\ ReadingIsStable'
  BY <1>1 DEF CoreInv, RemovalsUnused, Unused, Spilling, SpillOwnsId, ReadingIsStable
<1>5. OpeningIsStable' /\ FilesNotWrong' /\ GetReturnsWrittenValue' /\ DiskBlobIsServed'
  BY <1>1 DEF CoreInv, OpeningIsStable, FilesNotWrong, GetReturnsWrittenValue, DiskBlobIsServed
<1> QED
  BY <1>2, <1>3, <1>4, <1>5 DEF CoreInv

LEMMA SaveStartInv ==
  ASSUME OwnFilesInv, SaveStart
  PROVE  OwnFilesInv'
<1>1. CoreInv'
  BY SaveStartCore
<1>2. /\ saver'.todo = Items \cup {"manifests", "tags"} /\ saver'.at = Nobody
      /\ saver'.items = [x \in Items |-> None]
      /\ saver' = [todo |-> Items \cup {"manifests", "tags"}, at |-> Nobody,
                   items |-> [x \in Items |-> None], manifests |-> {}, tag |-> Nobody,
                   raced |-> FALSE]
  BY DEF SaveStart, NotSaving
<1>3. LifeTypeOK'
  <2>1. saver' \in Saver
    BY <1>2 DEF Saver, SavedItem
  <2> QED
    BY <1>1, <2>1 DEF CoreInv, OwnFilesInv, SaveStart, LifeTypeOK, Phases, pushVars, diskVars
<1>4. NoTasks' /\ LoadedOK'
  BY DEF SaveStart, NoTasks, LoadedOK
<1>5. SnapshotOK'
  BY DEF OwnFilesInv, SaveStart, SnapshotOK, diskVars
<1>6. SavingOK'
  BY <1>2, ItemNames DEF SavingOK, ItemsOK
<1> QED
  BY <1>1, <1>3, <1>4, <1>5, <1>6 DEF OwnFilesInv

\* The part of the invariant that the walk does not touch.
LEMMA WalkRest ==
  ASSUME OwnFilesInv, phase = "saving", CoreInv', saver' \in Saver,
         UNCHANGED <<conns, evictor, pushVars, phase, diskVars>>
  PROVE  LifeTypeOK' /\ NoTasks' /\ LoadedOK' /\ SnapshotOK'
<1>1. LifeTypeOK'
  BY DEF CoreInv, OwnFilesInv, LifeTypeOK, pushVars, diskVars
<1>2. NoTasks' /\ LoadedOK'
  BY DEF OwnFilesInv, NoTasks, LoadedOK
<1>3. SnapshotOK'
  BY DEF OwnFilesInv, SnapshotOK, diskVars
<1> QED
  BY <1>1, <1>2, <1>3

\* An unlink task does not touch the file of a saved item or of an entry.
LEMMA StragglerUnlink ==
  ASSUME OwnFilesInv, phase = "saving", NEW i \in unlinks, Unlink(i), UNCHANGED lifeVars
  PROVE  SavingOK'
<1>1. /\ files' = [files EXCEPT ![i] = NoFile] /\ unlinks' \subseteq unlinks
      /\ UNCHANGED <<entries, blobs, nextId, written, saver, phase>>
  BY DEF Unlink, lifeVars, diskVars
<1>2. SavingOK /\ SaverFacts /\ StoredFacts
  BY LifeTypeFacts, CoreStored DEF OwnFilesInv
<1>3. files \in [Ids -> Content]
  BY DEF OwnFilesInv, CoreInv, TypeOK
<1>4. \A x \in Items : saver.items[x] # None =>
        saver.items[x].id \in Ids /\ files'[saver.items[x].id] = files[saver.items[x].id]
  <2>1. \A x \in Items : saver.items[x] # None => saver.items[x].id \in Ids /\ saver.items[x].id # i
    BY <1>2 DEF SavingOK, SaverFacts, SavedItem
  <2> QED
    BY <1>1, <1>3, <2>1
<1>5. \A k \in Keys : entries[k].tier # "None" => files'[entries[k].id] = files[entries[k].id]
  <2>1. \A k \in Keys : entries[k].tier # "None" => entries[k].id \in Ids /\ entries[k].id # i
    BY <1>2, ItemNames DEF StoredFacts, Stored
  <2> QED
    BY <1>1, <1>3, <2>1
<1>6. ItemsOK(saver.items, nextId)'
  BY <1>1, <1>2, <1>4 DEF SavingOK, ItemsOK
<1>7. \A k \in Keys : Answer(k)' = Answer(k) /\ ItemAnswer(saver.items[k])' = ItemAnswer(saver.items[k])
  BY <1>1, <1>4, <1>5, ItemNames DEF Answer, ItemAnswer
<1>8. /\ saver'.at # Nobody => saver'.at \in saver'.todo /\ Stored(saver.at)'.tier = "Mem"
      /\ \A x \in Items : saver'.items[x] # None => x \notin saver'.todo /\ saver'.items[x].id \notin unlinks'
  BY <1>1, <1>2 DEF SavingOK, Stored
<1>9. \A x \in Items : saver'.items[x] # None =>
        \A y \in Items \ {x} : Stored(y)'.tier # "None" => Stored(y)'.id # saver'.items[x].id
  BY <1>1, <1>2 DEF SavingOK, Stored
<1>10. \A k \in Keys \ saver'.todo : ItemAnswer(saver.items[k])' = Answer(k)'
  BY <1>1, <1>2, <1>7 DEF SavingOK
<1> QED
  BY <1>6, <1>8, <1>9, <1>10 DEF SavingOK

\* A new blob has an id that no saved item has.
LEMMA StragglerInsert ==
  ASSUME OwnFilesInv, phase = "saving", NEW d \in Digests \ {saver.at}, InsertBlob(d), UNCHANGED lifeVars
  PROVE  SavingOK'
<1>1. /\ nextId \in Nat /\ nextId' = nextId + 1 /\ Ids \subseteq Nat
      /\ UNCHANGED <<entries, files, unlinks, written, saver, phase>>
  BY MaxIdAssumption DEF InsertBlob, lifeVars, diskVars, OwnFilesInv, CoreInv, TypeOK, Ids
<1>2. SavingOK /\ SaverFacts
  BY LifeTypeFacts DEF OwnFilesInv
<1>3. \A x \in Items : saver.items[x] # None =>
        saver.items[x].id \in Ids /\ saver.items[x].id < nextId
  BY <1>2 DEF SavingOK, ItemsOK, SaverFacts, SavedItem
<1>4. /\ Stored(d)' = InMemory(nextId, d)
      /\ \A x \in Items \ {d} : Stored(x)' = Stored(x)
  BY <1>1 DEF InsertBlob, Stored, OwnFilesInv, CoreInv, TypeOK
<1>5. ItemsOK(saver.items, nextId)'
  <2>1. \A i \in Ids : i < nextId => i < nextId'
    BY <1>1
  <2>2. \A x \in Items : saver.items[x] # None => saver.items[x].id < nextId'
    BY <1>3, <2>1, Zenon
  <2> QED
    BY <1>1, <1>2, <2>2 DEF SavingOK, ItemsOK
<1>6. \A k \in Keys : Answer(k)' = Answer(k) /\ ItemAnswer(saver.items[k])' = ItemAnswer(saver.items[k])
  BY <1>1 DEF Answer, ItemAnswer
<1>7. ASSUME NEW x \in Items, saver.items[x] # None, NEW y \in Items \ {x}, Stored(y)'.tier # "None"
      PROVE  Stored(y)'.id # saver.items[x].id
  <2>1. CASE y = d
    <3>1. saver.items[x].id \in Nat /\ saver.items[x].id < nextId
      BY <1>1, <1>3, <1>7
    <3>2. saver.items[x].id # nextId
      BY <1>1, <3>1
    <3> QED
      BY <1>4, <2>1, <3>2
  <2>2. CASE y # d
    BY <1>2, <1>4, <1>7, <2>2 DEF SavingOK
  <2> QED
    BY <2>1, <2>2
<1>8. saver'.at # Nobody => saver'.at \in saver'.todo /\ Stored(saver.at)'.tier = "Mem"
  <2>1. saver.at # Nobody => saver.at \in Items \ {d}
    BY <1>2 DEF SaverFacts
  <2>2. \A x \in Items \ {d} : x = saver.at => Stored(saver.at)' = Stored(saver.at)
    BY <1>1 DEF InsertBlob, Stored, OwnFilesInv, CoreInv, TypeOK
  <2> QED
    BY <1>1, <1>2, <2>1, <2>2 DEF SavingOK
<1>9. \A x \in Items : saver'.items[x] # None =>
        /\ x \notin saver'.todo /\ saver'.items[x].id \notin unlinks'
        /\ \A y \in Items \ {x} : Stored(y)'.tier # "None" => Stored(y)'.id # saver'.items[x].id
  <2>1. \A x \in Items : saver'.items[x] # None => x \notin saver'.todo /\ saver'.items[x].id \notin unlinks'
    BY <1>1, <1>2 DEF SavingOK
  <2> QED
    BY <1>1, <1>7, <2>1
<1>10. \A k \in Keys \ saver'.todo : ItemAnswer(saver.items[k])' = Answer(k)'
  BY <1>1, <1>2, <1>6 DEF SavingOK
<1> QED
  BY <1>5, <1>8, <1>9, <1>10 DEF SavingOK

LEMMA StragglersInv ==
  ASSUME OwnFilesInv, Stragglers
  PROVE  OwnFilesInv'
<1>1. phase = "saving" /\ UNCHANGED <<pushVars, lifeVars>> /\ saver \in Saver
  BY DEF Stragglers, OwnFilesInv, LifeTypeOK
<1>2. CASE \E i \in unlinks : Unlink(i)
  <2>1. PICK i \in unlinks : Unlink(i)
    BY <1>2
  <2>2. CoreInv'
    BY <2>1, UnlinkCore DEF OwnFilesInv
  <2>3. LifeTypeOK' /\ NoTasks' /\ LoadedOK' /\ SnapshotOK'
    BY <1>1, <2>1, <2>2, WalkRest DEF Unlink, lifeVars, diskVars
  <2>4. SavingOK'
    BY <1>1, <2>1, StragglerUnlink
  <2> QED
    BY <2>2, <2>3, <2>4 DEF OwnFilesInv
<1>3. CASE \E d \in Digests \ {saver.at} : InsertBlob(d)
  <2>1. PICK d \in Digests \ {saver.at} : InsertBlob(d)
    BY <1>3
  <2>2. CoreInv'
    BY <2>1, InsertBlobCore DEF OwnFilesInv
  <2>3. LifeTypeOK' /\ NoTasks' /\ LoadedOK' /\ SnapshotOK'
    BY <1>1, <2>1, <2>2, WalkRest DEF InsertBlob, lifeVars, diskVars
  <2>4. SavingOK'
    BY <1>1, <2>1, StragglerInsert
  <2> QED
    BY <2>2, <2>3, <2>4 DEF OwnFilesInv
<1>4. CASE \E r \in Readers : Reader(r)
  <2>1. PICK r \in Readers : Reader(r)
    BY <1>4
  <2>2. CoreInv'
    BY <2>1, ReaderCore DEF OwnFilesInv
  <2>3. UNCHANGED <<entries, blobs, files, nextId, unlinks, conns, evictor, written>>
    BY <2>1 DEF Reader, BlobHitMem, BlobHitDisk, BlobOpen, BlobServed
  <2>4. LifeTypeOK' /\ NoTasks' /\ LoadedOK' /\ SnapshotOK'
    BY <1>1, <2>2, <2>3, WalkRest DEF lifeVars, diskVars
  <2>5. SavingOK'
    BY <1>1, <2>3 DEF OwnFilesInv, lifeVars, diskVars, SavingOK, ItemsOK, ItemAnswer, Answer, Stored
  <2> QED
    BY <2>2, <2>4, <2>5 DEF OwnFilesInv
<1> QED
  BY <1>2, <1>3, <1>4 DEF Stragglers

\* The map of manifests, or of tags, is copied.
LEMMA SaveMapInv ==
  ASSUME OwnFilesInv, SaveManifests \/ SaveTags
  PROVE  OwnFilesInv'
<1>1. phase = "saving" /\ saver \in Saver /\ UNCHANGED <<vars, pushVars, phase, diskVars>>
  BY DEF SaveManifests, SaveTags, Walked, OwnFilesInv, LifeTypeOK
<1>2. SaverFacts /\ SavingOK
  BY LifeTypeFacts DEF OwnFilesInv
<1>3. CoreInv'
  BY <1>1, StutterCore DEF OwnFilesInv
<1>4. /\ saver'.at = saver.at /\ saver'.items = saver.items
      /\ \A x \in Items : x \in saver'.todo <=> x \in saver.todo
  <2>1. saver'.at = saver.at /\ saver'.items = saver.items
    BY <1>1 DEF SaveManifests, SaveTags, Saver
  <2>2. \E m \in {"manifests", "tags"} : saver'.todo = saver.todo \ {m}
    <3>1. CASE SaveManifests
      BY <1>1, <3>1 DEF SaveManifests, Saver
    <3>2. CASE SaveTags
      BY <1>1, <3>2 DEF SaveTags, Saver
    <3> QED
      BY <3>1, <3>2
  <2> QED
    BY <2>1, <2>2, ItemNames
<1>5. saver' \in Saver
  <2>1. /\ manifests \in SUBSET Manifests /\ tag \in Manifests \cup {Nobody}
        /\ raced \in BOOLEAN
    BY DEF OwnFilesInv, LifeTypeOK
  <2>2. CASE SaveManifests
    BY <1>1, <2>1, <2>2 DEF SaveManifests, Saver
  <2>3. CASE SaveTags
    BY <1>1, <2>1, <2>3 DEF SaveTags, Saver
  <2> QED
    BY <2>2, <2>3
<1>6. LifeTypeOK' /\ NoTasks' /\ LoadedOK' /\ SnapshotOK'
  BY <1>1, <1>3, <1>5, WalkRest DEF vars
<1>7. SavingOK'
  <2>1. ItemsOK(saver.items, nextId)'
    BY <1>1, <1>2, <1>4 DEF SavingOK, ItemsOK, vars
  <2>2. saver'.at # Nobody => saver'.at \in saver'.todo /\ Stored(saver.at)'.tier = "Mem"
    BY <1>1, <1>2, <1>4 DEF SavingOK, SaverFacts, Stored, vars
  <2>3. \A x \in Items : saver'.items[x] # None =>
          /\ x \notin saver'.todo /\ saver'.items[x].id \notin unlinks'
          /\ \A y \in Items \ {x} : Stored(y)'.tier # "None" => Stored(y)'.id # saver'.items[x].id
    BY <1>1, <1>2, <1>4 DEF SavingOK, Stored, vars
  <2>4. \A k \in Keys \ saver'.todo : ItemAnswer(saver.items[k])' = Answer(k)'
    BY <1>1, <1>2, <1>4, ItemNames DEF SavingOK, ItemAnswer, Answer, vars
  <2> QED
    BY <2>1, <2>2, <2>3, <2>4 DEF SavingOK
<1> QED
  BY <1>3, <1>6, <1>7 DEF OwnFilesInv

\* The walk's bookkeeping for one item: it is in the snapshot now, and no
\* longer to do.
ItemCollected(x, e) ==
  /\ phase = "saving" /\ UNCHANGED phase
  /\ x \in saver.todo
  /\ saver'.todo = saver.todo \ {x}
  /\ saver'.at = Nobody
  /\ saver'.items = [saver.items EXCEPT ![x] = e]

\* An item that is collected under the id and with the value it is stored
\* with keeps the snapshot right.
LEMMA CollectedOK ==
  ASSUME OwnFilesInv, NEW x \in Items, NEW e \in SavedItem, ItemCollected(x, e),
         UNCHANGED <<entries, blobs, nextId, unlinks, written>>,
         \A y \in Items \ {x} : saver.items[y] # None =>
           files'[saver.items[y].id] = files[saver.items[y].id],
         \A k \in Keys \ {x} : entries[k].tier = "Disk" =>
           files'[entries[k].id] = files[entries[k].id],
         e # None => /\ Stored(x).tier # "None" /\ e.id = Stored(x).id /\ e.val = Stored(x).val
                     /\ ~e.inline => files'[e.id] \in {e.val, NoFile},
         x \in Keys => ItemAnswer(e)' = Answer(x)'
  PROVE  SavingOK'
<1>1. SaverFacts /\ SavingOK /\ StoredFacts
  BY LifeTypeFacts, CoreStored DEF OwnFilesInv, ItemCollected
<1>2. ItemsOK(saver.items, nextId)
  BY <1>1 DEF SavingOK, ItemCollected
<1>3. /\ saver'.items[x] = e
      /\ \A y \in Items \ {x} : saver'.items[y] = saver.items[y]
  BY <1>1 DEF ItemCollected, SaverFacts
<1>4. \A y \in Items : Stored(y)' = Stored(y)
  BY DEF Stored
<1>5. ItemsOK(saver.items, nextId)'
  <2>1. ASSUME NEW y \in Items, saver'.items[y] # None
        PROVE  /\ saver'.items[y].id < nextId
               /\ IF y \in Digests THEN saver'.items[y].val = y ELSE saver'.items[y].val \in written[y]
               /\ ~saver'.items[y].inline => files'[saver'.items[y].id] \in {saver'.items[y].val, NoFile}
    <3>1. CASE y = x
      BY <1>1, <1>3, <2>1, <3>1 DEF StoredFacts
    <3>2. CASE y # x
      BY <1>2, <1>3, <2>1, <3>2 DEF ItemsOK
    <3> QED
      BY <3>1, <3>2
  <2>2. ASSUME NEW y \in Items, NEW z \in Items, y # z, saver'.items[y] # None, saver'.items[z] # None
        PROVE  saver'.items[y].id # saver'.items[z].id
    <3>1. CASE y # x /\ z # x
      BY <1>2, <1>3, <2>2, <3>1 DEF ItemsOK
    <3>2. CASE y = x
      BY <1>1, <1>3, <2>2, <3>2 DEF SavingOK, ItemCollected
    <3>3. CASE z = x
      BY <1>1, <1>3, <2>2, <3>3 DEF SavingOK, ItemCollected
    <3> QED
      BY <3>1, <3>2, <3>3
  <2> QED
    BY <2>1, <2>2 DEF ItemsOK
<1>6. ASSUME NEW y \in Items, saver'.items[y] # None
      PROVE  /\ y \notin saver'.todo /\ saver'.items[y].id \notin unlinks
             /\ \A z \in Items \ {y} : Stored(z).tier # "None" => Stored(z).id # saver'.items[y].id
  <2>1. CASE y = x
    BY <1>1, <1>3, <1>6, <2>1 DEF StoredFacts, ItemCollected
  <2>2. CASE y # x
    BY <1>1, <1>3, <1>6, <2>2 DEF SavingOK, ItemCollected
  <2> QED
    BY <2>1, <2>2
<1>7. ASSUME NEW k \in Keys \ saver'.todo
      PROVE  ItemAnswer(saver.items[k])' = Answer(k)'
  <2>1. k \in Items
    BY ItemNames
  <2>2. CASE k = x
    BY <1>3, <2>2 DEF ItemAnswer
  <2>3. CASE k # x
    <3>1. ItemAnswer(saver.items[k]) = Answer(k)
      BY <1>1, <2>3 DEF SavingOK, ItemCollected
    <3>2. ItemAnswer(saver.items[k])' = ItemAnswer(saver.items[k])
      BY <1>3, <2>1, <2>3 DEF ItemAnswer
    <3>3. Answer(k)' = Answer(k)
      <4>1. TypeFacts
        BY TypeOKFacts DEF OwnFilesInv, CoreInv
      <4> QED
        BY <2>3, <4>1 DEF Answer, TypeFacts
    <3> QED
      BY <3>1, <3>2, <3>3
  <2> QED
    BY <2>2, <2>3
<1>8. saver'.at = Nobody
  BY DEF ItemCollected
<1>9. \A y \in Items : saver'.items[y] # None =>
        /\ y \notin saver'.todo /\ saver'.items[y].id \notin unlinks'
        /\ \A z \in Items \ {y} : Stored(z)'.tier # "None" => Stored(z)'.id # saver'.items[y].id
  BY <1>4, <1>6
<1> QED
  BY <1>5, <1>7, <1>8, <1>9 DEF SavingOK

\* An item that needs no write.
LEMMA SaveItemInv ==
  ASSUME OwnFilesInv, NEW x \in Items, SaveItem(x)
  PROVE  OwnFilesInv'
<1>1. /\ phase = "saving" /\ saver \in Saver /\ x \in saver.todo /\ saver.at = Nobody
      /\ UNCHANGED <<vars, pushVars, phase, diskVars>>
  BY DEF SaveItem, Walked, OwnFilesInv, LifeTypeOK
<1>2. SaverFacts /\ SavingOK /\ StoredFacts
  BY LifeTypeFacts, CoreStored DEF OwnFilesInv
<1>3. CoreInv'
  BY <1>1, StutterCore DEF OwnFilesInv
<1>4. PICK e \in SavedItem :
        e = IF Stored(x).tier = "None" THEN None
            ELSE [id |-> Stored(x).id, val |-> Stored(x).val, inline |-> Stored(x).tier = "Mem"]
  BY <1>2 DEF StoredFacts, SavedItem
<1>5. saver' = [saver EXCEPT !.todo = saver.todo \ {x}, !.items = [saver.items EXCEPT ![x] = e]]
  BY <1>1, <1>4 DEF SaveItem, Saver
<1>6. saver' \in Saver
  <2>1. [saver.items EXCEPT ![x] = e] \in [Items -> SavedItem]
    BY <1>2, <1>4 DEF SaverFacts
  <2> QED
    BY <1>1, <1>5, <2>1 DEF Saver
<1>7. ItemCollected(x, e)
  BY <1>1, <1>5 DEF Saver, ItemCollected
<1>8. LifeTypeOK' /\ NoTasks' /\ LoadedOK' /\ SnapshotOK'
  BY <1>1, <1>3, <1>6, WalkRest DEF vars
<1>9. e # None => /\ Stored(x).tier # "None" /\ e.id = Stored(x).id /\ e.val = Stored(x).val
                  /\ e.inline <=> Stored(x).tier = "Mem"
  BY <1>4
<1>10. Stored(x).tier # "None" => e # None
  BY <1>4, SavedIsSomething
<1>11. e # None /\ ~e.inline => files'[e.id] \in {e.val, NoFile}
  BY <1>1, <1>2, <1>9 DEF StoredFacts, vars
<1>12. x \in Keys => ItemAnswer(e) = Answer(x)
  BY <1>2, <1>9, <1>10, ItemNames DEF ItemAnswer, Answer, Stored, StoredFacts
<1>13. x \in Keys => ItemAnswer(e)' = Answer(x)'
  BY <1>1, <1>12 DEF ItemAnswer, Answer, vars
<1>14. SavingOK'
  BY <1>1, <1>4, <1>7, <1>9, <1>11, <1>13, CollectedOK DEF vars
<1> QED
  BY <1>3, <1>8, <1>14 DEF OwnFilesInv

\* A write to a file that no OnDisk entry or blob points to.
LEMMA FileWriteCore ==
  ASSUME OwnFilesInv, phase = "saving", NEW i \in Ids, NEW v \in Content,
         files' = [files EXCEPT ![i] = v],
         UNCHANGED <<entries, blobs, nextId, unlinks, conns, readers, evictor, written>>,
         \A k \in Keys : entries[k].tier = "Disk" => entries[k].id # i,
         \A d \in Digests : blobs[d].tier = "Disk" => blobs[d].id # i
  PROVE  CoreInv'
<1>1. TypeFacts
  BY TypeOKFacts DEF OwnFilesInv, CoreInv
<1>2. TypeOK'
  BY DEF OwnFilesInv, CoreInv, TypeOK
<1>3. \A j \in Ids : j # i => files'[j] = files[j]
  BY DEF OwnFilesInv, CoreInv, TypeOK
<1>4. FilesNotWrong'
  BY <1>1, <1>3 DEF OwnFilesInv, CoreInv, FilesNotWrong, TypeFacts
<1>5. ReadingIsStable'
  BY DEF OwnFilesInv, NoTasks, ReadingIsStable
<1>6. /\ IdsHandedOut' /\ IdsDistinct' /\ BlobIsItsDigest' /\ RemovalsUnused' /\ SpillOwnsId'
      /\ OpeningIsStable' /\ GetReturnsWrittenValue' /\ DiskBlobIsServed'
  BY DEF OwnFilesInv, CoreInv, IdsHandedOut, IdsDistinct, BlobIsItsDigest, RemovalsUnused, Unused,
         Spilling, SpillOwnsId, OpeningIsStable, GetReturnsWrittenValue, DiskBlobIsServed
<1> QED
  BY <1>2, <1>4, <1>5, <1>6 DEF CoreInv

\* The file of an item in memory belongs to nobody else: not to another entry
\* or blob, and not to an item that was saved before.
LEMMA MemFileIsOwn ==
  ASSUME OwnFilesInv, phase = "saving", NEW x \in Items, x \in saver.todo, Stored(x).tier = "Mem"
  PROVE  /\ \A k \in Keys : entries[k].tier = "Disk" => entries[k].id # Stored(x).id
         /\ \A d \in Digests : blobs[d].tier = "Disk" => blobs[d].id # Stored(x).id
         /\ \A y \in Items : saver.items[y] # None =>
              y # x /\ saver.items[y].id \in Ids /\ saver.items[y].id # Stored(x).id
         /\ Stored(x).id \in Ids /\ Stored(x).val \in Values \cup Digests
<1>1. SaverFacts /\ SavingOK /\ StoredFacts
  BY LifeTypeFacts, CoreStored DEF OwnFilesInv
<1>2. \A y \in Items : Stored(y).tier = "Disk" => Stored(y).id # Stored(x).id
  BY <1>1 DEF StoredFacts
<1>3. \A y \in Items : saver.items[y] # None =>
        y # x /\ saver.items[y].id \in Ids /\ saver.items[y].id # Stored(x).id
  BY <1>1 DEF SavingOK, SaverFacts, SavedItem
<1>4. Stored(x).id \in Ids /\ Stored(x).val \in Values \cup Digests
  BY <1>1 DEF StoredFacts
<1>5. /\ \A k \in Keys : k \in Items /\ Stored(k) = entries[k]
      /\ \A d \in Digests : d \in Items /\ Stored(d) = blobs[d]
  BY ItemNames DEF Stored
<1> QED
  BY <1>2, <1>3, <1>4, <1>5

\* The file of a large item is created.
LEMMA SaveItemWriteInv ==
  ASSUME OwnFilesInv, NEW x \in Items, SaveItemWrite(x)
  PROVE  OwnFilesInv'
<1> DEFINE i == Stored(x).id
<1>1. /\ phase = "saving" /\ saver \in Saver /\ x \in saver.todo /\ Stored(x).tier = "Mem"
      /\ UNCHANGED <<entries, blobs, nextId, unlinks, conns, readers, evictor, written,
                     pushVars, phase, diskVars>>
      /\ files' = [files EXCEPT ![i] = Partial]
      /\ saver' = [saver EXCEPT !.at = x]
  BY DEF SaveItemWrite, Walked, NeedsFile, OwnFilesInv, LifeTypeOK
<1>2. SaverFacts /\ SavingOK /\ files \in [Ids -> Content]
  BY LifeTypeFacts DEF OwnFilesInv, CoreInv, TypeOK
<1>3. /\ \A k \in Keys : entries[k].tier = "Disk" => entries[k].id # i
      /\ \A d \in Digests : blobs[d].tier = "Disk" => blobs[d].id # i
      /\ \A y \in Items : saver.items[y] # None =>
           y # x /\ saver.items[y].id \in Ids /\ saver.items[y].id # i
      /\ i \in Ids
  BY <1>1, MemFileIsOwn
<1>4. CoreInv'
  BY <1>1, <1>3, FileWriteCore DEF Content
<1>5. /\ saver' \in Saver /\ saver'.at = x
      /\ saver'.todo = saver.todo /\ saver'.items = saver.items
  BY <1>1 DEF Saver
<1>6. LifeTypeOK' /\ NoTasks' /\ LoadedOK' /\ SnapshotOK'
  BY <1>1, <1>4, <1>5, WalkRest
<1>7. SavingOK'
  <2>1. \A y \in Items : saver.items[y] # None =>
          files'[saver.items[y].id] = files[saver.items[y].id]
    BY <1>1, <1>2, <1>3
  <2>2. \A k \in Keys : entries[k].tier = "Disk" => files'[entries[k].id] = files[entries[k].id]
    <3>1. TypeFacts
      BY TypeOKFacts DEF OwnFilesInv, CoreInv
    <3> QED
      BY <1>1, <1>2, <1>3, <3>1 DEF TypeFacts
  <2>3. ItemsOK(saver.items, nextId)'
    BY <1>1, <1>2, <1>5, <2>1 DEF SavingOK, ItemsOK
  <2>4. Stored(saver.at)'.tier = "Mem"
    BY <1>1, <1>5 DEF Stored
  <2>5. \A y \in Items : saver'.items[y] # None =>
          /\ y \notin saver'.todo /\ saver'.items[y].id \notin unlinks'
          /\ \A z \in Items \ {y} : Stored(z)'.tier # "None" => Stored(z)'.id # saver'.items[y].id
    BY <1>1, <1>2, <1>5 DEF SavingOK, Stored
  <2>6. \A k \in Keys : ItemAnswer(saver.items[k])' = ItemAnswer(saver.items[k])
    BY <1>5, <2>1, ItemNames DEF ItemAnswer
  <2>7. \A k \in Keys : Answer(k)' = Answer(k)
    <3>1. TypeFacts
      BY TypeOKFacts DEF OwnFilesInv, CoreInv
    <3> QED
      BY <1>1, <2>2, <3>1 DEF Answer, TypeFacts
  <2>8. \A k \in Keys \ saver'.todo : ItemAnswer(saver.items[k])' = Answer(k)'
    BY <1>1, <1>2, <1>5, <2>6, <2>7 DEF SavingOK
  <2> QED
    BY <1>1, <1>5, <2>3, <2>4, <2>5, <2>8 DEF SavingOK
<1> QED
  BY <1>4, <1>6, <1>7 DEF OwnFilesInv

\* It is complete, and the item refers to it.
LEMMA SaveItemWrittenInv ==
  ASSUME OwnFilesInv, SaveItemWritten
  PROVE  OwnFilesInv'
<1>1. PICK x \in Items : x = saver.at /\ x \in saver.todo /\ Stored(x).tier = "Mem"
  BY LifeTypeFacts DEF OwnFilesInv, SaveItemWritten, SavingOK, SaverFacts
<1> DEFINE i == Stored(x).id
           v == Stored(x).val
<1>2. /\ phase = "saving" /\ saver \in Saver
      /\ UNCHANGED <<entries, blobs, nextId, unlinks, conns, readers, evictor, written,
                     pushVars, phase, diskVars>>
      /\ files' = [files EXCEPT ![i] = v]
      /\ saver' = [saver EXCEPT !.todo = saver.todo \ {x}, !.at = Nobody,
                                !.items = [saver.items EXCEPT ![x] = [id |-> i, val |-> v, inline |-> FALSE]]]
  BY <1>1 DEF SaveItemWritten, OwnFilesInv, LifeTypeOK, Saver
<1>3. SaverFacts /\ SavingOK /\ files \in [Ids -> Content]
  BY LifeTypeFacts DEF OwnFilesInv, CoreInv, TypeOK
<1>4. /\ \A k \in Keys : entries[k].tier = "Disk" => entries[k].id # i
      /\ \A d \in Digests : blobs[d].tier = "Disk" => blobs[d].id # i
      /\ \A y \in Items : saver.items[y] # None =>
           y # x /\ saver.items[y].id \in Ids /\ saver.items[y].id # i
      /\ i \in Ids /\ v \in Values \cup Digests
  BY <1>1, <1>2, MemFileIsOwn
<1>5. CoreInv'
  BY <1>2, <1>4, FileWriteCore DEF Content
<1>6. PICK e \in SavedItem : e = [id |-> i, val |-> v, inline |-> FALSE]
  BY <1>4 DEF SavedItem
<1>7. e # None /\ e.id = i /\ e.val = v /\ ~e.inline
  BY <1>6, SavedIsSomething
<1>8. saver' \in Saver
  <2>1. [saver.items EXCEPT ![x] = e] \in [Items -> SavedItem]
    BY <1>3, <1>6 DEF SaverFacts
  <2> QED
    BY <1>2, <1>6, <2>1 DEF Saver
<1>9. ItemCollected(x, e)
  BY <1>1, <1>2, <1>6 DEF Saver, ItemCollected
<1>10. LifeTypeOK' /\ NoTasks' /\ LoadedOK' /\ SnapshotOK'
  BY <1>2, <1>5, <1>8, WalkRest
<1>11. SavingOK'
  <2>1. \A y \in Items \ {x} : saver.items[y] # None =>
          files'[saver.items[y].id] = files[saver.items[y].id]
    BY <1>2, <1>3, <1>4
  <2>2. \A k \in Keys \ {x} : entries[k].tier = "Disk" => files'[entries[k].id] = files[entries[k].id]
    <3>1. TypeFacts
      BY TypeOKFacts DEF OwnFilesInv, CoreInv
    <3> QED
      BY <1>2, <1>3, <1>4, <3>1 DEF TypeFacts
  <2>3. files'[i] = v /\ v # NoFile
    BY <1>2, <1>3, <1>4, ContentAssumption
  <2>4. x \in Keys => ItemAnswer(e)' = Answer(x)'
    BY <1>1, <1>2, <1>7, <2>3, ItemNames DEF ItemAnswer, Answer, Stored
  <2> QED
    BY <1>1, <1>2, <1>9, <1>7, <2>1, <2>2, <2>3, <2>4, CollectedOK
<1> QED
  BY <1>5, <1>10, <1>11 DEF OwnFilesInv

-----------------------------------------------------------------------------
(***************************************************************************)
(* Tags and manifests, in every life.                                      *)
(***************************************************************************)
\* The process is gone: no tag, no push and no drop is left.
LEMMA ProcessEndsTags ==
  ASSUME TagsOK, Crash \/ SaveEnd \/ SaveError
  PROVE  TagsOK'
<1>1. ProcessEnds
  BY DEF Crash, SaveEnd, SaveError
<1>2. /\ phase' = "down" /\ saver' = NotSaving /\ dropping' = Nobody /\ puts' = {}
      /\ tag' = Nobody
  BY <1>1 DEF ProcessEnds, Blank
<1>3. snapshot' \notin {NoSnapshot, Corrupt} /\ ~snapshot'.raced =>
        snapshot'.tag \in snapshot'.manifests \cup {Nobody}
  <2>1. CASE SaveEnd
    BY <2>1 DEF TagsOK, SaveEnd
  <2>2. CASE Crash \/ SaveError
    BY <2>2 DEF TagsOK, Crash, SaveError, diskVars
  <2> QED
    BY <2>1, <2>2
<1> QED
  BY <1>2, <1>3 DEF TagsOK, Phases, NotSaving

\* A push, and a pass that drops a manifest: a tag whose manifest is gone is
\* about to be removed, or its push raced.
LEMMA PushTags ==
  ASSUME TagsOK, NEW m \in Manifests, PutManifest(m) \/ PutTag(m) \/ DropManifest(m)
  PROVE  TagsOK'
<1>1. UNCHANGED <<phase, saver, snapshot>>
  BY DEF PutManifest, PutTag, DropManifest, lifeVars, diskVars
<1>2. CASE PutManifest(m)
  BY <1>1, <1>2 DEF PutManifest, TagsOK
<1>3. CASE PutTag(m)
  BY <1>1, <1>3 DEF PutTag, TagsOK
<1>4. CASE DropManifest(m)
  BY <1>1, <1>4 DEF DropManifest, TagsOK
<1> QED
  BY <1>2, <1>3, <1>4

\* The walk copies the manifests before the tags.
LEMMA WalkTags ==
  ASSUME TagsOK, SaveManifests \/ SaveTags
  PROVE  TagsOK'
<1>1. /\ phase = "saving" /\ DOMAIN saver = DOMAIN NotSaving
      /\ UNCHANGED <<manifests, tag, puts, dropping, raced, phase, snapshot>>
  BY DEF TagsOK, SaveManifests, SaveTags, Walked, pushVars, diskVars
<1>2. {"todo", "at", "manifests", "tag", "raced"} \subseteq DOMAIN saver
  BY <1>1 DEF NotSaving
<1>3. CASE SaveManifests
  <2>1. /\ saver'.todo = saver.todo \ {"manifests"} /\ saver'.manifests = manifests
        /\ saver'.tag = saver.tag /\ saver'.raced = saver.raced /\ "manifests" \in saver.todo
        /\ saver'.at = saver.at
        /\ DOMAIN saver' = DOMAIN saver
    BY <1>2, <1>3 DEF SaveManifests, Walked
  <2> QED
    BY <1>1, <2>1 DEF TagsOK
<1>4. CASE SaveTags
  <2>1. /\ saver'.todo = saver.todo \ {"tags"} /\ saver'.manifests = saver.manifests
        /\ saver'.tag = tag /\ saver'.raced = raced /\ saver'.at = saver.at
        /\ DOMAIN saver' = DOMAIN saver
    BY <1>2, <1>4 DEF SaveTags
  <2>2. "manifests" \notin saver.todo
    BY <1>4, ItemAssumption DEF SaveTags, Walked, WalkedBefore
  <2> QED
    BY <1>1, <2>1, <2>2 DEF TagsOK
<1> QED
  BY <1>3, <1>4

\* The rest of the walk is about other items.
LEMMA ItemTags ==
  ASSUME TagsOK, NEW x \in Items, SaveItem(x) \/ SaveItemWrite(x) \/ SaveItemWritten
  PROVE  TagsOK'
<1>1. /\ phase = "saving" /\ DOMAIN saver = DOMAIN NotSaving /\ saver.at \in Items \cup {Nobody}
      /\ UNCHANGED <<manifests, tag, puts, dropping, raced, phase, snapshot>>
  BY DEF TagsOK, SaveItem, SaveItemWrite, SaveItemWritten, Walked, pushVars, diskVars
<1>2. {"todo", "at", "items", "manifests", "tag", "raced"} \subseteq DOMAIN saver
  BY <1>1 DEF NotSaving
<1>3. /\ saver'.manifests = saver.manifests /\ saver'.tag = saver.tag
      /\ saver'.raced = saver.raced /\ DOMAIN saver' = DOMAIN saver
      /\ saver'.at \in Items \cup {Nobody}
      /\ \E y : saver'.todo \in {saver.todo, saver.todo \ {y}} /\ y # "manifests" /\ y # "tags"
  <2>1. CASE SaveItem(x)
    BY <1>1, <1>2, <2>1, ItemNames DEF SaveItem, Walked
  <2>2. CASE SaveItemWrite(x)
    BY <1>2, <2>2, ItemNames DEF SaveItemWrite
  <2>3. CASE SaveItemWritten
    BY <1>1, <1>2, <2>3, ItemNames DEF SaveItemWritten
  <2> QED
    BY <2>1, <2>2, <2>3
<1> QED
  BY <1>1, <1>3 DEF TagsOK

\* A start, or the end of one: the restored tag is the saved one.
LEMMA StartTags ==
  ASSUME TagsOK, LoadOk \/ LoadMissing \/ LoadOther \/ Loaded \/ Wiped
  PROVE  TagsOK'
<1>1. CASE LoadOk
  BY <1>1 DEF LoadOk, TagsOK, Phases
<1>2. CASE LoadMissing \/ LoadOther
  BY <1>2 DEF LoadMissing, LoadOther, WipeCache, Blank, TagsOK, Phases
<1>3. CASE Loaded \/ Wiped
  <2>1. /\ phase' = "running" /\ phase \in {"loaded", "wiped"} /\ UNCHANGED <<saver, pushVars>>
        /\ snapshot' \in {NoSnapshot, snapshot}
    BY <1>3 DEF Loaded, Wiped
  <2> QED
    BY <2>1 DEF TagsOK, Phases, pushVars
<1> QED
  BY <1>1, <1>2, <1>3

\* Every step of every life preserves it; the store's own steps do not touch
\* tags and manifests.
LEMMA TagsNext == TagsOK /\ [LifeNext]_allVars => TagsOK'
<1> SUFFICES ASSUME TagsOK, [LifeNext]_allVars PROVE TagsOK'
  OBVIOUS
<1>1. CASE Running \/ Stragglers \/ UNCHANGED allVars
  <2>1. UNCHANGED <<manifests, tag, puts, dropping, raced, phase, saver, snapshot>>
    BY <1>1 DEF Running, Stragglers, allVars, pushVars, lifeVars, diskVars
  <2> QED
    BY <2>1 DEF TagsOK
<1>2. CASE Crash \/ SaveEnd \/ SaveError
  BY <1>2, ProcessEndsTags
<1>3. CASE \E m \in Manifests : PutManifest(m) \/ PutTag(m) \/ DropManifest(m)
  BY <1>3, PushTags
<1>4. CASE Untag
  <2>1. UNCHANGED <<phase, saver, snapshot>>
    BY <1>4 DEF Untag, lifeVars, diskVars
  <2> QED
    BY <1>4, <2>1 DEF Untag, TagsOK
<1>5. CASE SaveManifests \/ SaveTags
  BY <1>5, WalkTags
<1>6. CASE SaveStart
  <2>1. /\ saver'.todo = Items \cup {"manifests", "tags"} /\ saver'.at = Nobody
        /\ DOMAIN saver' = DOMAIN NotSaving
    BY <1>6 DEF SaveStart, NotSaving
  <2> QED
    BY <1>6, <2>1 DEF SaveStart, TagsOK, Phases, pushVars, diskVars
<1>7. CASE \E x \in Items : SaveItem(x) \/ SaveItemWrite(x)
  BY <1>7, ItemTags
<1>8. CASE SaveItemWritten
  <2>1. saver.at \in Items
    BY <1>8 DEF SaveItemWritten, TagsOK
  <2> QED
    BY <1>8, <2>1, ItemTags
<1>9. CASE Damage
  BY <1>9 DEF Damage, TagsOK, pushVars
<1>10. CASE LoadOk \/ LoadMissing \/ LoadOther \/ Loaded \/ Wiped
  BY <1>10, StartTags
<1> QED
  BY <1>1, <1>2, <1>3, <1>4, <1>5, <1>6, <1>7, <1>8, <1>9, <1>10 DEF LifeNext

-----------------------------------------------------------------------------
(***************************************************************************)
(* The invariant and the theorems.                                         *)
(***************************************************************************)
\* The first start finds an empty data folder.
LEMMA LifeInitInv == LifeInit => LifeInv
<1> SUFFICES ASSUME LifeInit PROVE LifeInv
  OBVIOUS
<1>1. CoreInv
  BY InitCore DEF LifeInit
<1>2. LifeTypeOK
  BY <1>1, NotSavingType DEF CoreInv, LifeInit, Init, LifeTypeOK, Phases
<1>3. NoTasks
  BY DEF LifeInit, Init, NoTasks
<1>4. SnapshotOK /\ LoadedOK /\ SavingOK
  BY DEF LifeInit, SnapshotOK, LoadedOK, SavingOK
<1>5. TagsOK
  BY DEF LifeInit, TagsOK, Phases, NotSaving
<1> QED
  BY <1>1, <1>2, <1>3, <1>4, <1>5 DEF LifeInv, OwnFilesInv

\* Once a process has loaded a stale snapshot, that remains so.
LEMMA ForeignStays == foreign /\ [LifeNext]_allVars => foreign'
<1> SUFFICES ASSUME foreign, [LifeNext]_allVars PROVE foreign'
  OBVIOUS
<1>1. CASE UNCHANGED foreign
  BY <1>1
<1>2. CASE LoadOk
  BY <1>2 DEF LoadOk
<1> QED
  BY <1>1, <1>2 DEF LifeNext, allVars, lifeVars, diskVars, Running, Crash, Untag, PutManifest, PutTag,
     DropManifest, SaveManifests, SaveTags, SaveStart, Stragglers, SaveItemWritten, SaveEnd, SaveError,
     SaveItem, SaveItemWrite, Damage, LoadMissing, LoadOther, Loaded, Wiped

\* Until then every step of every life preserves what the files owe to the
\* maps and to the snapshot.
LEMMA FilesNext ==
  ASSUME LifeInv, ~foreign, [LifeNext]_allVars
  PROVE  foreign' \/ OwnFilesInv'
<1>0. OwnFilesInv
  BY DEF LifeInv
<1>1. CASE Running
  BY <1>0, <1>1, RunningInv
<1>2. CASE Crash \/ SaveError
  BY <1>0, <1>2, CrashInv
<1>3. CASE \E m \in Manifests : PutManifest(m) \/ PutTag(m) \/ DropManifest(m)
  BY <1>0, <1>3, PushInv
<1>4. CASE Untag
  BY <1>0, <1>4, UntagInv
<1>5. CASE SaveManifests \/ SaveTags
  BY <1>0, <1>5, SaveMapInv
<1>6. CASE SaveStart
  BY <1>0, <1>6, SaveStartInv
<1>7. CASE Stragglers
  BY <1>0, <1>7, StragglersInv
<1>8. CASE \E x \in Items : SaveItem(x) \/ SaveItemWrite(x)
  BY <1>0, <1>8, SaveItemInv, SaveItemWriteInv
<1>9. CASE SaveItemWritten
  BY <1>0, <1>9, SaveItemWrittenInv
<1>10. CASE SaveEnd
  BY <1>0, <1>10, SaveEndInv
<1>11. CASE Damage
  BY <1>0, <1>11, DamageInv
<1>12. CASE LoadOk
  <2>1. CASE stale
    BY <1>12, <2>1 DEF LoadOk
  <2>2. CASE ~stale
    BY <1>0, <1>12, <2>2, LoadOkInv
  <2> QED
    BY <2>1, <2>2
<1>13. CASE LoadMissing \/ LoadOther
  BY <1>0, <1>13, WipeInv
<1>14. CASE Loaded \/ Wiped
  BY <1>0, <1>14, StartedInv
<1>15. CASE UNCHANGED allVars
  BY <1>0, <1>15, LifeStutter
<1> QED
  BY <1>1, <1>2, <1>3, <1>4, <1>5, <1>6, <1>7, <1>8, <1>9, <1>10, <1>11, <1>12, <1>13, <1>14,
     <1>15 DEF LifeNext

LEMMA LifeNextInv == LifeInv /\ [LifeNext]_allVars => LifeInv'
<1> SUFFICES ASSUME LifeInv, [LifeNext]_allVars PROVE LifeInv'
  OBVIOUS
<1>1. TagsOK'
  BY TagsNext DEF LifeInv
<1>2. foreign' \/ OwnFilesInv'
  BY ForeignStays, FilesNext
<1> QED
  BY <1>1, <1>2 DEF LifeInv

\* The inductive invariant: tags lead to manifests in every life of the
\* process; and until a process loads a snapshot that outlived its files, the
\* store's own invariant holds in every life, and a snapshot, in the making
\* or finished, points to right files only.
THEOREM LifeInvariant == LifeSpec => []LifeInv
<1>1. LifeInit => LifeInv
  BY LifeInitInv
<1>2. LifeInv /\ [LifeNext]_allVars => LifeInv'
  BY LifeNextInv
<1> QED
  BY <1>1, <1>2, PTL DEF LifeSpec

\* load restores a next_id above every id it restores, so that after any number
\* of restarts insert_redis and insert_blob never hand out an id in use (until
\* a stale snapshot is loaded).
THEOREM RestoredIdsAreNotReused == LifeSpec => [](foreign \/ NextIdIsUnused)
<1>1. LifeInv => foreign \/ NextIdIsUnused
  BY DEF LifeInv, OwnFilesInv, CoreInv, IdsHandedOut, NextIdIsUnused
<1> QED
  BY <1>1, LifeInvariant, PTL

\* Crashes during a spill, save, load or wipe never leave a map entry that
\* points to wrong or half written bytes in a later life, unless a snapshot
\* was loaded that could be neither read nor removed when its files were
\* wiped (snapshot.rs:354).
THEOREM FilesSurviveRestarts == LifeSpec => []DiskSurvivesRestarts
<1>1. LifeInv => DiskSurvivesRestarts
  BY DEF LifeInv, OwnFilesInv, CoreInv, FilesNotWrong, DiskSurvivesRestarts, DiskIsRight
<1> QED
  BY <1>1, LifeInvariant, PTL

\* save and load are inverse as far as redis clients can tell, although unlink
\* tasks and Docker pushes go on while save walks the maps (until
\* a stale snapshot is loaded).
THEOREM SnapshotKeepsRedis == LifeSpec => [](foreign \/ RestartKeepsRedis)
<1>1. LifeInv => foreign \/ RestartKeepsRedis
  <2> SUFFICES ASSUME OwnFilesInv, phase = "loaded", promised # NoSnapshot, NEW k \in Keys
               PROVE  Answer(k) = promised[k]
    BY Zenon DEF LifeInv, RestartKeepsRedis
  <2>1. /\ snapshot \notin {NoSnapshot, Corrupt}
        /\ entries[k] = RestoredRedis(snapshot.items[k])
        /\ ItemAnswer(snapshot.items[k]) = promised[k]
    BY DEF OwnFilesInv, LoadedOK, SnapshotOK
  <2>2. PICK e \in SavedItem : e = snapshot.items[k]
    BY <2>1, LifeTypeFacts, ItemNames DEF OwnFilesInv, ImageFacts
  <2>3. CASE e = None
    BY <2>1, <2>2, <2>3, RestoredFacts DEF ItemAnswer, Answer
  <2>4. CASE e # None
    <3>1. /\ entries[k].tier = (IF e.inline THEN "Mem" ELSE "Disk")
          /\ entries[k].id = e.id /\ entries[k].val = e.val
      BY <2>1, <2>2, <2>4, RestoredFacts
    <3> QED
      BY <2>1, <2>2, <2>4, <3>1 DEF ItemAnswer, Answer
  <2> QED
    BY <2>3, <2>4
<1> QED
  BY <1>1, LifeInvariant, PTL

\* put_manifest inserts, and save walks, manifests before tags, and a drop
\* removes the tags of its manifest afterwards: only the tag of a push that
\* raced with a drop or with save can be restored without its manifest.
THEOREM RestoredTagsAreUsable == LifeSpec => []RestoredTagIsUsable
<1>1. LifeInv => RestoredTagIsUsable
  BY DEF LifeInv, TagsOK, RestoredTagIsUsable
<1> QED
  BY <1>1, LifeInvariant, PTL
=============================================================================
