------------------------- MODULE TwoTierStoreProofs -------------------------
(***************************************************************************)
(* The invariants of TwoTierStore, proved for every set of keys, values,   *)
(* digests, connections and readers and every bound on the ids.            *)
(*                                                                         *)
(* IInv says who may hold an id: an id names one file for ever, it is      *)
(* fresh when it is handed out, and two live users never share it.  With   *)
(* that, a file that a late GET reads or a blob GET opens cannot have been *)
(* rewritten or unlinked while an entry still points to it.                *)
(*                                                                         *)
(* IInv has two halves.  CoreInv is preserved by every action on its own   *)
(* (one lemma ...Core per action), whatever an earlier process has left in *)
(* the data folder: LifecycleProofs rests on it.  FilesInv needs CoreInv   *)
(* and a folder that was empty at first (one lemma ...Files per action     *)
(* that touches the maps or the files).                                    *)
(*                                                                         *)
(* The last part proves that the store implements CachePromise.            *)
(***************************************************************************)
EXTENDS StoreRefinement, TLAPS

\* The constructors of tiers and states are transparent to every proof.
USE DEF None, InMemory, OnDisk, Idle

\* What TypeOK says of the fields, in the form the provers use it.
TypeFacts ==
  /\ \A k \in Keys : entries[k].tier # "None" =>
       /\ entries[k].tier \in {"Mem", "Disk"}
       /\ entries[k].id \in Ids /\ entries[k].val \in Values
  /\ \A d \in Digests : blobs[d].tier # "None" =>
       /\ blobs[d].tier \in {"Mem", "Disk"}
       /\ blobs[d].id \in Ids /\ blobs[d].val \in Digests
  /\ \A c \in Conns :
       /\ conns[c].pc \in {"idle", "reading", "got", "reply", "flushing"}
       /\ conns[c].pc \in {"reading", "got", "reply"} => conns[c].key \in Keys
       /\ conns[c].pc \in {"reading", "got"} => conns[c].id \in Ids
       /\ conns[c].pc \in {"got", "reply"} => conns[c].val \in Values \cup {Failed}
       /\ conns[c].pc = "flushing" => conns[c].todo \in SUBSET Keys /\ conns[c].delete \in SUBSET Ids
  /\ \A r \in Readers :
       /\ readers[r].pc \in {"idle", "opening", "serving"}
       /\ readers[r].pc # "idle" => readers[r].digest \in Digests
       /\ readers[r].pc = "opening" => readers[r].id \in Ids
  /\ evictor.pc \in {"idle", "spillRedis", "spillBlob", "deleting", "failed"}
  /\ evictor.pc # "idle" => evictor.id \in Ids
  /\ evictor.pc = "spillRedis" => evictor.key \in Keys /\ evictor.val \in Values
  /\ evictor.pc = "spillBlob" => evictor.digest \in Digests
  /\ \A i \in Ids : files[i] \in Content

\* The fields of the records have their types.
LEMMA TypeOKFacts == TypeOK => TypeFacts
<1> SUFFICES ASSUME TypeOK PROVE TypeFacts OBVIOUS
<1>1. \A k \in Keys : entries[k].tier # "None" =>
       /\ entries[k].tier \in {"Mem", "Disk"}
       /\ entries[k].id \in Ids /\ entries[k].val \in Values
  BY DEF TypeOK, RedisEntry
<1>2. \A d \in Digests : blobs[d].tier # "None" =>
       /\ blobs[d].tier \in {"Mem", "Disk"}
       /\ blobs[d].id \in Ids /\ blobs[d].val \in Digests
  BY DEF TypeOK, Blob
<1>3. \A c \in Conns :
       /\ conns[c].pc \in {"idle", "reading", "got", "reply", "flushing"}
       /\ conns[c].pc \in {"reading", "got", "reply"} => conns[c].key \in Keys
       /\ conns[c].pc \in {"reading", "got"} => conns[c].id \in Ids
       /\ conns[c].pc \in {"got", "reply"} => conns[c].val \in Values \cup {Failed}
       /\ conns[c].pc = "flushing" => conns[c].todo \in SUBSET Keys /\ conns[c].delete \in SUBSET Ids
  BY DEF TypeOK, ConnState
<1>4. \A r \in Readers :
       /\ readers[r].pc \in {"idle", "opening", "serving"}
       /\ readers[r].pc # "idle" => readers[r].digest \in Digests
       /\ readers[r].pc = "opening" => readers[r].id \in Ids
  BY DEF TypeOK, ReaderState
<1>5.
  /\ evictor.pc \in {"idle", "spillRedis", "spillBlob", "deleting", "failed"}
  /\ evictor.pc # "idle" => evictor.id \in Ids
  /\ evictor.pc = "spillRedis" => evictor.key \in Keys /\ evictor.val \in Values
  /\ evictor.pc = "spillBlob" => evictor.digest \in Digests
  BY DEF TypeOK, EvictorState
<1> QED BY <1>1, <1>2, <1>3, <1>4, <1>5 DEF TypeOK, TypeFacts

-----------------------------------------------------------------------------
(***************************************************************************)
(* Redis connections: each handler step preserves the invariant.           *)
(***************************************************************************)
\* A GET that misses only changes its connection.
LEMMA GetMissCore ==
  ASSUME CoreInv, NEW c \in Conns, NEW k \in Keys, GetMiss(c, k)
  PROVE  CoreInv'
<1>1. TypeFacts
  BY TypeOKFacts DEF CoreInv
<1>2. TypeOK'
  BY <1>1
     DEF GetMiss, CoreInv, TypeFacts, TypeOK, ConnState
<1>3. IdsHandedOut'
  BY <1>1, MaxIdAssumption
     DEF GetMiss, CoreInv, TypeFacts, TypeOK, IdsHandedOut, Ids
<1>4. RemovalsUnused'
  BY <1>1
     DEF GetMiss, CoreInv, TypeFacts, TypeOK, RemovalsUnused, Unused, Spilling
<1>5. ReadingIsStable'
  BY <1>1
     DEF GetMiss, CoreInv, TypeFacts, TypeOK, ReadingIsStable, Spilling
<1>6. GetReturnsWrittenValue'
  BY <1>1
     DEF GetMiss, CoreInv, TypeFacts, TypeOK, GetReturnsWrittenValue
<1>7. IdsDistinct' /\ BlobIsItsDigest' /\ SpillOwnsId' /\ OpeningIsStable' /\
      FilesNotWrong' /\ DiskBlobIsServed'
  BY DEF GetMiss, CoreInv, IdsDistinct, BlobIsItsDigest, SpillOwnsId, OpeningIsStable,
         FilesNotWrong, DiskBlobIsServed
<1> QED
  BY <1>2, <1>3, <1>4, <1>5, <1>6, <1>7 DEF CoreInv

\* A GET of an InMemory entry answers with a value written for its key.
LEMMA GetHitCore ==
  ASSUME CoreInv, NEW c \in Conns, NEW k \in Keys, GetHit(c, k)
  PROVE  CoreInv'
<1>1. TypeFacts
  BY TypeOKFacts DEF CoreInv
<1>2. TypeOK'
  BY <1>1
     DEF GetHit, CoreInv, TypeFacts, TypeOK, ConnState
<1>3. IdsHandedOut'
  BY <1>1, MaxIdAssumption
     DEF GetHit, CoreInv, TypeFacts, TypeOK, IdsHandedOut, Ids
<1>4. RemovalsUnused'
  BY <1>1
     DEF GetHit, CoreInv, TypeFacts, TypeOK, RemovalsUnused, Unused, Spilling
<1>5. ReadingIsStable'
  BY <1>1
     DEF GetHit, CoreInv, TypeFacts, TypeOK, ReadingIsStable, Spilling
<1>6. GetReturnsWrittenValue'
  BY <1>1
     DEF GetHit, CoreInv, TypeFacts, TypeOK, GetReturnsWrittenValue
<1>7. IdsDistinct' /\ BlobIsItsDigest' /\ SpillOwnsId' /\ OpeningIsStable' /\
      FilesNotWrong' /\ DiskBlobIsServed'
  BY DEF GetHit, CoreInv, IdsDistinct, BlobIsItsDigest, SpillOwnsId, OpeningIsStable,
         FilesNotWrong, DiskBlobIsServed
<1> QED
  BY <1>2, <1>3, <1>4, <1>5, <1>6, <1>7 DEF CoreInv

\* A GET of an OnDisk entry picks up an id whose file is complete.
LEMMA GetOnDiskCore ==
  ASSUME CoreInv, NEW c \in Conns, NEW k \in Keys, GetOnDisk(c, k)
  PROVE  CoreInv'
<1>1. TypeFacts
  BY TypeOKFacts DEF CoreInv
<1>2. TypeOK'
  BY <1>1
     DEF GetOnDisk, CoreInv, TypeFacts, TypeOK, ConnState
<1>3. IdsHandedOut'
  BY <1>1, MaxIdAssumption
     DEF GetOnDisk, CoreInv, TypeFacts, TypeOK, IdsHandedOut, Ids
<1>4. RemovalsUnused'
  BY <1>1
     DEF GetOnDisk, CoreInv, TypeFacts, TypeOK, RemovalsUnused, Unused, Spilling
<1>5. ReadingIsStable'
  BY <1>1
     DEF GetOnDisk, CoreInv, TypeFacts, TypeOK, ReadingIsStable, IdsHandedOut,
         IdsDistinct, FilesNotWrong, GetReturnsWrittenValue, RemovalsUnused,
         SpillOwnsId, Spilling, Unused
<1>6. GetReturnsWrittenValue'
  BY <1>1
     DEF GetOnDisk, CoreInv, TypeFacts, TypeOK, GetReturnsWrittenValue
<1>7. IdsDistinct' /\ BlobIsItsDigest' /\ SpillOwnsId' /\ OpeningIsStable' /\
      FilesNotWrong' /\ DiskBlobIsServed'
  BY DEF GetOnDisk, CoreInv, IdsDistinct, BlobIsItsDigest, SpillOwnsId, OpeningIsStable,
         FilesNotWrong, DiskBlobIsServed
<1> QED
  BY <1>2, <1>3, <1>4, <1>5, <1>6, <1>7 DEF CoreInv

\* The read returns what the stable file holds, or fails.
LEMMA GetReadCore ==
  ASSUME CoreInv, NEW c \in Conns, GetRead(c)
  PROVE  CoreInv'
<1>1. TypeFacts
  BY TypeOKFacts DEF CoreInv
<1>2. TypeOK'
  BY <1>1
     DEF GetRead, CoreInv, TypeFacts, TypeOK, ReadingIsStable, ConnState
<1>3. IdsHandedOut'
  BY <1>1, MaxIdAssumption
     DEF GetRead, CoreInv, TypeFacts, TypeOK, IdsHandedOut, Ids
<1>4. RemovalsUnused'
  BY <1>1
     DEF GetRead, CoreInv, TypeFacts, TypeOK, RemovalsUnused, Unused, Spilling
<1>5. ReadingIsStable'
  BY <1>1
     DEF GetRead, CoreInv, TypeFacts, TypeOK, ReadingIsStable, Spilling
<1>6. GetReturnsWrittenValue'
  BY <1>1
     DEF GetRead, CoreInv, TypeFacts, TypeOK, GetReturnsWrittenValue,
         ReadingIsStable, SpillOwnsId, FilesNotWrong, Spilling
<1>7. IdsDistinct' /\ BlobIsItsDigest' /\ SpillOwnsId' /\ OpeningIsStable' /\
      FilesNotWrong' /\ DiskBlobIsServed'
  BY DEF GetRead, CoreInv, IdsDistinct, BlobIsItsDigest, SpillOwnsId, OpeningIsStable,
         FilesNotWrong, DiskBlobIsServed
<1> QED
  BY <1>2, <1>3, <1>4, <1>5, <1>6, <1>7 DEF CoreInv

\* The promotion takes a fresh id and unlinks the file of the entry it replaces.
LEMMA GetPromoteCore ==
  ASSUME CoreInv, NEW c \in Conns, GetPromote(c)
  PROVE  CoreInv'
<1>1. TypeFacts
  BY TypeOKFacts DEF CoreInv
<1>2. TypeOK'
  <2>1. nextId \in Ids /\ nextId' \in 0 .. MaxId
    BY MaxIdAssumption DEF GetPromote, InsertRedis, CoreInv, TypeOK, Ids
  <2>2. entries' \in [Keys -> RedisEntry]
    BY <1>1, <2>1 DEF GetPromote, InsertRedis, CoreInv, TypeFacts, TypeOK, RedisEntry
  <2>3. unlinks' \in SUBSET Ids
    BY <1>1 DEF GetPromote, InsertRedis, DiskFile, CoreInv, TypeFacts, TypeOK
  <2>4. conns' \in [Conns -> ConnState]
    BY <1>1 DEF GetPromote, CoreInv, TypeFacts, TypeOK, ConnState
  <2> QED
    BY <2>1, <2>2, <2>3, <2>4 DEF GetPromote, InsertRedis, CoreInv, TypeOK
<1>3. IdsHandedOut'
  <2>1. nextId \in Nat /\ nextId' = nextId + 1 /\ Ids \subseteq Nat
    BY MaxIdAssumption DEF GetPromote, InsertRedis, CoreInv, TypeOK, Ids
  <2>2. \A k \in Keys : entries'[k].tier # "None" => entries'[k].id < nextId'
    BY <1>1, <2>1 DEF GetPromote, InsertRedis, CoreInv, TypeFacts, TypeOK, IdsHandedOut
  <2>3. \A i \in unlinks' : i < nextId'
    BY <1>1, <2>1
       DEF GetPromote, InsertRedis, DiskFile, CoreInv, TypeFacts, TypeOK, IdsHandedOut
  <2>4. \A e \in Conns : e # c => conns'[e] = conns[e]
    BY DEF GetPromote, CoreInv, TypeOK
  <2>5. conns'[c].pc = "reply"
    BY DEF GetPromote, CoreInv, TypeOK
  <2> DEFINE IdsOf(e) == IF conns[e].pc = "reading" THEN {conns[e].id}
                        ELSE IF conns[e].pc = "flushing" THEN conns[e].delete ELSE {}
  <2>6. \A e \in Conns : \A i \in IdsOf(e) : i \in Ids /\ i < nextId
    BY <1>1 DEF CoreInv, TypeFacts, IdsHandedOut
  <2>7. \A i \in Ids : i < nextId => i < nextId'
    BY <2>1
  <2>8. \A e \in Conns : conns'[e].pc = "reading" => conns'[e].id < nextId'
    BY <2>4, <2>5, <2>6, <2>7, Zenon
  <2>9. \A e \in Conns : conns'[e].pc = "flushing" => \A i \in conns'[e].delete : i < nextId'
    BY <2>4, <2>5, <2>6, <2>7, Zenon
  <2>10. /\ \A d \in Digests : blobs'[d].tier # "None" => blobs'[d].id < nextId'
         /\ evictor'.pc # "idle" => evictor'.id < nextId'
    BY <1>1, <2>1 DEF GetPromote, CoreInv, TypeFacts, IdsHandedOut
  <2> QED
    BY <2>2, <2>3, <2>8, <2>9, <2>10 DEF IdsHandedOut
<1>4. IdsDistinct'
  BY <1>1
     DEF GetPromote, InsertRedis, DiskFile, CoreInv, TypeFacts, TypeOK,
         IdsDistinct, IdsHandedOut, SpillOwnsId
<1>5. RemovalsUnused'
  BY <1>1
     DEF GetPromote, InsertRedis, DiskFile, CoreInv, TypeFacts, TypeOK,
         RemovalsUnused, IdsHandedOut, IdsDistinct, SpillOwnsId, Unused,
         Spilling
<1>6. SpillOwnsId'
  BY <1>1
     DEF GetPromote, InsertRedis, DiskFile, CoreInv, TypeFacts, TypeOK,
         SpillOwnsId, IdsHandedOut, IdsDistinct, GetReturnsWrittenValue
<1>7. ReadingIsStable'
  BY <1>1
     DEF GetPromote, InsertRedis, DiskFile, CoreInv, TypeFacts, TypeOK,
         ReadingIsStable, IdsHandedOut, IdsDistinct, FilesNotWrong,
         GetReturnsWrittenValue, RemovalsUnused, SpillOwnsId, Spilling, Unused
<1>8. FilesNotWrong'
  BY <1>1
     DEF GetPromote, InsertRedis, DiskFile, CoreInv, TypeFacts, TypeOK,
         FilesNotWrong
<1>9. GetReturnsWrittenValue'
  BY <1>1
     DEF GetPromote, InsertRedis, DiskFile, CoreInv, TypeFacts, TypeOK,
         GetReturnsWrittenValue
<1>10. BlobIsItsDigest' /\ OpeningIsStable' /\ DiskBlobIsServed'
  BY DEF GetPromote, InsertRedis, DiskFile, CoreInv, BlobIsItsDigest, OpeningIsStable,
         DiskBlobIsServed
<1> QED
  BY <1>2, <1>3, <1>4, <1>5, <1>6, <1>7, <1>8, <1>9, <1>10 DEF CoreInv

\* The removal after a failed read unlinks the file of whatever entry is there.
LEMMA GetReadErrorCore ==
  ASSUME CoreInv, NEW c \in Conns, GetReadError(c)
  PROVE  CoreInv'
<1>1. TypeFacts
  BY TypeOKFacts DEF CoreInv
<1>2. TypeOK'
  BY <1>1
     DEF GetReadError, RemoveRedis, DiskFile, CoreInv, TypeFacts, TypeOK,
         RedisEntry, ConnState
<1>3. IdsHandedOut'
  BY <1>1, MaxIdAssumption
     DEF GetReadError, RemoveRedis, DiskFile, CoreInv, TypeFacts, TypeOK,
         IdsHandedOut, Ids
<1>4. IdsDistinct'
  BY <1>1
     DEF GetReadError, RemoveRedis, DiskFile, CoreInv, TypeFacts, TypeOK,
         IdsDistinct
<1>5. RemovalsUnused'
  BY <1>1
     DEF GetReadError, RemoveRedis, DiskFile, CoreInv, TypeFacts, TypeOK,
         RemovalsUnused, IdsHandedOut, IdsDistinct, SpillOwnsId, Unused,
         Spilling
<1>6. SpillOwnsId'
  BY <1>1
     DEF GetReadError, RemoveRedis, DiskFile, CoreInv, TypeFacts, TypeOK,
         SpillOwnsId
<1>7. ReadingIsStable'
  BY <1>1
     DEF GetReadError, RemoveRedis, DiskFile, CoreInv, TypeFacts, TypeOK,
         ReadingIsStable, Spilling
<1>8. FilesNotWrong'
  BY <1>1
     DEF GetReadError, RemoveRedis, DiskFile, CoreInv, TypeFacts, TypeOK,
         FilesNotWrong
<1>9. GetReturnsWrittenValue'
  BY <1>1
     DEF GetReadError, RemoveRedis, DiskFile, CoreInv, TypeFacts, TypeOK,
         GetReturnsWrittenValue
<1>10. BlobIsItsDigest' /\ OpeningIsStable' /\ DiskBlobIsServed'
  BY DEF GetReadError, RemoveRedis, DiskFile, CoreInv, BlobIsItsDigest, OpeningIsStable,
         DiskBlobIsServed
<1> QED
  BY <1>2, <1>3, <1>4, <1>5, <1>6, <1>7, <1>8, <1>9, <1>10 DEF CoreInv

\* The answer is sent.
LEMMA GetReplyCore ==
  ASSUME CoreInv, NEW c \in Conns, GetReply(c)
  PROVE  CoreInv'
<1>1. TypeFacts
  BY TypeOKFacts DEF CoreInv
<1>2. TypeOK'
  BY <1>1
     DEF GetReply, CoreInv, TypeFacts, TypeOK, ConnState
<1>3. IdsHandedOut'
  BY <1>1, MaxIdAssumption
     DEF GetReply, CoreInv, TypeFacts, TypeOK, IdsHandedOut, Ids
<1>4. RemovalsUnused'
  BY <1>1
     DEF GetReply, CoreInv, TypeFacts, TypeOK, RemovalsUnused, Unused, Spilling
<1>5. ReadingIsStable'
  BY <1>1
     DEF GetReply, CoreInv, TypeFacts, TypeOK, ReadingIsStable, Spilling
<1>6. GetReturnsWrittenValue'
  BY <1>1
     DEF GetReply, CoreInv, TypeFacts, TypeOK, GetReturnsWrittenValue
<1>7. IdsDistinct' /\ BlobIsItsDigest' /\ SpillOwnsId' /\ OpeningIsStable' /\
      FilesNotWrong' /\ DiskBlobIsServed'
  BY DEF GetReply, CoreInv, IdsDistinct, BlobIsItsDigest, SpillOwnsId, OpeningIsStable,
         FilesNotWrong, DiskBlobIsServed
<1> QED
  BY <1>2, <1>3, <1>4, <1>5, <1>6, <1>7 DEF CoreInv

\* A SET takes a fresh id and unlinks the file of the entry it replaces.
LEMMA SetCore ==
  ASSUME CoreInv, NEW c \in Conns, NEW k \in Keys, NEW v \in Values, Set(c, k, v)
  PROVE  CoreInv'
<1>1. TypeFacts
  BY TypeOKFacts DEF CoreInv
<1>2. TypeOK'
  <2>1. nextId \in Ids /\ nextId' \in 0 .. MaxId
    BY MaxIdAssumption DEF Set, InsertRedis, CoreInv, TypeOK, Ids
  <2>2. entries' \in [Keys -> RedisEntry]
    BY <1>1, <2>1 DEF Set, InsertRedis, CoreInv, TypeFacts, TypeOK, RedisEntry
  <2>3. unlinks' \in SUBSET Ids
    BY <1>1 DEF Set, InsertRedis, DiskFile, CoreInv, TypeFacts, TypeOK
  <2>4. written' \in [Keys -> SUBSET Values]
    BY DEF Set, CoreInv, TypeOK
  <2> QED
    BY <2>1, <2>2, <2>3, <2>4 DEF Set, InsertRedis, CoreInv, TypeOK
<1>3. IdsHandedOut'
  BY <1>1, MaxIdAssumption
     DEF Set, InsertRedis, DiskFile, CoreInv, TypeFacts, TypeOK, IdsHandedOut,
         Ids
<1>4. IdsDistinct'
  BY <1>1
     DEF Set, InsertRedis, DiskFile, CoreInv, TypeFacts, TypeOK, IdsDistinct,
         IdsHandedOut, SpillOwnsId
<1>5. RemovalsUnused'
  BY <1>1
     DEF Set, InsertRedis, DiskFile, CoreInv, TypeFacts, TypeOK, RemovalsUnused,
         IdsHandedOut, IdsDistinct, SpillOwnsId, Unused, Spilling
<1>6. SpillOwnsId'
  BY <1>1
     DEF Set, InsertRedis, DiskFile, CoreInv, TypeFacts, TypeOK, SpillOwnsId,
         IdsHandedOut, IdsDistinct, GetReturnsWrittenValue
<1>7. ReadingIsStable'
  BY <1>1
     DEF Set, InsertRedis, DiskFile, CoreInv, TypeFacts, TypeOK, ReadingIsStable,
         IdsHandedOut, IdsDistinct, FilesNotWrong, GetReturnsWrittenValue,
         RemovalsUnused, SpillOwnsId, Spilling, Unused
<1>8. FilesNotWrong'
  BY <1>1
     DEF Set, InsertRedis, DiskFile, CoreInv, TypeFacts, TypeOK, FilesNotWrong
<1>9. GetReturnsWrittenValue'
  BY <1>1
     DEF Set, InsertRedis, DiskFile, CoreInv, TypeFacts, TypeOK,
         GetReturnsWrittenValue
<1>10. BlobIsItsDigest' /\ OpeningIsStable' /\ DiskBlobIsServed'
  BY DEF Set, InsertRedis, DiskFile, CoreInv, BlobIsItsDigest, OpeningIsStable, DiskBlobIsServed
<1> QED
  BY <1>2, <1>3, <1>4, <1>5, <1>6, <1>7, <1>8, <1>9, <1>10 DEF CoreInv

\* A DEL unlinks the file of the entry it removes.
LEMMA DelCore ==
  ASSUME CoreInv, NEW c \in Conns, NEW k \in Keys, Del(c, k)
  PROVE  CoreInv'
<1>1. TypeFacts
  BY TypeOKFacts DEF CoreInv
<1>2. TypeOK'
  BY <1>1
     DEF Del, RemoveRedis, DiskFile, CoreInv, TypeFacts, TypeOK, RedisEntry
<1>3. IdsHandedOut'
  BY <1>1, MaxIdAssumption
     DEF Del, RemoveRedis, DiskFile, CoreInv, TypeFacts, TypeOK, IdsHandedOut,
         Ids
<1>4. IdsDistinct'
  BY <1>1
     DEF Del, RemoveRedis, DiskFile, CoreInv, TypeFacts, TypeOK, IdsDistinct
<1>5. RemovalsUnused'
  BY <1>1
     DEF Del, RemoveRedis, DiskFile, CoreInv, TypeFacts, TypeOK, RemovalsUnused,
         IdsHandedOut, IdsDistinct, SpillOwnsId, Unused, Spilling
<1>6. SpillOwnsId'
  BY <1>1
     DEF Del, RemoveRedis, DiskFile, CoreInv, TypeFacts, TypeOK, SpillOwnsId
<1>7. ReadingIsStable'
  BY <1>1
     DEF Del, RemoveRedis, DiskFile, CoreInv, TypeFacts, TypeOK, ReadingIsStable,
         Spilling
<1>8. FilesNotWrong'
  BY <1>1
     DEF Del, RemoveRedis, DiskFile, CoreInv, TypeFacts, TypeOK, FilesNotWrong
<1>9. GetReturnsWrittenValue'
  BY <1>1
     DEF Del, RemoveRedis, DiskFile, CoreInv, TypeFacts, TypeOK,
         GetReturnsWrittenValue
<1>10. BlobIsItsDigest' /\ OpeningIsStable' /\ DiskBlobIsServed'
  BY DEF Del, RemoveRedis, DiskFile, CoreInv, BlobIsItsDigest, OpeningIsStable, DiskBlobIsServed
<1> QED
  BY <1>2, <1>3, <1>4, <1>5, <1>6, <1>7, <1>8, <1>9, <1>10 DEF CoreInv

\* A FLUSH starts with nothing collected.
LEMMA FlushStartCore ==
  ASSUME CoreInv, NEW c \in Conns, FlushStart(c)
  PROVE  CoreInv'
<1>1. TypeFacts
  BY TypeOKFacts DEF CoreInv
<1>2. TypeOK'
  BY <1>1
     DEF FlushStart, CoreInv, TypeFacts, TypeOK, ConnState
<1>3. IdsHandedOut'
  BY <1>1, MaxIdAssumption
     DEF FlushStart, CoreInv, TypeFacts, TypeOK, IdsHandedOut, Ids
<1>4. RemovalsUnused'
  BY <1>1
     DEF FlushStart, CoreInv, TypeFacts, TypeOK, RemovalsUnused, Unused, Spilling
<1>5. ReadingIsStable'
  BY <1>1
     DEF FlushStart, CoreInv, TypeFacts, TypeOK, ReadingIsStable, Spilling
<1>6. GetReturnsWrittenValue'
  BY <1>1
     DEF FlushStart, CoreInv, TypeFacts, TypeOK, GetReturnsWrittenValue
<1>7. IdsDistinct' /\ BlobIsItsDigest' /\ SpillOwnsId' /\ OpeningIsStable' /\
      FilesNotWrong' /\ DiskBlobIsServed'
  BY DEF FlushStart, CoreInv, IdsDistinct, BlobIsItsDigest, SpillOwnsId, OpeningIsStable,
         FilesNotWrong, DiskBlobIsServed
<1> QED
  BY <1>2, <1>3, <1>4, <1>5, <1>6, <1>7 DEF CoreInv

\* A FLUSH collects the file of an entry it removes.
LEMMA FlushKeyCore ==
  ASSUME CoreInv, NEW c \in Conns, NEW k \in Keys, FlushKey(c, k)
  PROVE  CoreInv'
<1>1. TypeFacts
  BY TypeOKFacts DEF CoreInv
<1>2. TypeOK'
  BY <1>1
     DEF FlushKey, DiskFile, CoreInv, TypeFacts, TypeOK, RedisEntry, ConnState
<1>3. IdsHandedOut'
  BY <1>1, MaxIdAssumption
     DEF FlushKey, DiskFile, CoreInv, TypeFacts, TypeOK, IdsHandedOut, Ids
<1>4. IdsDistinct'
  BY <1>1
     DEF FlushKey, DiskFile, CoreInv, TypeFacts, TypeOK, IdsDistinct
<1>5. RemovalsUnused'
  BY <1>1
     DEF FlushKey, DiskFile, CoreInv, TypeFacts, TypeOK, RemovalsUnused,
         IdsHandedOut, IdsDistinct, SpillOwnsId, Unused, Spilling
<1>6. SpillOwnsId'
  BY <1>1
     DEF FlushKey, DiskFile, CoreInv, TypeFacts, TypeOK, SpillOwnsId
<1>7. ReadingIsStable'
  BY <1>1
     DEF FlushKey, DiskFile, CoreInv, TypeFacts, TypeOK, ReadingIsStable,
         Spilling
<1>8. FilesNotWrong'
  BY <1>1
     DEF FlushKey, DiskFile, CoreInv, TypeFacts, TypeOK, FilesNotWrong
<1>9. GetReturnsWrittenValue'
  BY <1>1
     DEF FlushKey, DiskFile, CoreInv, TypeFacts, TypeOK, GetReturnsWrittenValue
<1>10. BlobIsItsDigest' /\ OpeningIsStable' /\ DiskBlobIsServed'
  BY DEF FlushKey, DiskFile, CoreInv, BlobIsItsDigest, OpeningIsStable, DiskBlobIsServed
<1> QED
  BY <1>2, <1>3, <1>4, <1>5, <1>6, <1>7, <1>8, <1>9, <1>10 DEF CoreInv

\* A FLUSH hands the collected files to unlink tasks.
LEMMA FlushEndCore ==
  ASSUME CoreInv, NEW c \in Conns, FlushEnd(c)
  PROVE  CoreInv'
<1>1. TypeFacts
  BY TypeOKFacts DEF CoreInv
<1>2. TypeOK'
  BY <1>1
     DEF FlushEnd, CoreInv, TypeFacts, TypeOK, ConnState
<1>3. IdsHandedOut'
  BY <1>1, MaxIdAssumption
     DEF FlushEnd, CoreInv, TypeFacts, TypeOK, IdsHandedOut, Ids
<1>4. RemovalsUnused'
  BY <1>1
     DEF FlushEnd, CoreInv, TypeFacts, TypeOK, RemovalsUnused, Unused, Spilling
<1>5. ReadingIsStable'
  BY <1>1
     DEF FlushEnd, CoreInv, TypeFacts, TypeOK, ReadingIsStable, Spilling
<1>6. GetReturnsWrittenValue'
  BY <1>1
     DEF FlushEnd, CoreInv, TypeFacts, TypeOK, GetReturnsWrittenValue
<1>7. IdsDistinct' /\ BlobIsItsDigest' /\ SpillOwnsId' /\ OpeningIsStable' /\
      FilesNotWrong' /\ DiskBlobIsServed'
  BY DEF FlushEnd, CoreInv, IdsDistinct, BlobIsItsDigest, SpillOwnsId, OpeningIsStable,
         FilesNotWrong, DiskBlobIsServed
<1> QED
  BY <1>2, <1>3, <1>4, <1>5, <1>6, <1>7 DEF CoreInv

-----------------------------------------------------------------------------
(***************************************************************************)
(* Unlink tasks and Docker requests.                                       *)
(***************************************************************************)
\* An unlink task removes a file that is out of use.
LEMMA UnlinkCore ==
  ASSUME CoreInv, NEW i \in unlinks, Unlink(i)
  PROVE  CoreInv'
<1>1. TypeFacts
  BY TypeOKFacts DEF CoreInv
<1>2. TypeOK'
  BY <1>1
     DEF Unlink, CoreInv, TypeFacts, TypeOK, Content
<1>3. IdsHandedOut'
  BY <1>1, MaxIdAssumption
     DEF Unlink, CoreInv, TypeFacts, TypeOK, IdsHandedOut, Ids
<1>4. RemovalsUnused'
  BY <1>1
     DEF Unlink, CoreInv, TypeFacts, TypeOK, RemovalsUnused, Unused, Spilling
<1>5. ReadingIsStable'
  BY <1>1
     DEF Unlink, CoreInv, TypeFacts, TypeOK, ReadingIsStable, Spilling
<1>6. FilesNotWrong'
  BY <1>1
     DEF Unlink, CoreInv, TypeFacts, TypeOK, FilesNotWrong, IdsHandedOut,
         IdsDistinct, RemovalsUnused, SpillOwnsId, Unused, Spilling
<1>7. IdsDistinct' /\ BlobIsItsDigest' /\ SpillOwnsId' /\ OpeningIsStable' /\
      GetReturnsWrittenValue' /\ DiskBlobIsServed'
  BY DEF Unlink, CoreInv, IdsDistinct, BlobIsItsDigest, SpillOwnsId, OpeningIsStable,
         GetReturnsWrittenValue, DiskBlobIsServed
<1> QED
  BY <1>2, <1>3, <1>4, <1>5, <1>6, <1>7 DEF CoreInv

\* insert_blob takes a fresh id.
LEMMA InsertBlobCore ==
  ASSUME CoreInv, NEW d \in Digests, InsertBlob(d)
  PROVE  CoreInv'
<1>1. TypeFacts
  BY TypeOKFacts DEF CoreInv
<1>2. TypeOK'
  BY <1>1, MaxIdAssumption
     DEF InsertBlob, CoreInv, TypeFacts, TypeOK, Ids, Blob
<1>3. IdsHandedOut'
  BY <1>1, MaxIdAssumption
     DEF InsertBlob, CoreInv, TypeFacts, TypeOK, IdsHandedOut, Ids
<1>4. IdsDistinct'
  BY <1>1
     DEF InsertBlob, CoreInv, TypeFacts, TypeOK, IdsDistinct, IdsHandedOut,
         SpillOwnsId
<1>5. BlobIsItsDigest'
  BY <1>1
     DEF InsertBlob, CoreInv, TypeFacts, TypeOK, BlobIsItsDigest
<1>6. RemovalsUnused'
  BY <1>1
     DEF InsertBlob, CoreInv, TypeFacts, TypeOK, RemovalsUnused, IdsHandedOut,
         IdsDistinct, SpillOwnsId, Unused, Spilling
<1>7. SpillOwnsId'
  BY <1>1
     DEF InsertBlob, CoreInv, TypeFacts, TypeOK, SpillOwnsId, IdsHandedOut,
         IdsDistinct, GetReturnsWrittenValue
<1>8. ReadingIsStable'
  BY <1>1
     DEF InsertBlob, CoreInv, TypeFacts, TypeOK, ReadingIsStable, IdsHandedOut,
         IdsDistinct, FilesNotWrong, GetReturnsWrittenValue, RemovalsUnused,
         SpillOwnsId, Spilling, Unused
<1>9. OpeningIsStable'
  BY <1>1
     DEF InsertBlob, CoreInv, TypeFacts, TypeOK, OpeningIsStable, Locked
<1>10. FilesNotWrong'
  BY <1>1
     DEF InsertBlob, CoreInv, TypeFacts, TypeOK, FilesNotWrong
<1>11. GetReturnsWrittenValue' /\ DiskBlobIsServed'
  BY DEF InsertBlob, CoreInv, GetReturnsWrittenValue, DiskBlobIsServed
<1> QED
  BY <1>2, <1>3, <1>4, <1>5, <1>6, <1>7, <1>8, <1>9, <1>10, <1>11 DEF CoreInv

\* A blob GET is served from memory.
LEMMA BlobHitMemCore ==
  ASSUME CoreInv, NEW r \in Readers, NEW d \in Digests, BlobHitMem(r, d)
  PROVE  CoreInv'
<1>1. TypeFacts
  BY TypeOKFacts DEF CoreInv
<1>2. TypeOK'
  BY <1>1
     DEF BlobHitMem, CoreInv, TypeFacts, TypeOK, ReaderState, Content
<1>3. OpeningIsStable'
  BY <1>1
     DEF BlobHitMem, CoreInv, TypeFacts, TypeOK, OpeningIsStable
<1>4. DiskBlobIsServed'
  BY <1>1, ContentAssumption
     DEF BlobHitMem, CoreInv, TypeFacts, TypeOK, DiskBlobIsServed,
         OpeningIsStable, FilesNotWrong, BlobIsItsDigest
<1>5. IdsHandedOut' /\ IdsDistinct' /\ BlobIsItsDigest' /\ RemovalsUnused' /\ SpillOwnsId'
      /\ ReadingIsStable' /\ FilesNotWrong' /\ GetReturnsWrittenValue'
  BY DEF BlobHitMem, CoreInv, IdsHandedOut, IdsDistinct, BlobIsItsDigest, RemovalsUnused,
         SpillOwnsId, ReadingIsStable, FilesNotWrong, GetReturnsWrittenValue, Unused,
         Spilling
<1> QED
  BY <1>2, <1>3, <1>4, <1>5 DEF CoreInv

\* A blob GET takes the guard of its OnDisk blob.
LEMMA BlobHitDiskCore ==
  ASSUME CoreInv, NEW r \in Readers, NEW d \in Digests, BlobHitDisk(r, d)
  PROVE  CoreInv'
<1>1. TypeFacts
  BY TypeOKFacts DEF CoreInv
<1>2. TypeOK'
  BY <1>1
     DEF BlobHitDisk, CoreInv, TypeFacts, TypeOK, ReaderState, Content
<1>3. OpeningIsStable'
  BY <1>1
     DEF BlobHitDisk, CoreInv, TypeFacts, TypeOK, OpeningIsStable
<1>4. DiskBlobIsServed'
  BY <1>1, ContentAssumption
     DEF BlobHitDisk, CoreInv, TypeFacts, TypeOK, DiskBlobIsServed
<1>5. IdsHandedOut' /\ IdsDistinct' /\ BlobIsItsDigest' /\ RemovalsUnused' /\ SpillOwnsId'
      /\ ReadingIsStable' /\ FilesNotWrong' /\ GetReturnsWrittenValue'
  BY DEF BlobHitDisk, CoreInv, IdsHandedOut, IdsDistinct, BlobIsItsDigest, RemovalsUnused,
         SpillOwnsId, ReadingIsStable, FilesNotWrong, GetReturnsWrittenValue, Unused,
         Spilling
<1> QED
  BY <1>2, <1>3, <1>4, <1>5 DEF CoreInv

\* The file it opens is complete, because the guard kept the blob as it was.
LEMMA BlobOpenCore ==
  ASSUME CoreInv, NEW r \in Readers, BlobOpen(r)
  PROVE  CoreInv'
<1>1. TypeFacts
  BY TypeOKFacts DEF CoreInv
<1>2. TypeOK'
  BY <1>1
     DEF BlobOpen, CoreInv, TypeFacts, TypeOK, ReaderState, Content
<1>3. OpeningIsStable'
  BY <1>1
     DEF BlobOpen, CoreInv, TypeFacts, TypeOK, OpeningIsStable
<1>4. DiskBlobIsServed'
  <2>1. files[readers[r].id] = readers[r].digest
    BY <1>1 DEF BlobOpen, CoreInv, TypeFacts, OpeningIsStable, FilesNotWrong
  <2>2. files[readers[r].id] # NoFile
    BY <1>1, <2>1, ContentAssumption DEF BlobOpen, TypeFacts
  <2> QED
    BY <2>1, <2>2 DEF BlobOpen, CoreInv, TypeOK, DiskBlobIsServed
<1>5. IdsHandedOut' /\ IdsDistinct' /\ BlobIsItsDigest' /\ RemovalsUnused' /\ SpillOwnsId'
      /\ ReadingIsStable' /\ FilesNotWrong' /\ GetReturnsWrittenValue'
  BY DEF BlobOpen, CoreInv, IdsHandedOut, IdsDistinct, BlobIsItsDigest, RemovalsUnused,
         SpillOwnsId, ReadingIsStable, FilesNotWrong, GetReturnsWrittenValue, Unused,
         Spilling
<1> QED
  BY <1>2, <1>3, <1>4, <1>5 DEF CoreInv

\* The blob has been served.
LEMMA BlobServedCore ==
  ASSUME CoreInv, NEW r \in Readers, BlobServed(r)
  PROVE  CoreInv'
<1>1. TypeFacts
  BY TypeOKFacts DEF CoreInv
<1>2. TypeOK'
  BY <1>1
     DEF BlobServed, CoreInv, TypeFacts, TypeOK, ReaderState, Content
<1>3. OpeningIsStable'
  BY <1>1
     DEF BlobServed, CoreInv, TypeFacts, TypeOK, OpeningIsStable
<1>4. DiskBlobIsServed'
  BY <1>1, ContentAssumption
     DEF BlobServed, CoreInv, TypeFacts, TypeOK, DiskBlobIsServed
<1>5. IdsHandedOut' /\ IdsDistinct' /\ BlobIsItsDigest' /\ RemovalsUnused' /\ SpillOwnsId'
      /\ ReadingIsStable' /\ FilesNotWrong' /\ GetReturnsWrittenValue'
  BY DEF BlobServed, CoreInv, IdsHandedOut, IdsDistinct, BlobIsItsDigest, RemovalsUnused,
         SpillOwnsId, ReadingIsStable, FilesNotWrong, GetReturnsWrittenValue, Unused,
         Spilling
<1> QED
  BY <1>2, <1>3, <1>4, <1>5 DEF CoreInv

-----------------------------------------------------------------------------
(***************************************************************************)
(* The eviction task.                                                      *)
(***************************************************************************)
\* A spill starts to write a file that no OnDisk entry uses.
LEMMA SpillRedisStartCore ==
  ASSUME CoreInv, NEW k \in Keys, SpillRedisStart(k)
  PROVE  CoreInv'
<1>1. TypeFacts
  BY TypeOKFacts DEF CoreInv
<1>2. TypeOK'
  BY <1>1
     DEF SpillRedisStart, CoreInv, TypeFacts, TypeOK, Content, EvictorState
<1>3. IdsHandedOut'
  BY <1>1, MaxIdAssumption
     DEF SpillRedisStart, CoreInv, TypeFacts, TypeOK, IdsHandedOut, Ids
<1>4. RemovalsUnused'
  BY <1>1
     DEF SpillRedisStart, CoreInv, TypeFacts, TypeOK, RemovalsUnused, Unused,
         Spilling
<1>5. SpillOwnsId'
  BY <1>1
     DEF SpillRedisStart, CoreInv, TypeFacts, TypeOK, SpillOwnsId, IdsHandedOut,
         IdsDistinct, GetReturnsWrittenValue
<1>6. ReadingIsStable'
  BY <1>1
     DEF SpillRedisStart, CoreInv, TypeFacts, TypeOK, ReadingIsStable, Spilling
<1>7. FilesNotWrong'
  BY <1>1
     DEF SpillRedisStart, CoreInv, TypeFacts, TypeOK, FilesNotWrong,
         IdsHandedOut, IdsDistinct, RemovalsUnused, SpillOwnsId, Unused,
         Spilling
<1>8. IdsDistinct' /\ BlobIsItsDigest' /\ OpeningIsStable' /\ GetReturnsWrittenValue' /\
      DiskBlobIsServed'
  BY DEF SpillRedisStart, CoreInv, IdsDistinct, BlobIsItsDigest, OpeningIsStable,
         GetReturnsWrittenValue, DiskBlobIsServed
<1> QED
  BY <1>2, <1>3, <1>4, <1>5, <1>6, <1>7, <1>8 DEF CoreInv

\* A finished spill may overwrite a newer entry, but never an OnDisk one.
LEMMA SpillRedisFinishCore ==
  ASSUME CoreInv, SpillRedisFinish
  PROVE  CoreInv'
<1>1. TypeFacts
  BY TypeOKFacts DEF CoreInv
<1>2. TypeOK'
  BY <1>1
     DEF SpillRedisFinish, CoreInv, TypeFacts, TypeOK, RedisEntry, Content,
         EvictorState
<1>3. IdsHandedOut'
  BY <1>1, MaxIdAssumption
     DEF SpillRedisFinish, CoreInv, TypeFacts, TypeOK, IdsHandedOut, Ids
<1>4. IdsDistinct'
  BY <1>1
     DEF SpillRedisFinish, CoreInv, TypeFacts, TypeOK, IdsDistinct, IdsHandedOut,
         SpillOwnsId
<1>5. RemovalsUnused'
  BY <1>1
     DEF SpillRedisFinish, CoreInv, TypeFacts, TypeOK, RemovalsUnused, Unused,
         Spilling
<1>6. SpillOwnsId'
  BY <1>1
     DEF SpillRedisFinish, CoreInv, TypeFacts, TypeOK, SpillOwnsId
<1>7. ReadingIsStable'
  BY <1>1
     DEF SpillRedisFinish, CoreInv, TypeFacts, TypeOK, ReadingIsStable, Spilling
<1>8. FilesNotWrong'
  BY <1>1
     DEF SpillRedisFinish, CoreInv, TypeFacts, TypeOK, FilesNotWrong,
         IdsHandedOut, IdsDistinct, RemovalsUnused, SpillOwnsId, Unused,
         Spilling
<1>9. GetReturnsWrittenValue'
  BY <1>1
     DEF SpillRedisFinish, CoreInv, TypeFacts, TypeOK, GetReturnsWrittenValue,
         ReadingIsStable, SpillOwnsId, FilesNotWrong, Spilling
<1>10. BlobIsItsDigest' /\ OpeningIsStable' /\ DiskBlobIsServed'
  BY DEF SpillRedisFinish, CoreInv, BlobIsItsDigest, OpeningIsStable, DiskBlobIsServed
<1> QED
  BY <1>2, <1>3, <1>4, <1>5, <1>6, <1>7, <1>8, <1>9, <1>10 DEF CoreInv

\* The evictor drops a redis entry as DEL does.
LEMMA DropRedisCore ==
  ASSUME CoreInv, NEW k \in Keys, DropRedis(k)
  PROVE  CoreInv'
<1>1. TypeFacts
  BY TypeOKFacts DEF CoreInv
<1>2. TypeOK'
  BY <1>1
     DEF DropRedis, RemoveRedis, DiskFile, CoreInv, TypeFacts, TypeOK, RedisEntry
<1>3. IdsHandedOut'
  BY <1>1, MaxIdAssumption
     DEF DropRedis, RemoveRedis, DiskFile, CoreInv, TypeFacts, TypeOK,
         IdsHandedOut, Ids
<1>4. IdsDistinct'
  BY <1>1
     DEF DropRedis, RemoveRedis, DiskFile, CoreInv, TypeFacts, TypeOK,
         IdsDistinct
<1>5. RemovalsUnused'
  BY <1>1
     DEF DropRedis, RemoveRedis, DiskFile, CoreInv, TypeFacts, TypeOK,
         RemovalsUnused, IdsHandedOut, IdsDistinct, SpillOwnsId, Unused,
         Spilling
<1>6. SpillOwnsId'
  BY <1>1
     DEF DropRedis, RemoveRedis, DiskFile, CoreInv, TypeFacts, TypeOK,
         SpillOwnsId
<1>7. ReadingIsStable'
  BY <1>1
     DEF DropRedis, RemoveRedis, DiskFile, CoreInv, TypeFacts, TypeOK,
         ReadingIsStable, Spilling
<1>8. FilesNotWrong'
  BY <1>1
     DEF DropRedis, RemoveRedis, DiskFile, CoreInv, TypeFacts, TypeOK,
         FilesNotWrong
<1>9. GetReturnsWrittenValue'
  BY <1>1
     DEF DropRedis, RemoveRedis, DiskFile, CoreInv, TypeFacts, TypeOK,
         GetReturnsWrittenValue
<1>10. BlobIsItsDigest' /\ OpeningIsStable' /\ DiskBlobIsServed'
  BY DEF DropRedis, RemoveRedis, DiskFile, CoreInv, BlobIsItsDigest, OpeningIsStable,
         DiskBlobIsServed
<1> QED
  BY <1>2, <1>3, <1>4, <1>5, <1>6, <1>7, <1>8, <1>9, <1>10 DEF CoreInv

\* A blob spill starts to write a file that nobody else uses.
LEMMA SpillBlobStartCore ==
  ASSUME CoreInv, NEW d \in Digests, SpillBlobStart(d)
  PROVE  CoreInv'
<1>1. TypeFacts
  BY TypeOKFacts DEF CoreInv
<1>2. TypeOK'
  BY <1>1
     DEF SpillBlobStart, CoreInv, TypeFacts, TypeOK, Content, EvictorState
<1>3. IdsHandedOut'
  BY <1>1, MaxIdAssumption
     DEF SpillBlobStart, CoreInv, TypeFacts, TypeOK, IdsHandedOut, Ids
<1>4. RemovalsUnused'
  BY <1>1
     DEF SpillBlobStart, CoreInv, TypeFacts, TypeOK, RemovalsUnused, Unused,
         Spilling
<1>5. SpillOwnsId'
  BY <1>1
     DEF SpillBlobStart, CoreInv, TypeFacts, TypeOK, SpillOwnsId, IdsHandedOut,
         IdsDistinct, GetReturnsWrittenValue
<1>6. ReadingIsStable'
  BY <1>1
     DEF SpillBlobStart, CoreInv, TypeFacts, TypeOK, ReadingIsStable, Spilling
<1>7. FilesNotWrong'
  BY <1>1
     DEF SpillBlobStart, CoreInv, TypeFacts, TypeOK, FilesNotWrong,
         IdsHandedOut, IdsDistinct, RemovalsUnused, SpillOwnsId, Unused,
         Spilling
<1>8. IdsDistinct' /\ BlobIsItsDigest' /\ OpeningIsStable' /\ GetReturnsWrittenValue' /\
      DiskBlobIsServed'
  BY DEF SpillBlobStart, CoreInv, IdsDistinct, BlobIsItsDigest, OpeningIsStable,
         GetReturnsWrittenValue, DiskBlobIsServed
<1> QED
  BY <1>2, <1>3, <1>4, <1>5, <1>6, <1>7, <1>8 DEF CoreInv

\* A finished blob spill replaces an InMemory blob.
LEMMA SpillBlobFinishCore ==
  ASSUME CoreInv, SpillBlobFinish
  PROVE  CoreInv'
<1>1. TypeFacts
  BY TypeOKFacts DEF CoreInv
<1>2. TypeOK'
  BY <1>1
     DEF SpillBlobFinish, CoreInv, TypeFacts, TypeOK, Blob, Content, EvictorState
<1>3. IdsHandedOut'
  BY <1>1, MaxIdAssumption
     DEF SpillBlobFinish, CoreInv, TypeFacts, TypeOK, IdsHandedOut, Ids
<1>4. IdsDistinct'
  BY <1>1
     DEF SpillBlobFinish, CoreInv, TypeFacts, TypeOK, IdsDistinct, IdsHandedOut,
         SpillOwnsId
<1>5. BlobIsItsDigest'
  BY <1>1
     DEF SpillBlobFinish, CoreInv, TypeFacts, TypeOK, BlobIsItsDigest
<1>6. RemovalsUnused'
  BY <1>1
     DEF SpillBlobFinish, CoreInv, TypeFacts, TypeOK, RemovalsUnused, Unused,
         Spilling
<1>7. SpillOwnsId'
  BY <1>1
     DEF SpillBlobFinish, CoreInv, TypeFacts, TypeOK, SpillOwnsId
<1>8. ReadingIsStable'
  BY <1>1
     DEF SpillBlobFinish, CoreInv, TypeFacts, TypeOK, ReadingIsStable, Spilling
<1>9. OpeningIsStable'
  BY <1>1
     DEF SpillBlobFinish, CoreInv, TypeFacts, TypeOK, OpeningIsStable, Locked
<1>10. FilesNotWrong'
  BY <1>1
     DEF SpillBlobFinish, CoreInv, TypeFacts, TypeOK, FilesNotWrong,
         IdsHandedOut, IdsDistinct, RemovalsUnused, SpillOwnsId, Unused,
         Spilling
<1>11. GetReturnsWrittenValue' /\ DiskBlobIsServed'
  BY DEF SpillBlobFinish, CoreInv, GetReturnsWrittenValue, DiskBlobIsServed
<1> QED
  BY <1>2, <1>3, <1>4, <1>5, <1>6, <1>7, <1>8, <1>9, <1>10, <1>11 DEF CoreInv

\* A failed write leaves its file behind; nothing refers to it.
LEMMA SpillFailCore ==
  ASSUME CoreInv, SpillFail
  PROVE  CoreInv'
<1>1. TypeFacts
  BY TypeOKFacts DEF CoreInv
<1>2. TypeOK'
  BY <1>1
     DEF SpillFail, CoreInv, TypeFacts, TypeOK, EvictorState
<1>3. IdsHandedOut'
  BY <1>1, MaxIdAssumption
     DEF SpillFail, CoreInv, TypeFacts, TypeOK, IdsHandedOut, Ids
<1>4. RemovalsUnused'
  BY <1>1
     DEF SpillFail, CoreInv, TypeFacts, TypeOK, RemovalsUnused, Unused, Spilling
<1>5. SpillOwnsId'
  BY <1>1
     DEF SpillFail, CoreInv, TypeFacts, TypeOK, SpillOwnsId
<1>6. ReadingIsStable'
  BY <1>1
     DEF SpillFail, CoreInv, TypeFacts, TypeOK, ReadingIsStable, Spilling
<1>7. IdsDistinct' /\ BlobIsItsDigest' /\ OpeningIsStable' /\ FilesNotWrong' /\
      GetReturnsWrittenValue' /\ DiskBlobIsServed'
  BY DEF SpillFail, CoreInv, IdsDistinct, BlobIsItsDigest, OpeningIsStable, FilesNotWrong,
         GetReturnsWrittenValue, DiskBlobIsServed
<1> QED
  BY <1>2, <1>3, <1>4, <1>5, <1>6, <1>7 DEF CoreInv

\* The evictor removes a blob from the map before it deletes the file.
LEMMA DropBlobCore ==
  ASSUME CoreInv, NEW d \in Digests, DropBlob(d)
  PROVE  CoreInv'
<1>1. TypeFacts
  BY TypeOKFacts DEF CoreInv
<1>2. TypeOK'
  BY <1>1
     DEF DropBlob, CoreInv, TypeFacts, TypeOK, Blob, EvictorState
<1>3. IdsHandedOut'
  BY <1>1, MaxIdAssumption
     DEF DropBlob, CoreInv, TypeFacts, TypeOK, IdsHandedOut, Ids
<1>4. IdsDistinct'
  BY <1>1
     DEF DropBlob, CoreInv, TypeFacts, TypeOK, IdsDistinct
<1>5. BlobIsItsDigest'
  BY <1>1
     DEF DropBlob, CoreInv, TypeFacts, TypeOK, BlobIsItsDigest
<1>6. RemovalsUnused'
  BY <1>1
     DEF DropBlob, CoreInv, TypeFacts, TypeOK, RemovalsUnused, IdsHandedOut,
         IdsDistinct, SpillOwnsId, Unused, Spilling
<1>7. SpillOwnsId'
  BY <1>1
     DEF DropBlob, CoreInv, TypeFacts, TypeOK, SpillOwnsId
<1>8. ReadingIsStable'
  BY <1>1
     DEF DropBlob, CoreInv, TypeFacts, TypeOK, ReadingIsStable, Spilling
<1>9. OpeningIsStable'
  BY <1>1
     DEF DropBlob, CoreInv, TypeFacts, TypeOK, OpeningIsStable, Locked
<1>10. FilesNotWrong'
  BY <1>1
     DEF DropBlob, CoreInv, TypeFacts, TypeOK, FilesNotWrong
<1>11. GetReturnsWrittenValue' /\ DiskBlobIsServed'
  BY DEF DropBlob, CoreInv, GetReturnsWrittenValue, DiskBlobIsServed
<1> QED
  BY <1>2, <1>3, <1>4, <1>5, <1>6, <1>7, <1>8, <1>9, <1>10, <1>11 DEF CoreInv

\* The file of a removed blob is deleted.
LEMMA DeleteBlobFileCore ==
  ASSUME CoreInv, DeleteBlobFile
  PROVE  CoreInv'
<1>1. TypeFacts
  BY TypeOKFacts DEF CoreInv
<1>2. TypeOK'
  BY <1>1
     DEF DeleteBlobFile, CoreInv, TypeFacts, TypeOK, Content, EvictorState
<1>3. IdsHandedOut'
  BY <1>1, MaxIdAssumption
     DEF DeleteBlobFile, CoreInv, TypeFacts, TypeOK, IdsHandedOut, Ids
<1>4. RemovalsUnused'
  BY <1>1
     DEF DeleteBlobFile, CoreInv, TypeFacts, TypeOK, RemovalsUnused, Unused,
         Spilling
<1>5. SpillOwnsId'
  BY <1>1
     DEF DeleteBlobFile, CoreInv, TypeFacts, TypeOK, SpillOwnsId
<1>6. ReadingIsStable'
  BY <1>1
     DEF DeleteBlobFile, CoreInv, TypeFacts, TypeOK, ReadingIsStable, Spilling
<1>7. FilesNotWrong'
  BY <1>1
     DEF DeleteBlobFile, CoreInv, TypeFacts, TypeOK, FilesNotWrong,
         IdsHandedOut, IdsDistinct, RemovalsUnused, SpillOwnsId, Unused,
         Spilling
<1>8. IdsDistinct' /\ BlobIsItsDigest' /\ OpeningIsStable' /\ GetReturnsWrittenValue' /\
      DiskBlobIsServed'
  BY DEF DeleteBlobFile, CoreInv, IdsDistinct, BlobIsItsDigest, OpeningIsStable,
         GetReturnsWrittenValue, DiskBlobIsServed
<1> QED
  BY <1>2, <1>3, <1>4, <1>5, <1>6, <1>7, <1>8 DEF CoreInv

-----------------------------------------------------------------------------
(***************************************************************************)
(* The files of a cache whose data folder was empty at first.              *)
(***************************************************************************)
\* Steps that leave the maps, the files and the pending removals alone.
LEMMA UntouchedFiles ==
  ASSUME IInv, UNCHANGED <<entries, blobs, files, nextId, unlinks>>,
         \A c \in Conns : conns[c].pc = "flushing" => conns'[c] = conns[c]
  PROVE  FilesInv'
BY DEF IInv, FilesInv, FreshIdsHaveNoFile, OnDiskIsBacked, NoLeakedRedisFile, RedisFileOwned

\* The file of the entry that a promotion replaces goes to an unlink task.
LEMMA GetPromoteFiles ==
  ASSUME IInv, NEW c \in Conns, GetPromote(c)
  PROVE  FilesInv'
<1>1. TypeFacts
  BY TypeOKFacts DEF IInv, CoreInv
<1>2. FreshIdsHaveNoFile'
  BY <1>1, MaxIdAssumption
     DEF GetPromote, InsertRedis, DiskFile, IInv, CoreInv, FilesInv, TypeFacts, TypeOK,
         FreshIdsHaveNoFile, Ids, IdsHandedOut
<1>3. OnDiskIsBacked'
  BY <1>1
     DEF GetPromote, InsertRedis, DiskFile, IInv, CoreInv, FilesInv, TypeFacts, TypeOK,
         OnDiskIsBacked
<1>4. NoLeakedRedisFile'
  BY <1>1, ContentAssumption
     DEF GetPromote, InsertRedis, DiskFile, IInv, CoreInv, FilesInv, TypeFacts, TypeOK,
         NoLeakedRedisFile, RedisFileOwned
<1> QED
  BY <1>2, <1>3, <1>4 DEF FilesInv

\* So does the file of an entry whose read failed.
LEMMA GetReadErrorFiles ==
  ASSUME IInv, NEW c \in Conns, GetReadError(c)
  PROVE  FilesInv'
<1>1. TypeFacts
  BY TypeOKFacts DEF IInv, CoreInv
<1>2. FreshIdsHaveNoFile'
  BY <1>1, MaxIdAssumption
     DEF GetReadError, RemoveRedis, DiskFile, IInv, CoreInv, FilesInv, TypeFacts, TypeOK,
         FreshIdsHaveNoFile, Ids, IdsHandedOut
<1>3. OnDiskIsBacked'
  BY <1>1
     DEF GetReadError, RemoveRedis, DiskFile, IInv, CoreInv, FilesInv, TypeFacts, TypeOK,
         OnDiskIsBacked
<1>4. NoLeakedRedisFile'
  BY <1>1, ContentAssumption
     DEF GetReadError, RemoveRedis, DiskFile, IInv, CoreInv, FilesInv, TypeFacts, TypeOK,
         NoLeakedRedisFile, RedisFileOwned
<1> QED
  BY <1>2, <1>3, <1>4 DEF FilesInv

\* So does the file of an entry that a SET replaces.
LEMMA SetFiles ==
  ASSUME IInv, NEW c \in Conns, NEW k \in Keys, NEW v \in Values, Set(c, k, v)
  PROVE  FilesInv'
<1>1. TypeFacts
  BY TypeOKFacts DEF IInv, CoreInv
<1>2. FreshIdsHaveNoFile'
  BY <1>1, MaxIdAssumption
     DEF Set, InsertRedis, DiskFile, IInv, CoreInv, FilesInv, TypeFacts, TypeOK,
         FreshIdsHaveNoFile, Ids, IdsHandedOut
<1>3. OnDiskIsBacked'
  BY <1>1
     DEF Set, InsertRedis, DiskFile, IInv, CoreInv, FilesInv, TypeFacts, TypeOK,
         OnDiskIsBacked
<1>4. NoLeakedRedisFile'
  BY <1>1, ContentAssumption
     DEF Set, InsertRedis, DiskFile, IInv, CoreInv, FilesInv, TypeFacts, TypeOK,
         NoLeakedRedisFile, RedisFileOwned
<1> QED
  BY <1>2, <1>3, <1>4 DEF FilesInv

\* So does the file of a deleted entry.
LEMMA DelFiles ==
  ASSUME IInv, NEW c \in Conns, NEW k \in Keys, Del(c, k)
  PROVE  FilesInv'
<1>1. TypeFacts
  BY TypeOKFacts DEF IInv, CoreInv
<1>2. FreshIdsHaveNoFile'
  BY <1>1, MaxIdAssumption
     DEF Del, RemoveRedis, DiskFile, IInv, CoreInv, FilesInv, TypeFacts, TypeOK,
         FreshIdsHaveNoFile, Ids, IdsHandedOut
<1>3. OnDiskIsBacked'
  BY <1>1
     DEF Del, RemoveRedis, DiskFile, IInv, CoreInv, FilesInv, TypeFacts, TypeOK,
         OnDiskIsBacked
<1>4. NoLeakedRedisFile'
  BY <1>1, ContentAssumption
     DEF Del, RemoveRedis, DiskFile, IInv, CoreInv, FilesInv, TypeFacts, TypeOK,
         NoLeakedRedisFile, RedisFileOwned
<1> QED
  BY <1>2, <1>3, <1>4 DEF FilesInv

\* A FLUSH keeps the ids of the files it is to remove in its own list.
LEMMA FlushKeyFiles ==
  ASSUME IInv, NEW c \in Conns, NEW k \in Keys, FlushKey(c, k)
  PROVE  FilesInv'
<1>1. TypeFacts
  BY TypeOKFacts DEF IInv, CoreInv
<1>2. FreshIdsHaveNoFile'
  BY <1>1, MaxIdAssumption
     DEF FlushKey, DiskFile, IInv, CoreInv, FilesInv, TypeFacts, TypeOK, FreshIdsHaveNoFile,
         Ids, IdsHandedOut
<1>3. OnDiskIsBacked'
  BY <1>1
     DEF FlushKey, DiskFile, IInv, CoreInv, FilesInv, TypeFacts, TypeOK, OnDiskIsBacked
<1>4. NoLeakedRedisFile'
  BY <1>1, ContentAssumption
     DEF FlushKey, DiskFile, IInv, CoreInv, FilesInv, TypeFacts, TypeOK, NoLeakedRedisFile,
         RedisFileOwned
<1> QED
  BY <1>2, <1>3, <1>4 DEF FilesInv

\* At its end the list becomes unlink tasks.
LEMMA FlushEndFiles ==
  ASSUME IInv, NEW c \in Conns, FlushEnd(c)
  PROVE  FilesInv'
<1>1. TypeFacts
  BY TypeOKFacts DEF IInv, CoreInv
<1>2. FreshIdsHaveNoFile'
  BY <1>1, MaxIdAssumption
     DEF FlushEnd, IInv, CoreInv, FilesInv, TypeFacts, TypeOK, FreshIdsHaveNoFile, Ids,
         IdsHandedOut
<1>3. OnDiskIsBacked'
  BY DEF FlushEnd, IInv, CoreInv, FilesInv, OnDiskIsBacked
<1>4. NoLeakedRedisFile'
  BY <1>1, ContentAssumption
     DEF FlushEnd, IInv, CoreInv, FilesInv, TypeFacts, TypeOK, NoLeakedRedisFile,
         RedisFileOwned
<1> QED
  BY <1>2, <1>3, <1>4 DEF FilesInv

\* An unlink task removes a file that nothing uses.
LEMMA UnlinkFiles ==
  ASSUME IInv, NEW i \in unlinks, Unlink(i)
  PROVE  FilesInv'
<1>1. TypeFacts
  BY TypeOKFacts DEF IInv, CoreInv
<1>2. FreshIdsHaveNoFile'
  BY <1>1, MaxIdAssumption
     DEF Unlink, IInv, CoreInv, FilesInv, TypeFacts, TypeOK, FreshIdsHaveNoFile, Ids,
         IdsHandedOut
<1>3. OnDiskIsBacked'
  BY <1>1
     DEF Unlink, IInv, CoreInv, FilesInv, TypeFacts, TypeOK, OnDiskIsBacked, IdsHandedOut,
         IdsDistinct, RemovalsUnused, SpillOwnsId, Unused, Spilling
<1>4. NoLeakedRedisFile'
  BY <1>1, ContentAssumption
     DEF Unlink, IInv, CoreInv, FilesInv, TypeFacts, TypeOK, NoLeakedRedisFile,
         RedisFileOwned, Content
<1> QED
  BY <1>2, <1>3, <1>4 DEF FilesInv

\* A blob that is inserted has no file yet.
LEMMA InsertBlobFiles ==
  ASSUME IInv, NEW d \in Digests, InsertBlob(d)
  PROVE  FilesInv'
<1>1. TypeFacts
  BY TypeOKFacts DEF IInv, CoreInv
<1>2. FreshIdsHaveNoFile'
  BY <1>1, MaxIdAssumption
     DEF InsertBlob, IInv, CoreInv, FilesInv, TypeFacts, TypeOK, FreshIdsHaveNoFile, Ids,
         IdsHandedOut
<1>3. OnDiskIsBacked'
  BY <1>1
     DEF InsertBlob, IInv, CoreInv, FilesInv, TypeFacts, TypeOK, OnDiskIsBacked
<1>4. NoLeakedRedisFile'
  BY DEF InsertBlob, IInv, CoreInv, FilesInv, NoLeakedRedisFile, RedisFileOwned
<1> QED
  BY <1>2, <1>3, <1>4 DEF FilesInv

\* A spill starts to write the file of an InMemory entry.
LEMMA SpillRedisStartFiles ==
  ASSUME IInv, NEW k \in Keys, SpillRedisStart(k)
  PROVE  FilesInv'
<1>1. TypeFacts
  BY TypeOKFacts DEF IInv, CoreInv
<1>2. FreshIdsHaveNoFile'
  BY <1>1, MaxIdAssumption
     DEF SpillRedisStart, IInv, CoreInv, FilesInv, TypeFacts, TypeOK, FreshIdsHaveNoFile,
         Ids, IdsHandedOut
<1>3. OnDiskIsBacked'
  BY <1>1
     DEF SpillRedisStart, IInv, CoreInv, FilesInv, TypeFacts, TypeOK, OnDiskIsBacked,
         IdsHandedOut, IdsDistinct, RemovalsUnused, SpillOwnsId, Unused, Spilling
<1>4. NoLeakedRedisFile'
  BY <1>1, ContentAssumption
     DEF SpillRedisStart, IInv, CoreInv, FilesInv, TypeFacts, TypeOK, NoLeakedRedisFile,
         RedisFileOwned, Content
<1> QED
  BY <1>2, <1>3, <1>4 DEF FilesInv

\* When it is written, the file is the value of the OnDisk entry.
LEMMA SpillRedisFinishFiles ==
  ASSUME IInv, SpillRedisFinish
  PROVE  FilesInv'
<1>1. TypeFacts
  BY TypeOKFacts DEF IInv, CoreInv
<1>2. FreshIdsHaveNoFile'
  BY <1>1, MaxIdAssumption
     DEF SpillRedisFinish, IInv, CoreInv, FilesInv, TypeFacts, TypeOK, FreshIdsHaveNoFile,
         Ids, IdsHandedOut
<1>3. OnDiskIsBacked'
  BY <1>1
     DEF SpillRedisFinish, IInv, CoreInv, FilesInv, TypeFacts, TypeOK, OnDiskIsBacked,
         IdsHandedOut, IdsDistinct, RemovalsUnused, SpillOwnsId, Unused, Spilling
<1>4. NoLeakedRedisFile'
  BY <1>1, ContentAssumption
     DEF SpillRedisFinish, IInv, CoreInv, FilesInv, TypeFacts, TypeOK, NoLeakedRedisFile,
         IdsHandedOut, IdsDistinct, SpillOwnsId, OnDiskIsBacked, RedisFileOwned, Content
<1> QED
  BY <1>2, <1>3, <1>4 DEF FilesInv

\* The file of a dropped entry goes to an unlink task.
LEMMA DropRedisFiles ==
  ASSUME IInv, NEW k \in Keys, DropRedis(k)
  PROVE  FilesInv'
<1>1. TypeFacts
  BY TypeOKFacts DEF IInv, CoreInv
<1>2. FreshIdsHaveNoFile'
  BY <1>1, MaxIdAssumption
     DEF DropRedis, RemoveRedis, DiskFile, IInv, CoreInv, FilesInv, TypeFacts, TypeOK,
         FreshIdsHaveNoFile, Ids, IdsHandedOut
<1>3. OnDiskIsBacked'
  BY <1>1
     DEF DropRedis, RemoveRedis, DiskFile, IInv, CoreInv, FilesInv, TypeFacts, TypeOK,
         OnDiskIsBacked
<1>4. NoLeakedRedisFile'
  BY <1>1, ContentAssumption
     DEF DropRedis, RemoveRedis, DiskFile, IInv, CoreInv, FilesInv, TypeFacts, TypeOK,
         NoLeakedRedisFile, RedisFileOwned
<1> QED
  BY <1>2, <1>3, <1>4 DEF FilesInv

\* A blob spill starts to write the file of an InMemory blob.
LEMMA SpillBlobStartFiles ==
  ASSUME IInv, NEW d \in Digests, SpillBlobStart(d)
  PROVE  FilesInv'
<1>1. TypeFacts
  BY TypeOKFacts DEF IInv, CoreInv
<1>2. FreshIdsHaveNoFile'
  BY <1>1, MaxIdAssumption
     DEF SpillBlobStart, IInv, CoreInv, FilesInv, TypeFacts, TypeOK, FreshIdsHaveNoFile,
         Ids, IdsHandedOut
<1>3. OnDiskIsBacked'
  BY <1>1
     DEF SpillBlobStart, IInv, CoreInv, FilesInv, TypeFacts, TypeOK, OnDiskIsBacked,
         IdsHandedOut, IdsDistinct, RemovalsUnused, SpillOwnsId, Unused, Spilling
<1>4. NoLeakedRedisFile'
  BY <1>1, ContentAssumption
     DEF SpillBlobStart, IInv, CoreInv, FilesInv, TypeFacts, TypeOK, NoLeakedRedisFile,
         RedisFileOwned, Content
<1> QED
  BY <1>2, <1>3, <1>4 DEF FilesInv

\* When it is written, the file is the content of the OnDisk blob.
LEMMA SpillBlobFinishFiles ==
  ASSUME IInv, SpillBlobFinish
  PROVE  FilesInv'
<1>1. TypeFacts
  BY TypeOKFacts DEF IInv, CoreInv
<1>2. FreshIdsHaveNoFile'
  BY <1>1, MaxIdAssumption
     DEF SpillBlobFinish, IInv, CoreInv, FilesInv, TypeFacts, TypeOK, FreshIdsHaveNoFile,
         Ids, IdsHandedOut
<1>3. OnDiskIsBacked'
  BY <1>1
     DEF SpillBlobFinish, IInv, CoreInv, FilesInv, TypeFacts, TypeOK, OnDiskIsBacked,
         IdsHandedOut, IdsDistinct, RemovalsUnused, SpillOwnsId, Unused, Spilling
<1>4. NoLeakedRedisFile'
  BY <1>1, ContentAssumption
     DEF SpillBlobFinish, IInv, CoreInv, FilesInv, TypeFacts, TypeOK, NoLeakedRedisFile,
         RedisFileOwned, Content
<1> QED
  BY <1>2, <1>3, <1>4 DEF FilesInv

\* The file of a dropped blob stays for the moment.
LEMMA DropBlobFiles ==
  ASSUME IInv, NEW d \in Digests, DropBlob(d)
  PROVE  FilesInv'
<1>1. TypeFacts
  BY TypeOKFacts DEF IInv, CoreInv
<1>2. FreshIdsHaveNoFile'
  BY <1>1, MaxIdAssumption
     DEF DropBlob, IInv, CoreInv, FilesInv, TypeFacts, TypeOK, FreshIdsHaveNoFile, Ids,
         IdsHandedOut
<1>3. OnDiskIsBacked'
  BY <1>1
     DEF DropBlob, IInv, CoreInv, FilesInv, TypeFacts, TypeOK, OnDiskIsBacked
<1>4. NoLeakedRedisFile'
  BY DEF DropBlob, IInv, CoreInv, FilesInv, NoLeakedRedisFile, RedisFileOwned
<1> QED
  BY <1>2, <1>3, <1>4 DEF FilesInv

\* Then it is deleted.
LEMMA DeleteBlobFileFiles ==
  ASSUME IInv, DeleteBlobFile
  PROVE  FilesInv'
<1>1. TypeFacts
  BY TypeOKFacts DEF IInv, CoreInv
<1>2. FreshIdsHaveNoFile'
  BY <1>1, MaxIdAssumption
     DEF DeleteBlobFile, IInv, CoreInv, FilesInv, TypeFacts, TypeOK, FreshIdsHaveNoFile,
         Ids, IdsHandedOut
<1>3. OnDiskIsBacked'
  BY <1>1
     DEF DeleteBlobFile, IInv, CoreInv, FilesInv, TypeFacts, TypeOK, OnDiskIsBacked,
         IdsHandedOut, IdsDistinct, RemovalsUnused, SpillOwnsId, Unused, Spilling
<1>4. NoLeakedRedisFile'
  BY <1>1, ContentAssumption
     DEF DeleteBlobFile, IInv, CoreInv, FilesInv, TypeFacts, TypeOK, NoLeakedRedisFile,
         RedisFileOwned, Content
<1> QED
  BY <1>2, <1>3, <1>4 DEF FilesInv

-----------------------------------------------------------------------------
(***************************************************************************)
(* The invariant and the theorems.                                         *)
(***************************************************************************)
\* Nothing is stored and no task is under way.
NothingInUse ==
  /\ \A k \in Keys : entries[k] = None
  /\ \A d \in Digests : blobs[d] = None
  /\ unlinks = {}
  /\ \A c \in Conns : conns[c] = Idle
  /\ \A r \in Readers : readers[r] = Idle
  /\ evictor = Idle

\* Such a state is fine, whatever files there are.
LEMMA NothingInUseCore == TypeOK /\ NothingInUse => CoreInv
<1> SUFFICES ASSUME TypeOK, NothingInUse PROVE CoreInv
  OBVIOUS
<1>1. IdsHandedOut /\ IdsDistinct /\ BlobIsItsDigest
  BY DEF NothingInUse, IdsHandedOut, IdsDistinct, BlobIsItsDigest
<1>2. RemovalsUnused /\ SpillOwnsId
  BY DEF NothingInUse, RemovalsUnused, SpillOwnsId
<1>3. ReadingIsStable /\ OpeningIsStable /\ DiskBlobIsServed
  BY DEF NothingInUse, ReadingIsStable, OpeningIsStable, DiskBlobIsServed
<1>4. FilesNotWrong /\ GetReturnsWrittenValue
  BY DEF NothingInUse, FilesNotWrong, GetReturnsWrittenValue
<1> QED
  BY <1>1, <1>2, <1>3, <1>4 DEF CoreInv

\* The empty cache satisfies the invariant.
LEMMA InitCore == Init => CoreInv
<1> SUFFICES ASSUME Init PROVE CoreInv
  OBVIOUS
<1>1. TypeOK
  BY MaxIdAssumption DEF Init, TypeOK, RedisEntry, Blob, Content, ConnState, ReaderState, EvictorState
<1>2. NothingInUse
  BY DEF Init, NothingInUse
<1> QED
  BY <1>1, <1>2, NothingInUseCore

\* And so does its data folder.
LEMMA InitIInv == Init => IInv
<1> SUFFICES ASSUME Init PROVE FilesInv
  BY InitCore DEF IInv
<1>1. FreshIdsHaveNoFile /\ OnDiskIsBacked
  BY DEF Init, FreshIdsHaveNoFile, OnDiskIsBacked
<1>2. NoLeakedRedisFile
  BY ContentAssumption DEF Init, NoLeakedRedisFile
<1> QED
  BY <1>1, <1>2 DEF FilesInv

\* A step of a redis connection preserves the core.
LEMMA ConnCore ==
  ASSUME CoreInv, NEW c \in Conns, Conn(c)
  PROVE  CoreInv'
<1>1. CASE \E k \in Keys : GetMiss(c, k) \/ GetHit(c, k) \/ GetOnDisk(c, k)
  BY <1>1, GetMissCore, GetHitCore, GetOnDiskCore
<1>2. CASE \E k \in Keys : Del(c, k) \/ FlushKey(c, k)
  BY <1>2, DelCore, FlushKeyCore
<1>3. CASE \E k \in Keys, v \in Values : Set(c, k, v)
  BY <1>3, SetCore
<1>4. CASE GetRead(c) \/ GetPromote(c) \/ GetReadError(c) \/ GetReply(c)
  BY <1>4, GetReadCore, GetPromoteCore, GetReadErrorCore, GetReplyCore
<1>5. CASE FlushStart(c) \/ FlushEnd(c)
  BY <1>5, FlushStartCore, FlushEndCore
<1> QED
  BY <1>1, <1>2, <1>3, <1>4, <1>5 DEF Conn

\* It does to the files what FilesInv allows.
LEMMA ConnFiles ==
  ASSUME IInv, NEW c \in Conns, Conn(c)
  PROVE  FilesInv'
<1>1. CASE \E k \in Keys : GetMiss(c, k) \/ GetHit(c, k) \/ GetOnDisk(c, k)
  BY <1>1, UntouchedFiles DEF GetMiss, GetHit, GetOnDisk, IInv, CoreInv, TypeOK
<1>2. CASE \E k \in Keys : Del(c, k) \/ FlushKey(c, k)
  BY <1>2, DelFiles, FlushKeyFiles
<1>3. CASE \E k \in Keys, v \in Values : Set(c, k, v)
  BY <1>3, SetFiles
<1>4. CASE GetPromote(c) \/ GetReadError(c) \/ FlushEnd(c)
  BY <1>4, GetPromoteFiles, GetReadErrorFiles, FlushEndFiles
<1>5. CASE GetRead(c) \/ GetReply(c) \/ FlushStart(c)
  BY <1>5, UntouchedFiles DEF GetRead, GetReply, FlushStart, IInv, CoreInv, TypeOK
<1> QED
  BY <1>1, <1>2, <1>3, <1>4, <1>5 DEF Conn

\* A step of a blob GET preserves the core.
LEMMA ReaderCore ==
  ASSUME CoreInv, NEW r \in Readers, Reader(r)
  PROVE  CoreInv'
BY BlobHitMemCore, BlobHitDiskCore, BlobOpenCore, BlobServedCore DEF Reader

\* A step of the eviction task preserves the core.
LEMMA EvictCore ==
  ASSUME CoreInv, Evict
  PROVE  CoreInv'
<1>1. CASE \E k \in Keys : SpillRedisStart(k) \/ DropRedis(k)
  BY <1>1, SpillRedisStartCore, DropRedisCore
<1>2. CASE \E d \in Digests : SpillBlobStart(d) \/ DropBlob(d)
  BY <1>2, SpillBlobStartCore, DropBlobCore
<1>3. CASE SpillRedisFinish \/ SpillBlobFinish \/ SpillFail \/ DeleteBlobFile
  BY <1>3, SpillRedisFinishCore, SpillBlobFinishCore, SpillFailCore, DeleteBlobFileCore
<1> QED
  BY <1>1, <1>2, <1>3 DEF Evict

\* It does to the files what FilesInv allows.
LEMMA EvictFiles ==
  ASSUME IInv, Evict
  PROVE  FilesInv'
<1>1. CASE \E k \in Keys : SpillRedisStart(k) \/ DropRedis(k)
  BY <1>1, SpillRedisStartFiles, DropRedisFiles
<1>2. CASE \E d \in Digests : SpillBlobStart(d) \/ DropBlob(d)
  BY <1>2, SpillBlobStartFiles, DropBlobFiles
<1>3. CASE SpillRedisFinish \/ SpillBlobFinish \/ DeleteBlobFile
  BY <1>3, SpillRedisFinishFiles, SpillBlobFinishFiles, DeleteBlobFileFiles
<1>4. CASE SpillFail
  BY <1>4, UntouchedFiles DEF SpillFail
<1> QED
  BY <1>1, <1>2, <1>3, <1>4 DEF Evict

\* The invariant only reads the state, so a stuttering step preserves it.
LEMMA StutterCore ==
  ASSUME CoreInv, UNCHANGED vars
  PROVE  CoreInv'
BY DEF CoreInv, vars, TypeOK, IdsHandedOut, IdsDistinct, BlobIsItsDigest, RemovalsUnused,
       Unused, Spilling, SpillOwnsId, ReadingIsStable, OpeningIsStable, FilesNotWrong,
       GetReturnsWrittenValue, DiskBlobIsServed

\* Every step of every task preserves the core, whatever files there are.
LEMMA NextCore == CoreInv /\ [Next]_vars => CoreInv'
<1> SUFFICES ASSUME CoreInv, [Next]_vars PROVE CoreInv'
  OBVIOUS
<1>1. CASE \E c \in Conns : Conn(c)
  BY <1>1, ConnCore
<1>2. CASE \E i \in unlinks : Unlink(i)
  BY <1>2, UnlinkCore
<1>3. CASE \E d \in Digests : InsertBlob(d)
  BY <1>3, InsertBlobCore
<1>4. CASE \E r \in Readers : Reader(r)
  BY <1>4, ReaderCore
<1>5. CASE Evict
  BY <1>5, EvictCore
<1>6. CASE UNCHANGED vars
  BY <1>6, StutterCore
<1> QED
  BY <1>1, <1>2, <1>3, <1>4, <1>5, <1>6 DEF Next

\* Every step of every task preserves the invariant.
LEMMA NextIInv == IInv /\ [Next]_vars => IInv'
<1> SUFFICES ASSUME IInv, [Next]_vars PROVE FilesInv'
  BY NextCore DEF IInv
<1>1. CASE \E c \in Conns : Conn(c)
  BY <1>1, ConnFiles
<1>2. CASE \E i \in unlinks : Unlink(i)
  BY <1>2, UnlinkFiles
<1>3. CASE \E d \in Digests : InsertBlob(d)
  BY <1>3, InsertBlobFiles
<1>4. CASE \E r \in Readers : Reader(r)
  BY <1>4, UntouchedFiles DEF Reader, BlobHitMem, BlobHitDisk, BlobOpen, BlobServed
<1>5. CASE Evict
  BY <1>5, EvictFiles
<1>6. CASE UNCHANGED vars
  BY <1>6, UntouchedFiles DEF vars
<1> QED
  BY <1>1, <1>2, <1>3, <1>4, <1>5, <1>6 DEF Next

\* The inductive invariant holds in every behaviour of the store.
THEOREM StoreInvariant == Spec => []IInv
BY InitIInv, NextIInv, PTL DEF Spec

\* Every state of the maps, the files and the tasks is well typed.
THEOREM TypeCorrect == Spec => []TypeOK
<1>1. IInv => TypeOK
  BY DEF IInv, CoreInv, FilesInv
<1> QED
  BY <1>1, StoreInvariant, PTL

\* No interleaving of spills, unlink tasks and blob deletions leaves an
\* OnDisk entry or blob (state.rs, redis_entries and blobs) without its file.
THEOREM DiskEntriesAreBacked == Spec => []OnDiskIsBacked
<1>1. IInv => OnDiskIsBacked
  BY DEF IInv, CoreInv, FilesInv
<1> QED
  BY <1>1, StoreInvariant, PTL

\* insert_redis, remove_redis and flush_redis between them keep track of
\* every redis file: none is left without an entry or an unlink task.
THEOREM RedisFilesAreOwned == Spec => []NoLeakedRedisFile
<1>1. IInv => NoLeakedRedisFile
  BY DEF IInv, CoreInv, FilesInv
<1> QED
  BY <1>1, StoreInvariant, PTL

\* A GET (redis.rs, handle_conn) answers with nil or with a value that was
\* SET for its key, however late the file read is applied.
THEOREM GetsAreGenuine == Spec => []GetReturnsWrittenValue
<1>1. IInv => GetReturnsWrittenValue
  BY DEF IInv, CoreInv, FilesInv
<1> QED
  BY <1>1, StoreInvariant, PTL

\* serve_disk_blob (docker.rs) always finds the file of the blob, and it
\* holds the bytes of the digest asked for.
THEOREM DiskBlobsAreServed == Spec => []DiskBlobIsServed
<1>1. IInv => DiskBlobIsServed
  BY DEF IInv, CoreInv, FilesInv
<1> QED
  BY <1>1, StoreInvariant, PTL

-----------------------------------------------------------------------------
(***************************************************************************)
(* Blob files that are forgotten.                                          *)
(***************************************************************************)
OrphanStep ==
  \A i \in Ids : OrphanedBlobFile(i)' /\ ~OrphanedBlobFile(i) =>
    \E d \in Digests : /\ blobs[d] = OnDisk(i, d)
                       /\ blobs'[d].tier = "Mem"

\* A step that touches no blob and no deletion, and completes no blob file,
\* orphans nothing.
LEMMA NoBlobTouched ==
  ASSUME blobs' = blobs,
         \A i \in Ids : files'[i] \in Digests => files'[i] = files[i],
         evictor.pc = "deleting" => evictor' = evictor
  PROVE  OrphanStep
BY DEF OrphanStep, OrphanedBlobFile

\* The spill of a blob completes the file of that blob.
LEMMA SpillBlobFinishOrphans ==
  ASSUME IInv, SpillBlobFinish
  PROVE  OrphanStep
<1>1. TypeFacts
  BY TypeOKFacts DEF IInv, CoreInv
<1>2. /\ evictor.digest \in Digests
      /\ blobs'[evictor.digest].tier = "Disk" /\ blobs'[evictor.digest].id = evictor.id
      /\ blobs[evictor.digest].tier = "Mem"
  BY <1>1 DEF SpillBlobFinish, TypeFacts, IInv, CoreInv, SpillOwnsId, TypeOK
<1>3. \A d \in Digests : blobs[d].tier = "Disk" => blobs'[d] = blobs[d]
  BY <1>2 DEF SpillBlobFinish, IInv, CoreInv, TypeOK
<1>4. \A i \in Ids : i # evictor.id => files'[i] = files[i]
  BY DEF SpillBlobFinish, IInv, CoreInv, TypeOK
<1>5. evictor.pc # "deleting"
  BY DEF SpillBlobFinish
<1> QED
  BY <1>2, <1>3, <1>4, <1>5 DEF OrphanStep, OrphanedBlobFile

\* A dropped OnDisk blob hands its file to the deletion that follows.
LEMMA DropBlobOrphans ==
  ASSUME IInv, NEW d \in Digests, DropBlob(d)
  PROVE  OrphanStep
<1>1. \A e \in Digests : blobs[e].tier = "Disk" =>
        \/ blobs'[e] = blobs[e]
        \/ evictor'.pc = "deleting" /\ evictor'.id = blobs[e].id
  BY DEF DropBlob, IInv, CoreInv, TypeOK
<1>2. files' = files /\ evictor.pc # "deleting"
  BY DEF DropBlob
<1> QED
  BY <1>1, <1>2 DEF OrphanStep, OrphanedBlobFile

\* The one action that forgets a file: insert_blob over an OnDisk blob.
LEMMA InsertBlobOrphans ==
  ASSUME IInv, NEW d \in Digests, InsertBlob(d)
  PROVE  OrphanStep
<1>1. \A e \in Digests : e # d => blobs'[e] = blobs[e]
  BY DEF InsertBlob, IInv, CoreInv, TypeOK
<1>2. blobs'[d].tier = "Mem"
  BY DEF InsertBlob, IInv, CoreInv, TypeOK
<1>3. files' = files /\ evictor' = evictor
  BY DEF InsertBlob
<1>4. blobs[d].tier = "Disk" => blobs[d] = OnDisk(blobs[d].id, d)
  BY DEF IInv, CoreInv, TypeOK, Blob, BlobIsItsDigest
<1> QED
  BY <1>1, <1>2, <1>3, <1>4 DEF OrphanStep, OrphanedBlobFile

\* Of the eviction task, nothing forgets a file.
LEMMA EvictOrphans ==
  ASSUME IInv, Evict
  PROVE  OrphanStep
<1>1. TypeFacts
  BY TypeOKFacts DEF IInv, CoreInv
<1>2. CASE \E k \in Keys : SpillRedisStart(k) \/ DropRedis(k)
  BY <1>1, <1>2, NoBlobTouched, ContentAssumption
     DEF SpillRedisStart, DropRedis, TypeFacts, IInv, CoreInv, TypeOK
<1>3. CASE \E d \in Digests : SpillBlobStart(d)
  BY <1>1, <1>3, NoBlobTouched, ContentAssumption
     DEF SpillBlobStart, TypeFacts, IInv, CoreInv, TypeOK
<1>4. CASE \E d \in Digests : DropBlob(d)
  BY <1>4, DropBlobOrphans
<1>5. CASE SpillRedisFinish
  BY <1>1, <1>5, NoBlobTouched, ContentAssumption
     DEF SpillRedisFinish, TypeFacts, IInv, CoreInv, TypeOK
<1>6. CASE SpillBlobFinish
  BY <1>6, SpillBlobFinishOrphans
<1>7. CASE SpillFail
  BY <1>7, NoBlobTouched DEF SpillFail
<1>8. CASE DeleteBlobFile
  <2>1. blobs' = blobs /\ files'[evictor.id] = NoFile /\ NoFile \notin Digests
    BY <1>1, <1>8, ContentAssumption DEF DeleteBlobFile, TypeFacts, IInv, CoreInv, TypeOK
  <2>2. \A i \in Ids : i # evictor.id => files'[i] = files[i]
    BY <1>8 DEF DeleteBlobFile, IInv, CoreInv, TypeOK
  <2> QED
    BY <2>1, <2>2 DEF OrphanStep, OrphanedBlobFile
<1> QED
  BY <1>2, <1>3, <1>4, <1>5, <1>6, <1>7, <1>8 DEF Evict

\* No step but insert_blob forgets one.
LEMMA NextOrphans == IInv /\ [Next]_vars => [OrphanStep]_vars
<1> SUFFICES ASSUME IInv, Next PROVE OrphanStep
  OBVIOUS
<1>1. CASE \E c \in Conns : Conn(c)
  <2>1. UNCHANGED <<blobs, files, evictor>>
    BY <1>1 DEF Conn, GetMiss, GetHit, GetOnDisk, GetRead, GetPromote, GetReadError, GetReply,
                Set, Del, FlushStart, FlushKey, FlushEnd
  <2> QED
    BY <2>1, NoBlobTouched
<1>2. CASE \E i \in unlinks : Unlink(i)
  BY <1>2, NoBlobTouched, ContentAssumption DEF Unlink, IInv, CoreInv, TypeOK
<1>3. CASE \E d \in Digests : InsertBlob(d)
  BY <1>3, InsertBlobOrphans
<1>4. CASE \E r \in Readers : Reader(r)
  BY <1>4, NoBlobTouched DEF Reader, BlobHitMem, BlobHitDisk, BlobOpen, BlobServed
<1>5. CASE Evict
  BY <1>5, EvictOrphans
<1> QED
  BY <1>1, <1>2, <1>3, <1>4, <1>5 DEF Next

\* Only insert_blob over an OnDisk blob (state.rs:254) leaves a complete blob
\* file that neither the map nor the eviction task refers to.
THEOREM OrphansNeedReuploads == Spec => OrphanNeedsReupload
<1>1. OrphanNeedsReupload <=> [][OrphanStep]_vars
  BY PTL DEF OrphanNeedsReupload, OrphanStep
<1> QED
  BY <1>1, NextOrphans, StoreInvariant, PTL DEF Spec

-----------------------------------------------------------------------------
(***************************************************************************)
(* TwoTierStore implements CachePromise, for every set of keys, values and *)
(* tasks.  Each action of the store is one action of the promise under the *)
(* mapping of StoreRefinement, or leaves what the clients see unchanged;   *)
(* the invariant IInv is what makes the mapping of a GET's pending read    *)
(* stable: nobody rewrites the file it is about to read.                   *)
(***************************************************************************)
\* What the mapping says of each task.
LEMMA HeldFacts ==
  /\ \A c \in Conns : HeldValue[c] = HeldByConn(c)
  /\ HeldValue[Evictor] = HeldByEvictor
  /\ DOMAIN HeldValue = Conns \cup {Evictor}
BY EvictorAssumption DEF HeldValue

\* Nothing the clients see has changed.
Unseen == UNCHANGED <<StoredValue, HeldValue>>

\* The steps that change neither an entry, nor a file, nor what a
\* connection or the evictor holds, are invisible.
LEMMA UnseenStep ==
  ASSUME UNCHANGED <<entries, files, conns>>, evictor.pc # "spillRedis",
         evictor'.pc # "spillRedis"
  PROVE  Unseen
BY DEF Unseen, StoredValue, HeldValue, HeldByConn, HeldByEvictor

-----------------------------------------------------------------------------
(***************************************************************************)
(* Redis connections.                                                      *)
(***************************************************************************)
\* A GET that misses has looked up nothing.
LEMMA GetMissLooks ==
  ASSUME IInv, NEW c \in Conns, NEW k \in Keys, GetMiss(c, k)
  PROVE  Promise!Look(c, k)
<1>1. HeldValue[c] = Promise!NotHeld
  BY HeldFacts DEF GetMiss, HeldByConn, Holding, Promise!NotHeld
<1>2. StoredValue' = StoredValue /\ StoredValue[k] = Failed
  BY DEF GetMiss, StoredValue
<1>3. HeldByEvictor' = HeldByEvictor
  BY DEF GetMiss, HeldByEvictor
<1>4. \A e \in Conns : HeldByConn(e)' = IF e = c THEN Holding(k, Failed) ELSE HeldByConn(e)
  BY DEF GetMiss, HeldByConn, IInv, CoreInv, FilesInv, TypeOK
<1>5. HeldValue' = [HeldValue EXCEPT ![c] = Holding(k, Failed)]
  BY <1>3, <1>4, EvictorAssumption DEF HeldValue
<1> QED
  BY <1>1, <1>2, <1>5 DEF Promise!Look, Holding

\* A hit in memory has looked up the value that is stored.
LEMMA GetHitLooks ==
  ASSUME IInv, NEW c \in Conns, NEW k \in Keys, GetHit(c, k)
  PROVE  Promise!Look(c, k)
<1>1. HeldValue[c] = Promise!NotHeld
  BY HeldFacts DEF GetHit, HeldByConn, Holding, Promise!NotHeld
<1>2. StoredValue' = StoredValue /\ StoredValue[k] = entries[k].val
  BY DEF GetHit, StoredValue
<1>3. HeldByEvictor' = HeldByEvictor
  BY DEF GetHit, HeldByEvictor
<1>4. \A e \in Conns : HeldByConn(e)' = IF e = c THEN Holding(k, entries[k].val) ELSE HeldByConn(e)
  BY DEF GetHit, HeldByConn, IInv, CoreInv, FilesInv, TypeOK
<1>5. HeldValue' = [HeldValue EXCEPT ![c] = Holding(k, entries[k].val)]
  BY <1>3, <1>4, EvictorAssumption DEF HeldValue
<1> QED
  BY <1>1, <1>2, <1>5 DEF Promise!Look, Holding

\* A GET of an OnDisk entry is going to read the value that is stored: its
\* file holds it (OnDiskIsBacked).
LEMMA GetOnDiskLooks ==
  ASSUME IInv, NEW c \in Conns, NEW k \in Keys, GetOnDisk(c, k)
  PROVE  Promise!Look(c, k)
<1>1. HeldValue[c] = Promise!NotHeld
  BY HeldFacts DEF GetOnDisk, HeldByConn, Holding, Promise!NotHeld
<1>2. StoredValue' = StoredValue /\ StoredValue[k] = entries[k].val
  BY DEF GetOnDisk, StoredValue
<1>3. HeldByEvictor' = HeldByEvictor
  BY DEF GetOnDisk, HeldByEvictor
<1>4. files[entries[k].id] = entries[k].val /\ entries[k].val # NoFile
  BY TypeOKFacts, ContentAssumption DEF GetOnDisk, IInv, CoreInv, FilesInv, OnDiskIsBacked, TypeFacts
<1>5. \A e \in Conns : HeldByConn(e)' = IF e = c THEN Holding(k, entries[k].val) ELSE HeldByConn(e)
  BY <1>4 DEF GetOnDisk, HeldByConn, IInv, CoreInv, FilesInv, TypeOK
<1>6. HeldValue' = [HeldValue EXCEPT ![c] = Holding(k, entries[k].val)]
  BY <1>3, <1>5, EvictorAssumption DEF HeldValue
<1> QED
  BY <1>1, <1>2, <1>6 DEF Promise!Look, Holding

\* The read takes what the GET held already, or fails and loses it.
LEMMA GetReadHolds ==
  ASSUME IInv, NEW c \in Conns, GetRead(c)
  PROVE  Unseen \/ Promise!LoseHeld({c})
<1>1. StoredValue' = StoredValue /\ HeldByEvictor' = HeldByEvictor
  BY DEF GetRead, StoredValue, HeldByEvictor
<1>2. PICK v \in {Failed, files[conns[c].id]} \ {NoFile} :
        conns' = [conns EXCEPT ![c] =
          [pc |-> "got", key |-> conns[c].key, id |-> conns[c].id, val |-> v]]
  BY DEF GetRead
<1>3. HeldByConn(c) = Holding(conns[c].key,
                 IF files[conns[c].id] = NoFile THEN Failed ELSE files[conns[c].id])
  BY DEF GetRead, HeldByConn
<1>4. \A e \in Conns : HeldByConn(e)' =
        IF e = c THEN Holding(conns[c].key, v) ELSE HeldByConn(e)
  BY <1>2 DEF GetRead, HeldByConn, IInv, CoreInv, FilesInv, TypeOK
<1>5. CASE v # Failed
  <2>1. \A e \in Conns : HeldByConn(e)' = HeldByConn(e)
    BY <1>3, <1>4, <1>5
  <2> QED
    BY <1>1, <2>1 DEF Unseen, HeldValue
<1>6. CASE v = Failed
  <2>1. \A e \in Conns : HeldByConn(e)' =
          IF e \in {c} THEN [HeldByConn(e) EXCEPT !.val = Failed] ELSE HeldByConn(e)
    BY <1>3, <1>4, <1>6 DEF Holding
  <2>2. HeldValue' = [t \in Conns \cup {Evictor} |->
          IF t \in {c} THEN [HeldValue[t] EXCEPT !.val = Failed] ELSE HeldValue[t]]
    BY <1>1, <2>1, EvictorAssumption DEF HeldValue
  <2> QED
    BY <1>1, <2>2 DEF Promise!LoseHeld
<1> QED
  BY <1>5, <1>6

\* The promotion writes back the value the GET holds, and keeps holding it
\* for its answer.
LEMMA GetPromoteWritesBack ==
  ASSUME IInv, NEW c \in Conns, GetPromote(c)
  PROVE  Promise!WriteBack(c)
<1>1. HeldValue[c] = Holding(conns[c].key, conns[c].val)
  BY HeldFacts DEF GetPromote, HeldByConn
<1>2. conns[c].key \in Keys /\ conns[c].val # Failed
  BY TypeOKFacts DEF GetPromote, IInv, CoreInv, FilesInv, TypeFacts
<1>3. StoredValue' = [StoredValue EXCEPT ![conns[c].key] = conns[c].val]
  BY <1>2 DEF GetPromote, InsertRedis, StoredValue, IInv, CoreInv, FilesInv, TypeOK
<1>4. HeldByEvictor' = HeldByEvictor
  BY DEF GetPromote, HeldByEvictor
<1>5. \A e \in Conns : HeldByConn(e)' = HeldByConn(e)
  BY DEF GetPromote, HeldByConn, IInv, CoreInv, FilesInv, TypeOK
<1>6. HeldValue' = HeldValue
  BY <1>4, <1>5 DEF HeldValue
<1> QED
  BY <1>1, <1>2, <1>3, <1>6 DEF Promise!WriteBack, Promise!NotHeld, Holding

\* A GET whose read failed answers nil and loses whatever is stored by then.
LEMMA GetReadErrorLoses ==
  ASSUME IInv, NEW c \in Conns, GetReadError(c)
  PROVE  Promise!Lose(conns[c].key) /\ conns[c].key \in Keys
<1>1. conns[c].key \in Keys
  BY TypeOKFacts DEF GetReadError, IInv, CoreInv, FilesInv, TypeFacts
<1>2. StoredValue' = [StoredValue EXCEPT ![conns[c].key] = Failed]
  BY <1>1 DEF GetReadError, RemoveRedis, StoredValue, IInv, CoreInv, FilesInv, TypeOK
<1>3. HeldByEvictor' = HeldByEvictor
  BY DEF GetReadError, HeldByEvictor
<1>4. \A e \in Conns : HeldByConn(e)' = HeldByConn(e)
  BY DEF GetReadError, HeldByConn, IInv, CoreInv, FilesInv, TypeOK
<1>5. HeldValue' = HeldValue
  BY <1>3, <1>4 DEF HeldValue
<1> QED
  BY <1>1, <1>2, <1>5 DEF Promise!Lose

\* Once the answer is sent the connection holds nothing.
LEMMA GetReplyReleases ==
  ASSUME IInv, NEW c \in Conns, GetReply(c)
  PROVE  Promise!Release(c)
<1>1. StoredValue' = StoredValue /\ HeldByEvictor' = HeldByEvictor
  BY DEF GetReply, StoredValue, HeldByEvictor
<1>2. \A e \in Conns : HeldByConn(e)' = IF e = c THEN Promise!NotHeld ELSE HeldByConn(e)
  BY DEF GetReply, HeldByConn, Holding, Promise!NotHeld, IInv, CoreInv, FilesInv, TypeOK
<1>3. HeldValue' = [HeldValue EXCEPT ![c] = Promise!NotHeld]
  BY <1>1, <1>2, EvictorAssumption DEF HeldValue
<1> QED
  BY <1>1, <1>3 DEF Promise!Release

\* SET stores its value and disturbs no pending read.
LEMMA SetSets ==
  ASSUME IInv, NEW c \in Conns, NEW k \in Keys, NEW v \in Values, Set(c, k, v)
  PROVE  Promise!Set(k, v)
<1>1. StoredValue' = [StoredValue EXCEPT ![k] = v]
  BY DEF Set, InsertRedis, StoredValue, IInv, CoreInv, FilesInv, TypeOK
<1>2. HeldValue' = HeldValue
  BY DEF Set, HeldValue, HeldByConn, HeldByEvictor
<1> QED
  BY <1>1, <1>2 DEF Promise!Set

\* DEL and the evictor's drop lose one key.
LEMMA RemovalLoses ==
  ASSUME IInv, NEW k \in Keys, RemoveRedis(k), UNCHANGED <<files, conns, evictor>>
  PROVE  Promise!Lose(k)
<1>1. StoredValue' = [StoredValue EXCEPT ![k] = Failed]
  BY DEF RemoveRedis, StoredValue, IInv, CoreInv, FilesInv, TypeOK
<1>2. HeldValue' = HeldValue
  BY DEF HeldValue, HeldByConn, HeldByEvictor
<1> QED
  BY <1>1, <1>2 DEF Promise!Lose

\* FLUSH loses one key after another; a flushing connection holds nothing.
LEMMA FlushKeyLoses ==
  ASSUME IInv, NEW c \in Conns, NEW k \in Keys, FlushKey(c, k)
  PROVE  Promise!Lose(k)
<1>1. StoredValue' = [StoredValue EXCEPT ![k] = Failed]
  BY DEF FlushKey, StoredValue, IInv, CoreInv, FilesInv, TypeOK
<1>2. HeldByEvictor' = HeldByEvictor
  BY DEF FlushKey, HeldByEvictor
<1>3. \A e \in Conns : HeldByConn(e)' = HeldByConn(e)
  BY DEF FlushKey, HeldByConn, IInv, CoreInv, FilesInv, TypeOK
<1>4. HeldValue' = HeldValue
  BY <1>2, <1>3 DEF HeldValue
<1> QED
  BY <1>1, <1>4 DEF Promise!Lose

\* The start and the end of a FLUSH are invisible.
LEMMA FlushEdgesAreUnseen ==
  ASSUME IInv, NEW c \in Conns, FlushStart(c) \/ FlushEnd(c)
  PROVE  Unseen
<1>1. StoredValue' = StoredValue /\ HeldByEvictor' = HeldByEvictor
  BY DEF FlushStart, FlushEnd, StoredValue, HeldByEvictor
<1>2. \A e \in Conns : HeldByConn(e)' = HeldByConn(e)
  BY DEF FlushStart, FlushEnd, HeldByConn, IInv, CoreInv, FilesInv, TypeOK
<1> QED
  BY <1>1, <1>2 DEF Unseen, HeldValue

-----------------------------------------------------------------------------
(***************************************************************************)
(* Files that disappear and files that are written.                        *)
(***************************************************************************)
\* The connections whose pending read is of the file i.
ReadersOf(i) == {c \in Conns : conns[c].pc = "reading" /\ conns[c].id = i}

\* A file that is removed is lost to the GETs that were about to read it.
LEMMA RemovedFileIsLost ==
  ASSUME IInv, NEW i \in Ids, files' = [files EXCEPT ![i] = NoFile],
         UNCHANGED <<entries, conns>>, HeldByEvictor' = HeldByEvictor
  PROVE  Promise!LoseHeld(ReadersOf(i))
<1>1. StoredValue' = StoredValue
  BY DEF StoredValue
<1>2. TypeFacts /\ files \in [Ids -> Content]
  BY TypeOKFacts DEF IInv, CoreInv, FilesInv, TypeOK
<1>3. \A c \in Conns : HeldByConn(c)' =
        IF c \in ReadersOf(i) THEN [HeldByConn(c) EXCEPT !.val = Failed] ELSE HeldByConn(c)
  BY <1>2 DEF HeldByConn, ReadersOf, Holding, TypeFacts
<1>4. HeldValue' = [t \in Conns \cup {Evictor} |->
        IF t \in ReadersOf(i) THEN [HeldValue[t] EXCEPT !.val = Failed] ELSE HeldValue[t]]
  <2>1. Evictor \notin ReadersOf(i)
    BY EvictorAssumption DEF ReadersOf
  <2> QED
    BY <1>3, <2>1, EvictorAssumption DEF HeldValue
<1> QED
  BY <1>1, <1>4 DEF Promise!LoseHeld

\* A file that a spill writes is nobody's pending read (ReadingIsStable).
LEMMA WrittenFileIsUnread ==
  ASSUME IInv, NEW i \in Ids, NEW x, files' = [files EXCEPT ![i] = x], UNCHANGED conns,
         ReadersOf(i) = {}
  PROVE  \A c \in Conns : HeldByConn(c)' = HeldByConn(c)
<1>1. TypeFacts /\ files \in [Ids -> Content]
  BY TypeOKFacts DEF IInv, CoreInv, FilesInv, TypeOK
<1> QED
  BY <1>1 DEF HeldByConn, ReadersOf, TypeFacts

-----------------------------------------------------------------------------
(***************************************************************************)
(* The eviction task.                                                      *)
(***************************************************************************)
\* A spill starts by looking the value up.
LEMMA SpillRedisStartLooks ==
  ASSUME IInv, NEW k \in Keys, SpillRedisStart(k)
  PROVE  Promise!Look(Evictor, k)
<1>1. HeldValue[Evictor] = Promise!NotHeld
  BY HeldFacts DEF SpillRedisStart, HeldByEvictor, Holding, Promise!NotHeld
<1>2. StoredValue' = StoredValue /\ StoredValue[k] = entries[k].val
  BY DEF SpillRedisStart, StoredValue
<1>3. HeldByEvictor' = Holding(k, entries[k].val)
  BY DEF SpillRedisStart, HeldByEvictor
<1>4. entries[k].id \in Ids /\ ReadersOf(entries[k].id) = {}
  BY TypeOKFacts DEF SpillRedisStart, IInv, CoreInv, FilesInv, TypeFacts, ReadingIsStable, ReadersOf
<1>5. \A c \in Conns : HeldByConn(c)' = HeldByConn(c)
  BY <1>4, WrittenFileIsUnread DEF SpillRedisStart
<1>6. HeldValue' = [HeldValue EXCEPT ![Evictor] = Holding(k, entries[k].val)]
  BY <1>3, <1>5, EvictorAssumption DEF HeldValue
<1> QED
  BY <1>1, <1>2, <1>6 DEF Promise!Look, Holding

\* A spill that finishes writes back the value it looked up, over whatever
\* is stored by then.
LEMMA SpillRedisFinishWritesBack ==
  ASSUME IInv, SpillRedisFinish
  PROVE  Promise!WriteBack(Evictor)
<1>1. HeldValue[Evictor] = Holding(evictor.key, evictor.val)
  BY HeldFacts DEF SpillRedisFinish, HeldByEvictor
<1>2. evictor.key \in Keys /\ evictor.val # Failed /\ evictor.id \in Ids
  BY TypeOKFacts, ContentAssumption DEF SpillRedisFinish, IInv, CoreInv, FilesInv, TypeFacts
<1>3. StoredValue' = [StoredValue EXCEPT ![evictor.key] = evictor.val]
  BY <1>2 DEF SpillRedisFinish, StoredValue, IInv, CoreInv, FilesInv, TypeOK
<1>4. ReadersOf(evictor.id) = {}
  BY DEF SpillRedisFinish, IInv, CoreInv, FilesInv, ReadingIsStable, Spilling, ReadersOf
<1>5. HeldByEvictor' = Promise!NotHeld
  BY DEF SpillRedisFinish, HeldByEvictor, Holding, Promise!NotHeld
<1>6. \A c \in Conns : HeldByConn(c)' = HeldByConn(c)
  BY <1>2, <1>4, WrittenFileIsUnread DEF SpillRedisFinish
<1>7. HeldValue' = [HeldValue EXCEPT ![Evictor] = Promise!NotHeld]
  BY <1>5, <1>6, EvictorAssumption DEF HeldValue
<1> QED
  BY <1>1, <1>2, <1>3, <1>7 DEF Promise!WriteBack, Promise!NotHeld, Holding

\* A spill that fails lets go of what it looked up.
LEMMA SpillFailReleases ==
  ASSUME IInv, SpillFail
  PROVE  Promise!Release(Evictor)
<1>1. StoredValue' = StoredValue /\ HeldByEvictor' = Promise!NotHeld
  BY DEF SpillFail, StoredValue, HeldByEvictor, Holding, Promise!NotHeld
<1>2. \A c \in Conns : HeldByConn(c)' = HeldByConn(c)
  BY DEF SpillFail, HeldByConn
<1>3. HeldValue' = [HeldValue EXCEPT ![Evictor] = Promise!NotHeld]
  BY <1>1, <1>2, EvictorAssumption DEF HeldValue
<1> QED
  BY <1>1, <1>3 DEF Promise!Release

\* Blob spills write files that no GET of a key is about to read.
LEMMA SpillBlobIsUnseen ==
  ASSUME IInv, (\E d \in Digests : SpillBlobStart(d)) \/ SpillBlobFinish
  PROVE  Unseen
<1>1. StoredValue' = StoredValue /\ HeldByEvictor' = HeldByEvictor
  BY DEF SpillBlobStart, SpillBlobFinish, StoredValue, HeldByEvictor
<1>2. ASSUME NEW d \in Digests, SpillBlobStart(d)
      PROVE  \A c \in Conns : HeldByConn(c)' = HeldByConn(c)
  <2>1. blobs[d].id \in Ids /\ ReadersOf(blobs[d].id) = {}
    BY <1>2, TypeOKFacts DEF SpillBlobStart, IInv, CoreInv, FilesInv, TypeFacts, ReadingIsStable, ReadersOf
  <2> QED
    BY <1>2, <2>1, WrittenFileIsUnread DEF SpillBlobStart
<1>3. ASSUME SpillBlobFinish
      PROVE  \A c \in Conns : HeldByConn(c)' = HeldByConn(c)
  <2>1. evictor.id \in Ids /\ ReadersOf(evictor.id) = {}
    BY <1>3, TypeOKFacts DEF SpillBlobFinish, IInv, CoreInv, FilesInv, TypeFacts, ReadingIsStable, Spilling, ReadersOf
  <2> QED
    BY <1>3, <2>1, WrittenFileIsUnread DEF SpillBlobFinish
<1>4. \A c \in Conns : HeldByConn(c)' = HeldByConn(c)
  BY <1>2, <1>3
<1> QED
  BY <1>1, <1>4 DEF Unseen, HeldValue

-----------------------------------------------------------------------------
(***************************************************************************)
(* The refinement.                                                         *)
(***************************************************************************)
\* The empty cache is the empty map.
LEMMA InitIsPromised == Init => Promise!Init
<1> SUFFICES ASSUME Init PROVE Promise!Init
  OBVIOUS
<1>1. StoredValue = [k \in Keys |-> Failed]
  BY DEF Init, StoredValue
<1>2. HeldValue = [t \in Conns \cup {Evictor} |-> Promise!NotHeld]
  BY DEF Init, HeldValue, HeldByConn, HeldByEvictor, Holding, Promise!NotHeld
<1> QED
  BY <1>1, <1>2 DEF Promise!Init

\* A step of a redis connection is a step of the promise.
LEMMA ConnIsPromised ==
  ASSUME IInv, NEW c \in Conns, Conn(c)
  PROVE  Promise!Next \/ Unseen
<1>1. CASE \E k \in Keys : GetMiss(c, k) \/ GetHit(c, k) \/ GetOnDisk(c, k)
  BY <1>1, GetMissLooks, GetHitLooks, GetOnDiskLooks DEF Promise!Next
<1>2. CASE \E k \in Keys : Del(c, k)
  BY <1>2, RemovalLoses DEF Del, Promise!Next
<1>3. CASE \E k \in Keys : FlushKey(c, k)
  BY <1>3, FlushKeyLoses DEF Promise!Next
<1>4. CASE \E k \in Keys, v \in Values : Set(c, k, v)
  BY <1>4, SetSets DEF Promise!Next
<1>5. CASE GetRead(c)
  <2>1. {c} \in SUBSET (Conns \cup {Evictor})
    OBVIOUS
  <2> QED
    BY <1>5, <2>1, GetReadHolds DEF Promise!Next
<1>6. CASE GetPromote(c)
  BY <1>6, GetPromoteWritesBack DEF Promise!Next
<1>7. CASE GetReadError(c)
  BY <1>7, GetReadErrorLoses DEF Promise!Next
<1>8. CASE GetReply(c)
  BY <1>8, GetReplyReleases DEF Promise!Next
<1>9. CASE FlushStart(c) \/ FlushEnd(c)
  BY <1>9, FlushEdgesAreUnseen
<1> QED
  BY <1>1, <1>2, <1>3, <1>4, <1>5, <1>6, <1>7, <1>8, <1>9 DEF Conn

\* A step of the eviction task is a step of the promise.
LEMMA EvictIsPromised ==
  ASSUME IInv, Evict
  PROVE  Promise!Next \/ Unseen
<1>1. CASE \E k \in Keys : SpillRedisStart(k)
  BY <1>1, SpillRedisStartLooks DEF Promise!Next
<1>2. CASE \E k \in Keys : DropRedis(k)
  BY <1>2, RemovalLoses DEF DropRedis, Promise!Next
<1>3. CASE (\E d \in Digests : SpillBlobStart(d)) \/ SpillBlobFinish
  BY <1>3, SpillBlobIsUnseen
<1>4. CASE \E d \in Digests : DropBlob(d)
  BY <1>4, UnseenStep DEF DropBlob
<1>5. CASE SpillRedisFinish
  BY <1>5, SpillRedisFinishWritesBack DEF Promise!Next
<1>6. CASE SpillFail
  BY <1>6, SpillFailReleases DEF Promise!Next
<1>7. CASE DeleteBlobFile
  <2>1. evictor.id \in Ids /\ HeldByEvictor' = HeldByEvictor
    BY <1>7, TypeOKFacts DEF DeleteBlobFile, IInv, CoreInv, FilesInv, TypeFacts, HeldByEvictor
  <2>2. Promise!LoseHeld(ReadersOf(evictor.id))
    BY <1>7, <2>1, RemovedFileIsLost DEF DeleteBlobFile
  <2>3. ReadersOf(evictor.id) \in SUBSET (Conns \cup {Evictor})
    BY DEF ReadersOf
  <2> QED
    BY <2>2, <2>3 DEF Promise!Next
<1> QED
  BY <1>1, <1>2, <1>3, <1>4, <1>5, <1>6, <1>7 DEF Evict

\* Every step of the store is a step of the promise or leaves it unchanged.
LEMMA StepIsPromised == IInv /\ [Next]_vars => [Promise!Next]_Promise!vars
<1> SUFFICES ASSUME IInv, [Next]_vars PROVE Promise!Next \/ Unseen
  BY DEF Unseen, Promise!vars
<1>1. CASE \E c \in Conns : Conn(c)
  BY <1>1, ConnIsPromised
<1>2. CASE \E i \in unlinks : Unlink(i)
  <2>1. PICK i \in unlinks : Unlink(i)
    BY <1>2
  <2>2. i \in Ids /\ HeldByEvictor' = HeldByEvictor
    BY <2>1 DEF IInv, CoreInv, FilesInv, TypeOK, Unlink, HeldByEvictor
  <2>3. Promise!LoseHeld(ReadersOf(i))
    BY <2>1, <2>2, RemovedFileIsLost DEF Unlink
  <2>4. ReadersOf(i) \in SUBSET (Conns \cup {Evictor})
    BY DEF ReadersOf
  <2> QED
    BY <2>3, <2>4 DEF Promise!Next
<1>3. CASE \E d \in Digests : InsertBlob(d)
  BY <1>3 DEF InsertBlob, Unseen, StoredValue, HeldValue, HeldByConn, HeldByEvictor
<1>4. CASE \E r \in Readers : Reader(r)
  BY <1>4 DEF Reader, BlobHitMem, BlobHitDisk, BlobOpen, BlobServed,
              Unseen, StoredValue, HeldValue, HeldByConn, HeldByEvictor
<1>5. CASE Evict
  BY <1>5, EvictIsPromised
<1>6. CASE UNCHANGED vars
  BY <1>6 DEF vars, Unseen, StoredValue, HeldValue, HeldByConn, HeldByEvictor
<1> QED
  BY <1>1, <1>2, <1>3, <1>4, <1>5, <1>6 DEF Next

\* To its clients the two-tier store (redis.rs over state.rs and
\* eviction.rs) is one lossy map: tiers, ids, files, spills, promotions and
\* unlink tasks are invisible, and what is written back late is what was
\* stored under that key when the task looked.
THEOREM StoreKeepsPromise == Spec => KeepsPromise
BY InitIsPromised, StepIsPromised, StoreInvariant, PTL DEF Spec, KeepsPromise, Promise!Spec
=============================================================================
