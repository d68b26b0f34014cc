--------------------------- MODULE UploadsProofs ---------------------------
(***************************************************************************)
(* The invariants of Uploads, proved for every alphabet, every bound on    *)
(* the length and every set of uploads and requests.                       *)
(*                                                                         *)
(* As long as the buffer of an upload was never taken, its hasher has seen *)
(* exactly the buffer, so a digest that matches the hasher is the digest   *)
(* of what is taken.  Clients that have one request per upload under way   *)
(* never take a buffer twice, because the upload left the map before its   *)
(* PUT was answered.                                                       *)
(***************************************************************************)
EXTENDS Uploads, TLAPS

\* A handler without a request is transparent to every proof.
USE DEF Idle

\* What TypeOK says of a request, in the form the provers use it.
TypeFacts ==
  \A r \in Requests :
    /\ requests[r].pc \in {"idle", "patch", "put", "single", "remove", "insert"}
    /\ requests[r].pc \in {"patch", "put", "remove", "insert"} => requests[r].uuid \in Uuids
    /\ requests[r].pc \in {"put", "single", "remove", "insert"} => requests[r].digest \in Digests
    /\ requests[r].pc \in {"remove", "insert"} => requests[r].buf \in Seq(Bytes)

\* The fields of a request have their types.
LEMMA TypeOKFacts == TypeOK => TypeFacts
  BY DEF TypeOK, TypeFacts, RequestState

\* A chunk is a sequence of bytes.
LEMMA ChunkIsSeq ==
  ASSUME NEW chunk \in Chunks
  PROVE  chunk \in Seq(Bytes)
<1>1. CASE chunk = <<>>
  BY <1>1
<1>2. CASE \E b \in Bytes : chunk = <<b>>
  BY <1>2
<1> QED
  BY <1>1, <1>2 DEF Chunks

\* A whole content is a sequence of bytes.
LEMMA ContentIsSeq ==
  ASSUME NEW body \in Contents
  PROVE  body \in Seq(Bytes)
  BY MaxLenAssumption DEF Contents

\* A new upload starts empty and untaken.
LEMMA PostCreateStep ==
  ASSUME IInv, NEW u \in Uuids, PostCreate(u)
  PROVE  IInv'
<1>1. TypeFacts
  BY TypeOKFacts DEF IInv
<1>2. TypeOK'
  BY <1>1 DEF PostCreate, IInv, TypeOK, TypeFacts
<1>3. UnusedIsFresh'
  BY <1>1 DEF PostCreate, IInv, TypeOK, TypeFacts, UnusedIsFresh, Uses
<1>4. HasherFollowsBuffer'
  BY <1>1 DEF PostCreate, IInv, TypeOK, TypeFacts, HasherFollowsBuffer
<1>5. TakenUploadIsUnreachable'
  BY <1>1
     DEF PostCreate, IInv, TypeOK, TypeFacts, TakenUploadIsUnreachable,
         UnusedIsFresh
<1>6. TakenMatches' /\ SerialUse' /\ WrongContentNeedsSecondTake'
  BY DEF PostCreate, IInv, TakenMatches, TakenTwice, SerialUse, Uses,
         WrongContentNeedsSecondTake, ContentMatchesDigest
<1> QED
  BY <1>2, <1>3, <1>4, <1>5, <1>6 DEF IInv

\* A cancelled upload leaves the map.
LEMMA DeleteStep ==
  ASSUME IInv, NEW u \in Uuids, Delete(u)
  PROVE  IInv'
<1>1. TypeFacts
  BY TypeOKFacts DEF IInv
<1>2. TypeOK'
  BY <1>1 DEF Delete, Arrives, IInv, TypeOK, TypeFacts
<1>3. UnusedIsFresh'
  BY <1>1 DEF Delete, IInv, TypeOK, TypeFacts, UnusedIsFresh, Uses
<1>4. TakenUploadIsUnreachable'
  BY <1>1 DEF Delete, IInv, TypeOK, TypeFacts, TakenUploadIsUnreachable
<1>5. HasherFollowsBuffer' /\ TakenMatches' /\ WrongContentNeedsSecondTake'
  BY DEF Delete, IInv, HasherFollowsBuffer, TakenMatches, TakenTwice,
         WrongContentNeedsSecondTake, ContentMatchesDigest
<1>6. SerialUse'
  <2>1. \A w \in Uuids : w \notin overlaps' => w \notin overlaps
    BY DEF Delete, Arrives
  <2> QED
    BY <2>1 DEF Delete, IInv, SerialUse, Uses
<1> QED
  BY <1>2, <1>3, <1>4, <1>5, <1>6 DEF IInv

\* A single-shot POST waits for its body.
LEMMA PostSingleStep ==
  ASSUME IInv, NEW r \in Requests, NEW d \in Digests, PostSingle(r, d)
  PROVE  IInv'
<1>1. TypeFacts
  BY TypeOKFacts DEF IInv
<1>2. TypeOK'
  BY <1>1 DEF PostSingle, Become, IInv, TypeOK, TypeFacts, RequestState
<1>3. UnusedIsFresh'
  BY <1>1 DEF PostSingle, Become, IInv, TypeOK, TypeFacts, UnusedIsFresh, Uses
<1>4. TakenMatches'
  BY <1>1
     DEF PostSingle, Become, IInv, TypeOK, TypeFacts, TakenMatches, TakenTwice
<1>5. SerialUse'
  BY <1>1
     DEF PostSingle, Become, IInv, TypeOK, TypeFacts, SerialUse, Uses,
         TakenTwice
<1>6. TakenUploadIsUnreachable'
  BY <1>1
     DEF PostSingle, Become, IInv, TypeOK, TypeFacts, TakenUploadIsUnreachable
<1>7. HasherFollowsBuffer' /\ WrongContentNeedsSecondTake'
  BY DEF PostSingle, Become, IInv, HasherFollowsBuffer,
         WrongContentNeedsSecondTake, ContentMatchesDigest
<1> QED
  BY <1>2, <1>3, <1>4, <1>5, <1>6, <1>7 DEF IInv

\* The body of a single-shot POST is stored under the digest it has.
LEMMA PostSingleBodyStep ==
  ASSUME IInv, NEW r \in Requests, NEW body \in Contents, PostSingleBody(r, body)
  PROVE  IInv'
<1>1. TypeFacts
  BY TypeOKFacts DEF IInv
<1>2. TypeOK'
  BY <1>1, ContentIsSeq
     DEF PostSingleBody, Become, IInv, TypeOK, TypeFacts, RequestState
<1>3. UnusedIsFresh'
  BY <1>1
     DEF PostSingleBody, Become, IInv, TypeOK, TypeFacts, UnusedIsFresh, Uses
<1>4. TakenMatches'
  BY <1>1
     DEF PostSingleBody, Become, IInv, TypeOK, TypeFacts, TakenMatches,
         TakenTwice
<1>5. SerialUse'
  BY <1>1
     DEF PostSingleBody, Become, IInv, TypeOK, TypeFacts, SerialUse, Uses,
         TakenTwice
<1>6. WrongContentNeedsSecondTake'
  BY <1>1
     DEF PostSingleBody, Become, IInv, TypeOK, TypeFacts,
         WrongContentNeedsSecondTake, ContentMatchesDigest
<1>7. TakenUploadIsUnreachable'
  BY <1>1
     DEF PostSingleBody, Become, IInv, TypeOK, TypeFacts,
         TakenUploadIsUnreachable
<1>8. HasherFollowsBuffer'
  BY DEF PostSingleBody, Become, IInv, HasherFollowsBuffer
<1> QED
  BY <1>2, <1>3, <1>4, <1>5, <1>6, <1>7, <1>8 DEF IInv

\* A serial PATCH finds an upload that was not taken.
LEMMA PatchStep ==
  ASSUME IInv, NEW r \in Requests, NEW u \in Uuids, Patch(r, u)
  PROVE  IInv'
<1>1. TypeFacts
  BY TypeOKFacts DEF IInv
<1>2. TypeOK'
  BY <1>1 DEF Patch, Arrives, Become, IInv, TypeOK, TypeFacts, RequestState
<1>3. UnusedIsFresh'
  BY <1>1 DEF Patch, Become, IInv, TypeOK, TypeFacts, UnusedIsFresh, Uses
<1>4. TakenMatches'
  BY <1>1 DEF Patch, Become, IInv, TypeOK, TypeFacts, TakenMatches, TakenTwice
<1>5. SerialUse'
  <2>1. u \notin overlaps' => \A s \in Requests : ~Uses(s, u)
    BY DEF Patch, Arrives
  <2>3. \A w \in Uuids : w \notin overlaps' => w \notin overlaps
    BY DEF Patch, Arrives
  <2>2. (\A s \in Requests : ~Uses(s, u)) => takes[u] = 0
    <3>1. takes[u] \in Nat
      BY DEF IInv, TypeOK
    <3>2. takes[u] > 0 => \E s \in Requests : Uses(s, u)
      BY DEF Patch, IInv, TakenUploadIsUnreachable, Uses
    <3> QED
      BY <3>1, <3>2
  <2> QED
    BY <1>1, <2>1, <2>2, <2>3
       DEF Patch, Become, IInv, TypeOK, TypeFacts, SerialUse, Uses, TakenTwice
<1>6. TakenUploadIsUnreachable'
  BY <1>1 DEF Patch, Become, IInv, TypeOK, TypeFacts, TakenUploadIsUnreachable
<1>7. HasherFollowsBuffer' /\ WrongContentNeedsSecondTake'
  BY DEF Patch, Become, IInv, HasherFollowsBuffer,
         WrongContentNeedsSecondTake, ContentMatchesDigest
<1> QED
  BY <1>2, <1>3, <1>4, <1>5, <1>6, <1>7 DEF IInv

\* A serial PUT finds an upload that was not taken.
LEMMA PutStep ==
  ASSUME IInv, NEW r \in Requests, NEW u \in Uuids, NEW d \in Digests, Put(r, u, d)
  PROVE  IInv'
<1>1. TypeFacts
  BY TypeOKFacts DEF IInv
<1>2. TypeOK'
  BY <1>1 DEF Put, Arrives, Become, IInv, TypeOK, TypeFacts, RequestState
<1>3. UnusedIsFresh'
  BY <1>1 DEF Put, Become, IInv, TypeOK, TypeFacts, UnusedIsFresh, Uses
<1>4. TakenMatches'
  BY <1>1 DEF Put, Become, IInv, TypeOK, TypeFacts, TakenMatches, TakenTwice
<1>5. SerialUse'
  <2>1. u \notin overlaps' => \A s \in Requests : ~Uses(s, u)
    BY DEF Put, Arrives
  <2>3. \A w \in Uuids : w \notin overlaps' => w \notin overlaps
    BY DEF Put, Arrives
  <2>2. (\A s \in Requests : ~Uses(s, u)) => takes[u] = 0
    <3>1. takes[u] \in Nat
      BY DEF IInv, TypeOK
    <3>2. takes[u] > 0 => \E s \in Requests : Uses(s, u)
      BY DEF Put, IInv, TakenUploadIsUnreachable, Uses
    <3> QED
      BY <3>1, <3>2
  <2> QED
    BY <1>1, <2>1, <2>2, <2>3
       DEF Put, Become, IInv, TypeOK, TypeFacts, SerialUse, Uses, TakenTwice
<1>6. TakenUploadIsUnreachable'
  BY <1>1 DEF Put, Become, IInv, TypeOK, TypeFacts, TakenUploadIsUnreachable
<1>7. HasherFollowsBuffer' /\ WrongContentNeedsSecondTake'
  BY DEF Put, Become, IInv, HasherFollowsBuffer, WrongContentNeedsSecondTake,
         ContentMatchesDigest
<1> QED
  BY <1>2, <1>3, <1>4, <1>5, <1>6, <1>7 DEF IInv

\* A PATCH appends to the hasher and to the buffer alike.
LEMMA PatchBodyStep ==
  ASSUME IInv, NEW r \in Requests, NEW chunk \in Chunks, PatchBody(r, chunk)
  PROVE  IInv'
<1>1. TypeFacts
  BY TypeOKFacts DEF IInv
<1>2. TypeOK'
  <2>1. /\ inner[requests[r].uuid].hasher \o chunk \in Seq(Bytes)
        /\ inner[requests[r].uuid].buf \o chunk \in Seq(Bytes)
    BY <1>1, ChunkIsSeq DEF PatchBody, IInv, TypeOK, TypeFacts
  <2>2. inner' \in [Uuids -> [created : BOOLEAN, buf : Seq(Bytes), hasher : Seq(Bytes)]]
    BY <1>1, <2>1 DEF PatchBody, IInv, TypeOK, TypeFacts
  <2>3. requests' \in [Requests -> RequestState]
    BY <1>1, <2>1 DEF PatchBody, Become, IInv, TypeOK, TypeFacts, RequestState
  <2> QED
    BY <1>1, <2>2, <2>3 DEF PatchBody, IInv, TypeOK, TypeFacts
<1>3. UnusedIsFresh'
  BY <1>1 DEF PatchBody, Become, IInv, TypeOK, TypeFacts, UnusedIsFresh, Uses
<1>4. HasherFollowsBuffer'
  BY <1>1 DEF PatchBody, Become, IInv, TypeOK, TypeFacts, HasherFollowsBuffer
<1>5. TakenMatches'
  BY <1>1
     DEF PatchBody, Become, IInv, TypeOK, TypeFacts, TakenMatches, TakenTwice
<1>6. SerialUse'
  BY <1>1
     DEF PatchBody, Become, IInv, TypeOK, TypeFacts, SerialUse, Uses,
         TakenTwice
<1>7. TakenUploadIsUnreachable'
  BY <1>1
     DEF PatchBody, Become, IInv, TypeOK, TypeFacts, TakenUploadIsUnreachable
<1>8. WrongContentNeedsSecondTake'
  BY DEF PatchBody, Become, IInv, WrongContentNeedsSecondTake,
         ContentMatchesDigest
<1> QED
  BY <1>2, <1>3, <1>4, <1>5, <1>6, <1>7, <1>8 DEF IInv

\* A PUT with a wrong digest appends to the hasher and to the buffer alike.
LEMMA PutMismatchStep ==
  ASSUME IInv, NEW r \in Requests, NEW chunk \in Chunks, PutMismatch(r, chunk)
  PROVE  IInv'
<1>1. TypeFacts
  BY TypeOKFacts DEF IInv
<1>2. TypeOK'
  <2>1. /\ inner[requests[r].uuid].hasher \o chunk \in Seq(Bytes)
        /\ inner[requests[r].uuid].buf \o chunk \in Seq(Bytes)
    BY <1>1, ChunkIsSeq DEF PutMismatch, IInv, TypeOK, TypeFacts
  <2>2. inner' \in [Uuids -> [created : BOOLEAN, buf : Seq(Bytes), hasher : Seq(Bytes)]]
    BY <1>1, <2>1 DEF PutMismatch, IInv, TypeOK, TypeFacts
  <2>3. requests' \in [Requests -> RequestState]
    BY <1>1, <2>1
       DEF PutMismatch, Become, IInv, TypeOK, TypeFacts, RequestState
  <2> QED
    BY <1>1, <2>2, <2>3 DEF PutMismatch, IInv, TypeOK, TypeFacts
<1>3. UnusedIsFresh'
  BY <1>1
     DEF PutMismatch, Become, IInv, TypeOK, TypeFacts, UnusedIsFresh, Uses
<1>4. HasherFollowsBuffer'
  BY <1>1
     DEF PutMismatch, Become, IInv, TypeOK, TypeFacts, HasherFollowsBuffer
<1>5. TakenMatches'
  BY <1>1
     DEF PutMismatch, Become, IInv, TypeOK, TypeFacts, TakenMatches,
         TakenTwice
<1>6. SerialUse'
  BY <1>1
     DEF PutMismatch, Become, IInv, TypeOK, TypeFacts, SerialUse, Uses,
         TakenTwice
<1>7. TakenUploadIsUnreachable'
  BY <1>1
     DEF PutMismatch, Become, IInv, TypeOK, TypeFacts,
         TakenUploadIsUnreachable
<1>8. WrongContentNeedsSecondTake'
  BY DEF PutMismatch, Become, IInv, WrongContentNeedsSecondTake,
         ContentMatchesDigest
<1> QED
  BY <1>2, <1>3, <1>4, <1>5, <1>6, <1>7, <1>8 DEF IInv

\* A PUT takes the buffer that was hashed, or it is the second to take.
LEMMA PutMatchStep ==
  ASSUME IInv, NEW r \in Requests, NEW chunk \in Chunks, PutMatch(r, chunk)
  PROVE  IInv'
<1>1. TypeFacts
  BY TypeOKFacts DEF IInv
<1>2. TypeOK'
  <2>1. /\ inner[requests[r].uuid].hasher \o chunk \in Seq(Bytes)
        /\ inner[requests[r].uuid].buf \o chunk \in Seq(Bytes)
    BY <1>1, ChunkIsSeq DEF PutMatch, IInv, TypeOK, TypeFacts
  <2>2. inner' \in [Uuids -> [created : BOOLEAN, buf : Seq(Bytes), hasher : Seq(Bytes)]]
    <3>1. \A u \in Uuids : inner[u] \in [created : BOOLEAN, buf : Seq(Bytes), hasher : Seq(Bytes)]
      BY DEF IInv, TypeOK
    <3>2. <<>> \in Seq(Bytes)
      OBVIOUS
    <3>3. \A u \in Uuids :
            [inner[u] EXCEPT !.hasher = inner[requests[r].uuid].hasher \o chunk, !.buf = <<>>]
              \in [created : BOOLEAN, buf : Seq(Bytes), hasher : Seq(Bytes)]
      BY <2>1, <3>1, <3>2
    <3> QED
      BY <1>1, <3>1, <3>3 DEF PutMatch, IInv, TypeOK, TypeFacts
  <2>3. requests' \in [Requests -> RequestState]
    BY <1>1, <2>1 DEF PutMatch, Become, IInv, TypeOK, TypeFacts, RequestState
  <2> QED
    BY <1>1, <2>2, <2>3 DEF PutMatch, IInv, TypeOK, TypeFacts
<1>3. UnusedIsFresh'
  BY <1>1 DEF PutMatch, Become, IInv, TypeOK, TypeFacts, UnusedIsFresh, Uses
<1>4. HasherFollowsBuffer'
  BY <1>1 DEF PutMatch, Become, IInv, TypeOK, TypeFacts, HasherFollowsBuffer
<1>5. TakenMatches'
  BY <1>1
     DEF PutMatch, Become, IInv, TypeOK, TypeFacts, TakenMatches, TakenTwice,
         HasherFollowsBuffer
<1>6. SerialUse'
  BY <1>1
     DEF PutMatch, Become, IInv, TypeOK, TypeFacts, SerialUse, Uses,
         TakenTwice
<1>7. WrongContentNeedsSecondTake'
  BY <1>1
     DEF PutMatch, Become, IInv, TypeOK, TypeFacts,
         WrongContentNeedsSecondTake, ContentMatchesDigest
<1>8. TakenUploadIsUnreachable'
  BY <1>1
     DEF PutMatch, Become, IInv, TypeOK, TypeFacts, TakenUploadIsUnreachable
<1> QED
  BY <1>2, <1>3, <1>4, <1>5, <1>6, <1>7, <1>8 DEF IInv

\* After uploads.remove the taken upload is out of reach.
LEMMA PutRemoveStep ==
  ASSUME IInv, NEW r \in Requests, PutRemove(r)
  PROVE  IInv'
<1>1. TypeFacts
  BY TypeOKFacts DEF IInv
<1>2. TypeOK'
  <2>1. requests[r] \in [pc : {"remove", "insert"}, uuid : Uuids, digest : Digests, buf : Seq(Bytes)]
    BY DEF PutRemove, IInv, TypeOK, RequestState
  <2>2. [requests[r] EXCEPT !.pc = "insert"] \in RequestState
    BY <2>1 DEF RequestState
  <2> QED
    BY <1>1, <2>2 DEF PutRemove, Become, IInv, TypeOK, TypeFacts
<1>3. UnusedIsFresh'
  BY <1>1 DEF PutRemove, Become, IInv, TypeOK, TypeFacts, UnusedIsFresh, Uses
<1>4. TakenMatches'
  BY <1>1
     DEF PutRemove, Become, IInv, TypeOK, TypeFacts, TakenMatches, TakenTwice
<1>5. SerialUse'
  BY <1>1
     DEF PutRemove, Become, IInv, TypeOK, TypeFacts, SerialUse, Uses,
         TakenTwice
<1>6. TakenUploadIsUnreachable'
  BY <1>1
     DEF PutRemove, Become, IInv, TypeOK, TypeFacts, TakenUploadIsUnreachable
<1>7. HasherFollowsBuffer' /\ WrongContentNeedsSecondTake'
  BY DEF PutRemove, Become, IInv, HasherFollowsBuffer,
         WrongContentNeedsSecondTake, ContentMatchesDigest
<1> QED
  BY <1>2, <1>3, <1>4, <1>5, <1>6, <1>7 DEF IInv

\* What a PUT inserts was compared, or some upload was taken twice.
LEMMA PutInsertStep ==
  ASSUME IInv, NEW r \in Requests, PutInsert(r)
  PROVE  IInv'
<1>1. TypeFacts
  BY TypeOKFacts DEF IInv
<1>2. TypeOK'
  BY <1>1 DEF PutInsert, Become, IInv, TypeOK, TypeFacts, RequestState
<1>3. UnusedIsFresh'
  BY <1>1 DEF PutInsert, Become, IInv, TypeOK, TypeFacts, UnusedIsFresh, Uses
<1>4. TakenMatches'
  BY <1>1
     DEF PutInsert, Become, IInv, TypeOK, TypeFacts, TakenMatches, TakenTwice
<1>5. SerialUse'
  BY <1>1
     DEF PutInsert, Become, IInv, TypeOK, TypeFacts, SerialUse, Uses,
         TakenTwice
<1>6. WrongContentNeedsSecondTake'
  BY <1>1
     DEF PutInsert, Become, IInv, TypeOK, TypeFacts,
         WrongContentNeedsSecondTake, ContentMatchesDigest, TakenMatches,
         TakenTwice
<1>7. TakenUploadIsUnreachable'
  BY <1>1
     DEF PutInsert, Become, IInv, TypeOK, TypeFacts, TakenUploadIsUnreachable
<1>8. HasherFollowsBuffer'
  BY DEF PutInsert, Become, IInv, HasherFollowsBuffer
<1> QED
  BY <1>2, <1>3, <1>4, <1>5, <1>6, <1>7, <1>8 DEF IInv

\* A request whose body is lost changes nothing.
LEMMA BodyLostStep ==
  ASSUME IInv, NEW r \in Requests, BodyLost(r)
  PROVE  IInv'
<1>1. TypeFacts
  BY TypeOKFacts DEF IInv
<1>2. TypeOK'
  BY <1>1 DEF BodyLost, Become, IInv, TypeOK, TypeFacts, RequestState
<1>3. UnusedIsFresh'
  BY <1>1 DEF BodyLost, Become, IInv, TypeOK, TypeFacts, UnusedIsFresh, Uses
<1>4. TakenMatches'
  BY <1>1
     DEF BodyLost, Become, IInv, TypeOK, TypeFacts, TakenMatches, TakenTwice
<1>5. SerialUse'
  BY <1>1
     DEF BodyLost, Become, IInv, TypeOK, TypeFacts, SerialUse, Uses,
         TakenTwice
<1>6. TakenUploadIsUnreachable'
  BY <1>1
     DEF BodyLost, Become, IInv, TypeOK, TypeFacts, TakenUploadIsUnreachable
<1>7. HasherFollowsBuffer' /\ WrongContentNeedsSecondTake'
  BY DEF BodyLost, Become, IInv, HasherFollowsBuffer,
         WrongContentNeedsSecondTake, ContentMatchesDigest
<1> QED
  BY <1>2, <1>3, <1>4, <1>5, <1>6, <1>7 DEF IInv

\* Eviction removes a content.
LEMMA EvictStep ==
  ASSUME IInv, NEW d \in Digests, Evict(d)
  PROVE  IInv'
<1>1. TypeFacts
  BY TypeOKFacts DEF IInv
<1>2. TypeOK'
  BY <1>1 DEF Evict, IInv, TypeOK, TypeFacts
<1>3. WrongContentNeedsSecondTake'
  BY <1>1
     DEF Evict, IInv, TypeOK, TypeFacts, WrongContentNeedsSecondTake,
         ContentMatchesDigest
<1>4. UnusedIsFresh' /\ HasherFollowsBuffer' /\ TakenMatches' /\ SerialUse' /\ TakenUploadIsUnreachable'
  BY DEF Evict, IInv, UnusedIsFresh, Uses, HasherFollowsBuffer, TakenMatches,
         TakenTwice, SerialUse, TakenUploadIsUnreachable
<1> QED
  BY <1>2, <1>3, <1>4 DEF IInv

-----------------------------------------------------------------------------
\* The invariant holds before the first request.
LEMMA InitIInv == Init => IInv
<1> SUFFICES ASSUME Init PROVE IInv
  OBVIOUS
<1>1. TypeOK
  BY DEF Init, TypeOK, Fresh, RequestState
<1>2. UnusedIsFresh /\ HasherFollowsBuffer
  BY DEF Init, Fresh, UnusedIsFresh, HasherFollowsBuffer, Uses
<1>3. TakenMatches /\ SerialUse
  BY DEF Init, TakenMatches, SerialUse, Uses, TakenTwice
<1>4. WrongContentNeedsSecondTake /\ TakenUploadIsUnreachable
  BY DEF Init, WrongContentNeedsSecondTake, ContentMatchesDigest, TakenUploadIsUnreachable
<1> QED
  BY <1>1, <1>2, <1>3, <1>4 DEF IInv

\* Every step of every handler preserves the invariant.
LEMMA NextIInv == IInv /\ [Next]_vars => IInv'
<1> SUFFICES ASSUME IInv, [Next]_vars PROVE IInv'
  OBVIOUS
<1>1. CASE \E u \in Uuids : PostCreate(u) \/ Delete(u)
  BY <1>1, PostCreateStep, DeleteStep
<1>2. CASE \E r \in Requests, d \in Digests : PostSingle(r, d)
  BY <1>2, PostSingleStep
<1>3. CASE \E r \in Requests, body \in Contents : PostSingleBody(r, body)
  BY <1>3, PostSingleBodyStep
<1>4. CASE \E r \in Requests, u \in Uuids : Patch(r, u)
  BY <1>4, PatchStep
<1>5. CASE \E r \in Requests, u \in Uuids, d \in Digests : Put(r, u, d)
  BY <1>5, PutStep
<1>6. CASE \E r \in Requests, chunk \in Chunks :
             PatchBody(r, chunk) \/ PutMismatch(r, chunk) \/ PutMatch(r, chunk)
  BY <1>6, PatchBodyStep, PutMismatchStep, PutMatchStep
<1>7. CASE \E r \in Requests : PutRemove(r) \/ PutInsert(r) \/ BodyLost(r)
  BY <1>7, PutRemoveStep, PutInsertStep, BodyLostStep
<1>8. CASE \E d \in Digests : Evict(d)
  BY <1>8, EvictStep
<1>9. CASE UNCHANGED vars
  BY <1>9 DEF IInv, vars, TypeOK, UnusedIsFresh, HasherFollowsBuffer, TakenMatches, TakenTwice,
              SerialUse, Uses, WrongContentNeedsSecondTake, ContentMatchesDigest,
              TakenUploadIsUnreachable
<1> QED
  BY <1>1, <1>2, <1>3, <1>4, <1>5, <1>6, <1>7, <1>8, <1>9 DEF Next

\* The inductive invariant holds in every behaviour of the upload handlers.
THEOREM UploadsInvariant == Spec => []IInv
BY InitIInv, NextIInv, PTL DEF Spec

\* Every state of the uploads and of their handlers is well typed.
THEOREM TypeCorrect == Spec => []TypeOK
<1>1. IInv => TypeOK
  BY DEF IInv
<1> QED
  BY <1>1, UploadsInvariant, PTL

\* However requests overlap, put_blob_upload (docker.rs) stores a content
\* under a wrong digest only after the buffer of an upload was taken twice.
THEOREM WrongContentTakesTwo == Spec => []WrongContentNeedsSecondTake
<1>1. IInv => WrongContentNeedsSecondTake
  BY DEF IInv
<1> QED
  BY <1>1, UploadsInvariant, PTL

\* Once put_blob_upload is past uploads.remove, no request finds the upload
\* whose buffer it took.
THEOREM TakenUploadsAreGone == Spec => []TakenUploadIsUnreachable
<1>1. IInv => TakenUploadIsUnreachable
  BY DEF IInv
<1> QED
  BY <1>1, UploadsInvariant, PTL

\* As long as clients have one request per upload under way, everything the
\* upload handlers store under a digest has that digest.
THEOREM SerialUploadsAreVerified == Spec => []SerialContentMatchesDigest
<1>1. IInv => SerialContentMatchesDigest
  <2> SUFFICES ASSUME IInv, overlaps = {} PROVE ContentMatchesDigest
    BY DEF SerialContentMatchesDigest
  <2>1. \A u \in Uuids : takes[u] \in Nat /\ takes[u] <= 1
    BY DEF IInv, TypeOK, SerialUse
  <2> QED
    BY <2>1 DEF IInv, WrongContentNeedsSecondTake
<1> QED
  BY <1>1, UploadsInvariant, PTL
=============================================================================
