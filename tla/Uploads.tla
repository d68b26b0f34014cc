------------------------------ MODULE Uploads ------------------------------
(***************************************************************************)
(* Blob uploads to the `self` registry (docker.rs).  A client POSTs to     *)
(* create an upload, PATCHes chunks into it and PUTs the digest to         *)
(* finalize it, or sends everything in one POST.  The handlers of one      *)
(* upload run as separate tasks: each clones the Arc of the upload out of  *)
(* the map, awaits its request body, and only then takes the upload's      *)
(* mutex, so an upload can be used after it has been finalized, cancelled  *)
(* or removed.                                                             *)
(*                                                                         *)
(* Bodies and contents are sequences over a small alphabet; SHA-256 is an  *)
(* injective constructor.  Where a blob goes after insert_blob is the      *)
(* subject of the module TwoTierStore.                                     *)
(***************************************************************************)
EXTENDS Naturals, Sequences

CONSTANTS
  Bytes,     \* the alphabet
  MaxLen,    \* bound on the length of a content
  Uuids,     \* upload ids that may be handed out
  Requests,  \* concurrently running request handlers
  NoBlob     \* no content cached under a digest

ASSUME MaxLenAssumption == MaxLen \in Nat
ASSUME NoBlobAssumption == NoBlob \notin Seq(Bytes)

VARIABLES
  uploads,   \* keys of State::uploads
  inner,     \* UploadInner of every upload created, map entry or not
  blobs,     \* digest -> content, the InMemory blobs inserted
  requests,  \* what each handler is doing
  takes,     \* history: how often the buffer of an upload was taken
  overlaps   \* history: uploads used while another request for them ran

vars == <<uploads, inner, blobs, requests, takes, overlaps>>

Contents  == UNION {[1 .. n -> Bytes] : n \in 0 .. MaxLen}
Chunks    == {<<>>} \cup {<<b>> : b \in Bytes}
Sha256(s) == [sha256 |-> s]
Digests   == {Sha256(s) : s \in Contents}

Fresh == [created |-> FALSE, buf |-> <<>>, hasher |-> <<>>]
Idle  == [pc |-> "idle"]

\* "patch", "put" and "single" await the body; "remove" and "insert" are the
\* rest of a PUT once the mutex is released.
RequestState ==
  {Idle}
  \cup [pc : {"patch"}, uuid : Uuids]
  \cup [pc : {"put"}, uuid : Uuids, digest : Digests]
  \cup [pc : {"single"}, digest : Digests]
  \cup [pc : {"remove", "insert"}, uuid : Uuids, digest : Digests, buf : Seq(Bytes)]

Init ==
  /\ uploads = {}
  /\ inner = [u \in Uuids |-> Fresh]
  /\ blobs = [d \in Digests |-> NoBlob]
  /\ requests = [r \in Requests |-> Idle]
  /\ takes = [u \in Uuids |-> 0]
  /\ overlaps = {}

-----------------------------------------------------------------------------
Become(r, s) == requests' = [requests EXCEPT ![r] = s]

\* Handlers that hold the Arc of upload u.
Uses(r, u) == requests[r].pc \in {"patch", "put", "remove", "insert"} /\ requests[r].uuid = u

\* A request for upload u arrives; a client that waits for every answer
\* never has two of them under way.
Arrives(u) ==
  overlaps' = overlaps \cup (IF \E r \in Requests : Uses(r, u) THEN {u} ELSE {})

\* POST without ?digest: a fresh uuid and empty upload state.
PostCreate(u) ==
  /\ ~inner[u].created
  /\ uploads' = uploads \cup {u}
  /\ inner' = [inner EXCEPT ![u].created = TRUE]
  /\ UNCHANGED <<blobs, requests, takes, overlaps>>

\* POST with ?digest: the body is the whole blob.
PostSingle(r, d) ==
  /\ requests[r].pc = "idle"
  /\ Become(r, [pc |-> "single", digest |-> d])
  /\ UNCHANGED <<uploads, inner, blobs, takes, overlaps>>

\* The blob is inserted when the body has the digest; a 400 otherwise.
PostSingleBody(r, body) ==
  /\ requests[r].pc = "single"
  /\ blobs' = IF Sha256(body) = requests[r].digest
              THEN [blobs EXCEPT ![requests[r].digest] = body] ELSE blobs
  /\ Become(r, Idle)
  /\ UNCHANGED <<uploads, inner, takes, overlaps>>

\* PATCH: the upload is looked up, then the body is awaited.
Patch(r, u) ==
  /\ requests[r].pc = "idle"
  /\ u \in uploads
  /\ Arrives(u)
  /\ Become(r, [pc |-> "patch", uuid |-> u])
  /\ UNCHANGED <<uploads, inner, blobs, takes>>

\* The body is appended to the hasher and to the buffer under the mutex.
PatchBody(r, chunk) ==
  /\ requests[r].pc = "patch"
  /\ Len(inner[requests[r].uuid].hasher \o chunk) <= MaxLen
  /\ inner' = [inner EXCEPT ![requests[r].uuid].hasher = @ \o chunk,
                            ![requests[r].uuid].buf = @ \o chunk]
  /\ Become(r, Idle)
  /\ UNCHANGED <<uploads, blobs, takes, overlaps>>

\* PUT: the upload is looked up, not removed, then the body is awaited.
Put(r, u, d) ==
  /\ requests[r].pc = "idle"
  /\ u \in uploads
  /\ Arrives(u)
  /\ Become(r, [pc |-> "put", uuid |-> u, digest |-> d])
  /\ UNCHANGED <<uploads, inner, blobs, takes>>

\* Under the mutex: the last chunk is appended, the hash compared.
PutMismatch(r, chunk) ==
  /\ requests[r].pc = "put"
  /\ LET u == requests[r].uuid IN
       /\ Len(inner[u].hasher \o chunk) <= MaxLen
       /\ Sha256(inner[u].hasher \o chunk) # requests[r].digest
       /\ inner' = [inner EXCEPT ![u].hasher = @ \o chunk, ![u].buf = @ \o chunk]
  /\ Become(r, Idle)
  /\ UNCHANGED <<uploads, blobs, takes, overlaps>>

PutMatchUnchecked(r, chunk) ==
  /\ requests[r].pc = "put"
  /\ LET u == requests[r].uuid IN
       /\ Len(inner[u].hasher \o chunk) <= MaxLen
       /\ inner' = [inner EXCEPT ![u].hasher = @ \o chunk, ![u].buf = <<>>]
       /\ takes' = [takes EXCEPT ![u] = @ + 1]
       /\ Become(r, [pc |-> "remove", uuid |-> u, digest |-> requests[r].digest,
                     buf |-> inner[u].buf \o chunk])
  /\ UNCHANGED <<uploads, blobs, overlaps>>

\* The buffer is taken out of the upload; the hasher stays as it is.
PutMatch(r, chunk) ==
  /\ requests[r].pc = "put"
  /\ LET u == requests[r].uuid IN
       /\ Len(inner[u].hasher \o chunk) <= MaxLen
       /\ Sha256(inner[u].hasher \o chunk) = requests[r].digest
       /\ inner' = [inner EXCEPT ![u].hasher = @ \o chunk, ![u].buf = <<>>]
       /\ takes' = [takes EXCEPT ![u] = @ + 1]
       /\ Become(r, [pc |-> "remove", uuid |-> u, digest |-> requests[r].digest,
                     buf |-> inner[u].buf \o chunk])
  /\ UNCHANGED <<uploads, blobs, overlaps>>

PutRemoveTakesRest(r) ==
  /\ requests[r].pc = "remove"
  /\ uploads' = uploads \ {requests[r].uuid}
  /\ Become(r, [requests[r] EXCEPT !.pc = "insert",
                                   !.buf = @ \o inner[requests[r].uuid].buf])
  /\ UNCHANGED <<inner, blobs, takes, overlaps>>

PutRemoveForgotten(r) ==
  /\ requests[r].pc = "remove"
  /\ Become(r, [requests[r] EXCEPT !.pc = "insert"])
  /\ UNCHANGED <<uploads, inner, blobs, takes, overlaps>>

\* uploads.remove, then insert_blob, after the mutex was released.
PutRemove(r) ==
  /\ requests[r].pc = "remove"
  /\ uploads' = uploads \ {requests[r].uuid}
  /\ Become(r, [requests[r] EXCEPT !.pc = "insert"])
  /\ UNCHANGED <<inner, blobs, takes, overlaps>>

PutInsert(r) ==
  /\ requests[r].pc = "insert"
  /\ blobs' = [blobs EXCEPT ![requests[r].digest] = requests[r].buf]
  /\ Become(r, Idle)
  /\ UNCHANGED <<uploads, inner, takes, overlaps>>

\* read_body fails (the client is gone): the handler returns the error.
BodyLost(r) ==
  /\ requests[r].pc \in {"patch", "put", "single"}
  /\ Become(r, Idle)
  /\ UNCHANGED <<uploads, inner, blobs, takes, overlaps>>

\* DELETE: the upload leaves the map; running handlers keep their Arc.
Delete(u) ==
  /\ u \in uploads
  /\ Arrives(u)
  /\ uploads' = uploads \ {u}
  /\ UNCHANGED <<inner, blobs, requests, takes>>

\* A blob leaves the cache (eviction).
Evict(d) ==
  /\ blobs[d] # NoBlob
  /\ blobs' = [blobs EXCEPT ![d] = NoBlob]
  /\ UNCHANGED <<uploads, inner, requests, takes, overlaps>>

Next ==
  \/ \E u \in Uuids : PostCreate(u) \/ Delete(u)
  \/ \E r \in Requests :
       \/ \E d \in Digests : PostSingle(r, d)
       \/ \E body \in Contents : PostSingleBody(r, body)
       \/ \E u \in Uuids : Patch(r, u)
       \/ \E u \in Uuids, d \in Digests : Put(r, u, d)
       \/ \E chunk \in Chunks : PatchBody(r, chunk) \/ PutMismatch(r, chunk) \/ PutMatch(r, chunk)
       \/ PutRemove(r) \/ PutInsert(r) \/ BodyLost(r)
  \/ \E d \in Digests : Evict(d)

Spec == Init /\ [][Next]_vars

-----------------------------------------------------------------------------
\* The type of the state: an upload's buffer and hasher are byte sequences,
\* every handler is at one of the awaits of its request.
TypeOK ==
  /\ uploads \in SUBSET Uuids
  /\ inner \in [Uuids -> [created : BOOLEAN, buf : Seq(Bytes), hasher : Seq(Bytes)]]
  /\ blobs \in [Digests -> Seq(Bytes) \cup {NoBlob}]
  /\ requests \in [Requests -> RequestState]
  /\ takes \in [Uuids -> Nat]
  /\ overlaps \in SUBSET Uuids

\* What is cached under a digest has that digest: every insert_blob of an
\* upload comes after a comparison that covers the very bytes inserted
\* (docker.rs:945: "Hash matches - now it's safe to consume the upload
\* state").
ContentMatchesDigest ==
  \A d \in Digests : blobs[d] # NoBlob => Sha256(blobs[d]) = d

\* Clients that wait for every answer before they use an upload again store
\* only contents that have their digest, whatever bodies are lost, PUTs
\* mismatch and uploads are cancelled.
SerialContentMatchesDigest == overlaps = {} => ContentMatchesDigest

\* However requests overlap, a content that does not have its digest comes
\* from an upload whose buffer was taken twice: lost bodies, cancellations,
\* mismatches and retries alone never store wrong bytes.
WrongContentNeedsSecondTake ==
  ContentMatchesDigest \/ \E u \in Uuids : takes[u] > 1

\* An upload whose buffer is gone cannot be looked up any more once its PUT
\* has got past uploads.remove.
TakenUploadIsUnreachable ==
  \A u \in uploads : takes[u] > 0 =>
    \E r \in Requests : requests[r].pc = "remove" /\ requests[r].uuid = u

-----------------------------------------------------------------------------
(***************************************************************************)
(* The inductive invariant.                                                *)
(***************************************************************************)
\* Until the buffer is taken, the hasher has seen exactly the buffer.
HasherFollowsBuffer ==
  \A u \in Uuids : takes[u] = 0 => inner[u].hasher = inner[u].buf

TakenTwice == \E u \in Uuids : takes[u] > 1

\* What a PUT is about to insert has been compared, unless its upload was
\* already taken when it was.
TakenMatches ==
  \A r \in Requests : requests[r].pc \in {"remove", "insert"} =>
    Sha256(requests[r].buf) = requests[r].digest \/ TakenTwice

\* What serial clients add: as long as no two requests for an upload ran at
\* once, two handlers never share it, one that awaits its body is ahead of
\* every taking of the buffer, and the buffer is taken once.
SerialUse ==
  \A u \in Uuids : u \notin overlaps =>
    /\ \A r, s \in Requests : Uses(r, u) /\ Uses(s, u) => r = s
    /\ \A r \in Requests :
         requests[r].pc \in {"patch", "put"} /\ requests[r].uuid = u => takes[u] = 0
    /\ takes[u] <= 1

\* An id that was never handed out is in nobody's hands.
UnusedIsFresh ==
  \A u \in Uuids : ~inner[u].created =>
    u \notin uploads /\ takes[u] = 0 /\ \A r \in Requests : ~Uses(r, u)

IInv ==
  /\ TypeOK
  /\ UnusedIsFresh
  /\ HasherFollowsBuffer
  /\ TakenMatches
  /\ SerialUse
  /\ WrongContentNeedsSecondTake
  /\ TakenUploadIsUnreachable
=============================================================================
