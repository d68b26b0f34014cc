-------------------------------- MODULE Pull --------------------------------
(***************************************************************************)
(* Pull-through requests: manifests by tag or by digest                    *)
(* (get_head_manifest) and blobs (get_head_blob), on top of the upstream   *)
(* requests of UpstreamAuth and the fills of BlobFill.  A tag is resolved  *)
(* by a HEAD request upstream, every time; the manifest is then looked up  *)
(* in the cache and, on a miss, fetched by its digest.  Upstream moves its *)
(* tag whenever it likes.  Every request is made once.                     *)
(***************************************************************************)
EXTENDS UpstreamAuth, BlobFill

CONSTANTS
  Mixes,       \* what the requests are for: functions from Reqs to Kinds
  Manifests,   \* digests of upstream manifests; the content of m is written m
  NoBody,      \* no manifest is cached under a digest
  Unresolved   \* the digest of a request that has not resolved its tag

Kinds == {"tag", "digest", "blob"}

ASSUME MixesAssumption == Mixes \subseteq [Reqs -> Kinds]
ASSUME FetchesAssumption == Fetches = Reqs
ASSUME NoBodyAssumption == NoBody \notin Manifests /\ Unresolved \notin Manifests

VARIABLES
  upTag,       \* upstream: the digest its tag stands for
  manifests,   \* State::manifests: digest -> content
  pulls,       \* the requests
  tagSeen      \* history: what upTag has been since the request began

pullVars == <<upTag, manifests, pulls, tagSeen>>
vars     == <<authVars, fillVars, pullVars>>

\* "resolving", "getting" and "fetching" await upstream_pull_request; a
\* "streaming" request is left to its fill.
PullPc == {"idle", "resolving", "getting", "fetching", "streaming", "replied", "failed"}

Init ==
  /\ AuthInit
  /\ FillInit
  /\ upTag \in Manifests
  /\ manifests = [m \in Manifests |-> NoBody]
  /\ \E mix \in Mixes :
       pulls = [r \in Reqs |-> [kind |-> mix[r], pc |-> "idle", digest |-> Unresolved]]
  /\ tagSeen = [r \in Reqs |-> {}]

Now(r, pc) == pulls' = [pulls EXCEPT ![r].pc = pc]

-----------------------------------------------------------------------------
(***************************************************************************)
(* Manifests.                                                              *)
(***************************************************************************)
Hits(m) == manifests[m] # NoBody

StartTagFromCache(r) ==
  /\ pulls[r].kind = "tag" /\ pulls[r].pc = "idle"
  /\ tagSeen' = [tagSeen EXCEPT ![r] = {upTag}]
  /\ \/ /\ \A m \in Manifests : ~Hits(m)
        /\ Now(r, "resolving")
        /\ CallStart(r)
     \/ \E m \in Manifests :
          /\ Hits(m)
          /\ pulls' = [pulls EXCEPT ![r].pc = "replied", ![r].digest = m]
          /\ UNCHANGED authVars
  /\ UNCHANGED <<fillVars, upTag, manifests>>

\* A tag of another host is resolved upstream, whatever is cached.
StartTag(r) ==
  /\ pulls[r].kind = "tag" /\ pulls[r].pc = "idle"
  /\ tagSeen' = [tagSeen EXCEPT ![r] = {upTag}]
  /\ Now(r, "resolving")
  /\ CallStart(r)
  /\ UNCHANGED <<fillVars, upTag, manifests>>

\* The digest is known: the cache answers, or the manifest is requested.
Lookup(r, m) ==
  \/ /\ Hits(m)
     /\ pulls' = [pulls EXCEPT ![r].pc = "replied", ![r].digest = m]
     /\ CallReturns(r)
  \/ /\ ~Hits(m)
     /\ pulls' = [pulls EXCEPT ![r].pc = "getting", ![r].digest = m]
     /\ CallStart(r)

\* The HEAD response names the digest.
Resolved(r) ==
  /\ pulls[r].pc = "resolving"
  /\ calls[r].pc = "ok"
  /\ Lookup(r, upTag)
  /\ UNCHANGED <<fillVars, upTag, manifests, tagSeen>>

StartDigest(r, m) ==
  /\ pulls[r].kind = "digest" /\ pulls[r].pc = "idle"
  /\ Lookup(r, m)
  /\ UNCHANGED <<fillVars, upTag, manifests, tagSeen>>

\* GET manifests/<digest>: the body upstream sends, whatever it is, is stored
\* under the digest that was asked for; nothing hashes it.
GotManifest(r) ==
  /\ pulls[r].pc = "getting"
  /\ calls[r].pc = "ok"
  /\ \E body \in Manifests : manifests' = [manifests EXCEPT ![pulls[r].digest] = body]
  /\ Now(r, "replied")
  /\ CallReturns(r)
  /\ UNCHANGED <<fillVars, upTag, tagSeen>>

-----------------------------------------------------------------------------
(***************************************************************************)
(* Blobs.                                                                  *)
(***************************************************************************)
StartBlob(r) ==
  /\ pulls[r].kind = "blob" /\ pulls[r].pc = "idle"
  /\ \/ /\ cached # Nothing
        /\ Now(r, "replied")
        /\ UNCHANGED authVars
     \/ /\ cached = Nothing
        /\ Now(r, "fetching")
        /\ CallStart(r)
  /\ UNCHANGED <<fillVars, upTag, manifests, tagSeen>>

GotBlob(r) ==
  /\ pulls[r].pc = "fetching"
  /\ calls[r].pc = "ok"
  /\ FillStart(r)
  /\ Now(r, "streaming")
  /\ CallReturns(r)
  /\ UNCHANGED <<upTag, manifests, tagSeen>>

-----------------------------------------------------------------------------
\* The upstream request failed, or its status is no success, or the response
\* has no digest or no body.  (A HEAD of a missing blob ends like this too,
\* whatever upstream answers: it is passed on, and nothing is cached.)
PullFails(r) ==
  /\ pulls[r].pc \in {"resolving", "getting", "fetching"}
  /\ calls[r].pc \in {"ok", "unauthorized", "error", "budget"}
  /\ Now(r, "failed")
  /\ CallReturns(r)
  /\ UNCHANGED <<fillVars, upTag, manifests, tagSeen>>

\* Upstream moves its tag, as long as some request can still notice.
MoveTag(m) ==
  /\ \E r \in Reqs : pulls[r].kind = "tag" /\ pulls[r].pc \in {"idle", "resolving", "getting"}
  /\ m # upTag
  /\ upTag' = m
  /\ tagSeen' = [r \in Reqs |-> IF pulls[r].kind = "tag" /\ pulls[r].pc \in {"resolving", "getting"}
                                THEN tagSeen[r] \cup {m} ELSE tagSeen[r]]
  /\ UNCHANGED <<authVars, fillVars, manifests, pulls>>

PullStep(r) ==
  \/ StartTag(r) \/ StartBlob(r) \/ \E m \in Manifests : StartDigest(r, m)
  \/ Resolved(r) \/ GotManifest(r) \/ GotBlob(r) \/ PullFails(r)

Next ==
  \/ \E r \in Reqs : PullStep(r)
  \/ \E r \in Reqs : CallStep(r) /\ UNCHANGED <<fillVars, pullVars>>
  \/ \E r \in Reqs : (FillStep(r) \/ ClientStep(r)) /\ UNCHANGED <<authVars, pullVars>>
  \/ \E t \in valid : Expire(t) /\ UNCHANGED <<fillVars, pullVars>>
  \/ \E m \in Manifests : MoveTag(m)

Spec == Init /\ [][Next]_vars

\* A fill is a spawned task: the runtime polls it whenever its send can
\* proceed.  Nothing is assumed of upstream, of clients, of the other requests
\* or of the registry.
FairSpec ==
  /\ Spec
  /\ \A r \in Reqs : WF_vars(TaskStep(r) /\ UNCHANGED <<authVars, pullVars>>)

-----------------------------------------------------------------------------
\* The type of the state, that of the token cache and of the fills included:
\* a channel never holds more than its capacity.
TypeOK ==
  /\ AuthTypeOK
  /\ FillTypeOK
  /\ upTag \in Manifests
  /\ manifests \in [Manifests -> Manifests \cup {NoBody}]
  /\ pulls \in [Reqs -> [kind : Kinds, pc : PullPc, digest : Manifests \cup {Unresolved}]]
  /\ tagSeen \in [Reqs -> SUBSET Manifests]

\* A request for a tag is answered with a digest the tag had upstream at some
\* moment of the request, however long tokens take and whatever is cached.
TagAnswerIsCurrent ==
  \A r \in Reqs : pulls[r].kind = "tag" /\ pulls[r].pc = "replied" => pulls[r].digest \in tagSeen[r]

-----------------------------------------------------------------------------
(***************************************************************************)
(* The inductive invariant: a request that has begun to resolve a tag has  *)
(* seen what the tag is now, and the digest it asks for is one it has seen.*)
(***************************************************************************)
TagIsWatched ==
  \A r \in Reqs :
    /\ pulls[r].pc = "resolving" => pulls[r].kind = "tag"
    /\ pulls[r].kind = "tag" /\ pulls[r].pc \in {"resolving", "getting"} => upTag \in tagSeen[r]
    /\ pulls[r].kind = "tag" /\ pulls[r].pc = "getting" => pulls[r].digest \in tagSeen[r]
    /\ pulls[r].pc = "getting" => pulls[r].digest \in Manifests

IInv ==
  /\ AuthInv
  /\ FillInv
  /\ TypeOK
  /\ TagIsWatched
  /\ TagAnswerIsCurrent
=============================================================================
