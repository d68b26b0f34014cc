------------------------------ MODULE BlobFill ------------------------------
(***************************************************************************)
(* A blob GET that misses: get_head_blob hands the upstream response to    *)
(* spawn_blob_fill, whose task copies every chunk into a buffer for the    *)
(* cache and into a bounded channel for the client.  The client may read,  *)
(* stop reading, or go away; upstream may deliver wrong bytes, end early   *)
(* or fail.  Every request has a fill of its own: misses are not merged.   *)
(***************************************************************************)
EXTENDS Naturals

CONSTANTS
  Fetches,     \* blob GETs that miss, all for one digest
  Chunks,      \* the number of chunks of the blob with that digest
  Capacity     \* of the channel (8 in the code)

ASSUME CapacityAssumption == Capacity \in Nat \ {0}
ASSUME ChunksAssumption == Chunks \in Nat \ {0}

VARIABLES
  fills,       \* the fill tasks and their channels
  clients,     \* the client side of the channels
  cached       \* State::blobs at the digest, Nothing if there is none

fillVars == <<fills, clients, cached>>

\* The bytes a fill has read: how many chunks, and (seen from the end, where
\* they are hashed) whether they are the right ones.
Bytes == [len : 0 .. Chunks, right : BOOLEAN]
Whole == [len |-> Chunks, right |-> TRUE]

\* "reading" awaits a chunk, "sending" and "failing" await room in the
\* channel, "ended" has dropped its sender, "failed" is over without caching.
\* The channel holds `queue` chunks and then, if `err`, an error.
Fill   == [pc : {"none", "reading", "sending", "failing", "ended", "done", "failed"},
           buf : Bytes, clientAlive : BOOLEAN, queue : 0 .. Capacity,
           err : BOOLEAN, open : BOOLEAN]
Client == [pc : {"none", "reading", "gone", "eof", "broken"}, received : 0 .. Chunks]

Nothing  == [len |-> 0, right |-> FALSE]
NoFill   == [pc |-> "none", buf |-> Nothing, clientAlive |-> TRUE, queue |-> 0,
             err |-> FALSE, open |-> TRUE]
NoClient == [pc |-> "none", received |-> 0]

FillInit ==
  /\ fills = [r \in Fetches |-> NoFill]
  /\ clients = [r \in Fetches |-> NoClient]
  /\ cached = Nothing

FillStart(r) ==
  /\ fills[r].pc = "none"
  /\ fills' = [fills EXCEPT ![r].pc = "reading"]
  /\ clients' = [clients EXCEPT ![r].pc = "reading"]
  /\ UNCHANGED cached

-----------------------------------------------------------------------------
(***************************************************************************)
(* The fill task.                                                          *)
(***************************************************************************)
FillChunk(r) ==
  /\ fills[r].pc = "reading"
  /\ fills[r].buf.len < Chunks
  /\ fills' = [fills EXCEPT
       ![r].buf.len = @ + 1,
       ![r].pc = IF fills[r].clientAlive THEN "sending" ELSE "reading"]
  /\ UNCHANGED <<clients, cached>>

ReceiverGone(r) == clients[r].pc = "gone"

SendIgnoresDisconnect(r) ==
  /\ fills[r].pc = "sending"
  /\ fills[r].queue < Capacity
  /\ fills' = [fills EXCEPT ![r].queue = @ + 1, ![r].pc = "reading"]
  /\ UNCHANGED <<clients, cached>>

SendUnbounded(r) ==
  /\ fills[r].pc = "sending"
  /\ fills' = [fills EXCEPT ![r].queue = IF ReceiverGone(r) THEN 0 ELSE @ + 1,
                            ![r].pc = "reading"]
  /\ UNCHANGED <<clients, cached>>

\* tx.send(chunk).await: room in the channel, or the receiver is dropped and
\* the fill goes on for the cache alone.
SendChunk(r) ==
  /\ fills[r].pc = "sending"
  /\ \/ /\ ~ReceiverGone(r)
        /\ fills[r].queue < Capacity
        /\ fills' = [fills EXCEPT ![r].queue = @ + 1, ![r].pc = "reading"]
     \/ /\ ReceiverGone(r)
        /\ fills' = [fills EXCEPT ![r].clientAlive = FALSE, ![r].pc = "reading"]
  /\ UNCHANGED <<clients, cached>>

\* The stream yields an error: it is passed on to a client that is there, and
\* the task returns without caching.
StreamError(r) ==
  /\ fills[r].pc = "reading"
  /\ fills' = [fills EXCEPT ![r].pc = IF fills[r].clientAlive THEN "failing" ELSE "failed"]
  /\ UNCHANGED <<clients, cached>>

SendErrorSilently(r) ==
  /\ fills[r].pc = "failing"
  /\ fills' = [fills EXCEPT ![r].pc = "failed", ![r].open = FALSE]
  /\ UNCHANGED <<clients, cached>>

SendError(r) ==
  /\ fills[r].pc = "failing"
  /\ ReceiverGone(r) \/ fills[r].queue < Capacity
  /\ fills' = [fills EXCEPT ![r].pc = "failed", ![r].err = ~ReceiverGone(r), ![r].open = FALSE]
  /\ UNCHANGED <<clients, cached>>

\* The stream ends, perhaps too early or with wrong bytes: drop(tx).
StreamEnd(r) ==
  /\ fills[r].pc = "reading"
  /\ \E right \in BOOLEAN :
       fills' = [fills EXCEPT ![r].pc = "ended", ![r].open = FALSE, ![r].buf.right = right]
  /\ UNCHANGED <<clients, cached>>

\* The digest is compared, and insert_blob stores a body that has it.
VerifyAndInsert(r) ==
  /\ fills[r].pc = "ended"
  /\ cached' = IF fills[r].buf = Whole THEN fills[r].buf ELSE cached
  /\ fills' = [fills EXCEPT ![r].pc = "done"]
  /\ UNCHANGED clients

\* What the task does when upstream goes on, ends or fails, and what it does
\* by itself.
UpstreamStep(r) == FillChunk(r) \/ StreamError(r) \/ StreamEnd(r)
TaskStep(r)     == SendChunk(r) \/ SendError(r) \/ VerifyAndInsert(r)
FillStep(r)     == UpstreamStep(r) \/ TaskStep(r)

-----------------------------------------------------------------------------
(***************************************************************************)
(* The client: hyper polls StreamingBody when the client takes more bytes. *)
(***************************************************************************)
ClientChunk(r) ==
  /\ clients[r].pc = "reading"
  /\ fills[r].queue > 0
  /\ fills' = [fills EXCEPT ![r].queue = @ - 1]
  /\ clients' = [clients EXCEPT ![r].received = @ + 1]
  /\ UNCHANGED cached

\* poll_recv on an empty channel: the error, or the end once tx is dropped.
ClientEnd(r) ==
  /\ clients[r].pc = "reading"
  /\ fills[r].queue = 0
  /\ ~fills[r].open
  /\ clients' = [clients EXCEPT ![r].pc = IF fills[r].err THEN "broken" ELSE "eof"]
  /\ UNCHANGED <<fills, cached>>

\* A disconnect drops the receiver and what is in the channel.
ClientGone(r) ==
  /\ clients[r].pc = "reading"
  /\ clients' = [clients EXCEPT ![r].pc = "gone"]
  /\ fills' = [fills EXCEPT ![r].queue = 0]
  /\ UNCHANGED cached

ClientStep(r) == ClientChunk(r) \/ ClientEnd(r) \/ ClientGone(r)

-----------------------------------------------------------------------------
\* The type of the fills, of their channels (which never hold more than their
\* capacity) and of what is cached.
FillTypeOK ==
  /\ fills \in [Fetches -> Fill]
  /\ clients \in [Fetches -> Client]
  /\ cached \in Bytes

\* A client that sees the end of the body has got every chunk upstream sent,
\* and upstream had really ended: a broken stream is never a short success.
EofMeansEverything ==
  \A r \in Fetches : clients[r].pc = "eof" =>
    /\ clients[r].received = fills[r].buf.len
    /\ fills[r].pc \in {"ended", "done"}

FillIsOver(r)  == fills[r].pc \in {"done", "failed"}
FillStarted(r) == fills[r].pc # "none"

\* The client is there, but the channel is full and it takes nothing.
HeldUpByClient(r) ==
  clients[r].pc = "reading" /\ fills[r].queue = Capacity /\ fills[r].pc \in {"sending", "failing"}

\* Upstream neither sends nor ends nor fails: the client of main.rs has a
\* timeout for connecting only, none for reading.
UpstreamIsSilent(r) == fills[r].pc = "reading"

\* A fill ends whatever its client and upstream do, but for two cases: the
\* client stays connected and stops reading for ever, or upstream falls silent
\* for ever.  A disconnect at any point, the channel full or not, lets the fill
\* drain upstream, and an error that waits for room is not lost.
FillEndsUnlessHeldUp ==
  \A r \in Fetches : <>[](FillStarted(r) /\ ~FillIsOver(r)) =>
    <>[]HeldUpByClient(r) \/ <>[]UpstreamIsSilent(r)

-----------------------------------------------------------------------------
(***************************************************************************)
(* The inductive invariant: as long as the client is there, a chunk the    *)
(* fill has read is received, in the channel or being sent.                *)
(***************************************************************************)
BeingSent(r) == IF fills[r].pc = "sending" THEN 1 ELSE 0

NothingIsLost ==
  \A r \in Fetches : clients[r].pc \in {"reading", "eof", "broken"} =>
    clients[r].received + fills[r].queue + BeingSent(r) = fills[r].buf.len

\* The two ends of a channel agree on where the fill is.
ChannelInStep ==
  \A r \in Fetches :
    /\ fills[r].pc = "none" <=> clients[r].pc = "none"
    /\ fills[r].pc = "none" => fills[r] = NoFill /\ clients[r] = NoClient
    /\ ~fills[r].clientAlive => clients[r].pc = "gone"
    /\ ~fills[r].open => fills[r].pc \in {"ended", "done", "failed"}
    /\ ~fills[r].open /\ fills[r].pc = "failed" /\ clients[r].pc # "gone" => fills[r].err
    /\ clients[r].pc \in {"eof", "broken"} => ~fills[r].open /\ fills[r].queue = 0
    /\ clients[r].pc = "eof" => ~fills[r].err

FillInv ==
  /\ FillTypeOK
  /\ NothingIsLost
  /\ ChannelInStep
=============================================================================
