----------------------------- MODULE ShardLock -----------------------------
(***************************************************************************)
(* The synchronous locks of the blob map and of the manifest map, and the  *)
(* worker threads of the runtime (`#[tokio::main(flavor =                  *)
(* "multi_thread")]`).  A shard of a DashMap is a read-write lock that     *)
(* blocks the THREAD, not the task; two handlers keep a read guard while   *)
(* they await:                                                             *)
(*   - a GET of an OnDisk blob keeps the blob's guard while it awaits the  *)
(*     opening of the file (get_head_blob calling serve_disk_blob);        *)
(*   - a pass keeps the guard of a spilled manifest while it awaits the    *)
(*     writes of all its blobs and inserts them (evict).                   *)
(* A task that awaits gives up its worker and needs one again to go on; a  *)
(* writer that waits for the guard keeps its worker.                       *)
(*                                                                         *)
(* One shard of each map is modelled, the one every key hashes to: fewer   *)
(* collisions only remove waiting.  DashMap and the runtime are external.  *)
(***************************************************************************)
EXTENDS Naturals, FiniteSets

CONSTANTS
  Readers,    \* GETs of an OnDisk blob
  Inserters,  \* handlers that end in insert_blob (uploads, fills)
  Putters,    \* handlers that end in insert_manifest (pushes, pulls)
  Evictor,    \* the eviction task
  Spills,     \* the large blobs of the manifest it spills
  Workers     \* worker threads

Tasks   == Readers \cup Inserters \cup Putters \cup {Evictor}
Writers == Inserters \cup Putters

ASSUME TasksAssumption ==
  /\ IsFiniteSet(Tasks)
  /\ Readers \cap Writers = {} /\ Inserters \cap Putters = {}
  /\ Evictor \notin Readers \cup Writers
  /\ Spills \in Nat

\* The number of worker threads is fixed; nothing bounds the handlers.
ASSUME WorkersAssumption == Workers \in Nat \ {0}

VARIABLES
  run,        \* where each task is: on a worker, or waiting for what
  at,         \* the next step of the tasks that have several
  blobGuards, \* the tasks that hold a read guard of the blob shard
  spilling,   \* the pass holds the read guard of its manifest
  left        \* blobs the pass has still to spill

vars == <<run, at, blobGuards, spilling, left>>

Init ==
  /\ run = [t \in Tasks |-> "absent"]
  /\ at = [t \in Tasks |-> "begin"]
  /\ blobGuards = {}
  /\ spilling = FALSE
  /\ left = Spills

-----------------------------------------------------------------------------
(***************************************************************************)
(* The runtime.  A request or a wake-up of the eviction loop makes a task  *)
(* ready; a ready task takes a free worker; file I/O runs on threads of    *)
(* its own and makes its task ready again.                                 *)
(***************************************************************************)
Running == {t \in Tasks : run[t] = "on"}

Arrive(t) ==
  /\ run[t] = "absent"
  /\ run' = [run EXCEPT ![t] = "ready"]
  /\ UNCHANGED <<at, blobGuards, spilling, left>>

Dispatch(t) ==
  /\ run[t] = "ready"
  /\ Cardinality(Running) < Workers
  /\ run' = [run EXCEPT ![t] = "on"]
  /\ UNCHANGED <<at, blobGuards, spilling, left>>

IoDone(t) ==
  /\ run[t] = "await"
  /\ run' = [run EXCEPT ![t] = "ready"]
  /\ UNCHANGED <<at, blobGuards, spilling, left>>

Await(t, next) ==
  /\ run' = [run EXCEPT ![t] = "await"]
  /\ at' = [at EXCEPT ![t] = next]

Finish(t) ==
  /\ run' = [run EXCEPT ![t] = "done"]
  /\ at' = [at EXCEPT ![t] = "begin"]

-----------------------------------------------------------------------------
(***************************************************************************)
(* Handlers.  A write of a shard waits until nobody reads it; a read does  *)
(* not wait for parked writers, and no writer keeps a shard across a step. *)
(***************************************************************************)
BlobShardFree     == blobGuards = {}
ManifestShardFree == ~spilling

\* state.blobs.get, then File::open(path).await under its guard.
ReaderOpen(r) ==
  /\ run[r] = "on" /\ at[r] = "begin"
  /\ blobGuards' = blobGuards \cup {r}
  /\ Await(r, "serve")
  /\ UNCHANGED <<spilling, left>>

ReaderServeKeepsGuard(r) ==
  /\ run[r] = "on" /\ at[r] = "serve"
  /\ Finish(r)
  /\ UNCHANGED <<blobGuards, spilling, left>>

\* The file is open, or the open failed: the handler returns either way.
ReaderServe(r) ==
  /\ run[r] = "on" /\ at[r] = "serve"
  /\ blobGuards' = blobGuards \ {r}
  /\ Finish(r)
  /\ UNCHANGED <<spilling, left>>

InsertBlob(i) ==
  /\ run[i] = "on"
  /\ BlobShardFree
  /\ Finish(i)
  /\ UNCHANGED <<blobGuards, spilling, left>>

PutManifest(p) ==
  /\ run[p] = "on"
  /\ ManifestShardFree
  /\ Finish(p)
  /\ UNCHANGED <<blobGuards, spilling, left>>

\* state.manifests.get of the manifest to spill.
EvictManifest ==
  /\ run[Evictor] = "on" /\ at[Evictor] = "begin"
  /\ spilling' = TRUE
  /\ at' = [at EXCEPT ![Evictor] = "spill"]
  /\ UNCHANGED <<run, blobGuards, left>>

SpillKeepsGuard ==
  /\ run[Evictor] = "on" /\ at[Evictor] = "spill"
  /\ left > 0
  /\ blobGuards' = blobGuards \cup {Evictor}
  /\ \E next \in {"insert", "failed"} : Await(Evictor, next)
  /\ UNCHANGED <<spilling, left>>

\* The blob is cloned out of its map, the guard dropped with the clone, and
\* written; the write succeeds or fails.
Spill ==
  /\ run[Evictor] = "on" /\ at[Evictor] = "spill"
  /\ left > 0
  /\ \E next \in {"insert", "failed"} : Await(Evictor, next)
  /\ UNCHANGED <<blobGuards, spilling, left>>

\* After a write that succeeded: insert_blob of the OnDisk blob.
SpillInsert ==
  /\ run[Evictor] = "on" /\ at[Evictor] = "insert"
  /\ BlobShardFree
  /\ left' = left - 1
  /\ at' = [at EXCEPT ![Evictor] = "spill"]
  /\ UNCHANGED <<run, blobGuards, spilling>>

\* The last blob is done, or a write failed and the pass returns its error.
SpillEnd ==
  /\ run[Evictor] = "on"
  /\ \/ at[Evictor] = "spill" /\ left = 0
     \/ at[Evictor] = "failed"
  /\ spilling' = FALSE
  /\ Finish(Evictor)
  /\ UNCHANGED <<blobGuards, left>>

Step(t) ==
  \/ t \in Readers /\ (ReaderOpen(t) \/ ReaderServe(t))
  \/ t \in Inserters /\ InsertBlob(t)
  \/ t \in Putters /\ PutManifest(t)
  \/ t = Evictor /\ (EvictManifest \/ Spill \/ SpillInsert \/ SpillEnd)

\* Every request has been answered and the pass is over.
AllDone == (\A t \in Tasks : run[t] = "done") /\ UNCHANGED vars

Next ==
  \/ \E t \in Tasks : Arrive(t) \/ Dispatch(t) \/ IoDone(t) \/ Step(t)
  \/ AllDone

Spec == Init /\ [][Next]_vars

\* The runtime polls every ready task, I/O ends, and a running task goes on.
\* Requests may stay away.
FairSpec ==
  /\ Spec
  /\ \A t \in Tasks :
       WF_vars(Dispatch(t)) /\ WF_vars(IoDone(t)) /\ WF_vars(Step(t))

-----------------------------------------------------------------------------
(***************************************************************************)
(* Properties.                                                             *)
(***************************************************************************)
\* The type of the state; the pass holds its manifest's guard exactly from
\* the lookup to the end of the spill, however the spill ends.
TypeOK ==
  /\ run \in [Tasks -> {"absent", "ready", "on", "await", "done"}]
  /\ at \in [Tasks -> {"begin", "serve", "spill", "insert", "failed"}]
  /\ blobGuards \in SUBSET Tasks
  /\ spilling \in BOOLEAN /\ (spilling <=> at[Evictor] # "begin")
  /\ left \in 0 .. Spills

\* What a task that has a worker waits for, if it waits for a guard.
Unblocked(t) ==
  /\ t \in Readers => at[t] \in {"begin", "serve"}
  /\ t \in Inserters => BlobShardFree
  /\ t \in Putters => ManifestShardFree
  /\ t = Evictor /\ at[t] = "insert" => BlobShardFree

CanGoOn(t) ==
  \/ run[t] = "await"
  \/ run[t] = "ready" /\ Cardinality(Running) < Workers
  \/ run[t] = "on" /\ Unblocked(t)

\* Everyone waits on everyone: somebody is not done, and nobody can go on
\* however long one waits.
Standstill ==
  /\ \E t \in Tasks : run[t] \in {"ready", "on", "await"}
  /\ \A t \in Tasks : ~CanGoOn(t)

\* Every worker thread is parked in an insert, and a task that holds a guard
\* they are parked on is ready and finds no worker.
WorkersExhausted ==
  /\ Cardinality(Running) = Workers
  /\ Running \subseteq Writers \cup {Evictor}
  /\ \E t \in blobGuards \cup (IF spilling THEN {Evictor} ELSE {}) : run[t] = "ready"

\* Guards held across an await (serve_disk_blob, the spill of evict) bring
\* everything to a standstill in one way only: inserts (insert_blob,
\* insert_manifest) park ALL the workers while the holder of the guard waits
\* for one.  GETs, inserts and the spill never close a cycle of guards.
StandstillNeedsEveryWorker == Standstill => WorkersExhausted

\* Of the handlers of one burst, each a task that runs once, every GET is
\* answered, every insert done and the spill ended, or the workers run out.
\* Readers that keep coming can hold an insert up longer than any burst; they
\* are not covered.
BurstEndsUnlessWorkersRunOut ==
  \A t \in Tasks : run[t] = "ready" ~> (run[t] = "done" \/ (Standstill /\ WorkersExhausted))

\* The eviction loop is said to come round whatever happens ("we always
\* re-check the limits at least this often even when nothing notifies us",
\* eviction.rs): a pass that is due ends, so that the loop can wait again.
\* It does not when the workers run out.
DuePassEnds == run[Evictor] = "ready" ~> run[Evictor] = "done"

-----------------------------------------------------------------------------
(***************************************************************************)
(* The inductive invariant: a guard is held by a task that is under way.   *)
(***************************************************************************)
\* Exactly the GETs between the lookup and the answer hold the blob guard.
GuardsAreReaders ==
  /\ blobGuards = {r \in Readers : at[r] = "serve"}
  /\ \A r \in Readers : at[r] \in {"begin", "serve"}

\* A task that is in the middle of its handler is on a worker, ready for one
\* or awaiting I/O.
MiddleIsUnderWay ==
  \A t \in Tasks : at[t] # "begin" => run[t] \in {"ready", "on", "await"}

\* A blob that is being spilled is one of those left.
InsertIsOfOneLeft == at[Evictor] = "insert" => left > 0

\* There are never more tasks on workers than workers.
WorkersSuffice == Cardinality(Running) <= Workers

IInv ==
  /\ TypeOK
  /\ GuardsAreReaders
  /\ MiddleIsUnderWay
  /\ InsertIsOfOneLeft
  /\ WorkersSuffice
=============================================================================
