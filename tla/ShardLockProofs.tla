--------------------------- MODULE ShardLockProofs ---------------------------
(***************************************************************************)
(* What a standstill of the shard guards and the worker threads takes,     *)
(* proved for every set of tasks, every number of spilled blobs and every  *)
(* number of workers.                                                      *)
(***************************************************************************)
EXTENDS ShardLock, FiniteSetTheorems, TLAPS

\* Tasks on workers stay as many as there are workers when none is added.
LEMMA FewerRunning ==
  ASSUME IInv, NEW t \in Tasks, NEW c, c # "on", run' = [run EXCEPT ![t] = c]
  PROVE  WorkersSuffice'
<1>1. Running' \subseteq Running
  BY DEF Running, IInv, TypeOK
<1>2. IsFiniteSet(Running)
  BY TasksAssumption, FS_Subset DEF Running
<1>3. /\ Cardinality(Running') <= Cardinality(Running)
      /\ Cardinality(Running) \in Nat /\ Cardinality(Running') \in Nat
  BY <1>1, <1>2, FS_Subset, FS_CardinalityType
<1> QED
  BY <1>3, WorkersAssumption DEF IInv, WorkersSuffice

\* A task is dispatched to a free worker.
LEMMA OneMoreRunning ==
  ASSUME IInv, NEW t \in Tasks, Dispatch(t)
  PROVE  WorkersSuffice'
<1>1. Running' = Running \cup {t} /\ t \notin Running
  BY DEF Dispatch, Running, IInv, TypeOK
<1>2. IsFiniteSet(Running)
  BY TasksAssumption, FS_Subset DEF Running
<1>3. Cardinality(Running') = Cardinality(Running) + 1 /\ Cardinality(Running) \in Nat
  BY <1>1, <1>2, FS_AddElement, FS_CardinalityType
<1> QED
  BY <1>3, WorkersAssumption DEF Dispatch, WorkersSuffice

\* The runtime's own steps keep the guards as they are.
LEMMA RuntimeStep ==
  ASSUME IInv, NEW t \in Tasks, Arrive(t) \/ Dispatch(t) \/ IoDone(t)
  PROVE  IInv'
<1>1. /\ UNCHANGED <<at, blobGuards, spilling, left>>
      /\ \A u \in Tasks : run'[u] = run[u] \/ run'[u] \in {"ready", "on"}
      /\ run' \in [Tasks -> {"absent", "ready", "on", "await", "done"}]
  BY DEF Arrive, Dispatch, IoDone, IInv, TypeOK
<1>2. WorkersSuffice'
  <2>1. CASE Arrive(t) \/ IoDone(t)
    BY <2>1, FewerRunning DEF Arrive, IoDone
  <2>2. CASE Dispatch(t)
    BY <2>2, OneMoreRunning
  <2> QED
    BY <2>1, <2>2
<1> QED
  BY <1>1, <1>2 DEF IInv, TypeOK, GuardsAreReaders, MiddleIsUnderWay, InsertIsOfOneLeft

\* A GET takes the guard with its lookup and drops it with its answer.
LEMMA ReaderStep ==
  ASSUME IInv, NEW r \in Readers, ReaderOpen(r) \/ ReaderServe(r)
  PROVE  IInv'
<1>1. r \in Tasks /\ r # Evictor /\ Evictor \in Tasks
  BY TasksAssumption DEF Tasks
<1>2. TypeOK'
  BY <1>1 DEF ReaderOpen, ReaderServe, Await, Finish, IInv, TypeOK, Tasks
<1>3. GuardsAreReaders'
  <2>1. \A q \in Readers : q \in Tasks
    BY DEF Tasks
  <2>2. CASE ReaderOpen(r)
    <3>1. at' = [at EXCEPT ![r] = "serve"] /\ blobGuards' = blobGuards \cup {r}
      BY <2>2 DEF ReaderOpen, Await
    <3> QED
      BY <2>1, <3>1 DEF IInv, TypeOK, GuardsAreReaders
  <2>3. CASE ReaderServe(r)
    <3>1. at' = [at EXCEPT ![r] = "begin"] /\ blobGuards' = blobGuards \ {r}
      BY <2>3 DEF ReaderServe, Finish
    <3> QED
      BY <2>1, <3>1 DEF IInv, TypeOK, GuardsAreReaders
  <2> QED
    BY <2>2, <2>3
<1>4. MiddleIsUnderWay' /\ InsertIsOfOneLeft'
  BY <1>1 DEF ReaderOpen, ReaderServe, Await, Finish, IInv, TypeOK, MiddleIsUnderWay,
              InsertIsOfOneLeft
<1>5. WorkersSuffice'
  BY <1>1, FewerRunning DEF ReaderOpen, ReaderServe, Await, Finish
<1> QED
  BY <1>2, <1>3, <1>4, <1>5 DEF IInv

\* An insert waits for the guards and holds none.
LEMMA WriterStep ==
  ASSUME IInv, NEW w \in Writers, InsertBlob(w) \/ PutManifest(w)
  PROVE  IInv'
<1>1. w \in Tasks /\ w # Evictor /\ w \notin Readers
  BY TasksAssumption DEF Tasks, Writers
<1>2. Finish(w) /\ UNCHANGED <<blobGuards, spilling, left>>
  BY DEF InsertBlob, PutManifest
<1>3. TypeOK'
  BY <1>1, <1>2 DEF Finish, IInv, TypeOK
<1>4. GuardsAreReaders'
  BY <1>1, <1>2 DEF Finish, IInv, TypeOK, GuardsAreReaders, Tasks
<1>5. MiddleIsUnderWay' /\ InsertIsOfOneLeft'
  BY <1>1, <1>2, TasksAssumption
     DEF Finish, IInv, TypeOK, MiddleIsUnderWay, InsertIsOfOneLeft, Tasks
<1>6. WorkersSuffice'
  BY <1>1, <1>2, FewerRunning DEF Finish
<1> QED
  BY <1>3, <1>4, <1>5, <1>6 DEF IInv

\* The pass takes its manifest's guard, spills blob by blob, and drops it.
LEMMA EvictorStep ==
  ASSUME IInv, EvictManifest \/ Spill \/ SpillInsert \/ SpillEnd
  PROVE  IInv'
<1>1. Evictor \in Tasks /\ Evictor \notin Readers
  BY TasksAssumption DEF Tasks
<1>2. blobGuards' = blobGuards /\ \A t \in Tasks \ {Evictor} : run'[t] = run[t] /\ at'[t] = at[t]
  BY <1>1 DEF EvictManifest, Spill, SpillInsert, SpillEnd, Await, Finish, IInv, TypeOK
<1>3. TypeOK'
  <2>1. CASE EvictManifest \/ Spill
    BY <1>1, <2>1 DEF EvictManifest, Spill, Await, IInv, TypeOK
  <2>2. CASE SpillInsert
    BY <1>1, <2>2, TasksAssumption DEF SpillInsert, IInv, TypeOK, InsertIsOfOneLeft
  <2>3. CASE SpillEnd
    BY <1>1, <2>3 DEF SpillEnd, Finish, IInv, TypeOK
  <2> QED
    BY <2>1, <2>2, <2>3
<1>4. GuardsAreReaders'
  BY <1>1, <1>2 DEF IInv, GuardsAreReaders, Tasks
<1>5. /\ run'[Evictor] \in {"on", "await"} \/ at'[Evictor] = "begin"
      /\ at'[Evictor] = "insert" => left' > 0
  BY <1>1 DEF EvictManifest, Spill, SpillInsert, SpillEnd, Await, Finish, IInv, TypeOK
<1>6. WorkersSuffice'
  <2>1. CASE EvictManifest \/ SpillInsert
    BY <2>1 DEF EvictManifest, SpillInsert, IInv, WorkersSuffice, Running
  <2>2. CASE Spill \/ SpillEnd
    BY <1>1, <2>2, FewerRunning DEF Spill, SpillEnd, Await, Finish
  <2> QED
    BY <2>1, <2>2
<1> QED
  BY <1>1, <1>2, <1>3, <1>4, <1>5, <1>6 DEF IInv, MiddleIsUnderWay, InsertIsOfOneLeft

\* No task has arrived.
LEMMA InitIInv == Init => IInv
<1> SUFFICES ASSUME Init PROVE IInv
  OBVIOUS
<1>1. Evictor \in Tasks /\ Readers \subseteq Tasks
  BY DEF Tasks
<1>2. TypeOK
  <2>1. /\ run \in [Tasks -> {"absent", "ready", "on", "await", "done"}]
        /\ at \in [Tasks -> {"begin", "serve", "spill", "insert", "failed"}]
    BY DEF Init
  <2>2. blobGuards \in SUBSET Tasks /\ left \in 0 .. Spills
    BY TasksAssumption DEF Init
  <2>3. spilling \in BOOLEAN /\ (spilling <=> at[Evictor] # "begin")
    BY <1>1 DEF Init
  <2> QED
    BY <2>1, <2>2, <2>3 DEF TypeOK
<1>3. GuardsAreReaders /\ MiddleIsUnderWay /\ InsertIsOfOneLeft
  BY <1>1 DEF Init, GuardsAreReaders, MiddleIsUnderWay, InsertIsOfOneLeft
<1>4. WorkersSuffice
  <2>1. Running = {}
    BY DEF Init, Running
  <2> QED
    BY <2>1, FS_EmptySet, WorkersAssumption DEF WorkersSuffice
<1> QED
  BY <1>2, <1>3, <1>4 DEF IInv

\* Every step preserves the invariant.
LEMMA NextIInv == IInv /\ [Next]_vars => IInv'
<1> SUFFICES ASSUME IInv, [Next]_vars PROVE IInv'
  OBVIOUS
<1>1. CASE \E t \in Tasks : Arrive(t) \/ Dispatch(t) \/ IoDone(t)
  BY <1>1, RuntimeStep
<1>2. CASE \E t \in Tasks : Step(t)
  <2>1. PICK t \in Tasks : Step(t)
    BY <1>2
  <2>2. CASE t \in Readers /\ (ReaderOpen(t) \/ ReaderServe(t))
    BY <2>2, ReaderStep
  <2>3. CASE (t \in Inserters /\ InsertBlob(t)) \/ (t \in Putters /\ PutManifest(t))
    BY <2>3, WriterStep DEF Writers
  <2>4. CASE EvictManifest \/ Spill \/ SpillInsert \/ SpillEnd
    BY <2>4, EvictorStep
  <2> QED
    BY <2>1, <2>2, <2>3, <2>4 DEF Step
<1>3. CASE UNCHANGED vars
  BY <1>3 DEF vars, IInv, TypeOK, GuardsAreReaders, MiddleIsUnderWay, InsertIsOfOneLeft,
              WorkersSuffice, Running
<1> QED
  BY <1>1, <1>2, <1>3 DEF Next, AllDone

-----------------------------------------------------------------------------
\* In a standstill every task that is under way is parked on a worker or
\* waits for one.  Were a worker left, nobody would wait for one: then no
\* reader would be alive, no blob guard held, and neither the inserts nor the
\* pass parked; and with the pass over no manifest guard would be held and no
\* put parked either.  So no worker is left; and whoever is parked is parked
\* on a guard whose holder is not on a worker, so it waits for one.
LEMMA IInvStandstill == IInv => StandstillNeedsEveryWorker
<1> SUFFICES ASSUME IInv, Standstill PROVE WorkersExhausted
  BY DEF StandstillNeedsEveryWorker
<1> PICK t \in Tasks : run[t] \in {"ready", "on", "await"}
  BY DEF Standstill
<1>1. \A u \in Tasks : run[u] # "await" /\ (run[u] = "on" => ~Unblocked(u))
  BY DEF Standstill, CanGoOn
<1>2. \A r \in Readers : run[r] # "on"
  BY <1>1, TasksAssumption
     DEF IInv, GuardsAreReaders, Unblocked, Tasks, Writers
<1>3. Running \subseteq Writers \cup {Evictor}
  BY <1>2 DEF Running, Tasks, Writers
<1>4. IsFiniteSet(Running) /\ Cardinality(Running) \in Nat
  BY TasksAssumption, FS_Subset, FS_CardinalityType DEF Running
<1>5. ~BlobShardFree => \E r \in blobGuards : run[r] = "ready"
  BY <1>1, <1>2 DEF BlobShardFree, IInv, GuardsAreReaders, MiddleIsUnderWay, Tasks
<1>6. run[Evictor] = "on" => ~BlobShardFree
  BY <1>1, TasksAssumption DEF Unblocked, Tasks, Writers
<1>7. ~ManifestShardFree => run[Evictor] = "ready" \/ ~BlobShardFree
  BY <1>1, <1>6 DEF ManifestShardFree, IInv, TypeOK, MiddleIsUnderWay, Tasks
<1>8. \A u \in Running : ~BlobShardFree \/ ~ManifestShardFree
  BY <1>1, <1>2 DEF Running, Unblocked, Tasks
<1>9. Running # {} =>
        \E u \in blobGuards \cup (IF spilling THEN {Evictor} ELSE {}) : run[u] = "ready"
  BY <1>5, <1>7, <1>8 DEF ManifestShardFree
<1>10. Cardinality(Running) = Workers
  <2> SUFFICES ASSUME Cardinality(Running) < Workers PROVE FALSE
    BY <1>4, WorkersAssumption DEF IInv, WorkersSuffice
  <2>1. \A u \in Tasks : run[u] # "ready"
    BY DEF Standstill, CanGoOn
  <2>2. t \in Running
    BY <1>1, <2>1 DEF Running
  <2>3. blobGuards \cup (IF spilling THEN {Evictor} ELSE {}) \subseteq Tasks
    BY DEF IInv, TypeOK, Tasks
  <2> QED
    BY <1>9, <2>1, <2>2, <2>3
<1>11. Running # {}
  BY <1>10, WorkersAssumption, FS_EmptySet
<1> QED
  BY <1>3, <1>9, <1>10, <1>11 DEF WorkersExhausted

\* The inductive invariant holds in every behaviour.
THEOREM ShardInvariant == Spec => []IInv
BY InitIInv, NextIInv, PTL DEF Spec

\* Whatever the number of workers, GETs of OnDisk blobs (get_head_blob),
\* inserts (insert_blob, insert_manifest) and the pass (evict) only all wait
\* for each other when inserts have parked every worker and the holder of a
\* guard waits for one.
THEOREM StandstillsNeedEveryWorker == Spec => []StandstillNeedsEveryWorker
BY IInvStandstill, ShardInvariant, PTL
=============================================================================
