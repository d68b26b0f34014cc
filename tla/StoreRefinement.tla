--------------------------- MODULE StoreRefinement ---------------------------
(***************************************************************************)
(* TwoTierStore implements CachePromise: whatever tier a redis value is in *)
(* and whatever tasks move it, the clients see one lossy map.              *)
(***************************************************************************)
EXTENDS TwoTierStore

CONSTANT Evictor   \* the eviction task, as a task of the promise

ASSUME EvictorAssumption == Evictor \notin Conns

Holding(k, v) == [key |-> k, val |-> v]

\* An entry stands for its value in either tier.
StoredValue == [k \in Keys |-> IF entries[k].tier = "None" THEN Failed ELSE entries[k].val]

\* Before its read a GET holds what is in the file, afterwards what it read.
HeldByConn(c) ==
  IF conns[c].pc = "reading"
  THEN Holding(conns[c].key,
               IF files[conns[c].id] = NoFile THEN Failed ELSE files[conns[c].id])
  ELSE IF conns[c].pc \in {"got", "reply"} THEN Holding(conns[c].key, conns[c].val)
                                            ELSE Holding(Failed, Failed)

HeldByEvictor ==
  IF evictor.pc = "spillRedis" THEN Holding(evictor.key, evictor.val)
                               ELSE Holding(Failed, Failed)

HeldValue == [t \in Conns \cup {Evictor} |-> IF t = Evictor THEN HeldByEvictor ELSE HeldByConn(t)]

Promise == INSTANCE CachePromise WITH
             Tasks <- Conns \cup {Evictor}, Nothing <- Failed,
             stored <- StoredValue, held <- HeldValue

\* Tiers, ids, files, promotions and unlinks are invisible: every step is a
\* step of one lossy map, in which a GET answers nothing or the value that
\* was stored when it looked, however its file was replaced, unlinked or
\* reused since.  (That a late promotion or spill overwrites a newer value is
\* allowed here: SpillIsATierMove is about that.)
KeepsPromise == Promise!Spec
=============================================================================
