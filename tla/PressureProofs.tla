--------------------------- MODULE PressureProofs ---------------------------
(***************************************************************************)
(* Proofs about Pressure, for any finite sets of keys, manifests and       *)
(* client tasks, any sizes, any limit and any number of operations: the    *)
(* counters cover what the maps hold whenever no operation is half done.   *)
(*                                                                         *)
(* The argument keeps a ledger.  Each client owes its counter a known      *)
(* amount at each of its steps, and every step moves as much between the   *)
(* counter, the ledger and the map, so that ManifestExact and RedisCovered *)
(* are preserved.  A flush or a pass stores an absolute value instead:     *)
(* CleanFlush and CleanPass say that when nothing overlapped it the ledger *)
(* is empty and the value covers the map.                                  *)
(***************************************************************************)
EXTENDS Pressure, SumLemmas

Typed ==
  /\ TypeOK
  /\ clients \in [Clients -> ClientState]
  /\ loop \in LoopState

-----------------------------------------------------------------------------
(***************************************************************************)
(* The pieces of the state.                                                *)
(***************************************************************************)
\* What the record of a client holds at each step of its operation.
LEMMA ClientFacts ==
  ASSUME NEW s \in ClientState
  PROVE  /\ s.pc \in {"idle", "notify", "charged", "settle", "refund", "flushing"}
         /\ s.pc = "charged" => s.item \in RedisKeys /\ s.size \in Sizes
         /\ s.pc = "settle" => s.bucket \in {"redis", "manifest"} /\ s.by \in Int
         /\ s.pc = "refund" => s.by \in Int
         /\ s.pc = "flushing" => s.todo \in SUBSET RedisKeys
BY DEF ClientState, Idle

\* The records the actions write.
LEMMA ClientStates ==
  /\ Idle \in ClientState /\ Idle.pc = "idle"
  /\ [pc |-> "notify"] \in ClientState
  /\ \A i \in RedisKeys, n \in Sizes : [pc |-> "charged", item |-> i, size |-> n] \in ClientState
  /\ \A b \in {"redis", "manifest"}, n \in Int : [pc |-> "settle", bucket |-> b, by |-> n] \in ClientState
  /\ \A n \in Int : [pc |-> "refund", by |-> n] \in ClientState
  /\ \A t \in SUBSET RedisKeys : [pc |-> "flushing", todo |-> t] \in ClientState
BY DEF ClientState, Idle

\* What the record of the loop holds.
LEMMA LoopFacts ==
  ASSUME NEW s \in LoopState
  PROVE  /\ s.pc \in {"waiting", "check", "pass", "cooldown", "dead"}
         /\ s.pc = "pass" =>
              /\ s \in PassState
              /\ s.candidates \in SUBSET Items /\ s.sizes \in [Items -> Sizes \cup {0}]
              /\ s.redis \in Nat /\ s.manifest \in Nat
BY DEF LoopState, PassState

LEMMA LoopStates ==
  /\ \A p \in {"waiting", "check", "cooldown", "dead"} : [pc |-> p] \in LoopState
  /\ PassState \subseteq LoopState
BY DEF LoopState

\* A charge is a number of bytes.
LEMMA ChargeType ==
  ASSUME NEW i, NEW n \in Sizes \cup {0}
  PROVE  n \in Nat /\ Charge(i, n) \in Nat
BY SizesAssumption, BoundsAssumption DEF Charge

\* What a client owes is a number.
LEMMA OwesType ==
  ASSUME clients \in [Clients -> ClientState], NEW c \in Clients, NEW b
  PROVE  Owes(c, b) \in Int
<1>1. clients[c] \in ClientState
  OBVIOUS
<1>2. /\ clients[c].pc = "charged" => clients[c].size \in Sizes
      /\ clients[c].pc = "settle" => clients[c].by \in Int
      /\ clients[c].pc = "refund" => clients[c].by \in Int
  BY <1>1, ClientFacts
<1>3. \A n \in Sizes \cup Int : n \in Int /\ -n \in Int
  BY SizesAssumption
<1> QED
  BY <1>2, <1>3 DEF Owes

-----------------------------------------------------------------------------
(***************************************************************************)
(* The two sums, and how a step changes them.                              *)
(***************************************************************************)
LEMMA HeldType ==
  ASSUME store \in [Items -> Sizes \cup {0}], NEW S \in {RedisKeys, Manifests}
  PROVE  Held(S) \in Nat
<1> DEFINE f == [i \in S |-> Charge(i, store[i])]
<1>1. S \subseteq Items /\ IsFiniteSet(S)
  BY ItemsAssumption DEF Items
<1>2. f \in [S -> Int] /\ \A i \in S : f[i] >= 0
  BY <1>1, ChargeType
<1> HIDE DEF f
<1>3. Sum(f) \in Nat
  BY <1>1, <1>2, SumIsNat
<1> QED
  BY <1>3 DEF Held, f

\* One item is stored or removed.
LEMMA HeldChange ==
  ASSUME store \in [Items -> Sizes \cup {0}], store' \in [Items -> Sizes \cup {0}],
         NEW S \in {RedisKeys, Manifests}, NEW i \in S,
         \A j \in S \ {i} : store'[j] = store[j]
  PROVE  Held(S)' = Held(S) - Charge(i, store[i]) + Charge(i, store'[i])
<1> DEFINE f == [j \in S |-> Charge(j, store[j])]
           g == [j \in S |-> Charge(j, store'[j])]
<1>1. S \subseteq Items /\ IsFiniteSet(S)
  BY ItemsAssumption DEF Items
<1>2. f \in [S -> Int] /\ g \in [S -> Int]
  BY <1>1, ChargeType
<1>3. \A j \in S \ {i} : g[j] = f[j]
  OBVIOUS
<1>4. f[i] = Charge(i, store[i]) /\ g[i] = Charge(i, store'[i])
  OBVIOUS
<1>5. Held(S) = Sum(f) /\ Held(S)' = Sum(g)
  BY DEF Held, Charge
<1> HIDE DEF f, g
<1>6. Sum(g) = Sum(f) - f[i] + g[i]
  BY <1>1, <1>2, <1>3, SumChange
<1> QED
  BY <1>4, <1>5, <1>6

\* Nothing of a map changed.
LEMMA HeldSame ==
  ASSUME NEW S, \A j \in S : store'[j] = store[j]
  PROVE  Held(S)' = Held(S)
<1>1. [j \in S |-> Charge(j, store'[j])] = [j \in S |-> Charge(j, store[j])]
  OBVIOUS
<1> QED
  BY <1>1 DEF Held, Charge

LEMMA OwedType ==
  ASSUME clients \in [Clients -> ClientState], NEW b
  PROVE  Owed(b) \in Int
<1> DEFINE f == [c \in Clients |-> Owes(c, b)]
<1>1. f \in [Clients -> Int]
  BY OwesType
<1> HIDE DEF f
<1>2. Sum(f) \in Int
  BY <1>1, ClientsAssumption, SumType
<1> QED
  BY <1>2 DEF Owed, f

\* One client moved.
LEMMA OwedChange ==
  ASSUME clients \in [Clients -> ClientState], clients' \in [Clients -> ClientState],
         NEW c \in Clients, NEW b, \A e \in Clients \ {c} : clients'[e] = clients[e]
  PROVE  Owed(b)' = Owed(b) - Owes(c, b) + Owes(c, b)'
<1> DEFINE f == [e \in Clients |-> Owes(e, b)]
           g == [e \in Clients |-> Owes(e, b)']
<1>1. \A e \in Clients : Owes(e, b) \in Int
  BY OwesType
<1>2. \A e \in Clients : Owes(e, b)' \in Int
  <2>1. SUFFICES ASSUME NEW e \in Clients PROVE Owes(e, b)' \in Int
    OBVIOUS
  <2>2. PICK s \in ClientState : s = clients'[e]
    OBVIOUS
  <2>3. /\ s.pc = "charged" => s.size \in Int
        /\ s.pc = "settle" => s.by \in Int
        /\ s.pc = "refund" => s.by \in Int
    <3>1. \A n \in Sizes : n \in Int
      BY SizesAssumption
    <3> QED
      BY <3>1, ClientFacts
  <2>4. /\ s.pc = "charged" => -s.size \in Int
        /\ s.pc = "refund" => -s.by \in Int
    BY <2>3
  <2> QED
    BY <2>2, <2>3, <2>4 DEF Owes
<1>3. f \in [Clients -> Int] /\ g \in [Clients -> Int]
  BY <1>1, <1>2
<1>4. \A e \in Clients \ {c} : g[e] = f[e]
  BY DEF Owes
<1>5. f[c] = Owes(c, b) /\ g[c] = Owes(c, b)'
  OBVIOUS
<1>6. Owed(b) = Sum(f) /\ Owed(b)' = Sum(g)
  BY DEF Owed
<1> HIDE DEF f, g
<1>7. Sum(g) = Sum(f) - f[c] + g[c]
  BY <1>3, <1>4, ClientsAssumption, SumChange
<1> QED
  BY <1>5, <1>6, <1>7

\* Nobody is in the middle of a redis operation: the ledger is empty.
LEMMA OwedNothing ==
  ASSUME clients \in [Clients -> ClientState],
         NEW b \in {"redis", "manifest"}, \A c \in Clients : Owes(c, b) = 0
  PROVE  Owed(b) = 0
<1> DEFINE f == [c \in Clients |-> Owes(c, b)]
<1>1. f \in [Clients -> Int] /\ \A c \in Clients : f[c] = 0
  OBVIOUS
<1> HIDE DEF f
<1>2. Sum(f) = 0
  BY <1>1, SumZero
<1> QED
  BY <1>2 DEF Owed, f
-----------------------------------------------------------------------------
(***************************************************************************)
(* Every step keeps the types.                                             *)
(***************************************************************************)
LEMMA InitTyped ==
  ASSUME Init
  PROVE  Typed
<1>1. store \in [Items -> Sizes \cup {0}] /\ usage \in [{"redis", "manifest"} -> Int]
  BY DEF Init
<1>2. clients \in [Clients -> ClientState]
  BY ClientStates DEF Init
<1>4. loop \in LoopState
  BY LoopStates DEF Init
<1>3. ops \in 0 .. MaxOps /\ loop.pc = "waiting"
  BY BoundsAssumption DEF Init
<1>5. permit \in BOOLEAN /\ clean \in BOOLEAN /\ lost \in BOOLEAN /\ pinned \in Nat
  BY PinnedAssumption DEF Init
<1> QED
  BY <1>1, <1>2, <1>3, <1>4, <1>5, ClientFacts DEF Typed, TypeOK

LEMMA InsertRedisTyped ==
  ASSUME Typed, NEW c \in Clients, NEW i \in RedisKeys, NEW n \in Sizes, InsertRedis(c, i, n)
  PROVE  Typed'
<1>1. clients' \in [Clients -> ClientState]
  BY ClientStates DEF InsertRedis, Goto, Typed
<1>2. usage' \in [{"redis", "manifest"} -> Int]
  BY SizesAssumption DEF InsertRedis, Add, Typed, TypeOK
<1>3. ops' \in 0 .. MaxOps
  BY BoundsAssumption DEF InsertRedis, Begin, Typed, TypeOK
<1> QED
  BY <1>1, <1>2, <1>3, ClientFacts DEF InsertRedis, Typed, TypeOK

LEMMA InsertRedisMapTyped ==
  ASSUME Typed, NEW c \in Clients, InsertRedisMap(c)
  PROVE  Typed'
<1>1. clients[c] \in ClientState /\ clients[c].pc = "charged"
  BY DEF Typed, InsertRedisMap
<1>2. clients[c].item \in Items /\ clients[c].size \in Sizes
  BY <1>1, ClientFacts DEF Items
<1>3. store' \in [Items -> Sizes \cup {0}]
  BY <1>2 DEF InsertRedisMap, Typed, TypeOK
<1>4. store[clients[c].item] \in Nat
  BY <1>2, ChargeType DEF Typed, TypeOK
<1>5. clients' \in [Clients -> ClientState]
  BY <1>4, ClientStates, BoundsAssumption DEF InsertRedisMap, Goto, Typed
<1> QED
  BY <1>3, <1>5, ClientFacts DEF InsertRedisMap, Typed, TypeOK

LEMMA SettleTyped ==
  ASSUME Typed, NEW c \in Clients, Settle(c)
  PROVE  Typed'
<1>1. clients[c] \in ClientState /\ clients[c].pc = "settle"
  BY DEF Typed, Settle
<1>2. usage' \in [{"redis", "manifest"} -> Int]
  <2>1. PICK b \in {"redis", "manifest"}, n \in Int : b = clients[c].bucket /\ n = clients[c].by
    BY <1>1, ClientFacts
  <2> QED
    BY <2>1 DEF Settle, Add, Typed, TypeOK
<1>3. clients' \in [Clients -> ClientState]
  BY ClientStates DEF Settle, Goto, Typed
<1> QED
  BY <1>2, <1>3, ClientFacts DEF Settle, Typed, TypeOK

LEMMA NotifyOneTyped ==
  ASSUME Typed, NEW c \in Clients, NotifyOne(c)
  PROVE  Typed'
<1>1. clients' \in [Clients -> ClientState]
  BY ClientStates DEF NotifyOne, Goto, Typed
<1> QED
  BY <1>1, ClientFacts DEF NotifyOne, Typed, TypeOK

LEMMA InsertManifestTyped ==
  ASSUME Typed, NEW c \in Clients, NEW i \in Manifests, NEW n \in Sizes, InsertManifest(c, i, n)
  PROVE  Typed'
<1>1. i \in Items
  BY DEF Items
<1>2. store' \in [Items -> Sizes \cup {0}]
  BY DEF InsertManifest, Typed, TypeOK
<1>3. n - store[i] \in Int
  <2>1. n \in Nat /\ store[i] \in Nat
    BY <1>1, ChargeType DEF Typed, TypeOK
  <2> QED
    BY <2>1
<1>4. clients' \in [Clients -> ClientState]
  BY <1>3, ClientStates DEF InsertManifest, Goto, Typed
<1>5. ops' \in 0 .. MaxOps
  BY BoundsAssumption DEF InsertManifest, Begin, Typed, TypeOK
<1> QED
  BY <1>2, <1>4, <1>5, ClientFacts DEF InsertManifest, Typed, TypeOK

LEMMA RemoveRedisTyped ==
  ASSUME Typed, NEW c \in Clients, NEW i \in RedisKeys, RemoveRedis(c, i)
  PROVE  Typed'
<1>1. i \in Items
  BY DEF Items
<1>2. store' \in [Items -> Sizes \cup {0}]
  BY DEF RemoveRedis, Typed, TypeOK
<1>3. Charge(i, store[i]) \in Int
  BY <1>1, ChargeType DEF Typed, TypeOK
<1>4. clients' \in [Clients -> ClientState]
  BY <1>3, ClientStates DEF RemoveRedis, Goto, Typed
<1>5. ops' \in 0 .. MaxOps
  BY BoundsAssumption DEF RemoveRedis, Begin, Typed, TypeOK
<1> QED
  BY <1>2, <1>4, <1>5, ClientFacts DEF RemoveRedis, Typed, TypeOK

LEMMA RefundTyped ==
  ASSUME Typed, NEW c \in Clients, Refund(c)
  PROVE  Typed'
<1>1. clients[c] \in ClientState /\ clients[c].pc = "refund"
  BY DEF Typed, Refund
<1>2. usage' \in [{"redis", "manifest"} -> Int]
  BY <1>1, ClientFacts DEF Refund, Add, Typed, TypeOK
<1>3. clients' \in [Clients -> ClientState]
  BY ClientStates DEF Refund, Goto, Typed
<1> QED
  BY <1>2, <1>3, ClientFacts DEF Refund, Typed, TypeOK

LEMMA FlushTyped ==
  ASSUME Typed, NEW c \in Clients, Flush(c)
  PROVE  Typed'
<1>1. clients' \in [Clients -> ClientState]
  BY ClientStates DEF Flush, Goto, Typed
<1>2. ops' \in 0 .. MaxOps
  BY BoundsAssumption DEF Flush, Begin, Typed, TypeOK
<1>3. clean' \in BOOLEAN
  BY DEF Flush
<1> QED
  BY <1>1, <1>2, <1>3, ClientFacts DEF Flush, Typed, TypeOK

LEMMA FlushKeyTyped ==
  ASSUME Typed, NEW c \in Clients, NEW i \in RedisKeys, FlushKey(c, i)
  PROVE  /\ Typed'
         /\ clients[c].todo \in SUBSET RedisKeys
         /\ clients' = [clients EXCEPT ![c] = [pc |-> "flushing", todo |-> clients[c].todo \ {i}]]
<1>1. clients[c] \in ClientState /\ clients[c].pc = "flushing"
  BY DEF Typed, FlushKey
<1>2. clients[c].todo \in SUBSET RedisKeys
  BY <1>1, ClientFacts
<1>3. clients[c] = [pc |-> "flushing", todo |-> clients[c].todo]
  BY <1>1 DEF ClientState, Idle
<1>4. [clients[c] EXCEPT !.todo = @ \ {i}] = [pc |-> "flushing", todo |-> clients[c].todo \ {i}]
  BY <1>3
<1>5. clients' = [clients EXCEPT ![c] = [pc |-> "flushing", todo |-> clients[c].todo \ {i}]]
  BY <1>4, Zenon DEF FlushKey, Goto
<1>6. clients' \in [Clients -> ClientState]
  BY <1>2, <1>5, ClientStates DEF Typed
<1>7. store' \in [Items -> Sizes \cup {0}]
  BY DEF FlushKey, Typed, TypeOK
<1>8. Typed'
  BY <1>6, <1>7, ClientFacts DEF FlushKey, Typed, TypeOK
<1> QED
  BY <1>2, <1>5, <1>8

LEMMA FlushStoreTyped ==
  ASSUME Typed, NEW c \in Clients, FlushStore(c)
  PROVE  Typed'
<1>1. clients' \in [Clients -> ClientState]
  BY ClientStates DEF FlushStore, Goto, Typed
<1>2. usage' \in [{"redis", "manifest"} -> Int]
  BY DEF FlushStore, Typed, TypeOK
<1>3. lost' \in BOOLEAN
  BY DEF FlushStore
<1> QED
  BY <1>1, <1>2, <1>3, ClientFacts DEF FlushStore, Typed, TypeOK

\* The steps of the loop outside a pass change nothing the types speak of
\* but where the loop is.
LoopMoves == Woken \/ Backstop \/ WithinLimit \/ PassFails \/ Cooled

LEMMA LoopMovesTyped ==
  ASSUME Typed, LoopMoves
  PROVE  /\ Typed'
         /\ loop'.pc # "pass"
         /\ UNCHANGED <<store, usage, clients, clean, lost>>
<1>0. /\ \E p \in {"waiting", "check", "cooldown", "dead"} : loop' = [pc |-> p]
      /\ UNCHANGED <<store, usage, clients, pinned, ops, clean, lost>>
      /\ permit' \in {permit, FALSE}
  BY DEF LoopMoves, Woken, Backstop, WithinLimit, PassFails, Cooled
<1>1. loop' \in LoopState /\ loop'.pc # "pass"
  BY <1>0, LoopStates
<1>3. permit' \in BOOLEAN
  BY <1>0 DEF Typed, TypeOK
<1>2. loop'.pc \in {"waiting", "check", "pass", "cooldown", "dead"}
  BY <1>1, LoopFacts
<1> QED
  BY <1>0, <1>1, <1>2, <1>3 DEF Typed, TypeOK

LEMMA PassScanTyped ==
  ASSUME Typed, PassScan
  PROVE  Typed'
<1>1. Held(RedisKeys) \in Nat /\ Held(Manifests) \in Nat
  BY HeldType DEF Typed, TypeOK
<1>2. {i \in Items : store[i] # 0} \in SUBSET Items /\ store \in [Items -> Sizes \cup {0}]
  BY DEF Typed, TypeOK
<1>3. loop' \in PassState
  BY <1>1, <1>2 DEF PassScan, PassState
<1>4. loop' \in LoopState
  BY <1>3, LoopStates
<1>5. clean' \in BOOLEAN
  BY DEF PassScan
<1> QED
  BY <1>3, <1>4, <1>5, LoopFacts DEF PassScan, Typed, TypeOK

\* What the pass does to its own record.
LEMMA PassEvictLoop ==
  ASSUME Typed, NEW i \in Items, PassEvict(i)
  PROVE  /\ Released(i) \in Nat
         /\ loop' \in PassState
         /\ loop'.sizes = loop.sizes
         /\ loop'.redis = IF i \in RedisKeys THEN SaturatingSub(loop.redis, Released(i)) ELSE loop.redis
<1>1. /\ loop.pc = "pass" /\ loop \in PassState /\ loop.candidates \in SUBSET Items
      /\ loop.sizes \in [Items -> Sizes \cup {0}] /\ loop.redis \in Nat /\ loop.manifest \in Nat
  BY LoopFacts DEF Typed, PassEvict
<1>2. Released(i) \in Nat
  BY <1>1, ChargeType DEF Released, Typed, TypeOK
<1>3. \A m \in Nat : SaturatingSub(m, Released(i)) \in Nat
  BY <1>2 DEF SaturatingSub
<1>4. CASE i \in RedisKeys
  <2>1. loop' = [loop EXCEPT !.candidates = @ \ {i}, !.redis = SaturatingSub(@, Released(i))]
    BY <1>4 DEF PassEvict, Bucket
  <2>2. loop' \in PassState /\ loop'.sizes = loop.sizes
        /\ loop'.redis = SaturatingSub(loop.redis, Released(i))
    BY <1>1, <1>3, <2>1 DEF PassState
  <2> QED
    BY <1>2, <1>4, <2>2
<1>5. CASE i \notin RedisKeys
  <2>1. loop' = [loop EXCEPT !.candidates = @ \ {i}, !.manifest = SaturatingSub(@, Released(i))]
    BY <1>5 DEF PassEvict, Bucket
  <2>2. loop' \in PassState /\ loop'.sizes = loop.sizes /\ loop'.redis = loop.redis
    BY <1>1, <1>3, <2>1 DEF PassState
  <2> QED
    BY <1>2, <1>5, <2>2
<1> QED
  BY <1>4, <1>5

LEMMA PassEvictTyped ==
  ASSUME Typed, NEW i \in Items, PassEvict(i)
  PROVE  Typed'
<1>1. loop' \in PassState
  BY PassEvictLoop
<1>2. loop' \in LoopState
  BY <1>1, LoopStates
<1>3. store' \in [Items -> Sizes \cup {0}]
  BY DEF PassEvict, Typed, TypeOK
<1>4. Charge(i, store[i]) \in Nat
  BY ChargeType DEF Typed, TypeOK
<1>5. usage' \in [{"redis", "manifest"} -> Int]
  BY <1>4 DEF PassEvict, Add, Bucket, Typed, TypeOK
<1> QED
  BY <1>2, <1>3, <1>5, LoopFacts DEF PassEvict, Typed, TypeOK

LEMMA PassEndTyped ==
  ASSUME Typed, PassEnd
  PROVE  Typed'
<1>1. loop.redis \in Nat
  BY LoopFacts DEF Typed, PassEnd
<1>2. usage' \in [{"redis", "manifest"} -> Int]
  BY <1>1 DEF PassEnd, Typed, TypeOK
<1>3. loop' \in LoopState
  BY LoopStates DEF PassEnd
<1>4. lost' \in BOOLEAN
  BY DEF PassEnd
<1> QED
  BY <1>2, <1>3, <1>4, LoopFacts DEF PassEnd, Typed, TypeOK
-----------------------------------------------------------------------------
(***************************************************************************)
(* Every step keeps the ledger.                                            *)
(***************************************************************************)
Ledger == ManifestExact /\ RedisCovered

LedgerNumbers ==
  /\ usage["redis"] \in Int /\ usage["manifest"] \in Int
  /\ Held(RedisKeys) \in Nat /\ Held(Manifests) \in Nat

LEMMA LedgerTypes ==
  ASSUME Typed
  PROVE  /\ usage["redis"] \in Int /\ usage["manifest"] \in Int
         /\ Owed("redis") \in Int /\ Owed("manifest") \in Int
         /\ Held(RedisKeys) \in Nat /\ Held(Manifests) \in Nat
<1>1. usage["redis"] \in Int /\ usage["manifest"] \in Int
  BY DEF Typed, TypeOK
<1>2. Owed("redis") \in Int /\ Owed("manifest") \in Int
  BY OwedType DEF Typed
<1>3. Held(RedisKeys) \in Nat /\ Held(Manifests) \in Nat
  BY HeldType DEF Typed, TypeOK
<1> QED
  BY <1>1, <1>2, <1>3

LEMMA TypedNumbers == Typed => LedgerNumbers
BY LedgerTypes DEF LedgerNumbers

\* A step of client c that keeps the ledger: per bucket, the counter and
\* the debt of c change by as much as the map.
LEMMA ClientKeepsLedger ==
  ASSUME Typed, Typed', Ledger, NEW c \in Clients,
         \A e \in Clients \ {c} : clients'[e] = clients[e],
         lost' = lost,
         Owes(c, "manifest") \in Int, Owes(c, "manifest")' \in Int,
         Owes(c, "redis") \in Int, Owes(c, "redis")' \in Int,
         usage'["manifest"] - usage["manifest"] + Owes(c, "manifest")' - Owes(c, "manifest")
           = Held(Manifests)' - Held(Manifests),
         usage'["redis"] - usage["redis"] + Owes(c, "redis")' - Owes(c, "redis")
           >= Held(RedisKeys)' - Held(RedisKeys)
  PROVE  Ledger'
<1>1. /\ Owed("manifest")' = Owed("manifest") - Owes(c, "manifest") + Owes(c, "manifest")'
      /\ Owed("redis")' = Owed("redis") - Owes(c, "redis") + Owes(c, "redis")'
  BY OwedChange DEF Typed
<1>2. /\ usage["redis"] \in Int /\ usage["manifest"] \in Int
      /\ Owed("redis") \in Int /\ Owed("manifest") \in Int
      /\ Held(RedisKeys) \in Nat /\ Held(Manifests) \in Nat
  BY LedgerTypes
<1>3. /\ usage'["redis"] \in Int /\ usage'["manifest"] \in Int
      /\ Held(RedisKeys)' \in Nat /\ Held(Manifests)' \in Nat
  <2>1. LedgerNumbers'
    BY TypedNumbers, PTL
  <2> QED
    BY <2>1 DEF LedgerNumbers
<1>4. ManifestExact'
  BY <1>1, <1>2, <1>3 DEF Ledger, ManifestExact
<1>5. RedisCovered'
  BY <1>1, <1>2, <1>3 DEF Ledger, RedisCovered
<1> QED
  BY <1>4, <1>5 DEF Ledger

\* What client c owes at each of its steps.
LEMMA OwesFacts ==
  ASSUME NEW c
  PROVE  /\ clients[c].pc \in {"idle", "notify", "flushing"} =>
              Owes(c, "redis") = 0 /\ Owes(c, "manifest") = 0
         /\ clients[c].pc = "charged" =>
              Owes(c, "redis") = -clients[c].size /\ Owes(c, "manifest") = 0
         /\ clients[c].pc = "refund" =>
              Owes(c, "redis") = -clients[c].by /\ Owes(c, "manifest") = 0
         /\ clients[c].pc = "settle" /\ clients[c].bucket = "redis" =>
              Owes(c, "redis") = clients[c].by /\ Owes(c, "manifest") = 0
         /\ clients[c].pc = "settle" /\ clients[c].bucket = "manifest" =>
              Owes(c, "manifest") = clients[c].by /\ Owes(c, "redis") = 0
BY DEF Owes

LEMMA OwesFactsNext ==
  ASSUME NEW c
  PROVE  /\ clients'[c].pc \in {"idle", "notify", "flushing"} =>
              Owes(c, "redis")' = 0 /\ Owes(c, "manifest")' = 0
         /\ clients'[c].pc = "charged" =>
              Owes(c, "redis")' = -clients'[c].size /\ Owes(c, "manifest")' = 0
         /\ clients'[c].pc = "refund" =>
              Owes(c, "redis")' = -clients'[c].by /\ Owes(c, "manifest")' = 0
         /\ clients'[c].pc = "settle" /\ clients'[c].bucket = "redis" =>
              Owes(c, "redis")' = clients'[c].by /\ Owes(c, "manifest")' = 0
         /\ clients'[c].pc = "settle" /\ clients'[c].bucket = "manifest" =>
              Owes(c, "manifest")' = clients'[c].by /\ Owes(c, "redis")' = 0
BY DEF Owes

LEMMA GotoFacts ==
  ASSUME clients \in [Clients -> ClientState], NEW c \in Clients, NEW s, Goto(c, s)
  PROVE  clients'[c] = s /\ \A e \in Clients \ {c} : clients'[e] = clients[e]
BY DEF Goto

LEMMA InsertRedisLedger ==
  ASSUME Typed, Typed', Ledger, NEW c \in Clients, NEW i \in RedisKeys, NEW n \in Sizes,
         InsertRedis(c, i, n)
  PROVE  Ledger'
<1>1. n \in Nat
  BY ChargeType
<1>2. /\ clients'[c] = [pc |-> "charged", item |-> i, size |-> n]
      /\ \A e \in Clients \ {c} : clients'[e] = clients[e]
  BY GotoFacts DEF InsertRedis, Typed
<1>3. Owes(c, "redis") = 0 /\ Owes(c, "manifest") = 0
  BY OwesFacts DEF InsertRedis, Begin, Idle
<1>4. Owes(c, "redis")' = -n /\ Owes(c, "manifest")' = 0
  BY <1>2, OwesFactsNext
<1>5. usage'["redis"] = usage["redis"] + n /\ usage'["manifest"] = usage["manifest"]
  BY DEF InsertRedis, Add, Typed, TypeOK
<1>6. Held(RedisKeys)' = Held(RedisKeys) /\ Held(Manifests)' = Held(Manifests)
  BY HeldSame DEF InsertRedis
<1> QED
  BY <1>1, <1>2, <1>3, <1>4, <1>5, <1>6, LedgerTypes, ClientKeepsLedger DEF InsertRedis

LEMMA InsertRedisMapLedger ==
  ASSUME Typed, Typed', Ledger, NEW c \in Clients, InsertRedisMap(c)
  PROVE  Ledger'
<1>1. clients[c] \in ClientState /\ clients[c].pc = "charged"
  BY DEF Typed, InsertRedisMap
<1>2. PICK i \in RedisKeys, n \in Sizes : i = clients[c].item /\ n = clients[c].size
  BY <1>1, ClientFacts
<1>3. PICK o \in Sizes \cup {0} : o = store[i]
  BY DEF Typed, TypeOK, Items
<1>4. n \in Nat \ {0} /\ o \in Nat /\ KeyLen \in Nat /\ i \in Items
  BY SizesAssumption, BoundsAssumption DEF Items
<1> DEFINE by == IF o = 0 THEN KeyLen ELSE -o
<1>5. /\ clients'[c] = [pc |-> "settle", bucket |-> "redis", by |-> by]
      /\ \A e \in Clients \ {c} : clients'[e] = clients[e]
  BY <1>2, <1>3, GotoFacts DEF InsertRedisMap, Typed
<1>6. Owes(c, "redis") = -n /\ Owes(c, "manifest") = 0
  BY <1>1, <1>2, OwesFacts
<1>7. Owes(c, "redis")' = by /\ Owes(c, "manifest")' = 0
  BY <1>5, OwesFactsNext
<1>8. store' = [store EXCEPT ![i] = n]
  BY <1>2 DEF InsertRedisMap
<1>9. Held(RedisKeys)' = Held(RedisKeys) - Charge(i, o) + Charge(i, n)
  <2>1. store'[i] = n /\ \A j \in RedisKeys \ {i} : store'[j] = store[j]
    BY <1>4, <1>8 DEF Typed, TypeOK, Items
  <2>2. Held(RedisKeys)' = Held(RedisKeys) - Charge(i, store[i]) + Charge(i, store'[i])
    BY <2>1, HeldChange DEF Typed, TypeOK
  <2> QED
    BY <1>3, <2>1, <2>2
<1>10. Held(Manifests)' = Held(Manifests)
  <2>1. \A j \in Manifests : store'[j] = store[j]
    BY <1>8, ItemsAssumption DEF Typed, TypeOK, Items
  <2> QED
    BY <2>1, HeldSame
<1>11. Charge(i, n) - Charge(i, o) = by + n
  BY <1>4 DEF Charge
<1>12. by \in Int /\ Charge(i, n) \in Nat /\ Charge(i, o) \in Nat
  BY <1>4, ChargeType
<1>13. usage' = usage /\ lost' = lost
  BY DEF InsertRedisMap
<1> HIDE DEF by
<1> QED
  BY <1>4, <1>5, <1>6, <1>7, <1>9, <1>10, <1>11, <1>12, <1>13, LedgerTypes, ClientKeepsLedger

LEMMA SettleLedger ==
  ASSUME Typed, Typed', Ledger, NEW c \in Clients, Settle(c)
  PROVE  Ledger'
<1>1. clients[c] \in ClientState /\ clients[c].pc = "settle"
  BY DEF Typed, Settle
<1>2. PICK b \in {"redis", "manifest"}, n \in Int : b = clients[c].bucket /\ n = clients[c].by
  BY <1>1, ClientFacts
<1>3. clients'[c] = [pc |-> "notify"] /\ \A e \in Clients \ {c} : clients'[e] = clients[e]
  BY GotoFacts DEF Settle, Typed
<1>4. Owes(c, "redis")' = 0 /\ Owes(c, "manifest")' = 0
  BY <1>3, OwesFactsNext
<1>5. Held(RedisKeys)' = Held(RedisKeys) /\ Held(Manifests)' = Held(Manifests) /\ lost' = lost
  BY HeldSame DEF Settle
<1>6. usage' = [usage EXCEPT ![b] = @ + n]
  BY <1>2 DEF Settle, Add
<1>7. CASE b = "redis"
  <2>1. Owes(c, "redis") = n /\ Owes(c, "manifest") = 0
    BY <1>1, <1>2, <1>7, OwesFacts
  <2>2. usage'["redis"] = usage["redis"] + n /\ usage'["manifest"] = usage["manifest"]
    BY <1>6, <1>7 DEF Typed, TypeOK
  <2> QED
    BY <1>3, <1>4, <1>5, <2>1, <2>2, LedgerTypes, ClientKeepsLedger
<1>8. CASE b = "manifest"
  <2>1. Owes(c, "manifest") = n /\ Owes(c, "redis") = 0
    BY <1>1, <1>2, <1>8, OwesFacts
  <2>2. usage'["manifest"] = usage["manifest"] + n /\ usage'["redis"] = usage["redis"]
    BY <1>6, <1>8 DEF Typed, TypeOK
  <2> QED
    BY <1>3, <1>4, <1>5, <2>1, <2>2, LedgerTypes, ClientKeepsLedger
<1> QED
  BY <1>7, <1>8

LEMMA NotifyOneLedger ==
  ASSUME Typed, Typed', Ledger, NEW c \in Clients, NotifyOne(c)
  PROVE  Ledger'
<1>1. clients'[c] = Idle /\ \A e \in Clients \ {c} : clients'[e] = clients[e]
  BY GotoFacts DEF NotifyOne, Typed
<1>2. Owes(c, "redis") = 0 /\ Owes(c, "manifest") = 0
  BY OwesFacts DEF NotifyOne
<1>3. Owes(c, "redis")' = 0 /\ Owes(c, "manifest")' = 0
  BY <1>1, OwesFactsNext DEF Idle
<1>4. Held(RedisKeys)' = Held(RedisKeys) /\ Held(Manifests)' = Held(Manifests)
      /\ lost' = lost /\ usage' = usage
  BY HeldSame DEF NotifyOne
<1> QED
  BY <1>1, <1>2, <1>3, <1>4, LedgerTypes, ClientKeepsLedger

LEMMA InsertManifestLedger ==
  ASSUME Typed, Typed', Ledger, NEW c \in Clients, NEW i \in Manifests, NEW n \in Sizes,
         InsertManifest(c, i, n)
  PROVE  Ledger'
<1>1. PICK o \in Sizes \cup {0} : o = store[i]
  BY DEF Typed, TypeOK, Items
<1>2. n \in Nat /\ o \in Nat /\ i \in Items /\ i \notin RedisKeys
  BY SizesAssumption, ItemsAssumption DEF Items
<1>3. /\ clients'[c] = [pc |-> "settle", bucket |-> "manifest", by |-> n - o]
      /\ \A e \in Clients \ {c} : clients'[e] = clients[e]
  BY <1>1, GotoFacts DEF InsertManifest, Typed
<1>4. Owes(c, "redis") = 0 /\ Owes(c, "manifest") = 0
  BY OwesFacts DEF InsertManifest, Begin, Idle
<1>5. Owes(c, "manifest")' = n - o /\ Owes(c, "redis")' = 0
  BY <1>3, OwesFactsNext
<1>6. store' = [store EXCEPT ![i] = n] /\ usage' = usage /\ lost' = lost
  BY DEF InsertManifest
<1>7. Held(Manifests)' = Held(Manifests) - Charge(i, o) + Charge(i, n)
  <2>1. store'[i] = n /\ \A j \in Manifests \ {i} : store'[j] = store[j]
    BY <1>2, <1>6 DEF Typed, TypeOK, Items
  <2>2. Held(Manifests)' = Held(Manifests) - Charge(i, store[i]) + Charge(i, store'[i])
    BY <2>1, HeldChange DEF Typed, TypeOK
  <2> QED
    BY <1>1, <2>1, <2>2
<1>8. Held(RedisKeys)' = Held(RedisKeys)
  <2>1. \A j \in RedisKeys : store'[j] = store[j]
    BY <1>2, <1>6 DEF Typed, TypeOK, Items
  <2> QED
    BY <2>1, HeldSame
<1>9. Charge(i, n) = n /\ Charge(i, o) = o
  BY <1>2 DEF Charge
<1> QED
  BY <1>2, <1>3, <1>4, <1>5, <1>6, <1>7, <1>8, <1>9, LedgerTypes, ClientKeepsLedger

\* A redis key is removed: what the maps hold then.
LEMMA RedisGone ==
  ASSUME Typed, Typed', NEW i \in RedisKeys, store' = [store EXCEPT ![i] = 0]
  PROVE  /\ Held(RedisKeys)' = Held(RedisKeys) - Charge(i, store[i])
         /\ Held(Manifests)' = Held(Manifests)
         /\ Charge(i, store[i]) \in Nat
<1>1. i \in Items /\ i \notin Manifests
  BY ItemsAssumption DEF Items
<1>2. store'[i] = 0 /\ \A j \in RedisKeys \ {i} : store'[j] = store[j]
  BY <1>1 DEF Typed, TypeOK, Items
<1>3. \A j \in Manifests : store'[j] = store[j]
  BY <1>1 DEF Typed, TypeOK, Items
<1>4. Held(RedisKeys)' = Held(RedisKeys) - Charge(i, store[i]) + Charge(i, store'[i])
  BY <1>2, HeldChange DEF Typed, TypeOK
<1>5. Charge(i, store[i]) \in Nat /\ Charge(i, store'[i]) = 0
  BY <1>1, <1>2, ChargeType DEF Typed, TypeOK, Charge
<1>6. Held(Manifests)' = Held(Manifests)
  BY <1>3, HeldSame
<1> QED
  BY <1>4, <1>5, <1>6, LedgerTypes

LEMMA RemoveRedisLedger ==
  ASSUME Typed, Typed', Ledger, NEW c \in Clients, NEW i \in RedisKeys, RemoveRedis(c, i)
  PROVE  Ledger'
<1>1. /\ Held(RedisKeys)' = Held(RedisKeys) - Charge(i, store[i])
      /\ Held(Manifests)' = Held(Manifests)
      /\ Charge(i, store[i]) \in Nat
  BY RedisGone DEF RemoveRedis
<1>2. /\ clients'[c] = [pc |-> "refund", by |-> Charge(i, store[i])]
      /\ \A e \in Clients \ {c} : clients'[e] = clients[e]
  BY GotoFacts DEF RemoveRedis, Typed
<1>3. Owes(c, "redis") = 0 /\ Owes(c, "manifest") = 0
  BY OwesFacts DEF RemoveRedis, Begin, Idle
<1>4. Owes(c, "redis")' = -Charge(i, store[i]) /\ Owes(c, "manifest")' = 0
  BY <1>2, OwesFactsNext
<1>5. usage' = usage /\ lost' = lost
  BY DEF RemoveRedis
<1> QED
  BY <1>1, <1>2, <1>3, <1>4, <1>5, LedgerTypes, ClientKeepsLedger

LEMMA RefundLedger ==
  ASSUME Typed, Typed', Ledger, NEW c \in Clients, Refund(c)
  PROVE  Ledger'
<1>1. clients[c] \in ClientState /\ clients[c].pc = "refund"
  BY DEF Typed, Refund
<1>2. PICK n \in Int : n = clients[c].by
  BY <1>1, ClientFacts
<1>3. clients'[c] = Idle /\ \A e \in Clients \ {c} : clients'[e] = clients[e]
  BY GotoFacts DEF Refund, Typed
<1>4. Owes(c, "redis")' = 0 /\ Owes(c, "manifest")' = 0
  BY <1>3, OwesFactsNext DEF Idle
<1>5. Owes(c, "redis") = -n /\ Owes(c, "manifest") = 0
  BY <1>1, <1>2, OwesFacts
<1>6. Held(RedisKeys)' = Held(RedisKeys) /\ Held(Manifests)' = Held(Manifests) /\ lost' = lost
  BY HeldSame DEF Refund
<1>7. usage' = [usage EXCEPT !["redis"] = @ + (-n)]
  BY <1>2 DEF Refund, Add
<1>8. usage'["redis"] = usage["redis"] - n /\ usage'["manifest"] = usage["manifest"]
  BY <1>7 DEF Typed, TypeOK
<1> QED
  BY <1>3, <1>4, <1>5, <1>6, <1>8, LedgerTypes, ClientKeepsLedger

LEMMA FlushLedger ==
  ASSUME Typed, Typed', Ledger, NEW c \in Clients, Flush(c)
  PROVE  Ledger'
<1>1. /\ clients'[c] = [pc |-> "flushing", todo |-> RedisKeys]
      /\ \A e \in Clients \ {c} : clients'[e] = clients[e]
  BY GotoFacts DEF Flush, Typed
<1>2. Owes(c, "redis") = 0 /\ Owes(c, "manifest") = 0
  BY OwesFacts DEF Flush, Begin, Idle
<1>3. Owes(c, "redis")' = 0 /\ Owes(c, "manifest")' = 0
  BY <1>1, OwesFactsNext
<1>4. Held(RedisKeys)' = Held(RedisKeys) /\ Held(Manifests)' = Held(Manifests)
      /\ lost' = lost /\ usage' = usage
  BY HeldSame DEF Flush
<1> QED
  BY <1>1, <1>2, <1>3, <1>4, LedgerTypes, ClientKeepsLedger

LEMMA FlushKeyLedger ==
  ASSUME Typed, Typed', Ledger, NEW c \in Clients, NEW i \in RedisKeys, FlushKey(c, i)
  PROVE  Ledger'
<1>1. /\ clients'[c] = [pc |-> "flushing", todo |-> clients[c].todo \ {i}]
      /\ \A e \in Clients \ {c} : clients'[e] = clients[e]
  BY FlushKeyTyped DEF Typed
<1>2. Owes(c, "redis") = 0 /\ Owes(c, "manifest") = 0
  BY OwesFacts DEF FlushKey
<1>3. Owes(c, "redis")' = 0 /\ Owes(c, "manifest")' = 0
  BY <1>1, OwesFactsNext
<1>4. /\ Held(RedisKeys)' = Held(RedisKeys) - Charge(i, store[i])
      /\ Held(Manifests)' = Held(Manifests)
      /\ Charge(i, store[i]) \in Nat
  BY RedisGone DEF FlushKey
<1>5. usage' = usage /\ lost' = lost
  BY DEF FlushKey
<1> QED
  BY <1>1, <1>2, <1>3, <1>4, <1>5, LedgerTypes, ClientKeepsLedger
\* The flush stores 0: nothing is left of the values, and nobody owes.
LEMMA FlushStoreLedger ==
  ASSUME Typed, Typed', Ledger, CleanFlush, NEW c \in Clients, FlushStore(c)
  PROVE  Ledger'
<1>1. clients'[c] = Idle /\ \A e \in Clients \ {c} : clients'[e] = clients[e]
  BY GotoFacts DEF FlushStore, Typed
<1>2. Owes(c, "redis") = 0 /\ Owes(c, "manifest") = 0
  BY OwesFacts DEF FlushStore
<1>3. Owes(c, "redis")' = 0 /\ Owes(c, "manifest")' = 0
  BY <1>1, OwesFactsNext DEF Idle
<1>4. Held(RedisKeys)' = Held(RedisKeys) /\ Held(Manifests)' = Held(Manifests)
  BY HeldSame DEF FlushStore
<1>5. usage'["redis"] = 0 /\ usage'["manifest"] = usage["manifest"]
  BY DEF FlushStore, Typed, TypeOK
<1>6. /\ Owed("manifest")' = Owed("manifest") - Owes(c, "manifest") + Owes(c, "manifest")'
      /\ Owed("redis")' = Owed("redis") - Owes(c, "redis") + Owes(c, "redis")'
  BY <1>1, OwedChange DEF Typed
<1>7. ManifestExact'
  BY <1>2, <1>3, <1>4, <1>5, <1>6, LedgerTypes DEF Ledger, ManifestExact
<1>8. ASSUME clean PROVE Owed("redis") = 0 /\ Held(RedisKeys) = 0
  <2>1. /\ \A e \in Clients \ {c} : ~InRedis(e)
        /\ \A i \in RedisKeys : store[i] = 0
    BY <1>8 DEF CleanFlush, FlushStore
  <2>2. \A e \in Clients : Owes(e, "redis") = 0
    BY <1>2, <2>1 DEF Owes, InRedis
  <2>3. Owed("redis") = 0
    BY <2>2, OwedNothing DEF Typed
  <2>4. [i \in RedisKeys |-> Charge(i, store[i])] \in [RedisKeys -> Int]
        /\ \A i \in RedisKeys : [j \in RedisKeys |-> Charge(j, store[j])][i] = 0
    BY <2>1 DEF Charge
  <2>5. Held(RedisKeys) = 0
    BY <2>4, SumZero DEF Held
  <2> QED
    BY <2>3, <2>5
<1>9. ~lost' => clean
  BY DEF FlushStore
<1>10. RedisCovered'
  BY <1>2, <1>3, <1>4, <1>5, <1>6, <1>8, <1>9 DEF RedisCovered
<1> QED
  BY <1>7, <1>10 DEF Ledger

\* The loop outside a pass, and the scan, leave the ledger alone.
LEMMA LoopLedger ==
  ASSUME Ledger, UNCHANGED <<store, usage, clients, lost>>
  PROVE  Ledger'
<1>1. Held(RedisKeys)' = Held(RedisKeys) /\ Held(Manifests)' = Held(Manifests)
  BY HeldSame
<1>2. Owed("redis")' = Owed("redis") /\ Owed("manifest")' = Owed("manifest")
  BY DEF Owed, Owes
<1> QED
  BY <1>1, <1>2 DEF Ledger, ManifestExact, RedisCovered

\* A victim leaves its map and its counter together.
LEMMA PassEvictLedger ==
  ASSUME Typed, Typed', Ledger, NEW i \in Items, PassEvict(i)
  PROVE  Ledger'
<1>1. Owed("redis")' = Owed("redis") /\ Owed("manifest")' = Owed("manifest")
  BY DEF Owed, Owes, PassEvict
<1>2. PICK n \in Nat : n = Charge(i, store[i])
  BY ChargeType DEF Typed, TypeOK
<1>3. store' = [store EXCEPT ![i] = 0] /\ usage' = [usage EXCEPT ![Bucket(i)] = @ + (-n)]
      /\ lost' = lost
  BY <1>2 DEF PassEvict, Add
<1>4. CASE i \in RedisKeys
  <2>1. Held(RedisKeys)' = Held(RedisKeys) - n /\ Held(Manifests)' = Held(Manifests)
    BY <1>2, <1>3, <1>4, RedisGone
  <2>2. usage'["redis"] = usage["redis"] - n /\ usage'["manifest"] = usage["manifest"]
    BY <1>3, <1>4 DEF Bucket, Typed, TypeOK
  <2> QED
    BY <1>1, <1>3, <2>1, <2>2, LedgerTypes DEF Ledger, ManifestExact, RedisCovered
<1>5. CASE i \notin RedisKeys
  <2>1. i \in Manifests
    BY <1>5 DEF Items
  <2>2. store'[i] = 0 /\ \A j \in Items \ {i} : store'[j] = store[j]
    BY <1>3 DEF Typed, TypeOK
  <2>3. Held(Manifests)' = Held(Manifests) - Charge(i, store[i]) + Charge(i, store'[i])
    BY <2>1, <2>2, HeldChange DEF Typed, TypeOK, Items
  <2>4. Charge(i, store'[i]) = 0
    BY <2>2 DEF Charge
  <2>5. Held(RedisKeys)' = Held(RedisKeys)
    BY <1>5, <2>2, HeldSame DEF Items
  <2>6. usage'["manifest"] = usage["manifest"] - n /\ usage'["redis"] = usage["redis"]
    BY <1>3, <1>5 DEF Bucket, Typed, TypeOK
  <2> QED
    BY <1>1, <1>2, <1>3, <2>3, <2>4, <2>5, <2>6, LedgerTypes DEF Ledger, ManifestExact, RedisCovered
<1> QED
  BY <1>4, <1>5

\* The pass stores its sum: it covers what is left, and nobody owes.
LEMMA PassEndLedger ==
  ASSUME Typed, Ledger, CleanPass, PassEnd
  PROVE  Ledger'
<1>1. Held(RedisKeys)' = Held(RedisKeys) /\ Held(Manifests)' = Held(Manifests)
  BY HeldSame DEF PassEnd
<1>2. Owed("redis")' = Owed("redis") /\ Owed("manifest")' = Owed("manifest")
  BY DEF Owed, Owes, PassEnd
<1>3. usage'["redis"] = loop.redis /\ usage'["manifest"] = usage["manifest"]
  BY DEF PassEnd, Typed, TypeOK
<1>4. ManifestExact'
  BY <1>1, <1>2, <1>3 DEF Ledger, ManifestExact
<1>5. ASSUME clean PROVE Owed("redis") = 0 /\ loop.redis >= Held(RedisKeys)
  <2>1. (\A c \in Clients : ~InRedis(c)) /\ loop.redis >= Held(RedisKeys)
    BY <1>5 DEF CleanPass, PassEnd
  <2>2. \A c \in Clients : Owes(c, "redis") = 0
    BY <2>1 DEF Owes, InRedis
  <2> QED
    BY <2>1, <2>2, OwedNothing DEF Typed
<1>6. loop.redis \in Nat
  BY LoopFacts DEF Typed, PassEnd
<1>7. ~lost' => clean
  BY DEF PassEnd
<1>8. RedisCovered'
  BY <1>1, <1>2, <1>3, <1>5, <1>6, <1>7, LedgerTypes DEF RedisCovered
<1> QED
  BY <1>4, <1>8 DEF Ledger

-----------------------------------------------------------------------------
(***************************************************************************)
(* Every step keeps what is known of an undisturbed flush or pass.         *)
(***************************************************************************)
Undisturbed == CleanFlush /\ CleanPass

\* Client c ends, or is outside of, a redis operation.
LEMMA ClientLeaves ==
  ASSUME Undisturbed, NEW c \in Clients, ~InRedis(c)',
         \A e \in Clients \ {c} : clients'[e] = clients[e],
         \A i \in RedisKeys : store'[i] = store[i],
         UNCHANGED <<loop, clean>>
  PROVE  Undisturbed'
<1>1. Held(RedisKeys)' = Held(RedisKeys)
  BY HeldSame
<1>2. \A e \in Clients : InRedis(e)' => e # c /\ InRedis(e)
  BY DEF InRedis
<1>3. CleanPass'
  BY <1>1, <1>2 DEF Undisturbed, CleanPass
<1>4. CleanFlush'
  <2>1. SUFFICES ASSUME NEW d \in Clients, clean', clients'[d].pc = "flushing"
                 PROVE  /\ loop'.pc # "pass"
                        /\ \A e \in Clients \ {d} : ~InRedis(e)'
                        /\ \A i \in RedisKeys \ clients'[d].todo : store'[i] = 0
    BY DEF CleanFlush
  <2>2. d # c /\ clients'[d] = clients[d]
    BY <1>2, <2>1 DEF InRedis
  <2>3. /\ loop.pc # "pass"
        /\ \A e \in Clients \ {d} : ~InRedis(e)
        /\ \A i \in RedisKeys \ clients[d].todo : store[i] = 0
    BY <2>1, <2>2 DEF Undisturbed, CleanFlush
  <2> QED
    BY <1>2, <2>2, <2>3
<1> QED
  BY <1>3, <1>4 DEF Undisturbed

\* A step of a client in a redis operation: an undisturbed flush or pass is
\* then not another's.
LEMMA InsertRedisMapClean ==
  ASSUME Typed, Undisturbed, NEW c \in Clients, InsertRedisMap(c)
  PROVE  Undisturbed'
<1>1. InRedis(c) /\ clients[c].pc # "flushing"
  BY DEF InRedis, InsertRedisMap
<1>2. clients'[c].pc = "settle" /\ \A e \in Clients \ {c} : clients'[e] = clients[e]
  BY DEF InsertRedisMap, Goto, Typed
<1>3. CleanFlush'
  BY <1>1, <1>2 DEF Undisturbed, CleanFlush, InsertRedisMap
<1>4. CleanPass'
  BY <1>1 DEF Undisturbed, CleanPass, InsertRedisMap
<1> QED
  BY <1>3, <1>4 DEF Undisturbed

LEMMA FlushClean ==
  ASSUME Typed, NEW c \in Clients, Flush(c)
  PROVE  Undisturbed'
<1>1. /\ clients'[c] = [pc |-> "flushing", todo |-> RedisKeys]
      /\ \A e \in Clients \ {c} : clients'[e] = clients[e]
  BY GotoFacts DEF Flush, Typed
<1>2. loop' = loop /\ (clean' => loop.pc # "pass" /\ ~RedisBusy)
  BY DEF Flush
<1>3. ~RedisBusy => \A e \in Clients \ {c} : ~InRedis(e)' /\ clients'[e].pc # "flushing"
  BY <1>1 DEF RedisBusy, InRedis
<1>4. CleanPass'
  BY <1>2 DEF CleanPass
<1>5. CleanFlush'
  BY <1>1, <1>2, <1>3 DEF CleanFlush
<1> QED
  BY <1>4, <1>5 DEF Undisturbed

LEMMA FlushKeyClean ==
  ASSUME Typed, Undisturbed, NEW c \in Clients, NEW i \in RedisKeys, FlushKey(c, i)
  PROVE  Undisturbed'
<1>1. /\ clients'[c] = [pc |-> "flushing", todo |-> clients[c].todo \ {i}]
      /\ \A e \in Clients \ {c} : clients'[e] = clients[e]
  BY FlushKeyTyped DEF Typed
<1>2. clients[c].pc = "flushing" /\ InRedis(c) /\ loop' = loop /\ clean' = clean
  BY DEF FlushKey, InRedis
<1>3. CleanPass'
  BY <1>2 DEF Undisturbed, CleanPass
<1>4. CleanFlush'
  <2>1. SUFFICES ASSUME NEW d \in Clients, clean', clients'[d].pc = "flushing"
                 PROVE  /\ loop'.pc # "pass"
                        /\ \A e \in Clients \ {d} : ~InRedis(e)'
                        /\ \A j \in RedisKeys \ clients'[d].todo : store'[j] = 0
    BY DEF CleanFlush
  <2>2. /\ loop.pc # "pass"
        /\ \A e \in Clients \ {c} : ~InRedis(e)
        /\ \A j \in RedisKeys \ clients[c].todo : store[j] = 0
    BY <1>2, <2>1 DEF Undisturbed, CleanFlush
  <2>3. \A e \in Clients \ {c} : ~InRedis(e)' /\ clients'[e].pc # "flushing"
    BY <1>1, <2>2 DEF InRedis
  <2>4. d = c
    BY <2>1, <2>3
  <2>5. \A j \in RedisKeys \ (clients[c].todo \ {i}) : store'[j] = 0
    BY <2>2 DEF FlushKey, Typed, TypeOK, Items
  <2> QED
    BY <1>1, <1>2, <2>2, <2>3, <2>4, <2>5
<1> QED
  BY <1>3, <1>4 DEF Undisturbed

LEMMA LoopMovesClean ==
  ASSUME Typed, Undisturbed, LoopMoves
  PROVE  Undisturbed'
<1>1. loop'.pc # "pass" /\ UNCHANGED <<store, usage, clients, clean, lost>>
  BY LoopMovesTyped
<1>2. CleanPass'
  BY <1>1 DEF CleanPass
<1>3. CleanFlush'
  BY <1>1 DEF Undisturbed, CleanFlush, InRedis
<1> QED
  BY <1>2, <1>3 DEF Undisturbed

LEMMA PassScanClean ==
  ASSUME Typed, PassScan
  PROVE  Undisturbed'
<1>1. /\ clean' => ~RedisBusy
      /\ clients' = clients /\ store' = store
      /\ loop'.sizes = store /\ loop'.redis = Held(RedisKeys)
  BY DEF PassScan
<1>2. ~RedisBusy => \A c \in Clients : ~InRedis(c)' /\ clients'[c].pc # "flushing"
  BY <1>1 DEF RedisBusy, InRedis
<1>3. Held(RedisKeys)' = Held(RedisKeys) /\ Held(RedisKeys) \in Nat
  BY <1>1, HeldSame, LedgerTypes
<1>4. CleanPass'
  BY <1>1, <1>2, <1>3 DEF CleanPass
<1>5. CleanFlush'
  BY <1>1, <1>2 DEF CleanFlush
<1> QED
  BY <1>4, <1>5 DEF Undisturbed

\* A victim takes no more off the local sum than off the map.
LEMMA PassEvictClean ==
  ASSUME Typed, Typed', Undisturbed, NEW i \in Items, PassEvict(i)
  PROVE  Undisturbed'
<1>1. loop.pc = "pass" /\ UNCHANGED <<clients, clean>> /\ store' = [store EXCEPT ![i] = 0]
  BY DEF PassEvict
<1>2. CleanFlush'
  BY <1>1 DEF Undisturbed, CleanFlush
<1>3. ASSUME clean
      PROVE  /\ \A c \in Clients : ~InRedis(c)'
             /\ \A j \in RedisKeys : store'[j] \in {0, loop'.sizes[j]}
             /\ loop'.redis >= Held(RedisKeys)'
  <2>1. /\ \A c \in Clients : ~InRedis(c)
        /\ \A j \in RedisKeys : store[j] \in {0, loop.sizes[j]}
        /\ loop.redis >= Held(RedisKeys)
    BY <1>1, <1>3 DEF Undisturbed, CleanPass
  <2>2. \A c \in Clients : ~InRedis(c)'
    BY <1>1, <2>1 DEF InRedis
  <2>3. loop'.sizes = loop.sizes
    BY PassEvictLoop
  <2>4. \A j \in RedisKeys : store'[j] \in {0, loop'.sizes[j]}
    BY <1>1, <2>1, <2>3 DEF Typed, TypeOK, Items
  <2>5. loop.redis \in Nat /\ Held(RedisKeys) \in Nat
    BY <1>1, LoopFacts, LedgerTypes DEF Typed
  <2>6. CASE i \in RedisKeys
    <3>1. Held(RedisKeys)' = Held(RedisKeys) - Charge(i, store[i])
      BY <1>1, <2>6, RedisGone
    <3>2. loop'.redis = SaturatingSub(loop.redis, Released(i))
      BY <2>6, PassEvictLoop
    <3>3. PICK n \in Sizes \cup {0} : n = store[i]
      BY DEF Typed, TypeOK
    <3>4. Released(i) = n
      BY <2>1, <2>6, <3>3 DEF Released
    <3>5. n \in Nat /\ Charge(i, n) \in Nat /\ Charge(i, n) >= n
      BY <2>6, <3>3, ChargeType, BoundsAssumption DEF Charge
    <3>6. loop'.redis >= Held(RedisKeys)'
      BY <2>1, <2>5, <3>1, <3>2, <3>3, <3>4, <3>5 DEF SaturatingSub
    <3> QED
      BY <2>2, <2>4, <3>6
  <2>7. CASE i \notin RedisKeys
    <3>1. loop'.redis = loop.redis
      BY <2>7, PassEvictLoop
    <3>2. \A j \in RedisKeys : store'[j] = store[j]
      BY <1>1, <2>7 DEF Typed, TypeOK, Items
    <3>3. Held(RedisKeys)' = Held(RedisKeys)
      BY <3>2, HeldSame
    <3> QED
      BY <2>1, <2>2, <2>4, <3>1, <3>3
  <2> QED
    BY <2>6, <2>7
<1>4. CleanPass'
  BY <1>1, <1>3 DEF CleanPass
<1> QED
  BY <1>2, <1>4 DEF Undisturbed

LEMMA PassEndClean ==
  ASSUME Undisturbed, PassEnd
  PROVE  Undisturbed'
<1>1. loop.pc = "pass" /\ loop'.pc # "pass" /\ UNCHANGED <<clients, clean>>
  BY DEF PassEnd
<1>2. CleanFlush' /\ CleanPass'
  BY <1>1 DEF Undisturbed, CleanFlush, CleanPass
<1> QED
  BY <1>2 DEF Undisturbed

-----------------------------------------------------------------------------
(***************************************************************************)
(* The invariant.                                                          *)
(***************************************************************************)
LEMMA InvParts == IInv <=> Typed /\ Ledger /\ Undisturbed
BY DEF IInv, Typed, Ledger, Undisturbed

LEMMA InitInv ==
  ASSUME Init
  PROVE  IInv
<1>1. Typed
  BY InitTyped
<1>2. \A c \in Clients : clients[c].pc = "idle"
  BY DEF Init, Idle
<1>3. Owed("redis") = 0 /\ Owed("manifest") = 0
  BY <1>1, <1>2, OwedNothing DEF Typed, Owes
<1>4. ASSUME NEW S \in {RedisKeys, Manifests} PROVE Held(S) = 0
  <2>1. /\ [i \in S |-> Charge(i, store[i])] \in [S -> Int]
        /\ \A i \in S : [j \in S |-> Charge(j, store[j])][i] = 0
    BY DEF Init, Charge, Items
  <2> QED
    BY <2>1, SumZero DEF Held
<1>5. Ledger
  BY <1>3, <1>4 DEF Ledger, ManifestExact, RedisCovered, Init
<1>6. Undisturbed
  BY <1>2 DEF Undisturbed, CleanFlush, CleanPass, Init
<1> QED
  BY <1>1, <1>5, <1>6, InvParts

LEMMA ClientInv ==
  ASSUME IInv, NEW c \in Clients, Client(c)
  PROVE  IInv'
<1>0. Typed /\ Ledger /\ Undisturbed /\ CleanFlush
  BY InvParts DEF IInv
<1> SUFFICES Typed' /\ Ledger' /\ Undisturbed'
  BY InvParts, PTL
<1>1. ASSUME NEW i \in RedisKeys, NEW n \in Sizes, InsertRedis(c, i, n)
      PROVE  Typed' /\ Ledger' /\ Undisturbed'
  <2>1. Undisturbed'
    BY <1>1 DEF InsertRedis, Undisturbed, CleanFlush, CleanPass
  <2> QED
    BY <1>0, <1>1, <2>1, InsertRedisTyped, InsertRedisLedger
<1>2. ASSUME NEW i \in Manifests, NEW n \in Sizes, InsertManifest(c, i, n)
      PROVE  Typed' /\ Ledger' /\ Undisturbed'
  <2>1. /\ clients'[c] = [pc |-> "settle", bucket |-> "manifest", by |-> n - store[i]]
        /\ \A e \in Clients \ {c} : clients'[e] = clients[e]
    BY <1>0, <1>2, GotoFacts DEF InsertManifest, Typed
  <2>2. ~InRedis(c)'
    BY <2>1 DEF InRedis
  <2>3. \A j \in RedisKeys : store'[j] = store[j]
    BY <1>0, <1>2, ItemsAssumption DEF InsertManifest, Typed, TypeOK, Items
  <2>4. Undisturbed'
    BY <1>0, <1>2, <2>1, <2>2, <2>3, ClientLeaves DEF InsertManifest
  <2> QED
    BY <1>0, <1>2, <2>4, InsertManifestTyped, InsertManifestLedger
<1>3. ASSUME NEW i \in RedisKeys, RemoveRedis(c, i)
      PROVE  Typed' /\ Ledger' /\ Undisturbed'
  <2>1. Undisturbed'
    BY <1>3 DEF RemoveRedis, Undisturbed, CleanFlush, CleanPass
  <2> QED
    BY <1>0, <1>3, <2>1, RemoveRedisTyped, RemoveRedisLedger
<1>4. ASSUME NEW i \in RedisKeys, FlushKey(c, i)
      PROVE  Typed' /\ Ledger' /\ Undisturbed'
  BY <1>0, <1>4, FlushKeyTyped, FlushKeyLedger, FlushKeyClean
<1>5. ASSUME Flush(c) PROVE Typed' /\ Ledger' /\ Undisturbed'
  BY <1>0, <1>5, FlushTyped, FlushLedger, FlushClean
<1>6. ASSUME InsertRedisMap(c) PROVE Typed' /\ Ledger' /\ Undisturbed'
  BY <1>0, <1>6, InsertRedisMapTyped, InsertRedisMapLedger, InsertRedisMapClean
\* The other steps end an operation.
<1>7. ASSUME NEW s, s.pc \in {"idle", "notify"}, Goto(c, s), UNCHANGED <<store, loop, clean>>
      PROVE  Undisturbed'
  <2>1. clients'[c] = s /\ \A e \in Clients \ {c} : clients'[e] = clients[e]
    BY <1>0, <1>7, GotoFacts DEF Typed
  <2>2. ~InRedis(c)'
    BY <1>7, <2>1 DEF InRedis
  <2> QED
    BY <1>0, <1>7, <2>1, <2>2, ClientLeaves
<1>8. ASSUME Settle(c) PROVE Typed' /\ Ledger' /\ Undisturbed'
  BY <1>0, <1>7, <1>8, SettleTyped, SettleLedger DEF Settle
<1>9. ASSUME NotifyOne(c) PROVE Typed' /\ Ledger' /\ Undisturbed'
  BY <1>0, <1>7, <1>9, NotifyOneTyped, NotifyOneLedger, ClientStates DEF NotifyOne
<1>10. ASSUME Refund(c) PROVE Typed' /\ Ledger' /\ Undisturbed'
  BY <1>0, <1>7, <1>10, RefundTyped, RefundLedger, ClientStates DEF Refund
<1>11. ASSUME FlushStore(c) PROVE Typed' /\ Ledger' /\ Undisturbed'
  BY <1>0, <1>7, <1>11, FlushStoreTyped, FlushStoreLedger, ClientStates DEF FlushStore
<1> QED
  BY <1>1, <1>2, <1>3, <1>4, <1>5, <1>6, <1>8, <1>9, <1>10, <1>11 DEF Client

LEMMA NextInv ==
  ASSUME IInv, [Next]_vars
  PROVE  IInv'
<1>0. Typed /\ Ledger /\ Undisturbed /\ CleanPass
  BY InvParts DEF IInv
<1>1. ASSUME NEW c \in Clients, Client(c) PROVE IInv'
  BY <1>1, ClientInv
<1>2. ASSUME LoopMoves PROVE IInv'
  <2>1. Typed' /\ Undisturbed' /\ UNCHANGED <<store, usage, clients, clean, lost>>
    BY <1>0, <1>2, LoopMovesTyped, LoopMovesClean
  <2>2. Ledger'
    BY <1>0, <2>1, LoopLedger
  <2> QED
    BY <2>1, <2>2, InvParts, PTL
<1>3. ASSUME PassScan PROVE IInv'
  <2>1. Typed' /\ Undisturbed'
    BY <1>0, <1>3, PassScanTyped, PassScanClean
  <2>2. Ledger'
    BY <1>0, <1>3, LoopLedger DEF PassScan
  <2> QED
    BY <2>1, <2>2, InvParts, PTL
<1>4. ASSUME NEW i \in Items, PassEvict(i) PROVE IInv'
  <2>1. Typed' /\ Ledger' /\ Undisturbed'
    BY <1>0, <1>4, PassEvictTyped, PassEvictLedger, PassEvictClean
  <2> QED
    BY <2>1, InvParts, PTL
<1>5. ASSUME PassEnd PROVE IInv'
  <2>1. Typed' /\ Ledger' /\ Undisturbed'
    BY <1>0, <1>5, PassEndTyped, PassEndLedger, PassEndClean
  <2> QED
    BY <2>1, InvParts, PTL
<1>6. ASSUME UNCHANGED vars PROVE IInv'
  BY <1>6 DEF vars, IInv, TypeOK, ManifestExact, RedisCovered, CleanFlush, CleanPass,
              Owed, Owes, Held, Charge, InRedis
<1> QED
  BY <1>1, <1>2, <1>3, <1>4, <1>5, <1>6 DEF Next, LoopStep, LoopMoves

\* The counters' ledger is kept by every step of the clients and of the
\* eviction loop (state.rs, eviction.rs: evict_loop and evict).
THEOREM PressureInvariant == Spec => []IInv
<1>1. Init => IInv
  BY InitInv
<1>2. IInv /\ [Next]_vars => IInv'
  BY NextInv
<1> QED
  BY <1>1, <1>2, PTL DEF Spec

\* The state has its type; the local sums of a pass never go below zero.
THEOREM PressureTypeCorrect == Spec => []TypeOK
<1>1. IInv => TypeOK
  BY DEF IInv
<1> QED
  BY <1>1, PressureInvariant, PTL

\* Whenever no operation is half done the counters show at least what the
\* maps hold, unless the last flush or pass that stored a sum was overlapped.
THEOREM PressureShows == Spec => []PressureIsVisible
<1>1. IInv => PressureIsVisible
  <2>1. SUFFICES ASSUME IInv, Quiet, ~lost
                 PROVE  usage["redis"] >= Held(RedisKeys) /\ usage["manifest"] = Held(Manifests)
    BY DEF PressureIsVisible
  <2>2. Typed /\ Ledger
    BY <2>1, InvParts
  <2>3. \A c \in Clients : Owes(c, "redis") = 0 /\ Owes(c, "manifest") = 0
    BY <2>1 DEF Quiet, Owes
  <2>4. Owed("redis") = 0 /\ Owed("manifest") = 0
    BY <2>2, <2>3, OwedNothing DEF Typed
  <2> QED
    BY <2>1, <2>2, <2>4, LedgerTypes DEF Ledger, ManifestExact, RedisCovered
<1> QED
  BY <1>1, PressureInvariant, PTL
=============================================================================
