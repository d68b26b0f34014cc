---------------------------- MODULE CachePromise ----------------------------
(***************************************************************************)
(* What the redis half of the cache promises to its clients: one map that  *)
(* may lose any entry at any time, without tiers, ids or files.            *)
(*                                                                         *)
(* It is weaker than a map in one more way.  A task may look a value up    *)
(* and write it back later (the promotion of a GET, the spill of the       *)
(* evictor), over whatever is stored by then.  The promise does not rule   *)
(* out that such a write loses a newer value, and since anybody may Set    *)
(* any value at any time it does not tell a write back from a client's     *)
(* SET either; what it binds is the answer of a GET, the value the task    *)
(* holds from its lookup on, and that nothing else is ever changed.        *)
(***************************************************************************)
CONSTANTS
  Keys,      \* redis keys
  Values,    \* redis values
  Tasks,     \* who looks values up: the connections and the evictor
  Nothing    \* no value

VARIABLES
  stored,    \* the value of every key
  held       \* what each task has looked up, as of its lookup

vars == <<stored, held>>

NotHeld == [key |-> Nothing, val |-> Nothing]

Init ==
  /\ stored = [k \in Keys |-> Nothing]
  /\ held = [t \in Tasks |-> NotHeld]

Set(k, v) == stored' = [stored EXCEPT ![k] = v] /\ UNCHANGED held

Lose(k) == stored' = [stored EXCEPT ![k] = Nothing] /\ UNCHANGED held

Look(t, k) ==
  /\ held[t] = NotHeld
  /\ held' = [held EXCEPT ![t] = [key |-> k, val |-> stored[k]]]
  /\ UNCHANGED stored

\* What some tasks were to read is gone.
LoseHeld(T) ==
  /\ held' = [t \in Tasks |-> IF t \in T THEN [held[t] EXCEPT !.val = Nothing] ELSE held[t]]
  /\ UNCHANGED stored

WriteBack(t) ==
  /\ held[t] # NotHeld
  /\ stored' = [stored EXCEPT ![held[t].key] = held[t].val]
  /\ held' \in {held, [held EXCEPT ![t] = NotHeld]}

Release(t) == held' = [held EXCEPT ![t] = NotHeld] /\ UNCHANGED stored

Next ==
  \/ \E k \in Keys : Lose(k) \/ \E v \in Values : Set(k, v)
  \/ \E t \in Tasks : \/ WriteBack(t) \/ Release(t)
                      \/ \E k \in Keys : Look(t, k)
  \/ \E T \in SUBSET Tasks : LoseHeld(T)

Spec == Init /\ [][Next]_vars
=============================================================================
