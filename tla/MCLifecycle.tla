---------------------------- MODULE MCLifecycle -----------------------------
(* Instances of Lifecycle for TLC. *)
EXTENDS Lifecycle, TLC

\* The run follows a process that has loaded a stale snapshot no further: the
\* properties of files and ids are not claimed beyond.
OwnFilesOnly == ~foreign

\* Pushes share no variable with the store, only the phases of the process:
\* the run follows pushes over an empty store, and the store without a push.
StoreIsEmpty == nextId = 0 /\ files = [i \in Ids |-> NoFile]
NoPush ==
  /\ manifests = {} /\ tag = Nobody /\ puts = {} /\ dropping = Nobody
  /\ saver.manifests = {}
  /\ snapshot \notin {NoSnapshot, Corrupt} => snapshot.manifests = {} /\ snapshot.tag = Nobody

\* A life beside a stale snapshot is followed until its third id.
StaleLifeIsShort == stale => nextId <= 2

Followed == OwnFilesOnly /\ (StoreIsEmpty \/ NoPush) /\ StaleLifeIsShort
=============================================================================
