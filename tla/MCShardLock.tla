----------------------------- MODULE MCShardLock -----------------------------
(* Instance of ShardLock for TLC. *)
EXTENDS ShardLock
=============================================================================
