----------------------------- MODULE MCUploads ------------------------------
(* Instances of Uploads for TLC. *)
EXTENDS Uploads, TLC

Symmetry == Permutations(Requests) \cup Permutations(Bytes)
=============================================================================
