------------------------------- MODULE MCPull -------------------------------
(* Instances of Pull for TLC. *)
EXTENDS Pull, TLC

CONSTANTS r1, r2

Pair(a, b) == r1 :> a @@ r2 :> b

\* Requests are interchangeable, and a blob and a manifest meet only in the
\* token cache, as two manifests or two blobs do.
Pairs == {Pair("tag", "tag"), Pair("tag", "digest"), Pair("blob", "blob")}
=============================================================================
