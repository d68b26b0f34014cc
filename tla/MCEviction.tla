----------------------------- MODULE MCEviction -----------------------------
(* Instances of Eviction for TLC: two manifests that share a blob. *)
EXTENDS Eviction, TLC

CONSTANTS m1, m2, dLarge, dSmall

TwoRefs    == m1 :> {dLarge, dSmall} @@ m2 :> {dLarge}
TwoSizes   == dLarge :> 4 @@ dSmall :> 1
SharedRef  == m1 :> {dLarge} @@ m2 :> {dLarge}
OneRef     == m1 :> {dLarge}
OneSize    == dLarge :> 4
=============================================================================
