--------------------------- MODULE MCTwoTierStore ---------------------------
(* Instances of TwoTierStore for TLC. *)
EXTENDS StoreRefinement
=============================================================================
