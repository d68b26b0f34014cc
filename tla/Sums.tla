-------------------------------- MODULE Sums --------------------------------
(***************************************************************************)
(* The total of a function with integer values, as a number of units: item *)
(* x contributes f[x] of them, or takes -f[x] away.  This is what a loop   *)
(* over a map adds up, without an order of the additions.                  *)
(***************************************************************************)
EXTENDS Integers, FiniteSets

UnitsOf(x, n) == {x} \X (1 .. n)
Units(f) == UNION {UnitsOf(x, f[x]) : x \in DOMAIN f}
Negated(f) == [x \in DOMAIN f |-> -f[x]]

Sum(f) == Cardinality(Units(f)) - Cardinality(Units(Negated(f)))
=============================================================================
