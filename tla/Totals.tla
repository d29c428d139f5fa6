-------------------------------- MODULE Totals --------------------------------
(***************************************************************************)
(* The sum of a function with natural values, as a number of units: every  *)
(* key x stands for f[x] units.  The properties of a vault compare it with  *)
(* what the books and the token accounts hold.  The folds of the community *)
(* modules compute the same number; a count is what the provers can reason *)
(* about.                                                                  *)
(***************************************************************************)
EXTENDS Naturals, FiniteSets

UnitsOf(x, n) == {x} \X (1 .. n)

Units(f) == UNION {UnitsOf(x, f[x]) : x \in DOMAIN f}

Total(f) == Cardinality(Units(f))
=============================================================================
