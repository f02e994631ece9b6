-------------------------------- MODULE Sums --------------------------------
(***************************************************************************)
(* The sum of a family of amounts, counted unit by unit: no recursion, so  *)
(* that it can be reasoned about for any family.                           *)
(***************************************************************************)
EXTENDS Naturals, FiniteSets

\* The first n units of x.
Slice(x, n) == {x} \X (1 .. n)

Units(f) == UNION {Slice(x, f[x]) : x \in DOMAIN f}
Total(f) == Cardinality(Units(f))
=============================================================================
