--------------------------------- MODULE Ranks -------------------------------
(***************************************************************************)
(* The order of values, as sorted() and the median take it.                *)
(***************************************************************************)
EXTENDS FiniteSets, Integers

\* The m-th of the values of f in their order.
Ranked(f, m) ==
  CHOOSE v \in {f[k] : k \in DOMAIN f} :
    /\ Cardinality({k \in DOMAIN f : f[k] < v}) < m
    /\ m <= Cardinality({k \in DOMAIN f : f[k] <= v})
=============================================================================
