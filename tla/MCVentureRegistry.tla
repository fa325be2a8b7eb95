------------------------- MODULE MCVentureRegistry -------------------------
(* VentureRegistry on one venture raced by a few requests.                   *)
EXTENDS VentureRegistry, TLC

Symmetry == Permutations(Requests) \union Permutations(Manifests)
              \union Permutations(Owners)
============================================================================
