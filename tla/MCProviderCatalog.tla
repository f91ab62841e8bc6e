------------------------- MODULE MCProviderCatalog -------------------------
(* Model values for ProviderCatalog, and their symmetry. *)
EXTENDS ProviderCatalog, TLC

CONSTANTS a1, a2, p1, p2

\* Handlers are alike, and so are the two seeded providers.
Alike == Permutations({a1, a2}) \cup Permutations({p1, p2})
=============================================================================
