----------------------------- MODULE MCStateDoc ------------------------------
EXTENDS StateDoc

CONSTANTS a1, a2, a3, r, s, t, v1, v2

\* Two instances of one resource, and another resource of the same type.
Resources == (a1 :> r) @@ (a2 :> r) @@ (a3 :> s)

OneType == (r :> t) @@ (s :> t)

ByName == <<a1, a2, a3>>

Symmetry == Permutations({v1, v2})

==============================================================================
