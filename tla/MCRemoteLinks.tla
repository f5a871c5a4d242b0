--------------------------- MODULE MCRemoteLinks -----------------------------
EXTENDS RemoteLinks, TLC

CONSTANTS eks, app, x, y

\* Each stack reads the other, and app its own base as well.
BothWays == (eks :> {app}) @@ (app :> {eks, app})

Symmetry == Permutations(Outputs)

==============================================================================
