------------------------- MODULE MCOverlayLifecycle --------------------------
EXTENDS OverlayLifecycle, TLC

CONSTANTS o1, a1, a2, p1, p2, p3, p4, p5

MCOverlays == {o1}
MCAddresses == {a1, a2}
FourProcs == {p1, p2, p3, p4}
FiveProcs == {p1, p2, p3, p4, p5}
Bases == 1..MaxBase

Everything == {"create", "apply", "rebase", "merge", "undo",
               "abandon", "abandon keep", "finalize"}

\* The executions that may not run create are interchangeable.
Symmetry == Permutations(Procs \ Creators) \cup Permutations(Addresses)

CreatorSymmetry == Permutations(Procs) \cup Permutations(Addresses)

==============================================================================
