---------------------------- MODULE MCRegistryCas ----------------------------
EXTENDS RegistryCas, TLC

CONSTANTS o1, o2, a1, a2, r1, r2, c1, c2, e1, e2

MCRuns == {r1, r2}
MCCommands == {c1, c2}
MCAsked == {"register", "flip", "rebase", "merge", "undo", "release"}

Symmetry == Permutations(Overlays) \cup Permutations(Addresses) \cup Permutations(Runs)
            \cup Permutations(Commands)

==============================================================================
