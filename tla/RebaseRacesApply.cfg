SPECIFICATION Spec
CONSTANTS
  o1 = o1  a1 = a1  a2 = a2  p1 = p1  p2 = p2  p3 = p3  p4 = p4  p5 = p5
  Me = o1
  Overlays <- MCOverlays
  Addresses = {a1}
  Kinds = {"create"}
  Identities = {}
  Procs <- FourProcs
  Runs <- FourProcs
  Ids <- FourProcs
  Etags <- Bases
  Nil = Nil
  Commands = {"create", "rebase", "apply"}
  Creators = {p1}
  Concurrent = 2
  MaxBase = 2
  AllowStale = FALSE
CHECK_DEADLOCK FALSE
SYMMETRY Symmetry
PROPERTY RebaseKeepsInstances
