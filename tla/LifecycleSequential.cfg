SPECIFICATION Spec
CONSTANTS
  o1 = o1  a1 = a1  a2 = a2  p1 = p1  p2 = p2  p3 = p3  p4 = p4  p5 = p5
  Me = o1
  Overlays <- MCOverlays
  Addresses = {a1}
  Kinds = {"create"}
  Identities = {}
  Procs <- FiveProcs
  Runs <- FiveProcs
  Ids <- FiveProcs
  Etags <- Bases
  Nil = Nil
  Commands <- Everything
  Creators <- FiveProcs
  Concurrent = 1
  MaxBase = 3
  AllowStale = FALSE
CHECK_DEADLOCK FALSE
SYMMETRY CreatorSymmetry
INVARIANTS TypeOK NoOrphans LineageIsRecorded FreshMeansCurrent ObjectsAreRegistered
 
