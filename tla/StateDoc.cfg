SPECIFICATION Spec
CONSTANTS
  a1 = a1  a2 = a2  a3 = a3  r = r  s = s  t = t  v1 = v1  v2 = v2
  Addresses = {a1, a2, a3}
  Nil = Nil
  ResourceOf <- Resources
  TypeOf <- OneType
  Sorted <- ByName
  Providers = {v1, v2}
  Branch = {a2, a3}
  Strays = {a1}
  OnlyClaims = FALSE
  MaxSchema = 1
  MaxBase = 2
  MaxOverlay = 3
SYMMETRY Symmetry
CHECK_DEADLOCK FALSE
INVARIANTS TypeOK NothingIsLost BaseObjectsSurvive
PROPERTY RebaseMerges
