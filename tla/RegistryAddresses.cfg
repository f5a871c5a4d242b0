SPECIFICATION Spec
CONSTANTS
  o1 = o1  o2 = o2  a1 = a1  a2 = a2  r1 = r1  r2 = r2  i1 = i1  x1 = x1  e1 = e1
  Overlays <- MCOverlays
  Addresses <- MCAddresses
  Kinds = {"create", "update"}
  Identities = {}
  Ids = {}
  Runs <- MCRuns
  Etags = {e1}
  Nil = Nil
SYMMETRY Symmetry
INVARIANTS TypeOK AddressesDisjoint RunsAccountedFor CurrentRunHoldsItsClaims
PROPERTIES ClaimsLiveUntilReleased SupersededRunIsSilent
