SPECIFICATION FairSpec
CONSTANTS
  o1 = o1  o2 = o2  a1 = a1  a2 = a2  r1 = r1  r2 = r2  c1 = c1  c2 = c2  e1 = e1 e2 = e2
  Overlays = {o1}
  Addresses = {a1}
  Kinds = {"create"}
  Identities = {}
  Ids = {}
  Runs = {r1}
  Commands = {c1}
  Asked <- MCAsked
  Etags = {e1}
  Nil = Nil
  MaxAttempts = 2
  MaxLostAcks = 1
INVARIANT TypeOK
PROPERTIES UpdatesAreAtomic IdempotentUpdatesConverge UpdatesTerminate
