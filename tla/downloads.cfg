SPECIFICATION Spec
CONSTANTS
  Callers = {a, b}
  Versions = {1, 2}
  Poison = {1}
  Policies = {"immutable", "revalidate"}
  Stamps = {1, 2, 3, 4, 5, 6, 7}
  MayPrune = TRUE
  MayCrash = TRUE
  MayLock = TRUE
SYMMETRY CallersAlike
INVARIANTS
  CacheTypeOK
  RecordTrue
PROPERTIES
  DeliveredAsTheyAre
  IdentifiedBytesStay
VIEW UpToStamps
