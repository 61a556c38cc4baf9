SPECIFICATION Spec
CONSTANTS
  Callers = {a, b}
  Versions = {1, 2}
  Poison = {}
  Policies = {"revalidate"}
  Stamps = {1, 2, 3, 4, 5, 6, 7}
  MayPrune = FALSE
  MayCrash = FALSE
  MayLock = FALSE
SYMMETRY CallersAlike
INVARIANT TagsDescribeBytes
