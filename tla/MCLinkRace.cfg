\* Two submissions of one bucket at once.
SPECIFICATION Spec
CONSTANTS
  c1 = c1
  c2 = c2
  c3 = c3
  c4 = c4
  c5 = c5
  c6 = c6
  o = o
  custom = custom
  water = water
  light = light
  Bucket <- MCBucket
  Recategory <- MCRecategory
  NoBucket = NoBucket
  NoComplaint = NoComplaint
  NoGroup = NoGroup
  SeedGroup = g0
  Complaints = {c1, c2, c3, c4}
  Groups = {g0, g1}
  Calls = {w1, w2}
  Ops = {"submit"}
  Asked = {1}
  Managed = {}
  Seeds <- Unseeded
  MaxCalls = 4
  MaxFailures = 4
INVARIANTS
  DuplicatesLinked
SYMMETRY SymmetryUnseeded
CHECK_DEADLOCK FALSE
