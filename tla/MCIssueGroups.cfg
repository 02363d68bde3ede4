\* Every operation, two calls at a time, around a group of two.
SPECIFICATION Spec
CONSTANTS
  c1 = c1
  c2 = c2
  c3 = c3
  c4 = c4
  c5 = c5
  c6 = c6
  o = o
  custom = custom
  water = water
  light = light
  Bucket <- MCBucket
  Recategory <- MCRecategory
  NoBucket = NoBucket
  NoComplaint = NoComplaint
  NoGroup = NoGroup
  SeedGroup = g0
  Complaints = {c1, c2, c3}
  Groups = {g0, g1}
  Calls = {w1, w2}
  Ops = {"submit", "link", "unlink", "priority", "delete", "edit"}
  Asked = {1, 4}
  Managed = {c1, c2, c3}
  Seeds <- Pair
  MaxCalls = 3
  MaxFailures = 3
INVARIANTS
  NothingHidden
  CountExact
  ManualNotBelowAutomatic
SYMMETRY Symmetry
CHECK_DEADLOCK FALSE
