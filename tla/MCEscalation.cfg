\* One call at a time: the fourth complaint joins a group that has an Urgent one.
SPECIFICATION Spec
CONSTANTS
  c1 = c1
  c2 = c2
  c3 = c3
  c4 = c4
  c5 = c5
  c6 = c6
  o = o
  custom = custom
  water = water
  light = light
  Bucket <- MCBucket
  Recategory <- MCRecategory
  NoBucket = NoBucket
  NoComplaint = NoComplaint
  NoGroup = NoGroup
  SeedGroup = g0
  Complaints = {c1, c2, c3, c4}
  Groups = {g0, g1}
  Calls = {w1}
  Ops = {"submit"}
  Asked = {1, 4}
  Managed = {}
  Seeds <- Pair
  MaxCalls = 2
  MaxFailures = 2
PROPERTIES
  EscalationNeverLowers
SYMMETRY Symmetry
CHECK_DEADLOCK FALSE
