\* Submissions and edits, two at a time, from an empty table or a group of three.
SPECIFICATION Spec
CONSTANTS
  c1 = c1
  c2 = c2
  c3 = c3
  c4 = c4
  c5 = c5
  c6 = c6
  o = o
  custom = custom
  water = water
  light = light
  Bucket <- MCBucket
  Recategory <- MCRecategory
  NoBucket = NoBucket
  NoComplaint = NoComplaint
  NoGroup = NoGroup
  SeedGroup = g0
  Complaints = {c1, c2, c3, c4, c5, c6, o, custom}
  Groups = {g0, g1}
  Calls = {w1, w2}
  Ops = {"submit", "edit"}
  Asked = {1}
  Managed = {}
  Seeds <- Either
  MaxCalls = 3
  MaxFailures = 1
INVARIANTS
  GroupsTrue
  EscalationReaches
  DuplicatesSurface
SYMMETRY SymmetryEither
CHECK_DEADLOCK FALSE
