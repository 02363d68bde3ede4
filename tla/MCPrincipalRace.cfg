\* Two registrations of a Principal at a time.
SPECIFICATION Spec
CONSTANTS
  u1 = u1
  u2 = u2
  u3 = u3
  n1 = n1
  n2 = n2
  d = d
  lib = lib
  Accounts = {u1, u2, u3}
  Names = {n1, n2}
  Departments = {d, lib}
  Special = {lib}
  Calls = {w1, w2}
  NoDept = NoDept
  NoAccount = NoAccount
  NoName = NoName
  MaxFailed = 2
  Seeds <- MCSeeds
  MaxCalls = 2
INVARIANTS
  SinglePrincipal
SYMMETRY Symmetry
CHECK_DEADLOCK FALSE
