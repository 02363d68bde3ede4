SPECIFICATION Spec
CONSTANTS
  c1 = c1
  s1 = s1
  s2 = s2
  principal = principal
  coordinator = coordinator
  outsider = outsider
  Complaints = {c1}
  Students = {s1, s2}
  Staff = {principal, coordinator, outsider}
  Calls = {w1, w2}
  RoleOf <- MCRoleOf
  InScope <- MCInScope
  Nobody = Nobody
  MaxCalls = 3
PROPERTIES
  EditLocksImmediately
SYMMETRY Symmetry
CHECK_DEADLOCK FALSE
