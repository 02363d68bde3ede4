\* Two calls at a time; two wrong passwords lock an account, and two rows are a
\* chunk of an import.
SPECIFICATION Spec
CONSTANTS
  r1 = r1
  r2 = r2
  d1 = d1
  d2 = d2
  Rolls = {r1, r2}
  FirstYears = {r2}
  Departments = {d1, d2}
  Calls = {w1, w2}
  NoDept = NoDept
  NoRoll = NoRoll
  MaxFailed = 2
  ChunkSize = 2
  Seeds <- MCSeeds
  MaxRequests = 2
  MaxCalls = 4
INVARIANTS
  RegistrationMarked
  HostelAgrees
  LockEarned
PROPERTIES
  FeedbackCloses
SYMMETRY Symmetry
CHECK_DEADLOCK FALSE
