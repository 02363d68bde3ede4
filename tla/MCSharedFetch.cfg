SPECIFICATION Spec
CONSTANTS
  mine = mine
  board = board
  list = list
  m1 = m1
  m2 = m2
  b = b
  l1 = l1
  l2 = l2
  student = student
  staff = staff
  other = other
  worker = worker
  metricsKey = metricsKey
  codeKey = codeKey
  complaints = complaints
  codes = codes
  Table = {complaints, codes}
  Key = {metricsKey, codeKey}
  TableOf <- MCTableOf
  FailureStored = {codeKey}
  Checked = {codes}
  Caller = {student, staff, other, worker}
  NoEntry = NoEntry
  NoRecord = NoRecord
  MaxVersion = 2
  View = {mine, board, list}
  Shared = {mine, board}
  Mine = mine
  Board = board
  Loader = {m1, m2, b, l1, l2}
  ViewOf <- MCViewOf
  BoardLoader = b
  BoardCaller = worker
  Reads <- MCReads
  Refreshes <- MCRefreshes
  Complaints = complaints
  Metrics = metricsKey
  NoRows = NoRows
  Crews <- MCCrews
  MaxLoads = 4
INVARIANTS
  StaleOnlyIfLate
  HonestAnswer
PROPERTIES
  InOrder
  LoadsEnd
CHECK_DEADLOCK FALSE
