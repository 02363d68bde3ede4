\* The head of a department has the Coordinator's tabs, with codes for the pool, and
\* handlers that others have too; the Library's portal is that of a head of GEN.
SPECIFICATION PortalsSpec
CONSTANTS
  Kinds = {"Student", "Coordinator", "GeneralHOD", "HostelIncharge", "Principal"}
  FirstTabs = {0}
  Threads = {t1}
  Loop = loop
  NoForm = NoForm
  MaxPresses = 1
  MaxVisits = 2
  MaxHitches = 1
  Readers = {r1, r2}
  NoEntry = NoEntry
  MaxRolls = 3
  MaxTurns = 2
  Names = {a, b}
  NoName = NoName
  MaxPicks = 2
  Shares <- MCShares
INVARIANTS
  PortalsTypeOK
  CachedTabsCurrent
  ScreenSettles
  ButtonsComeBack
  ImportsSound
  PoolShowsOwnAdds
SYMMETRY Symmetry
