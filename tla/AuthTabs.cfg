CONSTANTS
  None = None
  Tabs = {a, b}
  Sids = {s1, s2}
  Locks = TRUE
  RaceReplies = TRUE
  MaxRaces = 1
  Budget = 2
  MaxEvents = 1
  MaxPending = 1
SPECIFICATION Spec
INVARIANTS TypeOK GoneStaysGone NoFalseReplay RequestsBounded
PROPERTY KeepsPromise
SYMMETRY Symmetry
