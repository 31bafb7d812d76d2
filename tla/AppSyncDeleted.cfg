CONSTANTS
  None = None
  Devices = {a}
  Projects = {p}
  Files = {f}
  Runs = {r1}
  MaxTime = 2
SPECIFICATION Spec
INVARIANT DeletedStaysAway
SYMMETRY Symmetry
