CONSTANTS
  None = None
  Devices = {a, b}
  Projects = {p}
  Files = {f}
  Runs = {r1, r2}
  MaxTime = 2
SPECIFICATION Spec
INVARIANTS TypeOK ManifestWhole MediaKept NewestSurvives
SYMMETRY Symmetry
