SPECIFICATION Spec
CONSTANTS
  Procs = {p1, p2}
  Shas = {a, b}
  FreshFor = 0
  MaxClock = 2
  None = None
SYMMETRY Symmetry
INVARIANTS
  TypeOK
  CurrentUsable
  PinnedKept
  OneWorkDir
  HandedOutIsCurrent
PROPERTIES
  UnverifiedKept
  ManifestsImmutable
