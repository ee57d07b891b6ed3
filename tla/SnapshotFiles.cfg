CONSTANTS
  Call = {c1}
  Name = {n1}
  Kinds = {"start"}
  MaxDeaths = 1
  Cloned = FALSE
  Job = {j1, j2}
  Snap = {s1, s2}
  Volume = {v1}
  Ops = {"save", "load", "delete", "export", "import", "gc"}
  Path = {p1}
  Version = {x1, x2}
  Mounted = TRUE
  Foreign = {"pair"}
  MaxOps = 3
  MaxOverlaps = 1
  Missing = Missing
  Torn = Torn
  None = None
SPECIFICATION SnapshotsSpec
SYMMETRY Symmetry
INVARIANTS SnapshotsInv ListedComplete LoadRestores SecretsCopied
PROPERTIES OthersStay
CHECK_DEADLOCK FALSE
