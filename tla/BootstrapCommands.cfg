SPECIFICATION Spec
CONSTANTS
  Cli = {c1, c2}
  Key = {k1, k2}
  Value = {v}
  Default = default
  Daemon = {d1, d2, d3}
  NoDaemon = nodaemon
  MaxCommands = 3
  MaxKills = 2
INVARIANTS BootInv AloneConnects CallsKept SetKept
SYMMETRY Symmetry
\* The commands given are bounded: the system stops after the last of them.
CHECK_DEADLOCK FALSE
