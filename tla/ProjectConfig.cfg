SPECIFICATION ProjectSpec
CONSTANTS
  PortFound = {3000, 3001}
  NameOf <- Names
  Seeds <- Projects
  MaxFiles = 1
  OutsidePorts = {3000, 3001}
  PortsTried = 2
  MaxPort = 65535
  MaxOutside = 2
  MaxStarts = 2
INVARIANTS ProjectInv MovedForAnother SimpleValidates
PROPERTY StartGetsPorts
\* The files, the Starts and the other programs are bounded: the system stops.
CHECK_DEADLOCK FALSE
