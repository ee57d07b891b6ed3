CONSTANTS
  MaxLines = 3
  Programs <- InTurn
  PipeMax = 4
  BufMax = 4
  TailMax = 1
  MaxDay = 1
  KeepDays = 0
  MaxSize = 3
  MaxStored = 12
  MaxViews = 1
  MaxRotations = 1
SPECIFICATION LogSpec
INVARIANTS LogInv ReadInOrder NoGap
 
CHECK_DEADLOCK FALSE
