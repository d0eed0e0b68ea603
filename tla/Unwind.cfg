SPECIFICATION FairSpec
CONSTANTS
  WordSize = 256
  Code <- MCCode
  Start = 1
  Functions <- MCFunctions
  Initial <- MCInitial
  FDEs <- MCFDEs
  Bottom = 101
  Top = 112
  Junk = {0, 16}
\* The program exits and a failed assertion ends the debugger.
CHECK_DEADLOCK FALSE
INVARIANTS InnermostFound CallStackByFramePointer
PROPERTIES CallStackEnds
