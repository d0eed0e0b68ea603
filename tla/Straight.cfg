SPECIFICATION MCSpec
CONSTANTS
  MaxAddress = 26
  Starts <- MCStarts
  Entry = 1
  Instr <- MCInstr
  MaxDepth = 3
  BPSize = 2
  Sites <- MCSites
  SrcPos <- MCSrcPos
  Walk <- MCWalk
  NoFrame = {10, 15, 16, 23}
  Typed = {}
  Disturb = {}
  WordSize = 65536
\* The debugger stops when it is told to exit and when an assertion fails.
CHECK_DEADLOCK FALSE
INVARIANTS TextRestored ContinueStopsAtBreakpoint CommandMoves OverStaysInFrame OutLeavesFrame
PROPERTIES CommandReturns Transparent
