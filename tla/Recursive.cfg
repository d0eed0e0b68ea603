SPECIFICATION Spec
CONSTANTS
  MaxAddress = 26
  Starts <- MCStarts
  Entry = 1
  Instr <- MCInstr
  MaxDepth = 3
  BPSize = 1
  Sites = {16}
  SrcPos <- MCSrcPos
  Walk <- MCWalk
  NoFrame = {10, 18}
  Typed = {16, 17}
  Disturb = {"kill", "thread", "unwind", "setpc"}
  WordSize = 65536
\* The debugger stops when it is told to exit and when an assertion fails.
CHECK_DEADLOCK FALSE
INVARIANTS TypeOK IInv BreakpointsArmed
PROPERTIES BreakpointsHonoured

