SPECIFICATION Spec
CONSTANTS
  TempArenaCount = 6
  TempSize = 9
  Sizes = {1, 2, 3}
\* A failed assertion ends the debugger.
CHECK_DEADLOCK FALSE
INVARIANTS ArenasDisjoint HeldInUse Reclaimed
