SPECIFICATION Spec
\* Every request is for one byte, and all that is taken at startup leaves room
\* for four more: only requests that are never given back can use it up.
CONSTANTS
  TempArenaCount = 6
  TempSize = 9
  Sizes = {1}
\* A failed assertion ends the debugger.
CHECK_DEADLOCK FALSE
INVARIANTS NeverExhausted
