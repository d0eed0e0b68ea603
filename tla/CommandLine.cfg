SPECIFICATION Spec
CONSTANTS
  SIZE = 16
  MAX_WORDS = 5
  NUL = NUL
  BLANK = BLANK
  QUOTE = QUOTE
  Junk = Junk
  Char <- MCChar
  Inputs <- MCInputs
  Exit <- MCExit
  Register <- MCRegister
  Breakpoint <- MCBreakpoint
  OneArgument <- MCOneArgument
  Set <- MCSet
  Line <- MCLine
  Func <- MCFunc
\* The debugger stops at the end of what is typed, and on `exit'.
CHECK_DEADLOCK FALSE
INVARIANTS WordsTrue ArgumentsEnd
PROPERTIES EmptyRepeats
