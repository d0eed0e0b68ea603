SPECIFICATION Spec
CONSTANTS
  WordSize = 4096
  Files <- MCFiles
  Projects <- MCProjects
  MaxSequences = 2
\* Every table is built, the programs are at their bound, or an assertion failed.
CHECK_DEADLOCK FALSE
INVARIANTS BreakByLine
