SPECIFICATION Spec
CONSTANTS
  Expressions <- MCExpressions
  Capacity = 4
  Leftovers <- MCLeftovers
  Registers <- MCRegisters
  Memory <- MCMemory
  CFA = 300
  GroupBits = 2
  IntBits = 5
  WordBits = 12
  ByteBits = 4
\* An evaluation ends.
CHECK_DEADLOCK FALSE
INVARIANTS StackAsMeant ResultAsMeant NumbersRead
