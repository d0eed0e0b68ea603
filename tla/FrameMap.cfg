SPECIFICATION FairSpec
CONSTANTS
  Locations = {2, 4, 5, 7}
  MaxFDEs = 4
  Addresses = {1, 2, 3, 4, 5, 6, 7, 8}
  MaxU64 = 9
  U32 = 16
\* A read outside the map ends the debugger.
CHECK_DEADLOCK FALSE
INVARIANTS MapPaired SortedAfterFirst NeverEmpty SearchInside FoundNearest
PROPERTIES SearchEnds
