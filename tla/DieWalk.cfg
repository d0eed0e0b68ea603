SPECIFICATION FairSpec
CONSTANTS
  Infos <- MCInfos
  MAX_DIE_DATA = 8
\* A failed assertion ends the debugger, and a lost one is not followed.
CHECK_DEADLOCK FALSE
INVARIANTS WalksTrue  NameFound  LocalsTrue
PROPERTIES CommandsEnd
