SPECIFICATION Spec
CONSTANTS
  Programs <- MCPrograms
  Runs = 2
  Entries = 5
CHECK_DEADLOCK FALSE
INVARIANTS UserFileKept EntriesWithFunctions MapFollowed
