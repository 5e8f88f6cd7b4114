SPECIFICATION Spec
CONSTANTS
  Programs <- MCPrograms
  Runs = 2
  Entries = 3
CHECK_DEADLOCK FALSE
INVARIANT UserSplitsKept
