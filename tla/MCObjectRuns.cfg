SPECIFICATION ObjectsSpec
CONSTANTS
  Given <- MCGiven
  LinkerLabels <- MCLinkerLabels
  SaveRestore <- MCSaveRestore
  Dotted <- MCDotted
  TableSize = 8
  Lists <- MCLists
  Runs = 3
  Programs <- MCPrograms
INVARIANTS IndicesAgree FileSettles
PROPERTIES ConfigHonoured GuessesBounded NamesKept
CHECK_DEADLOCK FALSE
