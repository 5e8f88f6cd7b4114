SPECIFICATION ObjectsSpec
CONSTANTS
  Given <- MCGiven
  LinkerLabels <- MCLinkerLabels
  SaveRestore <- MCSaveRestore
  Dotted <- MCDotted
  TableSize = 8
  Lists <- MCLists
  Runs = 3
  Programs <- Straddling
PROPERTY GuessesFit
CHECK_DEADLOCK FALSE
