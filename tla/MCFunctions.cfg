SPECIFICATION FSpec
CONSTANTS
  Programs <- MCPrograms
INVARIANTS FTypeOK NothingOverlaps ReferencesKept
PROPERTIES FunctionsEnd
