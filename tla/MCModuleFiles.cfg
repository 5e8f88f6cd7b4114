CONSTANTS
  Projects <- MCProjects
  BuiltAligns = {4, 32}
  ExportLists <- MCExportLists
  Hash <- MCHash
  MaxOffset = 15
  Reach24 = 65536
  Reach14 = 64
  High = 4096
  MaxText = 2
  MaxData = 6
SPECIFICATION Spec
INVARIANT SectionsFound
INVARIANT ReferencesMet
INVARIANT Rebuilt
CHECK_DEADLOCK FALSE
