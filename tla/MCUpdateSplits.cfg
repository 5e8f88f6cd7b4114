SPECIFICATION USpec
CONSTANTS
  Objects <- MCObjects
  Top = 20
  SymbolNames = {"a", "b", "c", "d", "u", "v", "x", "y", "z", "f", "end", "A", "B", "lbl", "gap", "pad"}
  SectionNames = {"none", "crt", "rdata"}
INVARIANTS SectionsTiled SplitsSound GapsWellCut FillersFitSplits
PROPERTIES SplitsUpdated
