SPECIFICATION Spec
CONSTANTS
  Given <- MCGiven
  LinkerLabels <- MCLinkerLabels
  SaveRestore <- MCSaveRestore
  Dotted <- MCDotted
  Rels = {"a", "b", "c"}
  Dol = "dol"
  Order <- MCOrder
  Id <- MCId
  Sections <- MCSections
  SectionAt <- MCSectionAt
  Worlds <- MCExtern
INVARIANT MeaningKept
