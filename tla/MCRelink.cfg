SPECIFICATION RelinkSpec
CONSTANTS
  LinkerLabels = {"_f_data"}
  LinkerObjects = {"_rom_copy_info"}
  TableEnd = "gTRKInterruptVectorTableEnd"
  Originals <- MCOriginals
INVARIANTS ReferencesResolve EverythingOnce WrittenSame
CHECK_DEADLOCK FALSE
