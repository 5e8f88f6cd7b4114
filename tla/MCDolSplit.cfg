SPECIFICATION Spec
CONSTANTS
  Dol = dol
  Rels = {r1, r2}
  Hashed = {dol, r1}
  Files <- MCFiles
  Present <- MCPresent
  Units = 1
  MaxSaves = 1
  MaxRuns = 2
INVARIANTS TypeOK OutputsComplete NothingStale EditsKept EditsBuilt
PROPERTIES RunEnds
CHECK_DEADLOCK FALSE
