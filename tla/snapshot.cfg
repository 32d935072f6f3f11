SPECIFICATION Spec
CONSTANTS
  Absent = Absent
  Torn = Torn
  MaxMoment = 3
  MaxFaults = 4
  ChrootMoves = TRUE
INVARIANTS
  TypeOK
  SavedSnapshotCurrent
  WholeSnapshot
PROPERTIES
  SavedStateResumed
  RunsOnOneFS
  ImplementsContract
