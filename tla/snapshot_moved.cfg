SPECIFICATION Spec
CONSTANTS
  Absent = Absent
  Torn = Torn
  MaxMoment = 1
  MaxFaults = 0
  ChrootMoves = TRUE
PROPERTY EventuallyRuns
