SPECIFICATION Spec
CONSTANTS
  Absent = Absent
  Torn = Torn
  MaxMoment = 2
  MaxFaults = 0
  ChrootMoves = FALSE
PROPERTY RestoreMatchesDisk
