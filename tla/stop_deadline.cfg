SPECIFICATION Spec
CONSTANTS
  Timeout = 3
  MaxLate = 2
CHECK_DEADLOCK FALSE
INVARIANTS
  TypeOK
  StopInTime
  SuccessIsDeath
  AskedGuestHasBudget
PROPERTIES
  StopReturns
  NeverBack
