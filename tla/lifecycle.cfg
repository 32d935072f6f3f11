SPECIFICATION Spec
CONSTANTS
  Task = {t1, t2}
  None = None
  MaxFaults = 3
CHECK_DEADLOCK FALSE
INVARIANTS
  TypeOK
  ExitIsTrue
  NoLeak
  LiveKeepsChroot
  StopKills
  OverIsOver
PROPERTIES
  ImplementsContract
  DeathReported
  EventuallyOver
