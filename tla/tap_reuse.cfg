SPECIFICATION Spec
CONSTANTS
  a1 = a1
  a2 = a2
  g4 = g4
  g6 = g6
  m1 = m1
  m2 = m2
  Addresses = {a1, a2}
  Gateways = {g4, g6}
  NoGateway = NoGateway
  Veths <- SomeVeths
  Mounts = {m1, m2}
  Nothing = Nothing
  NotList = NotList
  NoName = NoName
  NicNames <- SomeNicNames
  DefaultNic <- EthN
  Jobs <- SomeJobs
  MaxStarts = 3
  MaxFaults = 2
CHECK_DEADLOCK FALSE
PROPERTY FiltersReused
