SPECIFICATION Spec
CONSTANTS
  Names <- SomeNames
  NoName = ""
  Files <- RegularFiles
  Allowed <- AllowedFiles
  Kernel <- Vmlinux
  Volumes <- HostVolumes
  Namings <- SomeNamings
  NotDevice = "directory"
  Nothing = Nothing
  DefaultId <- DriveN
  LastLetter = 2
  MaxDrives = 2
  MaxVolumes = 2
  MaxStarts = 3
CHECK_DEADLOCK FALSE
INVARIANTS
  TypeOK
  MountsMatchDevices
  RootIsVda
  DrivesKept
  DisksAsLeft
