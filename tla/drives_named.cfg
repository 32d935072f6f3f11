SPECIFICATION Spec
CONSTANTS
  Names <- DriverNames
  NoName = ""
  Files <- TwoFiles
  Allowed <- TwoFiles
  Kernel <- Vmlinux
  Volumes <- HostVolumes
  Namings <- Exchanged
  NotDevice = "directory"
  Nothing = Nothing
  DefaultId <- DriveN
  LastLetter = 2
  MaxDrives = 2
  MaxVolumes = 2
  MaxStarts = 2
CHECK_DEADLOCK FALSE
INVARIANT MountsMatchDevices
