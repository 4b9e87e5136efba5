SPECIFICATION Spec
CONSTANTS
  dev1 = dev1
  dev2 = dev2
  file1 = file1
  file2 = file2
  old = old
  new = new
  none = none
  None = none
  Devices = {dev1, dev2}
  Files = {file1, file2}
  Contents = {old, new}
  ZipLimit = 2
  ChunkLimit = 1
  EditsInSync = TRUE
  Faults = 1
  MaxEdits = 3
INVARIANTS UsnsDistinct CountHolds CleanIsServers
PROPERTIES OnlyUsersDelete
SYMMETRY Interchangeable
