SPECIFICATION Spec
CONSTANTS
  fd = fd
  hd = hd
  a = a
  b = b
  ez = ez
  NoDrive = NoDrive
  Junk = Junk
  Drives = {fd, hd}
  Removable = {fd}
  Data = {a, b, ez}
  EzData = {ez}
  Firmwares = {"bios", "efi"}
  MaxSector = 4
  MaxLength = 3
  BufferSlots = 2
  Geometry <- MCGeometry
  PhysSectors <- MCPhysSectors
  Partitions <- MCPartitions
  Media <- MCMedia
  Writes <- MCWrites
INVARIANTS ReadCoherent WriteDurable
CHECK_DEADLOCK TRUE
