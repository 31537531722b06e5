SPECIFICATION Spec
CHECK_DEADLOCK FALSE
CONSTANTS
  Top = 20
  Images <- MCImages
  Modules <- MCModules
  Ram <- MCRam
  ZImageRoom = 2
  SetupPages = 1
  EfiMap <- MCEfiMap
  MaxAlloc = 6
  E820Max = 6
  RealPages = 1
  InitrdMax = 10
  Flash <- MCFlash
  Drives = {hd0, hd1}
  MapSize = 2
  ArgBuf = 3
  MaxCmds = 4
  MemLimits = {0, 5}
  Machines <- MCMachines
SYMMETRY DriveSymmetry
INVARIANTS SignedOnly MemoryAccounted ProcessorsNumbered
PROPERTY StartsWhatWasLoaded
