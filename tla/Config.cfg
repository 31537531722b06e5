SPECIFICATION Spec
CONSTANTS
  MAX_FALLBACK_ENTRIES = 4
  Cards <- AllCards
  NewCards <- MediaCards
  Preset <- MCPreset
  Spi <- MCSpi
  FromSpi = TRUE
  Skus = {TRUE, FALSE}
  Others = {"other"}
  SavedEntry = 1
  MaxLoads = 3
  MaxLines = 4
  MaxArea = 24
INVARIANTS MenuValid SignedOnly
PROPERTY MenuActivated
CHECK_DEADLOCK FALSE
