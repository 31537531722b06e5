SPECIFICATION Spec
CONSTANTS
  Starts <- MCStarts
  NameRoom = 20
INVARIANTS PartitionsNamed HandlesRoundTrip TransfersLand BootsWhatWasInstalled StartsFromItsFiles NetFileWhole
PROPERTY EditsAreLocal
