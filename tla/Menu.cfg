SPECIFICATION Spec
CONSTANTS
  Rows = 2
  Typed = {"other"}
  Kinds <- MCKinds
  Timeouts <- MCTimeouts
  Fallbacks <- MCFallbacks
  Setups <- MCSetups
  EmptyLists = FALSE
  MaxLines = 3
INVARIANTS SelectionRuns EditorGuarded
PROPERTY UnattendedBoot
CHECK_DEADLOCK FALSE
