\* Three tool calls of every mix of four kinds, one progress message each.
CONSTANTS
  MaxTools = 3
  MaxProgress = 1
  Kinds <- AllKinds
SPECIFICATION Spec
INVARIANTS
  TypeOK
  Exclusive
  StartOrder
  OneAnswer
  InterruptSparesBlockTools
  NoProgressMissed
  ExclusiveToolsInOrder
  DrainedCompletely
PROPERTIES
  NothingLaunchedAfterFailure
  TurnEnds
