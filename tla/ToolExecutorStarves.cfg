\* An unknown tool behind a running exclusive one.
CONSTANTS
  MaxTools = 2
  MaxProgress = 0
  Kinds <- OvertakeKinds
SPECIFICATION Spec
PROPERTIES
  DrainEndsAlways
