\* Three prompts of every mix of kinds, one of them typed; two Escapes.
CONSTANTS
  Prompt <- Prompts
  MaxRuns = 3
  MaxCancels = 2
  Mixes <- AllMixes
SPECIFICATION Spec
INVARIANTS
  TypeOK
  GuardFollowsTurn
  ReservationHeld
  NothingLost
  OnePlace
PROPERTIES
  EveryPromptEnds
\* The session rests when the user types no more.
CHECK_DEADLOCK FALSE
