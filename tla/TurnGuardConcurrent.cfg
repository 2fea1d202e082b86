\* Typed prompts and one Escape are enough for two runs at once.
CONSTANTS
  Prompt <- Prompts
  MaxRuns = 3
  MaxCancels = 1
  Mixes <- TextOnly
SPECIFICATION Spec
INVARIANTS
  NoConcurrentRuns
\* The session rests when the user types no more.
CHECK_DEADLOCK FALSE
