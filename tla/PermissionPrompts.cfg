\* Three requests, every racer.
CONSTANTS
  Request = {r1, r2, r3}
  Setups <- AllSetups
SPECIFICATION Spec
INVARIANTS
  TypeOK
  DialogIsFloor
  RemotesFollow
PROPERTIES
  GrantReachesQueue
  EveryRequestEnds
\* The session rests when no call asks any more.
CHECK_DEADLOCK FALSE
