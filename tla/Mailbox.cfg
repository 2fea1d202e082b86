\* Three messages, limits that three unread ones or two large ones exceed,
\* one death.
CONSTANTS
  MaxSent = 3
  MaxPolls = 2
  MaxMessages = 2
  MaxRead = 1
  MaxProtocol = 1
  MaxBytes = 3
  MaxCrashes = 1
  Loads <- MCLoads
SPECIFICATION Spec
INVARIANTS
  TypeOK
  NothingLost
PROPERTIES
  EvictsForRoom
  EveryMessageArrives
\* Agents may stop sending.
CHECK_DEADLOCK FALSE
