\* Two requests, and nobody but the user to answer them.
CONSTANTS
  Request = {r1, r2}
  Setups <- Alone
SPECIFICATION Spec
PROPERTIES
  NoDialogAfterAbort
CHECK_DEADLOCK FALSE
