CONSTANTS
  MessageBytes = 3
  Backlogs = {0, 1, 2, 3, 4, 5, 6, 7}
SPECIFICATION Spec
PROPERTIES ExecHandled DatagramsHandled ResetStops
CHECK_DEADLOCK FALSE
