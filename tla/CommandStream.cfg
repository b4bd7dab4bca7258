CONSTANTS
  WordBytes = 4
  Names <- MCNames
  Secrets <- MCSecrets
  Commands <- MCCommands
  Cuts = {1, 4, 16}
  MaxSends = 3
SPECIFICATION Spec
INVARIANTS TypeOK LoginIntact
PROPERTY ImplementsOrderChannel
CHECK_DEADLOCK FALSE
