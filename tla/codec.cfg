CONSTANTS
  Commands <- MCCommands
  NoCommand = NoCommand
  Capacity = 7
  MaxClients = 2
  MaxCommands = 4
SPECIFICATION Spec
INVARIANTS TypeOK NothingUnknown ClientHoldsNoMore
PROPERTY Lossless
CHECK_DEADLOCK FALSE
