SPECIFICATION Spec
CONSTANTS
  Length = 4
  Bytes <- AllBytes
  MainMessages <- Modulation
  TimerMessages <- NoteOn
  MaxMessages = 2
INVARIANTS
  MessagesWhole
CHECK_DEADLOCK FALSE
