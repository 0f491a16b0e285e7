SPECIFICATION FairSpec
CONSTANTS
  Length = 3
  Bytes <- AllBytes
  MaxSysex = 3
  Messages <- ShortMessages
  MaxSent = 3
  Scratch <- Others
  Stimuli = {}
INVARIANTS
  TypeOK
PROPERTIES
  MessagesArrive
CHECK_DEADLOCK FALSE
