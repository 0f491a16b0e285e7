SPECIFICATION AllSpec
CONSTANTS
  Keyboard = {0, 1}
  External = {1}
  Mods = {0, 1}
  Stimuli = {}
INVARIANTS
  AllTypeOK
  BitsHaveCauses
  ArpKeysDown
  NotFedBack
  HoldHasCause
  WheelNotDoubled
CONSTRAINT Hands
