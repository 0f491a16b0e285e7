SPECIFICATION FairPotsSpec
CONSTANTS
  LastPot = 1
  Wheels = {1}
  Bender = 1
  Positions = {0, 1, 3}
  Threshold = 1
  PickUp = 2
  Response = 1
  Race = FALSE
INVARIANTS ReadingsFollowed
PROPERTIES ParamsFollow
