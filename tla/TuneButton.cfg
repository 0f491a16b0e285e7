SPECIFICATION AllSpec
CONSTANTS
  Keys = {k1}
  Buttons = {tune}
  TuneContact = tune
  DebounceTimeout = 1
  MaxBounce = 2
  CvCount = 3
  Filters = {2}
  OscLo = 2
  OscHi = 3
  FilLo = 3
  FilHi = 4
  OctaveCount = 5
  Size = 64
  Steps = 5
  Bits <- MCBits
  Precision = 2
  OscInit <- MCOscInit
  FilInit <- MCFilInit
  MaxFailures = 2
  Pitch <- MCPitch
  Scaled = {2}
  Faulty = {0}
INVARIANTS
  TunerTypeOK
  TunedOrTheory
  HealthyTuned
PROPERTIES
  OneEventPerMove
  EachMoveReported
  TunesOncePerPress
