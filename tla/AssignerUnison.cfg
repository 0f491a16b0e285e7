SPECIFICATION Spec
CONSTANTS
  N = 2
  Notes <- OneNote
  Presets <- UnisonPresets
  Masks <- SomeMasks
  Stimuli = {"hold", "mask", "unison", "soundoff", "main"}
  MaxTick = 1
INVARIANTS
  NoDrone
  
CHECK_DEADLOCK FALSE
