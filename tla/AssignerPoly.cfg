SPECIFICATION FairSpec
CONSTANTS
  N = 2
  Notes <- FourNotes
  Presets <- PolyPresets
  Masks <- AllVoices
  Stimuli = {"hold"}
  MaxTick = 2
INVARIANTS
  NoStuckNote
  NoStarvedKey
PROPERTIES
  ReleasedVoiceFreed
