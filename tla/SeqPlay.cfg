SPECIFICATION Spec
CONSTANTS
  MaxEvents = 3
  Keys = {0, 4}
  Transposes = {0, 1}
  Recordable = {0}
  MaxNoteOns = 3
  Stored <- SongStored
  Stimuli = {"stop"}
INVARIANTS
  SequencesWellFormed
  NothingLeftOn
