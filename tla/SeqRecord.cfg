SPECIFICATION Spec
CONSTANTS
  MaxEvents = 3
  Keys = {0, 3}
  Transposes = {0}
  Recordable = {0}
  MaxNoteOns = 2
  Stored <- NothingStored
  Stimuli = {"stale", "edit"}
INVARIANTS
  TypeOK
  StepsCounted
  TiesFit
CHECK_DEADLOCK FALSE
