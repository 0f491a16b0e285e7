SPECIFICATION FairSpec
CONSTANTS
  Memory = 4
  Keys = {0, 1}
  Transposes = {0, 2}
  Stimuli = {"start"}
INVARIANTS
  NothingLeftOn
  NotesHaveKeys
PROPERTIES
  NoRepeat
  EveryNotePlays
  Arpeggiates
