SPECIFICATION Spec
CONSTANTS
  Tens = {0}
  Units = {0, 1}
  Positions = {p1, p2}
  BasicPanel = p1
  Silent = p2
  Unison = {p2}
  Menus = {m1, m2}
  BasicMenu = m1
  Tabled = {m2}
  Patches <- OnePatch
  Blank = blank
  Stimuli = {}
INVARIANTS
  TypeOK
  DotHonest
  LiveIsPanel
  LiveKept
  EntryConsistent
PROPERTIES
  SettingsWhole
VIEW ManualView
