\* One command at a time, two screens, hand edits, kills and failures.
CONSTANTS
  Procs = {p1}
  Screens = {s1, s2}
  Primary = s1
  Ids = {w1, w2}
  Library = {w1, w2}
  None = None
  Corrupt = Corrupt
  MaxEdits = 1
SPECIFICATION FairSpec
INVARIANTS
  TypeOK
  InstalledIsStartable
  SwitchApplied
  NoUnexplainedDrift
  StopMeansStopped
PROPERTY SwitchTakesEffect
