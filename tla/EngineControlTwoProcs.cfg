\* Two commands at once.
CONSTANTS
  Procs = {p1, p2}
  Screens = {s1}
  Primary = s1
  Ids = {w1, w2}
  Library = {w1, w2}
  None = None
  Corrupt = Corrupt
  MaxEdits = 0
SPECIFICATION Spec
INVARIANT SwitchesConverge
