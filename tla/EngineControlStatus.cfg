\* What status prints, one command at a time.
CONSTANTS
  Procs = {p1}
  Screens = {s1}
  Primary = s1
  Ids = {w1, w2}
  Library = {w1, w2}
  None = None
  Corrupt = Corrupt
  MaxEdits = 0
SPECIFICATION Spec
INVARIANT StatusTellsTheTruth
