\* One writer at a time (every call returns before the next begins), crashes.
CONSTANTS
  Writers = {w1}
  Readers = {r1}
  Values = {old, new}
  Inodes = {i1, i2, i3}
  Size = 2
  NoData = NoData
  NoInode = NoInode
VIEW UsedView
SPECIFICATION Spec
INVARIANTS
  TypeOK
  ReadsAreWhole
  CrashLeavesWhole
  SuccessIsInPlace
  FailureLeavesNoTemp
PROPERTY ImplementsRegister
