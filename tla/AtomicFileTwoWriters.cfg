\* Two commands saving the same file at once.
CONSTANTS
  Writers = {w1, w2}
  Readers = {r1}
  Values = {old, new}
  Inodes = {i1, i2, i3}
  Size = 2
  NoData = NoData
  NoInode = NoInode
SYMMETRY Symmetric
SPECIFICATION Spec
INVARIANT ReadsAreWhole
