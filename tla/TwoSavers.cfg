CONSTANTS
  Artifacts = {a1, a2}
  Nothing = Nothing
  Savers = {s1, s2}
  Readers = {}
  Inodes = {i1, i2, i3}
  Parts = 2
  Restoring = FALSE
  PowerFails = FALSE
SPECIFICATION Spec
INVARIANTS
  StoredIsWhole
