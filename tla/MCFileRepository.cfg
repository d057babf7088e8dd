CONSTANTS
  Artifacts = {a1, a2}
  Nothing = Nothing
  Savers = {s1}
  Readers = {q1}
  Inodes = {i1, i2, i3}
  Parts = 2
  Restoring = TRUE
  PowerFails = TRUE
SPECIFICATION Spec
PROPERTIES
  SavesAndLoadsAreAtomic
