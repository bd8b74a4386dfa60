\* Two channels, broken configurations among the edits, any number of restarts.
SPECIFICATION Spec
CONSTANTS
  Channel = {c1, c2}
  Sound = {s1, s2}
  Broken = {b1}
  MaxKeys = 3
  None = None
SYMMETRY Symmetry
INVARIANTS
  RegistryTypeOK
  RuntimeReflectsRow
  RowsForAll
