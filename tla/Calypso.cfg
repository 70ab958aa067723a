SPECIFICATION Spec
CONSTANTS
  b1 = b1
  b2 = b2
  r1 = r1
  Browser = {b1, b2}
  Reader = {r1}
  File = {f1, f2}
  Name = {n1}
  MaxUpdate = 2
  MaxSent = 2
  MaxGet <- MCGet
INVARIANTS TypeOK ReadEarned KeepsFiles
PROPERTIES Together
SYMMETRY Symmetry
CHECK_DEADLOCK FALSE
