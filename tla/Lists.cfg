SPECIFICATION FairSpec
CONSTANTS
  w1 = w1
  w2 = w2
  own = own
  other = other
  Wallet = {w1, w2}
  Item = {own, other}
  Own = {own}
  Founded = {other}
  Absent = Absent
  Begin <- MCBegin
  Checks = {TRUE, FALSE}
  MaxUpdate = 3
  MaxSent = 1
INVARIANTS TypeOK ShownExists
PROPERTY UnlinkedGoes
CHECK_DEADLOCK FALSE
