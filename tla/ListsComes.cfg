SPECIFICATION FairSpec
CONSTANTS
  w1 = w1
  w2 = w2
  own = own
  other = other
  Wallet = {w1}
  Item = {own, other}
  Own = {own}
  Founded = {other}
  Absent = Absent
  Begin <- MCBegin
  Checks = {TRUE}
  MaxUpdate = 3
  MaxSent = 1
PROPERTY LinkedComes
CHECK_DEADLOCK FALSE
