SPECIFICATION Spec
CONSTANTS
  c1 = c1
  c2 = c2
  h1 = h1
  d1 = d1
  d2 = d2
  d3 = d3
  r1 = r1
  n1 = n1
  n2 = n2
  a1 = a1
  a2 = a2
  NoName = NoName
  Client = {c1, c2}
  Helper = {}
  Device = {d1, d2}
  Recovery = {}
  Own <- MCOwn
  Founders = {d1}
  Name = {n1}
  FirstName = n2
  Alias = {a1}
  MaxEvolve = 3
  MaxUpdate = 3
  MaxSent = 2
INVARIANTS RightsInv NeverLockedOut
