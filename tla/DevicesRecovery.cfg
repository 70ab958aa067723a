SPECIFICATION Spec
CONSTANTS
  c1 = c1
  c2 = c2
  h1 = h1
  d1 = d1
  d2 = d2
  d3 = d3
  r1 = r1
  n1 = n1
  n2 = n2
  a1 = a1
  a2 = a2
  NoName = NoName
  Client = {c1}
  Helper = {h1}
  Device = {d1, d2, d3}
  Recovery = {r1}
  Own <- MCOwn
  Founders = {d1, d2, r1}
  Name = {n1}
  FirstName = n1
  Alias = {a1}
  MaxEvolve = 2
  MaxUpdate = 2
  MaxSent = 1
PROPERTIES NoRightsRegained NamesMoveWithRights RingSpec
