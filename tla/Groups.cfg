SPECIFICATION Spec
CONSTANTS
  u1 = u1
  u2 = u2
  g1 = g1
  n1 = n1
  n2 = n2
  NoDarc = NoDarc
  NoWindow = NoWindow
  User = {u1, u2}
  Contact = {u2}
  Group = {g1}
  Maker <- MCMaker
  FirstName <- MCFirstName
  Name = {n1, n2}
  Known <- MCKnown
  MaxEvolve = 2
  MaxSent = 2
  MaxOpen = 1
INVARIANTS TypeOK NeverOrphaned MembersExist
PROPERTY NoLostUpdate
CHECK_DEADLOCK FALSE
