SPECIFICATION FairSpec
CONSTANTS
  t1 = t1
  t2 = t2
  br1 = br1
  br2 = br2
  l1 = l1
  l2 = l2
  l3 = l3
  u = u
  v = v
  k1 = k1
  k2 = k2
  NoLink = NoLink
  NoKey = NoKey
  NoAccount = NoAccount
  Account = {u, v}
  Of <- MCOf
  Tab = {t1, t2}
  Browser = {br1, br2}
  In <- MCApart
  Link = {l1, l2, l3}
  DeviceLink = {l2}
  Old <- MCOld
  NewKey = {k1, k2}
  Overwrites = TRUE
  Failing = TRUE
  Closing = TRUE
  MaxOpen = 2
INVARIANTS TypeOK KeyKept OneRegisters
PROPERTIES PageEnds KeyGetsStored
CHECK_DEADLOCK FALSE
