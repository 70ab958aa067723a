SPECIFICATION Spec
CONSTANTS
  t1 = t1
  t2 = t2
  br1 = br1
  br2 = br2
  l1 = l1
  l2 = l2
  l3 = l3
  u = u
  v = v
  k1 = k1
  k2 = k2
  NoLink = NoLink
  NoKey = NoKey
  NoAccount = NoAccount
  Account = {u, v}
  Of <- MCOf
  Tab = {t1, t2}
  Browser = {br1}
  In <- MCTogether
  Link = {l1}
  DeviceLink = {}
  Old <- MCNothingOld
  NewKey = {k1, k2}
  Overwrites = FALSE
  Failing = FALSE
  Closing = FALSE
  MaxOpen = 3
INVARIANT KeyKept
CHECK_DEADLOCK FALSE
