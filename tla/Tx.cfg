SPECIFICATION FairSpec
CONSTANTS
  b1 = b1
  b2 = b2
  b3 = b3
  k1 = k1
  k2 = k2
  darc = darc
  write = write
  transfer = transfer
  Builder = {b1, b2, b3}
  Key = {k1, k2}
  KeyOf <- MCKeyOf
  Item = {darc, write, transfer}
  Price <- MCPrice
  Amount <- MCAmount
  Funds = 5
  Retry = {b1}
  NoWait = {b2}
  GiveUp = {b2, b3}
  MaxTry = 3
INVARIANTS TypeOK CostIsPrice OnceOnly
PROPERTIES FairCharge BatchSpec SendEnds
CHECK_DEADLOCK FALSE
