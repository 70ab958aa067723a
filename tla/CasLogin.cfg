SPECIFICATION FairSpec
CONSTANTS
  u1 = u1
  u2 = u2
  blog = blog
  chat = chat
  other = other
  a1 = a1
  a2 = a2
  c1 = c1
  c2 = c2
  NoAction = NoAction
  NoChallenge = NoChallenge
  User = {u1}
  Url = {blog, chat, other}
  Action = {a1, a2}
  ActionOf <- MCActionOf
  Challenge = {c1}
  Validity = 1
  MaxTime = 2
  MaxBlock = 3
INVARIANTS TypeOK AccessIsEarned AccessExpires NoFalseRefusal
PROPERTY CheckEnds
CHECK_DEADLOCK FALSE
