SPECIFICATION FairSpec
CONSTANTS
  c1 = c1
  c2 = c2
  u1 = u1
  u2 = u2
  k1 = k1
  k2 = k2
  g1 = g1
  g2 = g2
  NoOne = NoOne
  Channel = {c1}
  Caller = {k1}
  Conn = {g1, g2}
  Id = {u1, u2}
  IdOf <- OneId
  Ops <- JoinOps
  Faults <- NoFaults
  MaxEnv = 3
PROPERTIES
  ReplyReleasesWaiter
CHECK_DEADLOCK FALSE
