SPECIFICATION Spec
CONSTANTS
  c1 = c1
  c2 = c2
  t1 = t1
  t2 = t2
  k1 = k1
  k2 = k2
  NoOne = NoOne
  Chan = {c1}
  TopicOf <- OneTopic
  Topic = {t1}
  Unreadable = {}
  Caller = {k1}
  Ops <- LeaveOps
  Faults <- LossFaults
  Malformed = {}
  Endpoints <- GoodEndpoint
  MaxAttempts = 2
  MaxGen = 2
  MaxEnv = 4
INVARIANTS
  DisconnectIsFinal
CHECK_DEADLOCK FALSE
