SPECIFICATION FairSession
CONSTANTS
  c1 = c1
  t1 = t1
  t2 = t2
  t3 = t3
  k1 = k1
  NoOne = NoOne
  Chan = {c1}
  TopicOf <- OneTopic
  Topic = {t1, t2, t3}
  Unreadable = {t3}
  Phoenix = t2
  Caller = {k1}
  Ops <- UserOps
  Faults <- LossFaults
  Malformed = {}
  Endpoints <- GoodEndpoint
  MaxAttempts = 1
  MaxGen = 2
  MaxEnv = 3
INVARIANTS
  Agrees
PROPERTIES
  LostIsRejoined
  JoinsSettle
  ServerIsLeft
CHECK_DEADLOCK FALSE
