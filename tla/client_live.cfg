SPECIFICATION FairSpec
CONSTANTS
  c1 = c1
  c2 = c2
  t1 = t1
  t2 = t2
  k1 = k1
  k2 = k2
  NoOne = NoOne
  Chan = {c1}
  TopicOf <- OneTopic
  Topic = {t1, t2}
  Unreadable = {t2}
  Caller = {k1}
  Ops <- UserOps
  Faults <- AllFaults
  Malformed = {2}
  Endpoints <- AnyEndpoint
  MaxAttempts = 2
  MaxGen = 2
  MaxEnv = 3
PROPERTIES
  CallsSettle
CHECK_DEADLOCK FALSE
