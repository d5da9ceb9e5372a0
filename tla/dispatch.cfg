SPECIFICATION DispatchSpec
CONSTANTS
  i1 = i1
  i2 = i2
  d1 = d1
  d2 = d2
  s1 = s1
  t1 = t1
  t2 = t2
  r1 = r1
  r2 = r2
  None = None
  Key = {i1, i2}
  Device = {d1, d2}
  KeyOf <- OwnKeys
  Listener <- Listeners
  Cast = {"say"}
  Change <- Changes
  Answer = {"ok", "error"}
  MaxRef = 2
  MaxWire = 2
  MaxDrops = 1
  MaxRegs = 2
  MaxData = 2
  MaxOther = 1
INVARIANTS
  DispatchTypeOK
  RunOnce
  AskedIsRun
  TaskGoesOn
  PresenceMirrors
  LeavesWereJoined
CHECK_DEADLOCK FALSE
