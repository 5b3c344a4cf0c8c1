SPECIFICATION Spec
CONSTANTS
  e1 = e1
  u1 = u1
  u2 = u2
  u3 = u3
  u4 = u4
  u5 = u5
  api = api
  cron = cron
  nobody = nobody
  Envelopes = {e1}
  Users = {u1, u2, u3, u4, u5}
  Nobody = nobody
  Serving = {api}
  Cron = api
  MaxAmount = 9
  MaxCount = 4
SYMMETRY EnvelopeSymmetry
INVARIANTS
  TypeOK
  EveryCentAccounted
  OneSharePerUser
  LuckyLeavesEnough
PROPERTIES
  ClosedForGood
