\* One unit, two orders, two runs of the expiry job and two requests, all racing.
SPECIFICATION Spec
CONSTANTS
  m1 = m1
  t1 = t1
  t2 = t2
  o1 = o1
  o2 = o2
  r1 = r1
  r2 = r2
  s1 = s1
  s2 = s2
  Merchants = {m1}
  Tasks = {t1}
  Orders = {o1, o2}
  Owner <- OneOwner
  MaxCount = 1
  Surety <- Deposit
  Sides <- TwoSides
  Reqs = {r1, r2}
  Sweepers = {s1, s2}
  BatchSize = 1
SYMMETRY TradeSymmetry
INVARIANTS
  CountWithinTotal
  RowsAgree
  NoStockLost
PROPERTIES
  StockMintedOnlyByEdit
  ExpireNeverClosesPaid
CHECK_DEADLOCK FALSE
