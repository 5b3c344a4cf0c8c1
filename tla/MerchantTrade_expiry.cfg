\* A listing of two units sold in parts; two runs of the job that overlap and are interrupted;
\* nobody disputes an order here (MerchantTrade_orders.cfg has both sides).
SPECIFICATION FairSpec
CONSTANTS
  m1 = m1
  t1 = t1
  t2 = t2
  o1 = o1
  o2 = o2
  r1 = r1
  r2 = r2
  s1 = s1
  s2 = s2
  Merchants = {m1}
  Tasks = {t1}
  Orders = {o1, o2}
  Owner <- OneOwner
  MaxCount = 2
  Surety <- Deposit
  Sides = {}
  Reqs = {r1}
  Sweepers = {s1, s2}
  BatchSize = 1
INVARIANTS
  TypeOK
PROPERTIES
  OverdueIsSettled
  ImplementsOrderBook
CHECK_DEADLOCK FALSE
