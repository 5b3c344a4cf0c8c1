\* A confirmation that outlives the cancellation of its order.
SPECIFICATION Spec
CONSTANTS
  m1 = m1
  t1 = t1
  t2 = t2
  o1 = o1
  o2 = o2
  r1 = r1
  r2 = r2
  s1 = s1
  s2 = s2
  Merchants = {m1}
  Tasks = {t1}
  Orders = {o1}
  Owner <- OneOwner
  MaxCount = 1
  Surety <- Deposit
  Sides <- TwoSides
  Reqs = {r1}
  Sweepers = {s1}
  BatchSize = 1
INVARIANT CancelledIsNotPaid
CHECK_DEADLOCK FALSE
