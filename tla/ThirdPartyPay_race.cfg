SPECIFICATION Spec
CONSTANTS
  o1 = o1
  o2 = o2
  n1 = n1
  n2 = n2
  n3 = n3
  c1 = c1
  c2 = c2
  k1 = k1
  Orders = {o1, o2}
  Numbers = {n1, n2, n3}
  Calls = {c1, c2}
  Confirms = {k1}
SYMMETRY PaySymmetry
INVARIANTS
  TypeOK
  PageServesOneOrder
  PaidMeansCollected
  PageFollowsOrder
CHECK_DEADLOCK FALSE
