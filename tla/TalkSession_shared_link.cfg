\* Two colleagues and an older conversation of two others.
SPECIFICATION Spec
CONSTANTS
  a = a
  b = b
  c = c
  d = d
  r1 = r1
  r2 = r2
  Users = {a, b}
  Strangers = {c, d}
  Older <- OlderPair
  Robots = {}
  Colleagues = {{a, b}}
  Days = {}
  Reqs = {r1}
  MaxRows = 4
  MaxMsgs = 0
INVARIANTS
  LinkOfOnePair
