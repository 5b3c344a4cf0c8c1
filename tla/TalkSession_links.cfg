\* Two colleagues, one message, at most four rows, one of them possibly older.
SPECIFICATION Spec
CONSTANTS
  a = a
  b = b
  c = c
  d = d
  r1 = r1
  r2 = r2
  Users = {a, b}
  Strangers = {c, d}
  Older <- OlderRow
  Robots = {}
  Colleagues = {{a, b}}
  Days = {1}
  Reqs = {r1, r2}
  MaxRows = 4
  MaxMsgs = 1
SYMMETRY TalkSymmetry
INVARIANTS
  TypeOK
  BothSeeWhatWasSent
PROPERTIES
  PairedStaysPaired
  RetentionStaysAgreed
