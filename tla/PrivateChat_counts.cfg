\* Two messages, two requests at once.
SPECIFICATION Spec
CONSTANTS
  a = a
  b = b
  r1 = r1
  r2 = r2
  Users = {a, b}
  Writers = {a}
  Readers = {b}
  Reqs = {r1, r2}
  MaxMsgs = 2
  Revocable = {1}
  Deletable = {2}
  MaxForward = 1
  MaxUnread = 2
  MaxLost = 1
SYMMETRY RequestSymmetry
INVARIANTS
  TypeOK
  UnreadIsCounted
  ReadIsAnnounced
  RevokedIsAnnounced
  PublishedIsTrue
CHECK_DEADLOCK FALSE
