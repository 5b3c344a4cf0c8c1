\* One connection in a wheel of three slots, to the end of its life; one request
\* that asks for its user, and a process that may die.
SPECIFICATION BindingSpec
CONSTANTS
  c1 = c1
  w1 = w1
  q1 = q1
  NoJob = NoJob
  Ids = {c1}
  Goroutines <- AllGoroutines
  Openers <- OpenerOf
  Readers <- ReaderOf
  Workers = {w1}
  Queries = {q1}
  NumSlots = 3
  DelayTicks = 1
  Capacity = 1
  Tokens = {1, 2, 3}
  MaxOpenConns = 2
INVARIANTS
  BindingTypeOK
PROPERTIES
  ClosedLeavesNothing
  GoneGoesOffline
