\* Two connections, a worker and a channel of one: the second task of a slot waits.
SPECIFICATION Spec
CONSTANTS
  c1 = c1
  c2 = c2
  w1 = w1
  NoJob = NoJob
  Ids = {c1, c2}
  Goroutines <- AllGoroutines
  Openers <- OpenerOf
  Readers <- ReaderOf
  Workers = {w1}
  NumSlots = 3
  DelayTicks = 1
  Capacity = 1
  Tokens = {1, 2, 3}
  MaxOpenConns = 2
INVARIANTS
  OneHeartbeatPerConnection
  HeartbeatNeverLost
  ConnNumCountsSessions
SYMMETRY ConnectionSymmetry
