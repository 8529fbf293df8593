SPECIFICATION Spec
CONSTANTS
  Threads = {w1, w2, w3}
  Keys = {k1}
  Values = {v1}
  Conns = {c1, c2, c3, c4, c5}
  NoConn = NoConn
  NoRow = NoRow
  NoReq = NoReq
  Failed = Failed
  Broken = Broken
  PoolSize = 2
  Faults = {"drop", "refuse", "statement", "lost", "field"}
  MaxCalls = 4
  MaxFailures = 2
INVARIANTS TypeOK OneUser NoLeak OneFailureHidden
PROPERTIES AtomicSpec
SYMMETRY ThreadSymmetry
