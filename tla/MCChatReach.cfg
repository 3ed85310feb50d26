\* A client that is logged in and not in the session table.
SPECIFICATION Spec
CONSTANTS
  l1 = l1
  l2 = l2
  c1 = c1
  c2 = c2
  Conns = {c1, c2}
  Loops = {l1, l2}
  Users = {u1, u2}
  LoopOf <- MCLoopOf
  NoUser = NoUser
  NoConn = NoConn
  NoLoop = NoLoop
  HistoryLimit = 1
  MaxLogins = 2
  MaxMsgs = 1
  MaxQueued = 1
SYMMETRY ChatSymmetry
INVARIANT BroadcastReachesAll
CHECK_DEADLOCK FALSE
