\* Two clients on different loops, two user names, up to four logins and two messages.
SPECIFICATION Spec
SYMMETRY ChatSymmetry
CONSTANTS
  l1 = l1
  l2 = l2
  c1 = c1
  c2 = c2
  Conns = {c1, c2}
  Loops = {l1, l2}
  Users = {u1, u2}
  LoopOf <- MCLoopOf
  NoUser = NoUser
  NoConn = NoConn
  NoLoop = NoLoop
  HistoryLimit = 1
  MaxLogins = 4
  MaxMsgs = 2
  MaxQueued = 1
CONSTRAINT LoginsAndMessages
INVARIANTS TypeOK NoGhostSession SenderOrder BroadcastTargetsAlive NoGap
CHECK_DEADLOCK FALSE
