\* Two I/O loops and the keep-alive timer, two user names, two passwords.
SPECIFICATION Spec
CONSTANTS
  IOLoops = {l1, l2}
  BaseLoop = base
  Users = {u1, u2}
  Passwords = {p1, p2}
  UniqueKey = TRUE
  None = None
SYMMETRY Symmetric
CONSTRAINT UserHandleSound
INVARIANTS TypeOK OwnResult NoFalseLogin RegisteredIsStored
PROPERTY LostIsFatal
CHECK_DEADLOCK FALSE
