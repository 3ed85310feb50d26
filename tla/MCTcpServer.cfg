\* Up to the three I/O loops of ChatServer; four connections that share three descriptors.
SPECIFICATION Spec
CONSTANTS
  MaxThreads = 3
  MaxConns = 4
  Fds = {f1, f2, f3}
  NoFd = NoFd
INVARIANTS TypeOK ChannelFound Balanced
PROPERTIES StartCompletes ConnectionsServed
CHECK_DEADLOCK FALSE
