\* Three bytes in sends of one or two: one part written, one buffered, one
\* still queued by the foreign sender.
SPECIFICATION Spec
CONSTANTS
  Senders = {s1, s2}
  MaxBytes = 3
  MaxLen = 2
  MaxInput = 1
INVARIANTS TypeOK BytesInOrder WriteInterest FinAfterFlush PollerInSync OneLife
PROPERTIES PeerGoneIsReaped ShutdownCompletes
CHECK_DEADLOCK FALSE
