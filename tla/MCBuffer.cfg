\* A vector of 2+2 cells and a stack buffer of 3: every append can fit, be
\* fitted by moving, or force growth, and a read can spill over.
SPECIFICATION Spec
CONSTANTS
  kCheapPrepend = 2
  kInitialSize = 2
  ExtraSize = 3
  MaxBytes = 7
INVARIANT IndicesOrdered
PROPERTIES GrowsOnlyWhenFull ImplementsByteQueue
CHECK_DEADLOCK FALSE
