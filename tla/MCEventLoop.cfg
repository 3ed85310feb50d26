\* Two foreign threads race each other and the loop; three functors let one
\* be running, one swapped out and one freshly queued.
SPECIFICATION Spec
CONSTANTS
  LoopThread = loop
  Others = {t1, t2}
  MaxFunctors = 3
INVARIANTS TypeOK NoLostWakeup NoLostQuit
PROPERTIES QuitStops ImplementsQueue
CHECK_DEADLOCK FALSE
