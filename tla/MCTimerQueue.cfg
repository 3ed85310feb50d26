\* Two timers, one-shot or repeating, with delays of one or two ticks.
SPECIFICATION Spec
CONSTANTS
  Timers = {t1, t2}
  MaxInterval = 2
INVARIANTS TypeOK AlarmArmed CancelStops
PROPERTY TimersRun
