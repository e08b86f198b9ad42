\* A window of one second in half-second ticks, a day of two seconds with
\* a cap of two, and time for two windows to pass.
SPECIFICATION Spec
CONSTANTS
  a = a
  b = b
  c = c
  Keys = {a, b, c}
  Limit <- MCLimit
  Window = 1
  DayCap = 2
  DayWindow = 2
  Tps = 2
  MaxNow = 5
INVARIANTS
  SlidingWindow
  DailyCap
  RetryHonoured
CHECK_DEADLOCK FALSE
