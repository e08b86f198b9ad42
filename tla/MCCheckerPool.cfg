\* Two checkers for three requests of two compiles each: requests wait, a
\* recycled checker is used again, the pool may shrink to nothing, and an
\* answer may be longer than the limit of StreamReader.  No symmetry, for the
\* liveness.
SPECIFICATION FairSpec
CONSTANTS
  Checkers = {c1, c2}
  Requests = {r1, r2, r3}
  MaxAsks = 2
  LongAnswers = TRUE
  StartsFail = TRUE
  None = None
INVARIANTS
  TypeOK
  OnePlace
  AnswersOwn
  RotationInStep
PROPERTIES
  WaiterServed
\* All requests done and all processes gone is an end, not a deadlock.
CHECK_DEADLOCK FALSE
