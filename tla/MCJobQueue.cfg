\* Three jobs for two workers and a queue of two: a job waits behind a busy
\* pool, the queue fills, cancelled ids stay in it, records are pruned and
\* their ids reused.
SPECIFICATION Spec
CONSTANTS
  Jobs = {j1, j2, j3}
  Workers = {w1, w2}
  MaxQueue = 2
  MaxKept = 1
  NoJob = NoJob
SYMMETRY Symmetry
INVARIANTS
  TypeOK
  PendingMatchesQueue
  OneOwner
  CancelWins
  ProvedIsVerified
  ProverIsAttended
PROPERTIES
  ImplementsService
  OutcomeIsFinal
  StoreBounded
