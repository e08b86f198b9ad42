\* Two jobs behind one worker: a job waits behind a prover that may hang, and
\* is taken from the queue and starts its own while shutdown waits for the
\* first.  No symmetry: it is unsound for liveness.
SPECIFICATION FairShutSpec
CONSTANTS
  Jobs = {j1, j2}
  Workers = {w1}
  MaxQueue = 2
  MaxKept = 1
  NoJob = NoJob
INVARIANTS
  NoneOutlives
  StillAttended
PROPERTIES
  ShutdownEnds
  EveryJobEnds
\* The server stops.
CHECK_DEADLOCK FALSE
