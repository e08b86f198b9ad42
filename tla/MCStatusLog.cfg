\* The leader and one worker, both start methods: three events of their three
\* threads, two of one thread at most (the Timer emits one).
SPECIFICATION Spec
CONSTANTS
  Leader = leader
  w1 = w1
  Workers = {w1}
  StartMethods = {"fork", "spawn"}
  MaxEvents = 2
  MaxTotal = 3
  Unresolved = Unresolved
  NoFile = NoFile
INVARIANTS
  TypeOK
  ChunksDoNotMatter
  DamageIsACut
  InOrderOnce
  DrainCovers
CHECK_DEADLOCK FALSE
