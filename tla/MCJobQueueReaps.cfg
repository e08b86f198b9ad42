\* One job is enough: cancel while the prover runs.
SPECIFICATION FairSpec
CONSTANTS
  Jobs = {j1}
  Workers = {w1}
  MaxQueue = 1
  MaxKept = 1
  NoJob = NoJob
PROPERTIES
  KillReapsGroup
