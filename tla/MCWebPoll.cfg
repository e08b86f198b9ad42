\* Two jobs to switch between, and two chains: enough for a late
\* reply and for the chain that a cancel starts.
SPECIFICATION FairSpec
CONSTANTS
  j1 = j1
  j2 = j2
  k1 = k1
  k2 = k2
  Jobs = {j1, j2}
  Chains = {k1, k2}
  None = None
  MaxRev = 1
  MaxFails = 1
INVARIANTS
  StillPolled
PROPERTIES
  EndIsShown
CHECK_DEADLOCK FALSE
