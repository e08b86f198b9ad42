\* The shipped bounds of a key, with a queue that two keys can fill.
SPECIFICATION Spec
CONSTANTS
  a = a
  b = b
  x = x
  y = y
  z = z
  proxy = proxy
  Junk = Junk
  Keys = {a, b}
  Clients = {x, y, z}
  Proxies = {proxy}
  Net <- MCNet
  PerIpRunning = 1
  PerIpQueued = 2
  MaxQueue = 4
  MaxConcurrent = 4
  MaxPreparing = 3
  MaxForged = 2
INVARIANTS
  KeyIsTheClients
  ChecksHoldLater
CHECK_DEADLOCK FALSE
