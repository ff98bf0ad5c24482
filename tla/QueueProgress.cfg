SPECIFICATION FairSpec
CONSTANTS
  Workers = {w1, w2}
  Cli = {}
  Paused = {}
  Clients = {}
  MaxRuns = 1
  MaxAttempts = 2
  Lease = 1
  Backoff = 1
  RunTimeout = 1
  MaxSlot = 1
  MaxWeek = 0
  Nobody = Nobody
PROPERTIES EveryRequestResolves 
