SPECIFICATION Spec
CONSTANTS
  Workers = {w1}
  Cli = {}
  Paused = {}
  Clients = {c1, c2}
  MaxRuns = 2
  MaxAttempts = 1
  Lease = 1
  Backoff = 1
  RunTimeout = 1
  MaxSlot = 0
  MaxWeek = 1
  Nobody = Nobody
INVARIANT Coalesced
