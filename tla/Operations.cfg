\* Two feeds, two guards; three releases by two jobs; documents of up to five
\* blocks; two slots for three requests across a minute and a midnight.
SPECIFICATION MCSpec
CONSTANTS
  Feeds = {f1, f2}
  Guards = {g1, g2}
  MaxApprovals = 1
  Images = {1, 2, 3}
  MaxJobs = 2
  MaxQueue = 2
  TicksPerSecond = 2
  MaxTime = 5
  MaxBlocks = 5
  MaxIndexed = 2
  Indexers = {r1, r2}
  Requests = {q1, q2, q3}
  Slots = 2
  PerMinute = 3
  PerDay = 4
  Minute = 2
  Midnight = 4
SYMMETRY Symmetry
INVARIANTS
  StoppedFeedStops RebuildsAreApproved RunningCanWork JobsReportTruly
  PassagesAreSound LimitsHold
\* Jobs, deployments and the clock come to an end.
CHECK_DEADLOCK FALSE
