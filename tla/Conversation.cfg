SPECIFICATION MCSpec
CONSTANTS
  Publishers = {p1, p2}
  Subscriptions = {s1, s2}
  Streams = {s2}
  Capacity = 1
  OverflowThreshold = 2
  MaxEvents = 3
  Sockets = {k1, k2}
  Generations = {1, 2}
  Queries = {q1}
  Watchers = {k1}
  MaxTokens = 2
INVARIANTS
  WakeIsComing SubscribersAreServed
  OneTurnAtATime ToldIsStored 
CHECK_DEADLOCK FALSE
