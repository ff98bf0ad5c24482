SPECIFICATION FairSpec
CONSTANTS
  Skus = {s1}
  Clients = {c1}
  MaxMoves = 2
  MaxDay = 3
  Retention = 1
  Quantities = {1}
  Thresholds = {0, 1}
  StartRolling = TRUE
  ByHand = FALSE
PROPERTIES Converges
CHECK_DEADLOCK FALSE
