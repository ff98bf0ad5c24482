SPECIFICATION Spec
CONSTANTS
  Skus = {s1}
  Clients = {c1, c2}
  MaxMoves = 3
  MaxDay = 4
  Retention = 1
  Quantities = {1}
  Thresholds = {0, 1}
  StartRolling = FALSE
  ByHand = FALSE
SYMMETRY ClientSymmetry
INVARIANTS LedgerIsComplete BalanceIsStock 
CHECK_DEADLOCK FALSE
