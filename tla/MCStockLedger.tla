--------------------------- MODULE MCStockLedger ---------------------------
EXTENDS StockLedger, TLC

\* Clients are interchangeable in every invariant.
ClientSymmetry == Permutations(Clients)
=============================================================================
