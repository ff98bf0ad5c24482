-------------------------------- MODULE Shelf --------------------------------
(***************************************************************************)
(* What the inventory promises to those who read and move stock, without   *)
(* a ledger, locks, transactions, checkpoints, retention or repair: every  *)
(* SKU has one number.  A delivery raises it, a dispatch or a loss lowers  *)
(* it by no more than is there, in one step each, and nothing else changes *)
(* it but the guarded reset, which empties the shelf.                      *)
(***************************************************************************)
EXTENDS Integers

CONSTANTS Skus, Quantities

VARIABLE stock

ShelfInit == stock = [s \in Skus |-> 0]

Receive(s, qty) == stock' = [stock EXCEPT ![s] = @ + qty]

Take(s, qty) ==
  /\ qty <= stock[s]
  /\ stock' = [stock EXCEPT ![s] = @ - qty]

Clear == stock' = [s \in Skus |-> 0]

ShelfNext == Clear \/ \E s \in Skus, qty \in Quantities : Receive(s, qty) \/ Take(s, qty)

ShelfSpec == ShelfInit /\ [][ShelfNext]_stock
=============================================================================
