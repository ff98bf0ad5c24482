---------------------------- MODULE StockLedger ----------------------------
(***************************************************************************)
(* The inventory ledger of the Central API: movements and their            *)
(* materialized balances (domains/inventory/{service,repository,balances}. *)
(* py), the reconciler, the retention job and the guarded reset            *)
(* (scripts/{reconcile_stock_balances,prune_movement_ledger,               *)
(* db_size_guard}.py).                                                     *)
(*                                                                         *)
(* PostgreSQL runs at READ COMMITTED: a statement sees what was committed  *)
(* when it started.  One action is one statement whose snapshot matters,   *)
(* or the statements of a transaction that a lock makes indivisible.  A    *)
(* SKU has one warehouse, so the SKU alone is the key.                     *)
(***************************************************************************)
EXTENDS Integers, FiniteSets, FiniteSetsExt

CONSTANTS
  Skus, Clients,
  MaxMoves,     \* bound: movement rows alive at once
  MaxDay,       \* bound: days that pass
  Retention,    \* movement_retention_days
  Quantities,   \* quantities a movement may have
  Thresholds,   \* values of min_stock_threshold
  StartRolling, \* an old image, which keeps no balances, still writes
  ByHand        \* the reconciler is also run by hand, beside the worker

ASSUME LedgerAssumption ==
  /\ MaxMoves \in Nat /\ MaxDay \in Nat \ {0} /\ Retention \in Nat
  /\ Quantities \subseteq Nat \ {0} /\ Thresholds \subseteq Nat /\ 0 \in Thresholds
  /\ StartRolling \in BOOLEAN /\ ByHand \in BOOLEAN

VARIABLES
  ledger,     \* rows of stock_entries and stock_exits
  events,     \* stockout_events, as the exit ids they reference
  disc,       \* inventory_discrepancies, as the exit ids they reference
  bal,        \* stock_balances (an absent row reads as 0)
  base,       \* stock_ledger_checkpoints.quantity (an absent row reads as 0)
  mark,       \* checkpoint_at of every checkpoint row (0: there are none)
  thr,        \* skus.min_stock_threshold
  tx,         \* per client, its open transaction
  rec,        \* the reconciler
  prune,      \* the retention job
  reseed,     \* the disposable sources are empty and will be seeded
  rolling,    \* the old image has not been swapped out yet
  today,
  stock       \* ghost: what is really on the shelf, all movements ever made

tables == <<ledger, events, disc, bal, base, mark, thr, stock>>
jobs   == <<rec, prune, reseed, rolling, today>>
vars   == <<tables, tx, jobs>>

Kinds == {"entry", "dispatch", "loss"}
Exits == {m \in ledger : m.kind # "entry"}
NoTx  == [pc |-> "idle", sku |-> CHOOSE s \in Skus : TRUE, kind |-> "entry", qty |-> 0,
          seen |-> 0, id |-> 0]
Rest  == [pc |-> "idle", mark |-> 0, snap |-> [s \in Skus |-> 0]]

Init ==
  /\ ledger = {} /\ events = {} /\ disc = {}
  /\ bal = [s \in Skus |-> 0] /\ base = [s \in Skus |-> 0] /\ mark = 0
  /\ thr = [s \in Skus |-> 0]
  /\ stock = [s \in Skus |-> 0]
  /\ tx = [c \in Clients |-> NoTx]
  /\ rec = Rest
  /\ prune = [pc |-> "idle", cutoff |-> 0]
  /\ reseed = TRUE /\ rolling = StartRolling
  /\ today = 1

-----------------------------------------------------------------------------
(* Derivation.                                                             *)

Signed(m) == IF m.kind = "entry" THEN m.qty ELSE -m.qty

Net(s, rows) == MapThenSumSet(Signed, {m \in rows : m.sku = s})

\* _DERIVE_BALANCES: the base plus the movements at or after the watermark.
Derive(s, from, to) == base[s] + Net(s, {m \in ledger : m.day >= from /\ m.day < to})

Derived(s, from) == Derive(s, from, MaxDay + 1)

\* Mutant: only a balance that over-states the stock counts as drift.
OverStated(from) == {s \in Skus : bal[s] > Derived(s, from)}

Drifted(from) == {s \in Skus : bal[s] # Derived(s, from)}

-----------------------------------------------------------------------------
(* The incremental path: InventoryService.                                 *)

\* get_sku_for_update: FOR UPDATE, held to the end of the transaction.
Locked(s) == \E c \in Clients : tx[c].pc = "open" /\ tx[c].sku = s

NextId == CHOOSE i \in 1..(MaxMoves + 1) : /\ \A m \in ledger : m.id # i
                                           /\ \A j \in 1..(i - 1) : \E m \in ledger : m.id = j

\* The INSERT of one movement; crossed is a ghost of the event it should raise.
Write(s, kind, qty, crossed) ==
  /\ Cardinality(ledger) < MaxMoves
  /\ ledger' = ledger \cup {[id |-> NextId, sku |-> s, kind |-> kind, qty |-> qty,
                             day |-> today, crossed |-> crossed]}
  /\ stock' = [stock EXCEPT ![s] = @ + (IF kind = "entry" THEN qty ELSE -qty)]

\* Mutant: the upsert's conflict branch stores EXCLUDED.quantity.
ReplacedBy(s, delta) == [bal EXCEPT ![s] = delta]

\* apply_balance_delta.
MovedBy(s, delta) == [bal EXCEPT ![s] = @ + delta]

\* record_inbound: nothing is read, so one transaction is one step.
RecordInbound(s, qty) ==
  /\ ~Locked(s)
  /\ Write(s, "entry", qty, FALSE)
  /\ bal' = MovedBy(s, qty)
  /\ UNCHANGED <<events, disc, base, mark, thr, tx, jobs>>

\* record_outbound takes the SKU lock and reads the balance.
OpenOutbound(c, s, kind, qty) ==
  /\ tx[c].pc = "idle" /\ ~Locked(s)
  /\ tx' = [tx EXCEPT ![c] = [pc |-> "open", sku |-> s, kind |-> kind, qty |-> qty,
                              seen |-> bal[s], id |-> 0]]
  /\ UNCHANGED <<tables, jobs>>

\* Mutant: >= for >, a movement that starts at the threshold raises the event again.
CrossesFromBelow(before, qty, t) == t > 0 /\ before >= t /\ t >= before - qty

Crosses(before, qty, t) == t > 0 /\ before > t /\ t >= before - qty

\* Ghost: an exit takes what is really on the shelf down to the threshold.
Falls(s, qty) == /\ thr[s] > 0 /\ stock[s] > thr[s] /\ stock[s] - qty <= thr[s]

\* ... refuses, or commits the exit, the delta and the threshold event together.
CloseOutbound(c) ==
  LET t == tx[c] IN
  /\ t.pc = "open" /\ t.kind # "entry"
  /\ tx' = [tx EXCEPT ![c] = NoTx]
  /\ IF t.qty > t.seen
     THEN UNCHANGED <<ledger, stock, bal, events>>
     ELSE /\ Write(t.sku, t.kind, t.qty, Falls(t.sku, t.qty))
          /\ bal' = MovedBy(t.sku, -t.qty)
          /\ events' = IF Crosses(t.seen, t.qty, thr[t.sku])
                       THEN events \cup {NextId} ELSE events
  /\ UNCHANGED <<disc, base, mark, thr, jobs>>

\* The connection drops or the commit fails: everything is rolled back.
Rollback(c) ==
  /\ tx[c].pc # "idle"
  /\ tx' = [tx EXCEPT ![c] = NoTx]
  /\ UNCHANGED <<tables, jobs>>

\* update_sku changes the threshold under the same lock.
UpdateSku(s, t) ==
  /\ ~Locked(s)
  /\ thr' = [thr EXCEPT ![s] = t]
  /\ UNCHANGED <<ledger, events, disc, bal, base, mark, stock, tx, jobs>>

\* record_discrepancy reads the exit and looks for a duplicate without a lock.
OpenDiscrepancy(c, m) ==
  /\ tx[c].pc = "idle" /\ m.kind = "dispatch" /\ m.id \notin disc
  /\ tx' = [tx EXCEPT ![c] = [NoTx EXCEPT !.pc = "disc", !.sku = m.sku, !.id = m.id]]
  /\ UNCHANGED <<tables, jobs>>

\* ... then waits for the SKU lock and inserts: 201, 409 (unique), 503 (foreign key).
CloseDiscrepancy(c) ==
  /\ tx[c].pc = "disc" /\ ~Locked(tx[c].sku)
  /\ disc' = IF \E m \in Exits : m.id = tx[c].id THEN disc \cup {tx[c].id} ELSE disc
  /\ tx' = [tx EXCEPT ![c] = NoTx]
  /\ UNCHANGED <<ledger, events, bal, base, mark, thr, stock, jobs>>

-----------------------------------------------------------------------------
(* Bulk writes and the rollover.                                           *)

\* seed_inventory / backfill_history: the rows' foreign keys lock every SKU
\* against movements until the re-derived balances commit with them.
BulkSeed(qty) ==
  /\ reseed /\ reseed' = FALSE
  /\ \A s \in Skus : ~Locked(s)
  /\ \E s \in Skus :
       /\ Write(s, "entry", qty, FALSE)
       /\ bal' = [r \in Skus |-> base[r] + Net(r, {m \in ledger' : m.day >= mark})]
  /\ UNCHANGED <<events, disc, base, mark, thr, tx, rec, prune, rolling, today>>

\* What the TRUNCATE leaves of stock_ledger_checkpoints.
Checkpoints == [base |-> [s \in Skus |-> 0], mark |-> 0]

\* _reset_source_tables: TRUNCATE waits for every transaction that read a table.
Reset ==
  /\ \A c \in Clients : tx[c].pc = "idle"
  /\ rec.pc = "idle" /\ prune.pc = "idle" /\ ~reseed
  /\ ledger' = {} /\ events' = {} /\ disc' = {}
  /\ bal' = [s \in Skus |-> 0] /\ base' = Checkpoints.base /\ mark' = Checkpoints.mark
  /\ stock' = [s \in Skus |-> 0]
  /\ reseed' = TRUE
  /\ UNCHANGED <<thr, tx, rec, prune, rolling, today>>

\* The previous image: it knows the ledger, not the balances.
OldImageMove(s, kind, qty) ==
  /\ rolling /\ mark = 0 /\ ~Locked(s)
  /\ kind = "entry" \/ qty <= Net(s, ledger)
  /\ Write(s, kind, qty, kind # "entry" /\ Falls(s, qty))
  /\ events' = IF kind # "entry" /\ Crosses(Net(s, ledger), qty, thr[s])
               THEN events \cup {NextId} ELSE events
  /\ UNCHANGED <<disc, bal, base, mark, thr, tx, jobs>>

SwapContainers ==
  /\ rolling /\ rolling' = FALSE
  /\ UNCHANGED <<tables, tx, rec, prune, reseed, today>>

-----------------------------------------------------------------------------
(* reconcile_stock_balances: four statements and a commit.                 *)

RecSet(pc, m, snap) == rec' = [pc |-> pc, mark |-> m, snap |-> snap]

RecKeep == UNCHANGED <<tables, tx, prune, reseed, rolling, today>>

\* checkpoint_watermark, before verify.
ReadMark ==
  /\ rec.pc = "idle" /\ (prune.pc = "idle" \/ ByHand)
  /\ RecSet("verify", mark, rec.snap)
  /\ RecKeep

\* ... and again before the rebuild.
ReadMarkAgain ==
  /\ rec.pc = "drifted"
  /\ RecSet("derive", mark, rec.snap)
  /\ RecKeep

\* verify_stock_balances: no drift, nothing to do.
Verify ==
  /\ rec.pc = "verify"
  /\ rec' = IF Drifted(rec.mark) = {} THEN Rest ELSE [rec EXCEPT !.pc = "drifted"]
  /\ RecKeep

\* rebuild_stock_balances: the SELECT's snapshot, for every SKU.
TakeSnapshot ==
  /\ rec.pc = "derive"
  /\ RecSet("write", rec.mark, [s \in Skus |-> Derived(s, rec.mark)])
  /\ RecKeep

\* ... and the upsert of every balance.
WriteBalances ==
  /\ rec.pc = "write"
  /\ bal' = rec.snap
  /\ rec' = Rest
  /\ UNCHANGED <<ledger, events, disc, base, mark, thr, stock, tx, prune, reseed, rolling, today>>

-----------------------------------------------------------------------------
(* prune_once.                                                             *)

PruneKeep == UNCHANGED <<thr, stock, bal, tx, rec, reseed, rolling, today>>

\* retention_cutoff.
Cutoff(now) == now - Retention

\* Refused while any balance disagrees with the ledger.
StartPrune ==
  /\ prune.pc = "idle" /\ (rec.pc = "idle" \/ ByHand)
  /\ Drifted(mark) = {}
  /\ prune' = [pc |-> "checkpoint", cutoff |-> Cutoff(today)]
  /\ UNCHANGED <<ledger, events, disc, base, mark>> /\ PruneKeep

\* Mutant: the checkpoint also counts the cutoff day itself.
CutoffIncluded(cutoff) == cutoff + 1

\* The half-open end of what the checkpoint absorbs.
UpTo(cutoff) == cutoff

\* write_ledger_checkpoint refuses a cutoff that does not advance.
Checkpoint ==
  /\ prune.pc = "checkpoint"
  /\ IF prune.cutoff <= mark
     THEN prune' = [prune EXCEPT !.pc = "idle"] /\ UNCHANGED <<base, mark>>
     ELSE /\ base' = [s \in Skus |-> Derive(s, mark, UpTo(prune.cutoff))]
          /\ mark' = prune.cutoff
          /\ prune' = [prune EXCEPT !.pc = "disc"]
  /\ UNCHANGED <<ledger, events, disc>> /\ PruneKeep

Old == {m \in ledger : m.day < prune.cutoff}

OldExits == {m \in Old : m.kind # "entry"}

Oldest(rows) == CHOOSE m \in rows : \A n \in rows : m.id <= n.id

\* Children first, keyed by their parent's age; a batch is one parent.
PruneChildren ==
  /\ \/ /\ prune.pc = "disc"
        /\ LET due == {m \in OldExits : m.id \in disc} IN
           IF due = {} THEN prune' = [prune EXCEPT !.pc = "events"] /\ UNCHANGED disc
           ELSE disc' = disc \ {Oldest(due).id} /\ UNCHANGED prune
        /\ UNCHANGED events
     \/ /\ prune.pc = "events"
        /\ LET due == {m \in OldExits : m.id \in events} IN
           IF due = {} THEN prune' = [prune EXCEPT !.pc = "exits"] /\ UNCHANGED events
           ELSE events' = events \ {Oldest(due).id} /\ UNCHANGED prune
        /\ UNCHANGED disc
  /\ UNCHANGED <<ledger, base, mark>> /\ PruneKeep

\* stock_exit_id of a child row, ON DELETE RESTRICT.
Referenced(m) == m.id \in disc \cup events

\* Exits before entries; a discrepancy reported meanwhile makes RESTRICT raise.
PruneRows ==
  /\ \/ /\ prune.pc = "exits"
        /\ IF OldExits = {} THEN prune' = [prune EXCEPT !.pc = "entries"] /\ UNCHANGED ledger
           ELSE IF Referenced(Oldest(OldExits))
           THEN prune' = [prune EXCEPT !.pc = "idle"] /\ UNCHANGED ledger
           ELSE ledger' = ledger \ {Oldest(OldExits)} /\ UNCHANGED prune
     \/ /\ prune.pc = "entries"
        /\ LET due == Old \ OldExits IN
           IF due = {} THEN prune' = [prune EXCEPT !.pc = "idle"] /\ UNCHANGED ledger
           ELSE ledger' = ledger \ {Oldest(due)} /\ UNCHANGED prune
  /\ UNCHANGED <<events, disc, base, mark>> /\ PruneKeep

\* The time budget runs out, or the maintenance worker dies: every batch was
\* committed, the checkpoint too, the rest waits for the next night.
StopJobs ==
  /\ prune.pc # "idle" \/ rec.pc # "idle"
  /\ prune' = [pc |-> "idle", cutoff |-> 0]
  /\ rec' = Rest
  /\ UNCHANGED <<tables, tx, reseed, rolling, today>>

NextDay ==
  /\ today < MaxDay
  /\ today' = today + 1
  /\ UNCHANGED <<tables, tx, rec, prune, reseed, rolling>>

-----------------------------------------------------------------------------

Movement ==
  \/ \E s \in Skus, qty \in Quantities :
       \/ RecordInbound(s, qty)
       \/ \E kind \in Kinds : OldImageMove(s, kind, qty)
       \/ \E c \in Clients, kind \in Kinds \ {"entry"} : OpenOutbound(c, s, kind, qty)
  \/ \E c \in Clients : CloseOutbound(c) \/ Rollback(c) \/ CloseDiscrepancy(c)
  \/ \E c \in Clients, m \in Exits : OpenDiscrepancy(c, m)
  \/ \E s \in Skus, t \in Thresholds : UpdateSku(s, t)

Reconcile == ReadMark \/ Verify \/ ReadMarkAgain \/ TakeSnapshot \/ WriteBalances

Prune == StartPrune \/ Checkpoint \/ PruneChildren \/ PruneRows

Next ==
  \/ Movement \/ Reconcile \/ Prune \/ StopJobs \/ NextDay \/ SwapContainers \/ Reset
  \/ \E qty \in Quantities : BulkSeed(qty)

Spec == Init /\ [][Next]_vars

\* A deployment ends, and the maintenance worker, restarted whenever it dies,
\* does not die in every one of its passes.
Fairness ==
  /\ WF_vars(SwapContainers)
  /\ SF_vars(ReadMark) /\ SF_vars(Verify) /\ SF_vars(ReadMarkAgain)
  /\ SF_vars(TakeSnapshot) /\ SF_vars(WriteBalances)
  /\ WF_vars(Prune)

FairSpec == Spec /\ Fairness

-----------------------------------------------------------------------------

TypeOK ==
  /\ \A m \in ledger : /\ m.id \in 1..MaxMoves /\ m.sku \in Skus /\ m.kind \in Kinds
                       /\ m.qty \in Quantities /\ m.day \in 1..MaxDay /\ m.crossed \in BOOLEAN
  /\ events \subseteq 1..MaxMoves /\ disc \subseteq 1..MaxMoves
  /\ bal \in [Skus -> Int] /\ base \in [Skus -> Int] /\ stock \in [Skus -> Int]
  /\ mark \in 0..(MaxDay - Retention) /\ thr \in [Skus -> Thresholds]
  /\ rec.pc \in {"idle", "verify", "drifted", "derive", "write"}
  /\ prune.pc \in {"idle", "checkpoint", "disc", "events", "exits", "entries"}

\* Whatever the retention job deleted, wherever it stopped, and whatever moved
\* meanwhile: the checkpoint and the retained rows still add up to the stock.
LedgerIsComplete == \A s \in Skus : Derived(s, mark) = stock[s]

\* Without an old image, the stored balance is the stock and never negative:
\* the SKU lock serialises read, check and write of concurrent dispatches.
BalanceIsStock == \A s \in Skus : bal[s] = stock[s] /\ stock[s] >= 0

\* Children never outlive the exit they reference, although discrepancies are
\* reported while their exits are being pruned.
NoOrphans == \A i \in disc \cup events : \E m \in Exits : m.id = i

\* Every retained exit has a stockout event exactly when it took the stock
\* across the threshold in force, concurrent threshold changes included, and no
\* event or discrepancy is left without its exit.
StockoutHistory ==
  /\ \A m \in Exits : m.day >= mark => (m.id \in events <=> m.crossed)
  /\ NoOrphans

Shelf == INSTANCE Shelf WITH stock <- bal

\* The balances act as one atomic shelf: a dispatch that checked in one
\* statement and writes in another takes no more than is there at that moment,
\* and repair, retention and their interruptions move nothing.
ActsAsShelf == Shelf!ShelfSpec

\* However the repair passes of a rollover race movements, deaths of the worker
\* and each other, the balances end up equal to the stock and stay so.
Converges == <>[](bal = stock)

\* StockBalance: every write happens in the transaction of the movement that
\* caused it, so with no old image a right balance never becomes a wrong one.
NeverDiverges ==
  [][\A s \in Skus : (~rolling /\ bal[s] = stock[s]) => bal'[s] = stock'[s]]_vars

\* The balances are right, the old image is gone, and no repair is under way
\* that found something or looks at an outdated checkpoint.
Settled ==
  /\ ~rolling /\ bal = stock
  /\ rec.pc \in {"idle", "verify"}
  /\ rec.pc = "verify" => rec.mark = mark /\ prune.pc = "idle"

\* reconcile, prune_once: after a rollover the worker's passes can no longer
\* unsettle balances that have settled, whatever was written before.
SettledStays == [][Settled => Settled']_vars

=============================================================================
