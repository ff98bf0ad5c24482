---------------------------- MODULE LedgerProofs ----------------------------
(***************************************************************************)
(* Proofs about the inventory ledger (StockLedger).                        *)
(*                                                                         *)
(* What a balance is derived from is a sum over the rows of the ledger.    *)
(* The first part carries what RecursionTheorems proves of sums over to    *)
(* it; the second proves that the checkpoint and the retained rows add up  *)
(* to every movement ever made, in every interleaving; the third and the   *)
(* fourth prove, for an installation without an old image whose worker     *)
(* reconciles and prunes one after the other, what the balances and the    *)
(* stockout events say; the fifth that balances which a rollover unsettled *)
(* and the worker repaired stay right; the last that the balances          *)
(* implement the atomic shelf of Shelf.                                    *)
(***************************************************************************)
EXTENDS StockLedger, RecursionTheorems

-----------------------------------------------------------------------------
(* The sum of a set of rows.                                               *)

Sum(S) == MapThenSumSet(Signed, S)

\* Rows whose quantities count.
Rows(S) == IsFiniteSet(S) /\ \A m \in S : Signed(m) \in Int

\* The sum of the rows is the sum of their signed quantities.
LEMMA SumIsSumOver ==
  ASSUME NEW S, IsFiniteSet(S), NEW v, \A m \in S : v[m] = Signed(m)
  PROVE  Sum(S) = SumOver(v, S)
  <1>. DEFINE Folds(f) == f = [T \in SUBSET S |-> IF T = {} THEN 0
                                                  ELSE Signed(Some(T)) + f[T \ {Some(T)}]]
  <1>1. Sum(S) = (CHOOSE f : Folds(f))[S]
    BY DEF Sum, Some, MapThenSumSet, MapThenFoldSet
  <1>2. ASSUME NEW f
        PROVE  Folds(f) <=> AddsUp(v, f, SUBSET S)
    <2>1. \A T \in SUBSET S : T # {} => v[Some(T)] = Signed(Some(T))
      BY DEF Some
    <2>2. \A T \in SUBSET S : Step(v, f, T) = IF T = {} THEN 0 ELSE Signed(Some(T)) + f[T \ {Some(T)}]
      BY <2>1 DEF Step
    <2>. QED  BY <2>2 DEF AddsUp
  <1>. HIDE DEF Folds
  <1>3. PICK f : f = CHOOSE g : Folds(g)
    OBVIOUS
  <1>4. Folds(f)
    <2>1. \E g : Folds(g)
      BY <1>2, SumExists
    <2>. QED  BY <1>3, <2>1
  <1>5. f[S] = SumOver(v, S)
    BY <1>2, <1>4, SumIsUnique
  <1>. QED  BY <1>1, <1>3, <1>5

LEMMA SumOfNone == Sum({}) = 0
  <1>1. PICK v : v = [m \in {} |-> Signed(m)]
    OBVIOUS
  <1>2. IsFiniteSet({})
    BY FS_EmptySet
  <1>3. Sum({}) = SumOver(v, {})
    BY <1>2, SumIsSumOver
  <1>4. SumOver(v, {}) = 0
    BY <1>2, SumSteps
  <1>. QED  BY <1>3, <1>4

LEMMA RowsSumIsInt ==
  ASSUME NEW S, Rows(S)
  PROVE  Sum(S) \in Int
  <1>1. PICK v : v = [m \in S |-> Signed(m)]
    OBVIOUS
  <1>2. Counted(v, S)
    BY <1>1 DEF Counted, Rows
  <1>3. Sum(S) = SumOver(v, S)
    BY <1>1, SumIsSumOver DEF Rows
  <1>. QED  BY <1>2, <1>3, SumIsInt

\* Two sets of rows that have none in common.
LEMMA RowsSumOfUnion ==
  ASSUME NEW A, NEW B, Rows(A), Rows(B), A \cap B = {}
  PROVE  Rows(A \cup B) /\ Sum(A \cup B) = Sum(A) + Sum(B)
  <1>1. PICK v : v = [m \in A \cup B |-> Signed(m)]
    OBVIOUS
  <1>2. Counted(v, A) /\ Counted(v, B)
    BY <1>1 DEF Counted, Rows
  <1>3. Counted(v, A \cup B) /\ SumOver(v, A \cup B) = SumOver(v, A) + SumOver(v, B)
    BY <1>2, SumOfUnion
  <1>4. Rows(A \cup B)
    BY <1>1, <1>3 DEF Counted, Rows
  <1>5. Sum(A) = SumOver(v, A) /\ Sum(B) = SumOver(v, B)
    BY <1>1, SumIsSumOver DEF Rows
  <1>6. Sum(A \cup B) = SumOver(v, A \cup B)
    <2>1. PICK C : C = A \cup B
      OBVIOUS
    <2>2. IsFiniteSet(C) /\ \A m \in C : v[m] = Signed(m)
      BY <1>1, <1>4, <2>1 DEF Rows
    <2>. QED  BY <2>1, <2>2, SumIsSumOver
  <1>. QED  BY <1>3, <1>4, <1>5, <1>6

-----------------------------------------------------------------------------
(* The ledger and what is derived from it.                                 *)

RowOk(m) == /\ m.id \in Nat /\ m.sku \in Skus /\ m.kind \in Kinds /\ m.qty \in Nat
            /\ m.day \in Nat /\ m.day <= today
LedgerOk == /\ IsFiniteSet(ledger) /\ \A m \in ledger : RowOk(m)
            /\ \A m, n \in ledger : m.id = n.id => m = n
AmountsOk == /\ bal \in [Skus -> Int] /\ base \in [Skus -> Int] /\ stock \in [Skus -> Int]
             /\ thr \in [Skus -> Nat]
ClockOk == today \in Nat /\ today <= MaxDay /\ mark \in Nat /\ mark <= today

\* The retention job deletes below a checkpoint that is already written.
Deleting == {"disc", "events", "exits", "entries"}
JobsOk ==
  /\ rec \in [pc: {"idle", "verify", "drifted", "derive", "write"}, mark: Nat, snap: [Skus -> Int]]
  /\ prune \in [pc: {"idle", "checkpoint"} \cup Deleting, cutoff: Int]
  /\ prune.pc # "idle" => prune.cutoff <= today
  /\ prune.pc \in Deleting => prune.cutoff <= mark

TxRow == [pc: {"idle", "open", "disc"}, sku: Skus \cup {NoTx.sku}, kind: Kinds, qty: Nat,
          seen: Int, id: Nat]
TxOk == /\ tx \in [Clients -> TxRow]
        /\ \A c \in Clients : tx[c].pc # "idle" => tx[c].sku \in Skus
        /\ \A c \in Clients : tx[c].pc = "open" => tx[c].kind \in {"dispatch", "loss"}

LedgerInv == LedgerOk /\ AmountsOk /\ ClockOk /\ JobsOk /\ TxOk /\ LedgerIsComplete

\* The rows of a SKU from a day on, up to a day.
Span(s, rows, from, to) == {m \in {n \in rows : n.day >= from /\ n.day < to} : m.sku = s}

LEMMA DeriveIsSum ==
  ASSUME NEW s, NEW from, NEW to
  PROVE  Derive(s, from, to) = base[s] + Sum(Span(s, ledger, from, to))
  BY DEF Derive, Net, Sum, Span

LEMMA RowsOfSet ==
  ASSUME NEW L, IsFiniteSet(L), \A m \in L : m.qty \in Nat
  PROVE  \A S \in SUBSET L : Rows(S) /\ Sum(S) \in Int
  <1>1. ASSUME NEW S \in SUBSET L
        PROVE  Rows(S)
    <2>1. IsFiniteSet(S)
      BY FS_Subset
    <2>2. \A m \in S : Signed(m) \in Int
      BY DEF Signed
    <2>. QED  BY <2>1, <2>2 DEF Rows
  <1>. QED  BY <1>1, RowsSumIsInt

LEMMA RowsOfLedger ==
  ASSUME LedgerOk
  PROVE  \A S \in SUBSET ledger : Rows(S) /\ Sum(S) \in Int
  BY RowsOfSet DEF LedgerOk, RowOk

\* A row that is added counts if it is of the SKU and in the span.
LEMMA SumOfOneMore ==
  ASSUME NEW S, Rows(S), NEW e, e \notin S, Signed(e) \in Int
  PROVE  Rows(S \cup {e}) /\ Sum(S \cup {e}) = Sum(S) + Signed(e)
  <1>1. PICK v : v = [m \in S \cup {e} |-> Signed(m)]
    OBVIOUS
  <1>2. PICK T : T = S \cup {e}
    OBVIOUS
  <1>3. IsFiniteSet(T) /\ T \ {e} = S /\ e \in T
    BY <1>2, FS_AddElement DEF Rows
  <1>4. Counted(v, T) /\ Rows(T) /\ v[e] = Signed(e)
    BY <1>1, <1>2, <1>3 DEF Counted, Rows
  <1>5. SumOver(v, T) = v[e] + SumOver(v, S)
    BY <1>3, <1>4, SumSplits
  <1>6. Sum(T) = SumOver(v, T) /\ Sum(S) = SumOver(v, S)
    BY <1>1, <1>2, <1>3, SumIsSumOver DEF Rows
  <1>7. Sum(S) \in Int
    BY RowsSumIsInt
  <1>. QED  BY <1>2, <1>4, <1>5, <1>6, <1>7

\* A row gets an id that no row has.
LEMMA NextIdIsFresh ==
  ASSUME LedgerOk, Cardinality(ledger) < MaxMoves
  PROVE  NextId \in Nat /\ \A m \in ledger : m.id # NextId
  <1>0. MaxMoves \in Nat
    BY LedgerAssumption
  <1>. DEFINE T == {i \in 1..(MaxMoves + 1) : \A m \in ledger : m.id # i}
              Ids == {m.id : m \in ledger}
  <1>1. T # {}
    <2>1. SUFFICES ASSUME T = {} PROVE FALSE
      OBVIOUS
    <2>2. 1..(MaxMoves + 1) \subseteq Ids
      BY <2>1
    <2>3. PICK f : f = [m \in ledger |-> m.id]
      OBVIOUS
    <2>4. IsFiniteSet(Ids) /\ Cardinality(Ids) <= Cardinality(ledger)
      <3>1. f \in Surjection(ledger, Ids)
        BY <2>3 DEF Surjection
      <3>. QED  BY <3>1, FS_Surjection DEF LedgerOk
    <2>5. Cardinality(1..(MaxMoves + 1)) = MaxMoves + 1
      BY <1>0, FS_Interval
    <2>6. Cardinality(1..(MaxMoves + 1)) <= Cardinality(Ids)
      BY <2>2, <2>4, FS_Subset
    <2>7. Cardinality(ledger) \in Nat /\ Cardinality(Ids) \in Nat
      BY <2>4, FS_CardinalityType DEF LedgerOk
    <2>. QED  BY <1>0, <2>4, <2>5, <2>6, <2>7
  <1>2. PICK x \in T : \A y \in T : x <= y
    <2>1. T \in SUBSET Nat
      BY <1>0
    <2>. QED  BY <1>1, <2>1, LeastNatural
  <1>3. x \in 1..(MaxMoves + 1) /\ \A m \in ledger : m.id # x
    OBVIOUS
  <1>4. \A j \in 1..(x - 1) : \E m \in ledger : m.id = j
    <2>1. ASSUME NEW j \in 1..(x - 1)
          PROVE  \E m \in ledger : m.id = j
      <3>1. j \in 1..(MaxMoves + 1) /\ ~(x <= j)
        BY <1>0, <1>3
      <3>. QED  BY <1>2, <3>1
    <2>. QED  BY <2>1
  <1>5. /\ NextId \in 1..(MaxMoves + 1) /\ \A m \in ledger : m.id # NextId
    BY <1>3, <1>4 DEF NextId
  <1>. QED  BY <1>0, <1>5

\* A movement is written: the stock and what is derived move together.
LEMMA WriteKeeps ==
  ASSUME LedgerOk, AmountsOk, ClockOk, LedgerIsComplete, UNCHANGED <<base, mark, today>>,
         NEW s \in Skus, NEW kind \in Kinds, NEW qty \in Nat, NEW crossed,
         Write(s, kind, qty, crossed)
  PROVE  /\ LedgerOk' /\ LedgerIsComplete' /\ stock' \in [Skus -> Int]
         /\ stock'[s] = stock[s] + (IF kind = "entry" THEN qty ELSE -qty)
         /\ \A t \in Skus : t # s => stock'[t] = stock[t]
  <1>1. PICK e : e = [id |-> NextId, sku |-> s, kind |-> kind, qty |-> qty, day |-> today, crossed |-> crossed]
    OBVIOUS
  <1>2. ledger' = ledger \cup {e} /\ Cardinality(ledger) < MaxMoves
    BY <1>1 DEF Write
  <1>3. e.id = NextId /\ e.sku = s /\ e.kind = kind /\ e.qty = qty /\ e.day = today
    BY <1>1
  <1>4. NextId \in Nat /\ \A m \in ledger : m.id # NextId
    BY <1>2, NextIdIsFresh
  <1>5. e \notin ledger /\ RowOk(e)
    BY <1>3, <1>4 DEF RowOk, ClockOk
  <1>6. LedgerOk'
    <2>1. IsFiniteSet(ledger')
      BY <1>2, FS_AddElement DEF LedgerOk
    <2>2. \A m \in ledger' : RowOk(m)'
      BY <1>2, <1>5 DEF LedgerOk, RowOk
    <2>3. \A m, n \in ledger' : m.id = n.id => m = n
      BY <1>2, <1>3, <1>4 DEF LedgerOk
    <2>. QED  BY <2>1, <2>2, <2>3 DEF LedgerOk
  <1>7. /\ stock' \in [Skus -> Int] /\ stock'[s] = stock[s] + Signed(e) /\ Signed(e) \in Int
        /\ \A t \in Skus : t # s => stock'[t] = stock[t]
    BY <1>3 DEF Write, AmountsOk, Signed
  <1>8. ASSUME NEW t \in Skus
        PROVE  Derived(t, mark)' = stock'[t]
    <2>1. PICK S : S = Span(t, ledger, mark, MaxDay + 1)
      OBVIOUS
    <2>2. Derived(t, mark) = base[t] + Sum(S) /\ Derived(t, mark) = stock[t]
      BY <2>1, DeriveIsSum DEF Derived, LedgerIsComplete
    <2>3. Rows(S) /\ Sum(S) \in Int /\ e \notin S /\ base[t] \in Int
      BY <1>5, <2>1, RowsOfLedger DEF Span, AmountsOk
    <2>4. PICK S2 : S2 = Span(t, ledger', mark, MaxDay + 1)
      OBVIOUS
    <2>5. Derived(t, mark)' = base[t] + Sum(S2)
      BY <2>4 DEF Derived, Derive, Net, Sum, Span
    <2>6. S2 = IF t = s THEN S \cup {e} ELSE S
      <3>1. e.day >= mark /\ e.day < MaxDay + 1
        BY <1>3, LedgerAssumption DEF ClockOk
      <3>. QED  BY <1>2, <1>3, <2>1, <2>4, <3>1 DEF Span
    <2>7. Sum(S2) = Sum(S) + (IF t = s THEN Signed(e) ELSE 0)
      BY <1>7, <2>3, <2>6, SumOfOneMore
    <2>. QED  BY <1>7, <2>2, <2>3, <2>5, <2>7
  <1>. QED  BY <1>3, <1>6, <1>7, <1>8 DEF LedgerIsComplete, Signed

\* The first of some rows, by their ids.
LEMMA OldestIsOne ==
  ASSUME LedgerOk, NEW rows \in SUBSET ledger, rows # {}
  PROVE  Oldest(rows) \in rows
  <1>. DEFINE T == {m.id : m \in rows}
  <1>1. T \in SUBSET Nat /\ T # {}
    BY DEF LedgerOk, RowOk
  <1>2. PICK x \in T : \A y \in T : x <= y
    BY <1>1, LeastNatural
  <1>3. PICK m \in rows : m.id = x
    OBVIOUS
  <1>4. \A n \in rows : m.id <= n.id
    BY <1>2, <1>3
  <1>. QED  BY <1>4 DEF Oldest

\* Steps that leave the rows, the checkpoint and the stock alone.
LEMMA RowsStay ==
  ASSUME LedgerInv, UNCHANGED <<ledger, base, mark, stock>>,
         today' \in Nat, today <= today', today' <= MaxDay, AmountsOk', JobsOk', TxOk'
  PROVE  LedgerInv'
  <1>0. /\ LedgerOk /\ ClockOk /\ LedgerIsComplete /\ today \in Nat
        /\ IsFiniteSet(ledger) /\ \A m \in ledger : RowOk(m)
        /\ \A m, n \in ledger : m.id = n.id => m = n
    BY DEF LedgerInv, ClockOk, LedgerOk
  <1>1. \A m \in ledger : RowOk(m)'
    BY <1>0 DEF RowOk
  <1>2. LedgerOk'
    BY <1>0, <1>1 DEF LedgerOk
  <1>3. ClockOk'
    BY <1>0 DEF ClockOk
  <1>4. LedgerIsComplete'
    BY <1>0 DEF LedgerIsComplete, Derived, Derive, Net
  <1>. QED  BY <1>2, <1>3, <1>4 DEF LedgerInv

\* A transaction begins, or ends without writing a movement.
LEMMA TransactionStep ==
  ASSUME LedgerInv,
         \/ \E s \in Skus, qty \in Quantities, c \in Clients, kind \in Kinds \ {"entry"} :
              OpenOutbound(c, s, kind, qty)
         \/ \E c \in Clients : \/ Rollback(c) \/ CloseDiscrepancy(c)
                               \/ CloseOutbound(c) /\ tx[c].qty > tx[c].seen
         \/ \E c \in Clients, m \in Exits : OpenDiscrepancy(c, m)
         \/ \E s \in Skus, t \in Thresholds : UpdateSku(s, t)
  PROVE  LedgerInv'
  <1>0. /\ LedgerOk /\ AmountsOk /\ ClockOk /\ JobsOk /\ TxOk /\ tx \in [Clients -> TxRow]
        /\ Quantities \subseteq Nat /\ Thresholds \subseteq Nat
    BY LedgerAssumption DEF LedgerInv, TxOk
  <1>1. NoTx \in TxRow /\ NoTx.pc = "idle"
    BY DEF NoTx, TxRow, Kinds
  <1>2. ASSUME NEW c \in Clients, NEW z \in TxRow, tx' = [tx EXCEPT ![c] = z],
               z.pc # "idle" => z.sku \in Skus, z.pc = "open" => z.kind \in {"dispatch", "loss"}
        PROVE  TxOk'
    BY <1>0, <1>2 DEF TxOk
  <1>3. ASSUME UNCHANGED <<ledger, bal, base, mark, thr, stock, rec, prune, today>>, TxOk'
        PROVE  LedgerInv'
    <2>1. AmountsOk' /\ JobsOk'
      BY <1>0, <1>3 DEF AmountsOk, JobsOk
    <2>2. today' \in Nat /\ today <= today' /\ today' <= MaxDay
      BY <1>0, <1>3 DEF ClockOk
    <2>. QED  BY <1>3, <2>1, <2>2, RowsStay
  <1>4. ASSUME NEW s \in Skus, NEW qty \in Quantities, NEW c \in Clients, NEW kind \in Kinds \ {"entry"},
               OpenOutbound(c, s, kind, qty)
        PROVE  LedgerInv'
    <2>1. PICK z : z = [pc |-> "open", sku |-> s, kind |-> kind, qty |-> qty, seen |-> bal[s], id |-> 0]
      OBVIOUS
    <2>2. z \in TxRow /\ z.pc = "open" /\ z.sku = s /\ z.kind = kind
      BY <1>0, <2>1 DEF TxRow, Kinds, AmountsOk
    <2>3. tx' = [tx EXCEPT ![c] = z] /\ kind \in {"dispatch", "loss"}
      BY <1>4, <2>1 DEF OpenOutbound, Kinds
    <2>4. TxOk'
      BY <1>2, <2>2, <2>3
    <2>. QED  BY <1>3, <1>4, <2>4 DEF OpenOutbound, tables, jobs
  <1>5. ASSUME NEW c \in Clients,
               Rollback(c) \/ CloseDiscrepancy(c) \/ (CloseOutbound(c) /\ tx[c].qty > tx[c].seen)
        PROVE  LedgerInv'
    <2>1. tx' = [tx EXCEPT ![c] = NoTx]
      BY <1>5 DEF Rollback, CloseDiscrepancy, CloseOutbound
    <2>2. TxOk'
      BY <1>1, <1>2, <2>1
    <2>3. UNCHANGED <<ledger, bal, base, mark, thr, stock, rec, prune, today>>
      BY <1>5 DEF Rollback, CloseDiscrepancy, CloseOutbound, tables, jobs
    <2>. QED  BY <1>3, <2>2, <2>3
  <1>6. ASSUME NEW c \in Clients, NEW m \in Exits, OpenDiscrepancy(c, m)
        PROVE  LedgerInv'
    <2>1. PICK z : z = [NoTx EXCEPT !.pc = "disc", !.sku = m.sku, !.id = m.id]
      OBVIOUS
    <2>2. m.sku \in Skus /\ m.id \in Nat
      BY <1>0 DEF Exits, LedgerOk, RowOk
    <2>3. z \in TxRow /\ z.pc = "disc" /\ z.sku = m.sku
      BY <1>1, <2>1, <2>2 DEF TxRow, NoTx
    <2>4. TxOk'
      BY <1>2, <1>6, <2>1, <2>2, <2>3 DEF OpenDiscrepancy
    <2>. QED  BY <1>3, <1>6, <2>4 DEF OpenDiscrepancy, tables, jobs
  <1>7. ASSUME NEW s \in Skus, NEW t \in Thresholds, UpdateSku(s, t)
        PROVE  LedgerInv'
    <2>1. thr' \in [Skus -> Nat]
      BY <1>0, <1>7 DEF UpdateSku, AmountsOk
    <2>2. UNCHANGED <<ledger, bal, base, mark, stock, tx, rec, prune, today>>
      BY <1>7 DEF UpdateSku, jobs
    <2>3. AmountsOk' /\ JobsOk' /\ TxOk'
      BY <1>0, <2>1, <2>2 DEF AmountsOk, JobsOk, TxOk
    <2>4. today' \in Nat /\ today <= today' /\ today' <= MaxDay
      BY <1>0, <2>2 DEF ClockOk
    <2>. QED  BY <2>2, <2>3, <2>4, RowsStay
  <1>. QED  BY <1>4, <1>5, <1>6, <1>7

\* A movement is written, with the balance or, by the old image, without.
LEMMA MovementStep ==
  ASSUME LedgerInv,
         \/ \E s \in Skus, qty \in Quantities :
              RecordInbound(s, qty) \/ \E kind \in Kinds : OldImageMove(s, kind, qty)
         \/ \E c \in Clients : CloseOutbound(c) /\ ~(tx[c].qty > tx[c].seen)
         \/ \E qty \in Quantities : BulkSeed(qty)
  PROVE  LedgerInv'
  <1>0. /\ LedgerOk /\ AmountsOk /\ ClockOk /\ JobsOk /\ TxOk /\ LedgerIsComplete
        /\ Quantities \subseteq Nat
    BY LedgerAssumption DEF LedgerInv
  <1>1. ASSUME NEW s \in Skus, NEW delta \in Int, bal' = MovedBy(s, delta)
        PROVE  bal' \in [Skus -> Int]
    BY <1>0, <1>1 DEF MovedBy, AmountsOk
  <1>2. ASSUME NEW s \in Skus, NEW kind \in Kinds, NEW qty \in Nat, NEW crossed,
               Write(s, kind, qty, crossed), UNCHANGED <<base, mark, today, thr, rec, prune>>,
               bal' \in [Skus -> Int], TxOk'
        PROVE  LedgerInv'
    <2>1. LedgerOk' /\ LedgerIsComplete' /\ stock' \in [Skus -> Int]
      BY <1>0, <1>2, WriteKeeps
    <2>2. AmountsOk' /\ ClockOk' /\ JobsOk'
      BY <1>0, <1>2, <2>1 DEF AmountsOk, ClockOk, JobsOk
    <2>. QED  BY <1>2, <2>1, <2>2 DEF LedgerInv
  <1>3. ASSUME UNCHANGED tx PROVE TxOk'
    BY <1>0, <1>3 DEF TxOk
  <1>4. ASSUME NEW s \in Skus, NEW qty \in Quantities, RecordInbound(s, qty)
        PROVE  LedgerInv'
    <2>1. bal' \in [Skus -> Int]
      BY <1>0, <1>1, <1>4 DEF RecordInbound
    <2>. QED  BY <1>0, <1>2, <1>3, <1>4, <2>1 DEF RecordInbound, Kinds, jobs
  <1>5. ASSUME NEW s \in Skus, NEW qty \in Quantities, NEW kind \in Kinds, OldImageMove(s, kind, qty)
        PROVE  LedgerInv'
    <2>1. bal' \in [Skus -> Int]
      BY <1>0, <1>5 DEF OldImageMove, AmountsOk
    <2>. QED  BY <1>0, <1>2, <1>3, <1>5, <2>1 DEF OldImageMove, jobs
  <1>6. ASSUME NEW c \in Clients, CloseOutbound(c), ~(tx[c].qty > tx[c].seen)
        PROVE  LedgerInv'
    <2>1. /\ tx[c] \in TxRow /\ tx[c].pc = "open" /\ tx[c].sku \in Skus /\ tx[c].kind \in Kinds
          /\ tx[c].qty \in Nat
      BY <1>0, <1>6 DEF TxOk, TxRow, CloseOutbound
    <2>2. /\ Write(tx[c].sku, tx[c].kind, tx[c].qty, Falls(tx[c].sku, tx[c].qty))
          /\ bal' = MovedBy(tx[c].sku, -tx[c].qty)
          /\ tx' = [tx EXCEPT ![c] = NoTx] /\ UNCHANGED <<base, mark, today, thr, rec, prune>>
      BY <1>6 DEF CloseOutbound, jobs
    <2>3. bal' \in [Skus -> Int]
      BY <1>1, <2>1, <2>2
    <2>4. NoTx \in TxRow /\ NoTx.pc = "idle"
      BY DEF NoTx, TxRow, Kinds
    <2>5. TxOk'
      BY <1>0, <2>2, <2>4 DEF TxOk
    <2>. QED  BY <1>2, <2>1, <2>2, <2>3, <2>5
  <1>7. ASSUME NEW qty \in Quantities, BulkSeed(qty)
        PROVE  LedgerInv'
    <2>1. PICK s \in Skus : /\ Write(s, "entry", qty, FALSE)
                            /\ bal' = [r \in Skus |-> base[r] + Net(r, {m \in ledger' : m.day >= mark})]
      BY <1>7 DEF BulkSeed
    <2>2. UNCHANGED <<base, mark, today, thr, rec, prune, tx>>
      BY <1>7 DEF BulkSeed
    <2>3. LedgerOk' /\ qty \in Nat /\ "entry" \in Kinds
      <3>1. qty \in Nat /\ "entry" \in Kinds
        BY <1>0 DEF Kinds
      <3>. QED  BY <1>0, <2>1, <2>2, <3>1, WriteKeeps
    <2>4. ASSUME NEW r \in Skus
          PROVE  base[r] + Net(r, {m \in ledger' : m.day >= mark}) \in Int
      <3>1. IsFiniteSet(ledger') /\ \A m \in ledger' : m.qty \in Nat
        BY <2>3 DEF LedgerOk, RowOk
      <3>2. PICK S : S = {m \in {n \in ledger' : n.day >= mark} : m.sku = r}
        OBVIOUS
      <3>3. Sum(S) \in Int
        BY <3>1, <3>2, RowsOfSet
      <3>4. Net(r, {m \in ledger' : m.day >= mark}) = Sum(S)
        BY <3>2 DEF Net, Sum
      <3>. QED  BY <1>0, <3>3, <3>4 DEF AmountsOk
    <2>5. bal' \in [Skus -> Int]
      BY <2>1, <2>4
    <2>. QED  BY <1>2, <1>3, <2>1, <2>2, <2>3, <2>5
  <1>. QED  BY <1>4, <1>5, <1>6, <1>7

\* The reconciler, the end of a job, a day, the swap of the image.
LEMMA ReconcileStep ==
  ASSUME LedgerInv, Reconcile \/ StopJobs \/ NextDay \/ SwapContainers \/ UNCHANGED vars
  PROVE  LedgerInv'
  <1>0. /\ LedgerOk /\ AmountsOk /\ ClockOk /\ JobsOk /\ TxOk /\ today \in Nat /\ today <= MaxDay
        /\ mark \in Nat /\ rec.mark \in Nat /\ rec.snap \in [Skus -> Int] /\ MaxDay \in Nat
    BY LedgerAssumption DEF LedgerInv, ClockOk, JobsOk
  <1>1. TxOk'
    BY <1>0 DEF TxOk, Reconcile, ReadMark, Verify, ReadMarkAgain, TakeSnapshot, WriteBalances, RecKeep,
                StopJobs, NextDay, SwapContainers, vars
  <1>2. UNCHANGED <<ledger, base, mark, thr, stock>>
    BY DEF Reconcile, ReadMark, Verify, ReadMarkAgain, TakeSnapshot, WriteBalances, RecKeep,
           StopJobs, NextDay, SwapContainers, tables, vars
  <1>3. today' \in Nat /\ today <= today' /\ today' <= MaxDay
    BY <1>0 DEF Reconcile, ReadMark, Verify, ReadMarkAgain, TakeSnapshot, WriteBalances, RecKeep,
                StopJobs, NextDay, SwapContainers, jobs, vars
  <1>4. bal' \in [Skus -> Int]
    BY <1>0 DEF Reconcile, ReadMark, Verify, ReadMarkAgain, TakeSnapshot, WriteBalances, RecKeep,
                StopJobs, NextDay, SwapContainers, tables, vars, AmountsOk
  <1>5. AmountsOk'
    BY <1>0, <1>2, <1>4 DEF AmountsOk
  <1>. DEFINE RecRow == [pc: {"idle", "verify", "drifted", "derive", "write"}, mark: Nat, snap: [Skus -> Int]]
  <1>6. rec \in RecRow /\ Rest \in RecRow
    <2>1. [s \in Skus |-> 0] \in [Skus -> Int]
      OBVIOUS
    <2>. QED  BY <1>0, <2>1 DEF JobsOk, Rest
  <1>7. [s \in Skus |-> Derived(s, rec.mark)] \in [Skus -> Int]
    <2>1. ASSUME NEW s \in Skus
          PROVE  Derived(s, rec.mark) \in Int
      <3>1. Span(s, ledger, rec.mark, MaxDay + 1) \in SUBSET ledger
        BY DEF Span
      <3>2. Sum(Span(s, ledger, rec.mark, MaxDay + 1)) \in Int
        BY <1>0, <3>1, RowsOfLedger
      <3>. QED  BY <1>0, <3>2, DeriveIsSum DEF Derived, AmountsOk
    <2>. QED  BY <2>1
  <1>8. rec' \in RecRow
    <2>1. CASE ReadMark \/ ReadMarkAgain
      BY <1>0, <1>6, <2>1 DEF ReadMark, ReadMarkAgain, RecSet
    <2>2. CASE TakeSnapshot
      <3>1. PICK f : f = [s \in Skus |-> Derived(s, rec.mark)]
        OBVIOUS
      <3>. QED  BY <1>0, <1>7, <2>2, <3>1 DEF TakeSnapshot, RecSet
    <2>3. CASE Verify
      BY <1>6, <2>3 DEF Verify
    <2>4. CASE WriteBalances \/ StopJobs \/ NextDay \/ SwapContainers \/ UNCHANGED vars
      BY <1>6, <2>4 DEF WriteBalances, StopJobs, NextDay, SwapContainers, vars, jobs
    <2>. QED  BY <2>1, <2>2, <2>3, <2>4 DEF Reconcile
  <1>9. \/ UNCHANGED prune
        \/ prune' = [pc |-> "idle", cutoff |-> 0]
    BY DEF Reconcile, ReadMark, Verify, ReadMarkAgain, TakeSnapshot, WriteBalances, RecKeep,
           StopJobs, NextDay, SwapContainers, jobs, vars
  <1>10. JobsOk'
    <2>1. /\ prune' \in [pc: {"idle", "checkpoint"} \cup Deleting, cutoff: Int]
          /\ prune'.pc # "idle" => prune'.cutoff <= today'
          /\ prune'.pc \in Deleting => prune'.cutoff <= mark'
      <3>1. CASE UNCHANGED prune
        BY <1>0, <1>2, <1>3, <3>1 DEF JobsOk
      <3>2. CASE prune' = [pc |-> "idle", cutoff |-> 0]
        BY <3>2 DEF Deleting
      <3>. QED  BY <1>9, <3>1, <3>2
    <2>. QED  BY <1>8, <2>1 DEF JobsOk
  <1>. QED  BY <1>1, <1>2, <1>3, <1>5, <1>10, RowsStay

\* The retention job and the reset.
LEMMA PruneStep ==
  ASSUME LedgerInv, Prune \/ Reset
  PROVE  LedgerInv'
  <1>0. /\ LedgerOk /\ AmountsOk /\ ClockOk /\ JobsOk /\ TxOk /\ LedgerIsComplete
        /\ today \in Nat /\ mark \in Nat /\ today <= MaxDay /\ mark <= today /\ MaxDay \in Nat
        /\ Retention \in Nat
    BY LedgerAssumption DEF LedgerInv, ClockOk
  <1>1. ASSUME Prune
        PROVE  UNCHANGED <<thr, stock, bal, tx, rec, today>> /\ TxOk'
    <2>1. UNCHANGED <<thr, stock, bal, tx, rec, today>>
      BY <1>1 DEF Prune, StartPrune, Checkpoint, PruneChildren, PruneRows, PruneKeep
    <2>. QED  BY <1>0, <2>1 DEF TxOk
  <1>. DEFINE PruneRow == [pc: {"idle", "checkpoint"} \cup Deleting, cutoff: Int]
  <1>2. ASSUME Prune, prune' \in PruneRow, prune'.pc # "idle" => prune'.cutoff <= today,
               prune'.pc \in Deleting => prune'.cutoff <= mark'
        PROVE  JobsOk'
    BY <1>0, <1>1, <1>2 DEF JobsOk
  <1>3. /\ prune \in PruneRow /\ prune.cutoff \in Int
        /\ prune.pc # "idle" => prune.cutoff <= today
        /\ prune.pc \in Deleting => prune.cutoff <= mark
    BY <1>0 DEF JobsOk
  <1>4. ASSUME StartPrune
        PROVE  LedgerInv'
    <2>1. PICK x : x = Cutoff(today)
      OBVIOUS
    <2>2. x \in Int /\ x <= today
      BY <1>0, <2>1 DEF Cutoff
    <2>3. prune' = [pc |-> "checkpoint", cutoff |-> x] /\ UNCHANGED <<ledger, base, mark>>
      BY <1>4, <2>1 DEF StartPrune
    <2>4. JobsOk'
      BY <1>2, <1>4, <2>2, <2>3 DEF Prune, Deleting
    <2>. QED  BY <1>0, <1>1, <1>4, <2>3, <2>4, RowsStay DEF Prune, AmountsOk
  <1>5. ASSUME Checkpoint, prune.cutoff <= mark
        PROVE  LedgerInv'
    <2>1. prune' = [prune EXCEPT !.pc = "idle"] /\ UNCHANGED <<ledger, base, mark>>
      BY <1>5 DEF Checkpoint
    <2>2. JobsOk'
      BY <1>2, <1>3, <1>5, <2>1 DEF Prune, Deleting
    <2>. QED  BY <1>0, <1>1, <1>5, <2>1, <2>2, RowsStay DEF Prune, AmountsOk
  <1>6. ASSUME Checkpoint, ~(prune.cutoff <= mark)
        PROVE  LedgerInv'
    <2>1. PICK x : x = prune.cutoff
      OBVIOUS
    <2>2. x \in Int /\ mark < x /\ x <= today /\ x \in Nat /\ prune.pc = "checkpoint"
      BY <1>0, <1>3, <1>6, <2>1 DEF Checkpoint
    <2>3. /\ base' = [s \in Skus |-> Derive(s, mark, x)] /\ mark' = x
          /\ prune' = [prune EXCEPT !.pc = "disc"] /\ UNCHANGED ledger
      BY <1>6, <2>1 DEF Checkpoint, UpTo
    <2>4. JobsOk'
      BY <1>2, <1>3, <1>6, <2>1, <2>2, <2>3 DEF Prune, Deleting
    <2>5. ASSUME NEW s \in Skus
          PROVE  base'[s] \in Int /\ Derived(s, mark)' = stock'[s]
      <3>1. PICK A : A = Span(s, ledger, mark, x)
        OBVIOUS
      <3>2. PICK B : B = Span(s, ledger, x, MaxDay + 1)
        OBVIOUS
      <3>3. A \in SUBSET ledger /\ B \in SUBSET ledger
        BY <3>1, <3>2 DEF Span
      <3>4. \A m \in ledger : m.day \in Nat
        BY <1>0 DEF LedgerOk, RowOk
      <3>5. A \cap B = {} /\ A \cup B = Span(s, ledger, mark, MaxDay + 1)
        BY <1>0, <2>2, <3>1, <3>2, <3>4 DEF Span
      <3>6. Rows(A) /\ Rows(B) /\ Sum(A) \in Int /\ Sum(B) \in Int
        BY <1>0, <3>3, RowsOfLedger
      <3>7. Sum(A \cup B) = Sum(A) + Sum(B)
        BY <3>5, <3>6, RowsSumOfUnion
      <3>8. base[s] + Sum(A \cup B) = stock[s]
        BY <1>0, <3>5, DeriveIsSum DEF LedgerIsComplete, Derived
      <3>9. base'[s] = base[s] + Sum(A)
        BY <2>3, <3>1, DeriveIsSum
      <3>10. Derived(s, mark)' = base'[s] + Sum(B)
        BY <2>3, <3>2 DEF Derived, Derive, Net, Sum, Span
      <3>11. base[s] \in Int /\ stock'[s] = stock[s]
        BY <1>0, <1>1, <1>6 DEF AmountsOk, Prune
      <3>. QED  BY <3>6, <3>7, <3>8, <3>9, <3>10, <3>11
    <2>6. base' \in [Skus -> Int]
      BY <2>3, <2>5
    <2>7. AmountsOk' /\ LedgerOk' /\ ClockOk'
      BY <1>0, <1>1, <1>6, <2>2, <2>3, <2>6 DEF Prune, AmountsOk, LedgerOk, RowOk, ClockOk
    <2>. QED  BY <1>1, <1>6, <2>4, <2>5, <2>7 DEF LedgerInv, LedgerIsComplete, Prune
  <1>7. ASSUME PruneChildren
        PROVE  LedgerInv'
    <2>1. /\ prune.pc \in Deleting /\ UNCHANGED <<ledger, base, mark>>
          /\ UNCHANGED prune \/ \E pc \in Deleting : prune' = [prune EXCEPT !.pc = pc]
      BY <1>7 DEF PruneChildren, Deleting
    <2>2. JobsOk'
      BY <1>2, <1>3, <1>7, <2>1 DEF Prune, Deleting
    <2>. QED  BY <1>0, <1>1, <1>7, <2>1, <2>2, RowsStay DEF Prune, AmountsOk
  <1>8. ASSUME PruneRows
        PROVE  LedgerInv'
    <2>1. /\ prune.pc \in Deleting /\ UNCHANGED <<base, mark>>
          /\ \/ UNCHANGED prune
             \/ \E pc \in {"idle", "entries"} : prune' = [prune EXCEPT !.pc = pc]
      BY <1>8 DEF PruneRows, Deleting
    <2>2. JobsOk'
      BY <1>2, <1>3, <1>8, <2>1 DEF Prune, Deleting
    <2>3. UNCHANGED ledger \/ \E m \in Old : ledger' = ledger \ {m}
      <3>1. OldExits \in SUBSET Old /\ Old \in SUBSET ledger
        BY DEF Old, OldExits
      <3>2. \A rows \in SUBSET Old : rows # {} => Oldest(rows) \in Old
        BY <1>0, <3>1, OldestIsOne
      <3>3. \/ UNCHANGED ledger
            \/ OldExits # {} /\ ledger' = ledger \ {Oldest(OldExits)}
            \/ Old \ OldExits # {} /\ ledger' = ledger \ {Oldest(Old \ OldExits)}
        BY <1>8 DEF PruneRows
      <3>. QED  BY <3>1, <3>2, <3>3
    <2>4. CASE UNCHANGED ledger
      BY <1>0, <1>1, <1>8, <2>1, <2>2, <2>4, RowsStay DEF Prune, AmountsOk
    <2>5. ASSUME NEW m \in Old, ledger' = ledger \ {m}
          PROVE  LedgerInv'
      <3>1. m.day < mark /\ \A n \in ledger : n.day \in Nat
        BY <1>0, <1>3, <2>1 DEF Old, LedgerOk, RowOk
      <3>2. \A s \in Skus : Span(s, ledger', mark, MaxDay + 1) = Span(s, ledger, mark, MaxDay + 1)
        BY <1>0, <2>5, <3>1 DEF Span
      <3>3. ASSUME NEW s \in Skus
            PROVE  Derived(s, mark)' = stock'[s]
        <4>1. PICK S : S = Span(s, ledger, mark, MaxDay + 1)
          OBVIOUS
        <4>2. base[s] + Sum(S) = stock[s]
          BY <1>0, <4>1, DeriveIsSum DEF LedgerIsComplete, Derived
        <4>3. S = Span(s, ledger', mark, MaxDay + 1)
          BY <3>2, <4>1
        <4>4. Derived(s, mark)' = base[s] + Sum(S)
          BY <2>1, <4>3 DEF Derived, Derive, Net, Sum, Span
        <4>. QED  BY <1>1, <1>8, <4>2, <4>4 DEF Prune
      <3>4. IsFiniteSet(ledger')
        BY <1>0, <2>5, FS_RemoveElement DEF LedgerOk, Old
      <3>5. LedgerOk'
        BY <1>0, <1>1, <1>8, <2>5, <3>4 DEF Prune, LedgerOk, RowOk
      <3>6. AmountsOk' /\ ClockOk'
        BY <1>0, <1>1, <1>8, <2>1 DEF Prune, AmountsOk, ClockOk
      <3>. QED  BY <1>1, <1>8, <2>2, <3>3, <3>5, <3>6 DEF LedgerInv, LedgerIsComplete, Prune
    <2>. QED  BY <2>3, <2>4, <2>5
  <1>9. ASSUME Reset
        PROVE  LedgerInv'
    <2>1. /\ ledger' = {} /\ bal' = [s \in Skus |-> 0] /\ base' = [s \in Skus |-> 0] /\ mark' = 0
          /\ stock' = [s \in Skus |-> 0] /\ UNCHANGED <<thr, tx, rec, prune, today>> /\ prune.pc = "idle"
      BY <1>9 DEF Reset, Checkpoints
    <2>2. TxOk' /\ ClockOk' /\ JobsOk'
      BY <1>0, <2>1 DEF TxOk, ClockOk, JobsOk, Deleting
    <2>3. bal' \in [Skus -> Int] /\ base' \in [Skus -> Int] /\ stock' \in [Skus -> Int]
      BY <2>1
    <2>4. AmountsOk' /\ LedgerOk'
      BY <1>0, <2>1, <2>3, FS_EmptySet DEF AmountsOk, LedgerOk
    <2>5. ASSUME NEW s \in Skus
          PROVE  Derived(s, mark)' = stock'[s]
      <3>1. Span(s, ledger', mark', MaxDay + 1) = {}
        BY <2>1 DEF Span
      <3>2. Sum({}) = 0
        BY SumOfNone
      <3>3. Derived(s, mark)' = base'[s] + Sum({})
        BY <3>1 DEF Derived, Derive, Net, Sum, Span
      <3>. QED  BY <2>1, <3>2, <3>3
    <2>. QED  BY <2>2, <2>4, <2>5 DEF LedgerInv, LedgerIsComplete
  <1>. QED  BY <1>4, <1>5, <1>6, <1>7, <1>8, <1>9 DEF Prune

LEMMA LedgerStep ==
  ASSUME LedgerInv, [Next]_vars
  PROVE  LedgerInv'
  <1>1. CASE UNCHANGED vars
    BY <1>1, ReconcileStep
  <1>2. CASE Movement
    BY <1>2, TransactionStep, MovementStep DEF Movement
  <1>3. CASE Reconcile \/ StopJobs \/ NextDay \/ SwapContainers
    BY <1>3, ReconcileStep
  <1>4. CASE Prune \/ Reset
    BY <1>4, PruneStep
  <1>5. CASE \E qty \in Quantities : BulkSeed(qty)
    BY <1>5, MovementStep
  <1>. QED  BY <1>1, <1>2, <1>3, <1>4, <1>5 DEF Next

LEMMA LedgerBegins ==
  ASSUME Init
  PROVE  LedgerInv
  <1>1. /\ ledger = {} /\ bal = [s \in Skus |-> 0] /\ base = [s \in Skus |-> 0] /\ mark = 0
        /\ thr = [s \in Skus |-> 0] /\ stock = [s \in Skus |-> 0] /\ today = 1
        /\ tx = [c \in Clients |-> NoTx] /\ rec = Rest /\ prune = [pc |-> "idle", cutoff |-> 0]
    BY DEF Init
  <1>2. LedgerOk /\ AmountsOk /\ ClockOk
    BY <1>1, FS_EmptySet, LedgerAssumption DEF LedgerOk, AmountsOk, ClockOk
  <1>3. TxOk
    <2>1. NoTx \in TxRow /\ NoTx.pc = "idle"
      BY DEF NoTx, TxRow, Kinds
    <2>. QED  BY <1>1, <2>1 DEF TxOk
  <1>4. JobsOk
    <2>1. [s \in Skus |-> 0] \in [Skus -> Int]
      OBVIOUS
    <2>2. rec \in [pc: {"idle", "verify", "drifted", "derive", "write"}, mark: Nat, snap: [Skus -> Int]]
      BY <1>1, <2>1 DEF Rest
    <2>. QED  BY <1>1, <2>2 DEF JobsOk, Deleting
  <1>5. ASSUME NEW s \in Skus
        PROVE  Derived(s, mark) = stock[s]
    <2>1. Span(s, ledger, mark, MaxDay + 1) = {}
      BY <1>1 DEF Span
    <2>2. Sum({}) = 0
      BY SumOfNone
    <2>. QED  BY <1>1, <2>1, <2>2, DeriveIsSum DEF Derived
  <1>. QED  BY <1>2, <1>3, <1>4, <1>5 DEF LedgerInv, LedgerIsComplete

LEMMA LedgerInvariance ==
  Spec => []LedgerInv
  <1>1. Init => LedgerInv
    BY LedgerBegins
  <1>2. LedgerInv /\ [Next]_vars => LedgerInv'
    BY LedgerStep
  <1>. QED  BY <1>1, <1>2, PTL DEF Spec

\* The balances after a bulk write are those derived from what it wrote.
LEMMA SeededIsStock ==
  ASSUME LedgerInv, LedgerInv', NEW qty \in Quantities, BulkSeed(qty)
  PROVE  bal' = stock'
  <1>1. /\ bal' = [r \in Skus |-> base[r] + Net(r, {m \in ledger' : m.day >= mark})]
        /\ UNCHANGED <<base, mark>>
    BY DEF BulkSeed
  <1>2. \A m \in ledger' : m.day \in Nat /\ m.day < MaxDay + 1
    <2>1. \A m \in ledger' : m.day \in Nat /\ m.day <= today'
      BY DEF LedgerInv, LedgerOk, RowOk
    <2>2. today' \in Nat /\ today' <= MaxDay /\ MaxDay \in Nat
      BY LedgerAssumption DEF LedgerInv, ClockOk
    <2>. QED  BY <2>1, <2>2
  <1>3. ASSUME NEW r \in Skus
        PROVE  bal'[r] = stock'[r]
    <2>1. {m \in ledger' : m.day >= mark} = {m \in ledger' : m.day >= mark' /\ m.day < MaxDay + 1}
      BY <1>1, <1>2
    <2>2. Derived(r, mark)' = base'[r] + Net(r, {m \in ledger' : m.day >= mark' /\ m.day < MaxDay + 1})
      BY DEF Derived, Derive, Net
    <2>3. Derived(r, mark)' = stock'[r]
      BY DEF LedgerInv, LedgerIsComplete
    <2>. QED  BY <1>1, <2>1, <2>2, <2>3
  <1>4. stock' \in [Skus -> Int] /\ bal' \in [Skus -> Int]
    BY DEF LedgerInv, AmountsOk
  <1>. QED  BY <1>3, <1>4

\* The checkpoint and the rows that are left add up to every movement ever made
\* (write_ledger_checkpoint, prune_once, the reset and the bulk seed included),
\* with an old image or without, with the reconciler run by hand or not.
THEOREM LedgerIsCompleteHolds ==
  Spec => []LedgerIsComplete
  <1>1. LedgerInv => LedgerIsComplete
    BY DEF LedgerInv
  <1>. QED  BY <1>1, LedgerInvariance, PTL

-----------------------------------------------------------------------------
(* Without an old image, and with the reconciler and the retention job run   *)
(* one after the other by the maintenance worker alone.                      *)

Steady == StartRolling = FALSE /\ ByHand = FALSE

\* The lock holders of a SKU know its balance, and they are one.
HoldersOk ==
  /\ \A c \in Clients : tx[c].pc = "open" => tx[c].seen = bal[tx[c].sku]
  /\ \A c, d \in Clients : tx[c].pc = "open" /\ tx[d].pc = "open" /\ tx[c].sku = tx[d].sku => c = d

\* The reconciler finds nothing to repair, and never runs beside the retention job.
NothingToRepair ==
  /\ rec.pc \in {"idle", "verify"}
  /\ rec.pc = "verify" => rec.mark = mark /\ prune.pc = "idle"

SteadyInv == Steady /\ LedgerInv /\ rolling = FALSE /\ BalanceIsStock /\ HoldersOk /\ NothingToRepair

\* A movement that moves the balance by what it moves the stock.
LEMMA SteadyMovement ==
  ASSUME SteadyInv, NEW s \in Skus, NEW delta \in Int,
         bal' = MovedBy(s, delta), stock' = [stock EXCEPT ![s] = @ + delta], stock[s] + delta >= 0
  PROVE  BalanceIsStock' /\ \A r \in Skus : r # s => bal'[r] = bal[r]
  <1>1. bal \in [Skus -> Int] /\ stock \in [Skus -> Int] /\ BalanceIsStock
    BY DEF SteadyInv, LedgerInv, AmountsOk
  <1>. QED  BY <1>1 DEF BalanceIsStock, MovedBy

LEMMA SteadyStep ==
  ASSUME SteadyInv, [Next]_vars
  PROVE  SteadyInv'
  <1>0. /\ LedgerInv /\ LedgerOk /\ AmountsOk /\ ClockOk /\ JobsOk /\ TxOk /\ LedgerIsComplete
        /\ BalanceIsStock /\ HoldersOk /\ NothingToRepair /\ rolling = FALSE /\ ByHand = FALSE
        /\ bal \in [Skus -> Int] /\ stock \in [Skus -> Int] /\ tx \in [Clients -> TxRow]
        /\ Quantities \subseteq Nat /\ Steady
    BY LedgerAssumption DEF SteadyInv, LedgerInv, AmountsOk, TxOk, Steady
  <1>1. LedgerInv' /\ Steady'
    BY <1>0, LedgerStep DEF Steady
  <1>2. NoTx.pc = "idle" /\ NoTx \in TxRow
    BY DEF NoTx, TxRow, Kinds
  <1>3. ASSUME UNCHANGED <<bal, stock, mark, rec, prune, rolling>>, HoldersOk'
        PROVE  SteadyInv'
    <2>1. BalanceIsStock' /\ NothingToRepair'
      BY <1>0, <1>3 DEF BalanceIsStock, NothingToRepair
    <2>. QED  BY <1>0, <1>1, <1>3, <2>1 DEF SteadyInv
  <1>4. ASSUME NEW c \in Clients, tx' = [tx EXCEPT ![c] = NoTx], UNCHANGED bal
        PROVE  HoldersOk'
    BY <1>0, <1>2, <1>4 DEF HoldersOk
  <1>5. ASSUME NEW c \in Clients, NEW z \in TxRow, tx' = [tx EXCEPT ![c] = z], z.pc = "disc", UNCHANGED bal
        PROVE  HoldersOk'
    BY <1>0, <1>5 DEF HoldersOk
  <1>6. ASSUME NEW s \in Skus, NEW qty \in Quantities, RecordInbound(s, qty)
        PROVE  SteadyInv'
    <2>1. /\ bal' = MovedBy(s, qty) /\ stock' = [stock EXCEPT ![s] = @ + qty] /\ ~Locked(s)
          /\ UNCHANGED <<mark, tx, rec, prune, rolling>>
      BY <1>6 DEF RecordInbound, Write, jobs
    <2>2. BalanceIsStock' /\ \A r \in Skus : r # s => bal'[r] = bal[r]
      <3>1. qty \in Int /\ stock[s] + qty >= 0
        BY <1>0 DEF BalanceIsStock
      <3>. QED  BY <2>1, <3>1, SteadyMovement
    <2>3. HoldersOk'
      BY <1>0, <2>1, <2>2 DEF HoldersOk, Locked, TxOk
    <2>. QED  BY <1>0, <1>1, <2>1, <2>2, <2>3 DEF SteadyInv, NothingToRepair
  <1>7. ASSUME NEW s \in Skus, NEW qty \in Quantities, NEW c \in Clients, NEW kind \in Kinds \ {"entry"},
               OpenOutbound(c, s, kind, qty)
        PROVE  SteadyInv'
    <2>1. PICK z : z = [pc |-> "open", sku |-> s, kind |-> kind, qty |-> qty, seen |-> bal[s], id |-> 0]
      OBVIOUS
    <2>2. z.pc = "open" /\ z.sku = s /\ z.seen = bal[s]
      BY <2>1
    <2>3. tx' = [tx EXCEPT ![c] = z] /\ ~Locked(s) /\ UNCHANGED <<bal, stock, mark, rec, prune, rolling>>
      BY <1>7, <2>1 DEF OpenOutbound, tables, jobs
    <2>4. HoldersOk'
      BY <1>0, <2>2, <2>3 DEF HoldersOk, Locked
    <2>. QED  BY <1>3, <2>3, <2>4
  <1>8. ASSUME NEW c \in Clients,
               Rollback(c) \/ CloseDiscrepancy(c) \/ (CloseOutbound(c) /\ tx[c].qty > tx[c].seen)
        PROVE  SteadyInv'
    <2>1. tx' = [tx EXCEPT ![c] = NoTx] /\ UNCHANGED <<bal, stock, mark, rec, prune, rolling>>
      BY <1>8 DEF Rollback, CloseDiscrepancy, CloseOutbound, tables, jobs
    <2>. QED  BY <1>3, <1>4, <2>1
  <1>9. ASSUME NEW c \in Clients, CloseOutbound(c), ~(tx[c].qty > tx[c].seen)
        PROVE  SteadyInv'
    <2>1. PICK s, qty, kind, seen : s = tx[c].sku /\ qty = tx[c].qty /\ kind = tx[c].kind /\ seen = tx[c].seen
      OBVIOUS
    <2>2. /\ s \in Skus /\ qty \in Nat /\ kind # "entry" /\ tx[c].pc = "open" /\ seen = bal[s]
      BY <1>0, <1>9, <2>1 DEF TxOk, TxRow, CloseOutbound, HoldersOk
    <2>3. /\ bal' = MovedBy(s, -qty) /\ stock' = [stock EXCEPT ![s] = @ + (-qty)]
          /\ tx' = [tx EXCEPT ![c] = NoTx] /\ UNCHANGED <<mark, rec, prune, rolling>>
      BY <1>9, <2>1, <2>2 DEF CloseOutbound, Write, jobs
    <2>4. -qty \in Int /\ stock[s] + (-qty) >= 0
      <3>1. bal[s] \in Int /\ stock[s] = bal[s] /\ ~(qty > bal[s])
        BY <1>0, <1>9, <2>1, <2>2 DEF BalanceIsStock
      <3>. QED  BY <2>2, <3>1
    <2>5. BalanceIsStock' /\ \A r \in Skus : r # s => bal'[r] = bal[r]
      BY <2>2, <2>3, <2>4, SteadyMovement
    <2>6. HoldersOk'
      <3>1. \A d \in Clients : tx'[d].pc = "open" => d # c /\ tx'[d] = tx[d] /\ tx[d].sku \in Skus /\ tx[d].sku # s
        BY <1>0, <1>2, <2>1, <2>2, <2>3 DEF HoldersOk, TxOk
      <3>. QED  BY <1>0, <2>5, <3>1 DEF HoldersOk
    <2>. QED  BY <1>0, <1>1, <2>3, <2>5, <2>6 DEF SteadyInv, NothingToRepair
  <1>10. ASSUME NEW c \in Clients, NEW m \in Exits, OpenDiscrepancy(c, m)
         PROVE  SteadyInv'
    <2>1. PICK z : z = [NoTx EXCEPT !.pc = "disc", !.sku = m.sku, !.id = m.id]
      OBVIOUS
    <2>2. m.sku \in Skus /\ m.id \in Nat
      BY <1>0 DEF Exits, LedgerOk, RowOk
    <2>3. z \in TxRow /\ z.pc = "disc"
      BY <1>2, <2>1, <2>2 DEF TxRow, NoTx
    <2>4. tx' = [tx EXCEPT ![c] = z] /\ UNCHANGED <<bal, stock, mark, rec, prune, rolling>>
      BY <1>10, <2>1 DEF OpenDiscrepancy, tables, jobs
    <2>. QED  BY <1>3, <1>5, <2>3, <2>4
  <1>11. ASSUME \/ \E s \in Skus, t \in Thresholds : UpdateSku(s, t)
                \/ NextDay
                \/ UNCHANGED vars
         PROVE  SteadyInv'
    <2>1. UNCHANGED <<bal, stock, tx, mark, rec, prune, rolling>>
      BY <1>11 DEF UpdateSku, NextDay, tables, jobs, vars
    <2>2. HoldersOk'
      BY <1>0, <2>1 DEF HoldersOk
    <2>. QED  BY <1>3, <2>1, <2>2
  <1>12. ASSUME Reconcile
         PROVE  SteadyInv'
    <2>1. Drifted(mark) = {}
      BY <1>0 DEF Drifted, BalanceIsStock, LedgerIsComplete
    <2>2. UNCHANGED <<bal, stock, tx, mark, prune, rolling>>
      BY <1>0, <1>12 DEF Reconcile, ReadMark, Verify, ReadMarkAgain, TakeSnapshot, WriteBalances, RecKeep,
                         tables, NothingToRepair
    <2>3. rec'.pc \in {"idle", "verify"} /\ (rec'.pc = "verify" => rec'.mark = mark /\ prune.pc = "idle")
      <3>1. CASE ReadMark
        BY <1>0, <3>1 DEF ReadMark, RecSet
      <3>2. CASE Verify
        <4>1. rec' = Rest
          BY <1>0, <2>1, <3>2 DEF Verify, NothingToRepair
        <4>. QED  BY <4>1 DEF Rest
      <3>3. CASE ReadMarkAgain \/ TakeSnapshot \/ WriteBalances
        BY <1>0, <3>3 DEF ReadMarkAgain, TakeSnapshot, WriteBalances, NothingToRepair
      <3>. QED  BY <1>12, <3>1, <3>2, <3>3 DEF Reconcile
    <2>4. BalanceIsStock' /\ HoldersOk' /\ NothingToRepair'
      BY <1>0, <2>2, <2>3 DEF BalanceIsStock, HoldersOk, NothingToRepair
    <2>. QED  BY <1>0, <1>1, <2>2, <2>4 DEF SteadyInv
  <1>13. ASSUME Prune \/ StopJobs
         PROVE  SteadyInv'
    <2>1. UNCHANGED <<bal, stock, tx, rolling>>
      BY <1>13 DEF Prune, StartPrune, Checkpoint, PruneChildren, PruneRows, PruneKeep, StopJobs, tables
    <2>2. rec'.pc = "idle"
      <3>1. CASE StartPrune
        BY <1>0, <3>1 DEF StartPrune, PruneKeep
      <3>2. CASE Checkpoint \/ PruneChildren \/ PruneRows
        BY <1>0, <3>2 DEF Checkpoint, PruneChildren, PruneRows, PruneKeep, NothingToRepair
      <3>3. CASE StopJobs
        BY <3>3 DEF StopJobs, Rest
      <3>. QED  BY <1>13, <3>1, <3>2, <3>3 DEF Prune
    <2>3. BalanceIsStock' /\ HoldersOk' /\ NothingToRepair'
      BY <1>0, <2>1, <2>2 DEF BalanceIsStock, HoldersOk, NothingToRepair
    <2>. QED  BY <1>0, <1>1, <2>1, <2>3 DEF SteadyInv
  <1>14. ASSUME Reset
         PROVE  SteadyInv'
    <2>1. /\ bal' = [s \in Skus |-> 0] /\ stock' = [s \in Skus |-> 0]
          /\ \A c \in Clients : tx[c].pc = "idle"
          /\ rec.pc = "idle" /\ UNCHANGED <<tx, rec, rolling>>
      BY <1>14 DEF Reset
    <2>2. BalanceIsStock'
      BY <2>1 DEF BalanceIsStock
    <2>3. HoldersOk' /\ NothingToRepair'
      BY <2>1 DEF HoldersOk, NothingToRepair
    <2>. QED  BY <1>0, <1>1, <2>1, <2>2, <2>3 DEF SteadyInv
  <1>15. ASSUME NEW qty \in Quantities, BulkSeed(qty)
         PROVE  SteadyInv'
    <2>1. PICK s \in Skus : /\ Write(s, "entry", qty, FALSE)
                            /\ bal' = [r \in Skus |-> base[r] + Net(r, {m \in ledger' : m.day >= mark})]
      BY <1>15 DEF BulkSeed
    <2>2. (\A r \in Skus : ~Locked(r)) /\ UNCHANGED <<base, mark, tx, rec, prune, rolling>>
      BY <1>15 DEF BulkSeed
    <2>3. bal' = stock'
      BY <1>0, <1>1, <1>15, SeededIsStock
    <2>4. ASSUME NEW r \in Skus
          PROVE  stock'[r] >= 0
      <3>1. stock[r] \in Int /\ stock[r] >= 0 /\ qty \in Nat /\ stock' = [stock EXCEPT ![s] = @ + qty]
        BY <1>0, <2>1 DEF BalanceIsStock, Write
      <3>. QED  BY <1>0, <3>1
    <2>5. HoldersOk' /\ NothingToRepair'
      BY <1>0, <2>2 DEF HoldersOk, NothingToRepair, Locked, TxOk
    <2>. QED  BY <1>0, <1>1, <2>2, <2>3, <2>4, <2>5 DEF SteadyInv, BalanceIsStock
  <1>16. ~(\E s \in Skus, qty \in Quantities, kind \in Kinds : OldImageMove(s, kind, qty)) /\ ~SwapContainers
    BY <1>0 DEF OldImageMove, SwapContainers
  <1>17. CASE Movement
    BY <1>6, <1>7, <1>8, <1>9, <1>10, <1>11, <1>16, <1>17 DEF Movement
  <1>. QED  BY <1>11, <1>12, <1>13, <1>14, <1>15, <1>16, <1>17 DEF Next

LEMMA SteadyBegins ==
  ASSUME Steady, Init
  PROVE  SteadyInv
  <1>1. LedgerInv
    BY LedgerBegins
  <1>2. BalanceIsStock /\ rolling = FALSE
    BY DEF Init, BalanceIsStock, Steady
  <1>3. HoldersOk /\ NothingToRepair
    BY DEF Init, HoldersOk, NothingToRepair, NoTx, Rest
  <1>. QED  BY <1>1, <1>2, <1>3 DEF SteadyInv

LEMMA SteadyInvariance ==
  Steady /\ Spec => []SteadyInv
  <1>1. Steady /\ Init => SteadyInv
    BY SteadyBegins
  <1>2. SteadyInv /\ [Next]_vars => SteadyInv'
    BY SteadyStep
  <1>. QED  BY <1>1, <1>2, PTL DEF Spec

\* When every image keeps balances and only the maintenance worker reconciles
\* and prunes, the stored balance of every SKU is the stock on the shelf and is
\* never negative: record_outbound reads, checks and writes under the SKU lock.
THEOREM BalanceIsStockHolds ==
  Steady /\ Spec => []BalanceIsStock
  <1>1. SteadyInv => BalanceIsStock
    BY DEF SteadyInv
  <1>. QED  BY <1>1, SteadyInvariance, PTL

-----------------------------------------------------------------------------
(* The stockout events of the exits that are retained.                       *)

HistoryInv == SteadyInv /\ StockoutHistory

\* A movement is written, with its event or without.
LEMMA HistoryOfWrite ==
  ASSUME LedgerOk, StockoutHistory, NEW s, NEW kind, NEW qty, NEW crossed, NEW raised \in BOOLEAN,
         Write(s, kind, qty, crossed), UNCHANGED <<mark, disc>>,
         events' = IF raised THEN events \cup {NextId} ELSE events,
         IF kind = "entry" THEN ~raised ELSE raised <=> crossed
  PROVE  StockoutHistory'
  <1>1. PICK e : e = [id |-> NextId, sku |-> s, kind |-> kind, qty |-> qty, day |-> today, crossed |-> crossed]
    OBVIOUS
  <1>2. ledger' = ledger \cup {e} /\ \A m \in ledger : m.id # NextId
    BY <1>1, NextIdIsFresh DEF Write
  <1>3. e.id = NextId /\ e.kind = kind /\ (e.crossed <=> crossed)
    BY <1>1
  <1>4. NextId \notin disc \cup events
    BY <1>2 DEF StockoutHistory, NoOrphans, Exits
  <1>5. Exits' = IF kind = "entry" THEN Exits ELSE Exits \cup {e}
    BY <1>2, <1>3 DEF Exits
  <1>6. ASSUME NEW m \in Exits', m.day >= mark'
        PROVE  m.id \in events' <=> m.crossed
    <2>1. CASE m = e
      <3>1. kind # "entry"
        BY <1>3, <2>1 DEF Exits
      <3>. QED  BY <1>3, <1>4, <2>1, <3>1
    <2>2. CASE m \in Exits
      <3>1. m.id # NextId /\ (m.id \in events <=> m.crossed)
        BY <1>2, <1>6, <2>2 DEF StockoutHistory, Exits
      <3>. QED  BY <3>1
    <2>. QED  BY <1>5, <2>1, <2>2
  <1>7. ASSUME NEW i \in (disc \cup events)'
        PROVE  \E m \in Exits' : m.id = i
    <2>1. CASE i \in disc \cup events
      BY <1>5, <2>1 DEF StockoutHistory, NoOrphans
    <2>2. CASE i \notin disc \cup events
      <3>1. raised /\ i = NextId
        BY <2>2
      <3>. QED  BY <1>3, <1>5, <3>1
    <2>. QED  BY <2>1, <2>2
  <1>. QED  BY <1>6, <1>7 DEF StockoutHistory, NoOrphans

\* The event is raised exactly when the stock falls to the threshold.
LEMMA CrossesAsItFalls ==
  ASSUME SteadyInv, NEW s \in Skus, NEW qty \in Nat
  PROVE  Crosses(bal[s], qty, thr[s]) <=> Falls(s, qty)
  <1>1. bal[s] = stock[s] /\ stock[s] \in Int /\ thr[s] \in Nat
    BY DEF SteadyInv, BalanceIsStock, LedgerInv, AmountsOk
  <1>2. PICK b, t : b = bal[s] /\ t = thr[s] /\ b \in Int /\ t \in Nat
    BY <1>1
  <1>. QED  BY <1>1, <1>2 DEF Crosses, Falls

LEMMA HistoryStep ==
  ASSUME HistoryInv, [Next]_vars
  PROVE  HistoryInv'
  <1>0. /\ SteadyInv /\ StockoutHistory /\ NoOrphans /\ LedgerOk /\ LedgerInv /\ ClockOk /\ JobsOk /\ TxOk
        /\ HoldersOk /\ rolling = FALSE /\ mark \in Nat /\ today \in Nat
        /\ Quantities \subseteq Nat /\ \A m, n \in ledger : m.id = n.id => m = n
        /\ \A m \in ledger : m.id \in Nat /\ m.day \in Nat
    BY LedgerAssumption DEF HistoryInv, SteadyInv, LedgerInv, StockoutHistory, ClockOk, LedgerOk, RowOk
  <1>1. SteadyInv'
    BY <1>0, SteadyStep
  <1>2. ASSUME UNCHANGED <<ledger, events, disc, mark>>
        PROVE  StockoutHistory'
    BY <1>0, <1>2 DEF StockoutHistory, NoOrphans, Exits
  <1>3. ASSUME \/ \E s \in Skus, t \in Thresholds : UpdateSku(s, t)
               \/ \E s \in Skus, qty \in Quantities, c \in Clients, kind \in Kinds \ {"entry"} :
                    OpenOutbound(c, s, kind, qty)
               \/ \E c \in Clients : Rollback(c) \/ (CloseOutbound(c) /\ tx[c].qty > tx[c].seen)
               \/ \E c \in Clients, m \in Exits : OpenDiscrepancy(c, m)
               \/ Reconcile \/ StopJobs \/ NextDay \/ SwapContainers \/ UNCHANGED vars
               \/ StartPrune
        PROVE  StockoutHistory'
    <2>1. UNCHANGED <<ledger, events, disc, mark>>
      BY <1>3 DEF UpdateSku, OpenOutbound, Rollback, CloseOutbound, OpenDiscrepancy, Reconcile, ReadMark,
                  Verify, ReadMarkAgain, TakeSnapshot, WriteBalances, RecKeep, StopJobs, NextDay,
                  SwapContainers, StartPrune, vars, tables
    <2>. QED  BY <1>2, <2>1
  <1>4. ASSUME NEW s \in Skus, NEW qty \in Quantities, RecordInbound(s, qty)
        PROVE  StockoutHistory'
    <2>1. /\ Write(s, "entry", qty, FALSE) /\ UNCHANGED <<mark, disc>>
          /\ events' = IF FALSE THEN events \cup {NextId} ELSE events
      BY <1>4 DEF RecordInbound
    <2>. QED  BY <1>0, <2>1, HistoryOfWrite
  <1>5. ASSUME NEW qty \in Quantities, BulkSeed(qty)
        PROVE  StockoutHistory'
    <2>1. PICK s \in Skus : Write(s, "entry", qty, FALSE)
      BY <1>5 DEF BulkSeed
    <2>2. UNCHANGED <<mark, disc>> /\ events' = IF FALSE THEN events \cup {NextId} ELSE events
      BY <1>5 DEF BulkSeed
    <2>. QED  BY <1>0, <2>1, <2>2, HistoryOfWrite
  <1>6. ASSUME NEW c \in Clients, CloseOutbound(c), ~(tx[c].qty > tx[c].seen)
        PROVE  StockoutHistory'
    <2>1. PICK s, qty, kind : s = tx[c].sku /\ qty = tx[c].qty /\ kind = tx[c].kind
      OBVIOUS
    <2>2. s \in Skus /\ qty \in Nat /\ kind # "entry" /\ tx[c].seen = bal[s]
      BY <1>0, <1>6, <2>1 DEF TxOk, TxRow, CloseOutbound, HoldersOk
    <2>3. PICK raised \in BOOLEAN : raised <=> Crosses(bal[s], qty, thr[s])
      OBVIOUS
    <2>4. /\ Write(s, kind, qty, Falls(s, qty)) /\ UNCHANGED <<mark, disc>>
          /\ events' = IF raised THEN events \cup {NextId} ELSE events
      BY <1>6, <2>1, <2>2, <2>3 DEF CloseOutbound
    <2>5. raised <=> Falls(s, qty)
      BY <1>0, <2>2, <2>3, CrossesAsItFalls
    <2>. QED  BY <1>0, <2>2, <2>4, <2>5, HistoryOfWrite
  <1>7. ASSUME NEW c \in Clients, CloseDiscrepancy(c)
        PROVE  StockoutHistory'
    BY <1>0, <1>7 DEF CloseDiscrepancy, StockoutHistory, NoOrphans, Exits
  <1>8. ASSUME Checkpoint
        PROVE  StockoutHistory'
    <2>1. UNCHANGED <<ledger, events, disc>> /\ (UNCHANGED mark \/ (mark' = prune.cutoff /\ ~(prune.cutoff <= mark)))
      BY <1>8 DEF Checkpoint
    <2>2. prune.cutoff \in Int
      BY <1>0 DEF JobsOk
    <2>3. \A m \in ledger : m.day >= mark' => m.day >= mark
      BY <1>0, <2>1, <2>2
    <2>. QED  BY <1>0, <2>1, <2>3 DEF StockoutHistory, NoOrphans, Exits
  <1>9. prune.pc \in Deleting => \A m \in Old : m.day < mark
    BY <1>0 DEF JobsOk, Old
  <1>10. ASSUME PruneChildren
         PROVE  StockoutHistory'
    <2>1. UNCHANGED <<ledger, mark>> /\ prune.pc \in Deleting /\ events' \subseteq events /\ disc' \subseteq disc
      BY <1>10 DEF PruneChildren, Deleting
    <2>2. UNCHANGED events \/ \E m \in Old : events' = events \ {m.id}
      <3>1. PICK due : due = {m \in OldExits : m.id \in events}
        OBVIOUS
      <3>2. due \in SUBSET Old /\ due \in SUBSET ledger
        BY <3>1 DEF Old, OldExits
      <3>3. UNCHANGED events \/ (due # {} /\ events' = events \ {Oldest(due).id})
        BY <1>10, <3>1 DEF PruneChildren
      <3>4. due # {} => Oldest(due) \in Old
        BY <1>0, <3>2, OldestIsOne
      <3>. QED  BY <3>3, <3>4
    <2>3. ASSUME NEW m \in Exits, m.day >= mark
          PROVE  m.id \in events' <=> m.id \in events
      <3>1. ASSUME NEW n \in Old PROVE n.id # m.id
        BY <1>0, <1>9, <2>1, <2>3 DEF Exits, Old
      <3>. QED  BY <2>2, <3>1
    <2>4. \A i \in (disc \cup events)' : \E m \in Exits' : m.id = i
      BY <1>0, <2>1 DEF NoOrphans, Exits
    <2>. QED  BY <1>0, <2>1, <2>3, <2>4 DEF StockoutHistory, NoOrphans, Exits
  <1>11. ASSUME PruneRows
         PROVE  StockoutHistory'
    <2>1. UNCHANGED <<events, disc, mark>>
      BY <1>11 DEF PruneRows
    <2>2. \/ UNCHANGED ledger
          \/ \E m \in ledger : ledger' = ledger \ {m} /\ (m \notin Exits \/ ~Referenced(m))
      <3>1. OldExits \in SUBSET ledger /\ Old \ OldExits \in SUBSET ledger /\ (Old \ OldExits) \cap Exits = {}
        BY DEF Old, OldExits, Exits
      <3>2. \A rows \in SUBSET ledger : rows # {} => Oldest(rows) \in rows
        BY <1>0, OldestIsOne
      <3>3. \/ UNCHANGED ledger
            \/ OldExits # {} /\ ledger' = ledger \ {Oldest(OldExits)} /\ ~Referenced(Oldest(OldExits))
            \/ Old \ OldExits # {} /\ ledger' = ledger \ {Oldest(Old \ OldExits)}
        BY <1>11 DEF PruneRows
      <3>. QED  BY <3>1, <3>2, <3>3
    <2>3. CASE UNCHANGED ledger
      BY <1>2, <2>1, <2>3
    <2>4. ASSUME NEW m \in ledger, ledger' = ledger \ {m}, m \notin Exits \/ ~Referenced(m)
          PROVE  StockoutHistory'
      <3>1. Exits' = Exits \ {m}
        BY <2>4 DEF Exits
      <3>2. ASSUME NEW i \in disc \cup events
            PROVE  \E n \in Exits' : n.id = i
        <4>1. PICK n \in Exits : n.id = i
          BY <1>0 DEF NoOrphans
        <4>2. n # m
          BY <2>4, <4>1 DEF Referenced
        <4>. QED  BY <3>1, <4>1, <4>2
      <3>. QED  BY <1>0, <2>1, <3>1, <3>2 DEF StockoutHistory, NoOrphans
    <2>. QED  BY <2>2, <2>3, <2>4
  <1>12. ASSUME Reset
         PROVE  StockoutHistory'
    BY <1>12 DEF Reset, StockoutHistory, NoOrphans, Exits
  <1>13. \A s \in Skus, qty \in Quantities, kind \in Kinds : ~OldImageMove(s, kind, qty)
    BY <1>0 DEF OldImageMove
  <1>14. ASSUME Movement
         PROVE  StockoutHistory'
    BY <1>3, <1>4, <1>6, <1>7, <1>13, <1>14 DEF Movement
  <1>15. StockoutHistory'
    BY <1>3, <1>5, <1>8, <1>10, <1>11, <1>12, <1>14 DEF Next, Prune
  <1>. QED  BY <1>1, <1>15 DEF HistoryInv

\* Under the same conditions every retained exit has a stockout event exactly
\* when it took the stock across the threshold in force, and no event and no
\* discrepancy outlives its exit: the event is decided under the SKU lock, a new
\* id is no one else's, and the retention job deletes children before parents.
THEOREM StockoutHistoryHolds ==
  Steady /\ Spec => []StockoutHistory
  <1>1. Steady /\ Init => HistoryInv
    <2>1. SUFFICES ASSUME Steady, Init PROVE HistoryInv
      OBVIOUS
    <2>2. StockoutHistory
      BY <2>1 DEF Init, StockoutHistory, NoOrphans, Exits
    <2>3. SteadyInv
      BY <2>1, SteadyBegins
    <2>. QED  BY <2>2, <2>3 DEF HistoryInv
  <1>2. HistoryInv /\ [Next]_vars => HistoryInv'
    BY HistoryStep
  <1>3. HistoryInv => StockoutHistory
    BY DEF HistoryInv
  <1>. QED  BY <1>1, <1>2, <1>3, PTL DEF Spec

-----------------------------------------------------------------------------
(* Balances that have settled.                                              *)

LEMMA SettledStep ==
  ASSUME ByHand = FALSE, LedgerInv, LedgerInv', [Next]_vars, Settled
  PROVE  Settled'
  <1>0. /\ bal \in [Skus -> Int] /\ stock \in [Skus -> Int] /\ bal = stock /\ ~rolling
        /\ rec.pc \in {"idle", "verify"} /\ (rec.pc = "verify" => rec.mark = mark /\ prune.pc = "idle")
    BY DEF LedgerInv, AmountsOk, Settled
  <1>1. ASSUME bal' = stock', UNCHANGED <<mark, rec, prune, rolling>>
        PROVE  Settled'
    BY <1>0, <1>1 DEF Settled
  <1>2. ASSUME NEW s \in Skus, NEW qty \in Quantities, RecordInbound(s, qty)
        PROVE  Settled'
    <2>1. bal' = [bal EXCEPT ![s] = @ + qty] /\ stock' = [stock EXCEPT ![s] = @ + qty]
      BY <1>2 DEF RecordInbound, Write, MovedBy
    <2>. QED  BY <1>0, <1>1, <1>2, <2>1 DEF RecordInbound, jobs
  <1>3. ASSUME NEW c \in Clients, CloseOutbound(c)
        PROVE  Settled'
    <2>1. PICK s, qty, kind : s = tx[c].sku /\ qty = tx[c].qty /\ kind = tx[c].kind
      OBVIOUS
    <2>2. UNCHANGED <<mark, rec, prune, rolling>> /\ kind # "entry"
      BY <1>3, <2>1 DEF CloseOutbound, jobs
    <2>3. UNCHANGED <<bal, stock>> \/ (bal' = MovedBy(s, -qty) /\ stock' = [stock EXCEPT ![s] = @ + (-qty)])
      BY <1>3, <2>1, <2>2 DEF CloseOutbound, Write
    <2>4. bal' = stock'
      BY <1>0, <2>3 DEF MovedBy
    <2>. QED  BY <1>1, <2>2, <2>4
  <1>4. ASSUME \/ \E s \in Skus, qty \in Quantities, c \in Clients, kind \in Kinds \ {"entry"} :
                    OpenOutbound(c, s, kind, qty)
               \/ \E c \in Clients : Rollback(c) \/ CloseDiscrepancy(c)
               \/ \E c \in Clients, m \in Exits : OpenDiscrepancy(c, m)
               \/ \E s \in Skus, t \in Thresholds : UpdateSku(s, t)
               \/ NextDay \/ UNCHANGED vars
        PROVE  Settled'
    <2>1. UNCHANGED <<bal, stock, mark, rec, prune, rolling>>
      BY <1>4 DEF OpenOutbound, Rollback, CloseDiscrepancy, OpenDiscrepancy, UpdateSku, NextDay,
                  tables, jobs, vars
    <2>. QED  BY <1>0, <1>1, <2>1
  <1>5. ASSUME NEW qty \in Quantities, BulkSeed(qty)
        PROVE  Settled'
    BY <1>1, <1>5, SeededIsStock DEF BulkSeed
  <1>6. CASE Reset
    BY <1>0, <1>6 DEF Reset, Settled
  <1>7. CASE Reconcile
    <2>1. Drifted(mark) = {}
      BY <1>0 DEF Drifted, LedgerInv, LedgerIsComplete
    <2>2. CASE ReadMark
      BY <1>0, <2>2 DEF ReadMark, RecSet, RecKeep, tables, Settled
    <2>3. CASE Verify
      <3>1. rec' = Rest /\ UNCHANGED <<bal, stock, mark, prune, rolling>>
        BY <1>0, <2>1, <2>3 DEF Verify, RecKeep, tables
      <3>. QED  BY <1>0, <3>1 DEF Rest, Settled
    <2>4. ~ReadMarkAgain /\ ~TakeSnapshot /\ ~WriteBalances
      BY <1>0 DEF ReadMarkAgain, TakeSnapshot, WriteBalances
    <2>. QED  BY <1>7, <2>2, <2>3, <2>4 DEF Reconcile
  <1>8. CASE Prune
    <2>1. UNCHANGED <<bal, stock, rec, rolling>>
      BY <1>8 DEF Prune, StartPrune, Checkpoint, PruneChildren, PruneRows, PruneKeep
    <2>2. rec.pc = "idle"
      <3>1. StartPrune => rec.pc = "idle"
        BY DEF StartPrune
      <3>2. Checkpoint \/ PruneChildren \/ PruneRows => prune.pc # "idle"
        BY DEF Checkpoint, PruneChildren, PruneRows
      <3>. QED  BY <1>0, <1>8, <3>1, <3>2 DEF Prune
    <2>. QED  BY <1>0, <2>1, <2>2 DEF Settled
  <1>9. CASE StopJobs
    BY <1>0, <1>9 DEF StopJobs, Rest, tables, Settled
  <1>10. ~SwapContainers /\ \A s \in Skus, qty \in Quantities, kind \in Kinds : ~OldImageMove(s, kind, qty)
    BY <1>0 DEF SwapContainers, OldImageMove
  <1>11. CASE Movement
    BY <1>2, <1>3, <1>4, <1>10, <1>11 DEF Movement
  <1>. QED  BY <1>4, <1>5, <1>6, <1>7, <1>8, <1>9, <1>10, <1>11 DEF Next

\* The worker repairs what a rollover left behind, and what it has repaired
\* stays right: no later pass, checkpoint, reset or movement unsettles it.  It
\* takes a reconciler that is not also run by hand, for any history before.
THEOREM SettledStaysHolds == ByHand = FALSE /\ Spec => SettledStays
  <1>. DEFINE Inv == LedgerInv /\ ByHand = FALSE
  <1>1. ByHand = FALSE /\ Init => Inv
    BY LedgerBegins
  <1>2. Inv /\ [Next]_vars => Inv'
    BY LedgerStep
  <1>3. Inv /\ Inv' /\ [Next]_vars => [Settled => Settled']_vars
    BY SettledStep
  <1>. QED  BY <1>1, <1>2, <1>3, PTL DEF Spec, SettledStays

-----------------------------------------------------------------------------
(* StockLedger implements Shelf: a movement is one abstract step, when its  *)
(* transaction commits; a refusal, a rollback, a repair and every batch of  *)
(* the retention job are stutters.                                          *)

ShelfInv == SteadyInv /\ \A c \in Clients : tx[c].pc = "open" => tx[c].qty \in Quantities

LEMMA ShelfInvStep ==
  ASSUME ShelfInv, [Next]_vars
  PROVE  ShelfInv'
  <1>0. SteadyInv /\ TxOk /\ tx \in [Clients -> TxRow] /\ NoTx.pc = "idle"
        /\ \A c \in Clients : tx[c].pc = "open" => tx[c].qty \in Quantities
    BY DEF ShelfInv, SteadyInv, LedgerInv, TxOk, NoTx
  <1>1. \/ UNCHANGED tx
        \/ \E z : \E c \in Clients : tx' = [tx EXCEPT ![c] = z] /\ (z.pc = "open" => z.qty \in Quantities)
    <2>1. ASSUME NEW s \in Skus, NEW qty \in Quantities, NEW c \in Clients, NEW kind \in Kinds \ {"entry"},
                 OpenOutbound(c, s, kind, qty)
          PROVE  \E z : tx' = [tx EXCEPT ![c] = z] /\ (z.pc = "open" => z.qty \in Quantities)
      <3>1. PICK z : z = [pc |-> "open", sku |-> s, kind |-> kind, qty |-> qty, seen |-> bal[s], id |-> 0]
        OBVIOUS
      <3>2. z.qty \in Quantities
        BY <3>1
      <3>3. tx' = [tx EXCEPT ![c] = z]
        BY <2>1, <3>1 DEF OpenOutbound
      <3>. QED  BY <3>2, <3>3
    <2>2. ASSUME NEW c \in Clients, CloseOutbound(c) \/ Rollback(c) \/ CloseDiscrepancy(c)
          PROVE  tx' = [tx EXCEPT ![c] = NoTx]
      BY <2>2 DEF CloseOutbound, Rollback, CloseDiscrepancy
    <2>3. ASSUME NEW c \in Clients, NEW m \in Exits, OpenDiscrepancy(c, m)
          PROVE  \E z : tx' = [tx EXCEPT ![c] = z] /\ z.pc # "open"
      <3>1. PICK z : z = [NoTx EXCEPT !.pc = "disc", !.sku = m.sku, !.id = m.id]
        OBVIOUS
      <3>2. z.pc = "disc"
        BY <3>1 DEF NoTx
      <3>. QED  BY <2>3, <3>1, <3>2 DEF OpenDiscrepancy
    <2>4. ASSUME NEW s \in Skus, NEW qty \in Quantities, NEW kind \in Kinds,
                 RecordInbound(s, qty) \/ OldImageMove(s, kind, qty)
          PROVE  UNCHANGED tx
      BY <2>4 DEF RecordInbound, OldImageMove
    <2>5. ASSUME NEW s \in Skus, NEW t \in Thresholds, UpdateSku(s, t)
          PROVE  UNCHANGED tx
      BY <2>5 DEF UpdateSku
    <2>6. CASE Movement
      <3>1. "entry" \in Kinds
        BY DEF Kinds
      <3>. QED  BY <1>0, <2>1, <2>2, <2>3, <2>4, <2>5, <2>6, <3>1 DEF Movement
    <2>7. CASE Reconcile
      BY <2>7 DEF Reconcile, ReadMark, Verify, ReadMarkAgain, TakeSnapshot, WriteBalances, RecKeep
    <2>8. CASE Prune
      BY <2>8 DEF Prune, StartPrune, Checkpoint, PruneChildren, PruneRows, PruneKeep
    <2>9. CASE StopJobs \/ NextDay \/ SwapContainers \/ Reset \/ UNCHANGED vars
      BY <2>9 DEF StopJobs, NextDay, SwapContainers, Reset, vars
    <2>10. ASSUME NEW qty \in Quantities, BulkSeed(qty)
           PROVE  UNCHANGED tx
      BY <2>10 DEF BulkSeed
    <2>. QED  BY <2>6, <2>7, <2>8, <2>9, <2>10 DEF Next
  <1>2. \A c \in Clients : tx'[c].pc = "open" => tx'[c].qty \in Quantities
    BY <1>0, <1>1
  <1>. QED  BY <1>0, <1>2, SteadyStep DEF ShelfInv

\* A movement that the stock records and the balance follows is a delivery.
LEMMA ReceiveRefines ==
  ASSUME SteadyInv, SteadyInv', NEW s \in Skus, NEW qty, stock' = [stock EXCEPT ![s] = @ + qty]
  PROVE  Shelf!Receive(s, qty)
  <1>1. /\ bal \in [Skus -> Int] /\ stock \in [Skus -> Int] /\ bal' \in [Skus -> Int]
        /\ \A r \in Skus : bal[r] = stock[r] /\ bal'[r] = stock'[r]
    BY DEF SteadyInv, LedgerInv, AmountsOk, BalanceIsStock
  <1>. QED  BY <1>1 DEF Shelf!Receive

LEMMA ShelfStep ==
  ASSUME ShelfInv, [Next]_vars
  PROVE  [Shelf!ShelfNext]_bal
  <1>0. /\ SteadyInv /\ TxOk /\ tx \in [Clients -> TxRow] /\ BalanceIsStock /\ HoldersOk /\ NothingToRepair
        /\ bal \in [Skus -> Int] /\ stock \in [Skus -> Int] /\ rolling = FALSE /\ Quantities \subseteq Nat
        /\ \A c \in Clients : tx[c].pc = "open" => tx[c].qty \in Quantities
    BY LedgerAssumption DEF ShelfInv, SteadyInv, LedgerInv, AmountsOk, TxOk
  <1>1. SteadyInv'
    BY <1>0, SteadyStep
  <1>2. ASSUME NEW s \in Skus, NEW qty \in Quantities, RecordInbound(s, qty)
        PROVE  Shelf!ShelfNext
    <2>1. stock' = [stock EXCEPT ![s] = @ + qty]
      BY <1>2 DEF RecordInbound, Write
    <2>. QED  BY <1>0, <1>1, <2>1, ReceiveRefines DEF Shelf!ShelfNext
  <1>3. ASSUME NEW qty \in Quantities, BulkSeed(qty)
        PROVE  Shelf!ShelfNext
    <2>1. PICK s \in Skus : Write(s, "entry", qty, FALSE)
      BY <1>3 DEF BulkSeed
    <2>2. stock' = [stock EXCEPT ![s] = @ + qty]
      BY <2>1 DEF Write
    <2>. QED  BY <1>0, <1>1, <2>2, ReceiveRefines DEF Shelf!ShelfNext
  <1>4. ASSUME NEW c \in Clients, CloseOutbound(c)
        PROVE  [Shelf!ShelfNext]_bal
    <2>1. PICK s, qty, seen : s = tx[c].sku /\ qty = tx[c].qty /\ seen = tx[c].seen
      OBVIOUS
    <2>2. s \in Skus /\ qty \in Quantities /\ qty \in Nat /\ seen = bal[s] /\ seen \in Int
      BY <1>0, <1>4, <2>1 DEF CloseOutbound, TxOk, HoldersOk
    <2>3. CASE qty > seen
      BY <1>4, <2>1, <2>3 DEF CloseOutbound
    <2>4. CASE ~(qty > seen)
      <3>1. bal' = MovedBy(s, -qty)
        BY <1>4, <2>1, <2>4 DEF CloseOutbound
      <3>2. bal' = [bal EXCEPT ![s] = @ - qty]
        BY <1>0, <2>2, <3>1 DEF MovedBy
      <3>3. qty <= bal[s]
        BY <2>2, <2>4
      <3>. QED  BY <2>2, <3>2, <3>3 DEF Shelf!Take, Shelf!ShelfNext
    <2>. QED  BY <2>3, <2>4
  <1>5. CASE Reset
    BY <1>5 DEF Reset, Shelf!Clear, Shelf!ShelfNext
  <1>6. CASE Reconcile
    BY <1>0, <1>6 DEF Reconcile, ReadMark, Verify, ReadMarkAgain, TakeSnapshot, WriteBalances, RecKeep,
                      tables, NothingToRepair
  <1>7. CASE Prune \/ StopJobs \/ NextDay \/ SwapContainers \/ UNCHANGED vars
    BY <1>7 DEF Prune, StartPrune, Checkpoint, PruneChildren, PruneRows, PruneKeep, StopJobs, NextDay,
                SwapContainers, tables, vars
  <1>8. ASSUME \/ \E s \in Skus, qty \in Quantities, c \in Clients, kind \in Kinds \ {"entry"} :
                    OpenOutbound(c, s, kind, qty)
               \/ \E c \in Clients : Rollback(c) \/ CloseDiscrepancy(c)
               \/ \E c \in Clients, m \in Exits : OpenDiscrepancy(c, m)
               \/ \E s \in Skus, t \in Thresholds : UpdateSku(s, t)
        PROVE  UNCHANGED bal
    BY <1>8 DEF OpenOutbound, Rollback, CloseDiscrepancy, OpenDiscrepancy, UpdateSku, tables
  <1>9. \A s \in Skus, qty \in Quantities, kind \in Kinds : ~OldImageMove(s, kind, qty)
    BY <1>0 DEF OldImageMove
  <1>10. CASE Movement
    BY <1>2, <1>4, <1>8, <1>9, <1>10 DEF Movement
  <1>. QED  BY <1>3, <1>5, <1>6, <1>7, <1>10 DEF Next

\* The balances of an installation without an old image, whose worker does not
\* reconcile and prune at once, implement the atomic shelf of Shelf: concurrent
\* clients, repair, checkpoints, retention, reset and reseeding show nowhere.
THEOREM LedgerImplementsShelf == Steady /\ Spec => ActsAsShelf
  <1>1. Steady /\ Init => ShelfInv
    <2>1. Steady /\ Init => SteadyInv
      BY SteadyBegins
    <2>. QED  BY <2>1 DEF Init, NoTx, ShelfInv
  <1>2. ShelfInv /\ [Next]_vars => ShelfInv'
    BY ShelfInvStep
  <1>3. ShelfInv /\ [Next]_vars => [Shelf!ShelfNext]_bal
    BY ShelfStep
  <1>4. Init => Shelf!ShelfInit
    BY DEF Init, Shelf!ShelfInit
  <1>. QED  BY <1>1, <1>2, <1>3, <1>4, PTL DEF Spec, ActsAsShelf, Shelf!ShelfSpec
=============================================================================
