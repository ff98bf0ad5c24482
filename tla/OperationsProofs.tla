-------------------------- MODULE OperationsProofs --------------------------
(* The operations feed, the rollout, the knowledge base and the public       *)
(* limits, proved for any number of feeds, guards, images, blocks, indexers, *)
(* requests and any limits.                                                  *)
EXTENDS MCOperations, FiniteSetTheorems, RecursionTheorems, TLAPS

-----------------------------------------------------------------------------
(* The feed and the size guard.                                              *)

FeedPcs  == {"off", "starting", "backfill", "loop", "flag", "go", "tick"}
GuardPcs == {"idle", "measured", "pause", "consume", "checkpoint", "rebuild", "reread", "enable"}
Notes    == {"owner", "approved", "guard", "consumed", "complete"}
FeedRow    == [pc: FeedPcs, stray: 0..2, late: 0..2]
ControlRow == [enabled: BOOLEAN, note: Notes]
GuardRow   == [pc: GuardPcs, hard: BOOLEAN, read: ControlRow]
LedgerRow  == [histories: 0..2, live: BOOLEAN]
PastRow    == [approvals: Nat, resets: Nat, overlap: BOOLEAN]

FeedTypes ==
  /\ leader \in Feeds \cup {"none"} /\ feed \in [Feeds -> FeedRow]
  /\ control \in ControlRow /\ guard \in [Guards -> GuardRow]
  /\ ledger \in LedgerRow /\ past \in PastRow

\* The holder of the lock never strayed, and a feed that checked it has not
\* strayed since; no tick is late while the switch is on, or before the first
\* one that began after its flag was read.
FeedOk(x, holds, enabled) ==
  /\ x.stray <= 1 /\ x.late <= 1
  /\ holds \/ x.pc \in {"flag", "go"} => x.stray = 0
  /\ enabled \/ x.pc = "go" => x.late = 0

FeedsOk == \A f \in Feeds : FeedOk(feed[f], leader = f, control.enabled)

\* Every reset done, every guard about to do one, and the approval in the row
\* that a guard may still take, is an approval of the owner's.
Claimed == {g \in Guards : guard[g].pc = "checkpoint"}
Offered == IF control.note = "approved" THEN 1 ELSE 0
Covered == past.resets + Cardinality(Claimed) + Offered <= past.approvals

\* Without an overlap, one process rebuilds at a time, and from nothing.
Fills(f)   == feed[f].pc = "backfill"
Refills(g) == guard[g].pc = "rebuild"
Single ==
  ~past.overlap =>
    /\ ledger.histories <= 1
    /\ \A f \in Feeds : Fills(f) => ledger.histories = 0
    /\ \A g \in Guards : Refills(g) => ledger.histories = 0
    /\ \A f, o \in Feeds : Fills(f) /\ Fills(o) => f = o
    /\ \A g, o \in Guards : Refills(g) /\ Refills(o) => g = o
    /\ \A f \in Feeds, g \in Guards : ~(Fills(f) /\ Refills(g))

FeedInv == FeedTypes /\ FeedsOk /\ Covered /\ Single

\* One feed changes.
LEMMA FeedEdit ==
  ASSUME FeedTypes, NEW f \in Feeds, NEW y \in FeedRow, feed' = [feed EXCEPT ![f] = y]
  PROVE  /\ feed' \in [Feeds -> FeedRow] /\ feed'[f] = y
         /\ \A o \in Feeds \ {f} : feed'[o] = feed[o]
  BY DEF FeedTypes

\* One guard changes.
LEMMA GuardEdit ==
  ASSUME FeedTypes, NEW g \in Guards, NEW y \in GuardRow, guard' = [guard EXCEPT ![g] = y]
  PROVE  /\ guard' \in [Guards -> GuardRow] /\ guard'[g] = y
         /\ \A o \in Guards \ {g} : guard'[o] = guard[o]
  BY DEF FeedTypes

\* What the steps of a feed do to its row.
LEMMA FeedAt ==
  ASSUME FeedTypes, NEW f \in Feeds, NEW pc \in FeedPcs, F!At(f, pc)
  PROVE  \E y \in FeedRow : /\ feed' = [feed EXCEPT ![f] = y] /\ y.pc = pc
                            /\ y.stray = feed[f].stray /\ y.late = feed[f].late
  <1>. DEFINE x == feed[f]
              y == [x EXCEPT !.pc = pc]
  <1>1. x \in FeedRow /\ feed' = [feed EXCEPT ![f] = y]
    BY DEF FeedTypes, F!At
  <1>2. y \in FeedRow /\ y.pc = pc /\ y.stray = x.stray /\ y.late = x.late
    BY <1>1 DEF FeedRow
  <1>. QED  BY <1>1, <1>2

LEMMA FeedBegins ==
  ASSUME FeedTypes, NEW f \in Feeds, NEW pc \in {"backfill", "tick"}, F!Begins(f, pc),
         feed[f].stray <= 1, feed[f].late <= 1
  PROVE  \E y \in FeedRow :
           /\ feed' = [feed EXCEPT ![f] = y] /\ y.pc = pc
           /\ y.stray = IF leader = f THEN 0 ELSE feed[f].stray + 1
           /\ y.late = IF pc # "tick" \/ control.enabled THEN feed[f].late ELSE feed[f].late + 1
  <1>. DEFINE x == feed[f]
              s == IF leader = f THEN 0 ELSE F!Few(x.stray + 1)
              l == IF pc # "tick" \/ control.enabled THEN x.late ELSE F!Few(x.late + 1)
              y == [x EXCEPT !.pc = pc, !.stray = s, !.late = l]
  <1>1. x \in FeedRow /\ feed' = [feed EXCEPT ![f] = y]
    BY DEF FeedTypes, F!Begins
  <1>2. /\ s \in 0..2 /\ l \in 0..2 /\ s = (IF leader = f THEN 0 ELSE x.stray + 1)
        /\ l = (IF pc # "tick" \/ control.enabled THEN x.late ELSE x.late + 1)
    BY <1>1 DEF F!Few, FeedRow
  <1>. HIDE DEF s, l
  <1>3. y \in FeedRow /\ y.pc = pc /\ y.stray = s /\ y.late = l
    BY <1>1, <1>2 DEF FeedRow, FeedPcs
  <1>. HIDE DEF y
  <1>. QED  BY <1>1, <1>2, <1>3

\* What the steps of a guard do to its row.
LEMMA GuardGoes ==
  ASSUME FeedTypes, NEW g \in Guards, NEW pc \in GuardPcs, F!Guarded(g, pc)
  PROVE  \E y \in GuardRow : guard' = [guard EXCEPT ![g] = y] /\ y.pc = pc
  <1>. DEFINE y == [F!NoGuard EXCEPT !.pc = pc]
  <1>1. y \in GuardRow /\ y.pc = pc
    BY DEF F!NoGuard, F!Row0, GuardRow, ControlRow, Notes, GuardPcs
  <1>. QED  BY <1>1 DEF F!Guarded

\* set_feed_enabled, and the owner: a new row; when it switches the feed on, the
\* count of late ticks starts again.
LEMMA RowWritten ==
  ASSUME FeedTypes, FeedsOk, NEW new \in ControlRow, F!Controlled(new), UNCHANGED leader
  PROVE  /\ control' = new /\ feed' \in [Feeds -> FeedRow] /\ FeedsOk'
         /\ \A f \in Feeds : feed'[f].pc = feed[f].pc
  <1>1. ASSUME NEW f \in Feeds
        PROVE  /\ feed'[f] \in FeedRow /\ feed'[f].pc = feed[f].pc
               /\ FeedOk(feed'[f], leader' = f, control'.enabled)
    <2>. DEFINE x == feed[f]
                y == [x EXCEPT !.late = 0]
    <2>0. x \in FeedRow /\ FeedOk(x, leader = f, control.enabled)
      BY DEF FeedTypes, FeedsOk
    <2>1. CASE new.enabled /\ ~control.enabled
      <3>1. feed'[f] = y
        BY <2>1 DEF F!Controlled
      <3>2. y \in FeedRow /\ y.pc = x.pc /\ y.stray = x.stray /\ y.late = 0
        BY <2>0 DEF FeedRow
      <3>. HIDE DEF y
      <3>. QED  BY <2>0, <3>1, <3>2 DEF FeedOk
    <2>2. CASE ~(new.enabled /\ ~control.enabled)
      <3>1. feed' = feed /\ control' = new
        BY <2>2 DEF F!Controlled
      <3>. QED  BY <2>0, <2>2, <3>1 DEF FeedOk
    <2>. QED  BY <2>1, <2>2
  <1>2. control' = new /\ feed' = [f \in Feeds |-> feed'[f]]
    BY DEF F!Controlled, FeedTypes
  <1>. QED  BY <1>1, <1>2 DEF FeedsOk

\* A step of one feed: what it owes to the others and to the guards.
LEMMA FeedMoves ==
  ASSUME FeedInv, NEW f \in Feeds, NEW y \in FeedRow, feed' = [feed EXCEPT ![f] = y],
         UNCHANGED <<control, guard>>, leader' \in Feeds \cup {"none"},
         \A o \in Feeds \ {f} : leader' = o => leader = o,
         FeedOk(y, leader' = f, control.enabled), ledger' \in LedgerRow, past' \in PastRow,
         past'.resets = past.resets, past'.approvals = past.approvals,
         \/ y.pc # "backfill" /\ ledger'.histories = ledger.histories /\ UNCHANGED past
         \/ y.pc = "backfill" /\ ledger.histories = 0 /\ UNCHANGED ledger
              /\ (~past'.overlap => ~past.overlap /\ ~F!Rebuilding(f))
         \/ feed[f].pc = "backfill" /\ y.pc # "backfill" /\ UNCHANGED past
              /\ ledger'.histories <= ledger.histories + 1
  PROVE  FeedInv'
  <1>0. FeedTypes /\ FeedsOk /\ Covered /\ Single
    BY DEF FeedInv
  <1>1. /\ feed' \in [Feeds -> FeedRow] /\ feed'[f] = y
        /\ \A o \in Feeds \ {f} : feed'[o] = feed[o]
    BY <1>0, FeedEdit
  <1>2. FeedTypes'
    BY <1>0, <1>1 DEF FeedTypes
  <1>3. FeedsOk'
    <2>1. ASSUME NEW o \in Feeds
          PROVE  FeedOk(feed'[o], leader' = o, control'.enabled)
      <3>1. CASE o = f
        BY <1>1, <3>1
      <3>2. CASE o # f
        <4>1. FeedOk(feed[o], leader = o, control.enabled)
          BY <1>0 DEF FeedsOk
        <4>. QED  BY <1>1, <3>2, <4>1 DEF FeedOk
      <3>. QED  BY <3>1, <3>2
    <2>. QED  BY <2>1 DEF FeedsOk
  <1>4. Covered'
    <2>1. Claimed' = Claimed /\ Offered' = Offered
      BY DEF Claimed, Offered
    <2>. QED  BY <1>0, <2>1 DEF Covered
  <1>5. Single'
    <2>0. /\ \A o \in Feeds : Fills(o)' <=> IF o = f THEN y.pc = "backfill" ELSE Fills(o)
          /\ \A g \in Guards : Refills(g)' <=> Refills(g)
          /\ ledger.histories \in 0..2 /\ ledger'.histories \in 0..2
      BY <1>0, <1>1 DEF Fills, Refills, FeedTypes, LedgerRow
    <2>1. CASE y.pc # "backfill" /\ ledger'.histories = ledger.histories /\ UNCHANGED past
      BY <1>0, <2>0, <2>1 DEF Single
    <2>2. CASE /\ y.pc = "backfill" /\ ledger.histories = 0 /\ UNCHANGED ledger
               /\ (~past'.overlap => ~past.overlap /\ ~F!Rebuilding(f))
      <3>1. ASSUME ~past'.overlap
            PROVE  /\ \A o \in Feeds \ {f} : ~Fills(o)
                   /\ \A g \in Guards : ~Refills(g)
        BY <2>2, <3>1 DEF F!Rebuilding, Fills, Refills
      <3>. QED  BY <1>0, <2>0, <2>2, <3>1 DEF Single
    <2>3. CASE /\ feed[f].pc = "backfill" /\ y.pc # "backfill" /\ UNCHANGED past
               /\ ledger'.histories <= ledger.histories + 1
      <3>1. Fills(f)
        BY <2>3 DEF Fills
      <3>2. ASSUME ~past.overlap
            PROVE  /\ ledger.histories = 0 /\ \A o \in Feeds : ~Fills(o)'
                   /\ \A g \in Guards : ~Refills(g)'
        BY <1>0, <2>0, <2>3, <3>1, <3>2 DEF Single
      <3>. QED  BY <2>0, <2>3, <3>2 DEF Single
    <2>. QED  BY <2>1, <2>2, <2>3
  <1>. QED  BY <1>2, <1>3, <1>4, <1>5 DEF FeedInv

\* Every step of a feed.
LEMMA FeedSteps ==
  ASSUME FeedInv, NEW f \in Feeds,
         \/ F!StartFeed(f) \/ F!StartUp(f) \/ F!BackfillHistory(f) \/ F!CheckLock(f)
         \/ F!ReadFlag(f) \/ F!RunTick(f) \/ F!EndTick(f) \/ F!StopFeed(f)
  PROVE  FeedInv'
  <1>. DEFINE x == feed[f]
  <1>0. /\ FeedTypes /\ x \in FeedRow /\ FeedOk(x, leader = f, control.enabled) /\ f # "none"
        /\ leader \in Feeds \cup {"none"} /\ ledger \in LedgerRow /\ past \in PastRow
    BY FeedsAssumption DEF FeedInv, FeedTypes, FeedsOk
  <1>1. CASE F!StartFeed(f)
    <2>. DEFINE y == [F!NewFeed EXCEPT !.pc = "starting"]
    <2>1. y \in FeedRow /\ y.pc = "starting" /\ y.stray = 0 /\ y.late = 0
      BY DEF F!NewFeed, FeedRow, FeedPcs
    <2>2. leader' = f /\ feed' = [feed EXCEPT ![f] = y] /\ UNCHANGED <<control, guard, ledger, past>>
      BY <1>1 DEF F!StartFeed
    <2>. HIDE DEF y
    <2>3. FeedOk(y, leader' = f, control.enabled)
      BY <2>1 DEF FeedOk
    <2>. QED  BY <1>0, <2>1, <2>2, <2>3, FeedMoves
  <1>2. CASE F!StartUp(f) /\ F!NoRecentMovements
    <2>1. /\ leader = f /\ F!Begins(f, "backfill") /\ UNCHANGED <<leader, control, guard, ledger>>
          /\ past' = [past EXCEPT !.overlap = past.overlap \/ F!Rebuilding(f)] /\ ledger.histories = 0
      BY <1>2 DEF F!StartUp, F!RequireSingletonLock, F!NoRecentMovements
    <2>2. PICK y \in FeedRow : /\ feed' = [feed EXCEPT ![f] = y] /\ y.pc = "backfill"
                               /\ y.stray = 0 /\ y.late = x.late
      BY <1>0, <2>1, FeedBegins DEF FeedOk
    <2>3. PICK b \in BOOLEAN : b = (past.overlap \/ F!Rebuilding(f))
      OBVIOUS
    <2>4. past' = [past EXCEPT !.overlap = b]
      BY <2>1, <2>3
    <2>5. /\ past' \in PastRow /\ past'.resets = past.resets /\ past'.approvals = past.approvals
          /\ past'.overlap = b
      BY <1>0, <2>4 DEF PastRow
    <2>6. FeedOk(y, leader' = f, control.enabled)
      BY <1>0, <2>1, <2>2 DEF FeedOk
    <2>. QED  BY <1>0, <2>1, <2>2, <2>3, <2>5, <2>6, FeedMoves
  <1>3. CASE F!StartUp(f) /\ ~F!NoRecentMovements
    <2>1. F!At(f, "loop") /\ UNCHANGED <<leader, control, guard, ledger, past>>
      BY <1>3 DEF F!StartUp
    <2>2. PICK y \in FeedRow : /\ feed' = [feed EXCEPT ![f] = y] /\ y.pc = "loop"
                               /\ y.stray = x.stray /\ y.late = x.late
      BY <1>0, <2>1, FeedAt DEF FeedPcs
    <2>. QED  BY <1>0, <2>1, <2>2, FeedMoves DEF FeedOk
  <1>4. CASE F!BackfillHistory(f)
    <2>. DEFINE n == F!Few(ledger.histories + 1)
    <2>1. /\ x.pc = "backfill" /\ F!At(f, "loop") /\ UNCHANGED <<leader, control, guard, past>>
          /\ ledger' = [ledger EXCEPT !.histories = n]
      BY <1>4 DEF F!BackfillHistory
    <2>2. n \in 0..2 /\ n <= ledger.histories + 1
      BY <1>0 DEF F!Few, LedgerRow
    <2>. HIDE DEF n
    <2>3. ledger' \in LedgerRow /\ ledger'.histories = n
      BY <1>0, <2>1, <2>2 DEF LedgerRow
    <2>4. PICK y \in FeedRow : /\ feed' = [feed EXCEPT ![f] = y] /\ y.pc = "loop"
                               /\ y.stray = x.stray /\ y.late = x.late
      BY <1>0, <2>1, FeedAt DEF FeedPcs
    <2>5. FeedOk(y, leader' = f, control.enabled)
      BY <1>0, <2>1, <2>4 DEF FeedOk
    <2>. QED  BY <1>0, <2>1, <2>2, <2>3, <2>4, <2>5, FeedMoves
  <1>5. CASE F!CheckLock(f)
    <2>1. leader = f /\ F!At(f, "flag") /\ UNCHANGED <<leader, control, guard, ledger, past>>
      BY <1>5 DEF F!CheckLock, F!RequireSingletonLock
    <2>2. PICK y \in FeedRow : /\ feed' = [feed EXCEPT ![f] = y] /\ y.pc = "flag"
                               /\ y.stray = x.stray /\ y.late = x.late
      BY <1>0, <2>1, FeedAt DEF FeedPcs
    <2>. QED  BY <1>0, <2>1, <2>2, FeedMoves DEF FeedOk
  <1>6. CASE F!ReadFlag(f)
    <2>. DEFINE to == IF control.enabled THEN "go" ELSE "loop"
    <2>1. x.pc = "flag" /\ F!At(f, to) /\ UNCHANGED <<leader, control, guard, ledger, past>>
      BY <1>6 DEF F!ReadFlag, F!FeedEnabled
    <2>2. to \in {"go", "loop"} /\ to \in FeedPcs /\ (to = "go" => control.enabled)
      BY DEF FeedPcs
    <2>. HIDE DEF to
    <2>3. PICK y \in FeedRow : /\ feed' = [feed EXCEPT ![f] = y] /\ y.pc = to
                               /\ y.stray = x.stray /\ y.late = x.late
      BY <1>0, <2>1, <2>2, FeedAt
    <2>. QED  BY <1>0, <2>1, <2>2, <2>3, FeedMoves DEF FeedOk
  <1>7. CASE F!RunTick(f)
    <2>1. x.pc = "go" /\ F!Begins(f, "tick") /\ UNCHANGED <<leader, control, guard, ledger, past>>
      BY <1>7 DEF F!RunTick
    <2>2. PICK y \in FeedRow :
            /\ feed' = [feed EXCEPT ![f] = y] /\ y.pc = "tick"
            /\ y.stray = IF leader = f THEN 0 ELSE x.stray + 1
            /\ y.late = IF control.enabled THEN x.late ELSE x.late + 1
      BY <1>0, <2>1, FeedBegins DEF FeedOk
    <2>3. FeedOk(y, leader' = f, control.enabled)
      BY <1>0, <2>1, <2>2 DEF FeedOk
    <2>. QED  BY <1>0, <2>1, <2>2, <2>3, FeedMoves
  <1>8. CASE F!EndTick(f)
    <2>1. /\ x.pc = "tick" /\ F!At(f, "loop") /\ UNCHANGED <<leader, control, guard, past>>
          /\ ledger' \in {ledger, [ledger EXCEPT !.live = TRUE]}
      BY <1>8 DEF F!EndTick
    <2>2. ledger' \in LedgerRow /\ ledger'.histories = ledger.histories
      BY <1>0, <2>1 DEF LedgerRow
    <2>3. PICK y \in FeedRow : /\ feed' = [feed EXCEPT ![f] = y] /\ y.pc = "loop"
                               /\ y.stray = x.stray /\ y.late = x.late
      BY <1>0, <2>1, FeedAt DEF FeedPcs
    <2>. QED  BY <1>0, <2>1, <2>2, <2>3, FeedMoves DEF FeedOk
  <1>9. CASE F!StopFeed(f)
    <2>1. /\ F!At(f, "off") /\ UNCHANGED <<control, guard, ledger, past>>
          /\ leader' = IF leader = f THEN "none" ELSE leader
      BY <1>9 DEF F!StopFeed
    <2>2. PICK y \in FeedRow : /\ feed' = [feed EXCEPT ![f] = y] /\ y.pc = "off"
                               /\ y.stray = x.stray /\ y.late = x.late
      BY <1>0, <2>1, FeedAt DEF FeedPcs
    <2>3. /\ leader' # f /\ leader' \in Feeds \cup {"none"}
          /\ \A o \in Feeds \ {f} : leader' = o => leader = o
      BY <1>0, <2>1, FeedsAssumption
    <2>4. FeedOk(y, leader' = f, control.enabled)
      BY <1>0, <2>2, <2>3 DEF FeedOk
    <2>. QED  BY <1>0, <2>1, <2>2, <2>3, <2>4, FeedMoves
  <1>. QED  BY <1>1, <1>2, <1>3, <1>4, <1>5, <1>6, <1>7, <1>8, <1>9

\* A step of one guard: an approval or a claim it gives up for each it gains.
Mark(y) == IF y.pc = "checkpoint" THEN 1 ELSE 0

LEMMA GuardMoves ==
  ASSUME FeedInv, NEW g \in Guards, NEW y \in GuardRow, guard' = [guard EXCEPT ![g] = y],
         UNCHANGED leader, feed' \in [Feeds -> FeedRow], FeedsOk',
         \A f \in Feeds : feed'[f].pc = feed[f].pc,
         control' \in ControlRow, ledger' \in LedgerRow, past' \in PastRow,
         past'.approvals = past.approvals,
         past'.resets + Mark(y) + Offered' <= past.resets + Mark(guard[g]) + Offered,
         \/ y.pc # "rebuild" /\ UNCHANGED <<ledger, past>>
         \/ y.pc = "rebuild" /\ ledger'.histories = 0
              /\ (~past'.overlap => ~past.overlap /\ ~F!Rebuilding("none"))
         \/ guard[g].pc = "rebuild" /\ y.pc # "rebuild" /\ UNCHANGED past
              /\ ledger'.histories <= ledger.histories + 1
  PROVE  FeedInv'
  <1>0. FeedTypes /\ FeedsOk /\ Covered /\ Single
    BY DEF FeedInv
  <1>1. /\ guard' \in [Guards -> GuardRow] /\ guard'[g] = y
        /\ \A o \in Guards \ {g} : guard'[o] = guard[o]
    BY <1>0, GuardEdit
  <1>2. FeedTypes'
    BY <1>0, <1>1 DEF FeedTypes
  <1>3. Covered'
    <2>. DEFINE others == Claimed \ {g}
    <2>1. IsFiniteSet(Claimed)
      BY FS_Subset, FeedsAssumption DEF Claimed
    <2>2. IsFiniteSet(others) /\ Cardinality(others) \in Nat
      BY <2>1, FS_RemoveElement, FS_CardinalityType
    <2>3. Cardinality(Claimed) = Cardinality(others) + Mark(guard[g])
      <3>1. g \in Claimed <=> guard[g].pc = "checkpoint"
        BY DEF Claimed
      <3>2. Cardinality(Claimed) \in Nat
        BY <2>1, FS_CardinalityType
      <3>. QED  BY <2>1, <2>2, <3>1, <3>2, FS_RemoveElement DEF Mark
    <2>4. Cardinality(Claimed') = Cardinality(others) + Mark(y)
      <3>1. CASE y.pc = "checkpoint"
        <4>1. Claimed' = others \cup {g}
          BY <1>1, <3>1 DEF Claimed
        <4>. QED  BY <2>2, <3>1, <4>1, FS_AddElement DEF Mark
      <3>2. CASE y.pc # "checkpoint"
        <4>1. Claimed' = others
          BY <1>1, <3>2 DEF Claimed
        <4>. QED  BY <2>2, <3>2, <4>1 DEF Mark
      <3>. QED  BY <3>1, <3>2
    <2>5. /\ past.resets \in Nat /\ past'.resets \in Nat /\ past.approvals \in Nat
          /\ Offered \in Nat /\ Offered' \in Nat /\ Mark(y) \in Nat /\ Mark(guard[g]) \in Nat
      BY <1>0 DEF FeedTypes, PastRow, Offered, Mark
    <2>6. past.resets + Cardinality(Claimed) + Offered <= past.approvals
      BY <1>0 DEF Covered
    <2>. HIDE DEF others
    <2>7. past'.resets + Cardinality(Claimed') + Offered' <= past'.approvals
      BY <2>2, <2>3, <2>4, <2>5, <2>6
    <2>. QED  BY <2>7 DEF Covered
  <1>4. Single'
    <2>0. /\ \A f \in Feeds : Fills(f)' <=> Fills(f)
          /\ \A o \in Guards : Refills(o)' <=> IF o = g THEN y.pc = "rebuild" ELSE Refills(o)
          /\ ledger.histories \in 0..2 /\ ledger'.histories \in 0..2
      BY <1>0, <1>1 DEF Fills, Refills, FeedTypes, LedgerRow
    <2>1. CASE y.pc # "rebuild" /\ UNCHANGED <<ledger, past>>
      BY <1>0, <2>0, <2>1 DEF Single
    <2>2. CASE /\ y.pc = "rebuild" /\ ledger'.histories = 0
               /\ (~past'.overlap => ~past.overlap /\ ~F!Rebuilding("none"))
      <3>1. ASSUME ~past'.overlap
            PROVE  /\ \A f \in Feeds : ~Fills(f)
                   /\ \A o \in Guards : ~Refills(o)
        BY <2>2, <3>1, FeedsAssumption DEF F!Rebuilding, Fills, Refills
      <3>. QED  BY <2>0, <2>2, <3>1 DEF Single
    <2>3. CASE /\ guard[g].pc = "rebuild" /\ y.pc # "rebuild" /\ UNCHANGED past
               /\ ledger'.histories <= ledger.histories + 1
      <3>1. Refills(g)
        BY <2>3 DEF Refills
      <3>2. ASSUME ~past.overlap
            PROVE  /\ ledger.histories = 0 /\ \A f \in Feeds : ~Fills(f)'
                   /\ \A o \in Guards : ~Refills(o)'
        BY <1>0, <2>0, <2>3, <3>1, <3>2 DEF Single
      <3>. QED  BY <2>0, <2>3, <3>2 DEF Single
    <2>. QED  BY <2>1, <2>2, <2>3
  <1>. QED  BY <1>2, <1>3, <1>4 DEF FeedInv

\* set_feed_enabled never writes an approval.
LEMMA GuardWrites ==
  ASSUME FeedInv, NEW g \in Guards, NEW enabled \in BOOLEAN, NEW note \in Notes \ {"approved"},
         F!SetFeedEnabled(g, enabled, note), UNCHANGED leader
  PROVE  /\ control' \in ControlRow /\ feed' \in [Feeds -> FeedRow] /\ FeedsOk'
         /\ \A f \in Feeds : feed'[f].pc = feed[f].pc
         /\ Offered' <= Offered
  <1>. DEFINE read == guard[g].read
              e == IF read.enabled = enabled THEN control.enabled ELSE enabled
              n == IF read.note = note THEN control.note ELSE note
              new == [enabled |-> e, note |-> n]
  <1>0. FeedTypes /\ FeedsOk /\ control \in ControlRow
    BY DEF FeedInv, FeedTypes
  <1>1. F!Controlled(new)
    BY DEF F!SetFeedEnabled
  <1>2. e \in BOOLEAN /\ n \in Notes /\ (n = "approved" => control.note = "approved")
    BY <1>0 DEF ControlRow
  <1>. HIDE DEF e, n
  <1>3. new \in ControlRow /\ new.note = n
    BY <1>2 DEF ControlRow
  <1>. HIDE DEF new
  <1>4. PICK row \in ControlRow : row = new
    BY <1>3
  <1>5. /\ control' = row /\ feed' \in [Feeds -> FeedRow] /\ FeedsOk'
        /\ \A f \in Feeds : feed'[f].pc = feed[f].pc
    BY <1>0, <1>1, <1>4, RowWritten
  <1>. QED  BY <1>2, <1>3, <1>4, <1>5 DEF Offered

\* Every step of a guard.
LEMMA GuardSteps ==
  ASSUME FeedInv, NEW g \in Guards,
         \/ F!MeasureSize(g) \/ F!ReadControl(g) \/ F!PauseFeed(g) \/ F!ConsumeResetApproval(g)
         \/ F!ResetSourceTables(g) \/ F!Reseed(g) \/ F!Reread(g) \/ F!EnableFeed(g) \/ F!GuardEnds(g)
  PROVE  FeedInv'
  <1>. DEFINE x == guard[g]
  <1>0. /\ FeedTypes /\ x \in GuardRow /\ feed \in [Feeds -> FeedRow] /\ FeedsOk
        /\ control \in ControlRow /\ ledger \in LedgerRow /\ past \in PastRow
        /\ past.resets \in Nat /\ guard \in [Guards -> GuardRow]
    BY DEF FeedInv, FeedTypes, PastRow
  <1>1. UNCHANGED <<feed, leader, control>> => FeedsOk' /\ Offered' = Offered
    BY <1>0 DEF FeedsOk, Offered
  <1>2. ASSUME NEW y \in GuardRow, guard' = [guard EXCEPT ![g] = y],
               y.pc \notin {"rebuild", "checkpoint"}, UNCHANGED <<leader, feed, control, ledger, past>>
        PROVE  FeedInv'
    <2>1. past'.resets + Mark(y) + Offered' <= past.resets + Mark(x) + Offered
      BY <1>0, <1>1, <1>2 DEF Mark, Offered
    <2>. QED  BY <1>0, <1>1, <1>2, <2>1, GuardMoves
  <1>3. CASE F!MeasureSize(g)
    <2>1. PICK hard \in BOOLEAN : guard' = [guard EXCEPT ![g].pc = "measured", ![g].hard = hard]
      BY <1>3 DEF F!MeasureSize
    <2>. DEFINE y == [x EXCEPT !.pc = "measured", !.hard = hard]
    <2>2. guard' = [guard EXCEPT ![g] = y] /\ UNCHANGED <<leader, feed, control, ledger, past>>
      BY <1>0, <1>3, <2>1 DEF F!MeasureSize
    <2>3. y \in GuardRow /\ y.pc = "measured"
      BY <1>0 DEF GuardRow, GuardPcs
    <2>. HIDE DEF y
    <2>. QED  BY <1>2, <2>2, <2>3
  <1>4. CASE F!ReadControl(g) /\ control.enabled
    <2>. DEFINE y == [x EXCEPT !.read = control, !.pc = "pause"]
    <2>1. guard' = [guard EXCEPT ![g] = y] /\ UNCHANGED <<leader, feed, control, ledger, past>>
      BY <1>0, <1>4 DEF F!ReadControl
    <2>2. y \in GuardRow /\ y.pc = "pause"
      BY <1>0 DEF GuardRow, GuardPcs
    <2>. HIDE DEF y
    <2>. QED  BY <1>2, <2>1, <2>2
  <1>5. ASSUME NEW pc \in GuardPcs \ {"rebuild", "checkpoint"}, F!Guarded(g, pc),
               UNCHANGED <<leader, feed, control, ledger, past>>
        PROVE  FeedInv'
    <2>1. PICK y \in GuardRow : guard' = [guard EXCEPT ![g] = y] /\ y.pc = pc
      BY <1>0, <1>5, GuardGoes
    <2>. QED  BY <1>2, <1>5, <2>1
  <1>6. CASE F!ReadControl(g) /\ ~control.enabled
    BY <1>5, <1>6 DEF F!ReadControl, GuardPcs
  <1>7. CASE F!GuardEnds(g)
    BY <1>5, <1>7 DEF F!GuardEnds, GuardPcs
  <1>8. CASE F!Reread(g)
    <2>. DEFINE y == [x EXCEPT !.pc = "enable", !.read = control]
    <2>1. guard' = [guard EXCEPT ![g] = y] /\ UNCHANGED <<leader, feed, control, ledger, past>>
      BY <1>0, <1>8 DEF F!Reread
    <2>2. y \in GuardRow /\ y.pc = "enable"
      BY <1>0 DEF GuardRow, GuardPcs
    <2>. HIDE DEF y
    <2>. QED  BY <1>2, <2>1, <2>2
  <1>9. ASSUME NEW enabled \in BOOLEAN, NEW note \in Notes \ {"approved"},
               NEW pc \in GuardPcs \ {"rebuild", "checkpoint"},
               F!SetFeedEnabled(g, enabled, note), F!Guarded(g, pc), UNCHANGED <<leader, ledger, past>>
        PROVE  FeedInv'
    <2>1. PICK y \in GuardRow : guard' = [guard EXCEPT ![g] = y] /\ y.pc = pc
      BY <1>0, <1>9, GuardGoes
    <2>2. /\ control' \in ControlRow /\ feed' \in [Feeds -> FeedRow] /\ FeedsOk'
          /\ \A f \in Feeds : feed'[f].pc = feed[f].pc
          /\ Offered' <= Offered
      BY <1>9, GuardWrites
    <2>3. past'.resets + Mark(y) + Offered' <= past.resets + Mark(x) + Offered
      BY <1>0, <1>9, <2>1, <2>2 DEF Mark, Offered
    <2>. QED  BY <1>0, <1>9, <2>1, <2>2, <2>3, GuardMoves
  <1>10. CASE F!PauseFeed(g)
    BY <1>9, <1>10 DEF F!PauseFeed, GuardPcs, Notes
  <1>11. CASE F!EnableFeed(g)
    BY <1>9, <1>11 DEF F!EnableFeed, GuardPcs, Notes
  <1>12. CASE F!ConsumeResetApproval(g) /\ control = [enabled |-> FALSE, note |-> "approved"]
    <2>1. /\ F!Guarded(g, "checkpoint") /\ control' = [control EXCEPT !.note = "consumed"]
          /\ UNCHANGED <<leader, feed, ledger, past>> /\ x.pc = "consume"
      BY <1>12 DEF F!ConsumeResetApproval, F!Consumed
    <2>2. PICK y \in GuardRow : guard' = [guard EXCEPT ![g] = y] /\ y.pc = "checkpoint"
      BY <1>0, <2>1, GuardGoes DEF GuardPcs
    <2>3. control' \in ControlRow /\ control'.note = "consumed" /\ control'.enabled = control.enabled
      BY <1>0, <2>1 DEF ControlRow, Notes
    <2>4. control.note = "approved"
      BY <1>12
    <2>5. past'.resets + Mark(y) + Offered' <= past.resets + Mark(x) + Offered
      BY <1>0, <2>1, <2>2, <2>3, <2>4 DEF Mark, Offered
    <2>6. FeedsOk'
      BY <1>0, <2>1, <2>3 DEF FeedsOk
    <2>. QED  BY <1>0, <2>1, <2>2, <2>3, <2>5, <2>6, GuardMoves
  <1>13. CASE F!ConsumeResetApproval(g) /\ control # [enabled |-> FALSE, note |-> "approved"]
    BY <1>5, <1>13 DEF F!ConsumeResetApproval, GuardPcs
  <1>14. CASE F!ResetSourceTables(g)
    <2>. DEFINE n == past.resets + 1
    <2>0. PICK b \in BOOLEAN : b = (past.overlap \/ F!Rebuilding("none"))
      OBVIOUS
    <2>1. /\ x.pc = "checkpoint" /\ F!Guarded(g, "rebuild") /\ UNCHANGED <<leader, feed, control>>
          /\ ledger' = [histories |-> 0, live |-> FALSE]
          /\ past' = [past EXCEPT !.resets = n, !.overlap = b]
      BY <1>14, <2>0 DEF F!ResetSourceTables
    <2>2. n \in Nat
      BY <1>0
    <2>. HIDE DEF n
    <2>3. /\ past' \in PastRow /\ past'.approvals = past.approvals /\ past'.resets = n
          /\ past'.overlap = b
      BY <1>0, <2>1, <2>2 DEF PastRow
    <2>4. ledger' \in LedgerRow /\ ledger'.histories = 0
      BY <2>1 DEF LedgerRow
    <2>5. PICK y \in GuardRow : guard' = [guard EXCEPT ![g] = y] /\ y.pc = "rebuild"
      BY <1>0, <2>1, GuardGoes DEF GuardPcs
    <2>6. past'.resets + Mark(y) + Offered' <= past.resets + Mark(x) + Offered
      BY <1>0, <1>1, <2>1, <2>3, <2>5 DEF Mark, Offered, n
    <2>. QED  BY <1>0, <1>1, <2>0, <2>1, <2>3, <2>4, <2>5, <2>6, GuardMoves
  <1>15. CASE F!Reseed(g)
    <2>. DEFINE n == F!Few(ledger.histories + 1)
    <2>1. /\ x.pc = "rebuild" /\ F!Guarded(g, "reread") /\ UNCHANGED <<leader, feed, control, past>>
          /\ ledger' = [ledger EXCEPT !.histories = n]
      BY <1>15 DEF F!Reseed
    <2>2. n \in 0..2 /\ n <= ledger.histories + 1
      BY <1>0 DEF F!Few, LedgerRow
    <2>. HIDE DEF n
    <2>3. ledger' \in LedgerRow /\ ledger'.histories = n
      BY <1>0, <2>1, <2>2 DEF LedgerRow
    <2>4. PICK y \in GuardRow : guard' = [guard EXCEPT ![g] = y] /\ y.pc = "reread"
      BY <1>0, <2>1, GuardGoes DEF GuardPcs
    <2>5. past'.resets + Mark(y) + Offered' <= past.resets + Mark(x) + Offered
      BY <1>0, <1>1, <2>1, <2>4 DEF Mark, Offered
    <2>. QED  BY <1>0, <1>1, <2>1, <2>2, <2>3, <2>4, <2>5, GuardMoves
  <1>. QED  BY <1>3, <1>4, <1>6, <1>7, <1>8, <1>10, <1>11, <1>12, <1>13, <1>14, <1>15

\* The owner writes the row, with an approval for every one it offers; a session
\* ends and nobody holds the lock.
LEMMA OwnerSteps ==
  ASSUME FeedInv, F!Owner \/ F!LoseSession \/ UNCHANGED F!feedVars
  PROVE  FeedInv'
  <1>0. FeedTypes /\ FeedsOk /\ Covered /\ Single /\ past \in PastRow /\ past.approvals \in Nat
        /\ past.resets \in Nat /\ control \in ControlRow
    BY DEF FeedInv, FeedTypes, PastRow
  <1>1. ASSUME NEW new \in ControlRow, F!Controlled(new), UNCHANGED <<leader, guard, ledger>>,
               past' \in PastRow, past'.resets = past.resets, past'.overlap = past.overlap,
               past'.approvals = past.approvals + (IF new.note = "approved" THEN 1 ELSE 0)
        PROVE  FeedInv'
    <2>1. /\ control' = new /\ feed' \in [Feeds -> FeedRow] /\ FeedsOk'
          /\ \A f \in Feeds : feed'[f].pc = feed[f].pc
      BY <1>0, <1>1, RowWritten
    <2>2. FeedTypes'
      BY <1>0, <1>1, <2>1 DEF FeedTypes
    <2>3. Covered'
      <3>1. Claimed' = Claimed
        BY <1>1 DEF Claimed
      <3>2. Cardinality(Claimed) \in Nat
        BY FS_Subset, FS_CardinalityType, FeedsAssumption DEF Claimed
      <3>3. past.resets + Cardinality(Claimed) + Offered <= past.approvals
        BY <1>0 DEF Covered
      <3>4. Offered' = (IF new.note = "approved" THEN 1 ELSE 0) /\ Offered \in Nat
        BY <2>1 DEF Offered
      <3>5. past'.resets + Cardinality(Claimed') + Offered' <= past'.approvals
        BY <1>0, <1>1, <3>1, <3>2, <3>3, <3>4
      <3>. QED  BY <3>5 DEF Covered
    <2>4. Single'
      <3>1. /\ \A f \in Feeds : Fills(f)' <=> Fills(f)
            /\ \A g \in Guards : Refills(g)' <=> Refills(g)
        BY <1>1, <2>1 DEF Fills, Refills
      <3>. QED  BY <1>0, <1>1, <3>1 DEF Single
    <2>. QED  BY <2>1, <2>2, <2>3, <2>4 DEF FeedInv
  <1>2. CASE F!Owner
    <2>1. /\ [enabled |-> FALSE, note |-> "owner"] \in ControlRow
          /\ [enabled |-> TRUE, note |-> "owner"] \in ControlRow
          /\ [enabled |-> FALSE, note |-> "approved"] \in ControlRow
      BY DEF ControlRow, Notes
    <2>2. ASSUME NEW on \in BOOLEAN, F!Controlled([enabled |-> on, note |-> "owner"]),
                 UNCHANGED <<leader, guard, ledger, past>>
          PROVE  FeedInv'
      <3>1. PICK new \in ControlRow : new = [enabled |-> on, note |-> "owner"]
        BY DEF ControlRow, Notes
      <3>2. F!Controlled(new) /\ new.note = "owner"
        BY <2>2, <3>1
      <3>. QED  BY <1>0, <1>1, <2>2, <3>2
    <2>3. ASSUME F!Controlled([enabled |-> FALSE, note |-> "approved"]),
                 UNCHANGED <<leader, guard, ledger>>,
                 past' = [past EXCEPT !.approvals = past.approvals + 1]
          PROVE  FeedInv'
      <3>1. PICK new \in ControlRow : new = [enabled |-> FALSE, note |-> "approved"]
        BY <2>1
      <3>2. F!Controlled(new) /\ new.note = "approved"
        BY <2>3, <3>1
      <3>3. PICK n \in Nat : n = past.approvals + 1
        BY <1>0
      <3>4. past' = [past EXCEPT !.approvals = n]
        BY <2>3, <3>3
      <3>5. /\ past' \in PastRow /\ past'.resets = past.resets /\ past'.overlap = past.overlap
            /\ past'.approvals = n
        BY <1>0, <3>4 DEF PastRow
      <3>. QED  BY <1>0, <1>1, <2>3, <3>2, <3>3, <3>5
    <2>. QED  BY <1>2, <2>2, <2>3 DEF F!Owner
  <1>3. CASE F!LoseSession
    <2>1. leader' = "none" /\ UNCHANGED <<feed, control, guard, ledger, past>>
      BY <1>3 DEF F!LoseSession
    <2>2. FeedTypes' /\ Covered' /\ Single'
      BY <1>0, <2>1 DEF FeedTypes, Covered, Single, Claimed, Offered, Fills, Refills
    <2>3. \A f \in Feeds : FeedOk(feed[f], leader' = f, control.enabled)
      BY <1>0, <2>1, FeedsAssumption DEF FeedsOk, FeedOk
    <2>. QED  BY <2>1, <2>2, <2>3 DEF FeedInv, FeedsOk
  <1>4. CASE UNCHANGED F!feedVars
    BY <1>0, <1>4 DEF F!feedVars, FeedInv, FeedTypes, FeedsOk, Covered, Single, Claimed, Offered,
                      Fills, Refills
  <1>. QED  BY <1>2, <1>3, <1>4

LEMMA FeedInvariance == F!FeedSpec => []FeedInv
  <1>1. ASSUME F!FeedInit
        PROVE  FeedInv
    <2>1. /\ F!NewFeed \in FeedRow /\ F!NewFeed.pc = "off" /\ F!NewFeed.stray = 0 /\ F!NewFeed.late = 0
      BY DEF F!NewFeed, FeedRow, FeedPcs
    <2>2. F!Row0 \in ControlRow /\ F!Row0.note = "owner"
      BY DEF F!Row0, ControlRow, Notes
    <2>3. F!NoGuard \in GuardRow /\ F!NoGuard.pc = "idle"
      BY <2>2 DEF F!NoGuard, GuardRow, GuardPcs
    <2>4. /\ leader = "none" /\ feed = [f \in Feeds |-> F!NewFeed] /\ control = F!Row0
          /\ guard = [g \in Guards |-> F!NoGuard] /\ ledger = [histories |-> 0, live |-> FALSE]
          /\ past = [approvals |-> 0, resets |-> 0, overlap |-> FALSE]
      BY <1>1 DEF F!FeedInit
    <2>5. ledger \in LedgerRow /\ past \in PastRow /\ ledger.histories = 0 /\ past.resets = 0 /\ past.approvals = 0
      BY <2>4 DEF LedgerRow, PastRow
    <2>6. FeedTypes
      BY <2>1, <2>2, <2>3, <2>4, <2>5 DEF FeedTypes
    <2>7. FeedsOk
      BY <2>1, <2>4 DEF FeedsOk, FeedOk
    <2>8. Covered
      <3>1. Claimed = {} /\ Offered = 0
        BY <2>2, <2>3, <2>4 DEF Claimed, Offered
      <3>2. Cardinality({}) = 0
        BY FS_EmptySet
      <3>. QED  BY <2>5, <3>1, <3>2 DEF Covered
    <2>9. Single
      <3>1. (\A f \in Feeds : ~Fills(f)) /\ (\A g \in Guards : ~Refills(g))
        BY <2>1, <2>3, <2>4 DEF Fills, Refills
      <3>. QED  BY <2>5, <3>1 DEF Single
    <2>. QED  BY <2>6, <2>7, <2>8, <2>9 DEF FeedInv
  <1>2. ASSUME FeedInv, [F!FeedNext]_F!feedVars
        PROVE  FeedInv'
    BY <1>2, FeedSteps, GuardSteps, OwnerSteps DEF F!FeedNext
  <1>. QED  BY <1>1, <1>2, PTL DEF F!FeedSpec

\* require_singleton_lock, feed_enabled: any number of feeds, started, stopped and
\* cut off in any order, each begin at most one piece of work after losing the
\* lock and at most one tick after the switch went off.
THEOREM StoppedFeedStopsHolds == F!FeedSpec => []StoppedFeedStops
  <1>1. FeedInv => StoppedFeedStops
    BY DEF FeedInv, FeedsOk, FeedOk, StoppedFeedStops, F!StoppedFeedStops, F!StrayWorkIsBounded,
           F!PauseIsHeeded
  <1>. QED  BY <1>1, FeedInvariance, PTL

\* consume_reset_approval, _recent_movement_count: any number of guards that race
\* and die empty the ledger at most once for each approval, and with the feeds
\* fill it once, unless two rebuilds overlapped.
THEOREM RebuildsAreApprovedHolds == F!FeedSpec => []RebuildsAreApproved
  <1>1. ASSUME FeedInv
        PROVE  RebuildsAreApproved
    <2>1. /\ Cardinality(Claimed) \in Nat /\ Offered \in Nat /\ past.resets \in Nat
          /\ past.approvals \in Nat /\ ledger.histories \in 0..2
      BY <1>1, FS_Subset, FS_CardinalityType, FeedsAssumption
         DEF Claimed, Offered, FeedInv, FeedTypes, PastRow, LedgerRow
    <2>2. F!OneResetPerApproval
      BY <1>1, <2>1 DEF FeedInv, Covered, F!OneResetPerApproval
    <2>3. F!HistoryIsFilledOnce
      BY <1>1, <2>1 DEF FeedInv, Single, F!HistoryIsFilledOnce
    <2>. QED  BY <2>2, <2>3 DEF RebuildsAreApproved, F!RebuildsAreApproved
  <1>. QED  BY <1>1, FeedInvariance, PTL

-----------------------------------------------------------------------------
(* The rollout.                                                              *)

JobPcs  == {"idle", "upgrade", "grants", "read", "update", "confirm", "trigger", "poll", "ready",
            "verify", "startup"}
Deploys == {"read", "update", "confirm", "trigger", "poll"}
Proves  == {"ready", "verify", "startup"}
BeatRow == [image: Nat, at: Nat]
JobRow  == [pc: JobPcs, image: Nat, target: Nat, previous: Nat, restoring: BOOLEAN,
            status: {"none", "pending", "finished", "failed"}, boundary: Nat,
            rollback: {"none", "restored", "failed", "not-needed"}, verified: BeatRow, before: Nat]
SchemaRow  == [revision: Nat, granted: Nat, defaults: BOOLEAN]
ActiveRow  == [who: {"none", "mine", "other"}, image: Nat]
DeployRows == [queue: Seq({"mine", "other"}), active: ActiveRow]

RolloutTypes ==
  /\ schema \in SchemaRow /\ job \in JobRow /\ tag \in Nat \ {0} /\ deployments \in DeployRows
  /\ running \in Nat \ {0} /\ beat \in BeatRow /\ now \in Nat

\* No image in play is newer than the schema or its grants.
ImagesOk ==
  /\ schema.granted <= schema.revision /\ tag <= schema.granted /\ running <= schema.granted
  /\ deployments.active.image <= schema.granted
  /\ deployments.active = R!NoDeployment \/ deployments.active.image # 0
  /\ job.previous <= schema.granted
  /\ job.pc \in Deploys => job.target <= schema.granted
  /\ job.pc \in {"upgrade", "grants"} => job.target = job.image

\* The tag is as the job found it until the job has kept it; from then on it is
\* kept.
Untouched(j) == j.pc \in {"upgrade", "grants"} \/ (j.pc = "read" /\ ~j.restoring)
JobOk(j, t) ==
  /\ j.pc # "idle" => /\ j.rollback = "none" /\ j.verified.image = 0 /\ j.before # 0 /\ j.image # 0
                      /\ j.target = IF j.restoring THEN j.before ELSE j.image
                      /\ IF Untouched(j) THEN t = j.before /\ j.previous = 0 /\ ~j.restoring
                         ELSE j.previous = j.before
  /\ j.pc \in {"trigger", "poll"} \cup Proves => t = j.target
  /\ j.pc \in Proves => ~j.restoring
  /\ j.rollback \in {"restored", "not-needed"} => t = j.before

\* Coolify: at most the deployment that the job polls is the job's, it is the
\* last, and when it is over nothing is left that would replace its image.
Quiet    == deployments.queue = <<>> /\ deployments.active = R!NoDeployment /\ running = tag
NoneMine == /\ deployments.active.who # "mine"
            /\ \A i \in 1..Len(deployments.queue) : deployments.queue[i] # "mine"
Awaited  ==
  \/ /\ deployments.active.who # "mine" /\ Len(deployments.queue) > 0
     /\ \A i \in 1..Len(deployments.queue) :
          deployments.queue[i] = "mine" <=> i = Len(deployments.queue)
  \/ deployments.queue = <<>> /\ deployments.active.who = "mine" /\ deployments.active.image = tag
CoolifyOk(pc, status, rollback) ==
  /\ pc # "poll" => NoneMine
  /\ pc = "poll" => CASE status = "pending" -> Awaited [] status = "finished" -> Quiet
                      [] OTHER -> NoneMine
  /\ pc \in Proves \/ rollback = "restored" => Quiet

\* A heartbeat after the boundary is the new image's, or of the boundary's second.
Second(t) == t \div TicksPerSecond
BeatOk(j, b, t) ==
  /\ b.at <= t
  /\ j.pc \in Proves /\ b.at >= j.boundary /\ b.image # j.image => Second(b.at) = Second(j.boundary)
  /\ j.verified.image \notin {0, j.image} => Second(j.verified.at) = Second(j.boundary)

RolloutInv ==
  /\ RolloutTypes /\ ImagesOk /\ JobOk(job, tag)
  /\ CoolifyOk(job.pc, job.status, job.rollback) /\ BeatOk(job, beat, now)

\* Whole seconds.
LEMMA SecondsPass ==
  ASSUME NEW n \in Nat, NEW a \in Nat, a <= n, a >= Second(n) * TicksPerSecond
  PROVE  Second(a) = Second(Second(n) * TicksPerSecond)
  <1>0. TicksPerSecond \in Nat \ {0}
    BY ImagesAssumption
  <1>1. ASSUME NEW q \in Nat, NEW m \in Nat, q * TicksPerSecond <= m,
               m < q * TicksPerSecond + TicksPerSecond
        PROVE  Second(m) = q
    BY <1>0, <1>1 DEF Second
  <1>. DEFINE q == Second(n)
  <1>2. q \in Nat /\ q * TicksPerSecond <= n /\ n < q * TicksPerSecond + TicksPerSecond
    BY <1>0 DEF Second
  <1>. HIDE DEF q
  <1>3. q * TicksPerSecond \in Nat
    BY <1>0, <1>2
  <1>4. Second(a) = q
    BY <1>0, <1>1, <1>2, <1>3 DEF q
  <1>5. Second(q * TicksPerSecond) = q
    BY <1>0, <1>1, <1>2, <1>3
  <1>. QED  BY <1>4, <1>5 DEF q

\* The job goes to another step.
Same(x, y) ==
  /\ y.image = x.image /\ y.target = x.target /\ y.previous = x.previous /\ y.restoring = x.restoring
  /\ y.status = x.status /\ y.boundary = x.boundary /\ y.rollback = x.rollback
  /\ y.verified = x.verified /\ y.before = x.before

LEMMA JobAt ==
  ASSUME NEW x \in JobRow, NEW pc \in JobPcs
  PROVE  LET y == [x EXCEPT !.pc = pc] IN y \in JobRow /\ y.pc = pc /\ Same(x, y)
  BY DEF JobRow, Same

\* The migration steps of a job, the reading and the setting of the tag.
LEMMA JobGoes ==
  ASSUME RolloutInv,
         \/ R!Upgrade \/ R!ApplyRuntimeGrants \/ R!MigrationFails \/ R!UpdateEnvironment
         \/ R!CheckReadiness \/ R!ReportingVerification \/ R!NotVerified
  PROVE  RolloutInv'
  <1>0. /\ RolloutTypes /\ ImagesOk /\ JobOk(job, tag) /\ job \in JobRow /\ schema \in SchemaRow
        /\ CoolifyOk(job.pc, job.status, job.rollback) /\ BeatOk(job, beat, now)
        /\ job.image \in Nat /\ job.target \in Nat /\ job.previous \in Nat
        /\ schema.revision \in Nat /\ schema.granted \in Nat /\ running \in Nat /\ tag \in Nat
        /\ deployments.active.image \in Nat
    BY DEF RolloutInv, RolloutTypes, JobRow, SchemaRow, DeployRows, ActiveRow
  <1>1. ASSUME NEW pc \in JobPcs \ {"poll"}, R!At(pc), job.pc # "poll",
               UNCHANGED <<deployments, running, beat, now>>,
               schema' \in SchemaRow, tag' \in Nat \ {0}, tag' # tag => pc \notin Proves /\ job.pc # "idle",
               pc \in Proves => job.pc \in Proves,
               ImagesOk', JobOk(job', tag'), job.pc # "idle"
        PROVE  RolloutInv'
    <2>1. job' \in JobRow /\ job'.pc = pc /\ Same(job, job')
      BY <1>0, <1>1, JobAt DEF R!At
    <2>2. RolloutTypes'
      BY <1>0, <1>1, <2>1 DEF RolloutTypes
    <2>3. CoolifyOk(job.pc, job.status, job.rollback)'
      <3>1. NoneMine' /\ job'.rollback = "none" /\ (pc \in Proves => Quiet')
        BY <1>0, <1>1, <2>1 DEF CoolifyOk, NoneMine, Quiet, Same, JobOk
      <3>. QED  BY <1>1, <2>1, <3>1 DEF CoolifyOk
    <2>4. BeatOk(job', beat', now')
      BY <1>0, <1>1, <2>1 DEF BeatOk, Same
    <2>. QED  BY <1>1, <2>2, <2>3, <2>4 DEF RolloutInv
  <1>2. CASE R!Upgrade
    <2>. DEFINE g == IF schema.defaults THEN job.image ELSE schema.granted
    <2>1. /\ job.pc = "upgrade" /\ job.image >= schema.revision /\ R!At("grants")
          /\ schema' = [schema EXCEPT !.revision = job.image, !.granted = g]
          /\ UNCHANGED <<tag, deployments, running, beat, now>>
      BY <1>2 DEF R!Upgrade
    <2>2. g \in Nat /\ g >= schema.granted /\ g <= job.image
      BY <1>0, <2>1 DEF ImagesOk
    <2>. HIDE DEF g
    <2>3. schema' \in SchemaRow /\ schema'.revision = job.image /\ schema'.granted = g
      BY <1>0, <2>1, <2>2 DEF SchemaRow
    <2>4. job' \in JobRow /\ job'.pc = "grants" /\ Same(job, job')
      BY <1>0, <2>1, JobAt DEF R!At, JobPcs
    <2>5. ImagesOk'
      BY <1>0, <2>1, <2>2, <2>3, <2>4 DEF ImagesOk, Same, Deploys
    <2>6. JobOk(job', tag')
      BY <1>0, <2>1, <2>4 DEF JobOk, Same, Untouched, Proves
    <2>. QED  BY <1>0, <1>1, <2>1, <2>3, <2>5, <2>6 DEF JobPcs, Proves, RolloutTypes
  <1>3. CASE R!ApplyRuntimeGrants
    <2>1. /\ job.pc = "grants" /\ schema.revision = job.image /\ R!At("read")
          /\ schema' = [schema EXCEPT !.granted = schema.revision, !.defaults = TRUE]
          /\ UNCHANGED <<tag, deployments, running, beat, now>>
      BY <1>3 DEF R!ApplyRuntimeGrants
    <2>3. schema' \in SchemaRow /\ schema'.revision = schema.revision /\ schema'.granted = schema.revision
      BY <1>0, <2>1 DEF SchemaRow
    <2>4. job' \in JobRow /\ job'.pc = "read" /\ Same(job, job')
      BY <1>0, <2>1, JobAt DEF R!At, JobPcs
    <2>5. ImagesOk'
      BY <1>0, <2>1, <2>3, <2>4 DEF ImagesOk, Same, Deploys
    <2>6. JobOk(job', tag')
      BY <1>0, <2>1, <2>4 DEF JobOk, Same, Untouched, Proves
    <2>. QED  BY <1>0, <1>1, <2>1, <2>3, <2>5, <2>6 DEF JobPcs, Proves, RolloutTypes
  <1>4. CASE R!MigrationFails \/ R!NotVerified
    <2>1. /\ job.pc \in {"upgrade", "grants", "verify", "startup"} /\ R!At("idle")
          /\ UNCHANGED <<schema, tag, deployments, running, beat, now>>
      BY <1>4 DEF R!MigrationFails, R!NotVerified, R!AfterFailedMigration
    <2>2. job' \in JobRow /\ job'.pc = "idle" /\ Same(job, job')
      BY <1>0, <2>1, JobAt DEF R!At, JobPcs
    <2>3. ImagesOk'
      BY <1>0, <2>1, <2>2 DEF ImagesOk, Same, Deploys
    <2>4. JobOk(job', tag')
      BY <1>0, <2>1, <2>2 DEF JobOk, Same, Proves
    <2>. QED  BY <1>0, <1>1, <2>1, <2>3, <2>4 DEF JobPcs, Proves, RolloutTypes
  <1>5. CASE R!UpdateEnvironment
    <2>1. /\ job.pc = "update" /\ R!At("confirm") /\ tag' = job.target
          /\ UNCHANGED <<schema, deployments, running, beat, now>>
      BY <1>5 DEF R!UpdateEnvironment
    <2>2. job' \in JobRow /\ job'.pc = "confirm" /\ Same(job, job')
      BY <1>0, <2>1, JobAt DEF R!At, JobPcs
    <2>3. ImagesOk'
      BY <1>0, <2>1, <2>2 DEF ImagesOk, Same, Deploys
    <2>4. JobOk(job', tag')
      BY <1>0, <2>1, <2>2 DEF JobOk, Same, Untouched, Proves
    <2>5. tag' \in Nat \ {0}
      BY <1>0, <2>1 DEF JobOk
    <2>. QED  BY <1>0, <1>1, <2>1, <2>3, <2>4, <2>5 DEF JobPcs, Proves, RolloutTypes
  <1>6. CASE R!CheckReadiness \/ R!ReportingVerification
    <2>1. /\ job.pc \in Proves /\ (R!At("verify") \/ R!At("startup"))
          /\ UNCHANGED <<schema, tag, deployments, running, beat, now>>
      BY <1>6 DEF R!CheckReadiness, R!ReportingVerification, Proves
    <2>2. job' \in JobRow /\ job'.pc \in {"verify", "startup"} /\ Same(job, job')
      <3>1. ASSUME NEW pc \in {"verify", "startup"}, R!At(pc)
            PROVE  job' \in JobRow /\ job'.pc = pc /\ Same(job, job')
        <4>1. pc \in JobPcs /\ job' = [job EXCEPT !.pc = pc]
          BY <3>1 DEF R!At, JobPcs
        <4>. QED  BY <1>0, <4>1, JobAt
      <3>. QED  BY <2>1, <3>1
    <2>3. ImagesOk'
      BY <1>0, <2>1, <2>2 DEF ImagesOk, Same, Deploys
    <2>4. JobOk(job', tag')
      BY <1>0, <2>1, <2>2 DEF JobOk, Same, Untouched, Proves
    <2>. QED  BY <1>0, <1>1, <2>1, <2>3, <2>4 DEF JobPcs, Proves, RolloutTypes
  <1>. QED  BY <1>2, <1>3, <1>4, <1>5, <1>6

\* What the job gives up on goes on as somebody else's.
LEMMA AbandonedIsOther ==
  ASSUME RolloutTypes, deployments' = R!Abandoned
  PROVE  /\ deployments' \in DeployRows /\ NoneMine'
         /\ deployments'.active.image = deployments.active.image
         /\ deployments.active = R!NoDeployment => deployments'.active = R!NoDeployment
  <1>. DEFINE q == deployments.queue
              a == deployments.active
              r == [k \in DOMAIN q |-> "other"]
              b == IF a.who = "mine" THEN [a EXCEPT !.who = "other"] ELSE a
  <1>1. q \in Seq({"mine", "other"}) /\ a \in ActiveRow /\ DOMAIN q = 1..Len(q) /\ Len(q) \in Nat
    BY DEF RolloutTypes, DeployRows
  <1>2. r \in Seq({"mine", "other"}) /\ Len(r) = Len(q) /\ \A i \in 1..Len(q) : r[i] = "other"
    BY <1>1
  <1>3. b \in ActiveRow /\ b.who # "mine" /\ b.image = a.image
    BY <1>1 DEF ActiveRow
  <1>4. deployments' = [queue |-> r, active |-> b]
    BY DEF R!Abandoned
  <1>6. a = R!NoDeployment => b = R!NoDeployment
    BY DEF R!NoDeployment
  <1>. HIDE DEF r, b
  <1>5. deployments' \in DeployRows /\ deployments'.queue = r /\ deployments'.active = b
    BY <1>2, <1>3, <1>4 DEF DeployRows
  <1>. QED  BY <1>2, <1>3, <1>5, <1>6 DEF NoneMine

\* The step for a failed deployment or readiness.
LEMMA RestoreRow ==
  ASSUME RolloutInv, job.pc \in Deploys \cup {"ready"}
  PROVE  LET y == R!Restore(job)
         IN /\ y \in JobRow /\ JobOk(y, tag) /\ y.pc \in {"idle", "read"} /\ y.rollback # "restored"
            /\ y.previous = job.previous /\ (y.pc = "read" => y.target = job.previous)
            /\ y.verified.image = 0
  <1>. DEFINE x == job
              y == R!Restore(x)
  <1>0. x \in JobRow /\ JobOk(x, tag) /\ x.pc # "idle" /\ x.pc \notin {"upgrade", "grants"}
    BY DEF RolloutInv, RolloutTypes, Deploys
  <1>1. CASE x.restoring
    <2>1. y = [x EXCEPT !.pc = "idle", !.rollback = "failed"]
      BY <1>1 DEF R!Restore
    <2>2. /\ y \in JobRow /\ y.pc = "idle" /\ y.rollback = "failed" /\ y.previous = x.previous
          /\ y.verified = x.verified
      BY <1>0, <2>1 DEF JobRow, JobPcs
    <2>. HIDE DEF y
    <2>. QED  BY <1>0, <2>2 DEF JobOk, Proves, y
  <1>2. CASE ~x.restoring /\ x.previous = 0
    <2>1. y = [x EXCEPT !.pc = "idle", !.rollback = "not-needed"]
      BY <1>2 DEF R!Restore
    <2>2. /\ y \in JobRow /\ y.pc = "idle" /\ y.rollback = "not-needed" /\ y.previous = x.previous
          /\ y.verified = x.verified /\ y.before = x.before
      BY <1>0, <2>1 DEF JobRow, JobPcs
    <2>3. tag = x.before
      BY <1>0, <1>2 DEF JobOk
    <2>. HIDE DEF y
    <2>. QED  BY <1>0, <2>2, <2>3 DEF JobOk, Proves, y
  <1>3. CASE ~x.restoring /\ x.previous # 0
    <2>1. y = [x EXCEPT !.pc = "read", !.restoring = TRUE, !.target = x.previous, !.status = "none"]
      BY <1>3 DEF R!Restore
    <2>2. /\ y \in JobRow /\ y.pc = "read" /\ y.rollback = x.rollback /\ y.previous = x.previous
          /\ y.verified = x.verified /\ y.before = x.before /\ y.target = x.previous /\ y.restoring
          /\ y.image = x.image
      BY <1>0, <2>1 DEF JobRow, JobPcs
    <2>3. x.previous = x.before
      BY <1>0, <1>3 DEF JobOk
    <2>. HIDE DEF y
    <2>. QED  BY <1>0, <2>2, <2>3 DEF JobOk, Proves, Untouched, y
  <1>. QED  BY <1>1, <1>2, <1>3

\* The steps by which a job starts, or gives up.
LEMMA JobBreaks ==
  ASSUME RolloutInv, R!StartJob \/ R!DeployFails \/ R!NotReady \/ R!JobIsCutOff
  PROVE  RolloutInv'
  <1>0. /\ RolloutTypes /\ ImagesOk /\ JobOk(job, tag) /\ job \in JobRow /\ schema \in SchemaRow
        /\ CoolifyOk(job.pc, job.status, job.rollback) /\ BeatOk(job, beat, now)
        /\ job.previous \in Nat /\ schema.granted \in Nat /\ tag \in Nat \ {0} /\ running \in Nat
        /\ beat.at \in Nat /\ now \in Nat
    BY DEF RolloutInv, RolloutTypes, JobRow, SchemaRow, BeatRow
  <1>1. CASE R!StartJob
    <2>1. PICK i \in Images, mode \in {"release", "image-rollback"} :
            /\ mode = "image-rollback" => i <= running
            /\ job' = [R!NoJob EXCEPT !.pc = IF mode = "release" THEN "upgrade" ELSE "read",
                                      !.image = i, !.target = i, !.before = tag]
      BY <1>1 DEF R!StartJob
    <2>2. UNCHANGED <<schema, tag, deployments, running, beat, now>> /\ job.pc = "idle"
      BY <1>1 DEF R!StartJob
    <2>. DEFINE pc == IF mode = "release" THEN "upgrade" ELSE "read"
    <2>3. i \in Nat \ {0} /\ pc \in {"upgrade", "read"} /\ (pc = "read" => i <= running)
      BY <2>1, ImagesAssumption
    <2>4. job' = [R!NoJob EXCEPT !.pc = pc, !.image = i, !.target = i, !.before = tag]
      BY <2>1
    <2>. HIDE DEF pc
    <2>5. /\ R!NoJob \in JobRow /\ R!NoJob.previous = 0 /\ R!NoJob.rollback = "none"
          /\ ~R!NoJob.restoring /\ R!NoJob.verified.image = 0
      BY DEF R!NoJob, R!NoBeat, JobRow, JobPcs, BeatRow
    <2>6. /\ job' \in JobRow /\ job'.pc = pc /\ job'.image = i /\ job'.target = i /\ job'.before = tag
          /\ job'.previous = 0 /\ job'.rollback = "none" /\ ~job'.restoring /\ job'.verified.image = 0
      BY <1>0, <2>3, <2>4, <2>5 DEF JobRow, JobPcs
    <2>7. ImagesOk'
      BY <1>0, <2>2, <2>3, <2>6 DEF ImagesOk, Deploys
    <2>8. JobOk(job', tag')
      BY <1>0, <2>2, <2>3, <2>6 DEF JobOk, Untouched, Proves
    <2>9. CoolifyOk(job.pc, job.status, job.rollback)'
      BY <1>0, <2>2, <2>3, <2>6 DEF CoolifyOk, NoneMine, Proves
    <2>10. BeatOk(job', beat', now')
      BY <1>0, <2>2, <2>3, <2>6 DEF BeatOk, Proves
    <2>. QED  BY <1>0, <2>2, <2>6, <2>7, <2>8, <2>9, <2>10 DEF RolloutInv, RolloutTypes
  <1>2. ASSUME job.pc \in Deploys \cup {"ready"}, job' = R!Restore(job),
               deployments' \in DeployRows, NoneMine',
               deployments'.active.image = deployments.active.image,
               deployments.active = R!NoDeployment => deployments'.active = R!NoDeployment,
               UNCHANGED <<schema, tag, running, beat, now>>
        PROVE  RolloutInv'
    <2>1. /\ job' \in JobRow /\ JobOk(job', tag) /\ job'.pc \in {"idle", "read"}
          /\ job'.rollback # "restored" /\ job'.previous = job.previous
          /\ (job'.pc = "read" => job'.target = job.previous) /\ job'.verified.image = 0
      BY <1>2, RestoreRow
    <2>2. ImagesOk'
      BY <1>0, <1>2, <2>1 DEF ImagesOk, Deploys
    <2>3. CoolifyOk(job.pc, job.status, job.rollback)'
      BY <1>2, <2>1 DEF CoolifyOk, Proves
    <2>4. BeatOk(job', beat', now')
      BY <1>0, <1>2, <2>1 DEF BeatOk, Proves
    <2>. QED  BY <1>0, <1>2, <2>1, <2>2, <2>3, <2>4 DEF RolloutInv, RolloutTypes
  <1>3. CASE R!DeployFails
    <2>1. /\ job.pc \in Deploys /\ job' = R!Restore(job) /\ deployments' = R!Abandoned
          /\ UNCHANGED <<schema, tag, running, beat, now>>
      BY <1>3 DEF R!DeployFails, Deploys
    <2>. QED  BY <1>0, <1>2, <2>1, AbandonedIsOther
  <1>4. CASE R!NotReady
    <2>1. /\ job.pc = "ready" /\ job' = R!Restore(job)
          /\ UNCHANGED <<schema, tag, deployments, running, beat, now>>
      BY <1>4 DEF R!NotReady
    <2>2. deployments' \in DeployRows /\ NoneMine'
      BY <1>0, <2>1 DEF CoolifyOk, NoneMine, RolloutTypes
    <2>. QED  BY <1>2, <2>1, <2>2
  <1>5. CASE R!JobIsCutOff
    <2>1. /\ job.pc # "idle" /\ R!At("idle") /\ deployments' = R!Abandoned
          /\ UNCHANGED <<schema, tag, running, beat, now>>
      BY <1>5 DEF R!JobIsCutOff
    <2>2. job' \in JobRow /\ job'.pc = "idle" /\ Same(job, job')
      BY <1>0, <2>1, JobAt DEF R!At, JobPcs
    <2>3. /\ deployments' \in DeployRows /\ NoneMine'
          /\ deployments'.active.image = deployments.active.image
          /\ deployments.active = R!NoDeployment => deployments'.active = R!NoDeployment
      BY <1>0, <2>1, AbandonedIsOther
    <2>4. ImagesOk'
      BY <1>0, <2>1, <2>2, <2>3 DEF ImagesOk, Same, Deploys
    <2>5. JobOk(job', tag') /\ job'.rollback = "none"
      BY <1>0, <2>1, <2>2 DEF JobOk, Same, Proves
    <2>6. CoolifyOk(job.pc, job.status, job.rollback)'
      BY <2>2, <2>3, <2>5 DEF CoolifyOk, Proves
    <2>7. BeatOk(job', beat', now')
      BY <1>0, <2>1, <2>2 DEF BeatOk, Same, Proves
    <2>. QED  BY <1>0, <2>1, <2>2, <2>3, <2>4, <2>5, <2>6, <2>7 DEF RolloutInv, RolloutTypes
  <1>. QED  BY <1>1, <1>3, <1>4, <1>5

\* The steps of a deployment that succeed.
LEMMA JobDeploys ==
  ASSUME RolloutInv,
         R!ReadTag \/ R!ConfirmTag \/ R!Trigger \/ R!DeploySucceeds \/ R!VerifyReporting
  PROVE  RolloutInv'
  <1>0. /\ RolloutTypes /\ ImagesOk /\ JobOk(job, tag) /\ job \in JobRow /\ schema \in SchemaRow
        /\ CoolifyOk(job.pc, job.status, job.rollback) /\ BeatOk(job, beat, now)
        /\ job.previous \in Nat /\ job.before \in Nat /\ schema.granted \in Nat /\ tag \in Nat \ {0}
        /\ running \in Nat /\ beat \in BeatRow /\ beat.at \in Nat /\ now \in Nat /\ job.boundary \in Nat
        /\ deployments \in DeployRows
    BY DEF RolloutInv, RolloutTypes, JobRow, SchemaRow, BeatRow
  <1>1. CASE R!ReadTag
    <2>. DEFINE kept == IF job.restoring THEN job.previous ELSE tag
                y == [job EXCEPT !.pc = "update", !.previous = kept]
    <2>1. /\ job.pc = "read" /\ job' = y /\ UNCHANGED <<schema, tag, deployments, running, beat, now>>
      BY <1>1 DEF R!ReadTag, R!Captured
    <2>2. kept \in Nat /\ kept <= schema.granted /\ kept = job.before
      BY <1>0, <2>1 DEF ImagesOk, JobOk, Untouched
    <2>. HIDE DEF kept
    <2>3. /\ y \in JobRow /\ y.pc = "update" /\ y.previous = kept /\ y.image = job.image
          /\ y.target = job.target /\ y.restoring = job.restoring /\ y.rollback = job.rollback
          /\ y.verified = job.verified /\ y.before = job.before
      BY <1>0, <2>2 DEF JobRow, JobPcs
    <2>. HIDE DEF y
    <2>4. ImagesOk'
      BY <1>0, <2>1, <2>2, <2>3 DEF ImagesOk, Deploys
    <2>5. JobOk(job', tag')
      BY <1>0, <2>1, <2>2, <2>3 DEF JobOk, Untouched, Proves
    <2>6. CoolifyOk(job.pc, job.status, job.rollback)'
      BY <1>0, <2>1, <2>3 DEF CoolifyOk, NoneMine, Proves, JobOk
    <2>7. BeatOk(job', beat', now')
      BY <1>0, <2>1, <2>3 DEF BeatOk, Proves, JobOk
    <2>. QED  BY <1>0, <2>1, <2>3, <2>4, <2>5, <2>6, <2>7 DEF RolloutInv, RolloutTypes
  <1>2. CASE R!ConfirmTag
    <2>. DEFINE y == [job EXCEPT !.pc = "trigger", !.previous = job.previous]
    <2>1. /\ job.pc = "confirm" /\ job' = y /\ tag = job.target
          /\ UNCHANGED <<schema, tag, deployments, running, beat, now>>
      BY <1>2 DEF R!ConfirmTag, R!Captured
    <2>2. /\ y \in JobRow /\ y.pc = "trigger" /\ Same(job, y)
      BY <1>0 DEF JobRow, JobPcs, Same
    <2>. HIDE DEF y
    <2>3. ImagesOk'
      BY <1>0, <2>1, <2>2 DEF ImagesOk, Deploys, Same
    <2>4. JobOk(job', tag')
      BY <1>0, <2>1, <2>2 DEF JobOk, Untouched, Proves, Same
    <2>5. CoolifyOk(job.pc, job.status, job.rollback)'
      BY <1>0, <2>1, <2>2 DEF CoolifyOk, NoneMine, Proves, JobOk, Same
    <2>6. BeatOk(job', beat', now')
      BY <1>0, <2>1, <2>2 DEF BeatOk, Proves, JobOk, Same
    <2>. QED  BY <1>0, <2>1, <2>2, <2>3, <2>4, <2>5, <2>6 DEF RolloutInv, RolloutTypes
  <1>3. CASE R!Trigger
    <2>. DEFINE q == deployments.queue
                u == Append(q, "mine")
                y == [job EXCEPT !.pc = "poll", !.status = "pending"]
    <2>1. /\ job.pc = "trigger" /\ job' = y /\ deployments' = [deployments EXCEPT !.queue = u]
          /\ UNCHANGED <<schema, tag, running, beat, now>>
      BY <1>3 DEF R!Trigger
    <2>2. /\ y \in JobRow /\ y.pc = "poll" /\ y.status = "pending" /\ y.previous = job.previous
          /\ y.image = job.image /\ y.target = job.target /\ y.restoring = job.restoring
          /\ y.rollback = job.rollback /\ y.verified = job.verified /\ y.before = job.before
      BY <1>0 DEF JobRow, JobPcs
    <2>. HIDE DEF y
    <2>3. q \in Seq({"mine", "other"}) /\ NoneMine
      BY <1>0, <2>1 DEF DeployRows, CoolifyOk
    <2>4. /\ u \in Seq({"mine", "other"}) /\ Len(u) = Len(q) + 1 /\ Len(q) \in Nat
          /\ u[Len(q) + 1] = "mine" /\ \A i \in 1..Len(q) : u[i] = q[i]
      BY <2>3
    <2>5. \A i \in 1..Len(u) : u[i] = "mine" <=> i = Len(u)
      BY <2>3, <2>4 DEF NoneMine
    <2>. HIDE DEF u
    <2>6. deployments' \in DeployRows /\ deployments'.queue = u /\ deployments'.active = deployments.active
      BY <1>0, <2>1, <2>4 DEF DeployRows
    <2>7. Awaited'
      BY <2>3, <2>4, <2>5, <2>6 DEF Awaited, NoneMine
    <2>8. ImagesOk'
      BY <1>0, <2>1, <2>2, <2>6 DEF ImagesOk, Deploys
    <2>9. JobOk(job', tag')
      BY <1>0, <2>1, <2>2 DEF JobOk, Untouched, Proves
    <2>10. CoolifyOk(job.pc, job.status, job.rollback)'
      BY <1>0, <2>1, <2>2, <2>7 DEF CoolifyOk, Proves, JobOk
    <2>11. BeatOk(job', beat', now')
      BY <1>0, <2>1, <2>2 DEF BeatOk, Proves, JobOk
    <2>. QED  BY <1>0, <2>1, <2>2, <2>6, <2>8, <2>9, <2>10, <2>11 DEF RolloutInv, RolloutTypes
  <1>4. CASE R!DeploySucceeds /\ job.restoring
    <2>. DEFINE y == [job EXCEPT !.pc = "idle", !.rollback = "restored"]
    <2>1. /\ job.pc = "poll" /\ job.status = "finished" /\ job' = y
          /\ UNCHANGED <<schema, tag, deployments, running, beat, now>>
      BY <1>4 DEF R!DeploySucceeds
    <2>2. /\ y \in JobRow /\ y.pc = "idle" /\ y.rollback = "restored" /\ y.previous = job.previous
          /\ y.image = job.image /\ y.verified = job.verified /\ y.before = job.before
      BY <1>0 DEF JobRow, JobPcs
    <2>. HIDE DEF y
    <2>3. Quiet /\ NoneMine
      BY <1>0, <2>1 DEF CoolifyOk, Quiet, NoneMine, R!NoDeployment
    <2>4. ImagesOk'
      BY <1>0, <2>1, <2>2 DEF ImagesOk, Deploys
    <2>5. JobOk(job', tag')
      BY <1>0, <1>4, <2>1, <2>2 DEF JobOk, Proves
    <2>6. CoolifyOk(job.pc, job.status, job.rollback)'
      BY <2>1, <2>2, <2>3 DEF CoolifyOk, Quiet, NoneMine
    <2>7. BeatOk(job', beat', now')
      BY <1>0, <2>1, <2>2 DEF BeatOk, Proves, JobOk
    <2>. QED  BY <1>0, <2>1, <2>2, <2>4, <2>5, <2>6, <2>7 DEF RolloutInv, RolloutTypes
  <1>5. CASE R!DeploySucceeds /\ ~job.restoring
    <2>. DEFINE b == Second(now) * TicksPerSecond
                y == [job EXCEPT !.pc = "ready", !.boundary = b]
    <2>1. /\ job.pc = "poll" /\ job.status = "finished" /\ job' = y
          /\ UNCHANGED <<schema, tag, deployments, running, beat, now>>
      BY <1>5 DEF R!DeploySucceeds, Second
    <2>2. b \in Nat
      <3>1. TicksPerSecond \in Nat \ {0}
        BY ImagesAssumption
      <3>2. Second(now) \in Nat
        BY <1>0, <3>1 DEF Second
      <3>. QED  BY <3>1, <3>2
    <2>3. beat.at >= b => Second(beat.at) = Second(b)
      BY <1>0, SecondsPass DEF BeatOk
    <2>. HIDE DEF b
    <2>4. /\ y \in JobRow /\ y.pc = "ready" /\ y.rollback = job.rollback /\ y.previous = job.previous
          /\ y.image = job.image /\ y.verified = job.verified /\ y.before = job.before
          /\ y.target = job.target /\ y.restoring = job.restoring /\ y.boundary = b
      BY <1>0, <2>2 DEF JobRow, JobPcs
    <2>. HIDE DEF y
    <2>5. Quiet /\ NoneMine
      BY <1>0, <2>1 DEF CoolifyOk, Quiet, NoneMine, R!NoDeployment
    <2>6. ImagesOk'
      BY <1>0, <2>1, <2>4 DEF ImagesOk, Deploys
    <2>7. JobOk(job', tag')
      BY <1>0, <1>5, <2>1, <2>4 DEF JobOk, Proves, Untouched
    <2>8. CoolifyOk(job.pc, job.status, job.rollback)'
      BY <2>1, <2>4, <2>5 DEF CoolifyOk, Quiet, NoneMine
    <2>9. BeatOk(job', beat', now')
      BY <1>0, <2>1, <2>3, <2>4 DEF BeatOk, Proves, JobOk
    <2>. QED  BY <1>0, <2>1, <2>4, <2>6, <2>7, <2>8, <2>9 DEF RolloutInv, RolloutTypes
  <1>6. CASE R!VerifyReporting
    <2>. DEFINE y == [job EXCEPT !.pc = "idle", !.verified = beat]
    <2>1. /\ job.pc = "startup" /\ job' = y /\ beat.at >= job.boundary
          /\ UNCHANGED <<schema, tag, deployments, running, beat, now>>
      BY <1>6 DEF R!VerifyReporting, R!EvaluateHeartbeat
    <2>2. /\ y \in JobRow /\ y.pc = "idle" /\ y.rollback = job.rollback /\ y.previous = job.previous
          /\ y.image = job.image /\ y.verified = beat /\ y.before = job.before /\ y.boundary = job.boundary
      BY <1>0 DEF JobRow, JobPcs
    <2>. HIDE DEF y
    <2>3. ImagesOk'
      BY <1>0, <2>1, <2>2 DEF ImagesOk, Deploys
    <2>4. JobOk(job', tag') /\ job.rollback = "none"
      BY <1>0, <2>1, <2>2 DEF JobOk, Proves
    <2>5. CoolifyOk(job.pc, job.status, job.rollback)'
      BY <1>0, <2>1, <2>2, <2>4 DEF CoolifyOk, NoneMine, Proves
    <2>6. BeatOk(job', beat', now')
      BY <1>0, <2>1, <2>2 DEF BeatOk, Proves
    <2>. QED  BY <1>0, <2>1, <2>2, <2>3, <2>4, <2>5, <2>6 DEF RolloutInv, RolloutTypes
  <1>. QED  BY <1>1, <1>2, <1>3, <1>4, <1>5, <1>6

\* Coolify, the worker and the clock.
LEMMA OutsideGoesOn ==
  ASSUME RolloutInv,
         R!DeploymentStarts \/ R!DeploymentEnds \/ R!Heartbeat \/ R!Tick \/ UNCHANGED R!rolloutVars
  PROVE  RolloutInv'
  <1>. DEFINE q == deployments.queue
              a == deployments.active
  <1>0. /\ RolloutTypes /\ ImagesOk /\ JobOk(job, tag) /\ job \in JobRow /\ schema \in SchemaRow
        /\ CoolifyOk(job.pc, job.status, job.rollback) /\ BeatOk(job, beat, now)
        /\ schema.granted \in Nat /\ tag \in Nat \ {0} /\ running \in Nat \ {0}
        /\ beat \in BeatRow /\ beat.at \in Nat /\ now \in Nat /\ job.boundary \in Nat
        /\ deployments \in DeployRows /\ q \in Seq({"mine", "other"}) /\ a \in ActiveRow /\ Len(q) \in Nat
    BY DEF RolloutInv, RolloutTypes, JobRow, SchemaRow, BeatRow, DeployRows
  <1>1. CASE R!DeploymentStarts
    <2>. DEFINE u == Tail(q)
                b == [who |-> Head(q), image |-> tag]
    <2>1. /\ a = R!NoDeployment /\ q # <<>> /\ deployments' = [queue |-> u, active |-> b]
          /\ UNCHANGED <<schema, job, tag, running, beat, now>>
      BY <1>1 DEF R!DeploymentStarts
    <2>2. /\ u \in Seq({"mine", "other"}) /\ Len(u) = Len(q) - 1 /\ Len(q) >= 1 /\ Head(q) = q[1]
          /\ Head(q) \in {"mine", "other"} /\ \A i \in 1..Len(u) : u[i] = q[i + 1]
      BY <1>0, <2>1
    <2>3. b \in ActiveRow /\ b.who = q[1] /\ b.image = tag
      BY <1>0, <2>2 DEF ActiveRow
    <2>. HIDE DEF u, b
    <2>4. deployments' \in DeployRows /\ deployments'.queue = u /\ deployments'.active = b
      BY <2>1, <2>2, <2>3 DEF DeployRows
    <2>5. ImagesOk'
      BY <1>0, <2>1, <2>3, <2>4 DEF ImagesOk
    <2>6. ~Quiet
      BY <2>1 DEF Quiet
    <2>7. NoneMine => NoneMine'
      <3>1. ASSUME NoneMine
            PROVE  \A i \in 1..Len(q) : q[i] # "mine"
        BY <3>1 DEF NoneMine
      <3>2. \A i \in 1..Len(u) : i + 1 \in 1..Len(q)
        BY <1>0, <2>2
      <3>3. 1 \in 1..Len(q)
        BY <1>0, <2>2
      <3>4. ASSUME NoneMine
            PROVE  b.who # "mine" /\ \A i \in 1..Len(u) : u[i] # "mine"
        BY <2>2, <2>3, <3>1, <3>2, <3>3, <3>4
      <3>. QED  BY <2>4, <3>4 DEF NoneMine
    <2>8. Awaited => Awaited'
      <3>1. ASSUME Awaited
            PROVE  \A i \in 1..Len(q) : q[i] = "mine" <=> i = Len(q)
        BY <2>1, <3>1 DEF Awaited
      <3>2. CASE Len(q) = 1
        <4>1. u = <<>>
          BY <2>2, <3>2
        <4>. QED  BY <2>1, <2>2, <2>3, <2>4, <3>1, <3>2, <4>1 DEF Awaited
      <3>3. CASE Len(q) # 1
        <4>0. Len(q) \in Nat /\ Len(q) >= 1 /\ Len(u) = Len(q) - 1
          BY <1>0, <2>2
        <4>1. Len(u) > 0 /\ 1 # Len(q)
          <5>1. ASSUME NEW n \in Nat, NEW k, n >= 1, k = n - 1, n # 1
                PROVE  k > 0 /\ 1 # n
            BY <5>1
          <5>. QED  BY <3>3, <4>0, <5>1
        <4>2. ASSUME Awaited
              PROVE  b.who # "mine"
          BY <1>0, <2>2, <2>3, <3>1, <4>1, <4>2
        <4>3. ASSUME Awaited, NEW i \in 1..Len(u)
              PROVE  u[i] = "mine" <=> i = Len(u)
          <5>1. i + 1 \in 1..Len(q) /\ u[i] = q[i + 1] /\ (i = Len(u) <=> i + 1 = Len(q))
            BY <1>0, <2>2
          <5>2. q[i + 1] = "mine" <=> i + 1 = Len(q)
            BY <3>1, <4>3, <5>1
          <5>. QED  BY <5>1, <5>2
        <4>. QED  BY <2>1, <2>4, <4>1, <4>2, <4>3 DEF Awaited
      <3>. QED  BY <3>2, <3>3
    <2>9. CoolifyOk(job.pc, job.status, job.rollback)'
      BY <1>0, <2>1, <2>6, <2>7, <2>8 DEF CoolifyOk
    <2>. QED  BY <1>0, <2>1, <2>4, <2>5, <2>9 DEF RolloutInv, RolloutTypes
  <1>2. CASE R!DeploymentEnds
    <2>1. PICK ok \in BOOLEAN :
            /\ running' = IF ok THEN a.image ELSE running
            /\ job' = IF a.who = "mine"
                      THEN [job EXCEPT !.status = IF ok THEN "finished" ELSE "failed"] ELSE job
      BY <1>2 DEF R!DeploymentEnds
    <2>2. /\ a # R!NoDeployment /\ deployments' = [deployments EXCEPT !.active = R!NoDeployment]
          /\ UNCHANGED <<schema, tag, beat, now>>
      BY <1>2 DEF R!DeploymentEnds
    <2>3. R!NoDeployment \in ActiveRow /\ R!NoDeployment.who = "none" /\ R!NoDeployment.image = 0
      BY DEF R!NoDeployment, ActiveRow
    <2>4. deployments' \in DeployRows /\ deployments'.queue = q /\ deployments'.active = R!NoDeployment
      BY <1>0, <2>2, <2>3 DEF DeployRows
    <2>5. ~Quiet /\ job.pc \notin Proves /\ job.rollback # "restored"
      BY <1>0, <2>2 DEF Quiet, CoolifyOk
    <2>6. a.image # 0 /\ a.image \in Nat
      BY <1>0, <2>2 DEF ActiveRow, ImagesOk
    <2>7. running' \in Nat \ {0} /\ running' <= schema.granted
      BY <1>0, <2>1, <2>6 DEF ImagesOk
    <2>8. CASE a.who # "mine"
      <3>1. job' = job
        BY <2>1, <2>8
      <3>2. ImagesOk' /\ JobOk(job', tag') /\ BeatOk(job', beat', now')
        BY <1>0, <2>2, <2>3, <2>4, <2>7, <3>1 DEF ImagesOk
      <3>3. (NoneMine => NoneMine') /\ (Awaited => Awaited')
        BY <2>3, <2>4, <2>8 DEF NoneMine, Awaited
      <3>4. CoolifyOk(job.pc, job.status, job.rollback)'
        BY <1>0, <2>5, <3>1, <3>3 DEF CoolifyOk
      <3>. QED  BY <1>0, <2>2, <2>4, <2>7, <3>1, <3>2, <3>4 DEF RolloutInv, RolloutTypes
    <2>9. CASE a.who = "mine"
      <3>. DEFINE st == IF ok THEN "finished" ELSE "failed"
                  y == [job EXCEPT !.status = st]
      <3>0. st \in {"finished", "failed"} /\ (st = "finished" => ok)
        OBVIOUS
      <3>1. job' = y
        BY <2>1, <2>9
      <3>. HIDE DEF st
      <3>2. /\ y \in JobRow /\ y.pc = job.pc /\ y.rollback = job.rollback /\ y.previous = job.previous
            /\ y.image = job.image /\ y.verified = job.verified /\ y.before = job.before
            /\ y.target = job.target /\ y.restoring = job.restoring /\ y.boundary = job.boundary
            /\ y.status = st
        BY <1>0, <3>0 DEF JobRow
      <3>. HIDE DEF y
      <3>3. ~NoneMine
        BY <2>9 DEF NoneMine
      <3>4. job.pc = "poll" /\ Awaited
        BY <1>0, <2>5, <3>3 DEF CoolifyOk
      <3>5. q = <<>> /\ a.image = tag
        BY <2>9, <3>4 DEF Awaited
      <3>6. NoneMine' /\ (ok => Quiet')
        BY <2>1, <2>2, <2>3, <2>4, <3>5 DEF NoneMine, Quiet
      <3>7. ImagesOk'
        BY <1>0, <2>2, <2>3, <2>4, <2>7, <3>1, <3>2 DEF ImagesOk
      <3>8. JobOk(job', tag')
        BY <1>0, <2>2, <3>1, <3>2, <3>4 DEF JobOk, Untouched, Proves
      <3>9. BeatOk(job', beat', now')
        BY <1>0, <2>2, <3>1, <3>2 DEF BeatOk
      <3>10. CoolifyOk(job.pc, job.status, job.rollback)'
        BY <2>5, <3>0, <3>1, <3>2, <3>4, <3>6 DEF CoolifyOk
      <3>. QED  BY <1>0, <2>2, <2>4, <2>7, <3>1, <3>2, <3>7, <3>8, <3>9, <3>10 DEF RolloutInv, RolloutTypes
    <2>. QED  BY <2>8, <2>9
  <1>3. CASE R!Heartbeat
    <2>1. /\ beat' = [image |-> running, at |-> now]
          /\ UNCHANGED <<schema, job, tag, deployments, running, now>>
      BY <1>3 DEF R!Heartbeat
    <2>2. beat' \in BeatRow /\ beat'.image = running /\ beat'.at = now
      BY <1>0, <2>1 DEF BeatRow
    <2>3. job.pc \in Proves => running = job.image
      BY <1>0 DEF CoolifyOk, Quiet, JobOk, Proves
    <2>4. BeatOk(job', beat', now')
      BY <1>0, <2>1, <2>2, <2>3 DEF BeatOk
    <2>5. ImagesOk' /\ CoolifyOk(job.pc, job.status, job.rollback)'
      BY <1>0, <2>1 DEF ImagesOk, CoolifyOk, NoneMine, Awaited, Quiet
    <2>. QED  BY <1>0, <2>1, <2>2, <2>4, <2>5 DEF RolloutInv, RolloutTypes
  <1>4. CASE R!Tick \/ UNCHANGED R!rolloutVars
    <2>1. /\ now' \in {now, now + 1} /\ UNCHANGED <<schema, job, tag, deployments, running, beat>>
      BY <1>4 DEF R!Tick, R!rolloutVars
    <2>2. BeatOk(job', beat', now')
      BY <1>0, <2>1 DEF BeatOk
    <2>3. ImagesOk' /\ CoolifyOk(job.pc, job.status, job.rollback)'
      BY <1>0, <2>1 DEF ImagesOk, CoolifyOk, NoneMine, Awaited, Quiet
    <2>. QED  BY <1>0, <2>1, <2>2, <2>3 DEF RolloutInv, RolloutTypes
  <1>. QED  BY <1>1, <1>2, <1>3, <1>4

LEMMA RolloutInvariance == R!RolloutSpec => []RolloutInv
  <1>1. R!RolloutInit => RolloutInv
    <2>. SUFFICES ASSUME R!RolloutInit  PROVE RolloutInv
      OBVIOUS
    <2>. DEFINE o == R!Oldest
    <2>0. o \in Nat \ {0}
      BY ImagesAssumption DEF R!Oldest
    <2>. HIDE DEF o
    <2>1. PICK d \in BOOLEAN : schema = [revision |-> o, granted |-> o, defaults |-> d]
      BY DEF R!RolloutInit, o
    <2>2. /\ job = R!NoJob /\ tag = o /\ running = o /\ now = 0
          /\ deployments = [queue |-> <<>>, active |-> R!NoDeployment]
          /\ beat = [image |-> o, at |-> 0]
      BY DEF R!RolloutInit, o
    <2>3. schema \in SchemaRow /\ schema.revision = o /\ schema.granted = o
      BY <2>0, <2>1 DEF SchemaRow
    <2>4. /\ job \in JobRow /\ job.pc = "idle" /\ job.previous = 0 /\ job.rollback = "none"
          /\ job.verified.image = 0
      BY <2>2 DEF R!NoJob, R!NoBeat, JobRow, JobPcs, BeatRow
    <2>5. beat \in BeatRow /\ beat.at = 0
      BY <2>0, <2>2 DEF BeatRow
    <2>6. R!NoDeployment \in ActiveRow /\ R!NoDeployment.who = "none" /\ R!NoDeployment.image = 0
      BY DEF R!NoDeployment, ActiveRow
    <2>7. PICK e : e = <<>>
      OBVIOUS
    <2>8. e \in Seq({"mine", "other"}) /\ Len(e) = 0
      BY <2>7
    <2>9. deployments = [queue |-> e, active |-> R!NoDeployment]
      BY <2>2, <2>7
    <2>10. deployments \in DeployRows /\ deployments.queue = e /\ deployments.active = R!NoDeployment
      BY <2>6, <2>8, <2>9 DEF DeployRows
    <2>11. RolloutTypes
      BY <2>0, <2>2, <2>3, <2>4, <2>5, <2>10 DEF RolloutTypes
    <2>12. ImagesOk
      BY <2>0, <2>2, <2>3, <2>4, <2>6, <2>10 DEF ImagesOk, Deploys
    <2>13. JobOk(job, tag) /\ BeatOk(job, beat, now)
      BY <2>2, <2>4, <2>5 DEF JobOk, BeatOk, Proves
    <2>14. NoneMine
      BY <2>6, <2>8, <2>10 DEF NoneMine
    <2>15. CoolifyOk(job.pc, job.status, job.rollback)
      BY <2>4, <2>14 DEF CoolifyOk, Proves
    <2>. QED  BY <2>11, <2>12, <2>13, <2>15 DEF RolloutInv
  <1>2. RolloutInv /\ [R!RolloutNext]_R!rolloutVars => RolloutInv'
    BY JobGoes, JobBreaks, JobDeploys, OutsideGoesOn DEF R!RolloutNext
  <1>. QED  BY <1>1, <1>2, PTL DEF R!RolloutSpec

\* migrate, deploy: whatever fails, is lost or is cut off, and whichever
\* deployment is still waiting, the image that runs finds the tables of its
\* schema head and may use them.  For any images in release order: no image in
\* play (running, tagged, deploying, kept for the restoration, or to be
\* deployed next) is newer than what the grants cover.
THEOREM RunningCanWorkHolds == R!RolloutSpec => []RunningCanWork
  <1>1. RolloutInv => RunningCanWork
    BY DEF RolloutInv, RolloutTypes, ImagesOk, SchemaRow, RunningCanWork, R!RunningCanWork
  <1>. QED  BY <1>1, RolloutInvariance, PTL

\* deploy, evaluate_heartbeat: what a job reports of its rollback and of the
\* new worker is so, although answers get lost and deployments finish late.
\* Coolify's order is what it rests on: the deployment the job polls is the
\* last, so nothing is left behind it that could replace its image.
THEOREM JobsReportTrulyHolds == R!RolloutSpec => []JobsReportTruly
  <1>1. RolloutInv => R!RollbackRestores
    <2>. SUFFICES ASSUME RolloutInv  PROVE R!RollbackRestores
      OBVIOUS
    <2>1. job.rollback \in {"restored", "not-needed"} => tag = job.before
      BY DEF RolloutInv, JobOk
    <2>2. job.rollback = "restored" => running = tag
      BY DEF RolloutInv, CoolifyOk, Quiet
    <2>. QED  BY <2>1, <2>2 DEF R!RollbackRestores
  <1>2. RolloutInv => R!VerifiedIsNewWorker
    BY DEF RolloutInv, BeatOk, Second, R!VerifiedIsNewWorker
  <1>3. RolloutInv => JobsReportTruly
    BY <1>1, <1>2 DEF JobsReportTruly, R!JobsReportTruly
  <1>. QED  BY <1>3, RolloutInvariance, PTL
-----------------------------------------------------------------------------
(* Admission to public support.                                              *)

RequestRow   == [waits: BOOLEAN, thread: {"none", "check", "search", "generate"}]
AdmissionRow == [active: Nat, minute: Seq(Nat), day: Nat, count: Nat]

SupportTypes ==
  /\ request \in [Requests -> RequestRow] /\ admission \in AdmissionRow
  /\ admitted \in Seq(Nat) /\ time \in Nat

\* Admissions are in the order of the clock.
Ordered ==
  \A j \in 1..Len(admitted) : admitted[j] <= time

\* The window holds the last admissions, and those before it are too old.
WindowOk(m) ==
  /\ Len(m) <= Len(admitted) /\ Len(m) <= PerMinute
  /\ \A i \in 1..Len(m) : m[i] = admitted[Len(admitted) - Len(m) + i]
  /\ \A j \in 1..Len(admitted) - Len(m) : admitted[j] <= time - Minute

\* The counter counts the admissions of its date, and none is of a later one.
Date(t) == t \div Midnight
OfDay(s, k, d) == {j \in 1..k : Date(s[j]) = d}
DayOk(d, c) ==
  /\ d <= Date(time) /\ \A j \in 1..Len(admitted) : Date(admitted[j]) <= d
  /\ c = Cardinality(OfDay(admitted, Len(admitted), d)) /\ c <= PerDay

Close(s, k, length) == {j \in 1..k : s[j] > s[k] - length}
Bounded(s, k) ==
  /\ Cardinality(Close(s, k, Minute)) <= PerMinute
  /\ Cardinality(OfDay(s, k, Date(s[k]))) <= PerDay

SlotsOk == admission.active = Cardinality(P!Working) /\ admission.active <= Slots

SupportInv ==
  /\ SupportTypes /\ SlotsOk /\ Ordered /\ WindowOk(admission.minute)
  /\ DayOk(admission.day, admission.count)
  /\ \A k \in 1..Len(admitted) : Bounded(admitted, k)

LEMMA CardinalityOfSupport == \A S : P!Cardinality(S) = Cardinality(S)
  BY DEF P!Cardinality, Cardinality

\* The dates go on with the clock.
LEMMA DatesGoOn ==
  ASSUME NEW t \in Nat, NEW u \in Nat, t <= u
  PROVE  Date(t) \in Nat /\ Date(u) \in Nat /\ Date(t) <= Date(u)
  <1>1. Midnight \in Nat \ {0}
    BY LimitsAssumption
  <1>. QED  BY <1>1 DEF Date

\* The entries that acquire takes from the left of the window are those up to
\* the first recent one.
LEMMA ExpiredEntries ==
  ASSUME NEW m \in Seq(Nat), time \in Nat
  PROVE  /\ P!Expired(m) \in 0..Len(m)
         /\ \A i \in 1..P!Expired(m) : m[i] <= time - Minute
  <1>0. Minute \in Nat /\ Len(m) \in Nat /\ \A i \in 1..Len(m) : m[i] \in Nat
    BY LimitsAssumption
  <1>. DEFINE T == {i \in 1..Len(m) + 1 : i <= Len(m) => m[i] > time - Minute}
              Ok(n) == /\ \A i \in 1..n : m[i] <= time - Minute
                       /\ n < Len(m) => m[n + 1] > time - Minute
  <1>1. Len(m) + 1 \in T /\ T \in SUBSET Nat
    BY <1>0
  <1>2. PICK x \in T : \A y \in T : x <= y
    BY <1>1, LeastNatural
  <1>3. x \in 1..Len(m) + 1 /\ (x <= Len(m) => m[x] > time - Minute)
    BY <1>2
  <1>4. ASSUME NEW i \in 1..x - 1
        PROVE  m[i] <= time - Minute
    <2>1. i \in 1..Len(m) /\ i \in Nat /\ x \in Nat /\ i < x
      BY <1>0, <1>3
    <2>2. i \notin T
      BY <1>2, <2>1
    <2>3. ~(m[i] > time - Minute)
      BY <1>0, <2>1, <2>2
    <2>. QED  BY <1>0, <2>1, <2>3
  <1>5. PICK n : n = x - 1
    OBVIOUS
  <1>6. n \in 0..Len(m) /\ (n < Len(m) => m[n + 1] > time - Minute)
    BY <1>0, <1>3, <1>5
  <1>7. Ok(n)
    BY <1>4, <1>5, <1>6
  <1>8. P!Expired(m) = CHOOSE k \in 0..Len(m) : Ok(k)
    BY DEF P!Expired
  <1>. HIDE DEF Ok
  <1>9. P!Expired(m) \in 0..Len(m) /\ Ok(P!Expired(m))
    BY <1>6, <1>7, <1>8
  <1>. QED  BY <1>9 DEF Ok

\* What acquire finds once the window is brought up to date.
LEMMA WindowIsRefreshed ==
  ASSUME SupportInv
  PROVE  P!Recent(admission.minute) \in Seq(Nat) /\ WindowOk(P!Recent(admission.minute))
  <1>. DEFINE m == admission.minute
              e == P!Expired(m)
              u == P!Recent(m)
  <1>0. /\ m \in Seq(Nat) /\ admitted \in Seq(Nat) /\ time \in Nat /\ WindowOk(m)
        /\ Len(m) \in Nat /\ Len(admitted) \in Nat /\ PerMinute \in Nat /\ Minute \in Nat
    BY LimitsAssumption DEF SupportInv, SupportTypes, AdmissionRow
  <1>1. e \in 0..Len(m) /\ \A i \in 1..e : m[i] <= time - Minute
    BY <1>0, ExpiredEntries
  <1>2. u = SubSeq(m, e + 1, Len(m))
    BY DEF P!Recent
  <1>. HIDE DEF m, e, u
  <1>3. u \in Seq(Nat) /\ Len(u) = Len(m) - e /\ \A i \in 1..Len(u) : u[i] = m[e + i]
    BY <1>0, <1>1, <1>2
  <1>4. Len(u) <= Len(admitted) /\ Len(u) <= PerMinute
    BY <1>0, <1>1, <1>3 DEF WindowOk
  <1>5. ASSUME NEW i \in 1..Len(u)
        PROVE  u[i] = admitted[Len(admitted) - Len(u) + i]
    <2>1. e + i \in 1..Len(m) /\ u[i] = m[e + i]
      BY <1>0, <1>1, <1>3
    <2>2. m[e + i] = admitted[Len(admitted) - Len(m) + (e + i)]
      BY <1>0, <2>1 DEF WindowOk
    <2>3. Len(admitted) - Len(m) + (e + i) = Len(admitted) - Len(u) + i
      BY <1>0, <1>1, <1>3
    <2>. QED  BY <2>1, <2>2, <2>3
  <1>6. ASSUME NEW j \in 1..Len(admitted) - Len(u)
        PROVE  admitted[j] <= time - Minute
    <2>1. CASE j <= Len(admitted) - Len(m)
      <3>1. j \in 1..Len(admitted) - Len(m)
        BY <1>0, <1>1, <1>3, <2>1
      <3>. QED  BY <1>0, <3>1 DEF WindowOk
    <2>2. CASE j > Len(admitted) - Len(m)
      <3>1. PICK i : i = j - (Len(admitted) - Len(m))
        OBVIOUS
      <3>2. i \in 1..e /\ i \in 1..Len(m) /\ Len(admitted) - Len(m) + i = j
        <4>1. Len(u) = Len(m) - e /\ Len(admitted) \in Nat /\ Len(m) \in Nat /\ e \in 0..Len(m)
          BY <1>0, <1>1, <1>3
        <4>2. j \in Nat /\ j <= Len(admitted) - Len(u) /\ 1 <= j
          BY <4>1
        <4>. QED  BY <2>2, <3>1, <4>1, <4>2
      <3>3. m[i] = admitted[Len(admitted) - Len(m) + i] /\ m[i] <= time - Minute
        BY <1>0, <1>1, <3>2 DEF WindowOk
      <3>. QED  BY <3>2, <3>3
    <2>. QED  BY <1>0, <1>1, <1>3, <2>1, <2>2
  <1>7. WindowOk(u)
    BY <1>4, <1>5, <1>6 DEF WindowOk
  <1>. QED  BY <1>3, <1>7 DEF u, m

\* A set of positions is finite.
LEMMA PositionsAreFinite ==
  ASSUME NEW k \in Nat, NEW s, NEW d
  PROVE  IsFiniteSet(OfDay(s, k, d)) /\ Cardinality(OfDay(s, k, d)) \in Nat
  <1>1. IsFiniteSet(1..k) /\ OfDay(s, k, d) \in SUBSET (1..k)
    BY FS_Interval DEF OfDay
  <1>2. IsFiniteSet(OfDay(s, k, d))
    BY <1>1, FS_Subset
  <1>. QED  BY <1>2, FS_CardinalityType

\* ... and the date: a new one has no admission yet.
LEMMA DateIsRefreshed ==
  ASSUME SupportInv
  PROVE  LET c == IF admission.day = Date(time) THEN admission.count ELSE 0
         IN c \in Nat /\ DayOk(Date(time), c)
  <1>. DEFINE d == Date(time)
              c == IF admission.day = d THEN admission.count ELSE 0
  <1>0. /\ admitted \in Seq(Nat) /\ time \in Nat /\ Len(admitted) \in Nat /\ PerDay \in Nat
        /\ admission.day \in Nat /\ admission.count \in Nat
        /\ DayOk(admission.day, admission.count) /\ \A j \in 1..Len(admitted) : admitted[j] \in Nat
    <2>1. admitted \in Seq(Nat) /\ time \in Nat /\ admission \in AdmissionRow
      BY DEF SupportInv, SupportTypes
    <2>2. Len(admitted) \in Nat /\ \A j \in 1..Len(admitted) : admitted[j] \in Nat
      BY <2>1
    <2>3. admission.day \in Nat /\ admission.count \in Nat /\ PerDay \in Nat
      BY <2>1, LimitsAssumption DEF AdmissionRow
    <2>4. DayOk(admission.day, admission.count)
      BY DEF SupportInv
    <2>. QED  BY <2>1, <2>2, <2>3, <2>4
  <1>1. d \in Nat
    BY <1>0, DatesGoOn
  <1>2. CASE admission.day = d
    BY <1>0, <1>2
  <1>3. CASE admission.day # d
    <2>. HIDE DEF d
    <2>1. admission.day < d
      BY <1>0, <1>1, <1>3 DEF DayOk, d
    <2>3. \A j \in 1..Len(admitted) : Date(admitted[j]) \in Nat
      <3>1. \A t \in Nat : Date(t) \in Nat
        <4>1. \A t \in Nat : t <= t
          OBVIOUS
        <4>. QED  BY <4>1, DatesGoOn
      <3>. QED  BY <1>0, <3>1
    <2>2. ASSUME NEW j \in 1..Len(admitted)
          PROVE  Date(admitted[j]) < d
      <3>1. Date(admitted[j]) <= admission.day /\ Date(admitted[j]) \in Nat
        BY <1>0, <2>3 DEF DayOk
      <3>. QED  BY <1>0, <1>1, <2>1, <3>1
    <2>4. OfDay(admitted, Len(admitted), d) = {}
      BY <1>1, <2>2, <2>3 DEF OfDay
    <2>5. Cardinality(OfDay(admitted, Len(admitted), d)) = 0
      BY <2>4, FS_EmptySet
    <2>6. \A j \in 1..Len(admitted) : Date(admitted[j]) <= d
      BY <1>1, <2>2, <2>3
    <2>7. DayOk(d, 0)
      BY <1>0, <1>1, <2>5, <2>6 DEF DayOk, d
    <2>. QED  BY <1>3, <2>7 DEF d
  <1>. QED  BY <1>2, <1>3

\* Another time at the end changes nothing before it.
LEMMA TimesBefore ==
  ASSUME NEW s \in Seq(Nat), NEW t \in Nat, NEW k \in 1..Len(s), NEW d
  PROVE  LET v == Append(s, t)
         IN /\ v[k] = s[k] /\ OfDay(v, k, d) = OfDay(s, k, d)
            /\ Close(v, k, Minute) = Close(s, k, Minute)
  <1>. DEFINE v == Append(s, t)
  <1>1. \A j \in 1..k : j \in 1..Len(s) /\ v[j] = s[j]
    OBVIOUS
  <1>. HIDE DEF v
  <1>2. v[k] = s[k]
    BY <1>1
  <1>3. OfDay(v, k, d) = OfDay(s, k, d)
    BY <1>1 DEF OfDay
  <1>4. Close(v, k, Minute) = Close(s, k, Minute)
    BY <1>1, <1>2 DEF Close
  <1>. QED  BY <1>2, <1>3, <1>4 DEF v

\* One more admission, when the window and the counter have room for it.
LEMMA AdmissionFits ==
  ASSUME SupportInv, NEW m \in Seq(Nat), NEW c \in Nat, NEW d \in Nat, d = Date(time),
         WindowOk(m), DayOk(d, c), Len(m) < PerMinute, c < PerDay,
         admitted' = Append(admitted, time), time' = time
  PROVE  /\ admitted' \in Seq(Nat) /\ Ordered' /\ DayOk(d, c + 1)'
         /\ \A w : w = Append(m, time) => WindowOk(w)'
         /\ \A k \in 1..Len(admitted') : Bounded(admitted', k)
  <1>. DEFINE s == admitted
              n == Len(admitted)
              v == Append(admitted, time)
  <1>0. /\ s \in Seq(Nat) /\ time \in Nat /\ n \in Nat /\ PerDay \in Nat /\ PerMinute \in Nat
        /\ Minute \in Nat \ {0} /\ \A j \in 1..n : s[j] \in Nat
        /\ Ordered /\ Len(m) \in Nat /\ Len(m) <= n
    BY LimitsAssumption DEF SupportInv, SupportTypes, WindowOk
  <1>1. /\ v \in Seq(Nat) /\ Len(v) = n + 1 /\ v[n + 1] = time /\ \A j \in 1..n : v[j] = s[j]
        /\ n + 1 \in 1..n + 1 /\ n + 1 \in Nat
    BY <1>0
  <1>2. \A k \in 1..n : Bounded(v, k)
    BY <1>0, TimesBefore DEF SupportInv, Bounded
  <1>3. admitted' = v
    OBVIOUS
  <1>. HIDE DEF v
  <1>5. OfDay(v, n + 1, d) = OfDay(s, n, d) \cup {n + 1}
    <2>1. Date(v[n + 1]) = d
      BY <1>1
    <2>2. \A j \in 1..n : Date(v[j]) = Date(s[j])
      BY <1>1
    <2>3. 1..n + 1 = 1..n \cup {n + 1}
      BY <1>0
    <2>4. \A j : j \in OfDay(v, n + 1, d) <=> j \in OfDay(s, n, d) \cup {n + 1}
      BY <2>1, <2>2, <2>3 DEF OfDay
    <2>. QED  BY <2>4
  <1>6. Cardinality(OfDay(v, n + 1, d)) = c + 1
    <2>1. n + 1 \notin OfDay(s, n, d)
      BY <1>0 DEF OfDay
    <2>2. c = Cardinality(OfDay(s, n, d))
      BY DEF DayOk
    <2>3. IsFiniteSet(OfDay(s, n, d))
      BY <1>0, PositionsAreFinite
    <2>. QED  BY <1>5, <2>1, <2>2, <2>3, FS_AddElement
  <1>7. Cardinality(Close(v, n + 1, Minute)) <= PerMinute
    <2>. DEFINE I == (n - Len(m) + 1)..(n + 1)
    <2>1. IsFiniteSet(I) /\ Cardinality(I) = Len(m) + 1
      <3>1. n - Len(m) + 1 \in Int /\ n + 1 \in Int /\ ~(n - Len(m) + 1 > n + 1)
            /\ (n + 1) - (n - Len(m) + 1) + 1 = Len(m) + 1
        BY <1>0
      <3>. QED  BY <3>1, FS_Interval
    <2>2. ASSUME NEW j \in Close(v, n + 1, Minute)
          PROVE  j \in I
      <3>1. j \in 1..n + 1 /\ v[j] > time - Minute
        BY <1>1 DEF Close
      <3>2. CASE j \in 1..n - Len(m)
        <4>1. s[j] <= time - Minute
          BY <3>2 DEF WindowOk
        <4>2. j \in 1..n
          BY <1>0, <3>2
        <4>3. v[j] = s[j] /\ s[j] \in Nat
          BY <1>0, <1>1, <4>2
        <4>4. v[j] <= time - Minute /\ v[j] \in Nat /\ time - Minute \in Int
          BY <1>0, <4>1, <4>3
        <4>. QED  BY <3>1, <4>4
      <3>3. CASE j \notin 1..n - Len(m)
        BY <1>0, <3>1, <3>3
      <3>. QED  BY <3>2, <3>3
    <2>3. Close(v, n + 1, Minute) \in SUBSET I
      BY <2>2
    <2>. HIDE DEF I
    <2>4. /\ Cardinality(Close(v, n + 1, Minute)) <= Cardinality(I)
          /\ Cardinality(Close(v, n + 1, Minute)) \in Nat
      BY <2>1, <2>3, FS_Subset, FS_CardinalityType
    <2>. QED  BY <1>0, <2>1, <2>4
  <1>8. Bounded(v, n + 1)
    BY <1>0, <1>1, <1>6, <1>7 DEF Bounded
  <1>9. \A k \in 1..Len(v) : Bounded(v, k)
    <2>1. \A k \in 1..Len(v) : k \in 1..n \/ k = n + 1
      BY <1>0, <1>1
    <2>. QED  BY <1>2, <1>8, <2>1
  <1>10. Ordered'
    <2>1. ASSUME NEW j \in 1..n + 1
          PROVE  v[j] <= time
      <3>1. j \in 1..n \/ j = n + 1
        BY <1>0
      <3>2. j \in 1..n => v[j] <= time
        BY <1>0, <1>1 DEF Ordered
      <3>. QED  BY <1>0, <1>1, <3>1, <3>2
    <2>. QED  BY <1>1, <1>3, <2>1 DEF Ordered
  <1>11. DayOk(d, c + 1)'
    <2>1. d <= Date(time) /\ c + 1 <= PerDay
      BY <1>0
    <2>2. ASSUME NEW j \in 1..n + 1
          PROVE  Date(v[j]) <= d
      <3>1. j \in 1..n \/ j = n + 1
        BY <1>0
      <3>2. \A i \in 1..n : Date(s[i]) <= d
        BY DEF DayOk
      <3>3. j \in 1..n => Date(v[j]) <= d
        BY <1>1, <3>2
      <3>4. j = n + 1 => Date(v[j]) = d
        BY <1>1
      <3>. QED  BY <3>1, <3>3, <3>4
    <2>. QED  BY <1>1, <1>3, <1>6, <2>1, <2>2 DEF DayOk
  <1>12. ASSUME NEW w, w = Append(m, time)
         PROVE  WindowOk(w)'
    <2>1. Len(w) = Len(m) + 1 /\ w[Len(m) + 1] = time /\ \A i \in 1..Len(m) : w[i] = m[i]
      BY <1>0, <1>12
    <2>2. Len(w) <= Len(v) /\ Len(w) <= PerMinute /\ Len(v) - Len(w) = n - Len(m)
      BY <1>0, <1>1, <2>1
    <2>3. ASSUME NEW i \in 1..Len(w)
          PROVE  w[i] = v[Len(v) - Len(w) + i]
      <3>0. ASSUME NEW x \in Nat, NEW y \in Nat, x <= y, NEW k \in 1..x + 1
            PROVE  /\ k = x + 1 => y - x + k = y + 1
                   /\ k # x + 1 => k \in 1..x /\ y - x + k \in 1..y
        BY <3>0
      <3>a. i \in 1..Len(m) + 1
        BY <2>1
      <3>b. /\ i = Len(m) + 1 => n - Len(m) + i = n + 1
            /\ i # Len(m) + 1 => i \in 1..Len(m) /\ n - Len(m) + i \in 1..n
        BY <1>0, <3>0, <3>a
      <3>c. Len(v) - Len(w) + i = n - Len(m) + i
        BY <2>2
      <3>1. CASE i = Len(m) + 1
        <4>1. Len(v) - Len(w) + i = n + 1
          BY <3>1, <3>b, <3>c
        <4>. QED  BY <1>1, <2>1, <3>1, <4>1
      <3>2. CASE i # Len(m) + 1
        <4>1. i \in 1..Len(m) /\ n - Len(m) + i \in 1..n /\ Len(v) - Len(w) + i = n - Len(m) + i
          BY <3>2, <3>b, <3>c
        <4>2. m[i] = s[n - Len(m) + i]
          BY <4>1 DEF WindowOk
        <4>. QED  BY <1>1, <2>1, <4>1, <4>2
      <3>. QED  BY <3>1, <3>2
    <2>4. ASSUME NEW j \in 1..Len(v) - Len(w)
          PROVE  v[j] <= time - Minute
      <3>1. j \in 1..n - Len(m) /\ j \in 1..n
        BY <1>0, <2>2
      <3>. QED  BY <1>1, <3>1 DEF WindowOk
    <2>. QED  BY <1>3, <2>2, <2>3, <2>4 DEF WindowOk
  <1>. QED  BY <1>1, <1>3, <1>9, <1>10, <1>11, <1>12

\* Nothing is admitted by a step that leaves the window and the counter alone.
LEMMA NothingIsAdmitted ==
  ASSUME SupportInv, admitted' = admitted, time' = time
  PROVE  /\ Ordered' /\ \A k \in 1..Len(admitted') : Bounded(admitted', k)
         /\ \A m : WindowOk(m) => WindowOk(m)'
         /\ \A d, c : DayOk(d, c) => DayOk(d, c)'
  BY DEF SupportInv, Ordered, WindowOk, DayOk

LEMMA AcquireStep ==
  ASSUME SupportInv, NEW r \in Requests, P!Acquire(r)
  PROVE  SupportInv'
  <1>a. PICK m : m = P!Recent(admission.minute)
    OBVIOUS
  <1>b. PICK d : d = Date(time)
    OBVIOUS
  <1>c. PICK c : c = IF admission.day = d THEN admission.count ELSE 0
    OBVIOUS
  <1>d. PICK a : a = P!Refreshed
    OBVIOUS
  <1>0. /\ SupportTypes /\ SlotsOk /\ admission \in AdmissionRow /\ admission.active \in Nat
        /\ request \in [Requests -> RequestRow] /\ admitted \in Seq(Nat) /\ time \in Nat
        /\ Slots \in Nat /\ time' = time /\ P!NoRequest = request[r]
    BY LimitsAssumption DEF SupportInv, SupportTypes, AdmissionRow, P!Acquire
  <1>1. m \in Seq(Nat) /\ WindowOk(m)
    BY <1>a, WindowIsRefreshed
  <1>2. c \in Nat /\ DayOk(d, c)
    BY <1>b, <1>c, DateIsRefreshed
  <1>3. d \in Nat
    BY <1>0, <1>b, DatesGoOn
  <1>4. a = [admission EXCEPT !.count = c, !.day = d, !.minute = m]
    BY <1>0, <1>a, <1>b, <1>c, <1>d DEF P!Refreshed, P!Today, Date, AdmissionRow
  <1>5. /\ a \in AdmissionRow /\ a.active = admission.active /\ a.minute = m /\ a.day = d
        /\ a.count = c
    BY <1>0, <1>1, <1>2, <1>3, <1>4 DEF AdmissionRow
  <1>6. CASE ~P!Admits(a)
    <2>1. admission' = a /\ UNCHANGED <<request, admitted, time>>
      BY <1>6, <1>d DEF P!Acquire
    <2>2. SlotsOk'
      BY <1>0, <1>5, <2>1 DEF SlotsOk, P!Working
    <2>3. SupportTypes'
      BY <1>0, <1>5, <2>1 DEF SupportTypes
    <2>4. WindowOk(m)' /\ DayOk(d, c)'
      BY <1>1, <1>2, <2>1, NothingIsAdmitted
    <2>. QED  BY <1>5, <2>1, <2>2, <2>3, <2>4, NothingIsAdmitted DEF SupportInv
  <1>7. CASE P!Admits(a)
    <2>6. PICK w : w = Append(m, time)
      OBVIOUS
    <2>. DEFINE x == [waits |-> TRUE, thread |-> "check"]
    <2>1. /\ admission' = [a EXCEPT !.active = a.active + 1, !.count = a.count + 1,
                                    !.minute = Append(a.minute, time)]
          /\ request' = [request EXCEPT ![r] = x] /\ admitted' = Append(admitted, time)
      BY <1>7, <1>d DEF P!Acquire
    <2>2. admission.active < Slots /\ Len(m) < PerMinute /\ c < PerDay
      BY <1>5, <1>7 DEF P!Admits
    <2>3. x \in RequestRow /\ x.thread = "check" /\ request[r].thread = "none"
      BY <1>0 DEF RequestRow, P!NoRequest
    <2>4. w \in Seq(Nat)
      BY <1>0, <1>1, <2>6
    <2>5. admission' = [a EXCEPT !.active = admission.active + 1, !.count = c + 1, !.minute = w]
      BY <1>5, <2>1, <2>6
    <2>. HIDE DEF x
    <2>7. /\ admission' \in AdmissionRow /\ admission'.active = admission.active + 1
          /\ admission'.count = c + 1 /\ admission'.minute = w /\ admission'.day = d
      <3>1. admission.active + 1 \in Nat /\ c + 1 \in Nat
        BY <1>0, <1>2
      <3>. QED  BY <1>5, <2>4, <2>5, <3>1 DEF AdmissionRow
    <2>8. /\ admitted' \in Seq(Nat) /\ Ordered' /\ DayOk(d, c + 1)' /\ WindowOk(w)'
          /\ \A k \in 1..Len(admitted') : Bounded(admitted', k)
      BY <1>0, <1>1, <1>2, <1>3, <1>b, <2>1, <2>2, <2>6, AdmissionFits
    <2>9. request' \in [Requests -> RequestRow]
      BY <1>0, <2>1, <2>3
    <2>10. P!Working' = P!Working \cup {r} /\ r \notin P!Working
      BY <1>0, <2>1, <2>3 DEF P!Working
    <2>11. SlotsOk'
      <3>1. IsFiniteSet(P!Working)
        BY LimitsAssumption, FS_Subset DEF P!Working
      <3>2. Cardinality(P!Working') = Cardinality(P!Working) + 1
        BY <2>10, <3>1, FS_AddElement
      <3>3. admission.active + 1 <= Slots
        BY <1>0, <2>2
      <3>. QED  BY <1>0, <2>7, <3>2, <3>3 DEF SlotsOk
    <2>12. SupportTypes'
      BY <1>0, <2>7, <2>8, <2>9 DEF SupportTypes
    <2>13. WindowOk(admission.minute)' /\ DayOk(admission.day, admission.count)'
      BY <2>7, <2>8
    <2>. QED  BY <2>8, <2>11, <2>12, <2>13 DEF SupportInv
  <1>. QED  BY <1>6, <1>7

LEMMA ThreadStep ==
  ASSUME SupportInv, NEW r \in Requests,
         P!Check(r) \/ P!Search(r) \/ P!Generate(r) \/ P!StopWaiting(r)
  PROVE  SupportInv'
  <1>0. /\ SupportTypes /\ SlotsOk /\ admission \in AdmissionRow /\ admission.active \in Nat
        /\ request \in [Requests -> RequestRow] /\ admitted \in Seq(Nat) /\ time \in Nat
        /\ Slots \in Nat /\ IsFiniteSet(P!Working) /\ request[r] \in RequestRow
    BY LimitsAssumption, FS_Subset DEF SupportInv, SupportTypes, AdmissionRow, P!Working
  <1>1. ASSUME NEW n \in Nat, admission' = [admission EXCEPT !.active = n],
               request' \in [Requests -> RequestRow], UNCHANGED <<admitted, time>>,
               n = Cardinality(P!Working'), n <= Slots
        PROVE  SupportInv'
    <2>1. /\ admission' \in AdmissionRow /\ admission'.active = n /\ admission'.day = admission.day
          /\ admission'.minute = admission.minute /\ admission'.count = admission.count
      BY <1>0, <1>1 DEF AdmissionRow
    <2>2. SlotsOk' /\ SupportTypes'
      BY <1>0, <1>1, <2>1 DEF SlotsOk, SupportTypes
    <2>3. WindowOk(admission.minute)' /\ DayOk(admission.day, admission.count)'
      BY <1>1, <2>1, NothingIsAdmitted DEF SupportInv
    <2>. QED  BY <1>1, <2>2, <2>3, NothingIsAdmitted DEF SupportInv
  <1>2. ASSUME request[r].thread # "none", P!Finish(r)
        PROVE  SupportInv'
    <2>1. /\ request' = [request EXCEPT ![r] = P!NoRequest] /\ UNCHANGED <<admitted, time>>
          /\ admission' = [admission EXCEPT !.active = admission.active - 1]
      BY <1>2 DEF P!Finish, P!ActiveAfter
    <2>2. P!NoRequest \in RequestRow /\ P!NoRequest.thread = "none"
      BY DEF P!NoRequest, RequestRow
    <2>3. r \in P!Working /\ P!Working' = P!Working \ {r} /\ request' \in [Requests -> RequestRow]
      BY <1>0, <1>2, <2>1, <2>2 DEF P!Working
    <2>4. /\ Cardinality(P!Working') = admission.active - 1 /\ IsFiniteSet(P!Working')
          /\ Cardinality(P!Working') \in Nat
      BY <1>0, <2>3, FS_RemoveElement, FS_CardinalityType DEF SlotsOk
    <2>5. admission.active - 1 \in Nat /\ admission.active - 1 <= Slots
      BY <1>0, <2>4 DEF SlotsOk
    <2>. QED  BY <1>1, <2>1, <2>3, <2>4, <2>5
  <1>3. ASSUME NEW x \in RequestRow, x.thread = "none" <=> request[r].thread = "none",
               request' = [request EXCEPT ![r] = x], UNCHANGED <<admission, admitted, time>>
        PROVE  SupportInv'
    <2>1. P!Working' = P!Working /\ request' \in [Requests -> RequestRow]
      BY <1>0, <1>3 DEF P!Working
    <2>2. admission' = [admission EXCEPT !.active = admission.active]
      BY <1>0, <1>3 DEF AdmissionRow
    <2>. QED  BY <1>0, <1>1, <1>3, <2>1, <2>2 DEF SlotsOk
  <1>4. ASSUME NEW step \in {"search", "generate"}, request[r].thread # "none", P!To(r, step)
        PROVE  SupportInv'
    <2>. DEFINE x == [request[r] EXCEPT !.thread = step]
    <2>1. request' = [request EXCEPT ![r] = x] /\ UNCHANGED <<admission, admitted, time>>
      BY <1>4 DEF P!To
    <2>2. x \in RequestRow /\ x.thread = step
      BY <1>0 DEF RequestRow
    <2>. HIDE DEF x
    <2>. QED  BY <1>3, <1>4, <2>1, <2>2
  <1>5. CASE P!StopWaiting(r)
    <2>. DEFINE x == [request[r] EXCEPT !.waits = FALSE]
    <2>1. /\ request' = [request EXCEPT ![r] = x] /\ UNCHANGED <<admitted, time>>
          /\ admission' = [admission EXCEPT !.active = admission.active]
      BY <1>5 DEF P!StopWaiting, P!ActiveAfter
    <2>2. x \in RequestRow /\ x.thread = request[r].thread
      BY <1>0 DEF RequestRow
    <2>. HIDE DEF x
    <2>3. UNCHANGED <<admission, admitted, time>>
      BY <1>0, <2>1 DEF AdmissionRow
    <2>. QED  BY <1>3, <2>1, <2>2, <2>3
  <1>6. CASE P!Check(r)
    BY <1>2, <1>4, <1>6 DEF P!Check
  <1>7. CASE P!Search(r)
    BY <1>2, <1>4, <1>7 DEF P!Search
  <1>8. CASE P!Generate(r)
    BY <1>2, <1>8 DEF P!Generate
  <1>. QED  BY <1>5, <1>6, <1>7, <1>8

LEMMA ClockStep ==
  ASSUME SupportInv, P!Tick
  PROVE  SupportInv'
  <1>0. /\ SupportTypes /\ time \in Nat /\ time' = time + 1 /\ UNCHANGED <<request, admission, admitted>>
        /\ admitted \in Seq(Nat) /\ \A j \in 1..Len(admitted) : admitted[j] \in Nat
        /\ Minute \in Nat /\ time' \in Nat /\ time <= time'
    BY LimitsAssumption DEF SupportInv, SupportTypes, P!Tick
  <1>1. SupportTypes' /\ SlotsOk'
    BY <1>0 DEF SupportTypes, SupportInv, SlotsOk, P!Working
  <1>2. Ordered'
    BY <1>0 DEF SupportInv, Ordered
  <1>3. WindowOk(admission.minute)'
    <2>1. WindowOk(admission.minute) /\ Len(admission.minute) \in Nat
      BY <1>0 DEF SupportInv, SupportTypes, AdmissionRow
    <2>2. \A j \in 1..Len(admitted) - Len(admission.minute) :
            j \in 1..Len(admitted) /\ admitted[j] <= time - Minute
      BY <1>0, <2>1 DEF WindowOk
    <2>3. \A j \in 1..Len(admitted) - Len(admission.minute) : admitted[j] <= time' - Minute
      BY <1>0, <2>2
    <2>. QED  BY <1>0, <2>1, <2>3 DEF WindowOk
  <1>4. DayOk(admission.day, admission.count)'
    <2>1. DayOk(admission.day, admission.count) /\ admission.day \in Nat
      BY <1>0 DEF SupportInv, SupportTypes, AdmissionRow
    <2>2. Date(time) \in Nat /\ Date(time') \in Nat /\ Date(time) <= Date(time')
      BY <1>0, DatesGoOn
    <2>3. admission.day <= Date(time')
      BY <2>1, <2>2 DEF DayOk
    <2>. QED  BY <1>0, <2>1, <2>3 DEF DayOk
  <1>5. \A k \in 1..Len(admitted') : Bounded(admitted', k)
    BY <1>0 DEF SupportInv
  <1>. QED  BY <1>1, <1>2, <1>3, <1>4, <1>5 DEF SupportInv

LEMMA SupportInvariance == P!SupportSpec => []SupportInv
  <1>1. P!SupportInit => SupportInv
    <2>. SUFFICES ASSUME P!SupportInit  PROVE SupportInv
      OBVIOUS
    <2>1. PICK e : e = <<>>
      OBVIOUS
    <2>2. e \in Seq(Nat) /\ Len(e) = 0
      BY <2>1
    <2>3. /\ request = [r \in Requests |-> P!NoRequest] /\ admitted = e /\ time = 0
          /\ admission = [active |-> 0, minute |-> e, day |-> 0, count |-> 0]
      BY <2>1 DEF P!SupportInit
    <2>4. P!NoRequest \in RequestRow /\ P!NoRequest.thread = "none"
      BY DEF P!NoRequest, RequestRow
    <2>5. /\ admission \in AdmissionRow /\ admission.active = 0 /\ admission.minute = e
          /\ admission.day = 0 /\ admission.count = 0
      BY <2>2, <2>3 DEF AdmissionRow
    <2>6. request \in [Requests -> RequestRow] /\ P!Working = {}
      BY <2>3, <2>4 DEF P!Working
    <2>7. SupportTypes /\ SlotsOk
      BY <2>2, <2>3, <2>5, <2>6, FS_EmptySet, LimitsAssumption DEF SupportTypes, SlotsOk
    <2>8. Ordered /\ WindowOk(e) /\ \A k \in 1..Len(admitted) : Bounded(admitted, k)
      BY <2>2, <2>3, LimitsAssumption DEF Ordered, WindowOk
    <2>9. DayOk(0, 0)
      <3>1. OfDay(admitted, Len(admitted), 0) = {}
        BY <2>2, <2>3 DEF OfDay
      <3>2. Date(time) \in Nat
        BY <2>3, DatesGoOn
      <3>3. Cardinality(OfDay(admitted, Len(admitted), 0)) = 0
        BY <3>1, FS_EmptySet
      <3>. QED  BY <2>2, <2>3, <3>2, <3>3, LimitsAssumption DEF DayOk
    <2>. QED  BY <2>5, <2>7, <2>8, <2>9 DEF SupportInv
  <1>2. SupportInv /\ [P!SupportNext]_P!supportVars => SupportInv'
    <2>. SUFFICES ASSUME SupportInv, [P!SupportNext]_P!supportVars  PROVE SupportInv'
      OBVIOUS
    <2>1. CASE P!Tick
      BY <2>1, ClockStep
    <2>2. ASSUME NEW r \in Requests,
                 \/ P!Acquire(r) \/ P!Check(r) \/ P!Search(r) \/ P!Generate(r) \/ P!StopWaiting(r)
          PROVE  SupportInv'
      BY <2>2, AcquireStep, ThreadStep
    <2>3. CASE UNCHANGED P!supportVars
      <3>1. UNCHANGED <<request, admission, admitted, time>>
        BY <2>3 DEF P!supportVars
      <3>2. SupportTypes' /\ SlotsOk' /\ WindowOk(admission.minute)'
            /\ DayOk(admission.day, admission.count)'
        BY <3>1 DEF SupportInv, SupportTypes, SlotsOk, P!Working, WindowOk, DayOk
      <3>. QED  BY <3>1, <3>2, NothingIsAdmitted DEF SupportInv
    <2>. QED  BY <2>1, <2>2, <2>3 DEF P!SupportNext
  <1>. QED  BY <1>1, <1>2, PTL DEF P!SupportSpec

\* acquire, release: threads, minute and day stay within their limits, through
\* timeouts, disconnects and midnight, for any number of requests and any
\* limits, and wherever in a minute or a day the admissions fall.
THEOREM LimitsHoldHolds == P!SupportSpec => []LimitsHold
  <1>1. ASSUME SupportInv  PROVE LimitsHold
    <2>1. P!SlotsAreThreads
      BY <1>1, CardinalityOfSupport DEF SupportInv, SlotsOk, P!SlotsAreThreads
    <2>2. ASSUME NEW k \in DOMAIN admitted
          PROVE  /\ P!Cardinality(P!InWindow(k, Minute)) <= PerMinute
                 /\ P!Cardinality({j \in 1..k : admitted[j] \div Midnight = admitted[k] \div Midnight})
                      <= PerDay
      <3>1. k \in 1..Len(admitted)
        BY <1>1, <2>2 DEF SupportInv, SupportTypes
      <3>2. Bounded(admitted, k)
        BY <1>1, <3>1 DEF SupportInv
      <3>3. /\ P!InWindow(k, Minute) = Close(admitted, k, Minute)
            /\ {j \in 1..k : admitted[j] \div Midnight = admitted[k] \div Midnight}
                 = OfDay(admitted, k, Date(admitted[k]))
        BY DEF P!InWindow, Close, OfDay, Date
      <3>. QED  BY <3>2, <3>3, CardinalityOfSupport DEF Bounded
    <2>. QED  BY <2>1, <2>2 DEF P!AdmissionsAreBounded, P!LimitsHold, LimitsHold
  <1>. QED  BY <1>1, SupportInvariance, PTL

-----------------------------------------------------------------------------
(* The knowledge base.  A document is cut by a recursive function, so what   *)
(* its passages are is shown from the last block of the document on.         *)

\* The lists after block i, up to the first block that is none.
LEMMA ListsEnd ==
  ASSUME NEW doc \in Seq(K!Block), NEW i \in 1..Len(doc)
  PROVE  LET j == K!ListsFrom(doc, i)
         IN /\ j \in i..Len(doc) /\ \A k \in i + 1 .. j : doc[k].list
            /\ j < Len(doc) => ~doc[j + 1].list
  <1>. DEFINE L    == Len(doc)
              T    == {n \in Nat : i + n <= L /\ \A k \in i + 1 .. i + n : doc[k].list}
              Q(j) == /\ \A k \in (i + 1)..j : doc[k].list
                      /\ j = L \/ ~doc[j + 1].list
  <1>0. L \in Nat /\ i \in Nat /\ 1 <= i /\ i <= L
    OBVIOUS
  <1>1. 0 \in T /\ T \in SUBSET Nat /\ \A n \in T : n <= L
    BY <1>0
  <1>2. PICK n \in T : \A m \in T : m <= n
    <2>1. T # {}
      BY <1>1
    <2>. HIDE DEF T
    <2>. QED  BY <1>0, <1>1, <2>1, GreatestNatural
  <1>3. PICK j : j = i + n
    OBVIOUS
  <1>4. j \in i..L /\ \A k \in i + 1 .. j : doc[k].list
    BY <1>0, <1>2, <1>3
  <1>5. ASSUME j # L, doc[j + 1].list
        PROVE  FALSE
    <2>1. n + 1 \in Nat /\ i + (n + 1) = j + 1 /\ j + 1 <= L
      BY <1>0, <1>2, <1>3, <1>4, <1>5
    <2>2. \A k \in i + 1 .. j + 1 : doc[k].list
      <3>1. \A k \in i + 1 .. j + 1 : k \in i + 1 .. j \/ k = j + 1
        BY <1>0, <1>4
      <3>. QED  BY <1>4, <1>5, <3>1
    <2>3. n + 1 \in T
      BY <2>1, <2>2
    <2>. QED  BY <1>2, <2>3
  <1>6. \E x \in i..L : Q(x)
    <2>1. Q(j)
      BY <1>4, <1>5
    <2>. QED  BY <1>4, <2>1
  <1>7. K!ListsFrom(doc, i) = CHOOSE x \in i..L : Q(x)
    BY DEF K!ListsFrom
  <1>. HIDE DEF Q, L
  <1>8. K!ListsFrom(doc, i) \in i..L /\ Q(K!ListsFrom(doc, i))
    BY <1>6, <1>7
  <1>. QED  BY <1>0, <1>8 DEF Q, L

\* A passage that opens with block i ends at e.
EndsWell(doc, i, e) ==
  /\ e \in i..Len(doc) /\ (e < Len(doc) => ~doc[e + 1].list)
  /\ doc[i].colon /\ i < Len(doc) => i < e

LEMMA PassageEnds ==
  ASSUME NEW doc \in Seq(K!Block), NEW i \in 1..Len(doc)
  PROVE  EndsWell(doc, i, K!PassageEnd(doc, i))
  <1>1. PICK j : j = K!ListsFrom(doc, i)
    OBVIOUS
  <1>2. j \in i..Len(doc) /\ (j < Len(doc) => ~doc[j + 1].list) /\ j \in 1..Len(doc)
    BY <1>1, ListsEnd
  <1>3. CASE doc[j].colon /\ j < Len(doc)
    <2>1. PICK e : e = K!ListsFrom(doc, j + 1)
      OBVIOUS
    <2>2. j + 1 \in 1..Len(doc)
      BY <1>2, <1>3
    <2>3. e \in j + 1 .. Len(doc) /\ (e < Len(doc) => ~doc[e + 1].list)
      BY <2>1, <2>2, ListsEnd
    <2>4. K!PassageEnd(doc, i) = e
      BY <1>1, <1>3, <2>1 DEF K!PassageEnd
    <2>. QED  BY <1>2, <2>3, <2>4 DEF EndsWell
  <1>4. CASE ~(doc[j].colon /\ j < Len(doc))
    <2>1. K!PassageEnd(doc, i) = j
      BY <1>1, <1>4 DEF K!PassageEnd
    <2>. QED  BY <1>2, <1>4, <2>1 DEF EndsWell
  <1>. QED  BY <1>3, <1>4

\* ps cuts doc from block i on.
Passage == [first: Nat, last: Nat]
Cuts(doc, ps, i) ==
  /\ ps \in Seq(Passage) /\ (i <= Len(doc) => ps # <<>>)
  /\ ps # <<>> => ps[1].first = i /\ ps[Len(ps)].last = Len(doc)
  /\ \A k \in 1..Len(ps) : /\ i <= ps[k].first /\ ps[k].first \in 1..Len(doc)
                           /\ EndsWell(doc, ps[k].first, ps[k].last)
  /\ \A k \in 1..Len(ps) - 1 : ps[k + 1].first = ps[k].last + 1
  /\ \A j, k \in 1..Len(ps) : j < k => ps[j].last < ps[k].first

\* An item put before a sequence.
LEMMA Prepending ==
  ASSUME NEW T, NEW x \in T, NEW s \in Seq(T)
  PROVE  /\ <<x>> \o s \in Seq(T) /\ Len(<<x>> \o s) = 1 + Len(s)
         /\ (<<x>> \o s)[1] = x
         /\ \A k \in 1..Len(s) : (<<x>> \o s)[k + 1] = s[k]
  <1>1. <<x>> \in Seq(T) /\ Len(<<x>>) = 1 /\ <<x>>[1] = x /\ Len(s) \in Nat
    OBVIOUS
  <1>2. <<x>> \o s \in Seq(T) /\ Len(<<x>> \o s) = 1 + Len(s)
    BY <1>1
  <1>3. (<<x>> \o s)[1] = x
    BY <1>1
  <1>4. ASSUME NEW k \in 1..Len(s)
        PROVE  (<<x>> \o s)[k + 1] = s[k]
    BY <1>1
  <1>. QED  BY <1>2, <1>3, <1>4

\* One passage more, before the others.
LEMMA OnePassageMore ==
  ASSUME NEW doc \in Seq(K!Block), NEW i \in 1..Len(doc), NEW e, EndsWell(doc, i, e),
         NEW rest, Cuts(doc, rest, e + 1), e = Len(doc) => rest = <<>>
  PROVE  Cuts(doc, <<[first |-> i, last |-> e]>> \o rest, i)
  <1>. DEFINE p  == [first |-> i, last |-> e]
              ps == <<p>> \o rest
  <1>0. i \in Nat /\ e \in Nat /\ i <= e /\ e <= Len(doc) /\ p \in Passage /\ Len(doc) \in Nat
    BY DEF EndsWell, Passage
  <1>1. rest \in Seq(Passage) /\ Len(rest) \in Nat
    BY DEF Cuts
  <1>2. /\ ps \in Seq(Passage) /\ Len(ps) = 1 + Len(rest) /\ ps[1] = p
        /\ \A k \in 1..Len(rest) : ps[k + 1] = rest[k]
    <2>. HIDE DEF p
    <2>1. ps \in Seq(Passage) /\ Len(ps) = 1 + Len(rest) /\ ps[1] = p
      BY <1>0, <1>1, Prepending
    <2>2. \A k \in 1..Len(rest) : ps[k + 1] = rest[k]
      BY <1>0, <1>1, Prepending
    <2>. QED  BY <2>1, <2>2
  <1>3. ps # <<>> /\ ps[Len(ps)].last = Len(doc)
    <2>1. CASE rest = <<>>
      <3>1. e = Len(doc)
        <4>1. ~(e + 1 <= Len(doc))
          BY <2>1 DEF Cuts
        <4>. QED  BY <1>0, <4>1
      <3>2. Len(ps) = 1
        BY <1>2, <2>1
      <3>. QED  BY <1>2, <3>1, <3>2
    <2>2. CASE rest # <<>>
      <3>1. Len(rest) \in 1..Len(rest) /\ ps[Len(ps)] = rest[Len(rest)]
        BY <1>1, <1>2, <2>2
      <3>. QED  BY <1>2, <2>2, <3>1 DEF Cuts
    <2>. QED  BY <2>1, <2>2
  <1>. HIDE DEF ps
  <1>4. \A k \in 1..Len(ps) : k = 1 \/ (k - 1 \in 1..Len(rest) /\ ps[k] = rest[k - 1])
    <2>1. ASSUME NEW k \in 1..Len(ps), k # 1
          PROVE  k - 1 \in 1..Len(rest) /\ ps[k] = rest[k - 1]
      <3>1. k - 1 \in 1..Len(rest) /\ (k - 1) + 1 = k
        BY <1>1, <1>2, <2>1
      <3>2. ps[(k - 1) + 1] = rest[k - 1]
        BY <1>2, <3>1
      <3>. QED  BY <3>1, <3>2
    <2>. QED  BY <2>1
  <1>5. ASSUME NEW k \in 1..Len(ps)
        PROVE  /\ i <= ps[k].first /\ ps[k].first \in 1..Len(doc)
               /\ EndsWell(doc, ps[k].first, ps[k].last)
    <2>1. CASE k = 1
      BY <1>0, <1>2, <2>1
    <2>2. CASE k # 1
      <3>1. k - 1 \in 1..Len(rest) /\ ps[k] = rest[k - 1]
        BY <1>4, <2>2
      <3>2. /\ e + 1 <= ps[k].first /\ ps[k].first \in 1..Len(doc)
            /\ EndsWell(doc, ps[k].first, ps[k].last)
        BY <3>1 DEF Cuts
      <3>. QED  BY <1>0, <3>2
    <2>. QED  BY <2>1, <2>2
  <1>6. ASSUME NEW k \in 1..Len(ps) - 1
        PROVE  ps[k + 1].first = ps[k].last + 1
    <2>1. k \in 1..Len(rest) /\ ps[k + 1] = rest[k]
      BY <1>1, <1>2
    <2>2. CASE k = 1
      <3>1. rest # <<>>
        BY <2>1
      <3>. QED  BY <1>2, <2>1, <2>2, <3>1 DEF Cuts
    <2>3. CASE k # 1
      <3>1. k - 1 \in 1..Len(rest) - 1 /\ ps[k] = rest[k - 1] /\ (k - 1) + 1 = k
        BY <1>1, <1>4, <2>1, <2>3
      <3>. QED  BY <2>1, <3>1 DEF Cuts
    <2>. QED  BY <2>2, <2>3
  <1>7. ASSUME NEW j \in 1..Len(ps), NEW k \in 1..Len(ps), j < k
        PROVE  ps[j].last < ps[k].first
    <2>1. k - 1 \in 1..Len(rest) /\ ps[k] = rest[k - 1]
      BY <1>1, <1>2, <1>4, <1>7
    <2>2. CASE j = 1
      <3>1. e + 1 <= rest[k - 1].first /\ rest[k - 1].first \in Nat
        BY <2>1 DEF Cuts
      <3>. QED  BY <1>0, <1>2, <2>1, <2>2, <3>1
    <2>3. CASE j # 1
      <3>1. j - 1 \in 1..Len(rest) /\ ps[j] = rest[j - 1]
        BY <1>4, <2>3
      <3>2. j - 1 < k - 1
        BY <1>7
      <3>. QED  BY <2>1, <3>1, <3>2 DEF Cuts
    <2>. QED  BY <2>2, <2>3
  <1>8. ps[1].first = i
    BY <1>2
  <1>9. Cuts(doc, ps, i)
    BY <1>2, <1>3, <1>5, <1>6, <1>7, <1>8 DEF Cuts
  <1>. QED  BY <1>9 DEF ps

\* _group_blocks, for every document.
LEMMA GroupsAreCuts ==
  ASSUME NEW doc \in Seq(K!Block)
  PROVE  Cuts(doc, K!GroupBlocks(doc), 1)
  <1>. DEFINE L     == Len(doc)
              Is(f) == f = [i \in 1..L + 1 |->
                              IF i > L THEN <<>>
                              ELSE <<[first |-> i, last |-> K!PassageEnd(doc, i)]>> \o f[K!PassageEnd(doc, i) + 1]]
  <1>0. L \in Nat
    OBVIOUS
  <1>1. \E f : Is(f)
    <2>1. PICK stops : stops = {L + 1}
      OBVIOUS
    <2>2. PICK piece : piece = [i \in 1..L |-> <<[first |-> i, last |-> K!PassageEnd(doc, i)]>>]
      OBVIOUS
    <2>3. PICK next : next = [i \in 1..L |-> K!PassageEnd(doc, i) + 1]
      OBVIOUS
    <2>4. \A i \in 1..L + 1 : i \notin stops => i \in 1..L /\ next[i] \in i + 1 .. L + 1
      <3>1. \A i \in 1..L : K!PassageEnd(doc, i) \in i..L
        BY PassageEnds DEF EndsWell
      <3>. QED  BY <1>0, <2>1, <2>3, <3>1
    <2>5. PICK f : Unfolds(f, L + 1, stops, piece, next)
      <3>1. L + 1 \in Nat
        BY <1>0
      <3>2. \A i \in 1..L + 1 : i \notin stops => next[i] \in i + 1 .. L + 1
        BY <2>4
      <3>. HIDE DEF L
      <3>. QED  BY <3>1, <3>2, UnfoldingExists
    <2>6. ASSUME NEW i \in 1..L + 1
          PROVE  (IF i \in stops THEN <<>> ELSE piece[i] \o f[next[i]])
                   = IF i > L THEN <<>>
                     ELSE <<[first |-> i, last |-> K!PassageEnd(doc, i)]>> \o f[K!PassageEnd(doc, i) + 1]
      <3>1. i > L <=> i \in stops
        BY <1>0, <2>1
      <3>2. CASE i > L
        BY <3>1, <3>2
      <3>3. CASE ~(i > L)
        <4>1. i \in 1..L
          BY <1>0, <3>3
        <4>. QED  BY <2>2, <2>3, <3>1, <3>3, <4>1
      <3>. QED  BY <3>2, <3>3
    <2>7. Is(f)
      BY ONLY <2>5, <2>6 DEF Is, Unfolds
    <2>. QED  BY <2>7
  <1>2. PICK f : f = CHOOSE g : Is(g)
    OBVIOUS
  <1>3. Is(f)
    BY <1>1, <1>2
  <1>4. K!GroupBlocks(doc) = f[1]
    BY <1>2 DEF K!GroupBlocks
  <1>5. \A i \in 1..L + 1 : i > L => f[i] = <<>>
    BY <1>3
  <1>. DEFINE S == {i \in 1..L + 1 : Cuts(doc, f[i], i)}
  <1>6. ASSUME NEW i \in 1..L + 1, \A j \in i + 1 .. L + 1 : j \in S
        PROVE  Cuts(doc, f[i], i)
    <2>1. CASE i > L
      <3>1. i = L + 1 /\ f[i] = <<>>
        BY <1>0, <1>5, <2>1
      <3>. QED  BY <1>0, <3>1 DEF Cuts
    <2>2. CASE ~(i > L)
      <3>1. i \in 1..L
        BY <1>0, <2>2
      <3>2. PICK e : e = K!PassageEnd(doc, i)
        OBVIOUS
      <3>3. EndsWell(doc, i, e) /\ e + 1 \in i + 1 .. L + 1 /\ e + 1 \in 1..L + 1
        BY <1>0, <3>1, <3>2, PassageEnds DEF EndsWell
      <3>4. Cuts(doc, f[e + 1], e + 1)
        BY <1>6, <3>3
      <3>5. e = L => f[e + 1] = <<>>
        BY <1>0, <1>5
      <3>6. f[i] = <<[first |-> i, last |-> e]>> \o f[e + 1]
        BY <1>3, <2>2, <3>2
      <3>. HIDE DEF Is, S
      <3>. QED  BY <3>1, <3>3, <3>4, <3>5, <3>6, OnePassageMore
    <2>. QED  BY <2>1, <2>2
  <1>7. \A i \in 1..L + 1 : i \in S
    <2>1. \A i \in 1..L + 1 : (\A j \in i + 1 .. L + 1 : j \in S) => i \in S
      BY <1>6
    <2>2. 1 \in Int /\ L + 1 \in Int
      BY <1>0
    <2>. HIDE DEF S, L
    <2>. QED  BY <2>1, <2>2, Descending
  <1>8. Cuts(doc, f[1], 1)
    BY <1>0, <1>7
  <1>. QED  BY <1>4, <1>8

\* A passage is filed under the countries that its own text names.
Filed(chunk) == /\ chunk.countries = K!Jurisdiction(chunk.text)
                /\ K!Named(chunk.text) \subseteq {"US", "ES"}
AllFiled(chunks) == \A k \in DOMAIN chunks : Filed(chunks[k])

LEMMA ChunksAreFiled ==
  ASSUME NEW doc \in Seq(K!Block)
  PROVE  AllFiled(K!ChunkDocument(doc))
  <1>. DEFINE ps == K!GroupBlocks(doc)
  <1>1. Cuts(doc, ps, 1)
    BY GroupsAreCuts
  <1>2. ASSUME NEW k \in 1..Len(ps)
        PROVE  Filed(K!ChunkDocument(doc)[k])
    <2>1. PICK a, e : a = ps[k].first /\ e = ps[k].last
      OBVIOUS
    <2>2. a \in 1..Len(doc) /\ e \in a..Len(doc)
      BY <1>1, <2>1 DEF Cuts, EndsWell
    <2>3. PICK text : text = SubSeq(doc, a, e)
      OBVIOUS
    <2>4. \A j \in DOMAIN text : text[j] \in K!Block
      <3>1. \A j \in a..e : doc[j] \in K!Block
        BY <2>2
      <3>2. text \in Seq(K!Block)
        BY <2>2, <2>3, <3>1
      <3>. QED  BY <3>2
    <2>5. K!Named(text) \subseteq {"US", "ES"}
      BY <2>4 DEF K!Named, K!Block
    <2>6. K!ChunkDocument(doc)[k] = [text |-> text, countries |-> K!Jurisdiction(text)]
      BY <2>1, <2>3 DEF K!ChunkDocument, K!Text
    <2>. QED  BY <2>5, <2>6 DEF Filed
  <1>3. DOMAIN K!ChunkDocument(doc) = 1..Len(ps)
    BY DEF K!ChunkDocument
  <1>. QED  BY <1>2, <1>3 DEF AllFiled

IndexOk ==
  /\ index = [exists |-> index.exists, points |-> index.points]
  /\ AllFiled(index.points)
RunsOk ==
  /\ run = [r \in Indexers |-> [pc |-> run[r].pc, chunks |-> run[r].chunks]]
  /\ \A r \in Indexers : AllFiled(run[r].chunks)
KnowledgeInv == page \in Seq(K!Block) /\ page # <<>> /\ IndexOk /\ RunsOk

LEMMA KnowledgeInit == MCInit => KnowledgeInv
  <1>. SUFFICES ASSUME MCInit PROVE KnowledgeInv
    OBVIOUS
  <1>1. page \in Seq(K!Block) /\ page # <<>>
    <2>1. CASE part = "page"
      <3>1. PICK k \in 1..MaxBlocks : page \in [1..k -> K!Plain]
        BY <2>1 DEF MCInit, K!PageInit, K!Documents
      <3>2. k \in Nat /\ 1 <= k /\ K!Plain \subseteq K!Block
        BY DEF K!Plain
      <3>3. page \in Seq(K!Block) /\ Len(page) = k
        BY <3>1, <3>2
      <3>. QED  BY <3>2, <3>3
    <2>2. CASE part # "page"
      <3>1. [list |-> FALSE, colon |-> FALSE, names |-> {}] \in K!Block
        BY DEF K!Block
      <3>2. PICK b \in K!Block : page = <<b>>
        BY <2>2, <3>1 DEF MCInit
      <3>. QED  BY <3>2
    <2>. QED  BY <2>1, <2>2
  <1>2. IndexOk
    BY DEF MCInit, K!IndexInit, K!NoCollection, IndexOk, AllFiled
  <1>3. RunsOk
    BY DEF MCInit, K!IndexInit, K!NoRun, RunsOk, AllFiled
  <1>. QED  BY <1>1, <1>2, <1>3 DEF KnowledgeInv

LEMMA KnowledgeStep ==
  ASSUME KnowledgeInv, K!KnowledgeNext
  PROVE  IndexOk' /\ RunsOk' /\ page' = page
  <1>. PICK r \in Indexers : \/ K!LoadCorpus(r) \/ K!DropCollection(r) \/ K!EnsureCollection(r)
                            \/ K!Upsert(r) \/ K!SetupFails(r)
    BY DEF K!KnowledgeNext
  <1>0. AllFiled(<<>>)
    BY DEF AllFiled
  <1>1. CASE K!LoadCorpus(r)
    <2>1. PICK doc \in K!Documents(K!Short, MaxIndexed) :
             run' = [run EXCEPT ![r] = [pc |-> "ensure", chunks |-> K!ChunkDocument(doc)]]
      BY <1>1 DEF K!LoadCorpus
    <2>2. doc \in Seq(K!Block)
      <3>1. PICK k \in 1..MaxIndexed : doc \in [1..k -> K!Short]
        BY DEF K!Documents
      <3>2. k \in Nat /\ K!Short \subseteq K!Block
        BY DEF K!Short
      <3>. QED  BY <3>1, <3>2
    <2>3. PICK chunks : chunks = K!ChunkDocument(doc)
      OBVIOUS
    <2>4. AllFiled(chunks)
      BY <2>2, <2>3, ChunksAreFiled
    <2>5. RunsOk'
      BY <2>1, <2>3, <2>4 DEF KnowledgeInv, RunsOk
    <2>. QED  BY <1>1, <2>5 DEF K!LoadCorpus, KnowledgeInv, IndexOk
  <1>2. CASE K!DropCollection(r)
    BY <1>0, <1>2 DEF K!DropCollection, K!NoCollection, KnowledgeInv, IndexOk, RunsOk
  <1>3. CASE K!EnsureCollection(r)
    <2>1. IndexOk'
      BY <1>3 DEF K!EnsureCollection, KnowledgeInv, IndexOk
    <2>2. RunsOk'
      BY <1>3 DEF K!EnsureCollection, KnowledgeInv, RunsOk
    <2>. QED  BY <1>3, <2>1, <2>2 DEF K!EnsureCollection
  <1>4. CASE K!Upsert(r)
    <2>1. PICK new, old, now1 : /\ new = run[r].chunks /\ old = index.points
                               /\ now1 = [k \in DOMAIN old \cup DOMAIN new |->
                                            IF k \in DOMAIN new THEN new[k] ELSE old[k]]
      OBVIOUS
    <2>2. AllFiled(new) /\ AllFiled(old)
      BY <2>1 DEF KnowledgeInv, IndexOk, RunsOk
    <2>3. AllFiled(now1)
      <3>1. \A k \in DOMAIN now1 : (k \in DOMAIN new /\ now1[k] = new[k]) \/ (k \in DOMAIN old /\ now1[k] = old[k])
        BY <2>1
      <3>. QED  BY <2>2, <3>1 DEF AllFiled
    <2>4. index' = [index EXCEPT !.points = now1]
      BY <1>4, <2>1 DEF K!Upsert
    <2>5. IndexOk'
      BY <2>3, <2>4 DEF KnowledgeInv, IndexOk
    <2>6. RunsOk'
      BY <1>0, <1>4 DEF K!Upsert, K!NoRun, KnowledgeInv, RunsOk
    <2>. QED  BY <1>4, <2>5, <2>6 DEF K!Upsert
  <1>5. CASE K!SetupFails(r)
    BY <1>0, <1>5 DEF K!SetupFails, K!NoRun, KnowledgeInv, IndexOk, RunsOk
  <1>. QED  BY <1>1, <1>2, <1>3, <1>4, <1>5

LEMMA CutsAreSelfContained ==
  ASSUME KnowledgeInv
  PROVE  K!PassagesAreSelfContained
  <1>. DEFINE ps == K!GroupBlocks(page)
  <1>1. Cuts(page, ps, 1) /\ Len(page) \in Nat /\ 1 <= Len(page)
    BY GroupsAreCuts DEF KnowledgeInv
  <1>. HIDE DEF ps
  <1>2. ps \in Seq(Passage) /\ ps # <<>> /\ Len(ps) \in Nat /\ DOMAIN ps = 1..Len(ps)
    BY <1>1 DEF Cuts
  <1>3. ps[1].first = 1 /\ ps[Len(ps)].last = Len(page)
    BY <1>1, <1>2 DEF Cuts
  <1>4. \A k \in 1..(Len(ps) - 1) : ps[k + 1].first = ps[k].last + 1
    BY <1>1 DEF Cuts
  <1>5. \A k \in 1..Len(ps) : ps[k].first \in 1..Len(page) /\ EndsWell(page, ps[k].first, ps[k].last)
    BY <1>1 DEF Cuts
  <1>6. ASSUME NEW k \in 1..Len(ps), page[ps[k].first].list
        PROVE  ps[k].first = 1
    <2>1. CASE k = 1
      BY <1>3, <2>1
    <2>2. CASE k # 1
      <3>1. k - 1 \in 1..(Len(ps) - 1) /\ k - 1 \in 1..Len(ps) /\ (k - 1) + 1 = k
        BY <1>2, <2>2
      <3>2. ps[k].first = ps[k - 1].last + 1
        BY <1>4, <3>1
      <3>3. /\ ps[k - 1].last \in Nat /\ ps[k - 1].last < Len(page)
            /\ (ps[k - 1].last < Len(page) => ~page[ps[k - 1].last + 1].list)
        BY <1>1, <1>5, <3>1, <3>2 DEF EndsWell
      <3>. QED  BY <1>6, <3>2, <3>3
    <2>. QED  BY <2>1, <2>2
  <1>7. ASSUME NEW k \in 1..Len(ps), page[ps[k].first].colon, ps[k].first < Len(page), NEW j \in 1..Len(ps)
        PROVE  ps[j].first # ps[k].first + 1
    <2>0. /\ ps[k].first \in Nat /\ ps[k].last \in Nat /\ ps[k].first < ps[k].last
          /\ ps[j].first \in Nat /\ ps[j].last \in Nat /\ ps[j].first <= ps[j].last
      BY <1>1, <1>5, <1>7 DEF EndsWell
    <2>1. CASE j <= k
      <3>1. j = k \/ ps[j].last < ps[k].first
        BY <1>1, <2>1 DEF Cuts
      <3>. QED  BY <2>0, <3>1
    <2>2. CASE k < j
      <3>1. ps[k].last < ps[j].first
        BY <1>1, <2>2 DEF Cuts
      <3>. QED  BY <2>0, <3>1
    <2>. QED  BY <2>1, <2>2
  <1>8. \A i \in {ps[k].first : k \in DOMAIN ps} : page[i].list => i = 1
    BY <1>2, <1>6
  <1>9. \A i \in {ps[k].first : k \in DOMAIN ps} :
           page[i].colon /\ i < Len(page) => i + 1 \notin {ps[k].first : k \in DOMAIN ps}
    BY <1>2, <1>7
  <1>. QED  BY <1>3, <1>4, <1>8, <1>9 DEF K!PassagesAreSelfContained, ps

LEMMA FiledIsRetrievedRightly ==
  ASSUME NEW chunk, Filed(chunk), NEW country \in chunk.countries
  PROVE  K!Named(chunk.text) = {} \/ country \in K!Named(chunk.text)
  <1>. DEFINE N == K!Named(chunk.text)
  <1>1. CASE K!Cardinality(N) = 1
    BY <1>1 DEF Filed, K!Jurisdiction
  <1>2. CASE K!Cardinality(N) # 1
    <2>1. N # {"US"} /\ N # {"ES"}
      <3>1. Cardinality({"US"}) = 1 /\ Cardinality({"ES"}) = 1
        BY FS_Singleton
      <3>2. \A S : K!Cardinality(S) = Cardinality(S)
        BY DEF K!Cardinality, Cardinality
      <3>. QED  BY <1>2, <3>1, <3>2
    <2>2. N \subseteq {"US", "ES"} /\ country \in {"US", "ES"}
      BY <1>2 DEF Filed, K!Jurisdiction
    <2>. QED  BY <2>1, <2>2
  <1>. QED  BY <1>1, <1>2

\* _group_blocks, _jurisdiction, setup, retrieve: for documents of any length,
\* any number of overlapping or failing runs and any edits between them,
\* passages are whole and nobody is served the other country's policy.
THEOREM PassagesAreSoundHolds == MCSpec => []PassagesAreSound
  <1>1. KnowledgeInv /\ [MCNext]_<<part, feedVars, rolloutVars, knowledgeVars, supportVars>> => KnowledgeInv'
    <2>. SUFFICES ASSUME KnowledgeInv, [MCNext]_<<part, feedVars, rolloutVars, knowledgeVars, supportVars>>
                  PROVE  KnowledgeInv'
      OBVIOUS
    <2>1. CASE UNCHANGED knowledgeVars
      BY <2>1 DEF knowledgeVars, KnowledgeInv, IndexOk, RunsOk
    <2>2. CASE K!KnowledgeNext
      BY <2>2, KnowledgeStep DEF KnowledgeInv
    <2>. QED  BY <2>1, <2>2 DEF MCNext
  <1>2. KnowledgeInv => PassagesAreSound
    <2>. SUFFICES ASSUME KnowledgeInv PROVE K!PassagesAreSelfContained /\ K!NoForeignPolicy
      BY DEF PassagesAreSound, K!PassagesAreSound
    <2>1. ASSUME NEW country \in {"US", "ES"}, NEW k \in K!Retrieve(country)
          PROVE  LET named == K!Named(index.points[k].text) IN named = {} \/ country \in named
      <3>1. Filed(index.points[k]) /\ country \in index.points[k].countries
        BY <2>1 DEF K!Retrieve, KnowledgeInv, IndexOk, AllFiled
      <3>. QED  BY <3>1, FiledIsRetrievedRightly
    <2>. QED  BY <2>1, CutsAreSelfContained DEF K!NoForeignPolicy
  <1>. QED  BY <1>1, <1>2, KnowledgeInit, PTL DEF MCSpec

-----------------------------------------------------------------------------
(* The composition.                                                        *)

\* The feed, the rollout, the knowledge base and public support side by side:
\* each is its own specification, with the others at rest, so what is proved of
\* each holds of all of them together.
THEOREM OperationsParts ==
  MCSpec => /\ F!FeedSpec /\ R!RolloutSpec /\ P!SupportSpec
            /\ [](StoppedFeedStops /\ RebuildsAreApproved /\ RunningCanWork
                  /\ JobsReportTruly /\ PassagesAreSound /\ LimitsHold)
  <1>. DEFINE all == <<part, feedVars, rolloutVars, knowledgeVars, supportVars>>
  <1>1. MCInit => F!FeedInit /\ R!RolloutInit /\ P!SupportInit
    BY DEF MCInit
  <1>2. [MCNext]_all => [F!FeedNext]_(F!feedVars)
    BY DEF MCNext, feedVars, F!feedVars
  <1>3. [MCNext]_all => [R!RolloutNext]_(R!rolloutVars)
    BY DEF MCNext, rolloutVars, R!rolloutVars
  <1>4. [MCNext]_all => [P!SupportNext]_(P!supportVars)
    BY DEF MCNext, supportVars, P!supportVars
  <1>5. MCSpec => F!FeedSpec /\ R!RolloutSpec /\ P!SupportSpec
    BY <1>1, <1>2, <1>3, <1>4, PTL DEF MCSpec, F!FeedSpec, R!RolloutSpec, P!SupportSpec
  <1>. QED
    BY <1>5, StoppedFeedStopsHolds, RebuildsAreApprovedHolds, RunningCanWorkHolds,
       JobsReportTrulyHolds, PassagesAreSoundHolds, LimitsHoldHolds, PTL
=============================================================================
