---------------------------- MODULE RollupProofs ----------------------------
(***************************************************************************)
(* Proofs about the hourly rollups and their activation                    *)
(* (RollupPublication), for every length of a week, of the trailing window *)
(* and of the retention.                                                   *)
(***************************************************************************)
EXTENDS RollupPublication, RecursionTheorems

LEMMA Bounds ==
  /\ MaxHour \in Nat /\ Trailing \in Nat /\ 1 <= Trailing /\ Trailing <= MaxHour
  /\ Retention \in Nat /\ Backfill \in Nat /\ Outage \in Nat /\ Resets \in Nat
  BY RollupAssumption

-----------------------------------------------------------------------------
(* What holds of the variables whatever runs are requested.                *)

Types ==
  /\ clock \in Nat /\ 2 * Trailing <= clock /\ clock <= 2 * MaxHour
  /\ IsFiniteSet(src) /\ src \subseteq Int
  /\ mark \in Nat /\ reset \in Nat /\ cursor \in Nat /\ 2 * cursor <= clock
  /\ guard \in [pc: {"idle", "waiting", "confirmed", "reseed"}, at: Nat, left: Nat] /\ guard.at <= clock
  /\ roll \in [Hours -> {Missing} \cup Nat]
  /\ DOMAIN run = DOMAIN NoRun

\* A run's window is not empty and ends before its cutoff, which no publication
\* has passed.
RunOk ==
  /\ run.pc \in {"idle", "captured", "computed"}
  /\ run.pc # "idle" =>
       /\ run.start \in Nat /\ run.cutoff \in Nat /\ run.end \in Nat
       /\ run.start < run.end /\ run.end <= run.cutoff
       /\ cursor <= run.cutoff /\ 2 * run.cutoff <= clock
  /\ run.pc = "computed" => run.rows \in [Window -> Nat]

\* A reset's boundary is behind the cursor by the time it takes effect.
BoundaryOk ==
  /\ run.confirms # FALSE => guard.pc = "waiting" /\ run.pc # "idle" /\ FloorHour(guard.at) <= run.cutoff
  /\ guard.pc # "idle" => 2 <= guard.at
  /\ guard.pc \in {"confirmed", "reseed"} => FloorHour(guard.at) <= cursor
  /\ guard.pc = "reseed" => reset # 0
  /\ reset # 0 => 2 <= reset /\ FloorHour(reset) <= cursor
  /\ reset = 0 => src \subseteq Nat

BaseInv == Types /\ RunOk /\ BoundaryOk

\* An hourly run ends at its cutoff, and begins at the cursor or before it,
\* unless it is the first to publish.
Hourly ==
  run.pc # "idle" => run.end = run.cutoff /\ (run.start <= cursor \/ \A h \in Hours : roll[h] = Missing)

\* From its first bucket to its end a table has no hole.
Grid(table, end) ==
  \A h \in Hours : table[h] # Missing =>
    h < end /\ \A k \in Hours : h <= k /\ k < end => table[k] # Missing

GridInv == Scoped = FALSE /\ BaseInv /\ Hourly /\ Grid(roll, cursor)

\* Halving an instant.
LEMMA Halves ==
  ASSUME NEW t \in Int
  PROVE  /\ FloorHour(t) \in Int /\ 2 * FloorHour(t) <= t /\ t <= 2 * FloorHour(t) + 1
         /\ CeilHour(t) \in Int /\ t <= 2 * CeilHour(t) /\ 2 * CeilHour(t) <= t + 1
  BY DEF FloorHour, CeilHour

LEMMA LeastIsOne ==
  ASSUME NEW S \in SUBSET Nat, S # {}
  PROVE  Min(S) \in S /\ \A x \in S : Min(S) <= x
  <1>1. \E x \in S : \A y \in S : x <= y
    BY LeastNatural
  <1>. QED  BY <1>1 DEF Min

\* What the upsert makes of the table.
LEMMA Upserts ==
  ASSUME BaseInv, run.pc = "computed"
  PROVE  /\ Upserted \in [Hours -> {Missing} \cup Nat]
         /\ Advanced = run.cutoff /\ Window \subseteq Hours /\ Window # {}
         /\ \A h \in Window : Upserted[h] = run.rows[h] /\ run.rows[h] \in Nat
         /\ \A h \in Hours \ Window : Upserted[h] = roll[h]
  <1>0. /\ run.start \in Nat /\ run.cutoff \in Nat /\ run.end \in Nat
        /\ run.start < run.end /\ run.end <= run.cutoff
        /\ cursor <= run.cutoff /\ 2 * run.cutoff <= clock /\ cursor \in Nat /\ clock \in Nat
        /\ run.rows \in [Window -> Nat] /\ roll \in [Hours -> {Missing} \cup Nat]
        /\ clock <= 2 * MaxHour
    BY DEF BaseInv, Types, RunOk
  <1>1. PICK s, e : s = run.start /\ e = run.end
    OBVIOUS
  <1>2. s \in Nat /\ e \in Nat /\ s < e /\ e <= MaxHour /\ Window = s..(e - 1)
    BY <1>0, <1>1, Bounds DEF Window
  <1>3. Window \subseteq Hours /\ Window # {}
    BY <1>2, Bounds DEF Hours
  <1>4. /\ \A h \in Window : Upserted[h] = run.rows[h] /\ run.rows[h] \in Nat
        /\ \A h \in Hours \ Window : Upserted[h] = roll[h]
    BY <1>0, <1>3 DEF Upserted
  <1>5. Upserted \in [Hours -> {Missing} \cup Nat]
    BY <1>0, <1>4 DEF Upserted
  <1>6. Advanced = run.cutoff
    BY <1>0 DEF Advanced, Larger
  <1>. QED  BY <1>3, <1>4, <1>5, <1>6

LEMMA UpsertKeepsTheGrid ==
  ASSUME GridInv, run.pc = "computed"
  PROVE  Grid(Upserted, run.cutoff) /\ run.cutoff - 1 \in Window
  <1>0. /\ run.start \in Nat /\ run.cutoff \in Nat /\ run.end = run.cutoff /\ run.start < run.cutoff
        /\ cursor <= run.cutoff /\ 2 * run.cutoff <= clock /\ cursor \in Nat /\ clock \in Nat
        /\ run.start <= cursor \/ \A h \in Hours : roll[h] = Missing
        /\ Grid(roll, cursor) /\ clock <= 2 * MaxHour
    BY DEF GridInv, BaseInv, Types, RunOk, Hourly
  <1>1. PICK s, c : s = run.start /\ c = run.cutoff
    OBVIOUS
  <1>2. s \in Nat /\ c \in Nat /\ s < c /\ Window = s..(c - 1)
    BY <1>0, <1>1 DEF Window
  <1>4. /\ \A h \in Window : Upserted[h] = run.rows[h] /\ run.rows[h] \in Nat
        /\ \A h \in Hours \ Window : Upserted[h] = roll[h]
    BY Upserts DEF GridInv
  <1>7. ASSUME NEW h \in Hours, Upserted[h] # Missing
        PROVE  h < c /\ \A k \in Hours : h <= k /\ k < c => Upserted[k] # Missing
    <2>0. \A k \in Hours : k \in Nat
      BY Bounds DEF Hours
    <2>1. \A k \in Window : Upserted[k] # Missing
      BY <1>4 DEF Missing
    <2>2. CASE h \in Window
      BY <1>2, <2>0, <2>1, <2>2
    <2>3. CASE h \notin Window
      <3>1. roll[h] # Missing
        BY <1>4, <1>7, <2>3
      <3>2. s <= cursor /\ h < cursor /\ \A k \in Hours : h <= k /\ k < cursor => roll[k] # Missing
        BY <1>0, <1>1, <3>1 DEF Grid
      <3>3. ASSUME NEW k \in Hours, h <= k, k < c
            PROVE  Upserted[k] # Missing
        BY <1>0, <1>1, <1>2, <1>4, <2>0, <2>1, <3>2, <3>3
      <3>. QED  BY <1>0, <1>1, <1>2, <2>0, <3>2, <3>3
    <2>. QED  BY <2>2, <2>3
  <1>. QED  BY <1>1, <1>2, <1>7 DEF Grid

\* Whatever happens to the source leaves the run's window and the buckets alone.
RunStays == \/ UNCHANGED run
            \/ \E x : run' = [run EXCEPT !.clean = x]
            \/ run' = [run EXCEPT !.confirms = FALSE]

LEMMA SameRun ==
  ASSUME BaseInv, UNCHANGED <<roll, cursor>>, clock' \in Nat, clock <= clock',
         RunStays
  PROVE  /\ RunOk' /\ DOMAIN run' = DOMAIN NoRun
         /\ run'.confirms = run.confirms \/ run'.confirms = FALSE
         /\ run'.pc = run.pc /\ run'.cutoff = run.cutoff /\ run'.start = run.start /\ run'.end = run.end
         /\ run'.scoped = run.scoped /\ run'.rows = run.rows
  <1>0. /\ DOMAIN run = {"pc", "start", "end", "cutoff", "scoped", "confirms", "rows", "clean"}
        /\ DOMAIN run = DOMAIN NoRun
        /\ RunOk /\ clock \in Nat
    BY DEF BaseInv, Types, NoRun
  <1>1. /\ DOMAIN run' = DOMAIN run
        /\ run'.confirms = run.confirms \/ run'.confirms = FALSE
        /\ run'.pc = run.pc /\ run'.cutoff = run.cutoff /\ run'.start = run.start /\ run'.end = run.end
        /\ run'.scoped = run.scoped /\ run'.rows = run.rows
    BY <1>0 DEF RunStays
  <1>3. RunOk'
    <2>1. run.pc # "idle" => run.cutoff \in Nat /\ 2 * run.cutoff <= clock'
      BY <1>0 DEF RunOk
    <2>2. Window' = Window
      BY <1>1 DEF Window
    <2>3. roll' = roll /\ cursor' = cursor
      OBVIOUS
    <2>4. run.pc # "idle" =>
            /\ run.start \in Nat /\ run.cutoff \in Nat /\ run.end \in Nat
            /\ run.start < run.end /\ run.end <= run.cutoff /\ cursor <= run.cutoff
      BY <1>0 DEF RunOk
    <2>5. run.pc = "computed" => run'.rows \in [Window' -> Nat]
      BY <1>0, <1>1, <2>2 DEF RunOk
    <2>6. run'.pc \in {"idle", "captured", "computed"}
      BY <1>0, <1>1 DEF RunOk
    <2>7. /\ run'.start = run.start /\ run'.cutoff = run.cutoff /\ run'.end = run.end /\ run'.pc = run.pc
      BY <1>1
    <2>8. run'.pc # "idle" =>
            /\ run'.start \in Nat /\ run'.cutoff \in Nat /\ run'.end \in Nat
            /\ run'.start < run'.end /\ run'.end <= run'.cutoff
            /\ cursor' <= run'.cutoff /\ 2 * run'.cutoff <= clock'
      BY <2>1, <2>3, <2>4, <2>7
    <2>. QED  BY <2>5, <2>6, <2>7, <2>8 DEF RunOk
  <1>. QED  BY <1>0, <1>1, <1>3

\* The steps of the source, of its guards and of time.
SourceNext ==
  \/ \E i \in {clock - 1, clock} : Move(i)
  \/ Checkpoint \/ PruneRow \/ StartReset \/ BlockReset \/ Truncate \/ Tick
  \/ \E i \in (clock - 2 * Backfill)..(clock - 1) : Reseed(i)
  \/ UNCHANGED vars

LEMMA SourceStep ==
  ASSUME BaseInv, SourceNext
  PROVE  BaseInv'
  <1>0. /\ Types /\ RunOk /\ BoundaryOk
        /\ clock \in Nat /\ 2 <= clock /\ mark \in Nat /\ cursor \in Nat /\ reset \in Nat
        /\ guard \in [pc: {"idle", "waiting", "confirmed", "reseed"}, at: Nat, left: Nat]
        /\ guard.at \in Nat /\ guard.left \in Nat
        /\ IsFiniteSet(src) /\ src \subseteq Int
    BY Bounds DEF BaseInv, Types
  <1>1. ASSUME UNCHANGED <<roll, cursor>>, clock' \in Nat, clock <= clock', clock' <= 2 * MaxHour,
               RunStays, IsFiniteSet(src'), src' \subseteq Int, mark' \in Nat, reset' \in Nat,
               guard' \in [pc: {"idle", "waiting", "confirmed", "reseed"}, at: Nat, left: Nat],
               guard'.at \in {guard.at, clock}, BoundaryOk'
        PROVE  BaseInv'
    <2>1. RunOk' /\ DOMAIN run' = DOMAIN NoRun
      BY <1>1, SameRun
    <2>2. 2 * Trailing <= clock' /\ cursor' \in Nat /\ 2 * cursor' <= clock' /\ guard'.at <= clock'
          /\ roll' \in [Hours -> {Missing} \cup Nat]
      BY <1>0, <1>1, Bounds DEF Types
    <2>. QED  BY <1>0, <1>1, <2>1, <2>2 DEF BaseInv, Types
  <1>2. ASSUME NEW i \in {clock - 1, clock}, Move(i)
        PROVE  BaseInv'
    <2>1. /\ src' = src \cup {i} /\ UNCHANGED <<clock, mark, reset, guard, roll, cursor>>
          /\ RunStays
      BY <1>2 DEF Move, report, RunStays
    <2>2. IsFiniteSet(src') /\ src' \subseteq Int /\ i \in Nat
      BY <1>0, <2>1, FS_AddElement
    <2>3. BoundaryOk'
      <3>1. /\ run'.confirms = run.confirms \/ run'.confirms = FALSE
            /\ run'.pc = run.pc /\ run'.cutoff = run.cutoff
        <4>1. clock' \in Nat /\ clock <= clock' /\ UNCHANGED <<roll, cursor>> /\ RunStays
          BY <1>0, <2>1
        <4>. QED  BY <4>1, SameRun
      <3>. QED  BY <1>0, <2>1, <2>2, <3>1 DEF BoundaryOk
    <2>. QED  BY <1>0, <1>1, <2>1, <2>2, <2>3 DEF Types, RunStays
  <1>3. ASSUME Checkpoint \/ UNCHANGED vars
        PROVE  BaseInv'
    <2>1. UNCHANGED <<clock, src, reset, guard, roll, cursor, run>> /\ mark' \in Nat
      <3>1. CASE Checkpoint
        <4>1. mark' = clock - 2 * Retention /\ clock - 2 * Retention > mark
          BY <3>1 DEF Checkpoint
        <4>. QED  BY <1>0, <3>1, <4>1, Bounds DEF Checkpoint, report
      <3>2. CASE UNCHANGED vars
        BY <1>0, <3>2 DEF vars, source, report
      <3>. QED  BY <1>3, <3>1, <3>2
    <2>2. BoundaryOk'
      BY <1>0, <2>1 DEF BoundaryOk
    <2>. QED  BY <1>0, <1>1, <2>1, <2>2 DEF Types, RunStays
  <1>4. ASSUME PruneRow
        PROVE  BaseInv'
    <2>1. PICK i \in src : src' = src \ {i}
      BY <1>4 DEF PruneRow
    <2>2. UNCHANGED <<clock, mark, reset, guard, roll, cursor, run>>
      BY <1>4 DEF PruneRow, report
    <2>3. IsFiniteSet(src') /\ src' \subseteq src
      BY <1>0, <2>1, FS_RemoveElement
    <2>4. BoundaryOk'
      BY <1>0, <2>2, <2>3 DEF BoundaryOk
    <2>. QED  BY <1>0, <1>1, <2>2, <2>3, <2>4 DEF Types, RunStays
  <1>5. ASSUME StartReset
        PROVE  BaseInv'
    <2>1. /\ guard.pc = "idle" /\ guard' = [pc |-> "waiting", at |-> clock, left |-> guard.left - 1]
          /\ guard.left > 0 /\ UNCHANGED <<clock, src, mark, reset, roll, cursor, run>>
      BY <1>5 DEF StartReset, report
    <2>2. BoundaryOk'
      BY <1>0, <2>1 DEF BoundaryOk
    <2>3. guard' \in [pc: {"idle", "waiting", "confirmed", "reseed"}, at: Nat, left: Nat]
      <3>1. guard.left - 1 \in Nat
        BY <1>0, <2>1
      <3>. QED  BY <1>0, <2>1, <3>1
    <2>. QED  BY <1>0, <1>1, <2>1, <2>2, <2>3 DEF Types, RunStays
  <1>6. ASSUME BlockReset
        PROVE  BaseInv'
    <2>1. /\ guard' = [guard EXCEPT !.pc = "idle"] /\ run' = [run EXCEPT !.confirms = FALSE]
          /\ UNCHANGED <<clock, src, mark, reset, roll, cursor>>
      BY <1>6 DEF BlockReset, report
    <2>2. run'.confirms = FALSE
      BY <1>0, <2>1 DEF Types, NoRun
    <2>3. BoundaryOk'
      BY <1>0, <2>1, <2>2 DEF BoundaryOk
    <2>. QED  BY <1>0, <1>1, <2>1, <2>3 DEF Types, RunStays
  <1>7. ASSUME Truncate
        PROVE  BaseInv'
    <2>1. /\ guard.pc = "confirmed" /\ src' = {} /\ mark' = 0 /\ reset' = guard.at
          /\ guard' = [guard EXCEPT !.pc = "reseed"] /\ UNCHANGED <<clock, roll, cursor>>
          /\ RunStays
      BY <1>7 DEF Truncate, report, RunStays
    <2>2. /\ run'.confirms = run.confirms \/ run'.confirms = FALSE
          /\ run'.pc = run.pc /\ run'.cutoff = run.cutoff
      <3>1. clock' \in Nat /\ clock <= clock' /\ UNCHANGED <<roll, cursor>> /\ RunStays
        BY <1>0, <2>1
      <3>. QED  BY <3>1, SameRun
    <2>3. guard'.pc = "reseed" /\ guard'.at = guard.at /\ reset' = guard.at /\ 2 <= guard.at
      BY <1>0, <2>1 DEF BoundaryOk
    <2>4. FloorHour(guard.at) <= cursor /\ run'.confirms = FALSE
      BY <1>0, <2>1, <2>2 DEF BoundaryOk
    <2>5. BoundaryOk'
      <3>1. cursor' = cursor /\ FloorHour(guard'.at) <= cursor' /\ FloorHour(reset') <= cursor'
        BY <2>1, <2>3, <2>4
      <3>2. reset' # 0 /\ 2 <= reset' /\ 2 <= guard'.at
        BY <1>0, <2>3
      <3>. QED  BY <2>3, <2>4, <3>1, <3>2 DEF BoundaryOk
    <2>6. /\ guard' \in [pc: {"idle", "waiting", "confirmed", "reseed"}, at: Nat, left: Nat]
          /\ mark' \in Nat /\ reset' \in Nat
      BY <1>0, <2>1
    <2>7. IsFiniteSet(src') /\ src' \subseteq Int
      BY <2>1, FS_EmptySet
    <2>8. clock' \in Nat /\ clock <= clock' /\ clock' <= 2 * MaxHour
      BY <1>0, <2>1 DEF Types
    <2>. QED  BY <1>1, <2>1, <2>5, <2>6, <2>7, <2>8
  <1>8. ASSUME NEW i \in (clock - 2 * Backfill)..(clock - 1), Reseed(i)
        PROVE  BaseInv'
    <2>1. /\ guard.pc = "reseed" /\ guard' = [guard EXCEPT !.pc = "idle"] /\ src' = src \cup {i}
          /\ UNCHANGED <<clock, mark, reset, roll, cursor>>
          /\ RunStays
      BY <1>8 DEF Reseed, report, RunStays
    <2>2. /\ run'.confirms = run.confirms \/ run'.confirms = FALSE
          /\ run'.pc = run.pc /\ run'.cutoff = run.cutoff
      <3>1. clock' \in Nat /\ clock <= clock' /\ UNCHANGED <<roll, cursor>> /\ RunStays
        BY <1>0, <2>1
      <3>. QED  BY <3>1, SameRun
    <2>3. IsFiniteSet(src') /\ src' \subseteq Int
      BY <1>0, <2>1, Bounds, FS_AddElement
    <2>4. BoundaryOk'
      BY <1>0, <2>1, <2>2 DEF BoundaryOk
    <2>. QED  BY <1>0, <1>1, <2>1, <2>3, <2>4 DEF Types
  <1>9. ASSUME Tick
        PROVE  BaseInv'
    <2>1. clock < 2 * MaxHour /\ clock' = clock + 1 /\ UNCHANGED <<src, mark, reset, guard, roll, cursor, run>>
      BY <1>9 DEF Tick, source, report
    <2>2. BoundaryOk'
      BY <1>0, <2>1 DEF BoundaryOk
    <2>. QED  BY <1>0, <1>1, <2>1, <2>2, Bounds DEF RunStays
  <1>. QED  BY <1>2, <1>3, <1>4, <1>5, <1>6, <1>7, <1>8, <1>9 DEF SourceNext

\* They leave the buckets and the window of the run alone.
LEMMA SourceStays ==
  ASSUME SourceNext
  PROVE  UNCHANGED <<roll, cursor, active, weekly>> /\ RunStays
  BY DEF SourceNext, Move, Checkpoint, PruneRow, StartReset, BlockReset, Truncate, Tick, Reseed,
         report, source, vars, RunStays

\* Where an hourly run may begin: there is no reset before the first publication,
\* and until then the source is dated from 0 on.
LEMMA HourlyStartIsNat ==
  ASSUME BaseInv, NEW cutoff \in Nat, Trailing <= cutoff
  PROVE  /\ HourlyStart(cutoff) \in Nat
         /\ cursor # 0 => HourlyStart(cutoff) <= cursor
         /\ cursor = 0 => reset = 0
  <1>0. /\ BoundaryOk /\ cursor \in Nat /\ reset \in Nat /\ src \subseteq Int
    BY DEF BaseInv, Types
  <1>1. ASSUME cursor = 0, reset # 0
        PROVE  FALSE
    <2>1. 2 <= reset /\ FloorHour(reset) <= 0
      BY <1>0, <1>1 DEF BoundaryOk
    <2>. QED  BY <1>0, <2>1, Halves
  <1>2. cutoff - Trailing \in Nat
    BY Bounds
  <1>3. CASE cursor # 0
    BY <1>0, <1>2, <1>3 DEF HourlyStart, Smaller
  <1>4. CASE cursor = 0 /\ src # {}
    <2>1. Min(src) \in Nat
      BY <1>0, <1>1, <1>4, LeastIsOne DEF BoundaryOk
    <2>2. FloorHour(Min(src)) \in Nat
      BY <2>1, Halves
    <2>. QED  BY <1>1, <1>4, <2>2 DEF HourlyStart
  <1>5. CASE cursor = 0 /\ src = {}
    BY <1>1, <1>2, <1>5 DEF HourlyStart
  <1>. QED  BY <1>3, <1>4, <1>5

\* The window that a run captures.
Captures(scoped, confirms, cutoff, from, end) ==
  /\ cutoff = FloorHour(clock) /\ cursor <= cutoff /\ 2 * cutoff <= clock
  /\ from < end /\ end <= cutoff
  /\ ~scoped => end = cutoff /\ (cursor # 0 => from <= cursor)
  /\ ~scoped /\ reset = 0 => from = HourlyStart(cutoff)
  /\ run' = [NoRun EXCEPT !.pc = "captured", !.start = from, !.end = end, !.cutoff = cutoff,
                          !.scoped = scoped, !.confirms = confirms]

LEMMA CapturedWindow ==
  ASSUME BaseInv, NEW scoped \in BOOLEAN, NEW week \in Nat, NEW confirms \in BOOLEAN,
         Capture(scoped, week, confirms)
  PROVE  \E cutoff, from, end \in Nat : Captures(scoped, confirms, cutoff, from, end)
  <1>0. /\ BoundaryOk /\ clock \in Nat /\ 2 * Trailing <= clock /\ cursor \in Nat /\ 2 * cursor <= clock
        /\ reset \in Nat
    BY DEF BaseInv, Types
  <1>1. PICK cutoff : cutoff = FloorHour(clock)
    OBVIOUS
  <1>2. PICK start : start = IF scoped THEN week * WeekHours ELSE HourlyStart(cutoff)
    OBVIOUS
  <1>3. PICK end : end = IF scoped THEN Smaller(start + WeekHours, cutoff) ELSE cutoff
    OBVIOUS
  <1>4. PICK from : from = IF reset # 0 THEN Larger(start, FloorHour(reset)) ELSE start
    OBVIOUS
  <1>5. CutoffAt(clock) = cutoff
    BY <1>1 DEF CutoffAt
  <1>6. from < end
    BY <1>2, <1>3, <1>4, <1>5 DEF Capture
  <1>7. run' = [NoRun EXCEPT !.pc = "captured", !.start = from, !.end = end, !.cutoff = cutoff,
                             !.scoped = scoped, !.confirms = confirms]
    BY <1>2, <1>3, <1>4, <1>5 DEF Capture
  <1>8. cutoff \in Nat /\ 2 * cutoff <= clock /\ clock <= 2 * cutoff + 1 /\ Trailing <= cutoff /\ cursor <= cutoff
    <2>1. clock \in Int
      BY <1>0
    <2>2. /\ FloorHour(clock) \in Int /\ 2 * FloorHour(clock) <= clock /\ clock <= 2 * FloorHour(clock) + 1
      BY <2>1, Halves
    <2>. QED  BY <1>0, <1>1, <2>2, Bounds
  <1>9. start \in Nat
    <2>1. CASE scoped
      <3>1. WeekHours \in Nat
        BY RollupAssumption
      <3>2. week * WeekHours \in Nat
        BY <3>1
      <3>. QED  BY <1>2, <2>1, <3>2
    <2>2. CASE ~scoped
      BY <1>2, <1>8, <2>2, HourlyStartIsNat
    <2>. QED  BY <2>1, <2>2
  <1>10. end \in Nat /\ end <= cutoff /\ (~scoped => end = cutoff)
    BY <1>3, <1>8, <1>9, RollupAssumption DEF Smaller
  <1>11. reset # 0 => FloorHour(reset) \in Nat /\ FloorHour(reset) <= cursor
    BY <1>0, Halves DEF BoundaryOk
  <1>12. from \in Nat /\ (~scoped => (cursor # 0 => from <= cursor))
    <2>1. ~scoped => (cursor # 0 => start <= cursor)
      BY <1>2, <1>8, HourlyStartIsNat
    <2>. QED  BY <1>0, <1>4, <1>9, <1>11, <2>1 DEF Larger
  <1>13. ~scoped /\ reset = 0 => from = HourlyStart(cutoff)
    BY <1>2, <1>4
  <1>14. Captures(scoped, confirms, cutoff, from, end)
    BY <1>1, <1>6, <1>7, <1>8, <1>10, <1>12, <1>13 DEF Captures
  <1>. QED  BY <1>8, <1>10, <1>12, <1>14

LEMMA CaptureStep ==
  ASSUME BaseInv, NEW scoped \in BOOLEAN, NEW week \in Nat, NEW confirms \in BOOLEAN,
         Capture(scoped, week, confirms)
  PROVE  /\ BaseInv' /\ UNCHANGED <<roll, cursor>>
         /\ ~scoped => run'.end = run'.cutoff /\ (cursor # 0 => run'.start <= cursor)
  <1>0. /\ Types /\ RunOk /\ BoundaryOk
        /\ clock \in Nat /\ cursor \in Nat /\ reset \in Nat
        /\ guard.pc \in {"idle", "waiting", "confirmed", "reseed"} /\ guard.at \in Nat /\ guard.at <= clock
    BY DEF BaseInv, Types
  <1>1. UNCHANGED <<clock, src, mark, reset, guard, roll, cursor>> /\ (confirms => guard.pc = "waiting")
    BY DEF Capture, source, report
  <1>c. PICK cutoff, from, end \in Nat : Captures(scoped, confirms, cutoff, from, end)
    BY CapturedWindow
  <1>2. /\ cutoff = FloorHour(clock) /\ cursor <= cutoff /\ 2 * cutoff <= clock
        /\ from < end /\ end <= cutoff
        /\ ~scoped => end = cutoff /\ (cursor # 0 => from <= cursor)
        /\ run' = [NoRun EXCEPT !.pc = "captured", !.start = from, !.end = end, !.cutoff = cutoff,
                                !.scoped = scoped, !.confirms = confirms]
    BY <1>c DEF Captures
  <1>3. /\ DOMAIN run' = DOMAIN NoRun /\ run'.pc = "captured" /\ run'.start = from /\ run'.end = end
        /\ run'.cutoff = cutoff /\ run'.confirms = confirms
    BY <1>2 DEF NoRun
  <1>4. RunOk'
    BY <1>1, <1>2, <1>3 DEF RunOk
  <1>5. BoundaryOk'
    <2>1. guard' = guard /\ cursor' = cursor /\ reset' = reset /\ src' = src /\ BoundaryOk
      BY <1>0, <1>1
    <2>2. confirms => FloorHour(guard.at) <= cutoff
      <3>1. guard.at \in Int /\ clock \in Int
        BY <1>0
      <3>2. FloorHour(guard.at) \in Int /\ 2 * FloorHour(guard.at) <= guard.at
        BY <3>1, Halves
      <3>3. FloorHour(clock) \in Int /\ clock <= 2 * FloorHour(clock) + 1
        BY <3>1, Halves
      <3>. QED  BY <1>0, <1>2, <3>2, <3>3
    <2>3. run'.confirms # FALSE =>
            guard'.pc = "waiting" /\ run'.pc # "idle" /\ FloorHour(guard'.at) <= run'.cutoff
      BY <1>1, <1>3, <2>1, <2>2
    <2>. QED  BY <2>1, <2>3 DEF BoundaryOk
  <1>. QED  BY <1>0, <1>1, <1>2, <1>3, <1>4, <1>5 DEF BaseInv, Types

\* The number of rows of an hour is a number.
LEMMA CountIsNat ==
  ASSUME IsFiniteSet(src), NEW h \in Int
  PROVE  Count(h) \in Nat
  <1>1. IsFiniteSet({i \in src : FloorHour(i) = h})
    BY FS_Subset
  <1>. QED  BY <1>1, FS_CardinalityType DEF Count

\* Weeks are numbers.
LEMMA WeeksAreNat ==
  /\ WeekHours \in Nat /\ 0 < WeekHours
  /\ \A w \in Weeks : w \in Nat
  <1>1. MaxHour \in Nat /\ WeekHours \in Nat /\ 0 < WeekHours
    BY RollupAssumption
  <1>2. MaxHour \div WeekHours \in Int
    BY <1>1
  <1>. QED  BY <1>1, <1>2 DEF Weeks

\* A publication moves the cursor to the cutoff of its run, and with it
\* confirms the reset whose boundary that cutoff has passed.
LEMMA PublicationStep ==
  ASSUME BaseInv, run.pc = "computed", roll' = Upserted, cursor' = Advanced, run' = NoRun,
         Confirm, UNCHANGED <<clock, src, mark, reset>>
  PROVE  BaseInv'
  <1>0. /\ Types /\ RunOk /\ BoundaryOk
        /\ clock \in Nat /\ cursor \in Nat /\ reset \in Nat
        /\ guard \in [pc: {"idle", "waiting", "confirmed", "reseed"}, at: Nat, left: Nat]
        /\ guard.at \in Nat /\ guard.at <= clock
    BY DEF BaseInv, Types
  <1>1. /\ Upserted \in [Hours -> {Missing} \cup Nat] /\ Advanced = run.cutoff
    BY Upserts
  <1>2. run.cutoff \in Nat /\ cursor <= run.cutoff /\ 2 * run.cutoff <= clock
    BY <1>0 DEF RunOk
  <1>3. /\ guard'.pc = guard.pc \/ (guard'.pc = "confirmed" /\ guard.pc = "waiting" /\ run.confirms # FALSE)
        /\ guard'.at = guard.at /\ guard'.left = guard.left
        /\ guard' \in [pc: {"idle", "waiting", "confirmed", "reseed"}, at: Nat, left: Nat]
    <2>1. CASE guard' = guard
      BY <1>0, <2>1
    <2>2. CASE guard' = [guard EXCEPT !.pc = "confirmed"] /\ run.confirms # FALSE /\ guard.pc = "waiting"
      BY <1>0, <2>2
    <2>3. run.confirms = FALSE => guard' = guard
      BY DEF Confirm
    <2>4. guard.pc # "waiting" => guard' = guard
      BY DEF Confirm
    <2>5. guard' = guard \/ guard' = [guard EXCEPT !.pc = "confirmed"]
      BY DEF Confirm
    <2>. QED  BY <2>1, <2>2, <2>3, <2>4, <2>5
  <1>5. run'.pc = "idle" /\ run'.confirms = FALSE /\ DOMAIN run' = DOMAIN NoRun
    BY DEF NoRun
  <1>6. RunOk'
    BY <1>5 DEF RunOk
  <1>7. BoundaryOk'
    <2>0. FloorHour(guard.at) \in Int /\ FloorHour(reset) \in Int
      <3>1. guard.at \in Int /\ reset \in Int
        BY <1>0
      <3>. QED  BY <3>1, Halves
    <2>1. guard'.pc # "idle" => 2 <= guard'.at
      BY <1>0, <1>3 DEF BoundaryOk
    <2>2. guard'.pc \in {"confirmed", "reseed"} => FloorHour(guard'.at) <= cursor'
      <3>1. CASE guard'.pc = guard.pc
        BY <1>0, <1>1, <1>2, <1>3, <2>0, <3>1 DEF BoundaryOk
      <3>2. CASE guard.pc = "waiting" /\ run.confirms # FALSE
        BY <1>0, <1>1, <1>3, <3>2 DEF BoundaryOk
      <3>. QED  BY <1>3, <3>1, <3>2
    <2>3. guard'.pc = "reseed" => reset' # 0
      BY <1>0, <1>3 DEF BoundaryOk
    <2>4. reset' # 0 => 2 <= reset' /\ FloorHour(reset') <= cursor'
      BY <1>0, <1>1, <1>2, <2>0 DEF BoundaryOk
    <2>5. reset' = 0 => src' \subseteq Nat
      BY <1>0 DEF BoundaryOk
    <2>. QED  BY <1>5, <2>1, <2>2, <2>3, <2>4, <2>5 DEF BoundaryOk
  <1>8. Types'
    <2>1. /\ cursor' \in Nat /\ 2 * cursor' <= clock' /\ roll' \in [Hours -> {Missing} \cup Nat]
          /\ clock' = clock /\ src' = src /\ mark' = mark /\ reset' = reset /\ guard'.at <= clock'
      BY <1>0, <1>1, <1>2, <1>3
    <2>. QED  BY <1>0, <1>3, <1>5, <2>1 DEF Types
  <1>. QED  BY <1>6, <1>7, <1>8 DEF BaseInv

LEMMA RunStep ==
  ASSUME BaseInv, Run
  PROVE  BaseInv'
  <1>0. /\ Types /\ RunOk /\ BoundaryOk
        /\ DOMAIN run = DOMAIN NoRun /\ IsFiniteSet(src)
    BY DEF BaseInv, Types
  <1>1. CASE \E confirms \in BOOLEAN : Capture(FALSE, 0, confirms)
    <2>1. PICK confirms \in BOOLEAN : Capture(FALSE, 0, confirms)
      BY <1>1
    <2>2. 0 \in Nat /\ FALSE \in BOOLEAN
      OBVIOUS
    <2>. QED  BY <2>1, <2>2, CaptureStep
  <1>w. CASE \E week \in Weeks : Capture(TRUE, week, FALSE)
    <2>1. PICK week \in Weeks : Capture(TRUE, week, FALSE)
      BY <1>w
    <2>2. week \in Nat /\ TRUE \in BOOLEAN /\ FALSE \in BOOLEAN
      BY WeeksAreNat
    <2>. QED  BY <2>1, <2>2, CaptureStep
  <1>2. ASSUME run' = NoRun, UNCHANGED <<clock, src, mark, reset, guard, roll, cursor>>
        PROVE  BaseInv'
    <2>1. run'.pc = "idle" /\ run'.confirms = FALSE /\ DOMAIN run' = DOMAIN NoRun
      BY <1>2 DEF NoRun
    <2>2. RunOk'
      BY <2>1 DEF RunOk
    <2>3. BoundaryOk'
      BY <1>0, <1>2, <2>1 DEF BoundaryOk
    <2>. QED  BY <1>0, <1>2, <2>1, <2>2, <2>3 DEF BaseInv, Types
  <1>3. CASE Compute
    <2>1. /\ run.pc = "captured" /\ UNCHANGED <<clock, src, mark, reset, guard, roll, cursor>>
          /\ run' = [run EXCEPT !.pc = "computed", !.clean = Window, !.rows = [h \in Window |-> Count(h)]]
      BY <1>3 DEF Compute, source, report
    <2>2. DOMAIN run = {"pc", "start", "end", "cutoff", "scoped", "confirms", "rows", "clean"}
      BY <1>0 DEF NoRun
    <2>3. /\ run'.pc = "computed" /\ run'.start = run.start /\ run'.end = run.end /\ run'.cutoff = run.cutoff
          /\ run'.confirms = run.confirms /\ DOMAIN run' = DOMAIN NoRun
          /\ run'.rows = [h \in Window |-> Count(h)]
      BY <1>0, <2>1, <2>2
    <2>4. run.start \in Nat /\ run.end \in Nat
      BY <1>0, <2>1 DEF RunOk
    <2>5. run'.rows \in [Window -> Nat] /\ Window' = Window
      <3>1. \A h \in Window : Count(h) \in Nat
        BY <1>0, <2>4, CountIsNat DEF Window
      <3>. QED  BY <2>3, <3>1 DEF Window
    <2>6. RunOk'
      <3>1. run.pc # "idle"
        BY <2>1
      <3>. QED  BY <1>0, <2>1, <2>3, <2>5, <3>1 DEF RunOk
    <2>7. BoundaryOk'
      BY <1>0, <2>1, <2>3 DEF BoundaryOk
    <2>. QED  BY <1>0, <2>1, <2>3, <2>6, <2>7 DEF BaseInv, Types
  <1>4. CASE Abandon
    BY <1>2, <1>4 DEF Abandon, source, report
  <1>5. CASE Publish
    BY <1>5, PublicationStep DEF Publish
  <1>6. CASE Activate
    <2>1. run.pc = "computed" /\ run' = NoRun /\ UNCHANGED <<clock, src, mark, reset>>
      BY <1>6 DEF Activate
    <2>2. \/ roll' = Upserted /\ cursor' = Advanced /\ Confirm
          \/ UNCHANGED <<report, guard>>
      BY <1>6 DEF Activate
    <2>3. CASE roll' = Upserted /\ cursor' = Advanced /\ Confirm
      BY <2>1, <2>3, PublicationStep
    <2>4. CASE UNCHANGED <<report, guard>>
      BY <1>2, <2>1, <2>4 DEF report
    <2>. QED  BY <2>2, <2>3, <2>4
  <1>. QED  BY <1>1, <1>w, <1>3, <1>4, <1>5, <1>6 DEF Run

LEMMA BaseInit ==
  ASSUME Init
  PROVE  BaseInv
  <1>1. /\ clock = 2 * Trailing /\ src = {} /\ mark = 0 /\ reset = 0 /\ cursor = 0
        /\ guard = [pc |-> "idle", at |-> 0, left |-> Resets] /\ run = NoRun
        /\ roll = [h \in Hours |-> Missing]
    BY DEF Init
  <1>2. run.pc = "idle" /\ run.confirms = FALSE
    BY <1>1 DEF NoRun
  <1>3. Types
    BY <1>1, Bounds, FS_EmptySet DEF Types
  <1>4. RunOk
    BY <1>2 DEF RunOk
  <1>5. BoundaryOk
    BY <1>1, <1>2 DEF BoundaryOk
  <1>. QED  BY <1>3, <1>4, <1>5 DEF BaseInv

LEMMA BaseStep == BaseInv /\ [Next]_vars => BaseInv'
  BY SourceStep, RunStep DEF Next, SourceNext

-----------------------------------------------------------------------------
(* The grid of buckets when only hourly runs publish.                      *)

LEMMA GridInit ==
  ASSUME Scoped = FALSE, Init
  PROVE  GridInv
  <1>1. run.pc = "idle" /\ \A h \in Hours : roll[h] = Missing
    BY DEF Init, NoRun
  <1>. QED  BY <1>1, BaseInit DEF GridInv, Hourly, Grid

\* Without a cursor there is no bucket.
LEMMA NoBucketWithoutCursor ==
  ASSUME GridInv, cursor = 0, NEW h \in Hours
  PROVE  roll[h] = Missing
  <1>. SUFFICES ASSUME roll[h] # Missing PROVE FALSE
    OBVIOUS
  <1>1. h \in Nat /\ h < cursor
    BY Bounds DEF GridInv, Grid, Hours
  <1>. QED  BY <1>1

LEMMA GridStep == GridInv /\ [Next]_vars => GridInv'
  <1>. SUFFICES ASSUME GridInv, [Next]_vars PROVE GridInv'
    OBVIOUS
  <1>0. BaseInv' /\ BaseInv /\ Hourly /\ Grid(roll, cursor) /\ Scoped = FALSE
    BY BaseStep DEF GridInv
  <1>d. DOMAIN run = {"pc", "start", "end", "cutoff", "scoped", "confirms", "rows", "clean"}
    BY <1>0 DEF BaseInv, Types, NoRun
  <1>1. ASSUME UNCHANGED <<roll, cursor>>, Hourly'
        PROVE  GridInv'
    BY <1>0, <1>1 DEF GridInv, Grid
  <1>i. ASSUME run' = NoRun
        PROVE  Hourly'
    <2>1. run'.pc = "idle"
      BY <1>i DEF NoRun
    <2>. QED  BY <2>1 DEF Hourly
  <1>2. CASE SourceNext
    <2>1. UNCHANGED <<roll, cursor>> /\ RunStays
      BY <1>2, SourceStays
    <2>2. /\ run'.pc = run.pc /\ run'.cutoff = run.cutoff /\ run'.start = run.start /\ run'.end = run.end
      BY <1>d, <2>1 DEF RunStays
    <2>3. Hourly'
      BY <1>0, <2>1, <2>2 DEF Hourly
    <2>. QED  BY <1>1, <2>1, <2>3
  <1>3. CASE \E confirms \in BOOLEAN : Capture(FALSE, 0, confirms)
    <2>1. PICK confirms \in BOOLEAN : Capture(FALSE, 0, confirms)
      BY <1>3
    <2>2. 0 \in Nat /\ FALSE \in BOOLEAN
      OBVIOUS
    <2>3. UNCHANGED <<roll, cursor>> /\ run'.end = run'.cutoff /\ (cursor # 0 => run'.start <= cursor)
      BY <1>0, <2>1, <2>2, CaptureStep
    <2>4. Hourly'
      BY <2>3, NoBucketWithoutCursor DEF Hourly
    <2>. QED  BY <1>1, <2>3, <2>4
  <1>4. CASE Compute
    <2>1. /\ UNCHANGED <<roll, cursor>>
          /\ run.pc = "captured"
          /\ run' = [run EXCEPT !.pc = "computed", !.clean = Window, !.rows = [h \in Window |-> Count(h)]]
      BY <1>4 DEF Compute, report
    <2>2. /\ run'.cutoff = run.cutoff /\ run'.start = run.start /\ run'.end = run.end
      BY <1>d, <2>1
    <2>3. run.pc # "idle"
      BY <2>1
    <2>4. Hourly'
      BY <1>0, <2>1, <2>2, <2>3 DEF Hourly
    <2>. QED  BY <1>1, <2>1, <2>4
  <1>5. CASE Abandon
    BY <1>1, <1>5, <1>i DEF Abandon, report
  <1>6. ASSUME run.pc = "computed", roll' = Upserted, cursor' = Advanced, run' = NoRun
        PROVE  GridInv'
    <2>1. Advanced = run.cutoff /\ Grid(Upserted, run.cutoff)
      BY <1>0, <1>6, Upserts, UpsertKeepsTheGrid
    <2>. QED  BY <1>0, <1>6, <1>i, <2>1 DEF GridInv, Grid
  <1>7. CASE Publish
    BY <1>6, <1>7 DEF Publish
  <1>8. CASE Activate
    <2>1. run.pc = "computed" /\ run' = NoRun
      BY <1>8 DEF Activate
    <2>2. \/ roll' = Upserted /\ cursor' = Advanced
          \/ UNCHANGED report
      BY <1>8 DEF Activate
    <2>3. CASE roll' = Upserted /\ cursor' = Advanced
      BY <1>6, <2>1, <2>3
    <2>4. CASE UNCHANGED report
      BY <1>1, <1>i, <2>1, <2>4 DEF report
    <2>. QED  BY <2>2, <2>3, <2>4
  <1>. QED  BY <1>0, <1>2, <1>3, <1>4, <1>5, <1>7, <1>8 DEF Next, Run, SourceNext

LEMMA GridIsDense ==
  ASSUME GridInv
  PROVE  Dense
  <1>1. /\ Grid(roll, cursor) /\ cursor \in Nat /\ 2 * cursor <= clock /\ clock <= 2 * MaxHour /\ clock \in Nat
    BY DEF GridInv, BaseInv, Types
  <1>2. ASSUME Rolled # {}, NEW h \in Min(Rolled)..(cursor - 1)
        PROVE  roll[h] # Missing
    <2>1. Rolled \in SUBSET Nat
      BY Bounds DEF Rolled, Hours
    <2>2. PICK m : m = Min(Rolled)
      OBVIOUS
    <2>3. m \in Rolled
      BY <1>2, <2>1, <2>2, LeastIsOne
    <2>4. m \in Hours /\ roll[m] # Missing /\ m \in Nat
      BY <2>1, <2>3 DEF Rolled
    <2>5. h \in Int /\ m <= h /\ h < cursor
      BY <1>1, <1>2, <2>2, <2>4
    <2>6. h \in Hours
      BY <1>1, <2>4, <2>5, Bounds DEF Hours
    <2>. QED  BY <1>1, <2>4, <2>5, <2>6 DEF Grid
  <1>. QED  BY <1>2 DEF Dense

\* As long as every publication is that of an hourly run, the cursor never
\* passes an hour that has no bucket, whatever retention, a blocked or a
\* completed reset, a reseeding and an abandoned run do in between.  A run for
\* a single week (Scoped) moves the cursor past hours it did not compute: there it fails.
THEOREM DenseHolds == Scoped = FALSE /\ Spec => []Dense
  <1>1. Scoped = FALSE /\ Init => GridInv
    BY GridInit
  <1>2. GridInv /\ [Next]_vars => GridInv'
    BY GridStep
  <1>3. GridInv => Dense
    BY GridIsDense
  <1>. QED  BY <1>1, <1>2, <1>3, PTL DEF Spec

-----------------------------------------------------------------------------
(* What reconciliation compares.                                           *)

\* The sum over buckets is the sum of the table over the hours that have one.
LEMMA TotalIsSumOver ==
  ASSUME NEW table, NEW hours, NEW S, S = {h \in hours : table[h] # Missing}, IsFiniteSet(S)
  PROVE  Total(table, hours) = SumOver(table, S)
  <1>. DEFINE Folds(f) == f = [T \in SUBSET S |-> IF T = {} THEN 0
                                                  ELSE table[Some(T)] + f[T \ {Some(T)}]]
  <1>1. Total(table, hours) = (CHOOSE f : Folds(f))[S]
    BY DEF Total, Some, MapThenSumSet, MapThenFoldSet
  <1>2. ASSUME NEW f
        PROVE  Folds(f) <=> AddsUp(table, f, SUBSET S)
    BY DEF AddsUp, Step
  <1>. HIDE DEF Folds
  <1>3. PICK f : f = CHOOSE g : Folds(g)
    OBVIOUS
  <1>4. Folds(f)
    <2>1. \E g : Folds(g)
      BY <1>2, SumExists
    <2>. QED  BY <1>3, <2>1
  <1>5. f[S] = SumOver(table, S)
    BY <1>2, <1>4, SumIsUnique
  <1>. QED  BY <1>1, <1>3, <1>5

\* The sum over the source is the sum of the counts.
LEMMA CountsAreSumOver ==
  ASSUME NEW S, IsFiniteSet(S), NEW v, \A h \in S : v[h] = Count(h)
  PROVE  MapThenSumSet(Count, S) = SumOver(v, S)
  <1>. DEFINE Folds(f) == f = [T \in SUBSET S |-> IF T = {} THEN 0
                                                  ELSE Count(Some(T)) + f[T \ {Some(T)}]]
  <1>1. MapThenSumSet(Count, S) = (CHOOSE f : Folds(f))[S]
    BY DEF Some, MapThenSumSet, MapThenFoldSet
  <1>2. ASSUME NEW f
        PROVE  Folds(f) <=> AddsUp(v, f, SUBSET S)
    <2>1. \A T \in SUBSET S : T # {} => v[Some(T)] = Count(Some(T))
      BY DEF Some
    <2>2. \A T \in SUBSET S : Step(v, f, T) = IF T = {} THEN 0 ELSE Count(Some(T)) + f[T \ {Some(T)}]
      BY <2>1 DEF Step
    <2>. QED  BY <2>2 DEF AddsUp
  <1>. HIDE DEF Folds
  <1>3. PICK f : f = CHOOSE g : Folds(g)
    OBVIOUS
  <1>4. Folds(f)
    <2>1. \E g : Folds(g)
      BY <1>2, SumExists
    <2>. QED  BY <1>3, <2>1
  <1>5. f[S] = SumOver(v, S)
    BY <1>2, <1>4, SumIsUnique
  <1>. QED  BY <1>1, <1>3, <1>5

\* Hours that all have a bucket, with the count of their rows in it, agree.
LEMMA SameCountsAgree ==
  ASSUME NEW table, NEW hours, IsFiniteSet(hours),
         \A h \in hours : table[h] # Missing /\ table[h] = Count(h)
  PROVE  Total(table, hours) = MapThenSumSet(Count, hours)
  <1>1. hours = {h \in hours : table[h] # Missing}
    OBVIOUS
  <1>2. Total(table, hours) = SumOver(table, hours)
    BY <1>1, TotalIsSumOver
  <1>. QED  BY <1>2, CountsAreSumOver

\* A window holds finitely many hours.
LEMMA HoursAreFinite ==
  ASSUME NEW a \in Int, NEW b \in Int, NEW S \in SUBSET (a..b)
  PROVE  IsFiniteSet(S)
  BY FS_Interval, FS_Subset

\* The bounds that reconciliation takes.
LEMMA BoundsAreHours ==
  ASSUME NEW table, run.cutoff \in Int, mark \in Nat, Known(table) # {}
  PROVE  /\ FirstHour(table) \in Nat /\ mark <= 2 * FirstHour(table)
         /\ EndHour(table) \in Int /\ EndHour(table) <= run.cutoff
         /\ \E least, greatest \in Hours :
              /\ table[least] # Missing /\ least <= FirstHour(table)
              /\ table[greatest] # Missing /\ EndHour(table) <= greatest + 1
  <1>0. Known(table) \in SUBSET Nat /\ \A h \in Known(table) : h \in Hours /\ h <= MaxHour
    BY Bounds DEF Known, Hours
  <1>1. PICK least : least = Min(Known(table))
    OBVIOUS
  <1>2. least \in Known(table)
    BY <1>0, <1>1, LeastIsOne
  <1>3. PICK greatest : greatest = Max(Known(table))
    OBVIOUS
  <1>4. greatest \in Known(table)
    <2>1. \E x \in Known(table) : \A y \in Known(table) : y <= x
      BY <1>0, Bounds, GreatestNatural
    <2>2. \A x, y \in Nat : y <= x => x >= y
      OBVIOUS
    <2>3. \E x \in Known(table) : \A y \in Known(table) : x >= y
      BY <1>0, <2>1, <2>2
    <2>. QED  BY <1>3, <2>3 DEF Max
  <1>5. /\ least \in Nat /\ least \in Hours /\ table[least] # Missing
        /\ greatest \in Nat /\ greatest \in Hours /\ table[greatest] # Missing
    BY <1>0, <1>2, <1>4 DEF Known
  <1>6. FirstHour(table) \in Nat /\ least <= FirstHour(table) /\ mark <= 2 * FirstHour(table)
    <2>1. mark \in Int
      OBVIOUS
    <2>2. CeilHour(mark) \in Int /\ mark <= 2 * CeilHour(mark)
      BY <2>1, Halves
    <2>. QED  BY <1>1, <1>5, <2>2 DEF FirstHour, Larger
  <1>7. EndHour(table) \in Int /\ EndHour(table) <= greatest + 1 /\ EndHour(table) <= run.cutoff
    BY <1>3, <1>5 DEF EndHour, Smaller
  <1>. QED  BY <1>5, <1>6, <1>7

\* A table that says what the source says of every hour that retention has not
\* reached is found exact, between the bounds that reconciliation takes.
LEMMA TrueTableIsExact ==
  ASSUME NEW table, Grid(table, run.cutoff), run.cutoff \in Int, mark \in Nat,
         \A h \in Hours : table[h] # Missing /\ mark <= 2 * h => table[h] = Count(h),
         Known(table) # {}
  PROVE  Exact(table, FirstHour(table), EndHour(table))
  <1>1. PICK from : from = FirstHour(table)
    OBVIOUS
  <1>2. PICK to : to = EndHour(table)
    OBVIOUS
  <1>3. /\ from \in Nat /\ mark <= 2 * from /\ to \in Int /\ to <= run.cutoff
        /\ \E least, greatest \in Hours :
             /\ table[least] # Missing /\ least <= from
             /\ table[greatest] # Missing /\ to <= greatest + 1
    BY <1>1, <1>2, BoundsAreHours
  <1>4. PICK least, greatest \in Hours :
          /\ table[least] # Missing /\ least <= from
          /\ table[greatest] # Missing /\ to <= greatest + 1
    BY <1>3
  <1>5. least \in Nat /\ greatest \in Nat /\ greatest <= MaxHour
    BY Bounds DEF Hours
  <1>6. ASSUME NEW h \in from..(to - 1)
        PROVE  table[h] # Missing /\ table[h] = Count(h)
    <2>1. h \in Int /\ from <= h /\ h < to
      BY <1>3, <1>6
    <2>2. h \in Hours /\ least <= h /\ h < run.cutoff /\ mark <= 2 * h
      BY <1>3, <1>4, <1>5, <2>1, Bounds DEF Hours
    <2>3. table[h] # Missing
      BY <1>4, <2>2 DEF Grid
    <2>. QED  BY <2>2, <2>3
  <1>7. Exact(table, from, to)
    <2>1. ASSUME NEW hours \in SUBSET (from..(to - 1))
          PROVE  Total(table, hours) = MapThenSumSet(Count, hours)
      <3>1. IsFiniteSet(hours)
        <4>1. from \in Int /\ to - 1 \in Int
          BY <1>3
        <4>. QED  BY <4>1, HoursAreFinite
      <3>. QED  BY <1>6, <3>1, SameCountsAgree
    <2>. QED  BY <2>1 DEF Exact
  <1>. QED  BY <1>1, <1>2, <1>7

-----------------------------------------------------------------------------
(* What the buckets say of the source when no reset happens.               *)

NoReset == Resets = 0 /\ guard.pc = "idle" /\ guard.left = 0 /\ reset = 0

\* The hours of the candidate that no movement reached since Compute.
Clean ==
  /\ run.pc # "computed" => run.clean = {}
  /\ run.pc = "computed" =>
       /\ run.clean \subseteq Window /\ Window \ run.clean \subseteq late
       /\ \A h \in run.clean : mark <= 2 * h => run.rows[h] = Count(h)

\* A bucket tells its hour's rows, unless a movement came after it or retention
\* has taken some of them.
Buckets == \A h \in Hours \ late : roll[h] # Missing /\ mark <= 2 * h => roll[h] = Count(h)

SourceInv == GridInv /\ NoReset /\ Clean /\ Buckets /\ NoArtefact

\* A movement changes the count of its own hour only, and a row that retention
\* takes is of an hour before the checkpoint.
LEMMA OtherCountsStay ==
  ASSUME NEW i, src' = src \cup {i} \/ src' = src \ {i},
         NEW h, FloorHour(i) # h
  PROVE  Count(h)' = Count(h)
  <1>1. {j \in src' : FloorHour(j) = h} = {j \in src : FloorHour(j) = h}
    OBVIOUS
  <1>. QED  BY <1>1 DEF Count

LEMMA UpsertedIsTrue ==
  ASSUME SourceInv, run.pc = "computed"
  PROVE  \A h \in Hours \ (late \ run.clean) :
           Upserted[h] # Missing /\ mark <= 2 * h => Upserted[h] = Count(h)
  <1>1. /\ Window \subseteq Hours /\ \A h \in Window : Upserted[h] = run.rows[h]
        /\ \A h \in Hours \ Window : Upserted[h] = roll[h]
    BY Upserts DEF SourceInv, GridInv
  <1>2. /\ run.clean \subseteq Window /\ Window \ run.clean \subseteq late
        /\ \A h \in run.clean : mark <= 2 * h => run.rows[h] = Count(h)
        /\ \A h \in Hours \ late : roll[h] # Missing /\ mark <= 2 * h => roll[h] = Count(h)
    BY DEF SourceInv, Clean, Buckets
  <1>3. ASSUME NEW h \in Hours \ (late \ run.clean), Upserted[h] # Missing, mark <= 2 * h
        PROVE  Upserted[h] = Count(h)
    <2>1. CASE h \in run.clean
      BY <1>1, <1>2, <1>3, <2>1
    <2>2. CASE h \notin run.clean
      <3>1. h \notin late /\ h \notin Window
        BY <1>2, <1>3, <2>2
      <3>. QED  BY <1>1, <1>2, <1>3, <3>1
    <2>. QED  BY <2>1, <2>2
  <1>. QED  BY <1>3

\* The source moves, without a reset.
LEMMA SourceMoves ==
  ASSUME SourceInv,
         \/ \E i \in {clock - 1, clock} : Move(i)
         \/ Checkpoint \/ PruneRow \/ Tick \/ UNCHANGED vars
  PROVE  Clean' /\ Buckets' /\ UNCHANGED <<guard, reset, verdict>>
  <1>0. /\ DOMAIN run = {"pc", "start", "end", "cutoff", "scoped", "confirms", "rows", "clean"}
        /\ Clean /\ Buckets /\ clock \in Nat /\ 2 <= clock /\ mark \in Nat /\ src \subseteq Nat
        /\ run.pc = "computed" => Window \subseteq Hours
    <2>1. run.pc = "computed" => Window \subseteq Hours
      BY Upserts DEF SourceInv, GridInv
    <2>. QED  BY <2>1, Bounds DEF SourceInv, GridInv, BaseInv, Types, NoRun, BoundaryOk, NoReset
  <1>h. \A h \in Hours : h \in Nat
    BY Bounds DEF Hours
  <1>1. ASSUME NEW i \in {clock - 1, clock}, Move(i)
        PROVE  Clean' /\ Buckets' /\ UNCHANGED <<guard, reset, verdict>>
    <2>1. /\ src' = src \cup {i} /\ UNCHANGED <<mark, reset, guard, roll, verdict>>
          /\ run' = [run EXCEPT !.clean = @ \ {FloorHour(i)}]
          /\ late' = IF roll[FloorHour(i)] # Missing \/ FloorHour(i) \in run.clean
                     THEN late \cup {FloorHour(i)} ELSE late
      BY <1>1 DEF Move, report
    <2>2. /\ run'.pc = run.pc /\ run'.start = run.start /\ run'.end = run.end /\ run'.rows = run.rows
          /\ run'.clean = run.clean \ {FloorHour(i)}
      BY <1>0, <2>1
    <2>3. Window' = Window
      BY <2>2 DEF Window
    <2>4. \A h \in Hours : h # FloorHour(i) => Count(h)' = Count(h)
      BY <2>1, OtherCountsStay
    <2>5. Buckets'
      <3>1. ASSUME NEW h \in Hours \ late', roll[h] # Missing, mark <= 2 * h
            PROVE  roll[h] = Count(h)'
        <4>1. h # FloorHour(i) /\ h \notin late
          BY <2>1, <3>1
        <4>. QED  BY <1>0, <2>4, <3>1, <4>1 DEF Buckets
      <3>. QED  BY <2>1, <3>1 DEF Buckets
    <2>6. Clean'
      <3>1. run.pc # "computed" => run'.clean = {}
        BY <1>0, <2>2 DEF Clean
      <3>2. ASSUME run.pc = "computed"
            PROVE  /\ run'.clean \subseteq Window /\ Window \ run'.clean \subseteq late'
                   /\ \A h \in run'.clean : mark <= 2 * h => run.rows[h] = Count(h)'
        <4>1. /\ run.clean \subseteq Window /\ Window \ run.clean \subseteq late
              /\ \A h \in run.clean : mark <= 2 * h => run.rows[h] = Count(h)
          BY <1>0, <3>2 DEF Clean
        <4>2. \A h \in run'.clean : h \in run.clean /\ h # FloorHour(i) /\ h \in Hours
          BY <1>0, <2>2, <3>2, <4>1
        <4>3. Window \ run'.clean \subseteq late'
          BY <2>1, <2>2, <4>1
        <4>. QED  BY <2>4, <4>1, <4>2, <4>3
      <3>. QED  BY <2>1, <2>2, <2>3, <3>1, <3>2 DEF Clean
    <2>. QED  BY <2>1, <2>5, <2>6
  <1>2. ASSUME Checkpoint
        PROVE  Clean' /\ Buckets' /\ UNCHANGED <<guard, reset, verdict>>
    <2>1. /\ UNCHANGED <<src, reset, guard, roll, run, late, verdict>>
          /\ mark' = clock - 2 * Retention /\ mark' > mark
      BY <1>2 DEF Checkpoint, report
    <2>2. \A h \in Hours : mark' <= 2 * h => mark <= 2 * h
      BY <1>0, <1>h, <2>1, Bounds
    <2>3. Buckets'
      BY <1>0, <2>1, <2>2 DEF Buckets, Count
    <2>4. Clean'
      BY <1>0, <2>1, <2>2 DEF Clean, Count, Window
    <2>. QED  BY <2>1, <2>3, <2>4
  <1>3. ASSUME PruneRow
        PROVE  Clean' /\ Buckets' /\ UNCHANGED <<guard, reset, verdict>>
    <2>1. PICK i \in src : i < mark /\ src' = src \ {i}
      BY <1>3 DEF PruneRow
    <2>2. UNCHANGED <<mark, reset, guard, roll, run, late, verdict>>
      BY <1>3 DEF PruneRow, report
    <2>3. ASSUME NEW h \in Hours, mark <= 2 * h
          PROVE  Count(h)' = Count(h)
      <3>1. i \in Int
        BY <1>0
      <3>2. FloorHour(i) \in Int /\ 2 * FloorHour(i) <= i
        BY <3>1, Halves
      <3>3. FloorHour(i) # h
        BY <1>0, <1>h, <2>1, <2>3, <3>1, <3>2
      <3>. QED  BY <2>1, <3>3, OtherCountsStay
    <2>4. Buckets'
      BY <1>0, <2>2, <2>3 DEF Buckets
    <2>5. Clean'
      <3>1. Window' = Window
        BY <2>2 DEF Window
      <3>. QED  BY <1>0, <2>2, <2>3, <3>1 DEF Clean
    <2>. QED  BY <2>2, <2>4, <2>5
  <1>4. ASSUME Tick \/ UNCHANGED vars
        PROVE  Clean' /\ Buckets' /\ UNCHANGED <<guard, reset, verdict>>
    <2>1. UNCHANGED <<src, mark, reset, guard, roll, run, late, verdict>>
      BY <1>4 DEF Tick, vars, source, report
    <2>2. Buckets'
      BY <1>0, <2>1 DEF Buckets, Count
    <2>3. Clean'
      BY <1>0, <2>1 DEF Clean, Count, Window
    <2>. QED  BY <2>1, <2>2, <2>3
  <1>. QED  BY <1>1, <1>2, <1>3, <1>4

\* A run reads the source, takes its candidate away, or publishes it.
LEMMA RunMoves ==
  ASSUME SourceInv, Run
  PROVE  Clean' /\ Buckets' /\ NoArtefact' /\ UNCHANGED <<guard, reset>>
  <1>0. /\ DOMAIN run = {"pc", "start", "end", "cutoff", "scoped", "confirms", "rows", "clean"}
        /\ Clean /\ Buckets /\ NoArtefact /\ GridInv /\ NoReset /\ Scoped = FALSE /\ mark \in Nat
        /\ NoRun.pc = "idle" /\ NoRun.clean = {}
    BY DEF SourceInv, GridInv, BaseInv, Types, NoRun
  <1>1. CASE \E confirms \in BOOLEAN : Capture(FALSE, 0, confirms)
    <2>1. UNCHANGED <<src, mark, reset, guard, roll, late, verdict>> /\ run'.pc = "captured" /\ run'.clean = {}
      <3>1. PICK confirms \in BOOLEAN : Capture(FALSE, 0, confirms)
        BY <1>1
      <3>2. UNCHANGED <<source, report, late, verdict>>
        BY <3>1 DEF Capture
      <3>3. \E a, b, c, d : run' = [NoRun EXCEPT !.pc = "captured", !.start = a, !.end = b,
                                                 !.cutoff = c, !.scoped = FALSE, !.confirms = d]
        BY <3>1 DEF Capture
      <3>4. run'.pc = "captured" /\ run'.clean = {}
        BY <3>3 DEF NoRun
      <3>. QED  BY <3>2, <3>4 DEF source, report
    <2>2. Clean'
      BY <2>1 DEF Clean
    <2>. QED  BY <1>0, <2>1, <2>2 DEF Buckets, Count, NoArtefact
  <1>2. CASE Compute
    <2>1. /\ UNCHANGED <<src, mark, reset, guard, roll, late, verdict>>
          /\ run' = [run EXCEPT !.pc = "computed", !.clean = Window, !.rows = [h \in Window |-> Count(h)]]
      BY <1>2 DEF Compute, source, report
    <2>2. /\ run'.pc = "computed" /\ run'.start = run.start /\ run'.end = run.end
          /\ run'.clean = Window /\ run'.rows = [h \in Window |-> Count(h)]
      BY <1>0, <2>1
    <2>3. Window' = Window /\ \A h : Count(h)' = Count(h)
      BY <2>1, <2>2 DEF Window, Count
    <2>4. Clean'
      BY <2>2, <2>3 DEF Clean
    <2>. QED  BY <1>0, <2>1, <2>3, <2>4 DEF Buckets, NoArtefact
  <1>3. ASSUME run' = NoRun, UNCHANGED <<src, mark, roll, guard, reset>>, late' = {h \in late : roll[h] # Missing}
        PROVE  Clean' /\ Buckets'
    <2>1. run'.pc = "idle" /\ run'.clean = {}
      BY <1>0, <1>3
    <2>2. Clean'
      BY <2>1 DEF Clean
    <2>3. Buckets'
      BY <1>0, <1>3 DEF Buckets, Count
    <2>. QED  BY <2>2, <2>3
  <1>4. CASE Abandon
    <2>1. run' = NoRun /\ late' = {h \in late : roll[h] # Missing} /\ UNCHANGED <<src, mark, reset, guard, roll, verdict>>
      BY <1>4 DEF Abandon, source, report
    <2>. QED  BY <1>0, <1>3, <2>1 DEF NoArtefact
  <1>5. ASSUME run.pc = "computed", run' = NoRun, roll' = Upserted, late' = late \ run.clean, Confirm,
               UNCHANGED <<src, mark, reset>>
        PROVE  Clean' /\ Buckets' /\ UNCHANGED <<guard, reset>>
    <2>1. run'.pc = "idle" /\ run'.clean = {}
      BY <1>0, <1>5
    <2>2. Clean'
      BY <2>1 DEF Clean
    <2>3. Buckets'
      BY <1>5, UpsertedIsTrue DEF Buckets, Count
    <2>4. guard' = guard
      BY <1>0, <1>5 DEF Confirm, NoReset
    <2>. QED  BY <1>5, <2>2, <2>3, <2>4
  <1>6. CASE Publish
    BY <1>0, <1>5, <1>6 DEF Publish, NoArtefact
  <1>7. CASE Activate
    <2>1. run.pc = "computed" /\ run' = NoRun /\ UNCHANGED <<src, mark, reset>>
      BY <1>7 DEF Activate
    <2>2. PICK table : table = Upserted
      OBVIOUS
    <2>3. PICK from, to : from = FirstHour(table) /\ to = EndHour(table)
      OBVIOUS
    <2>4. CASE from < to /\ Exact(table, from, to)
      <3>1. roll' = Upserted /\ late' = late \ run.clean /\ verdict' = "exact" /\ Confirm
        BY <1>7, <2>2, <2>3, <2>4 DEF Activate
      <3>. QED  BY <1>5, <2>1, <3>1 DEF NoArtefact
    <2>5. CASE ~(from < to /\ Exact(table, from, to))
      <3>1. /\ late' = {h \in late : roll[h] # Missing} /\ UNCHANGED <<report, guard>>
            /\ verdict' = IF from >= to THEN "nothing"
                          ELSE IF Undisturbed THEN "artefact" ELSE "mismatch"
        BY <1>7, <2>2, <2>3, <2>5 DEF Activate
      <3>2. Clean' /\ Buckets'
        BY <1>3, <2>1, <3>1 DEF report
      <3>3. from \in Int /\ to \in Int /\ (Undisturbed => Exact(table, from, to))
        <4>1. Upserted \in [Hours -> {Missing} \cup Nat] /\ Grid(Upserted, run.cutoff) /\ Window \subseteq Hours /\ Window # {}
              /\ \A h \in Window : Upserted[h] = run.rows[h] /\ run.rows[h] \in Nat
          BY <1>0, <2>1, Upserts, UpsertKeepsTheGrid DEF GridInv
        <4>2. Known(table) # {}
          BY <2>2, <4>1 DEF Known, Missing
        <4>3. run.cutoff \in Int /\ mark \in Nat
          BY <1>0, <2>1 DEF GridInv, BaseInv, Hourly, RunOk
        <4>4. from \in Int /\ to \in Int
          BY <2>2, <2>3, <4>1, <4>2, <4>3, BoundsAreHours
        <4>5. ASSUME Undisturbed
              PROVE  Exact(table, from, to)
          <5>1. \A h \in Hours : table[h] # Missing /\ mark <= 2 * h => table[h] = Count(h)
            BY <2>1, <2>2, <4>5, UpsertedIsTrue DEF Undisturbed
          <5>. QED  BY <2>2, <2>3, <4>1, <4>2, <4>3, <5>1, TrueTableIsExact
        <4>. QED  BY <4>4, <4>5
      <3>4. verdict' # "artefact"
        BY <2>5, <3>1, <3>3
      <3>. QED  BY <2>1, <3>1, <3>2, <3>4 DEF NoArtefact
    <2>. QED  BY <2>4, <2>5
  <1>. QED  BY <1>0, <1>1, <1>2, <1>4, <1>6, <1>7 DEF Run

LEMMA SourceInit ==
  ASSUME Scoped = FALSE, Resets = 0, Init
  PROVE  SourceInv
  <1>1. GridInv
    BY GridInit
  <1>2. run.pc = "idle" /\ run.clean = {} /\ \A h \in Hours : roll[h] = Missing
    BY DEF Init, NoRun
  <1>3. NoReset /\ NoArtefact
    BY DEF Init, NoReset, NoArtefact
  <1>. QED  BY <1>1, <1>2, <1>3 DEF SourceInv, Clean, Buckets

LEMMA SourceInvStep == SourceInv /\ [Next]_vars => SourceInv'
  <1>. SUFFICES ASSUME SourceInv, [Next]_vars PROVE SourceInv'
    OBVIOUS
  <1>1. GridInv'
    BY GridStep DEF SourceInv
  <1>2. ~StartReset /\ ~BlockReset /\ ~Truncate /\ \A i : ~Reseed(i)
    BY DEF SourceInv, NoReset, StartReset, BlockReset, Truncate, Reseed
  <1>3. CASE Run
    BY <1>1, <1>3, RunMoves DEF SourceInv, NoReset
  <1>4. CASE \/ \E i \in {clock - 1, clock} : Move(i)
             \/ Checkpoint \/ PruneRow \/ Tick \/ UNCHANGED vars
    BY <1>1, <1>4, SourceMoves DEF SourceInv, NoReset, NoArtefact
  <1>. QED  BY <1>2, <1>3, <1>4 DEF Next

\* Without a reset, an activation is refused only when a movement came after
\* the candidate was computed, or when there is nothing to compare: retention,
\* late movements and abandoned runs never make reconciliation see a difference
\* where the candidate is right.  After a reset the buckets outlive their
\* source, and week-scoped runs leave holes: TLC finds the property violated
\* in either case.
THEOREM NoArtefactHolds == Scoped = FALSE /\ Resets = 0 /\ Spec => []NoArtefact
  <1>1. Scoped = FALSE /\ Resets = 0 /\ Init => SourceInv
    BY SourceInit
  <1>2. SourceInv /\ [Next]_vars => SourceInv'
    BY SourceInvStep
  <1>3. SourceInv => NoArtefact
    BY DEF SourceInv
  <1>. QED  BY <1>1, <1>2, <1>3, PTL DEF Spec

-----------------------------------------------------------------------------
(* Where the hours are that a movement reached too late.                   *)

\* A movement is late for the last hour before the cursor, or before the cutoff
\* of the run that computes; either way the run's window contains the hour.
LateOk ==
  \A h \in late :
    /\ h \in Hours /\ cursor - 1 <= h
    /\ roll[h] # Missing \/ (run.pc = "computed" /\ h \in Window)
    /\ run.pc # "idle" => run.start <= h
    /\ (run.pc = "computed" /\ h \notin run.clean) => run.cutoff - 1 <= h

\* Neither the cursor nor a run falls behind by more than Outage hours.
InTime ==
  /\ cursor # 0 => FloorHour(clock) <= cursor + Outage
  /\ run.pc # "idle" => FloorHour(clock) <= run.cutoff + Outage

LateInv == SourceInv /\ Outage < Trailing /\ LateOk /\ InTime

\* A movement's hour is the one under way or the one before it.
LEMMA MovesAreRecent ==
  ASSUME NEW i \in {clock - 1, clock}, clock \in Nat, 2 <= clock, NEW c \in Nat, 2 * c <= clock
  PROVE  FloorHour(i) \in Nat /\ c - 1 <= FloorHour(i) /\ 2 * FloorHour(i) <= clock
  <1>1. i \in Int /\ clock - 1 <= i /\ i <= clock /\ 1 <= i
    OBVIOUS
  <1>2. FloorHour(i) \in Int /\ 2 * FloorHour(i) <= i /\ i <= 2 * FloorHour(i) + 1
    BY <1>1, Halves
  <1>. QED  BY <1>1, <1>2

LEMMA LateMoves ==
  ASSUME LateInv,
         \/ \E i \in {clock - 1, clock} : Move(i)
         \/ Checkpoint \/ PruneRow \/ Tick \/ UNCHANGED vars
  PROVE  LateOk' /\ InTime'
  <1>0. /\ DOMAIN run = {"pc", "start", "end", "cutoff", "scoped", "confirms", "rows", "clean"}
        /\ LateOk /\ InTime /\ clock \in Nat /\ 2 <= clock /\ clock <= 2 * MaxHour
        /\ cursor \in Nat /\ 2 * cursor <= clock /\ roll \in [Hours -> {Missing} \cup Nat]
        /\ Grid(roll, cursor)
        /\ run.pc # "idle" => /\ run.start \in Nat /\ run.cutoff \in Nat /\ run.end = run.cutoff
                              /\ run.start < run.cutoff /\ cursor <= run.cutoff /\ 2 * run.cutoff <= clock
        /\ run.pc = "computed" => run.clean \subseteq Window
        /\ run.pc # "computed" => run.clean = {}
    BY Bounds DEF LateInv, SourceInv, GridInv, BaseInv, Types, Hourly, RunOk, NoRun, Clean
  <1>1. ASSUME NEW i \in {clock - 1, clock}, Move(i)
        PROVE  LateOk' /\ InTime'
    <2>1. /\ UNCHANGED <<clock, cursor, roll>>
          /\ run' = [run EXCEPT !.clean = @ \ {FloorHour(i)}]
          /\ late' = IF roll[FloorHour(i)] # Missing \/ FloorHour(i) \in run.clean
                     THEN late \cup {FloorHour(i)} ELSE late
      BY <1>1 DEF Move, report
    <2>2. /\ run'.pc = run.pc /\ run'.start = run.start /\ run'.end = run.end /\ run'.cutoff = run.cutoff
          /\ run'.clean = run.clean \ {FloorHour(i)}
      BY <1>0, <2>1
    <2>3. Window' = Window
      BY <2>2 DEF Window
    <2>4. PICK g : g = FloorHour(i)
      OBVIOUS
    <2>5. g \in Hours /\ g \in Nat /\ cursor - 1 <= g
      <3>1. g \in Nat /\ cursor - 1 <= g /\ 2 * g <= clock
        BY <1>0, <2>4, MovesAreRecent
      <3>. QED  BY <1>0, <3>1, Bounds DEF Hours
    <2>6. run.pc # "idle" => run.cutoff - 1 <= g /\ run.start <= g
      <3>1. ASSUME run.pc # "idle"
            PROVE  run.cutoff - 1 <= g
        BY <1>0, <2>4, <3>1, MovesAreRecent
      <3>. QED  BY <1>0, <2>5, <3>1
    <2>7. ASSUME NEW h \in late'
          PROVE  /\ h \in Hours /\ cursor - 1 <= h
                 /\ roll[h] # Missing \/ (run.pc = "computed" /\ h \in Window)
                 /\ run.pc # "idle" => run.start <= h
                 /\ (run.pc = "computed" /\ h \notin run'.clean) => run.cutoff - 1 <= h
      <3>1. CASE h = g
        <4>1. g \in late \/ roll[g] # Missing \/ g \in run.clean
          BY <2>1, <2>4, <2>7, <3>1
        <4>2. CASE g \in late
          BY <1>0, <2>5, <2>6, <3>1, <4>2 DEF LateOk
        <4>3. CASE roll[g] # Missing
          BY <1>0, <2>5, <2>6, <3>1, <4>3
        <4>4. CASE g \in run.clean
          <5>1. run.pc = "computed" /\ g \in Window
            BY <1>0, <4>4
          <5>. QED  BY <2>5, <2>6, <3>1, <5>1
        <4>. QED  BY <4>1, <4>2, <4>3, <4>4
      <3>2. CASE h # g
        <4>1. h \in late /\ (h \notin run'.clean => h \notin run.clean)
          BY <2>1, <2>2, <2>4, <2>7, <3>2
        <4>. QED  BY <1>0, <4>1 DEF LateOk
      <3>. QED  BY <3>1, <3>2
    <2>8. LateOk'
      BY <2>1, <2>2, <2>3, <2>7 DEF LateOk
    <2>9. InTime'
      BY <1>0, <2>1, <2>2 DEF InTime
    <2>. QED  BY <2>8, <2>9
  <1>2. CASE Tick
    <2>1. /\ UNCHANGED <<cursor, roll, run, late>> /\ clock' = clock + 1 /\ RunInTime
          /\ cursor = 0 \/ FloorHour(clock + 1) <= cursor + Outage
      BY <1>2 DEF Tick, report
    <2>2. LateOk'
      BY <1>0, <2>1 DEF LateOk, Window
    <2>3. InTime'
      BY <1>0, <2>1 DEF InTime, RunInTime
    <2>. QED  BY <2>2, <2>3
  <1>3. CASE Checkpoint \/ PruneRow \/ UNCHANGED vars
    <2>1. UNCHANGED <<clock, cursor, roll, run, late>>
      BY <1>3 DEF Checkpoint, PruneRow, vars, report
    <2>. QED  BY <1>0, <2>1 DEF LateOk, InTime, Window
  <1>. QED  BY <1>1, <1>2, <1>3

\* Compute sees every hour that was late; what is late after it is in the last
\* hour before the cutoff.
LEMMA LatePublication ==
  ASSUME LateInv, run.pc = "computed", roll' = Upserted, cursor' = Advanced, run' = NoRun,
         late' = late \ run.clean, UNCHANGED clock
  PROVE  LateOk' /\ InTime'
  <1>1. /\ GridInv /\ LateOk /\ InTime /\ NoRun.pc = "idle"
    BY DEF LateInv, SourceInv, NoRun
  <1>2. /\ Advanced = run.cutoff /\ Window \subseteq Hours
        /\ \A h \in Window : Upserted[h] = run.rows[h] /\ run.rows[h] \in Nat
        /\ \A h \in Hours \ Window : Upserted[h] = roll[h]
    BY <1>1, Upserts DEF GridInv
  <1>3. ASSUME NEW h \in late'
        PROVE  h \in Hours /\ cursor' - 1 <= h /\ roll'[h] # Missing
    <2>1. h \in Hours /\ run.cutoff - 1 <= h /\ (roll[h] # Missing \/ h \in Window)
      BY <1>1, <1>3 DEF LateOk
    <2>2. CASE h \in Window
      BY <1>2, <2>1, <2>2 DEF Missing
    <2>3. CASE h \notin Window
      BY <1>2, <2>1, <2>3
    <2>. QED  BY <2>2, <2>3
  <1>4. run'.pc = "idle"
    BY <1>1
  <1>. QED  BY <1>1, <1>2, <1>3, <1>4 DEF LateOk, InTime

\* An hourly run begins at the cursor or before it, by the whole trailing window
\* when time has passed: no late hour lies before its start.
LEMMA LateCapture ==
  ASSUME LateInv, NEW confirms \in BOOLEAN, Capture(FALSE, 0, confirms)
  PROVE  LateOk' /\ InTime'
  <1>0. /\ GridInv /\ LateOk /\ InTime /\ reset = 0 /\ Outage < Trailing
        /\ clock \in Nat /\ 2 <= clock /\ cursor \in Nat /\ Grid(roll, cursor)
    BY Bounds DEF LateInv, SourceInv, NoReset, GridInv, BaseInv, Types
  <1>1. PICK cutoff : cutoff = FloorHour(clock)
    OBVIOUS
  <1>2. CutoffAt(clock) = cutoff
    BY <1>1 DEF CutoffAt
  <1>3. /\ run.pc = "idle" /\ UNCHANGED <<clock, source, report, late>>
        /\ run' = [NoRun EXCEPT !.pc = "captured", !.start = HourlyStart(cutoff), !.end = cutoff,
                                !.cutoff = cutoff, !.scoped = FALSE, !.confirms = confirms]
    BY <1>0, <1>2 DEF Capture
  <1>4. UNCHANGED <<cursor, roll>>
    BY <1>3 DEF report
  <1>5. run'.pc = "captured" /\ run'.start = HourlyStart(cutoff) /\ run'.cutoff = cutoff
    BY <1>3 DEF NoRun
  <1>6. cutoff \in Int
    BY <1>0, <1>1, Halves
  <1>7. ASSUME NEW h \in late
        PROVE  HourlyStart(cutoff) <= h
    <2>1. h \in Hours /\ cursor - 1 <= h /\ roll[h] # Missing
      BY <1>0, <1>3, <1>7 DEF LateOk
    <2>2. h \in Nat /\ h < cursor
      BY <1>0, <2>1, Bounds DEF Grid, Hours
    <2>3. cursor # 0 /\ cutoff <= cursor + Outage
      BY <1>0, <1>1, <2>2 DEF InTime
    <2>4. cutoff - Trailing <= h
      BY <1>0, <1>6, <2>1, <2>2, <2>3, Bounds
    <2>. QED  BY <1>0, <1>6, <2>1, <2>2, <2>3, <2>4, Bounds DEF HourlyStart, Smaller
  <1>8. LateOk'
    BY <1>0, <1>3, <1>4, <1>5, <1>7 DEF LateOk
  <1>9. InTime'
    BY <1>0, <1>1, <1>3, <1>4, <1>5, <1>6, Bounds DEF InTime
  <1>. QED  BY <1>8, <1>9

LEMMA LateRun ==
  ASSUME LateInv, Run
  PROVE  LateOk' /\ InTime'
  <1>0. /\ DOMAIN run = {"pc", "start", "end", "cutoff", "scoped", "confirms", "rows", "clean"}
        /\ LateOk /\ InTime /\ NoRun.pc = "idle" /\ Scoped = FALSE /\ Grid(roll, cursor) /\ cursor \in Nat
    BY DEF LateInv, SourceInv, GridInv, BaseInv, Types, NoRun
  <1>1. CASE \E confirms \in BOOLEAN : Capture(FALSE, 0, confirms)
    BY <1>1, LateCapture
  <1>2. CASE Compute
    <2>1. /\ UNCHANGED <<clock, cursor, roll, late>> /\ run.pc = "captured"
          /\ run' = [run EXCEPT !.pc = "computed", !.clean = Window, !.rows = [h \in Window |-> Count(h)]]
      BY <1>2 DEF Compute, source, report
    <2>2. /\ run'.pc = "computed" /\ run'.start = run.start /\ run'.end = run.end /\ run'.cutoff = run.cutoff
          /\ run'.clean = Window
      BY <1>0, <2>1
    <2>3. run.start \in Nat /\ run.cutoff \in Nat /\ run.end = run.cutoff /\ cursor <= run.cutoff
      BY <2>1 DEF LateInv, SourceInv, GridInv, BaseInv, Hourly, RunOk
    <2>4. ASSUME NEW h \in late
          PROVE  h \in Window
      <3>1. h \in Hours /\ roll[h] # Missing /\ run.start <= h
        BY <1>0, <2>1, <2>4 DEF LateOk
      <3>2. h \in Nat /\ h < cursor
        BY <1>0, <3>1, Bounds DEF Grid, Hours
      <3>. QED  BY <1>0, <2>3, <3>1, <3>2 DEF Window
    <2>5. LateOk'
      BY <1>0, <2>1, <2>2, <2>4 DEF LateOk
    <2>6. InTime'
      BY <1>0, <2>1, <2>2 DEF InTime
    <2>. QED  BY <2>5, <2>6
  <1>3. ASSUME run' = NoRun, late' = {h \in late : roll[h] # Missing}, UNCHANGED <<clock, cursor, roll>>
        PROVE  LateOk' /\ InTime'
    <2>1. run'.pc = "idle"
      BY <1>0, <1>3
    <2>. QED  BY <1>0, <1>3, <2>1 DEF LateOk, InTime
  <1>4. CASE Abandon
    BY <1>3, <1>4 DEF Abandon, report
  <1>5. CASE Publish
    BY <1>5, LatePublication DEF Publish
  <1>6. CASE Activate
    <2>1. run.pc = "computed" /\ run' = NoRun /\ UNCHANGED clock
      BY <1>6 DEF Activate
    <2>2. \/ roll' = Upserted /\ cursor' = Advanced /\ late' = late \ run.clean
          \/ late' = {h \in late : roll[h] # Missing} /\ UNCHANGED report
      BY <1>6 DEF Activate
    <2>3. CASE roll' = Upserted /\ cursor' = Advanced /\ late' = late \ run.clean
      BY <2>1, <2>3, LatePublication
    <2>4. CASE late' = {h \in late : roll[h] # Missing} /\ UNCHANGED report
      BY <1>3, <2>1, <2>4 DEF report
    <2>. QED  BY <2>2, <2>3, <2>4
  <1>. QED  BY <1>0, <1>1, <1>2, <1>4, <1>5, <1>6 DEF Run

LEMMA LateStep == LateInv /\ [Next]_vars => LateInv'
  <1>. SUFFICES ASSUME LateInv, [Next]_vars PROVE LateInv'
    OBVIOUS
  <1>1. SourceInv'
    BY SourceInvStep DEF LateInv
  <1>2. ~StartReset /\ ~BlockReset /\ ~Truncate /\ \A i : ~Reseed(i)
    BY DEF LateInv, SourceInv, NoReset, StartReset, BlockReset, Truncate, Reseed
  <1>3. LateOk' /\ InTime'
    <2>1. CASE Run
      BY <2>1, LateRun
    <2>2. CASE \/ \E i \in {clock - 1, clock} : Move(i)
               \/ Checkpoint \/ PruneRow \/ Tick \/ UNCHANGED vars
      BY <2>2, LateMoves
    <2>. QED  BY <1>2, <2>1, <2>2 DEF Next
  <1>. QED  BY <1>1, <1>3 DEF LateInv

\* If the worker is never away for as long as the trailing window, every hour
\* that a movement reached after it was rolled up is recomputed by the next
\* hourly run.  With Outage = Trailing, or after a reset, it need not be.
THEOREM LateIsRecomputedHolds ==
  Scoped = FALSE /\ Resets = 0 /\ Outage < Trailing /\ Spec => []LateIsRecomputed
  <1>1. Scoped = FALSE /\ Resets = 0 /\ Outage < Trailing /\ Init => LateInv
    <2>1. Init => late = {} /\ cursor = 0 /\ run.pc = "idle"
      BY DEF Init, NoRun
    <2>. QED  BY <2>1, SourceInit DEF LateInv, LateOk, InTime
  <1>2. LateInv /\ [Next]_vars => LateInv'
    BY LateStep
  <1>3. LateInv => LateIsRecomputed
    BY DEF LateInv, LateOk, LateIsRecomputed
  <1>. QED  BY <1>1, <1>2, <1>3, PTL DEF Spec

-----------------------------------------------------------------------------
(* What an activation publishes, whatever runs are requested.              *)

\* The week of an hour.
LEMMA WeekBounds ==
  ASSUME NEW h \in Int
  PROVE  WeekOf(h) \in Int /\ WeekHours * WeekOf(h) <= h /\ h < WeekHours * WeekOf(h) + WeekHours
  <1>1. WeekHours \in Nat /\ 0 < WeekHours
    BY WeeksAreNat
  <1>. QED  BY <1>1 DEF WeekOf

LEMMA WeeksGrow ==
  ASSUME NEW a \in Int, NEW b \in Int
  PROVE  /\ a <= b => WeekHours * a <= WeekHours * b
         /\ a < b => WeekHours * a + WeekHours <= WeekHours * b
         /\ WeekHours * a \in Int
  <1>1. WeekHours \in Nat /\ 0 < WeekHours
    BY WeeksAreNat
  <1>. QED  BY <1>1

\* Retention takes only what the checkpoint covers.
SrcOk == src \subseteq made /\ made \subseteq Int /\ \A i \in made : mark <= i => i \in src

\* A published week has a bucket.
WeeklyOk == \A w \in Weeks : weekly[w] # Missing => \E h \in Hours : roll[h] # Missing /\ WeekOf(h) = w

ActInv == BaseInv /\ SrcOk /\ WeeklyOk

\* The hours of a week that is verified as a whole lie between the bounds.
LEMMA VerifiedWeek ==
  ASSUME NEW from \in Int, NEW to \in Int, NEW cutoff \in Int, NEW w \in Int,
         FirstWeek(from) <= w, w < CurrentWeek(cutoff, to)
  PROVE  /\ from <= WeekHours * w
         /\ \A h \in Int : WeekOf(h) = w => from <= h /\ h < to
  <1>1. /\ WeekOf(from) \in Int /\ WeekHours * WeekOf(from) <= from
        /\ from < WeekHours * WeekOf(from) + WeekHours
    BY WeekBounds
  <1>2. WeekOf(to) \in Int /\ WeekHours * WeekOf(to) <= to /\ WeekOf(cutoff) \in Int
    BY WeekBounds
  <1>3. w < WeekOf(to)
    BY <1>2 DEF CurrentWeek, Smaller
  <1>4. WeekHours * w + WeekHours <= to
    BY <1>2, <1>3, WeeksGrow, WeeksAreNat
  <1>5. from <= WeekHours * w
    <2>c. WeekOf(from) * WeekHours = WeekHours * WeekOf(from)
      BY <1>1, WeeksAreNat
    <2>1. CASE from > WeekOf(from) * WeekHours
      <3>1. WeekOf(from) < w
        BY <1>1, <2>1 DEF FirstWeek
      <3>2. WeekHours * WeekOf(from) + WeekHours <= WeekHours * w /\ WeekHours * w \in Int
        BY <1>1, <3>1, WeeksGrow
      <3>. QED  BY <1>1, <3>2, WeeksGrow, WeeksAreNat
    <2>2. CASE ~(from > WeekOf(from) * WeekHours)
      <3>1. WeekOf(from) <= w
        BY <1>1, <2>2 DEF FirstWeek
      <3>2. WeekHours * WeekOf(from) <= WeekHours * w /\ WeekHours * w \in Int /\ WeekHours * WeekOf(from) \in Int
        BY <1>1, <3>1, WeeksGrow
      <3>. QED  BY <2>c, <2>2, <3>2
    <2>. QED  BY <2>1, <2>2
  <1>6. ASSUME NEW h \in Int, WeekOf(h) = w
        PROVE  from <= h /\ h < to
    <2>1. WeekHours * w <= h /\ h < WeekHours * w + WeekHours /\ WeekHours * w \in Int
      BY <1>6, WeekBounds, WeeksGrow
    <2>. QED  BY <1>4, <1>5, <2>1, WeeksAreNat
  <1>. QED  BY <1>5, <1>6

\* Counting the rows of a week hour by hour.
LEMMA CountsOfHours ==
  ASSUME IsFiniteSet(src), NEW hours, IsFiniteSet(hours)
  PROVE  MapThenSumSet(Count, hours) = Cardinality({i \in src : FloorHour(i) \in hours})
  <1>1. PICK v : v = [h \in hours |-> Count(h)]
    OBVIOUS
  <1>2. \A h \in hours : v[h] = Count(h)
    BY <1>1
  <1>3. PICK key : key = [i \in src |-> FloorHour(i)]
    OBVIOUS
  <1>4. \A i \in src : key[i] = FloorHour(i)
    BY <1>3
  <1>5. MapThenSumSet(Count, hours) = SumOver(v, hours)
    BY <1>2, CountsAreSumOver
  <1>6. \A h \in hours : v[h] = Cardinality({i \in src : key[i] = h})
    <2>1. \A h : {i \in src : key[i] = h} = {i \in src : FloorHour(i) = h}
      BY <1>4
    <2>. QED  BY <1>2, <2>1 DEF Count
  <1>7. SumOver(v, hours) = Cardinality({i \in src : key[i] \in hours})
    BY <1>6, SumOfClasses
  <1>8. {i \in src : key[i] \in hours} = {i \in src : FloorHour(i) \in hours}
    BY <1>4
  <1>. QED  BY <1>5, <1>7, <1>8

\* What a week gets that an exact activation republishes.
LEMMA RepublishedIsTrue ==
  ASSUME ActInv, run.pc = "computed", NEW w \in Weeks,
         NEW table, table = Upserted, NEW from, from = FirstHour(table), NEW to, to = EndHour(table),
         Exact(table, from, to), Republished(table, from, to)[w] # weekly[w]
  PROVE  /\ Republished(table, from, to)[w] = Cardinality({i \in made : WeekOf(FloorHour(i)) = w})
         /\ 2 * w * WeekHours >= mark
  <1>0. /\ BaseInv /\ SrcOk /\ WeeklyOk /\ mark \in Nat /\ IsFiniteSet(src) /\ w \in Nat
        /\ run.cutoff \in Nat /\ run.cutoff <= MaxHour
    BY Bounds, WeeksAreNat DEF ActInv, BaseInv, Types, RunOk
  <1>1. /\ Window \subseteq Hours /\ Window # {}
        /\ \A h \in Window : table[h] = run.rows[h] /\ run.rows[h] \in Nat
        /\ \A h \in Hours \ Window : table[h] = roll[h]
    BY <1>0, Upserts
  <1>2. \A h \in Hours : roll[h] # Missing => table[h] # Missing
    BY <1>1 DEF Missing
  <1>3. Known(table) # {}
    BY <1>1 DEF Known, Missing
  <1>4. from \in Nat /\ mark <= 2 * from /\ to \in Int /\ to <= run.cutoff
    BY <1>0, <1>3, BoundsAreHours
  <1>5. FirstWeek(from) <= w /\ w < CurrentWeek(run.cutoff, to)
    BY DEF Republished
  <1>6. /\ from <= WeekHours * w
        /\ \A h \in Int : WeekOf(h) = w => from <= h /\ h < to
    BY <1>0, <1>4, <1>5, VerifiedWeek
  <1>7. PICK known : known = {h \in Known(table) : WeekOf(h) = w}
    OBVIOUS
  <1>8. known # {}
    <2>1. SUFFICES ASSUME known = {} PROVE FALSE
      OBVIOUS
    <2>2. Republished(table, from, to)[w] = Missing
      BY <1>5, <1>7, <2>1 DEF Republished
    <2>3. PICK h \in Hours : roll[h] # Missing /\ WeekOf(h) = w
      BY <1>0, <2>2 DEF WeeklyOk
    <2>. QED  BY <1>2, <1>7, <2>1, <2>3 DEF Known
  <1>9. Republished(table, from, to)[w] = Total(table, known)
    BY <1>5, <1>7, <1>8 DEF Republished
  <1>10. PICK hours : hours = {h \in from..(to - 1) : WeekOf(h) = w}
    OBVIOUS
  <1>11. hours \subseteq Hours /\ IsFiniteSet(hours)
    <2>1. \A h \in hours : h \in Int /\ 0 <= h /\ h <= MaxHour
      BY <1>0, <1>4, <1>10, Bounds
    <2>2. from \in Int /\ to - 1 \in Int
      BY <1>4
    <2>3. IsFiniteSet(hours)
      BY <1>10, <2>2, HoursAreFinite
    <2>. QED  BY <2>1, <2>3, Bounds DEF Hours
  <1>12. known = {h \in hours : table[h] # Missing}
    <2>1. \A h \in Hours : WeekOf(h) = w => h \in hours
      BY <1>4, <1>6, <1>10, Bounds DEF Hours
    <2>. QED  BY <1>7, <1>10, <1>11, <2>1 DEF Known
  <1>13. Total(table, known) = Total(table, hours)
    <2>1. IsFiniteSet(known) /\ known = {h \in known : table[h] # Missing}
      BY <1>11, <1>12, FS_Subset
    <2>2. Total(table, known) = SumOver(table, known)
      BY <2>1, TotalIsSumOver
    <2>3. Total(table, hours) = SumOver(table, known)
      BY <1>12, <2>1, TotalIsSumOver
    <2>. QED  BY <2>2, <2>3
  <1>14. Total(table, hours) = MapThenSumSet(Count, hours)
    BY <1>10 DEF Exact
  <1>15. MapThenSumSet(Count, hours) = Cardinality({i \in src : FloorHour(i) \in hours})
    BY <1>0, <1>11, CountsOfHours
  <1>16. {i \in src : FloorHour(i) \in hours} = {i \in made : WeekOf(FloorHour(i)) = w}
    <2>1. src \subseteq made /\ made \subseteq Int /\ \A i \in made : mark <= i => i \in src
      BY <1>0 DEF SrcOk
    <2>2. ASSUME NEW i \in made, WeekOf(FloorHour(i)) = w
          PROVE  i \in src /\ FloorHour(i) \in hours
      <3>1. i \in Int
        BY <2>1
      <3>2. FloorHour(i) \in Int /\ 2 * FloorHour(i) <= i
        BY <3>1, Halves
      <3>3. from <= FloorHour(i) /\ FloorHour(i) < to
        BY <1>6, <2>2, <3>2
      <3>4. mark <= i
        BY <1>0, <1>4, <3>1, <3>2, <3>3
      <3>. QED  BY <1>4, <1>10, <2>1, <2>2, <3>2, <3>3, <3>4
    <2>. QED  BY <1>10, <2>1, <2>2
  <1>17. 2 * w * WeekHours >= mark
    <2>1. 2 * w * WeekHours = 2 * (WeekHours * w) /\ WeekHours * w \in Int
      BY <1>0, WeeksAreNat
    <2>. QED  BY <1>0, <1>4, <1>6, <2>1
  <1>. QED  BY <1>9, <1>13, <1>14, <1>15, <1>16, <1>17

LEMMA SrcOkStep ==
  ASSUME ActInv, [Next]_vars
  PROVE  SrcOk'
  <1>0. /\ src \subseteq made /\ made \subseteq Int /\ \A i \in made : mark <= i => i \in src
        /\ mark \in Nat /\ clock \in Nat
    BY DEF ActInv, SrcOk, BaseInv, Types
  <1>1. ASSUME NEW i \in Int, src' = src \cup {i}, made' = made \cup {i}, mark' = mark
        PROVE  SrcOk'
    BY <1>0, <1>1 DEF SrcOk
  <1>2. CASE \E i \in {clock - 1, clock} : Move(i)
    <2>1. PICK i \in {clock - 1, clock} : Move(i)
      BY <1>2
    <2>2. i \in Int
      BY <1>0
    <2>. QED  BY <1>1, <2>1, <2>2 DEF Move
  <1>3. CASE \E i \in (clock - 2 * Backfill)..(clock - 1) : Reseed(i)
    <2>1. PICK i \in (clock - 2 * Backfill)..(clock - 1) : Reseed(i)
      BY <1>3
    <2>2. i \in Int
      BY <1>0, Bounds
    <2>. QED  BY <1>1, <2>1, <2>2 DEF Reseed
  <1>4. CASE Checkpoint
    <2>1. src' = src /\ made' = made /\ mark' \in Int /\ mark' > mark
      BY <1>0, <1>4, Bounds DEF Checkpoint
    <2>2. \A i \in made : mark' <= i => mark <= i
      BY <1>0, <2>1
    <2>. QED  BY <1>0, <2>1, <2>2 DEF SrcOk
  <1>5. CASE PruneRow
    <2>1. PICK i \in src : i < mark /\ src' = src \ {i}
      BY <1>5 DEF PruneRow
    <2>2. made' = made /\ mark' = mark /\ i \in Int
      BY <1>0, <1>5, <2>1 DEF PruneRow
    <2>3. \A j \in made : mark <= j => j # i
      BY <1>0, <2>1, <2>2
    <2>. QED  BY <1>0, <2>1, <2>2, <2>3 DEF SrcOk
  <1>6. CASE Truncate
    <2>1. src' = {} /\ made' = {}
      BY <1>6 DEF Truncate
    <2>. QED  BY <2>1 DEF SrcOk
  <1>7. CASE StartReset \/ BlockReset \/ Tick \/ Run \/ UNCHANGED vars
    <2>1. UNCHANGED <<src, mark, made>>
      BY <1>7 DEF StartReset, BlockReset, Tick, Run, Capture, Compute, Abandon, Publish, Activate, source, vars
    <2>. QED  BY <1>0, <2>1 DEF SrcOk
  <1>. QED  BY <1>2, <1>3, <1>4, <1>5, <1>6, <1>7 DEF Next

LEMMA WeeklyOkStep ==
  ASSUME ActInv, [Next]_vars
  PROVE  WeeklyOk'
  <1>0. BaseInv /\ WeeklyOk
    BY DEF ActInv
  <1>1. ASSUME UNCHANGED <<roll, weekly>>
        PROVE  WeeklyOk'
    BY <1>0, <1>1 DEF WeeklyOk
  <1>2. ASSUME run.pc = "computed"
        PROVE  \A h \in Hours : roll[h] # Missing => Upserted[h] # Missing
    <2>1. /\ \A h \in Window : Upserted[h] = run.rows[h] /\ run.rows[h] \in Nat
          /\ \A h \in Hours \ Window : Upserted[h] = roll[h]
      BY <1>0, <1>2, Upserts
    <2>. QED  BY <2>1 DEF Missing
  <1>3. CASE SourceNext
    BY <1>1, <1>3, SourceStays
  <1>4. CASE \/ \E confirms \in BOOLEAN : Capture(FALSE, 0, confirms)
             \/ \E w \in Weeks : Capture(TRUE, w, FALSE)
             \/ Compute \/ Abandon
    BY <1>1, <1>4 DEF Capture, Compute, Abandon, report
  <1>5. CASE Publish
    <2>1. run.pc = "computed" /\ roll' = Upserted /\ weekly' = weekly
      BY <1>5 DEF Publish
    <2>. QED  BY <1>0, <1>2, <2>1 DEF WeeklyOk
  <1>6. CASE Activate
    <2>1. run.pc = "computed"
      BY <1>6 DEF Activate
    <2>2. PICK table : table = Upserted
      OBVIOUS
    <2>3. PICK from, to : from = FirstHour(table) /\ to = EndHour(table)
      OBVIOUS
    <2>4. \/ roll' = table /\ weekly' = Republished(table, from, to)
          \/ UNCHANGED report
      BY <1>6, <2>2, <2>3 DEF Activate
    <2>5. CASE UNCHANGED report
      BY <1>1, <2>5 DEF report
    <2>6. CASE roll' = table /\ weekly' = Republished(table, from, to)
      <3>1. ASSUME NEW w \in Weeks, weekly'[w] # Missing
            PROVE  \E h \in Hours : roll'[h] # Missing /\ WeekOf(h) = w
        <4>1. CASE FirstWeek(from) <= w /\ w < CurrentWeek(run.cutoff, to)
          <5>1. {h \in Known(table) : WeekOf(h) = w} # {}
            BY <2>6, <3>1, <4>1 DEF Republished
          <5>. QED  BY <2>6, <5>1 DEF Known
        <4>2. CASE ~(FirstWeek(from) <= w /\ w < CurrentWeek(run.cutoff, to))
          <5>1. weekly'[w] = weekly[w]
            BY <2>6, <4>2 DEF Republished
          <5>. QED  BY <1>0, <1>2, <2>1, <2>2, <2>6, <3>1, <5>1 DEF WeeklyOk
        <4>. QED  BY <4>1, <4>2
      <3>. QED  BY <3>1 DEF WeeklyOk
    <2>. QED  BY <2>4, <2>5, <2>6
  <1>. QED  BY <1>3, <1>4, <1>5, <1>6 DEF Next, Run, SourceNext

\* The step that the property speaks of.
ActivatesTruly ==
  \A w \in Weeks : weekly'[w] # weekly[w] =>
    /\ weekly'[w] = Cardinality({i \in made : WeekOf(FloorHour(i)) = w})
    /\ 2 * w * WeekHours >= mark

LEMMA ActivationStep ==
  ASSUME ActInv, [Next]_vars
  PROVE  ActivatesTruly
  <1>1. CASE UNCHANGED weekly
    BY <1>1 DEF ActivatesTruly
  <1>2. CASE Activate
    <2>1. run.pc = "computed"
      BY <1>2 DEF Activate
    <2>2. PICK table : table = Upserted
      OBVIOUS
    <2>3. PICK from : from = FirstHour(table)
      OBVIOUS
    <2>4. PICK to : to = EndHour(table)
      OBVIOUS
    <2>5. \/ Exact(table, from, to) /\ weekly' = Republished(table, from, to)
          \/ UNCHANGED weekly
      BY <1>2, <2>2, <2>3, <2>4 DEF Activate, report
    <2>6. ASSUME Exact(table, from, to), NEW w \in Weeks, Republished(table, from, to)[w] # weekly[w]
          PROVE  /\ Republished(table, from, to)[w] = Cardinality({i \in made : WeekOf(FloorHour(i)) = w})
                 /\ 2 * w * WeekHours >= mark
      BY <2>1, <2>2, <2>3, <2>4, <2>6, RepublishedIsTrue
    <2>. QED  BY <1>1, <2>5, <2>6 DEF ActivatesTruly
  <1>3. CASE SourceNext
    BY <1>1, <1>3, SourceStays
  <1>4. CASE \/ \E confirms \in BOOLEAN : Capture(FALSE, 0, confirms)
             \/ \E w \in Weeks : Capture(TRUE, w, FALSE)
             \/ Compute \/ Abandon \/ Publish
    BY <1>1, <1>4 DEF Capture, Compute, Abandon, Publish, report
  <1>. QED  BY <1>2, <1>3, <1>4 DEF Next, Run, SourceNext

\* A week of the report changes only to the number of movements that were made
\* in it, and never after retention reached it: whatever hours and weeks are
\* requested, in whichever order, with resets, retention and abandoned runs.
THEOREM ActivationIsTrueHolds == Spec => ActivationIsTrue
  <1>1. Init => ActInv
    <2>1. Init => src = {} /\ made = {} /\ \A w \in Weeks : weekly[w] = Missing
      BY DEF Init
    <2>. QED  BY <2>1, BaseInit DEF ActInv, SrcOk, WeeklyOk
  <1>2. ActInv /\ [Next]_vars => ActInv'
    BY BaseStep, SrcOkStep, WeeklyOkStep DEF ActInv
  <1>3. ActInv /\ [Next]_vars => [ActivatesTruly]_vars
    BY ActivationStep
  <1>4. [][ActivatesTruly]_vars <=> ActivationIsTrue
    BY PTL DEF ActivationIsTrue, ActivatesTruly
  <1>. QED  BY <1>1, <1>2, <1>3, <1>4, PTL DEF Spec

-----------------------------------------------------------------------------
(* What the guarded reset takes away.                                      *)

\* The reset happens once, and the guard does not come back after it.
OneReset ==
  /\ guard.left \in {0, 1} /\ (guard.pc # "idle" => guard.left = 0)
  /\ reset # 0 => guard.left = 0 /\ guard.pc \in {"idle", "reseed"}

\* The candidate holds at least what the source has, save for late hours.
CandidateCovers ==
  /\ run.pc # "computed" => run.clean = {}
  /\ run.pc = "computed" =>
       /\ run.clean \subseteq Window /\ Window \ run.clean \subseteq late
       /\ \A h \in run.clean : Count(h) <= run.rows[h]

\* Until the reset a bucket holds at least what the source has, every row before
\* the cursor has a bucket, and every row before a run's cutoff has one or gets
\* one from the run.
Covered ==
  /\ \A h \in Hours \ late : roll[h] # Missing => Count(h) <= roll[h]
  /\ \A i \in src : FloorHour(i) < cursor => roll[FloorHour(i)] # Missing
  /\ cursor # 0 => roll[cursor - 1] # Missing

RowsInWindow ==
  run.pc # "idle" =>
    \A i \in src : FloorHour(i) < run.cutoff => (roll[FloorHour(i)] # Missing \/ run.start <= FloorHour(i))

ResetInv ==
  /\ GridInv /\ OneReset
  /\ reset = 0 => CandidateCovers /\ Covered /\ RowsInWindow

\* Fewer rows, fewer counted.
LEMMA FewerCounts ==
  ASSUME IsFiniteSet(src), src' \subseteq src, NEW h
  PROVE  Count(h)' <= Count(h) /\ Count(h)' \in Nat /\ Count(h) \in Nat
  <1>1. PICK B, C : B = {i \in src' : FloorHour(i) = h} /\ C = {i \in src : FloorHour(i) = h}
    OBVIOUS
  <1>2. B \subseteq C /\ IsFiniteSet(C)
    BY <1>1, FS_Subset
  <1>3. IsFiniteSet(B) /\ Cardinality(B) <= Cardinality(C) /\ Cardinality(B) \in Nat /\ Cardinality(C) \in Nat
    BY <1>2, FS_Subset, FS_CardinalityType
  <1>. QED  BY <1>1, <1>3 DEF Count

LEMMA OneResetStep ==
  ASSUME GridInv, OneReset, [Next]_vars
  PROVE  OneReset'
  <1>0. guard \in [pc: {"idle", "waiting", "confirmed", "reseed"}, at: Nat, left: Nat]
    BY DEF GridInv, BaseInv, Types
  <1>1. CASE StartReset
    BY <1>0, <1>1 DEF StartReset, OneReset
  <1>2. CASE BlockReset
    <2>1. guard' = [guard EXCEPT !.pc = "idle"] /\ reset' = reset
      BY <1>2 DEF BlockReset
    <2>. QED  BY <1>0, <2>1 DEF OneReset
  <1>3. CASE Truncate
    <2>1. guard.pc = "confirmed" /\ guard' = [guard EXCEPT !.pc = "reseed"]
      BY <1>3 DEF Truncate
    <2>. QED  BY <1>0, <2>1 DEF OneReset
  <1>4. CASE \E i \in (clock - 2 * Backfill)..(clock - 1) : Reseed(i)
    <2>1. guard.pc = "reseed" /\ guard' = [guard EXCEPT !.pc = "idle"] /\ reset' = reset
      BY <1>4 DEF Reseed
    <2>. QED  BY <1>0, <2>1 DEF OneReset
  <1>5. ASSUME UNCHANGED <<guard, reset>>
        PROVE  OneReset'
    BY <1>5 DEF OneReset
  <1>6. ASSUME Confirm, UNCHANGED reset
        PROVE  OneReset'
    <2>1. guard' = guard \/ (guard.pc = "waiting" /\ guard' = [guard EXCEPT !.pc = "confirmed"])
      BY <1>6 DEF Confirm
    <2>. QED  BY <1>0, <1>6, <2>1 DEF OneReset
  <1>7. CASE Publish
    BY <1>6, <1>7 DEF Publish
  <1>8. CASE Activate
    <2>1. UNCHANGED reset /\ (Confirm \/ UNCHANGED guard)
      BY <1>8 DEF Activate
    <2>. QED  BY <1>5, <1>6, <2>1
  <1>9. CASE \/ \E i \in {clock - 1, clock} : Move(i)
             \/ Checkpoint \/ PruneRow \/ Tick \/ UNCHANGED vars
             \/ \E confirms \in BOOLEAN : Capture(FALSE, 0, confirms)
             \/ \E w \in Weeks : Capture(TRUE, w, FALSE)
             \/ Compute \/ Abandon
    BY <1>5, <1>9 DEF Move, Checkpoint, PruneRow, Tick, Capture, Compute, Abandon, source, vars
  <1>. QED  BY <1>1, <1>2, <1>3, <1>4, <1>7, <1>8, <1>9 DEF Next, Run

\* The source moves while no reset has happened.
LEMMA CoverMoves ==
  ASSUME ResetInv, reset = 0, SourceNext, reset' = 0
  PROVE  CandidateCovers' /\ Covered' /\ RowsInWindow'
  <1>0. /\ DOMAIN run = {"pc", "start", "end", "cutoff", "scoped", "confirms", "rows", "clean"}
        /\ CandidateCovers /\ Covered /\ RowsInWindow
        /\ clock \in Nat /\ 2 <= clock /\ clock <= 2 * MaxHour /\ cursor \in Nat /\ 2 * cursor <= clock
        /\ IsFiniteSet(src) /\ roll \in [Hours -> {Missing} \cup Nat]
        /\ run.pc # "idle" => run.start \in Nat /\ run.cutoff \in Nat /\ run.start < run.cutoff /\ 2 * run.cutoff <= clock
    BY Bounds DEF ResetInv, GridInv, BaseInv, Types, RunOk, NoRun
  <1>s. UNCHANGED <<roll, cursor>> /\ RunStays
    BY SourceStays
  <1>r. /\ run'.pc = run.pc /\ run'.start = run.start /\ run'.end = run.end /\ run'.cutoff = run.cutoff
        /\ run'.rows = run.rows /\ Window' = Window
    BY <1>0, <1>s DEF RunStays, Window
  <1>1. CASE \E i \in {clock - 1, clock} : Move(i)
    <2>0. PICK i \in {clock - 1, clock} : Move(i)
      BY <1>1
    <2>1. /\ src' = src \cup {i}
          /\ run' = [run EXCEPT !.clean = @ \ {FloorHour(i)}]
          /\ late' = IF roll[FloorHour(i)] # Missing \/ FloorHour(i) \in run.clean
                     THEN late \cup {FloorHour(i)} ELSE late
      BY <2>0 DEF Move
    <2>2. run'.clean = run.clean \ {FloorHour(i)}
      BY <1>0, <2>1
    <2>3. \A h : h # FloorHour(i) => Count(h)' = Count(h)
      BY <2>1, OtherCountsStay
    <2>4. FloorHour(i) \in Nat /\ cursor - 1 <= FloorHour(i)
      BY <1>0, MovesAreRecent
    <2>5. run.pc # "idle" => run.start <= FloorHour(i)
      <3>1. ASSUME run.pc # "idle"
            PROVE  run.start <= FloorHour(i)
        <4>1. run.cutoff - 1 <= FloorHour(i)
          BY <1>0, <3>1, MovesAreRecent
        <4>. QED  BY <1>0, <2>4, <3>1, <4>1
      <3>. QED  BY <3>1
    <2>6. CandidateCovers'
      <3>1. run.pc = "computed" =>
              /\ run'.clean \subseteq Window /\ Window \ run'.clean \subseteq late'
              /\ \A h \in run'.clean : Count(h)' <= run.rows[h]
        BY <1>0, <2>1, <2>2, <2>3 DEF CandidateCovers
      <3>2. run.pc # "computed" => run'.clean = {}
        BY <1>0, <2>2 DEF CandidateCovers
      <3>. QED  BY <1>r, <3>1, <3>2 DEF CandidateCovers
    <2>7. Covered'
      <3>1. \A h \in Hours \ late' : roll[h] # Missing => h # FloorHour(i) /\ h \in Hours \ late
        BY <2>1
      <3>2. \A h \in Hours \ late' : roll[h] # Missing => Count(h)' <= roll[h]
        BY <1>0, <2>3, <3>1 DEF Covered
      <3>3. FloorHour(i) < cursor => roll[FloorHour(i)] # Missing
        <4>1. ASSUME FloorHour(i) < cursor
              PROVE  cursor # 0 /\ FloorHour(i) = cursor - 1
          BY <1>0, <2>4, <4>1
        <4>. QED  BY <1>0, <4>1 DEF Covered
      <3>4. \A j \in src' : FloorHour(j) < cursor => roll[FloorHour(j)] # Missing
        BY <1>0, <2>1, <3>3 DEF Covered
      <3>5. cursor # 0 => roll[cursor - 1] # Missing
        BY <1>0 DEF Covered
      <3>. QED  BY <1>s, <3>2, <3>4, <3>5 DEF Covered
    <2>8. RowsInWindow'
      <3>1. run.pc # "idle" =>
              \A j \in src' : FloorHour(j) < run.cutoff => (roll[FloorHour(j)] # Missing \/ run.start <= FloorHour(j))
        BY <1>0, <2>1, <2>5 DEF RowsInWindow
      <3>. QED  BY <1>r, <1>s, <3>1 DEF RowsInWindow
    <2>. QED  BY <2>6, <2>7, <2>8
  <1>2. ASSUME src' \subseteq src, late' = late, run'.clean = run.clean
        PROVE  CandidateCovers' /\ Covered' /\ RowsInWindow'
    <2>1. \A h : Count(h)' <= Count(h) /\ Count(h)' \in Nat /\ Count(h) \in Nat
      BY <1>0, <1>2, FewerCounts
    <2>2. CandidateCovers'
      <3>1. ASSUME run.pc = "computed"
            PROVE  \A h \in run.clean : Count(h)' <= run.rows[h]
        <4>1. run.clean \subseteq Window /\ \A h \in run.clean : Count(h) <= run.rows[h]
          BY <1>0, <3>1 DEF CandidateCovers
        <4>2. \A h \in Window : run.rows[h] \in Nat
          BY <3>1 DEF ResetInv, GridInv, BaseInv, RunOk
        <4>. QED  BY <2>1, <4>1, <4>2
      <3>. QED  BY <1>0, <1>r, <1>2, <3>1 DEF CandidateCovers
    <2>3. Covered'
      <3>1. ASSUME NEW h \in Hours \ late, roll[h] # Missing
            PROVE  Count(h)' <= roll[h]
        <4>1. Count(h) <= roll[h] /\ roll[h] \in Nat
          BY <1>0, <3>1 DEF Covered
        <4>. QED  BY <2>1, <4>1
      <3>2. \A j \in src' : FloorHour(j) < cursor => roll[FloorHour(j)] # Missing
        BY <1>0, <1>2 DEF Covered
      <3>3. cursor # 0 => roll[cursor - 1] # Missing
        BY <1>0 DEF Covered
      <3>. QED  BY <1>s, <1>2, <3>1, <3>2, <3>3 DEF Covered
    <2>4. RowsInWindow'
      BY <1>0, <1>2, <1>r, <1>s DEF RowsInWindow
    <2>. QED  BY <2>2, <2>3, <2>4
  <1>3. CASE Checkpoint \/ PruneRow \/ StartReset \/ BlockReset \/ Tick \/ UNCHANGED vars
    <2>1. src' \subseteq src /\ late' = late
      BY <1>3 DEF Checkpoint, PruneRow, StartReset, BlockReset, Tick, source, vars
    <2>2. run' = run \/ run' = [run EXCEPT !.confirms = FALSE]
      BY <1>3 DEF Checkpoint, PruneRow, StartReset, BlockReset, Tick, vars
    <2>3. run'.clean = run.clean
      BY <1>0, <2>2
    <2>. QED  BY <1>2, <2>1, <2>3
  <1>4. ~Truncate
    <2>1. ASSUME Truncate
          PROVE  FALSE
      <3>1. guard.pc = "confirmed" /\ guard.at = 0
        BY <2>1 DEF Truncate
      <3>2. BoundaryOk
        BY DEF ResetInv, GridInv, BaseInv
      <3>. QED  BY <3>1, <3>2 DEF BoundaryOk
    <2>. QED  BY <2>1
  <1>5. \A i : ~Reseed(i)
    <2>1. BoundaryOk
      BY DEF ResetInv, GridInv, BaseInv
    <2>. QED  BY <2>1 DEF Reseed, BoundaryOk
  <1>. QED  BY <1>1, <1>3, <1>4, <1>5 DEF SourceNext

\* An hourly run begins where the rows without a bucket begin.
LEMMA CoverCapture ==
  ASSUME ResetInv, reset = 0, NEW confirms \in BOOLEAN, Capture(FALSE, 0, confirms)
  PROVE  RowsInWindow'
  <1>0. /\ BaseInv /\ Covered /\ clock \in Nat /\ cursor \in Nat /\ src \subseteq Nat
        /\ \A i \in src : FloorHour(i) \in Int
    <2>1. BaseInv /\ Covered
      BY DEF ResetInv, GridInv
    <2>2. src \subseteq Nat
      BY <2>1 DEF BaseInv, BoundaryOk
    <2>. QED  BY <2>1, <2>2, Halves DEF BaseInv, Types
  <1>1. 0 \in Nat /\ FALSE \in BOOLEAN
    OBVIOUS
  <1>2. PICK cutoff, from, end \in Nat : Captures(FALSE, confirms, cutoff, from, end)
    BY <1>0, <1>1, CapturedWindow
  <1>3. /\ from = HourlyStart(cutoff) /\ (cursor # 0 => from <= cursor)
        /\ run' = [NoRun EXCEPT !.pc = "captured", !.start = from, !.end = end, !.cutoff = cutoff,
                                !.scoped = FALSE, !.confirms = confirms]
    BY <1>2 DEF Captures
  <1>4. run'.start = from /\ run'.cutoff = cutoff
    BY <1>3 DEF NoRun
  <1>5. UNCHANGED <<src, roll>>
    BY DEF Capture, source, report
  <1>6. ASSUME NEW i \in src
        PROVE  roll[FloorHour(i)] # Missing \/ from <= FloorHour(i)
    <2>1. CASE cursor = 0
      <3>1. from = FloorHour(Min(src))
        BY <1>3, <1>6, <2>1 DEF HourlyStart
      <3>2. Min(src) \in Nat /\ Min(src) <= i /\ i \in Nat
        BY <1>0, <1>6, LeastIsOne
      <3>3. FloorHour(Min(src)) \in Int /\ 2 * FloorHour(Min(src)) <= Min(src)
        <4>1. Min(src) \in Int
          BY <3>2
        <4>. QED  BY <4>1, Halves
      <3>4. FloorHour(i) \in Int /\ i <= 2 * FloorHour(i) + 1
        <4>1. i \in Int
          BY <3>2
        <4>. QED  BY <4>1, Halves
      <3>. QED  BY <3>1, <3>2, <3>3, <3>4
    <2>2. CASE cursor # 0
      <3>1. from <= cursor /\ FloorHour(i) \in Int
        BY <1>0, <1>3, <1>6, <2>2
      <3>2. FloorHour(i) < cursor => roll[FloorHour(i)] # Missing
        BY <1>0, <1>6 DEF Covered
      <3>. QED  BY <1>0, <3>1, <3>2
    <2>. QED  BY <2>1, <2>2
  <1>. QED  BY <1>4, <1>5, <1>6 DEF RowsInWindow

\* What a publication leaves uncovered is late.
LEMMA CoverPublication ==
  ASSUME ResetInv, reset = 0, run.pc = "computed", roll' = Upserted, cursor' = Advanced, run' = NoRun,
         late' = late \ run.clean, UNCHANGED src
  PROVE  CandidateCovers' /\ Covered' /\ RowsInWindow'
  <1>0. /\ BaseInv /\ CandidateCovers /\ Covered /\ RowsInWindow
        /\ IsFiniteSet(src) /\ roll \in [Hours -> {Missing} \cup Nat] /\ src \subseteq Nat
        /\ run.start \in Nat /\ run.cutoff \in Nat /\ run.end = run.cutoff /\ run.start < run.cutoff
    BY DEF ResetInv, GridInv, BaseInv, Types, RunOk, Hourly, BoundaryOk
  <1>1. /\ Advanced = run.cutoff /\ Window \subseteq Hours
        /\ \A h \in Window : Upserted[h] = run.rows[h] /\ run.rows[h] \in Nat
        /\ \A h \in Hours \ Window : Upserted[h] = roll[h]
    BY <1>0, Upserts
  <1>2. run.cutoff - 1 \in Window
    BY UpsertKeepsTheGrid DEF ResetInv
  <1>3. run'.pc = "idle" /\ run'.clean = {}
    BY DEF NoRun
  <1>4. CandidateCovers' /\ RowsInWindow'
    BY <1>3 DEF CandidateCovers, RowsInWindow
  <1>5. ASSUME NEW h \in Hours \ late', Upserted[h] # Missing
        PROVE  Count(h) <= Upserted[h]
    <2>1. CASE h \in run.clean
      BY <1>0, <1>1, <2>1 DEF CandidateCovers
    <2>2. CASE h \notin run.clean
      <3>1. h \notin late /\ h \notin Window
        BY <1>0, <1>5, <2>2 DEF CandidateCovers
      <3>. QED  BY <1>0, <1>1, <1>5, <3>1 DEF Covered
    <2>. QED  BY <2>1, <2>2
  <1>6. ASSUME NEW i \in src, FloorHour(i) < run.cutoff
        PROVE  Upserted[FloorHour(i)] # Missing
    <2>1. i \in Int
      BY <1>0
    <2>2. FloorHour(i) \in Int /\ i <= 2 * FloorHour(i) + 1
      BY <2>1, Halves
    <2>3. FloorHour(i) \in Nat
      BY <1>0, <2>2
    <2>4. roll[FloorHour(i)] # Missing \/ run.start <= FloorHour(i)
      BY <1>0, <1>6 DEF RowsInWindow
    <2>5. FloorHour(i) \in Hours
      <3>1. run.cutoff <= MaxHour
        BY <1>0, Bounds DEF BaseInv, Types, RunOk
      <3>. QED  BY <1>0, <1>6, <2>3, <3>1, Bounds DEF Hours
    <2>6. CASE FloorHour(i) \in Window
      BY <1>1, <2>6 DEF Missing
    <2>7. CASE FloorHour(i) \notin Window
      <3>1. ~(run.start <= FloorHour(i))
        BY <1>0, <1>6, <2>3, <2>7 DEF Window
      <3>. QED  BY <1>1, <2>4, <2>5, <2>7, <3>1
    <2>. QED  BY <2>6, <2>7
  <1>7. Upserted[run.cutoff - 1] # Missing
    BY <1>1, <1>2 DEF Missing
  <1>8. Covered'
    <2>1. \A h : Count(h)' = Count(h)
      BY DEF Count
    <2>. QED  BY <1>1, <1>5, <1>6, <1>7, <2>1 DEF Covered
  <1>. QED  BY <1>4, <1>8

LEMMA CoverRun ==
  ASSUME ResetInv, reset = 0, Run
  PROVE  CandidateCovers' /\ Covered' /\ RowsInWindow'
  <1>0. /\ DOMAIN run = {"pc", "start", "end", "cutoff", "scoped", "confirms", "rows", "clean"}
        /\ CandidateCovers /\ Covered /\ RowsInWindow /\ Scoped = FALSE
        /\ IsFiniteSet(src) /\ NoRun.pc = "idle" /\ NoRun.clean = {}
    BY DEF ResetInv, GridInv, BaseInv, Types, NoRun
  <1>c. ASSUME UNCHANGED src
        PROVE  \A h : Count(h)' = Count(h)
    BY <1>c DEF Count
  <1>1. CASE \E confirms \in BOOLEAN : Capture(FALSE, 0, confirms)
    <2>1. PICK confirms \in BOOLEAN : Capture(FALSE, 0, confirms)
      BY <1>1
    <2>2. UNCHANGED <<src, roll, cursor, late>>
      BY <2>1 DEF Capture, source, report
    <2>3. run'.pc = "captured" /\ run'.clean = {}
      <3>1. \E a, b, c, d : run' = [NoRun EXCEPT !.pc = "captured", !.start = a, !.end = b,
                                                 !.cutoff = c, !.scoped = FALSE, !.confirms = d]
        BY <2>1 DEF Capture
      <3>. QED  BY <3>1 DEF NoRun
    <2>4. CandidateCovers'
      BY <2>3 DEF CandidateCovers
    <2>5. Covered'
      BY <1>0, <1>c, <2>2 DEF Covered
    <2>. QED  BY <2>1, <2>4, <2>5, CoverCapture
  <1>2. CASE Compute
    <2>1. /\ UNCHANGED <<src, roll, cursor, late>> /\ run.pc = "captured"
          /\ run' = [run EXCEPT !.pc = "computed", !.clean = Window, !.rows = [h \in Window |-> Count(h)]]
      BY <1>2 DEF Compute, source, report
    <2>2. /\ run'.pc = "computed" /\ run'.start = run.start /\ run'.end = run.end /\ run'.cutoff = run.cutoff
          /\ run'.clean = Window /\ run'.rows = [h \in Window |-> Count(h)]
      BY <1>0, <2>1
    <2>3. Window' = Window /\ \A h : Count(h)' = Count(h)
      BY <1>c, <2>1, <2>2 DEF Window
    <2>4. \A h \in Window : Count(h) <= Count(h)
      <3>1. \A h : Count(h) \in Nat
        <4>1. ASSUME NEW h
              PROVE  Count(h) \in Nat
          <5>1. IsFiniteSet({i \in src : FloorHour(i) = h})
            BY <1>0, FS_Subset
          <5>. QED  BY <5>1, FS_CardinalityType DEF Count
        <4>. QED  BY <4>1
      <3>. QED  BY <3>1
    <2>5. CandidateCovers'
      BY <2>2, <2>3, <2>4 DEF CandidateCovers
    <2>6. Covered' /\ RowsInWindow'
      BY <1>0, <2>1, <2>2, <2>3 DEF Covered, RowsInWindow
    <2>. QED  BY <2>5, <2>6
  <1>3. ASSUME run' = NoRun, late' = {h \in late : roll[h] # Missing}, UNCHANGED <<src, roll, cursor>>
        PROVE  CandidateCovers' /\ Covered' /\ RowsInWindow'
    <2>1. run'.pc = "idle" /\ run'.clean = {}
      BY <1>0, <1>3
    <2>2. CandidateCovers' /\ RowsInWindow'
      BY <2>1 DEF CandidateCovers, RowsInWindow
    <2>3. Covered'
      BY <1>0, <1>3, <1>c DEF Covered
    <2>. QED  BY <2>2, <2>3
  <1>4. CASE Abandon
    BY <1>3, <1>4 DEF Abandon, source, report
  <1>5. CASE Publish
    BY <1>5, CoverPublication DEF Publish
  <1>6. CASE Activate
    <2>1. run.pc = "computed" /\ run' = NoRun /\ UNCHANGED src
      BY <1>6 DEF Activate
    <2>2. \/ roll' = Upserted /\ cursor' = Advanced /\ late' = late \ run.clean
          \/ late' = {h \in late : roll[h] # Missing} /\ UNCHANGED report
      BY <1>6 DEF Activate
    <2>3. CASE roll' = Upserted /\ cursor' = Advanced /\ late' = late \ run.clean
      BY <2>1, <2>3, CoverPublication
    <2>4. CASE late' = {h \in late : roll[h] # Missing} /\ UNCHANGED report
      BY <1>3, <2>1, <2>4 DEF report
    <2>. QED  BY <2>2, <2>3, <2>4
  <1>. QED  BY <1>0, <1>1, <1>2, <1>4, <1>5, <1>6 DEF Run

LEMMA ResetInvStep == ResetInv /\ [Next]_vars => ResetInv'
  <1>. SUFFICES ASSUME ResetInv, [Next]_vars PROVE ResetInv'
    OBVIOUS
  <1>1. GridInv' /\ OneReset'
    BY GridStep, OneResetStep DEF ResetInv
  <1>2. ASSUME reset' = 0
        PROVE  CandidateCovers' /\ Covered' /\ RowsInWindow'
    <2>1. reset = 0
      <3>1. reset' = reset \/ Truncate
        BY DEF Next, Move, Checkpoint, PruneRow, StartReset, BlockReset, Reseed, Run, Capture, Compute,
               Abandon, Publish, Activate, Tick, source, vars
      <3>2. ASSUME Truncate
            PROVE  FALSE
        <4>1. guard.pc = "confirmed" /\ reset' = guard.at
          BY <3>2 DEF Truncate
        <4>2. BoundaryOk
          BY DEF ResetInv, GridInv, BaseInv
        <4>. QED  BY <1>2, <4>1, <4>2 DEF BoundaryOk
      <3>. QED  BY <1>2, <3>1, <3>2
    <2>2. CASE Run
      BY <2>1, <2>2, CoverRun
    <2>3. CASE SourceNext
      BY <1>2, <2>1, <2>3, CoverMoves
    <2>. QED  BY <2>2, <2>3 DEF Next, SourceNext
  <1>. QED  BY <1>1, <1>2 DEF ResetInv

\* The step that the property speaks of.
AccountsForReset ==
  reset' # reset =>
    \A h \in Hours : 2 * h < guard.at =>
      h \in late \/ WeekOf(h) \in incomplete' \/ Count(h) <= Larger(roll[h], 0)

LEMMA ResetStep ==
  ASSUME ResetInv, [Next]_vars
  PROVE  AccountsForReset
  <1>1. reset' = reset \/ Truncate
    BY DEF Next, Move, Checkpoint, PruneRow, StartReset, BlockReset, Reseed, Run, Capture, Compute,
           Abandon, Publish, Activate, Tick, source, vars
  <1>2. ASSUME Truncate, NEW h \in Hours, 2 * h < guard.at, h \notin late, WeekOf(h) \notin incomplete'
        PROVE  Count(h) <= Larger(roll[h], 0)
    <2>1. guard.pc = "confirmed" /\ incomplete' = incomplete \cup {WeekOf(FloorHour(guard.at))}
      BY <1>2 DEF Truncate
    <2>2. /\ reset = 0 /\ Covered /\ guard.at \in Nat /\ cursor \in Nat /\ h \in Nat /\ IsFiniteSet(src)
          /\ roll[h] \in {Missing} \cup Nat
      <3>1. reset = 0
        BY <2>1 DEF ResetInv, OneReset
      <3>2. h \in Nat
        BY Bounds DEF Hours
      <3>. QED  BY <3>1, <3>2 DEF ResetInv, GridInv, BaseInv, Types
    <2>3. FloorHour(guard.at) \in Int /\ guard.at <= 2 * FloorHour(guard.at) + 1
      <3>1. guard.at \in Int
        BY <2>2
      <3>. QED  BY <3>1, Halves
    <2>4. FloorHour(guard.at) <= cursor
      BY <2>1 DEF ResetInv, GridInv, BaseInv, BoundaryOk
    <2>5. h # FloorHour(guard.at)
      BY <1>2, <2>1
    <2>6. h < cursor
      BY <1>2, <2>2, <2>3, <2>4, <2>5
    <2>7. CASE \E i \in src : FloorHour(i) = h
      <3>1. roll[h] # Missing /\ Count(h) <= roll[h]
        BY <1>2, <2>2, <2>6, <2>7 DEF Covered
      <3>. QED  BY <2>2, <3>1 DEF Larger
    <2>8. CASE ~\E i \in src : FloorHour(i) = h
      <3>1. {i \in src : FloorHour(i) = h} = {}
        BY <2>8
      <3>2. Count(h) = 0
        BY <3>1, FS_EmptySet DEF Count
      <3>. QED  BY <2>2, <3>2 DEF Larger, Missing
    <2>. QED  BY <2>7, <2>8
  <1>. QED  BY <1>1, <1>2 DEF AccountsForReset

\* With hourly runs only, the guarded reset takes away no movement that its
\* hour's bucket has not counted, save late ones and those of the incomplete
\* week.  A second reset may: what was reseeded is dated before the first one,
\* where no later run looks.
THEOREM ResetIsAccountedHolds == Scoped = FALSE /\ Resets \in {0, 1} /\ Spec => ResetIsAccounted
  <1>1. Scoped = FALSE /\ Resets \in {0, 1} /\ Init => ResetInv
    <2>1. SUFFICES ASSUME Scoped = FALSE, Resets \in {0, 1}, Init PROVE ResetInv
      OBVIOUS
    <2>2. /\ guard = [pc |-> "idle", at |-> 0, left |-> Resets] /\ reset = 0 /\ src = {} /\ cursor = 0
          /\ run.pc = "idle" /\ run.clean = {} /\ \A h \in Hours : roll[h] = Missing
      BY <2>1 DEF Init, NoRun
    <2>. QED  BY <2>1, <2>2, GridInit DEF ResetInv, OneReset, CandidateCovers, Covered, RowsInWindow
  <1>2. ResetInv /\ [Next]_vars => ResetInv'
    BY ResetInvStep
  <1>3. ResetInv /\ [Next]_vars => [AccountsForReset]_vars
    BY ResetStep
  <1>4. [][AccountsForReset]_vars <=> ResetIsAccounted
    BY PTL DEF ResetIsAccounted, AccountsForReset
  <1>. QED  BY <1>1, <1>2, <1>3, <1>4, PTL DEF Spec
-----------------------------------------------------------------------------
(* What retention deleted stays in the buckets.                            *)

\* An hourly run begins at the cursor or at most the trailing window back.
NotFarBack ==
  run.pc # "idle" =>
    \/ cursor <= run.start \/ run.cutoff <= run.start + Trailing
    \/ \A h \in Hours : roll[h] = Missing

\* The checkpoint is as old as the retention, and no run is older than an outage.
Retains == mark = 0 \/ mark + 2 * Retention <= clock

RunIsRecent == run.pc # "idle" => FloorHour(clock) <= run.cutoff + Outage

HistoryInv == GridInv /\ Outage + Trailing < Retention /\ NotFarBack /\ Retains /\ RunIsRecent

LEMMA HistorySource ==
  ASSUME HistoryInv, SourceNext
  PROVE  NotFarBack' /\ Retains' /\ RunIsRecent'
  <1>0. /\ clock \in Nat /\ mark \in Nat /\ 2 * Trailing <= clock
        /\ DOMAIN run = {"pc", "start", "end", "cutoff", "scoped", "confirms", "rows", "clean"}
    BY DEF HistoryInv, GridInv, BaseInv, Types, NoRun
  <1>1. UNCHANGED <<roll, cursor>> /\ RunStays
    BY SourceStays
  <1>2. run'.pc = run.pc /\ run'.cutoff = run.cutoff /\ run'.start = run.start
    BY <1>0, <1>1 DEF RunStays
  <1>3. clock' = clock \/ (clock' = clock + 1 /\ RunInTime)
    BY DEF SourceNext, Move, Checkpoint, PruneRow, StartReset, BlockReset, Truncate, Tick, Reseed, vars
  <1>4. RunIsRecent'
    BY <1>2, <1>3 DEF HistoryInv, RunIsRecent, RunInTime
  <1>5. mark' = mark \/ mark' = 0 \/ (mark' = clock - 2 * Retention /\ clock' = clock)
    BY DEF SourceNext, Move, Checkpoint, PruneRow, StartReset, BlockReset, Truncate, Tick, Reseed,
           vars, source
  <1>6. Retains'
    BY <1>0, <1>3, <1>5, Bounds DEF HistoryInv, Retains
  <1>7. NotFarBack'
    BY <1>1, <1>2 DEF HistoryInv, NotFarBack
  <1>. QED  BY <1>4, <1>6, <1>7

LEMMA HistoryCapture ==
  ASSUME HistoryInv, NEW confirms \in BOOLEAN, Capture(FALSE, 0, confirms)
  PROVE  NotFarBack' /\ Retains' /\ RunIsRecent'
  <1>0. /\ clock \in Nat /\ mark \in Nat /\ cursor \in Nat /\ reset \in Nat /\ 2 * Trailing <= clock
        /\ BoundaryOk
    BY DEF HistoryInv, GridInv, BaseInv, Types
  <1>1. PICK cutoff \in Int : cutoff = FloorHour(clock)
    BY <1>0, Halves
  <1>2. PICK start : start = HourlyStart(cutoff)
    OBVIOUS
  <1>3. PICK from : from = IF reset # 0 THEN Larger(start, FloorHour(reset)) ELSE start
    OBVIOUS
  <1>4. /\ run' = [NoRun EXCEPT !.pc = "captured", !.start = from, !.end = cutoff, !.cutoff = cutoff,
                                !.scoped = FALSE, !.confirms = confirms]
        /\ UNCHANGED <<clock, mark, roll, cursor>>
    BY <1>1, <1>2, <1>3 DEF Capture, CutoffAt, source, report
  <1>5. run'.start = from /\ run'.cutoff = cutoff
    BY <1>4 DEF NoRun
  <1>6. CASE cursor = 0
    <2>1. \A h \in Hours : roll'[h] = Missing
      BY <1>4, <1>6, NoBucketWithoutCursor DEF HistoryInv
    <2>. QED  BY <1>1, <1>4, <1>5, <2>1, Bounds DEF NotFarBack, Retains, RunIsRecent, HistoryInv
  <1>7. CASE cursor # 0
    <2>1. start \in Int /\ (start = cursor \/ start = cutoff - Trailing)
      BY <1>0, <1>2, <1>7, Bounds DEF HourlyStart, Smaller
    <2>2. from \in Int /\ start <= from
      <3>1. reset # 0 => FloorHour(reset) \in Int
        BY <1>0, Halves
      <3>. QED  BY <1>3, <2>1, <3>1 DEF Larger
    <2>3. cursor <= from \/ cutoff <= from + Trailing
      BY <1>0, <2>1, <2>2, Bounds
    <2>. QED  BY <1>1, <1>4, <1>5, <2>3, Bounds DEF NotFarBack, Retains, RunIsRecent, HistoryInv
  <1>. QED  BY <1>6, <1>7

LEMMA HistoryStep == HistoryInv /\ [Next]_vars => HistoryInv'
  <1>. SUFFICES ASSUME HistoryInv, [Next]_vars PROVE HistoryInv'
    OBVIOUS
  <1>0. /\ DOMAIN run = {"pc", "start", "end", "cutoff", "scoped", "confirms", "rows", "clean"}
        /\ NoRun.pc = "idle" /\ Scoped = FALSE
    BY DEF HistoryInv, GridInv, BaseInv, Types, NoRun
  <1>1. GridInv'
    BY GridStep DEF HistoryInv
  <1>2. CASE SourceNext
    BY <1>1, <1>2, HistorySource DEF HistoryInv
  <1>3. CASE \E confirms \in BOOLEAN : Capture(FALSE, 0, confirms)
    BY <1>1, <1>3, HistoryCapture DEF HistoryInv
  <1>4. CASE Compute
    <2>1. /\ UNCHANGED <<clock, mark, cursor, roll>> /\ run.pc = "captured"
          /\ run' = [run EXCEPT !.pc = "computed", !.clean = Window, !.rows = [h \in Window |-> Count(h)]]
      BY <1>4 DEF Compute, source, report
    <2>2. run'.start = run.start /\ run'.cutoff = run.cutoff
      BY <1>0, <2>1
    <2>. QED  BY <1>1, <2>1, <2>2 DEF HistoryInv, NotFarBack, Retains, RunIsRecent
  <1>5. CASE Abandon \/ Publish \/ Activate
    <2>1. run' = NoRun /\ UNCHANGED <<clock, mark>>
      BY <1>5 DEF Abandon, Publish, Activate, source
    <2>. QED  BY <1>0, <1>1, <2>1 DEF HistoryInv, NotFarBack, Retains, RunIsRecent
  <1>. QED  BY <1>0, <1>2, <1>3, <1>4, <1>5 DEF Next, Run, SourceNext

KeepsHistory == \A h \in Rolled : 2 * h < mark /\ mark' = mark => roll'[h] >= roll[h]

LEMMA UpsertKeepsHistory ==
  ASSUME HistoryInv, run.pc = "computed",
         NEW h \in Rolled, 2 * h < mark
  PROVE  Upserted[h] >= roll[h]
  <1>0. /\ clock \in Nat /\ mark \in Nat /\ cursor \in Nat /\ roll \in [Hours -> {Missing} \cup Nat]
        /\ run.start \in Nat /\ run.cutoff \in Nat /\ run.end \in Nat
        /\ Grid(roll, cursor) /\ BaseInv /\ NotFarBack /\ Retains /\ RunIsRecent
        /\ Outage + Trailing < Retention
    BY DEF HistoryInv, GridInv, BaseInv, Types, RunOk
  <1>1. h \in Hours /\ h \in Nat /\ roll[h] # Missing /\ roll[h] \in Nat
    BY <1>0, Bounds DEF Rolled, Hours
  <1>2. h < cursor
    BY <1>0, <1>1 DEF Grid
  <1>3. CASE h \notin Window
    <2>1. Upserted[h] = roll[h]
      BY <1>0, <1>1, <1>3, Upserts
    <2>. QED  BY <1>1, <2>1
  <1>4. CASE h \in Window
    <2>1. run.start <= h
      BY <1>0, <1>1, <1>4 DEF Window
    <2>2. run.cutoff <= run.start + Trailing
      <3>1. ~(cursor <= run.start)
        BY <1>0, <1>1, <1>2, <2>1
      <3>. QED  BY <1>0, <1>1, <3>1 DEF NotFarBack
    <2>3. mark + 2 * Retention <= clock
      BY <1>0, <1>1 DEF Retains
    <2>4. FloorHour(clock) <= run.cutoff + Outage /\ FloorHour(clock) \in Int /\ clock <= 2 * FloorHour(clock) + 1
      <3>1. run.pc # "idle" /\ clock \in Int
        BY <1>0
      <3>2. FloorHour(clock) \in Int /\ clock <= 2 * FloorHour(clock) + 1
        BY <3>1, Halves
      <3>. QED  BY <1>0, <3>1, <3>2 DEF RunIsRecent
    <2>5. FALSE
      BY <1>0, <1>1, <2>1, <2>2, <2>3, <2>4, Bounds
    <2>. QED  BY <2>5
  <1>. QED  BY <1>3, <1>4

LEMMA HistoryIsKeptStep ==
  ASSUME HistoryInv, [Next]_vars
  PROVE  KeepsHistory
  <1>0. roll \in [Hours -> {Missing} \cup Nat] /\ Scoped = FALSE
    BY DEF HistoryInv, GridInv, BaseInv, Types
  <1>1. ASSUME UNCHANGED roll PROVE KeepsHistory
    BY <1>0, <1>1 DEF KeepsHistory, Rolled
  <1>2. ASSUME run.pc = "computed", roll' = Upserted PROVE KeepsHistory
    BY <1>2, UpsertKeepsHistory DEF KeepsHistory
  <1>3. CASE SourceNext
    BY <1>1, <1>3, SourceStays
  <1>4. CASE Publish \/ Activate
    BY <1>1, <1>2, <1>4 DEF Publish, Activate, report
  <1>5. CASE (\E confirms \in BOOLEAN : Capture(FALSE, 0, confirms)) \/ Compute \/ Abandon
    BY <1>1, <1>5 DEF Capture, Compute, Abandon, report
  <1>. QED  BY <1>0, <1>3, <1>4, <1>5 DEF Next, Run, SourceNext

\* No publication lowers the bucket of an hour that retention has reached, with
\* or without resets: what the ledger can no longer reproduce stays as it was
\* counted, for a retention longer than the trailing window and an outage
\* together and hourly runs only; a run for a single week (Scoped) breaks it.
THEOREM HistoryIsKeptHolds ==
  Scoped = FALSE /\ Outage + Trailing < Retention /\ Spec => HistoryIsKept
  <1>1. Scoped = FALSE /\ Outage + Trailing < Retention /\ Init => HistoryInv
    <2>1. Init => mark = 0 /\ run.pc = "idle"
      BY DEF Init, NoRun
    <2>. QED  BY <2>1, GridInit DEF HistoryInv, NotFarBack, Retains, RunIsRecent
  <1>2. HistoryInv /\ [Next]_vars => HistoryInv'
    BY HistoryStep
  <1>3. HistoryInv /\ [Next]_vars => [KeepsHistory]_vars
    BY HistoryIsKeptStep
  <1>4. [][KeepsHistory]_vars <=> HistoryIsKept
    BY PTL DEF HistoryIsKept, KeepsHistory
  <1>. QED  BY <1>1, <1>2, <1>3, <1>4, PTL DEF Spec
=============================================================================
