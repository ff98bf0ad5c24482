------------------------- MODULE RollupPublication -------------------------
(***************************************************************************)
(* Hourly rollups and the weekly report they activate                      *)
(* (data/pipelines/business_performance/rollups.py), against the three     *)
(* things that change their source: movements, retention and the guarded   *)
(* reset (scripts/{prune_movement_ledger,db_size_guard}.py).               *)
(*                                                                         *)
(* An instant is half an hour, so that a cutoff may fall inside an hour.   *)
(* One warehouse, one client and one metric: the number of movements of an *)
(* hour.  The queue lets one run publish at a time (ReportingQueue), so    *)
(* one run is enough; it may be abandoned between any two transactions.    *)
(***************************************************************************)
EXTENDS Integers, FiniteSets, FiniteSetsExt

CONSTANTS
  MaxHour,      \* bound: hours that pass
  MaxRows,      \* bound: movements ever made between two resets
  WeekHours,    \* hours of a week
  Trailing,     \* TRAILING_RECOMPUTE_HOURS
  Retention,    \* movement_retention_days, in hours
  Backfill,     \* operations_feed_backfill_days, in hours
  Scoped,       \* administrators request single weeks
  Resets,       \* bound: guarded resets
  Outage,       \* bound: hours between two publications
  Shadow        \* REPORTING_ROLLUP_CUTOVER_ENABLED is off in some runs

ASSUME RollupAssumption ==
  /\ MaxHour \in Nat /\ MaxRows \in Nat /\ Resets \in Nat /\ Backfill \in Nat
  /\ Outage \in Nat \ {0}
  /\ WeekHours \in Nat \ {0} /\ Trailing \in 1..MaxHour
  /\ Retention \in Nat /\ Retention > Trailing
  /\ Scoped \in BOOLEAN /\ Shadow \in BOOLEAN

VARIABLES
  clock,     \* the current instant
  src,       \* instants of the movement rows that still exist
  mark,      \* stock_ledger_checkpoints.checkpoint_at (0: none)
  reset,     \* source_ledger_state.last_reset_at (0: never)
  guard,     \* the guarded reset
  incomplete,\* reporting.incomplete_weeks
  roll,      \* hourly_activity_rollups
  cursor,    \* rollup_state.last_cutoff_at (0: NULL)
  active,    \* rollup_state.active_cutoff_at (0: NULL)
  weekly,    \* weekly_warehouse_client_performance
  run,       \* the run that owns the queue
  made,      \* ghost: instants of all movements made since the last reset
  late,      \* ghost: hours with a movement their bucket has not seen
  verdict    \* ghost: how the last activation ended

source == <<src, mark, reset, guard, incomplete, made>>
report == <<roll, cursor, active, weekly>>
vars   == <<clock, source, report, run, late, verdict>>

Hours    == 0..MaxHour
Weeks    == 0..(MaxHour \div WeekHours)
Instants == 0..(2 * MaxHour + 1)

Larger(a, b)  == IF a > b THEN a ELSE b
Smaller(a, b) == IF a < b THEN a ELSE b

FloorHour(t) == t \div 2
WeekOf(h)    == h \div WeekHours

\* Mutant: the hour containing the instant is taken for whole.
CeilHourDown(t) == t \div 2

\* _ceil_hour.
CeilHour(t) == (t + 1) \div 2

Missing == -1   \* no bucket, no weekly row
NoRun   == [pc |-> "idle", start |-> 0, end |-> 0, cutoff |-> 0, scoped |-> FALSE,
            confirms |-> FALSE, rows |-> <<>>, clean |-> {}]

Init ==
  /\ clock = 2 * Trailing
  /\ src = {} /\ made = {} /\ late = {}
  /\ mark = 0 /\ reset = 0 /\ incomplete = {}
  /\ guard = [pc |-> "idle", at |-> 0, left |-> Resets]
  /\ roll = [h \in Hours |-> Missing]
  /\ cursor = 0 /\ active = 0
  /\ weekly = [w \in Weeks |-> Missing]
  /\ run = NoRun
  /\ verdict = "none"

-----------------------------------------------------------------------------
(* The source.                                                             *)

\* A movement commits; created_at may be the instant before, in another hour.
Move(i) ==
  /\ i \notin made /\ Cardinality(made) < MaxRows
  /\ src' = src \cup {i} /\ made' = made \cup {i}
  /\ LET h == FloorHour(i) IN
       /\ late' = IF roll[h] # Missing \/ h \in run.clean THEN late \cup {h} ELSE late
       /\ run' = [run EXCEPT !.clean = @ \ {h}]
  /\ UNCHANGED <<clock, mark, reset, incomplete, guard, report, verdict>>

\* write_ledger_checkpoint commits before anything is deleted.
Checkpoint ==
  /\ clock - 2 * Retention > mark
  /\ mark' = clock - 2 * Retention
  /\ UNCHANGED <<clock, src, reset, incomplete, guard, made, report, run, late, verdict>>

\* A batch of rows below the checkpoint, in the order of their ids; the job may
\* stop before the next.
PruneRow ==
  /\ \E i \in src : i < mark /\ src' = src \ {i}
  /\ UNCHANGED <<clock, mark, reset, incomplete, guard, made, report, run, late, verdict>>

\* reset_ledger fixes its boundary and enqueues a checkpoint run.
StartReset ==
  /\ guard.pc = "idle" /\ guard.left > 0
  /\ guard' = [pc |-> "waiting", at |-> clock, left |-> guard.left - 1]
  /\ UNCHANGED <<clock, src, mark, reset, incomplete, made, report, run, late, verdict>>

\* The checkpoint run failed or timed out: ResetBlocked, nobody waits for it now.
BlockReset ==
  /\ guard.pc = "waiting"
  /\ guard' = [guard EXCEPT !.pc = "idle"]
  /\ run' = [run EXCEPT !.confirms = FALSE]
  /\ UNCHANGED <<clock, src, mark, reset, incomplete, made, report, late, verdict>>

\* _reset_source_tables, once that very run has succeeded.
Truncate ==
  /\ guard.pc = "confirmed"
  /\ src' = {} /\ made' = {} /\ mark' = 0
  /\ reset' = guard.at
  /\ incomplete' = incomplete \cup {WeekOf(FloorHour(guard.at))}
  /\ guard' = [guard EXCEPT !.pc = "reseed"]
  /\ run' = [run EXCEPT !.clean = {}]
  /\ UNCHANGED <<clock, report, late, verdict>>

\* backfill_history writes movements dated before the reset.
Reseed(i) ==
  /\ guard.pc = "reseed" /\ i \notin made
  /\ guard' = [guard EXCEPT !.pc = "idle"]
  /\ src' = src \cup {i} /\ made' = made \cup {i}
  /\ run' = [run EXCEPT !.clean = {}]
  /\ UNCHANGED <<clock, mark, reset, incomplete, report, late, verdict>>

\* _run_watchdog ends a run after half an hour; a bound of hours is enough here.
RunInTime == run.pc # "idle" => FloorHour(clock + 1) <= run.cutoff + Outage

\* The service is never down for longer than Outage hours.
Tick ==
  /\ clock < 2 * MaxHour
  /\ cursor = 0 \/ FloorHour(clock + 1) <= cursor + Outage
  /\ RunInTime
  /\ clock' = clock + 1
  /\ UNCHANGED <<source, report, run, late, verdict>>

-----------------------------------------------------------------------------
(* A run: three transactions.                                              *)

Count(h) == Cardinality({i \in src : FloorHour(i) = h})

\* Mutant: only the trailing hours are recomputed.
TrailingOnly(cutoff) == cutoff - Trailing

\* Mutant: only what is new since the cursor.
CursorOnly(cutoff) ==
  IF cursor # 0 THEN Smaller(cursor, cutoff - 1)
  ELSE IF src # {} THEN FloorHour(Min(src)) ELSE cutoff - Trailing

\* Where an hourly run starts: the cursor, and at least the trailing hours.
HourlyStart(cutoff) ==
  IF cursor # 0 THEN Smaller(cursor, cutoff - Trailing)
  ELSE IF src # {} THEN FloorHour(Min(src)) ELSE cutoff - Trailing

\* The completed-hour cutoff of a run.
CutoffAt(t) == FloorHour(t)

\* capture_rollup_window; an empty window is an error and changes nothing.
Capture(scoped, week, confirms) ==
  LET cutoff == CutoffAt(clock)
      start  == IF scoped THEN week * WeekHours ELSE HourlyStart(cutoff)
      end    == IF scoped THEN Smaller(start + WeekHours, cutoff) ELSE cutoff
      from   == IF reset # 0 THEN Larger(start, FloorHour(reset)) ELSE start
  IN  /\ run.pc = "idle" /\ from < end
      /\ confirms => ~scoped /\ guard.pc = "waiting"
      /\ run' = [NoRun EXCEPT !.pc = "captured", !.start = from, !.end = end,
                              !.cutoff = cutoff, !.scoped = scoped, !.confirms = confirms]
      /\ UNCHANGED <<clock, source, report, late, verdict>>

Window == run.start..(run.end - 1)

\* compute_hourly_rollups, a later transaction: a dense grid.
Compute ==
  /\ run.pc = "captured"
  /\ run' = [run EXCEPT !.pc = "computed", !.clean = Window,
                        !.rows = [h \in Window |-> Count(h)]]
  /\ UNCHANGED <<clock, source, report, late, verdict>>

\* The worker dies or loses its lease: the candidate is gone.
Abandon ==
  /\ run.pc # "idle"
  /\ run' = NoRun
  /\ late' = {h \in late : roll[h] # Missing}
  /\ UNCHANGED <<clock, source, report, verdict>>

\* _UPSERT.
Upserted == [h \in Hours |-> IF h \in Window THEN run.rows[h] ELSE roll[h]]

\* GREATEST(last_cutoff_at, cutoff).
Advanced == Larger(cursor, run.cutoff)

\* Mutant: the success of any run confirms the checkpoint.
ConfirmAny == guard' = IF guard.pc = "waiting"
                       THEN [guard EXCEPT !.pc = "confirmed"] ELSE guard

\* The guard observes the success of the run it enqueued.
Confirm == guard' = IF run.confirms /\ guard.pc = "waiting"
                    THEN [guard EXCEPT !.pc = "confirmed"] ELSE guard

\* publish_hourly_rollups, before the cutover.
Publish ==
  /\ Shadow /\ run.pc = "computed"
  /\ roll' = Upserted /\ cursor' = Advanced
  /\ late' = late \ run.clean
  /\ run' = NoRun
  /\ Confirm
  /\ UNCHANGED <<clock, src, mark, reset, incomplete, made, active, weekly, verdict>>

\* Buckets with source_cutoff_at <= cutoff: all of them, since runs are claimed
\* one after the other and their cutoffs grow.
Known(table) == {h \in Hours : table[h] # Missing}

\* _reconciliation_bounds: the hours still sourced and already rolled up.
FirstHour(table) == Larger(Min(Known(table)), IF mark # 0 THEN CeilHour(mark) ELSE 0)

EndHour(table) == Smaller(Max(Known(table)) + 1, run.cutoff)

\* Sums over buckets; an hour without one adds nothing.
Total(table, hours) ==
  MapThenSumSet(LAMBDA h : table[h], {h \in hours : table[h] # Missing})

\* _reconciliation_result: sums per week, exactly equal.
Exact(table, from, to) ==
  \A w \in Weeks :
    LET hours == {h \in from..(to - 1) : WeekOf(h) = w} IN
    Total(table, hours) = MapThenSumSet(Count, hours)

\* Mutant: a week verified from its very first hour is skipped as well.
FirstWeekAfter(from) == WeekOf(from) + 1

\* The first week that is verified from its first hour.
FirstWeek(from) == IF from > WeekOf(from) * WeekHours THEN WeekOf(from) + 1 ELSE WeekOf(from)

\* Mutant: every completed week is republished, verified or not.
EveryWeek(cutoff, to) == WeekOf(cutoff)

CurrentWeek(cutoff, to) == Smaller(WeekOf(cutoff), WeekOf(to))

\* DELETE and _WEEKLY_UPSERT_FROM_HOURLY.
Republished(table, from, to) ==
  [w \in Weeks |->
     IF FirstWeek(from) <= w /\ w < CurrentWeek(run.cutoff, to)
     THEN LET hours == {h \in Known(table) : WeekOf(h) = w} IN
          IF hours = {} THEN Missing ELSE Total(table, hours)
     ELSE weekly[w]]

\* Ghost: nothing that the code could not know of changed since Compute.
Undisturbed == late \ run.clean = {} /\ run.clean = Window

\* activate_reconciled_rollups: one REPEATABLE READ transaction, all or nothing.
Activate ==
  LET table == Upserted
      from  == FirstHour(table)
      to    == EndHour(table)
      ok    == from < to /\ Exact(table, from, to)
  IN  /\ run.pc = "computed"
      /\ IF ok
         THEN /\ roll' = table /\ cursor' = Advanced /\ active' = run.cutoff
              /\ weekly' = Republished(table, from, to)
              /\ late' = late \ run.clean
              /\ verdict' = "exact"
              /\ Confirm
         ELSE /\ verdict' = IF from >= to THEN "nothing"
                            ELSE IF Undisturbed THEN "artefact" ELSE "mismatch"
              /\ late' = {h \in late : roll[h] # Missing}
              /\ UNCHANGED <<report, guard>>
      /\ run' = NoRun
      /\ UNCHANGED <<clock, src, mark, reset, incomplete, made>>

-----------------------------------------------------------------------------

Run ==
  \/ \E confirms \in BOOLEAN : Capture(FALSE, 0, confirms)
  \/ Scoped /\ \E w \in Weeks : Capture(TRUE, w, FALSE)
  \/ Compute \/ Abandon \/ Publish \/ Activate

Next ==
  \/ \E i \in {clock - 1, clock} : Move(i)
  \/ Checkpoint \/ PruneRow
  \/ StartReset \/ BlockReset \/ Truncate
  \/ \E i \in (clock - 2 * Backfill)..(clock - 1) : Reseed(i)
  \/ Run
  \/ Tick

Spec == Init /\ [][Next]_vars

\* Hourly slots keep coming, and not every attempt is abandoned.
FairSpec ==
  /\ Spec
  /\ WF_vars(Tick) /\ WF_vars(Capture(FALSE, 0, FALSE))
  /\ SF_vars(Compute) /\ SF_vars(Activate)

-----------------------------------------------------------------------------

\* Every variable keeps its type, and no bucket exists of an hour under way.
TypeOK ==
  /\ clock \in Instants /\ src \subseteq made /\ made \subseteq 0..clock
  /\ mark \in Instants /\ reset \in Instants
  /\ cursor \in Hours /\ active \in 0..cursor
  /\ \A h \in Hours : roll[h] # Missing => h < FloorHour(clock) /\ roll[h] \in 0..2
  /\ incomplete \subseteq Weeks
  /\ weekly \in [Weeks -> -1..(2 * WeekHours)]
  /\ run.pc \in {"idle", "captured", "computed"}
  /\ guard.pc \in {"idle", "waiting", "confirmed", "reseed"}
  /\ verdict \in {"none", "exact", "nothing", "mismatch", "artefact"}

Rolled == {h \in Hours : roll[h] # Missing}

\* The cursor tells the truth: every hour between the first bucket and
\* last_cutoff_at was rolled up, whatever run moved the cursor.
Dense == Rolled # {} => \A h \in Min(Rolled)..(cursor - 1) : roll[h] # Missing

\* Reconciliation compares only what is both sourced and rolled up: it never
\* refuses an activation whose candidate agrees with a source nobody disturbed.
NoArtefact == verdict # "artefact"

\* A movement that committed after its hour was rolled up is in the window of
\* the next hourly run, so the bucket is repaired.
LateIsRecomputed == run.pc # "idle" /\ ~run.scoped => \A h \in late : h >= run.start

\* Rollups retain the history the ledger can no longer reproduce: once
\* retention reached an hour its bucket is never recomputed lower.
HistoryIsKept ==
  [][\A h \in Rolled : 2 * h < mark /\ mark' = mark => roll'[h] >= roll[h]]_vars

\* The guarded reset destroys only what the report already has: a movement that
\* had committed before the reset's boundary is in its hour's bucket, or belongs
\* to a week recorded as incomplete.  A movement that reached its hour after the
\* hour was rolled up is the exception: the next hourly run will not find it.
ResetIsAccounted ==
  [][reset' # reset =>
       \A h \in Hours : 2 * h < guard.at =>
         h \in late \/ WeekOf(h) \in incomplete' \/ Count(h) <= Larger(roll[h], 0)]_vars

\* Activation never publishes a week other than as it really was, and a week
\* whose source retention has reached keeps the values it was published with.
ActivationIsTrue ==
  [][\A w \in Weeks : weekly'[w] # weekly[w] =>
       /\ weekly'[w] = Cardinality({i \in made : WeekOf(FloorHour(i)) = w})
       /\ 2 * w * WeekHours >= mark]_vars

\* A completed week that began after the first bucket, that retention has not
\* overtaken and that the report does not show yet.
Outstanding(w) ==
  /\ Rolled # {} /\ Min(Rolled) <= w * WeekHours
  /\ FloorHour(clock) >= (w + 1) * WeekHours
  /\ weekly[w] = Missing /\ 2 * w * WeekHours >= mark

\* Again and again no completed week is outstanding: the weeks reach the report
\* although only verified weeks are republished and retention moves the bounds.
WeeksAreServed == []<>(\A w \in Weeks : ~Outstanding(w))

=============================================================================
