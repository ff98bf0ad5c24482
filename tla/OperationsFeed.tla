--------------------------- MODULE OperationsFeed ---------------------------
(* The live operations feed, its pause switch, and the database size guard.  *)
(*                                                                           *)
(* Feed processes compete for a session advisory lock; the one that holds it *)
(* writes movements.  The session may end while its process works: PostgreSQL *)
(* frees the lock at once, the process learns of it at its next check.  The  *)
(* owner and the guards write one control row; a guard that finds the        *)
(* owner's approval there consumes it and rebuilds the ledger.               *)
EXTENDS Integers

CONSTANTS
  Feeds, Guards,
  MaxApprovals    \* bound: approvals the owner gives

VARIABLES
  leader,         \* the feed whose session holds the advisory lock, or "none"
  feed,           \* the feed processes
  control,        \* the row operations_feed_control
  guard,          \* the guard processes
  ledger,         \* recent movements: histories backfilled, and whether any is live
  past            \* history: approvals, resets, overlapping rebuilds

feedVars == <<leader, feed, control, guard, ledger, past>>

\* stray: work begun without the lock; late: ticks begun while paused.
NewFeed == [pc |-> "off", stray |-> 0, late |-> 0]
Row0 == [enabled |-> TRUE, note |-> "owner"]
NoGuard == [pc |-> "idle", hard |-> FALSE, read |-> Row0]

FeedInit ==
  /\ leader = "none"
  /\ feed = [f \in Feeds |-> NewFeed]
  /\ control = Row0
  /\ guard = [g \in Guards |-> NoGuard]
  /\ ledger = [histories |-> 0, live |-> FALSE]
  /\ past = [approvals |-> 0, resets |-> 0, overlap |-> FALSE]

Few(n) == IF n < 2 THEN n ELSE 2
At(f, pc) == feed' = [feed EXCEPT ![f].pc = pc]

\* Someone is between reading an empty ledger, or emptying it, and filling it.
Rebuilding(f) == \/ \E o \in Feeds \ {f} : feed[o].pc = "backfill"
                 \/ \E g \in Guards : guard[g].pc = "rebuild"

-----------------------------------------------------------------------------
(* A feed process.                                                           *)

AcquireSingletonLock(f) == leader = "none"

\* A feed that does not get the lock exits and is started again later.
StartFeed(f) ==
  /\ feed[f].pc = "off" /\ AcquireSingletonLock(f)
  /\ leader' = f
  /\ feed' = [feed EXCEPT ![f] = [NewFeed EXCEPT !.pc = "starting"]]
  /\ UNCHANGED <<control, guard, ledger, past>>

\* mutant: only the pid read at start-up is looked at
HeldOnce(f) == TRUE
RequireSingletonLock(f) == leader = f

\* A piece of work begins: it strays when another session may hold the lock.
Begins(f, pc) ==
  feed' = [feed EXCEPT ![f].pc = pc,
                       ![f].stray = IF leader = f THEN 0 ELSE Few(@ + 1),
                       ![f].late = IF pc # "tick" \/ control.enabled THEN @ ELSE Few(@ + 1)]

NoRecentMovements == ledger.histories = 0 /\ ~ledger.live

\* Start-up: the lock, the baseline, and the history if the ledger has none.
StartUp(f) ==
  /\ feed[f].pc = "starting" /\ RequireSingletonLock(f)
  /\ IF NoRecentMovements
     THEN Begins(f, "backfill") /\ past' = [past EXCEPT !.overlap = @ \/ Rebuilding(f)]
     ELSE At(f, "loop") /\ UNCHANGED past
  /\ UNCHANGED <<leader, control, guard, ledger>>

BackfillHistory(f) ==
  /\ feed[f].pc = "backfill" /\ At(f, "loop")
  /\ ledger' = [ledger EXCEPT !.histories = Few(@ + 1)]
  /\ UNCHANGED <<leader, control, guard, past>>

\* A new iteration; the flag is read after the lock, in a session of its own.
CheckLock(f) ==
  /\ feed[f].pc = "loop" /\ RequireSingletonLock(f) /\ At(f, "flag")
  /\ UNCHANGED <<leader, control, guard, ledger, past>>

FeedEnabled(f) == control.enabled

ReadFlag(f) ==
  /\ feed[f].pc = "flag" /\ At(f, IF FeedEnabled(f) THEN "go" ELSE "loop")
  /\ UNCHANGED <<leader, control, guard, ledger, past>>

RunTick(f) ==
  /\ feed[f].pc = "go" /\ Begins(f, "tick")
  /\ UNCHANGED <<leader, control, guard, ledger, past>>

\* The batch commits movement by movement; what fails is logged.
EndTick(f) ==
  /\ feed[f].pc = "tick" /\ At(f, "loop")
  /\ ledger' \in {ledger, [ledger EXCEPT !.live = TRUE]}
  /\ UNCHANGED <<leader, control, guard, past>>

\* The lock check fails; or a signal, a crash, or a failing start-up.  The lock
\* is released by its holder, or was freed with its session.
StopFeed(f) ==
  /\ feed[f].pc # "off" /\ At(f, "off")
  /\ leader' = IF leader = f THEN "none" ELSE leader
  /\ UNCHANGED <<control, guard, ledger, past>>

\* External: the lock's connection ends while the process goes on.
LoseSession ==
  /\ leader # "none" /\ leader' = "none"
  /\ UNCHANGED <<feed, control, guard, ledger, past>>

-----------------------------------------------------------------------------
(* The control row.  Ticks begun while paused are counted from the pause.    *)
Controlled(new) ==
  /\ control' = new
  /\ feed' = IF new.enabled /\ ~control.enabled
             THEN [f \in Feeds |-> [feed[f] EXCEPT !.late = 0]] ELSE feed

\* External: the owner pauses, approves a reset, or resumes.
Owner ==
  /\ \/ Controlled([enabled |-> FALSE, note |-> "owner"]) /\ UNCHANGED past
     \/ Controlled([enabled |-> TRUE, note |-> "owner"]) /\ UNCHANGED past
     \/ /\ past.approvals < MaxApprovals
        /\ Controlled([enabled |-> FALSE, note |-> "approved"])
        /\ past' = [past EXCEPT !.approvals = @ + 1]
  /\ UNCHANGED <<leader, guard, ledger>>

\* The columns that differ from the row as it was read are written.
SetFeedEnabled(g, enabled, note) ==
  LET read == guard[g].read
  IN Controlled([enabled |-> IF read.enabled = enabled THEN control.enabled ELSE enabled,
                 note |-> IF read.note = note THEN control.note ELSE note])

-----------------------------------------------------------------------------
(* A guard: the maintenance worker's, every quarter of an hour, or one that  *)
(* an operator runs.                                                         *)
\* What a guard read and measured is forgotten as soon as no step needs it.
Guarded(g, pc) == guard' = [guard EXCEPT ![g] = [NoGuard EXCEPT !.pc = pc]]

\* Telemetry is pruned before the control row is read.
MeasureSize(g) ==
  /\ guard[g].pc = "idle"
  /\ \E hard \in BOOLEAN : guard' = [guard EXCEPT ![g].pc = "measured", ![g].hard = hard]
  /\ UNCHANGED <<leader, feed, control, ledger, past>>

ReadControl(g) ==
  /\ guard[g].pc = "measured"
  /\ IF control.enabled THEN guard' = [guard EXCEPT ![g].read = control, ![g].pc = "pause"]
     ELSE Guarded(g, IF guard[g].hard THEN "consume" ELSE "idle")
  /\ UNCHANGED <<leader, feed, control, ledger, past>>

PauseFeed(g) ==
  /\ guard[g].pc = "pause" /\ SetFeedEnabled(g, FALSE, "guard")
  /\ Guarded(g, IF guard[g].hard THEN "consume" ELSE "idle")
  /\ UNCHANGED <<leader, ledger, past>>

\* mutant: the approval stays in the row
ConsumedLater == control
Consumed == [control EXCEPT !.note = "consumed"]

ConsumeResetApproval(g) ==
  /\ guard[g].pc = "consume"
  /\ IF control = [enabled |-> FALSE, note |-> "approved"]
     THEN control' = Consumed /\ Guarded(g, "checkpoint")
     ELSE Guarded(g, "idle") /\ UNCHANGED control
  /\ UNCHANGED <<leader, feed, ledger, past>>

\* The reporting checkpoint succeeds; the sources are emptied in one commit.
\* One that fails, is stale or unconfirmed blocks the reset: GuardEnds.
ResetSourceTables(g) ==
  /\ guard[g].pc = "checkpoint" /\ Guarded(g, "rebuild")
  /\ ledger' = [histories |-> 0, live |-> FALSE]
  /\ past' = [past EXCEPT !.resets = @ + 1,
                          !.overlap = @ \/ Rebuilding("none")]
  /\ UNCHANGED <<leader, feed, control>>

\* seed_inventory, and a backfill that does not look at what is there.
Reseed(g) ==
  /\ guard[g].pc = "rebuild" /\ Guarded(g, "reread")
  /\ ledger' = [ledger EXCEPT !.histories = Few(@ + 1)]
  /\ UNCHANGED <<leader, feed, control, past>>

Reread(g) ==
  /\ guard[g].pc = "reread"
  /\ guard' = [guard EXCEPT ![g].pc = "enable", ![g].read = control]
  /\ UNCHANGED <<leader, feed, control, ledger, past>>

EnableFeed(g) ==
  /\ guard[g].pc = "enable" /\ SetFeedEnabled(g, TRUE, "complete") /\ Guarded(g, "idle")
  /\ UNCHANGED <<leader, ledger, past>>

\* A blocked reset, an exception the worker logs, or the end of the process.
GuardEnds(g) ==
  /\ guard[g].pc # "idle" /\ Guarded(g, "idle")
  /\ UNCHANGED <<leader, feed, control, ledger, past>>

FeedNext ==
  \/ LoseSession \/ Owner
  \/ \E f \in Feeds : \/ StartFeed(f) \/ StartUp(f) \/ BackfillHistory(f) \/ CheckLock(f)
                      \/ ReadFlag(f) \/ RunTick(f) \/ EndTick(f) \/ StopFeed(f)
  \/ \E g \in Guards : \/ MeasureSize(g) \/ ReadControl(g) \/ PauseFeed(g)
                       \/ ConsumeResetApproval(g) \/ ResetSourceTables(g) \/ Reseed(g)
                       \/ Reread(g) \/ EnableFeed(g) \/ GuardEnds(g)

FeedSpec == FeedInit /\ [][FeedNext]_feedVars

-----------------------------------------------------------------------------
\* acquire_singleton_lock, require_singleton_lock: a feed begins at most one
\* piece of work (a backfill or a tick) after another session could take the
\* lock, however the loss, the checks and the other feed's start interleave.
StrayWorkIsBounded == \A f \in Feeds : feed[f].stray <= 1

\* feed_enabled: once the switch is off, a running feed begins at most the one
\* tick whose flag it had already read, whoever switched it off.
PauseIsHeeded == \A f \in Feeds : feed[f].late <= 1

\* consume_reset_approval: the ledger is never emptied more often than the
\* owner approved, although guards race for the approval and die after it.
OneResetPerApproval == past.resets <= past.approvals

\* _recent_movement_count: feeds that start, stop, lose the lock and start
\* again fill the history once; it is there twice only after a rebuild began
\* while another was in progress.
HistoryIsFilledOnce == ledger.histories > 1 => past.overlap

\* require_singleton_lock, feed_enabled: a feed that lost the lock, or was
\* paused, begins at most the one piece of work it had already checked for.
StoppedFeedStops == StrayWorkIsBounded /\ PauseIsHeeded

\* consume_reset_approval, _recent_movement_count: the ledger is emptied at
\* most as often as approved, and filled once, by feeds and guards that die.
RebuildsAreApproved == OneResetPerApproval /\ HistoryIsFilledOnce
=============================================================================
