--------------------------- MODULE ReportingQueue ---------------------------
(***************************************************************************)
(* The durable reporting queue: reporting.pipeline_runs, its workers and   *)
(* its dispatchers (data/pipelines/business_performance/{queue,runner,     *)
(* worker,dispatcher,direct_executor,locks}.py).                           *)
(*                                                                         *)
(* One action is one database transaction or one step of a thread between  *)
(* two transactions.  Time is relative: a lease, a back-off and a watchdog *)
(* are the ticks left until they are due, so the model needs no clock      *)
(* bound.  A claim token (uuid4) is the number of claims made so far: only *)
(* its freshness matters.  A run id is the rank of requested_at.           *)
(***************************************************************************)
EXTENDS Integers, FiniteSets

CONSTANTS
  Workers,      \* reporting-worker processes and CLI invocations
  Cli,          \* those started by runner.main: no watchdog, no dispatcher
  Paused,       \* workers deployed with REPORTING_COMPUTATION_ENABLED=false
  Clients,      \* administrators calling POST /reporting/pipeline-runs
  MaxRuns,      \* bound: rows of reporting.pipeline_runs
  MaxAttempts,  \* DEFAULT_MAX_ATTEMPTS
  Lease,        \* DEFAULT_LEASE_SECONDS, in ticks
  Backoff,      \* DEFAULT_BACKOFF_SECONDS, in ticks
  RunTimeout,   \* DEFAULT_RUN_TIMEOUT_SECONDS, in ticks
  MaxSlot,      \* bound: cadence slots that come due
  MaxWeek,      \* bound: weeks an administrator can name (0 names none)
  Nobody        \* the advisory lock is free

ASSUME QueueAssumption ==
  /\ Cli \subseteq Workers /\ Paused \subseteq Workers
  /\ Nobody \notin Workers
  /\ MaxRuns \in Nat /\ MaxSlot \in Nat /\ MaxWeek \in Nat
  /\ MaxAttempts \in Nat \ {0}
  /\ Lease \in Nat \ {0} /\ Backoff \in Nat \ {0} /\ RunTimeout \in Nat \ {0}

VARIABLES
  rows,      \* reporting.pipeline_runs
  evidence,  \* reporting.pipeline_run_attempts, keyed (run, attempt)
  issued,    \* claim tokens generated so far
  served,    \* token whose rollups were published last
  pub,       \* per run, the attempt that published last (0: none)
  pc, stage, claim, abort, renewing, outcome, timer,  \* one worker process
  lock,      \* holder of REPORTING_PIPELINE_LOCK_KEY
  disp,      \* slot a dispatcher thread captured before its sweep (0: idle)
  api,       \* one POST request per client
  slot,      \* latest cadence slot that came due
  horizon    \* weeks up to here precede last_reset_at

db      == <<rows, evidence, issued, served, pub>>
proc    == <<pc, stage, claim, abort, renewing, outcome, timer, lock>>
outside == <<disp, api, slot, horizon>>
vars    == <<db, proc, outside>>

RunIds   == 1..MaxRuns
Attempts == 1..MaxAttempts
Stages   == {"extract", "transform", "load"}
Terminal == {"succeeded", "failed"}
Statuses == {"absent", "requested", "running", "retryable"} \cup Terminal
Executing == {"begin", "body", "loaded", "verify"}
Pcs      == {"idle", "claimed", "locked", "outcome", "down"} \cup Executing
Outcomes == {"succeeded", "retryable", "lock_conflict", "failed", "lease_lost"}
Recorded == {"none", "succeeded", "retried", "exhausted", "failed", "lease_lost"}
Codes    == {"none", "LOCK_UNAVAILABLE", "STAGE_FAILED", "VALIDATE_FAILED",
             "STALE_ABANDONED"}

Row == [status: Statuses, attempt: 0..MaxAttempts, token: Nat, lease: Nat, wait: Nat,
        stage: Stages \cup {"none"}, stageToken: Nat,
        trigger: {"none", "scheduled", "manual", "cli"}, slot: 0..MaxSlot,
        week: 0..MaxWeek, forced: BOOLEAN]

Absent == [status |-> "absent", attempt |-> 0, token |-> 0, lease |-> 0,
           wait |-> 0, stage |-> "none", stageToken |-> 0, trigger |-> "none",
           slot |-> 0, week |-> 0, forced |-> FALSE]

NoClaim    == [run |-> 0, token |-> 0, attempt |-> 0]
NoEvidence == [outcome |-> "none", code |-> "none"]
NoCall     == [pc |-> "ready", week |-> 0, run |-> 0]

Init ==
  /\ rows = [r \in RunIds |-> Absent]
  /\ evidence = [r \in RunIds |-> [a \in Attempts |-> NoEvidence]]
  /\ issued = 0 /\ served = 0
  /\ pub = [r \in RunIds |-> 0]
  /\ pc = [w \in Workers |-> "idle"]
  /\ stage = [w \in Workers |-> "none"]
  /\ claim = [w \in Workers |-> NoClaim]
  /\ abort = [w \in Workers |-> FALSE]
  /\ renewing = [w \in Workers |-> FALSE]
  /\ outcome = [w \in Workers |-> "none"]
  /\ timer = [w \in Workers |-> 0]
  /\ lock = Nobody
  /\ disp = [w \in Workers |-> 0]
  /\ api = [c \in Clients |-> NoCall]
  /\ slot = 0 /\ horizon = 0

-----------------------------------------------------------------------------
(* Requests.                                                               *)

Frozen(week) == week # 0 /\ week <= horizon

\* The row a new INSERT creates; ids are handed out in requested_at order.
Fresh(r) == rows[r].status = "absent" /\ \A s \in RunIds : s < r => rows[s].status # "absent"

Insert(r, trigger, s, week, forced) ==
  rows' = [rows EXCEPT ![r] = [Absent EXCEPT !.status = "requested", !.trigger = trigger,
                                             !.slot = s, !.week = week, !.forced = forced]]

\* uq_pipeline_runs_pending_manual: the pending row a request coalesces with.
PendingManual(week) ==
  {r \in RunIds : /\ rows[r].status = "requested" /\ rows[r].trigger = "manual"
                  /\ ~rows[r].forced /\ rows[r].week = week}

\* Mutant: the arbiter index is forgotten, every request inserts.
NeverConflicts(week, forced) == FALSE

\* The INSERT meets the index; a forced request carries a nonce and never does.
Conflicts(week, forced) == ~forced /\ PendingManual(week) # {}

\* enqueue_manual refuses a week behind the reset boundary.
RejectManual(c, week) ==
  /\ api[c].pc = "ready" /\ Frozen(week)
  /\ api' = [api EXCEPT ![c] = [pc |-> "rejected", week |-> week, run |-> 0]]
  /\ UNCHANGED <<db, proc, disp, slot, horizon>>

\* enqueue_manual inserts.
InsertManual(c, week, forced) ==
  /\ api[c].pc = "ready" /\ ~Frozen(week)
  /\ ~Conflicts(week, forced)
  /\ \E r \in RunIds :
       /\ Fresh(r)
       /\ Insert(r, "manual", 0, week, forced)
       /\ api' = [api EXCEPT ![c] = [pc |-> "accepted", week |-> week, run |-> r]]
  /\ UNCHANGED <<evidence, issued, served, pub, proc, disp, slot, horizon>>

\* The INSERT hit the partial unique index: the SELECT is a later statement.
ConflictManual(c, week) ==
  /\ api[c].pc = "ready" /\ ~Frozen(week) /\ Conflicts(week, FALSE)
  /\ api' = [api EXCEPT ![c] = [pc |-> "select", week |-> week, run |-> 0]]
  /\ UNCHANGED <<db, proc, disp, slot, horizon>>

\* .one() returns the pending row, or raises when a claim took it meanwhile.
SelectPending(c) ==
  /\ api[c].pc = "select"
  /\ LET found == PendingManual(api[c].week) IN
       \/ \E r \in found : api' = [api EXCEPT ![c] = [@ EXCEPT !.pc = "accepted", !.run = r]]
       \/ found = {} /\ api' = [api EXCEPT ![c].pc = "error"]
  /\ UNCHANGED <<db, proc, disp, slot, horizon>>

\* enqueue_cli does not look at the reset boundary: the claim will.
EnqueueCli(r, week) ==
  /\ Cli # {} /\ Fresh(r)
  /\ Insert(r, "cli", 0, week, FALSE)
  /\ UNCHANGED <<evidence, issued, served, pub, proc, outside>>

\* A guarded ledger reset moves last_reset_at past one more week.
Reset ==
  /\ horizon < MaxWeek
  /\ horizon' = horizon + 1
  /\ UNCHANGED <<db, proc, disp, api, slot>>

-----------------------------------------------------------------------------
(* Ownership, evidence and the transitions out of "running".               *)

\* Mutant: ownership is checked by run id alone, the token is not compared.
OwnsByRunId(w) == claim[w].run \in RunIds /\ rows[claim[w].run].status = "running"

\* The guard of every worker-side statement: id, token and status "running".
Owns(w) == /\ claim[w].run \in RunIds
           /\ rows[claim[w].run].status = "running"
           /\ rows[claim[w].run].token = claim[w].token

\* _record_attempt: INSERT ... ON CONFLICT (run_id, attempt) DO NOTHING.
Record(r, a, oc, code) ==
  evidence' = [evidence EXCEPT ![r][a] =
                 IF @ = NoEvidence THEN [outcome |-> oc, code |-> code] ELSE @]

\* _backoff: base * 2^(attempt - 1).
BackoffAfter(attempt) == Backoff * 2^(attempt - 1)

Leave(r, status, wait) ==
  rows' = [rows EXCEPT ![r] = [@ EXCEPT !.status = status, !.wait = wait,
                                        !.token = 0, !.lease = 0]]

\* Mutant: off by one, one attempt too many.
BackToQueueLate(r, attempt) ==
  IF attempt > MaxAttempts
  THEN Leave(r, "failed", 0)
  ELSE Leave(r, "retryable", BackoffAfter(attempt))

\* release_retryable and recover_stale_runs share this exhaustion rule.
BackToQueue(r, attempt) ==
  IF attempt >= MaxAttempts
  THEN Leave(r, "failed", 0)
  ELSE Leave(r, "retryable", BackoffAfter(attempt))

-----------------------------------------------------------------------------
(* A worker: claim, execute under the advisory lock, finalize.             *)

Eligible == {r \in RunIds : \/ rows[r].status = "requested"
                            \/ rows[r].status = "retryable" /\ rows[r].wait = 0}

NextRun(r) == r \in Eligible /\ \A s \in Eligible : r <= s

\* What uq_pipeline_runs_single_active demands of a claim.
NoneRunning == \A r \in RunIds : rows[r].status # "running"

CanClaim(w) == pc[w] = "idle" /\ (w \in Cli \/ w \notin Paused)

\* Mutant: the token is a function of the run, a retry repeats it.
RunToken(r) == r

\* uuid4(): a token no claim had before.
NewToken(r) == issued + 1

\* claim_next: uq_pipeline_runs_single_active turns a second claim into a no-op.
Claim(w, r) ==
  /\ CanClaim(w) /\ NoneRunning /\ NextRun(r) /\ ~Frozen(rows[r].week)
  /\ issued' = issued + 1
  /\ rows' = [rows EXCEPT ![r] = [@ EXCEPT !.status = "running",
                                           !.attempt = rows[r].attempt + 1,
                                           !.token = NewToken(r), !.lease = Lease,
                                           !.wait = 0]]
  /\ claim' = [claim EXCEPT ![w] = [run |-> r, token |-> NewToken(r),
                                    attempt |-> rows[r].attempt + 1]]
  /\ pc' = [pc EXCEPT ![w] = "claimed"]
  /\ timer' = [timer EXCEPT ![w] = IF w \in Cli THEN 0 ELSE RunTimeout]
  /\ UNCHANGED <<evidence, served, pub, stage, abort, renewing, outcome, lock, outside>>

\* claim_next on a week a reset froze meanwhile: the attempt fails durably.
ClaimFrozen(w, r) ==
  /\ CanClaim(w) /\ NoneRunning /\ NextRun(r) /\ Frozen(rows[r].week)
  /\ issued' = issued + 1
  /\ rows' = [rows EXCEPT ![r] = [@ EXCEPT !.status = "failed",
                                           !.attempt = rows[r].attempt + 1, !.wait = 0]]
  /\ Record(r, rows[r].attempt + 1, "failed", "VALIDATE_FAILED")
  /\ UNCHANGED <<served, pub, proc, outside>>

\* Leaving execute_claim_with_renewal stops the renewer and frees the lock.
EndExecution(w, oc) ==
  /\ pc' = [pc EXCEPT ![w] = "outcome"]
  /\ outcome' = [outcome EXCEPT ![w] = oc]
  /\ renewing' = [renewing EXCEPT ![w] = FALSE]
  /\ lock' = IF lock = w THEN Nobody ELSE lock

AcquireLock(w) ==
  /\ pc[w] = "claimed"
  /\ IF lock = Nobody
     THEN /\ lock' = w
          /\ pc' = [pc EXCEPT ![w] = "locked"]
          /\ UNCHANGED <<outcome, renewing>>
     ELSE EndExecution(w, "lock_conflict")
  /\ UNCHANGED <<db, stage, claim, abort, timer, outside>>

\* heartbeat: CAS on (id, token, running); it does not look at the old lease.
Heartbeat(w) == rows' = [rows EXCEPT ![claim[w].run].lease = Lease]

FirstHeartbeat(w) ==
  /\ pc[w] = "locked"
  /\ IF Owns(w)
     THEN /\ Heartbeat(w)
          /\ pc' = [pc EXCEPT ![w] = "begin"]
          /\ stage' = [stage EXCEPT ![w] = "extract"]
          /\ renewing' = [renewing EXCEPT ![w] = TRUE]
          /\ UNCHANGED <<outcome, lock>>
     ELSE EndExecution(w, "lease_lost") /\ UNCHANGED <<rows, stage>>
  /\ UNCHANGED <<evidence, issued, served, pub, claim, abort, timer, outside>>

\* The renewal thread: a lost CAS asks the executor to abort, then it stops.
Renew(w) ==
  /\ renewing[w]
  /\ IF Owns(w)
     THEN Heartbeat(w) /\ UNCHANGED <<abort, renewing>>
     ELSE /\ abort' = [abort EXCEPT ![w] = TRUE]
          /\ renewing' = [renewing EXCEPT ![w] = FALSE]
          /\ UNCHANGED rows
  /\ UNCHANGED <<evidence, issued, served, pub, pc, stage, claim, outcome, timer, lock, outside>>

\* The renewal thread met a database error: same reaction, lease untouched.
RenewError(w) ==
  /\ renewing[w]
  /\ abort' = [abort EXCEPT ![w] = TRUE]
  /\ renewing' = [renewing EXCEPT ![w] = FALSE]
  /\ UNCHANGED <<db, pc, stage, claim, outcome, timer, lock, outside>>

\* _ensure_owned, then record_stage: the CAS decides.
BeginStage(w) ==
  /\ pc[w] = "begin"
  /\ IF ~abort[w] /\ Owns(w)
     THEN /\ rows' = [rows EXCEPT ![claim[w].run] =
                         [@ EXCEPT !.stage = stage[w], !.stageToken = claim[w].token]]
          /\ pc' = [pc EXCEPT ![w] = "body"]
          /\ UNCHANGED <<outcome, renewing, lock>>
     ELSE EndExecution(w, "lease_lost") /\ UNCHANGED rows
  /\ UNCHANGED <<evidence, issued, served, pub, stage, claim, abort, timer, outside>>

\* The load transaction verifies the claim FOR UPDATE and publishes, atomically.
\* A commit whose answer is lost is retried by _run_sql: pc may stay at "body".
Publish(w) ==
  /\ pc[w] = "body" /\ stage[w] = "load"
  /\ IF Owns(w)
     THEN /\ served' = claim[w].token
          /\ pub' = [pub EXCEPT ![claim[w].run] = claim[w].attempt]
          /\ \E next \in {"body", "loaded"} : pc' = [pc EXCEPT ![w] = next]
          /\ UNCHANGED <<outcome, renewing, lock>>
     ELSE EndExecution(w, "lease_lost") /\ UNCHANGED <<served, pub>>
  /\ UNCHANGED <<rows, evidence, issued, stage, claim, abort, timer, outside>>

\* _complete_stage re-checks ownership and moves to the next stage.
CompleteStage(w) ==
  /\ pc[w] = "loaded" \/ (pc[w] = "body" /\ stage[w] # "load")
  /\ IF ~abort[w] /\ Owns(w)
     THEN /\ pc' = [pc EXCEPT ![w] = IF @ = "loaded" THEN "verify" ELSE "begin"]
          /\ stage' = [stage EXCEPT ![w] = IF @ = "extract" THEN "transform" ELSE "load"]
          /\ UNCHANGED <<outcome, renewing, lock>>
     ELSE EndExecution(w, "lease_lost") /\ UNCHANGED stage
  /\ UNCHANGED <<db, claim, abort, timer, outside>>

\* The executor returned: one more heartbeat decides between success and loss.
ConfirmOwnership(w) ==
  /\ pc[w] = "verify"
  /\ IF ~abort[w] /\ Owns(w)
     THEN Heartbeat(w) /\ EndExecution(w, "succeeded")
     ELSE EndExecution(w, "lease_lost") /\ UNCHANGED rows
  /\ UNCHANGED <<evidence, issued, served, pub, stage, claim, abort, timer, outside>>

\* An exception inside the executor: retryable, or permanent by its own word.
ExecutorFails(w, oc) ==
  /\ pc[w] \in Executing
  /\ EndExecution(w, oc)
  /\ UNCHANGED <<db, stage, claim, abort, timer, outside>>

Idle(w) ==
  /\ pc' = [pc EXCEPT ![w] = "idle"]
  /\ claim' = [claim EXCEPT ![w] = NoClaim]
  /\ stage' = [stage EXCEPT ![w] = "none"]
  /\ abort' = [abort EXCEPT ![w] = FALSE]
  /\ outcome' = [outcome EXCEPT ![w] = "none"]
  /\ timer' = [timer EXCEPT ![w] = 0]

\* finalize_claim: one token-CAS transition and its evidence, or nothing.
Finalize(w) ==
  /\ pc[w] = "outcome"
  /\ LET r == claim[w].run
         a == claim[w].attempt
         exhausted == a >= MaxAttempts
         retried == IF exhausted THEN "exhausted" ELSE "retried"
     IN  IF outcome[w] # "lease_lost" /\ Owns(w)
         THEN \/ /\ outcome[w] = "succeeded"
                 /\ Leave(r, "succeeded", 0)
                 /\ Record(r, a, "succeeded", "none")
              \/ /\ outcome[w] = "failed"
                 /\ Leave(r, "failed", 0)
                 /\ Record(r, a, "failed", "STAGE_FAILED")
              \/ /\ outcome[w] \in {"retryable", "lock_conflict"}
                 /\ BackToQueue(r, a)
                 /\ Record(r, a, retried, IF outcome[w] = "retryable"
                                          THEN "STAGE_FAILED" ELSE "LOCK_UNAVAILABLE")
         ELSE UNCHANGED <<rows, evidence>>
  /\ Idle(w)
  /\ UNCHANGED <<issued, served, pub, renewing, lock, outside>>

\* A database error outside the executor's own handling ("poll" is logged):
\* the claim stays running in the table and only its lease can free it.
Abandon(w) ==
  /\ pc[w] \in {"claimed", "locked", "outcome"}
  /\ Idle(w)
  /\ lock' = IF lock = w THEN Nobody ELSE lock
  /\ UNCHANGED <<db, renewing, outside>>

Die(w) ==
  /\ pc' = [pc EXCEPT ![w] = "down"]
  /\ claim' = [claim EXCEPT ![w] = NoClaim]
  /\ stage' = [stage EXCEPT ![w] = "none"]
  /\ abort' = [abort EXCEPT ![w] = FALSE]
  /\ outcome' = [outcome EXCEPT ![w] = "none"]
  /\ timer' = [timer EXCEPT ![w] = 0]
  /\ renewing' = [renewing EXCEPT ![w] = FALSE]
  /\ lock' = IF lock = w THEN Nobody ELSE lock
  /\ disp' = [disp EXCEPT ![w] = 0]
  /\ UNCHANGED <<db, api, slot, horizon>>

Crash(w) == pc[w] # "down" /\ Die(w)

\* Mutant: the watchdog thread is never started.
NoWatchdog(w) == FALSE

\* _run_watchdog: os._exit(1) once the run has taken too long.
Watchdog(w) == /\ w \notin Cli /\ pc[w] \notin {"idle", "down"} /\ timer[w] = 0
               /\ Die(w)

Restart(w) ==
  /\ pc[w] = "down"
  /\ pc' = [pc EXCEPT ![w] = "idle"]
  /\ UNCHANGED <<db, stage, claim, abort, renewing, outcome, timer, lock, outside>>

\* PostgreSQL drops the dedicated session: the lock goes, the worker does not.
LoseLock ==
  /\ lock # Nobody
  /\ lock' = Nobody
  /\ UNCHANGED <<db, pc, stage, claim, abort, renewing, outcome, timer, outside>>

-----------------------------------------------------------------------------
(* The dispatcher thread and time.                                         *)

Less(n) == IF n = 0 THEN 0 ELSE n - 1

Stale(r) == rows[r].status = "running" /\ rows[r].lease = 0

\* Mutant: eligible[-2] instead of eligible[-1].
SlotBefore == Less(slot)

\* The latest cadence slot that is due today, 0 before the first one.
LatestSlot == slot

\* dispatch_tick reads the clock, then sweeps; the enqueue is a second transaction.
Sweep(w) ==
  /\ w \notin Cli /\ pc[w] # "down" /\ disp[w] = 0
  /\ disp' = [disp EXCEPT ![w] = LatestSlot]
  /\ \/ \E r \in RunIds : /\ Stale(r)
                          /\ BackToQueue(r, rows[r].attempt)
                          /\ Record(r, rows[r].attempt, "lease_lost", "STALE_ABANDONED")
     \/ (\A r \in RunIds : ~Stale(r)) /\ UNCHANGED <<rows, evidence>>
  /\ UNCHANGED <<issued, served, pub, proc, api, slot, horizon>>

\* enqueue_scheduled: ON CONFLICT DO NOTHING on the cadence slot.
EnqueueScheduled(w) ==
  /\ disp[w] # 0
  /\ \/ \E r \in RunIds : /\ \A s \in RunIds : rows[s].slot # disp[w]
                          /\ Fresh(r)
                          /\ Insert(r, "scheduled", disp[w], 0, FALSE)
     \/ (\E s \in RunIds : rows[s].slot = disp[w]) /\ UNCHANGED rows
  /\ disp' = [disp EXCEPT ![w] = 0]
  /\ UNCHANGED <<evidence, issued, served, pub, proc, api, slot, horizon>>

\* The enqueue transaction failed: the tick is lost, the next one starts over.
DispatchError(w) ==
  /\ disp[w] # 0
  /\ disp' = [disp EXCEPT ![w] = 0]
  /\ UNCHANGED <<db, proc, api, slot, horizon>>

NextSlot ==
  /\ slot < MaxSlot
  /\ slot' = slot + 1
  /\ UNCHANGED <<db, proc, disp, api, horizon>>

Tick ==
  /\ rows' = [r \in RunIds |-> [rows[r] EXCEPT !.lease = Less(@), !.wait = Less(@)]]
  /\ timer' = [w \in Workers |-> Less(timer[w])]
  /\ <<rows, timer>>' # <<rows, timer>>
  /\ UNCHANGED <<evidence, issued, served, pub, pc, stage, claim, abort, renewing,
                 outcome, lock, outside>>

-----------------------------------------------------------------------------

Worker(w) ==
  \/ \E r \in RunIds : Claim(w, r) \/ ClaimFrozen(w, r)
  \/ AcquireLock(w) \/ FirstHeartbeat(w)
  \/ BeginStage(w) \/ Publish(w) \/ CompleteStage(w) \/ ConfirmOwnership(w)
  \/ \E oc \in {"retryable", "failed"} : ExecutorFails(w, oc)
  \/ Finalize(w) \/ Abandon(w)
  \/ Renew(w) \/ RenewError(w)
  \/ Crash(w) \/ Watchdog(w) \/ Restart(w)
  \/ Sweep(w) \/ EnqueueScheduled(w) \/ DispatchError(w)

Request ==
  \/ \E c \in Clients, week \in 0..MaxWeek :
       \/ RejectManual(c, week)
       \/ ConflictManual(c, week)
       \/ \E forced \in BOOLEAN : InsertManual(c, week, forced)
  \/ \E c \in Clients : SelectPending(c)
  \/ \E r \in RunIds, week \in 0..MaxWeek : EnqueueCli(r, week)

Next ==
  \/ \E w \in Workers : Worker(w)
  \/ Request
  \/ Reset \/ NextSlot \/ LoseLock \/ Tick

Spec == Init /\ [][Next]_vars

\* What the code's scheduling guarantees: time passes, the container restarts a
\* dead worker, the watchdog fires, and a worker that polls and dispatches again
\* and again gets a poll, a sweep and an enqueue through.  Nothing is assumed of
\* the executor or of the renewal thread: they may hang.
Fairness ==
  /\ WF_vars(Tick)
  /\ \A w \in Workers : WF_vars(Restart(w)) /\ WF_vars(Watchdog(w))
  /\ SF_vars(\E w \in Workers, r \in RunIds : Claim(w, r) \/ ClaimFrozen(w, r))
  /\ \A w \in Workers : SF_vars(Sweep(w)) /\ SF_vars(EnqueueScheduled(w))

FairSpec == Spec /\ Fairness

-----------------------------------------------------------------------------
(* What the queue promises.                                                *)

\* Every variable keeps its type; in particular no row counts more attempts
\* than release_retryable and recover_stale_runs allow.
TypeOK ==
  /\ rows \in [RunIds -> Row]
  /\ evidence \in [RunIds -> [Attempts -> [outcome: Recorded, code: Codes]]]
  /\ issued \in Nat /\ served \in Nat
  /\ pub \in [RunIds -> Nat]
  /\ pc \in [Workers -> Pcs]
  /\ stage \in [Workers -> Stages \cup {"none"}]
  /\ claim \in [Workers -> [run: RunIds \cup {0}, token: Nat, attempt: Nat]]
  /\ abort \in [Workers -> BOOLEAN] /\ renewing \in [Workers -> BOOLEAN]
  /\ outcome \in [Workers -> Outcomes \cup {"none"}]
  /\ timer \in [Workers -> Nat]
  /\ lock \in Workers \cup {Nobody}
  /\ disp \in [Workers -> 0..MaxSlot]
  /\ api \in [Clients -> [pc: {"ready", "select", "accepted", "rejected", "error"},
                          week: 0..MaxWeek, run: RunIds \cup {0}]]
  /\ slot \in 0..MaxSlot /\ horizon \in 0..MaxWeek

Running(r) == rows[r].status = "running"

\* Whatever sweeps, crashes and lost advisory locks do, at most one run is
\* active and at most one process still passes the id/token/status guard of
\* heartbeat, record_stage, verify_claim_for_publication and the finalizers.
OneOwner ==
  /\ \A r, s \in RunIds : Running(r) /\ Running(s) => r = s
  /\ \A v, w \in Workers : Owns(v) /\ Owns(w) => v = w

\* finalize_success is only reached by the attempt whose own load transaction
\* committed the rollups: a run never succeeds on another attempt's output.
SuccessIsPublished ==
  \A r \in RunIds : rows[r].status = "succeeded" => pub[r] = rows[r].attempt

\* pipeline_run_attempts has exactly one row for every attempt that ended and
\* none for the one in flight, although worker finalizers and the stale sweep
\* race to write it; the last one agrees with the run's status.
AttemptLedger ==
  \A r \in RunIds :
    /\ \A a \in Attempts :
         /\ evidence[r][a] = NoEvidence <=>
              a > rows[r].attempt \/ (a = rows[r].attempt /\ Running(r))
         /\ a < rows[r].attempt => evidence[r][a].outcome \in {"retried", "lease_lost"}
    /\ rows[r].status = "succeeded" => evidence[r][rows[r].attempt].outcome = "succeeded"
    /\ rows[r].status = "failed" =>
         evidence[r][rows[r].attempt].outcome \in {"failed", "exhausted", "lease_lost"}

\* A run waits for another attempt only while it has one left, and it fails
\* before its budget is spent only on a permanent failure.
RetryBudget ==
  \A r \in RunIds :
    /\ rows[r].status \in {"requested", "retryable"} => rows[r].attempt < MaxAttempts
    /\ rows[r].status = "failed" => \/ rows[r].attempt = MaxAttempts
                                    \/ evidence[r][rows[r].attempt].outcome = "failed"

\* Concurrent identical requests share one pending row, and the id that
\* enqueue_manual hands back is a manual run of the requested week.
Coalesced ==
  /\ \A week \in 0..MaxWeek : Cardinality(PendingManual(week)) <= 1
  /\ \A c \in Clients : api[c].pc = "accepted" =>
       rows[api[c].run].trigger = "manual" /\ rows[api[c].run].week = api[c].week

\* A superseded claim never publishes over a newer one, even when it computed
\* for longer, kept the advisory lock, or retries a commit whose answer it lost.
PublishedInClaimOrder == [][served' >= served]_vars

\* succeeded and failed rows, their evidence and their output are final.
TerminalIsFinal ==
  [][\A r \in RunIds : rows[r].status \in Terminal =>
       rows'[r] = rows[r] /\ evidence'[r] = evidence[r] /\ pub'[r] = pub[r]]_vars

JobOf(status) ==
  CASE status = "absent"  -> "none"
    [] status = "running" -> "active"
    [] status \in {"requested", "retryable"} -> "pending"
    [] OTHER -> status

Jobs == INSTANCE ReportJobs WITH
  Runs <- RunIds, Budget <- MaxAttempts,
  job <- [r \in RunIds |-> JobOf(rows[r].status)],
  tries <- [r \in RunIds |-> rows[r].attempt],
  started <- issued, shown <- served

\* The queue implements ReportJobs: requested and retryable rows are pending
\* jobs, the token counter numbers the tries, the published rollups are shown.
ImplementsJobs == Jobs!Spec

\* Every request ends, in success or in failure, even if executors hang and
\* workers crash for ever: leases, the sweep, the watchdog and the attempt
\* budget together free the queue.
EveryRequestResolves ==
  \A r \in RunIds : rows[r].status = "requested" ~> rows[r].status \in Terminal

\* A cadence slot is queued sooner or later unless the next one overtakes it:
\* dispatch_tick recovers missed ticks.
EverySlotIsQueued ==
  \A s \in 1..MaxSlot : slot = s ~> slot > s \/ \E r \in RunIds : rows[r].slot = s

-----------------------------------------------------------------------------
(* What the documents say and the code does not do.                        *)

\* PIPELINE_DESIGN.md: "on conflict it selects the existing pending row and
\* returns 202 with that run id" - but a claim can take the row in between.
ConflictFindsItsRow == \A c \in Clients : api[c].pc # "error"

\* PIPELINE_DESIGN.md on an advisory lock conflict: "The request is never
\* lost" - but every conflict spends an attempt, so a run can fail unexecuted.
LockConflictLosesNothing ==
  \A r \in RunIds : rows[r].status = "failed" =>
    \E a \in Attempts : evidence[r][a].code \notin {"none", "LOCK_UNAVAILABLE"}

\* The stage a running row shows, which derive_queue_state measures against its
\* deadline, was begun by the attempt that is running.
StageIsThisAttempts ==
  \A r \in RunIds : Running(r) /\ rows[r].stage # "none" =>
    rows[r].stageToken = rows[r].token

=============================================================================
