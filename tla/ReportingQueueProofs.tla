------------------------ MODULE ReportingQueueProofs ------------------------
(***************************************************************************)
(* Proofs about ReportingQueue, for every number of workers, runs,         *)
(* attempts, slots and weeks.                                              *)
(*                                                                         *)
(* The argument is a fencing argument: a running row carries the newest    *)
(* token ever issued (Ownership), so whoever passes the guard Owns is the  *)
(* newest claimant; everything else follows from that.                     *)
(***************************************************************************)
EXTENDS ReportingQueue, FiniteSetTheorems, TLAPS

-----------------------------------------------------------------------------
(* The inductive invariant.                                                *)

Busy(w) == pc[w] \notin {"idle", "down"}

RowTokens ==
  \A r \in RunIds :
    /\ Running(r) => rows[r].token = issued /\ rows[r].token > 0 /\ rows[r].attempt > 0
    /\ \A s \in RunIds : Running(r) /\ Running(s) => r = s
    /\ rows[r].status = "retryable" => rows[r].attempt < MaxAttempts
    /\ rows[r].status \in {"absent", "requested"} => rows[r].attempt = 0

ClaimTokens ==
  \A w \in Workers :
    /\ claim[w].token <= issued
    /\ claim[w].run \in RunIds => claim[w].token > 0
    /\ Owns(w) => claim[w].attempt = rows[claim[w].run].attempt
    /\ Busy(w) => claim[w].run \in RunIds
    /\ renewing[w] => pc[w] \in Executing
    /\ \A v \in Workers : claim[v].token = claim[w].token /\ claim[w].token > 0 => v = w

Ownership == RowTokens /\ ClaimTokens

HasPublished(w) == \/ pc[w] \in {"loaded", "verify"}
                   \/ pc[w] = "outcome" /\ outcome[w] = "succeeded"

Publication ==
  /\ served <= issued
  /\ \A w \in Workers : HasPublished(w) /\ Owns(w) =>
       pub[claim[w].run] = claim[w].attempt /\ served = claim[w].token
  /\ SuccessIsPublished

-----------------------------------------------------------------------------
(* Lemmas about the helpers.                                               *)

\* A power of two is a natural number.
LEMMA PowerNat == ASSUME NEW n \in Nat PROVE 2^n \in Nat
  <1>1. IsFiniteSet(1..n) /\ Cardinality(1..n) = n
    BY FS_Interval
  <1>2. IsFiniteSet(SUBSET (1..n)) /\ Cardinality(SUBSET (1..n)) = 2^n
    BY <1>1, FS_SUBSET
  <1>. QED  BY <1>2, FS_CardinalityType

\* The back-off that _backoff computes for an attempt is a number of ticks.
LEMMA BackoffNat == ASSUME NEW a \in Nat, a > 0 PROVE BackoffAfter(a) \in Nat
  <1>1. a - 1 \in Nat
    OBVIOUS
  <1>2. 2^(a-1) \in Nat
    BY <1>1, PowerNat
  <1>. QED  BY <1>2, QueueAssumption DEF BackoffAfter

\* Counting down stops at zero.
LEMMA LessNat == ASSUME NEW n \in Nat PROVE Less(n) \in Nat
  BY DEF Less

\* What an edit that neither starts nor ends an attempt leaves alone.
Same(r) == /\ rows'[r].status = rows[r].status
           /\ rows'[r].attempt = rows[r].attempt
           /\ rows'[r].token = rows[r].token

Others(r) == \A s \in RunIds \ {r} : rows'[s] = rows[s]

\* An INSERT touches one absent row, which becomes a request without attempts.
LEMMA InsertEffect ==
  ASSUME rows \in [RunIds -> Row], NEW r \in RunIds,
         NEW trigger \in {"scheduled", "manual", "cli"}, NEW s \in 0..MaxSlot,
         NEW week \in 0..MaxWeek, NEW forced \in BOOLEAN,
         Insert(r, trigger, s, week, forced)
  PROVE  /\ rows' \in [RunIds -> Row]
         /\ Others(r)
         /\ rows'[r].status = "requested" /\ rows'[r].attempt = 0
         /\ rows'[r].trigger = trigger /\ rows'[r].slot = s /\ rows'[r].week = week
  <1>1. Absent \in Row
    BY QueueAssumption DEF Absent, Row, Statuses
  <1>2. ASSUME NEW x \in Row
        PROVE  [x EXCEPT !.status = "requested", !.trigger = trigger, !.slot = s,
                         !.week = week, !.forced = forced] \in Row
    BY QueueAssumption DEF Row, Statuses
  <1>3. rows' \in [RunIds -> Row] /\ Others(r)
    BY <1>1, <1>2 DEF Insert, Others
  <1>. QED  BY <1>3 DEF Insert, Absent

\* Leaving "running" keeps the attempt number and clears the token.
LEMMA LeaveEffect ==
  ASSUME rows \in [RunIds -> Row], NEW r \in RunIds, NEW status \in Statuses, NEW wait \in Nat,
         Leave(r, status, wait)
  PROVE  /\ rows' \in [RunIds -> Row]
         /\ Others(r)
         /\ rows'[r].status = status /\ rows'[r].attempt = rows[r].attempt
  <1>1. ASSUME NEW x \in Row
        PROVE  LET y == [x EXCEPT !.status = status, !.wait = wait, !.token = 0, !.lease = 0]
               IN  y \in Row /\ y.status = status /\ y.attempt = x.attempt
    BY DEF Row
  <1>. QED  BY <1>1 DEF Leave, Others

\* release_retryable and recover_stale_runs re-queue a run that has an attempt
\* left and fail one that has none.
LEMMA BackToQueueEffect ==
  ASSUME rows \in [RunIds -> Row], NEW r \in RunIds, NEW a \in Nat, a > 0, BackToQueue(r, a)
  PROVE  /\ rows' \in [RunIds -> Row]
         /\ Others(r)
         /\ rows'[r].attempt = rows[r].attempt
         /\ \/ rows'[r].status = "failed" /\ a >= MaxAttempts
            \/ rows'[r].status = "retryable" /\ a < MaxAttempts
  <1>1. BackoffAfter(a) \in Nat
    BY BackoffNat
  <1>2. {"failed", "retryable"} \subseteq Statuses
    BY DEF Statuses, Terminal
  <1>3. CASE a >= MaxAttempts
    <2>1. Leave(r, "failed", 0)
      BY <1>3 DEF BackToQueue
    <2>. QED  BY <1>2, <1>3, <2>1, LeaveEffect
  <1>4. CASE ~(a >= MaxAttempts)
    <2>1. Leave(r, "retryable", BackoffAfter(a))
      BY <1>4 DEF BackToQueue
    <2>2. a < MaxAttempts
      BY <1>4, QueueAssumption
    <2>. QED  BY <1>1, <1>2, <2>1, <2>2, LeaveEffect
  <1>. QED  BY <1>3, <1>4

\* A heartbeat only extends a lease.
LEMMA HeartbeatEffect ==
  ASSUME rows \in [RunIds -> Row], NEW w \in Workers, claim[w].run \in RunIds, Heartbeat(w)
  PROVE  rows' \in [RunIds -> Row] /\ \A s \in RunIds : Same(s)
  <1>1. ASSUME NEW x \in Row
        PROVE  LET y == [x EXCEPT !.lease = Lease]
               IN  /\ y \in Row
                   /\ y.status = x.status /\ y.attempt = x.attempt /\ y.token = x.token
    BY QueueAssumption DEF Row
  <1>. QED  BY <1>1 DEF Heartbeat, Same

\* record_stage marks the row and nothing else.
LEMMA StageEffect ==
  ASSUME rows \in [RunIds -> Row], NEW r \in RunIds, NEW st \in Stages \cup {"none"}, NEW t \in Nat,
         rows' = [rows EXCEPT ![r] = [@ EXCEPT !.stage = st, !.stageToken = t]]
  PROVE  rows' \in [RunIds -> Row] /\ \A s \in RunIds : Same(s)
  <1>1. ASSUME NEW x \in Row
        PROVE  LET y == [x EXCEPT !.stage = st, !.stageToken = t]
               IN  /\ y \in Row
                   /\ y.status = x.status /\ y.attempt = x.attempt /\ y.token = x.token
    BY DEF Row
  <1>. QED  BY <1>1 DEF Same

\* Time shortens leases, back-offs and watchdog timers.
LEMMA TickEffect ==
  ASSUME rows \in [RunIds -> Row], timer \in [Workers -> Nat], Tick
  PROVE  /\ rows' \in [RunIds -> Row] /\ timer' \in [Workers -> Nat]
         /\ \A s \in RunIds : Same(s)
  <1>1. ASSUME NEW x \in Row
        PROVE  LET y == [x EXCEPT !.lease = Less(@), !.wait = Less(@)]
               IN  /\ y \in Row
                   /\ y.status = x.status /\ y.attempt = x.attempt /\ y.token = x.token
    BY LessNat DEF Row
  <1>2. /\ rows' = [r \in RunIds |-> [rows[r] EXCEPT !.lease = Less(@), !.wait = Less(@)]]
        /\ timer' = [w \in Workers |-> Less(timer[w])]
    BY DEF Tick
  <1>. QED  BY <1>1, <1>2, LessNat DEF Same

\* A claim starts the next attempt of a row under a new token.
LEMMA ClaimEffect ==
  ASSUME rows \in [RunIds -> Row], issued \in Nat, NEW w \in Workers, NEW r \in RunIds,
         rows[r].attempt + 1 \in 1..MaxAttempts, Claim(w, r)
  PROVE  /\ rows' \in [RunIds -> Row]
         /\ Others(r)
         /\ rows'[r].status = "running" /\ rows'[r].token = issued + 1
         /\ rows'[r].attempt = rows[r].attempt + 1
  <1>. DEFINE a == rows[r].attempt + 1
              t == issued + 1
              y == [rows[r] EXCEPT !.status = "running", !.attempt = a, !.token = t,
                                   !.lease = Lease, !.wait = 0]
  <1>1. rows' = [rows EXCEPT ![r] = y]
    BY DEF Claim, NewToken
  <1>2. a \in 0..MaxAttempts /\ t \in Nat /\ rows[r] \in Row
    BY QueueAssumption
  <1>. HIDE DEF a, t
  <1>3. y \in Row /\ y.status = "running" /\ y.attempt = a /\ y.token = t
    BY <1>2, QueueAssumption DEF Row, Statuses
  <1>. HIDE DEF y
  <1>4. /\ rows' \in [RunIds -> Row] /\ Others(r)
        /\ rows'[r].status = "running" /\ rows'[r].token = t /\ rows'[r].attempt = a
    BY <1>1, <1>3 DEF Others
  <1>. QED  BY <1>4 DEF a, t

\* A claim of a frozen week starts an attempt and fails it in one transaction.
LEMMA ClaimFrozenEffect ==
  ASSUME rows \in [RunIds -> Row], NEW w \in Workers, NEW r \in RunIds,
         rows[r].attempt + 1 \in 1..MaxAttempts, ClaimFrozen(w, r)
  PROVE  /\ rows' \in [RunIds -> Row]
         /\ Others(r)
         /\ rows'[r].status = "failed" /\ rows'[r].attempt = rows[r].attempt + 1
  <1>1. ASSUME NEW x \in Row, NEW a \in 0..MaxAttempts
        PROVE  LET y == [x EXCEPT !.status = "failed", !.attempt = a, !.wait = 0]
               IN  y \in Row /\ y.status = "failed" /\ y.attempt = a
    BY QueueAssumption DEF Row, Statuses, Terminal
  <1>2. rows[r].attempt + 1 \in 0..MaxAttempts
    BY QueueAssumption
  <1>. QED  BY <1>1, <1>2 DEF ClaimFrozen, Others

\* _record_attempt writes one evidence row, once.
LEMMA RecordEffect ==
  ASSUME evidence \in [RunIds -> [Attempts -> [outcome: Recorded, code: Codes]]],
         NEW r \in RunIds, NEW a \in Attempts, NEW oc \in Recorded, NEW code \in Codes,
         Record(r, a, oc, code)
  PROVE  /\ evidence' \in [RunIds -> [Attempts -> [outcome: Recorded, code: Codes]]]
         /\ \A s \in RunIds \ {r} : evidence'[s] = evidence[s]
         /\ \A b \in Attempts \ {a} : evidence'[r][b] = evidence[r][b]
         /\ evidence[r][a] = NoEvidence => evidence'[r][a] = [outcome |-> oc, code |-> code]
         /\ evidence[r][a] # NoEvidence => evidence'[r][a] = evidence[r][a]
  BY DEF Record

-----------------------------------------------------------------------------
(* Types.                                                                  *)

\* Only a run with an attempt left can be claimed.
LEMMA AttemptLeft ==
  ASSUME rows \in [RunIds -> Row], RowTokens, NEW r \in RunIds, NextRun(r)
  PROVE  rows[r].attempt + 1 \in 1..MaxAttempts
  <1>1. rows[r].status \in {"requested", "retryable"}
    BY DEF NextRun, Eligible
  <1>2. rows[r].attempt \in 0..MaxAttempts
    BY DEF Row
  <1>3. rows[r].attempt < MaxAttempts
    BY <1>1, <1>2, QueueAssumption DEF RowTokens
  <1>. QED  BY <1>2, <1>3, QueueAssumption

\* The four variables that leaving the execution sets.
LEMMA EndExecutionType ==
  ASSUME TypeOK, NEW w \in Workers, NEW oc \in Outcomes, EndExecution(w, oc)
  PROVE  /\ pc' \in [Workers -> Pcs] /\ outcome' \in [Workers -> Outcomes \cup {"none"}]
         /\ renewing' \in [Workers -> BOOLEAN] /\ lock' \in Workers \cup {Nobody}
  BY DEF TypeOK, EndExecution, Pcs

\* The variables that giving a claim up resets.
LEMMA IdleType ==
  ASSUME TypeOK, NEW w \in Workers, Idle(w)
  PROVE  /\ pc' \in [Workers -> Pcs]
         /\ claim' \in [Workers -> [run: RunIds \cup {0}, token: Nat, attempt: Nat]]
         /\ stage' \in [Workers -> Stages \cup {"none"}]
         /\ abort' \in [Workers -> BOOLEAN]
         /\ outcome' \in [Workers -> Outcomes \cup {"none"}]
         /\ timer' \in [Workers -> Nat]
  BY DEF TypeOK, Idle, Pcs, NoClaim

\* The rows and the evidence a finalizer or the stale sweep writes are typed:
\* both end an attempt that was counted when it was claimed.
LEMMA FinalizeType ==
  ASSUME TypeOK, Ownership, NEW w \in Workers, Finalize(w)
  PROVE  /\ rows' \in [RunIds -> Row]
         /\ evidence' \in [RunIds -> [Attempts -> [outcome: Recorded, code: Codes]]]
  <1>. DEFINE r == claim[w].run
              a == claim[w].attempt
  <1>1. CASE outcome[w] # "lease_lost" /\ Owns(w)
    <2>1. r \in RunIds /\ a = rows[r].attempt /\ a > 0
      BY <1>1 DEF Owns, Ownership, ClaimTokens, RowTokens, Running
    <2>2. rows[r].attempt \in 0..MaxAttempts
      BY <2>1 DEF TypeOK, Row
    <2>3. a \in Attempts /\ a \in Nat
      BY <2>1, <2>2, QueueAssumption DEF Attempts
    <2>4. {"succeeded", "failed"} \subseteq Statuses
      BY DEF Statuses, Terminal
    <2>5. \/ Leave(r, "succeeded", 0) \/ Leave(r, "failed", 0) \/ BackToQueue(r, a)
      BY <1>1 DEF Finalize
    <2>6. rows' \in [RunIds -> Row]
      BY <2>1, <2>3, <2>4, <2>5, LeaveEffect, BackToQueueEffect DEF TypeOK
    <2>7. \E oc \in Recorded, code \in Codes : Record(r, a, oc, code)
      BY <1>1 DEF Finalize, Recorded, Codes
    <2>. QED  BY <2>1, <2>3, <2>6, <2>7, RecordEffect DEF TypeOK
  <1>2. CASE ~(outcome[w] # "lease_lost" /\ Owns(w))
    BY <1>2 DEF Finalize, TypeOK
  <1>. QED  BY <1>1, <1>2

\* See FinalizeType.
LEMMA SweepType ==
  ASSUME TypeOK, Ownership, NEW w \in Workers, Sweep(w)
  PROVE  /\ rows' \in [RunIds -> Row]
         /\ evidence' \in [RunIds -> [Attempts -> [outcome: Recorded, code: Codes]]]
  <1>1. ASSUME NEW r \in RunIds, Stale(r), BackToQueue(r, rows[r].attempt),
               Record(r, rows[r].attempt, "lease_lost", "STALE_ABANDONED")
        PROVE  /\ rows' \in [RunIds -> Row]
               /\ evidence' \in [RunIds -> [Attempts -> [outcome: Recorded, code: Codes]]]
    <2>1. rows[r].attempt > 0
      BY <1>1 DEF Stale, Ownership, RowTokens, Running
    <2>2. rows[r].attempt \in 0..MaxAttempts
      BY DEF TypeOK, Row
    <2>3. rows[r].attempt \in Attempts /\ rows[r].attempt \in Nat
      BY <2>1, <2>2, QueueAssumption DEF Attempts
    <2>4. "lease_lost" \in Recorded /\ "STALE_ABANDONED" \in Codes
      BY DEF Recorded, Codes
    <2>. QED  BY <1>1, <2>1, <2>3, <2>4, BackToQueueEffect, RecordEffect DEF TypeOK
  <1>2. CASE UNCHANGED <<rows, evidence>>
    BY <1>2 DEF TypeOK
  <1>. QED  BY <1>1, <1>2 DEF Sweep

\* Every step keeps every variable in its type; a claim stays within the
\* attempt budget because only runs with an attempt left are eligible.
LEMMA TypeStep ==
  ASSUME TypeOK, Ownership, [Next]_vars
  PROVE  TypeOK'
  <1>. USE DEF TypeOK, vars, db, proc, outside
  <1>1. ASSUME NEW c \in Clients, NEW week \in 0..MaxWeek, RejectManual(c, week)
        PROVE  TypeOK'
    BY <1>1 DEF RejectManual
  <1>2. ASSUME NEW c \in Clients, NEW week \in 0..MaxWeek, ConflictManual(c, week)
        PROVE  TypeOK'
    BY <1>2 DEF ConflictManual
  <1>3. ASSUME NEW c \in Clients, NEW week \in 0..MaxWeek, NEW forced \in BOOLEAN,
               InsertManual(c, week, forced)
        PROVE  TypeOK'
    <2>1. PICK r \in RunIds :
            /\ Insert(r, "manual", 0, week, forced)
            /\ api' = [api EXCEPT ![c] = [pc |-> "accepted", week |-> week, run |-> r]]
      BY <1>3 DEF InsertManual
    <2>2. rows' \in [RunIds -> Row]
      BY <2>1, InsertEffect, QueueAssumption
    <2>. QED  BY <1>3, <2>1, <2>2 DEF InsertManual
  <1>4. ASSUME NEW c \in Clients, SelectPending(c)
        PROVE  TypeOK'
    <2>1. api' \in [Clients -> [pc: {"ready", "select", "accepted", "rejected", "error"},
                                week: 0..MaxWeek, run: RunIds \cup {0}]]
      <3>1. ASSUME NEW r \in RunIds,
                   api' = [api EXCEPT ![c] = [@ EXCEPT !.pc = "accepted", !.run = r]]
            PROVE  <2>1!:
        BY <3>1
      <3>2. ASSUME api' = [api EXCEPT ![c].pc = "error"]
            PROVE  <2>1!:
        BY <3>2
      <3>. QED  BY <1>4, <3>1, <3>2 DEF SelectPending, PendingManual
    <2>. QED  BY <1>4, <2>1 DEF SelectPending
  <1>5. ASSUME NEW r \in RunIds, NEW week \in 0..MaxWeek, EnqueueCli(r, week)
        PROVE  TypeOK'
    <2>1. Insert(r, "cli", 0, week, FALSE)
      BY <1>5 DEF EnqueueCli
    <2>2. rows' \in [RunIds -> Row]
      <3>1. 0 \in 0..MaxSlot /\ FALSE \in BOOLEAN /\ "cli" \in {"scheduled", "manual", "cli"}
        BY QueueAssumption
      <3>. QED  BY <2>1, <3>1, InsertEffect
    <2>. QED  BY <1>5, <2>2 DEF EnqueueCli
  <1>6. CASE Reset
    BY <1>6, QueueAssumption DEF Reset
  <1>7. CASE NextSlot
    BY <1>7, QueueAssumption DEF NextSlot
  <1>8. CASE LoseLock
    BY <1>8 DEF LoseLock
  <1>9. CASE Tick
    <2>1. rows' \in [RunIds -> Row] /\ timer' \in [Workers -> Nat]
      BY <1>9, TickEffect
    <2>. QED  BY <1>9, <2>1 DEF Tick
  <1>10. ASSUME NEW w \in Workers, NEW r \in RunIds, Claim(w, r)
         PROVE  TypeOK'
    <2>1. rows[r].attempt + 1 \in 1..MaxAttempts
      BY <1>10, AttemptLeft DEF Claim, Ownership
    <2>2. rows' \in [RunIds -> Row]
      BY <1>10, <2>1, ClaimEffect
    <2>3. pc' \in [Workers -> Pcs]
      BY <1>10 DEF Claim, Pcs
    <2>4. timer' \in [Workers -> Nat]
      BY <1>10, QueueAssumption DEF Claim
    <2>5. claim' = [claim EXCEPT ![w] = [run |-> r, token |-> issued + 1,
                                         attempt |-> rows[r].attempt + 1]]
      BY <1>10 DEF Claim, NewToken
    <2>6. rows[r].attempt + 1 \in Nat
      BY <2>1
    <2>7. claim' \in [Workers -> [run: RunIds \cup {0}, token: Nat, attempt: Nat]]
      BY <2>5, <2>6
    <2>. QED  BY <1>10, <2>2, <2>3, <2>4, <2>7 DEF Claim
  <1>11. ASSUME NEW w \in Workers, NEW r \in RunIds, ClaimFrozen(w, r)
         PROVE  TypeOK'
    <2>1. rows[r].attempt + 1 \in 1..MaxAttempts
      BY <1>11, AttemptLeft DEF ClaimFrozen, Ownership
    <2>2. rows' \in [RunIds -> Row]
      BY <1>11, <2>1, ClaimFrozenEffect
    <2>3. evidence' \in [RunIds -> [Attempts -> [outcome: Recorded, code: Codes]]]
      BY <1>11, <2>1, RecordEffect DEF ClaimFrozen, Attempts, Recorded, Codes
    <2>. QED  BY <1>11, <2>2, <2>3 DEF ClaimFrozen
  <1>12. ASSUME NEW w \in Workers, AcquireLock(w)
         PROVE  TypeOK'
    <2>1. "lock_conflict" \in Outcomes
      BY DEF Outcomes
    <2>2. CASE lock = Nobody
      BY <1>12, <2>2 DEF AcquireLock, Pcs
    <2>3. CASE lock # Nobody
      BY <1>12, <2>1, <2>3, EndExecutionType DEF AcquireLock
    <2>. QED  BY <2>2, <2>3
  <1>13. ASSUME NEW w \in Workers, FirstHeartbeat(w)
         PROVE  TypeOK'
    <2>1. "lease_lost" \in Outcomes
      BY DEF Outcomes
    <2>2. CASE Owns(w)
      <3>1. rows' \in [RunIds -> Row]
        BY <1>13, <2>2, HeartbeatEffect DEF FirstHeartbeat, Owns
      <3>2. pc' \in [Workers -> Pcs] /\ stage' \in [Workers -> Stages \cup {"none"}]
        BY <1>13, <2>2 DEF FirstHeartbeat, Pcs, Executing, Stages
      <3>. QED  BY <1>13, <2>2, <3>1, <3>2 DEF FirstHeartbeat
    <2>3. CASE ~Owns(w)
      BY <1>13, <2>1, <2>3, EndExecutionType DEF FirstHeartbeat
    <2>. QED  BY <2>2, <2>3
  <1>14. ASSUME NEW w \in Workers, Renew(w)
         PROVE  TypeOK'
    <2>1. rows' \in [RunIds -> Row]
      BY <1>14, HeartbeatEffect DEF Renew, Owns
    <2>2. abort' \in [Workers -> BOOLEAN] /\ renewing' \in [Workers -> BOOLEAN]
      BY <1>14 DEF Renew
    <2>. QED  BY <1>14, <2>1, <2>2 DEF Renew
  <1>15. ASSUME NEW w \in Workers, RenewError(w)
         PROVE  TypeOK'
    BY <1>15 DEF RenewError
  <1>16. ASSUME NEW w \in Workers, BeginStage(w)
         PROVE  TypeOK'
    <2>1. "lease_lost" \in Outcomes
      BY DEF Outcomes
    <2>2. CASE ~abort[w] /\ Owns(w)
      <3>. DEFINE r == claim[w].run
      <3>1. /\ rows' = [rows EXCEPT ![r] = [@ EXCEPT !.stage = stage[w],
                                                     !.stageToken = claim[w].token]]
            /\ pc' = [pc EXCEPT ![w] = "body"]
            /\ UNCHANGED <<outcome, renewing, lock, evidence, issued, served, pub, stage,
                           claim, abort, timer, outside>>
        BY <1>16, <2>2 DEF BeginStage
      <3>2. r \in RunIds /\ stage[w] \in Stages \cup {"none"} /\ claim[w].token \in Nat
        BY <2>2 DEF Owns
      <3>3. rows' \in [RunIds -> Row]
        BY <3>1, <3>2, StageEffect
      <3>4. pc' \in [Workers -> Pcs]
        BY <3>1 DEF Pcs, Executing
      <3>. QED  BY <3>1, <3>3, <3>4
    <2>3. CASE ~(~abort[w] /\ Owns(w))
      BY <1>16, <2>1, <2>3, EndExecutionType DEF BeginStage
    <2>. QED  BY <2>2, <2>3
  <1>17. ASSUME NEW w \in Workers, Publish(w)
         PROVE  TypeOK'
    <2>1. "lease_lost" \in Outcomes
      BY DEF Outcomes
    <2>2. CASE Owns(w)
      <3>1. pc' \in [Workers -> Pcs]
        BY <1>17, <2>2 DEF Publish, Pcs, Executing
      <3>2. served' \in Nat /\ pub' \in [RunIds -> Nat]
        BY <1>17, <2>2 DEF Publish
      <3>. QED  BY <1>17, <2>2, <3>1, <3>2 DEF Publish
    <2>3. CASE ~Owns(w)
      BY <1>17, <2>1, <2>3, EndExecutionType DEF Publish
    <2>. QED  BY <2>2, <2>3
  <1>18. ASSUME NEW w \in Workers, CompleteStage(w)
         PROVE  TypeOK'
    <2>1. "lease_lost" \in Outcomes
      BY DEF Outcomes
    <2>2. CASE ~abort[w] /\ Owns(w)
      <3>1. pc' \in [Workers -> Pcs]
        BY <1>18, <2>2 DEF CompleteStage, Pcs, Executing
      <3>2. stage' \in [Workers -> Stages \cup {"none"}]
        BY <1>18, <2>2 DEF CompleteStage, Stages
      <3>. QED  BY <1>18, <2>2, <3>1, <3>2 DEF CompleteStage
    <2>3. CASE ~(~abort[w] /\ Owns(w))
      BY <1>18, <2>1, <2>3, EndExecutionType DEF CompleteStage
    <2>. QED  BY <2>2, <2>3
  <1>19. ASSUME NEW w \in Workers, ConfirmOwnership(w)
         PROVE  TypeOK'
    <2>1. {"lease_lost", "succeeded"} \subseteq Outcomes
      BY DEF Outcomes
    <2>2. rows' \in [RunIds -> Row]
      BY <1>19, HeartbeatEffect DEF ConfirmOwnership, Owns
    <2>3. \E oc \in Outcomes : EndExecution(w, oc)
      BY <1>19, <2>1 DEF ConfirmOwnership
    <2>. QED  BY <1>19, <2>2, <2>3, EndExecutionType DEF ConfirmOwnership
  <1>20. ASSUME NEW w \in Workers, NEW oc \in {"retryable", "failed"}, ExecutorFails(w, oc)
         PROVE  TypeOK'
    <2>1. oc \in Outcomes
      BY DEF Outcomes
    <2>. QED  BY <1>20, <2>1, EndExecutionType DEF ExecutorFails
  <1>21. ASSUME NEW w \in Workers, Finalize(w)
         PROVE  TypeOK'
    <2>1. rows' \in [RunIds -> Row]
          /\ evidence' \in [RunIds -> [Attempts -> [outcome: Recorded, code: Codes]]]
      BY <1>21, FinalizeType
    <2>. QED  BY <1>21, <2>1, IdleType DEF Finalize
  <1>22. ASSUME NEW w \in Workers, Abandon(w)
         PROVE  TypeOK'
    <2>1. lock' \in Workers \cup {Nobody}
      BY <1>22 DEF Abandon
    <2>. QED  BY <1>22, <2>1, IdleType DEF Abandon
  <1>23. ASSUME NEW w \in Workers, Die(w)
         PROVE  TypeOK'
    <2>1. /\ pc' \in [Workers -> Pcs]
          /\ claim' \in [Workers -> [run: RunIds \cup {0}, token: Nat, attempt: Nat]]
          /\ stage' \in [Workers -> Stages \cup {"none"}]
          /\ abort' \in [Workers -> BOOLEAN]
          /\ outcome' \in [Workers -> Outcomes \cup {"none"}]
          /\ timer' \in [Workers -> Nat]
      BY <1>23 DEF Die, NoClaim, Pcs
    <2>2. /\ renewing' \in [Workers -> BOOLEAN]
          /\ lock' \in Workers \cup {Nobody}
          /\ disp' \in [Workers -> 0..MaxSlot]
      BY <1>23, QueueAssumption DEF Die
    <2>. QED  BY <1>23, <2>1, <2>2 DEF Die
  <1>24. ASSUME NEW w \in Workers, Restart(w)
         PROVE  TypeOK'
    BY <1>24 DEF Restart, Pcs
  <1>25. ASSUME NEW w \in Workers, Sweep(w)
         PROVE  TypeOK'
    <2>1. rows' \in [RunIds -> Row]
          /\ evidence' \in [RunIds -> [Attempts -> [outcome: Recorded, code: Codes]]]
      BY <1>25, SweepType
    <2>. QED  BY <1>25, <2>1 DEF Sweep, LatestSlot
  <1>26. ASSUME NEW w \in Workers, EnqueueScheduled(w)
         PROVE  TypeOK'
    <2>1. UNCHANGED rows \/ \E r \in RunIds : Insert(r, "scheduled", disp[w], 0, FALSE)
      BY <1>26 DEF EnqueueScheduled
    <2>2. rows' \in [RunIds -> Row]
      <3>1. /\ 0 \in 0..MaxWeek /\ FALSE \in BOOLEAN /\ disp[w] \in 0..MaxSlot
            /\ "scheduled" \in {"scheduled", "manual", "cli"}
        BY QueueAssumption
      <3>. QED  BY <2>1, <3>1, InsertEffect
    <2>3. disp' \in [Workers -> 0..MaxSlot]
      BY <1>26, QueueAssumption DEF EnqueueScheduled
    <2>. QED  BY <1>26, <2>2, <2>3 DEF EnqueueScheduled
  <1>27. ASSUME NEW w \in Workers, DispatchError(w)
         PROVE  TypeOK'
    BY <1>27, QueueAssumption DEF DispatchError
  <1>28. CASE UNCHANGED vars
    BY <1>28
  <1>. HIDE DEF TypeOK, vars, db, proc, outside
  <1>. QED
    BY <1>1, <1>2, <1>3, <1>4, <1>5, <1>6, <1>7, <1>8, <1>9, <1>10, <1>11, <1>12, <1>13,
       <1>14, <1>15, <1>16, <1>17, <1>18, <1>19, <1>20, <1>21, <1>22, <1>23, <1>24, <1>25,
       <1>26, <1>27, <1>28 DEF Next, Request, Worker, Crash, Watchdog

-----------------------------------------------------------------------------
(* The five things a step can do to the table.                             *)

Untouched == (\A s \in RunIds : Same(s)) /\ UNCHANGED <<issued, evidence>>

Submitted(r) ==
  /\ rows[r].status = "absent" /\ Others(r)
  /\ rows'[r].status = "requested" /\ rows'[r].attempt = 0
  /\ UNCHANGED <<issued, evidence, claim, pc, renewing, served, pub, outcome>>

Startable(r) == /\ NoneRunning /\ rows[r].status \in {"requested", "retryable"}
                /\ rows[r].attempt + 1 \in Attempts
                /\ Others(r) /\ rows'[r].attempt = rows[r].attempt + 1
                /\ issued' = issued + 1

Started(r) == /\ Startable(r) /\ rows'[r].status = "running" /\ rows'[r].token = issued + 1
              /\ UNCHANGED <<evidence, served, pub>>

Refused(r) == /\ Startable(r) /\ rows'[r].status = "failed"
              /\ Record(r, rows[r].attempt + 1, "failed", "VALIDATE_FAILED")
              /\ UNCHANGED <<claim, pc, renewing, served, pub, outcome>>

\* The pairs of a final state of an attempt and the evidence it leaves.
EndsAs(r, oc) ==
  \/ /\ rows'[r].status = "succeeded" /\ oc = "succeeded"
     /\ \E w \in Workers : Owns(w) /\ claim[w].run = r /\ HasPublished(w)
  \/ rows'[r].status = "failed" /\ oc = "failed"
  \/ /\ rows'[r].status = "failed" /\ oc \in {"exhausted", "lease_lost"}
     /\ rows[r].attempt >= MaxAttempts
  \/ /\ rows'[r].status = "retryable" /\ oc \in {"retried", "lease_lost"}
     /\ rows[r].attempt < MaxAttempts

Ended(r) ==
  /\ Running(r) /\ Others(r) /\ rows'[r].attempt = rows[r].attempt
  /\ \E oc \in Recorded, code \in Codes : EndsAs(r, oc) /\ Record(r, rows[r].attempt, oc, code)
  /\ UNCHANGED <<issued, served, pub>>

\* A worker that finalizes ends the attempt it owns, or does nothing.
LEMMA FinalizeShape ==
  ASSUME TypeOK, Ownership, NEW w \in Workers, Finalize(w)
  PROVE  Untouched \/ \E r \in RunIds : Ended(r)
  <1>. DEFINE r == claim[w].run
              a == claim[w].attempt
  <1>1. CASE outcome[w] # "lease_lost" /\ Owns(w)
    <2>1. r \in RunIds /\ a = rows[r].attempt /\ a > 0 /\ Running(r)
      BY <1>1 DEF Owns, Ownership, ClaimTokens, RowTokens, Running
    <2>2. a \in Nat /\ rows \in [RunIds -> Row]
      BY DEF TypeOK
    <2>3. {"succeeded", "failed"} \subseteq Statuses
      BY DEF Statuses, Terminal
    <2>4. pc[w] = "outcome" /\ UNCHANGED <<issued, served, pub>>
      BY DEF Finalize
    <2>5. ASSUME outcome[w] = "succeeded", Leave(r, "succeeded", 0),
                 Record(r, a, "succeeded", "none")
          PROVE  Ended(r)
      <3>1. Others(r) /\ rows'[r].status = "succeeded" /\ rows'[r].attempt = rows[r].attempt
        BY <2>1, <2>2, <2>3, <2>5, LeaveEffect
      <3>2. EndsAs(r, "succeeded")
        BY <1>1, <2>4, <2>5, <3>1 DEF EndsAs, HasPublished
      <3>. QED  BY <2>1, <2>4, <2>5, <3>1, <3>2 DEF Ended, Recorded, Codes
    <2>6. ASSUME Leave(r, "failed", 0), Record(r, a, "failed", "STAGE_FAILED")
          PROVE  Ended(r)
      <3>1. Others(r) /\ rows'[r].status = "failed" /\ rows'[r].attempt = rows[r].attempt
        BY <2>1, <2>2, <2>3, <2>6, LeaveEffect
      <3>2. EndsAs(r, "failed")
        BY <3>1 DEF EndsAs
      <3>. QED  BY <2>1, <2>4, <2>6, <3>1, <3>2 DEF Ended, Recorded, Codes
    <2>7. ASSUME NEW code \in Codes, BackToQueue(r, a),
                 Record(r, a, IF a >= MaxAttempts THEN "exhausted" ELSE "retried", code)
          PROVE  Ended(r)
      <3>1. /\ Others(r) /\ rows'[r].attempt = rows[r].attempt
            /\ \/ rows'[r].status = "failed" /\ a >= MaxAttempts
               \/ rows'[r].status = "retryable" /\ a < MaxAttempts
        BY <2>1, <2>2, <2>7, BackToQueueEffect
      <3>2. PICK oc \in {"exhausted", "retried"} :
              /\ Record(r, a, oc, code)
              /\ oc = IF a >= MaxAttempts THEN "exhausted" ELSE "retried"
        BY <2>7
      <3>3. EndsAs(r, oc)
        BY <2>1, <2>2, <3>1, <3>2, QueueAssumption DEF EndsAs
      <3>. QED  BY <2>1, <2>4, <3>1, <3>2, <3>3 DEF Ended, Recorded
    <2>8. \/ /\ outcome[w] = "succeeded" /\ Leave(r, "succeeded", 0)
             /\ Record(r, a, "succeeded", "none")
          \/ Leave(r, "failed", 0) /\ Record(r, a, "failed", "STAGE_FAILED")
          \/ \E code \in Codes :
               /\ BackToQueue(r, a)
               /\ Record(r, a, IF a >= MaxAttempts THEN "exhausted" ELSE "retried", code)
      BY <1>1 DEF Finalize, Codes
    <2>. QED  BY <2>1, <2>5, <2>6, <2>7, <2>8
  <1>2. CASE ~(outcome[w] # "lease_lost" /\ Owns(w))
    BY <1>2 DEF Finalize, Untouched, Same
  <1>. QED  BY <1>1, <1>2

\* The stale sweep ends the attempt whose lease expired, or does nothing.
LEMMA SweepShape ==
  ASSUME TypeOK, Ownership, NEW w \in Workers, Sweep(w)
  PROVE  Untouched \/ \E r \in RunIds : Ended(r)
  <1>1. ASSUME NEW r \in RunIds, Stale(r), BackToQueue(r, rows[r].attempt),
               Record(r, rows[r].attempt, "lease_lost", "STALE_ABANDONED")
        PROVE  Ended(r)
    <2>1. Running(r) /\ rows[r].attempt > 0
      BY <1>1 DEF Stale, Ownership, RowTokens, Running
    <2>2. rows[r].attempt \in Nat /\ rows \in [RunIds -> Row]
      BY QueueAssumption DEF TypeOK, Row
    <2>3. /\ Others(r) /\ rows'[r].attempt = rows[r].attempt
          /\ \/ rows'[r].status = "failed" /\ rows[r].attempt >= MaxAttempts
             \/ rows'[r].status = "retryable" /\ rows[r].attempt < MaxAttempts
      BY <1>1, <2>1, <2>2, BackToQueueEffect
    <2>4. EndsAs(r, "lease_lost")
      BY <2>3 DEF EndsAs
    <2>5. UNCHANGED <<issued, served, pub>>
      BY DEF Sweep
    <2>. QED  BY <1>1, <2>1, <2>3, <2>4, <2>5 DEF Ended, Recorded, Codes
  <1>2. CASE UNCHANGED <<rows, evidence>>
    BY <1>2 DEF Sweep, Untouched, Same
  <1>. QED  BY <1>1, <1>2 DEF Sweep

\* Every step leaves the table alone, submits, starts, refuses or ends a run.
LEMMA Shapes ==
  ASSUME TypeOK, Ownership, [Next]_vars
  PROVE  Untouched \/ \E r \in RunIds : Submitted(r) \/ Started(r) \/ Refused(r) \/ Ended(r)
  <1>. DEFINE Goal == Untouched \/ \E r \in RunIds :
                        Submitted(r) \/ Started(r) \/ Refused(r) \/ Ended(r)
  <1>0. rows \in [RunIds -> Row] /\ issued \in Nat /\ timer \in [Workers -> Nat]
    BY DEF TypeOK
  <1>1. ASSUME UNCHANGED <<rows, issued, evidence>>
        PROVE  Goal
    BY <1>1 DEF Untouched, Same
  <1>2. ASSUME NEW c \in Clients, NEW week \in 0..MaxWeek, NEW forced \in BOOLEAN,
               InsertManual(c, week, forced)
        PROVE  Goal
    <2>1. PICK r \in RunIds : Fresh(r) /\ Insert(r, "manual", 0, week, forced)
      BY <1>2 DEF InsertManual
    <2>2. Others(r) /\ rows'[r].status = "requested" /\ rows'[r].attempt = 0
      BY <1>0, <2>1, InsertEffect, QueueAssumption
    <2>. QED  BY <1>2, <2>1, <2>2 DEF InsertManual, Submitted, Fresh, proc
  <1>3. ASSUME NEW r \in RunIds, NEW week \in 0..MaxWeek, EnqueueCli(r, week)
        PROVE  Goal
    <2>1. Fresh(r) /\ Insert(r, "cli", 0, week, FALSE)
      BY <1>3 DEF EnqueueCli
    <2>2. Others(r) /\ rows'[r].status = "requested" /\ rows'[r].attempt = 0
      <3>1. 0 \in 0..MaxSlot /\ FALSE \in BOOLEAN /\ "cli" \in {"scheduled", "manual", "cli"}
        BY QueueAssumption
      <3>. QED  BY <1>0, <2>1, <3>1, InsertEffect
    <2>. QED  BY <1>3, <2>1, <2>2 DEF EnqueueCli, Submitted, Fresh, proc
  <1>4. ASSUME Tick
        PROVE  Goal
    BY <1>0, <1>4, TickEffect DEF Tick, Untouched
  <1>5. ASSUME NEW w \in Workers, NEW r \in RunIds, Claim(w, r)
        PROVE  Goal
    <2>1. rows[r].attempt + 1 \in 1..MaxAttempts
      BY <1>0, <1>5, AttemptLeft DEF Claim, Ownership
    <2>2. /\ Others(r) /\ rows'[r].status = "running" /\ rows'[r].token = issued + 1
          /\ rows'[r].attempt = rows[r].attempt + 1
      BY <1>0, <1>5, <2>1, ClaimEffect
    <2>3. /\ NoneRunning /\ rows[r].status \in {"requested", "retryable"}
          /\ issued' = issued + 1 /\ UNCHANGED <<evidence, served, pub>>
      BY <1>5 DEF Claim, NextRun, Eligible
    <2>. QED  BY <2>1, <2>2, <2>3 DEF Started, Startable, Attempts
  <1>6. ASSUME NEW w \in Workers, NEW r \in RunIds, ClaimFrozen(w, r)
        PROVE  Goal
    <2>1. rows[r].attempt + 1 \in 1..MaxAttempts
      BY <1>0, <1>6, AttemptLeft DEF ClaimFrozen, Ownership
    <2>2. /\ Others(r) /\ rows'[r].status = "failed"
          /\ rows'[r].attempt = rows[r].attempt + 1
      BY <1>0, <1>6, <2>1, ClaimFrozenEffect
    <2>3. /\ NoneRunning /\ rows[r].status \in {"requested", "retryable"}
          /\ issued' = issued + 1
          /\ Record(r, rows[r].attempt + 1, "failed", "VALIDATE_FAILED")
          /\ UNCHANGED <<claim, pc, renewing, served, pub, outcome>>
      BY <1>6 DEF ClaimFrozen, NextRun, Eligible, proc
    <2>. QED  BY <2>1, <2>2, <2>3 DEF Refused, Startable, Attempts
  <1>7. ASSUME NEW w \in Workers, FirstHeartbeat(w) \/ Renew(w) \/ ConfirmOwnership(w)
        PROVE  Goal
    <2>1. UNCHANGED <<issued, evidence>>
      BY <1>7 DEF FirstHeartbeat, Renew, ConfirmOwnership
    <2>2. UNCHANGED rows \/ (claim[w].run \in RunIds /\ Heartbeat(w))
      BY <1>7 DEF FirstHeartbeat, Renew, ConfirmOwnership, Owns
    <2>. QED  BY <1>0, <2>1, <2>2, HeartbeatEffect DEF Untouched, Same
  <1>8. ASSUME NEW w \in Workers, BeginStage(w)
        PROVE  Goal
    <2>1. UNCHANGED <<issued, evidence>>
      BY <1>8 DEF BeginStage
    <2>2. \/ UNCHANGED rows
          \/ /\ claim[w].run \in RunIds
             /\ rows' = [rows EXCEPT ![claim[w].run] = [@ EXCEPT !.stage = stage[w],
                                                        !.stageToken = claim[w].token]]
      BY <1>8 DEF BeginStage, Owns
    <2>3. stage[w] \in Stages \cup {"none"} /\ claim[w].token \in Nat
      BY DEF TypeOK
    <2>. QED  BY <1>0, <2>1, <2>2, <2>3, StageEffect DEF Untouched, Same
  <1>9. ASSUME NEW w \in Workers, EnqueueScheduled(w)
        PROVE  Goal
    <2>1. CASE UNCHANGED rows
      BY <1>1, <1>9, <2>1 DEF EnqueueScheduled
    <2>2. ASSUME NEW r \in RunIds, Fresh(r), Insert(r, "scheduled", disp[w], 0, FALSE)
          PROVE  Goal
      <3>1. /\ 0 \in 0..MaxWeek /\ FALSE \in BOOLEAN /\ disp[w] \in 0..MaxSlot
            /\ "scheduled" \in {"scheduled", "manual", "cli"}
        BY QueueAssumption DEF TypeOK
      <3>2. Others(r) /\ rows'[r].status = "requested" /\ rows'[r].attempt = 0
        BY <1>0, <2>2, <3>1, InsertEffect
      <3>. QED  BY <1>9, <2>2, <3>2 DEF EnqueueScheduled, Submitted, Fresh, proc
    <2>. QED  BY <1>9, <2>1, <2>2 DEF EnqueueScheduled
  <1>10. ASSUME NEW w \in Workers, Finalize(w) \/ Sweep(w)
         PROVE  Goal
    BY <1>10, FinalizeShape, SweepShape
  <1>11. ASSUME NEW w \in Workers,
                \/ AcquireLock(w) \/ Publish(w) \/ CompleteStage(w)
                \/ \E oc \in {"retryable", "failed"} : ExecutorFails(w, oc)
                \/ Abandon(w) \/ RenewError(w) \/ Die(w) \/ Restart(w) \/ DispatchError(w)
         PROVE  Goal
    BY <1>1, <1>11 DEF AcquireLock, Publish, CompleteStage, ExecutorFails, Abandon,
       RenewError, Die, Restart, DispatchError, db
  <1>12. ASSUME NEW c \in Clients, NEW week \in 0..MaxWeek,
                RejectManual(c, week) \/ ConflictManual(c, week)
         PROVE  Goal
    BY <1>1, <1>12 DEF RejectManual, ConflictManual, db
  <1>13. ASSUME NEW c \in Clients, SelectPending(c)
         PROVE  Goal
    BY <1>1, <1>13 DEF SelectPending, db
  <1>14. ASSUME Reset \/ NextSlot \/ LoseLock \/ UNCHANGED vars
         PROVE  Goal
    BY <1>1, <1>14 DEF Reset, NextSlot, LoseLock, vars, db
  <1>. HIDE DEF Goal
  <1>15. Goal
    BY <1>2, <1>3, <1>4, <1>5, <1>6, <1>7, <1>8, <1>9, <1>10, <1>11, <1>12, <1>13, <1>14
       DEF Next, Request, Worker, Crash, Watchdog
  <1>. QED  BY <1>15 DEF Goal

-----------------------------------------------------------------------------
(* Ownership: the fencing argument.                                        *)

\* A running row carries the newest token, and there is only one of them.
LEMMA RowTokensStep ==
  ASSUME TypeOK, Ownership, [Next]_vars
  PROVE  RowTokens'
  <1>0. /\ issued \in Nat /\ RowTokens
        /\ \A r \in RunIds : rows[r].attempt \in 0..MaxAttempts
    BY DEF TypeOK, Ownership, Row
  <1>1. CASE Untouched
    BY <1>0, <1>1 DEF Untouched, Same, RowTokens, Running
  <1>2. ASSUME NEW r \in RunIds, Submitted(r)
        PROVE  RowTokens'
    BY <1>0, <1>2 DEF Submitted, Others, RowTokens, Running
  <1>3. ASSUME NEW r \in RunIds, Started(r)
        PROVE  RowTokens'
    BY <1>0, <1>3, QueueAssumption
       DEF Started, Startable, Others, RowTokens, Running, NoneRunning, Attempts
  <1>4. ASSUME NEW r \in RunIds, Refused(r)
        PROVE  RowTokens'
    BY <1>0, <1>4, QueueAssumption
       DEF Refused, Startable, Others, RowTokens, Running, NoneRunning, Attempts
  <1>5. ASSUME NEW r \in RunIds, Ended(r)
        PROVE  RowTokens'
    BY <1>0, <1>5, QueueAssumption DEF Ended, EndsAs, Others, RowTokens, Running
  <1>. QED  BY <1>1, <1>2, <1>3, <1>4, <1>5, Shapes

\* Nobody gains ownership of an old claim: a worker that keeps its claim over a
\* step and owns it afterwards owned it before, and the attempt is the same.
LEMMA OwnsBefore ==
  ASSUME TypeOK, Ownership, [Next]_vars, NEW v \in Workers, claim'[v] = claim[v], Owns(v)'
  PROVE  /\ Owns(v)
         /\ rows'[claim[v].run].attempt = rows[claim[v].run].attempt
  <1>. DEFINE q == claim[v].run
  <1>0. /\ issued \in Nat /\ claim[v].token \in Nat /\ claim[v].token <= issued
        /\ q \in RunIds /\ rows'[q].status = "running" /\ rows'[q].token = claim[v].token
    BY DEF TypeOK, Ownership, ClaimTokens, Owns
  <1>1. CASE Untouched
    BY <1>0, <1>1 DEF Untouched, Same, Owns
  <1>2. ASSUME NEW r \in RunIds, Submitted(r) \/ Started(r) \/ Refused(r) \/ Ended(r)
        PROVE  q # r /\ Others(r)
    BY <1>0, <1>2 DEF Submitted, Started, Refused, Startable, Ended, EndsAs
  <1>3. ASSUME NEW r \in RunIds, q # r, Others(r)
        PROVE  rows'[q] = rows[q]
    BY <1>0, <1>3 DEF Others
  <1>. QED  BY <1>0, <1>1, <1>2, <1>3, Shapes DEF Owns

\* What a step does to the claims that the processes hold.
LEMMA ClaimShapes ==
  ASSUME TypeOK, Ownership, [Next]_vars
  PROVE  \/ UNCHANGED claim /\ \A v \in Workers : Busy(v)' => Busy(v)
         \/ \E w \in Workers :
              /\ claim' = [claim EXCEPT ![w] = NoClaim] /\ ~Busy(w)'
              /\ \A v \in Workers \ {w} : Busy(v)' => Busy(v)
         \/ \E w \in Workers, r \in RunIds : Claim(w, r)
  <1>. DEFINE Kept == UNCHANGED claim /\ \A v \in Workers : Busy(v)' => Busy(v)
              Dropped == \E w \in Workers :
                           /\ claim' = [claim EXCEPT ![w] = NoClaim] /\ ~Busy(w)'
                           /\ \A v \in Workers \ {w} : Busy(v)' => Busy(v)
  <1>0. pc \in [Workers -> Pcs]
    BY DEF TypeOK
  <1>1. ASSUME UNCHANGED <<claim, pc>>
        PROVE  Kept
    BY <1>1 DEF Busy
  <1>2. ASSUME NEW w \in Workers, UNCHANGED claim,
               \E p \in {"idle", "down"} \cup Pcs : pc' = [pc EXCEPT ![w] = p],
               Busy(w) \/ pc'[w] = "idle"
        PROVE  Kept
    BY <1>0, <1>2 DEF Busy
  <1>3. ASSUME NEW w \in Workers, claim' = [claim EXCEPT ![w] = NoClaim],
               \E p \in {"idle", "down"} : pc' = [pc EXCEPT ![w] = p]
        PROVE  Dropped
    BY <1>0, <1>3 DEF Busy
  <1>. HIDE DEF Kept, Dropped
  <1>4. ASSUME NEW w \in Workers, NEW oc, EndExecution(w, oc), UNCHANGED claim, Busy(w)
        PROVE  Kept
    BY <1>2, <1>4 DEF EndExecution, Pcs
  <1>5. ASSUME NEW w \in Workers, AcquireLock(w) \/ FirstHeartbeat(w) \/ BeginStage(w)
        PROVE  Kept
    <2>1. Busy(w) /\ UNCHANGED claim
      BY <1>5 DEF AcquireLock, FirstHeartbeat, BeginStage, Busy
    <2>2. \/ \E oc \in Outcomes : EndExecution(w, oc)
          \/ \E p \in Pcs : pc' = [pc EXCEPT ![w] = p]
      BY <1>5 DEF AcquireLock, FirstHeartbeat, BeginStage, Outcomes, Pcs, Executing
    <2>. QED  BY <1>2, <1>4, <2>1, <2>2
  <1>6. ASSUME NEW w \in Workers, Publish(w) \/ CompleteStage(w) \/ ConfirmOwnership(w)
        PROVE  Kept
    <2>1. Busy(w) /\ UNCHANGED claim
      BY <1>6 DEF Publish, CompleteStage, ConfirmOwnership, Busy
    <2>2. \/ \E oc \in Outcomes : EndExecution(w, oc)
          \/ \E p \in Pcs : pc' = [pc EXCEPT ![w] = p]
      BY <1>6 DEF Publish, CompleteStage, ConfirmOwnership, Outcomes, Pcs, Executing
    <2>. QED  BY <1>2, <1>4, <2>1, <2>2
  <1>7. ASSUME NEW w \in Workers, NEW oc \in {"retryable", "failed"}, ExecutorFails(w, oc)
        PROVE  Kept
    <2>1. Busy(w)
      BY <1>7 DEF ExecutorFails, Executing, Busy
    <2>. QED  BY <1>4, <1>7, <2>1 DEF ExecutorFails
  <1>8. ASSUME NEW w \in Workers, Finalize(w) \/ Abandon(w) \/ Die(w)
        PROVE  Dropped
    BY <1>3, <1>8 DEF Finalize, Abandon, Idle, Die
  <1>9. ASSUME NEW w \in Workers, Restart(w)
        PROVE  Kept
    BY <1>0, <1>2, <1>9 DEF Restart
  <1>10. ASSUME NEW w \in Workers,
                \/ Renew(w) \/ RenewError(w) \/ Sweep(w) \/ EnqueueScheduled(w)
                \/ DispatchError(w) \/ \E r \in RunIds : ClaimFrozen(w, r)
         PROVE  Kept
    BY <1>1, <1>10 DEF Renew, RenewError, Sweep, EnqueueScheduled, DispatchError, ClaimFrozen, proc
  <1>11. ASSUME Request
         PROVE  Kept
    BY <1>1, <1>11 DEF Request, RejectManual, ConflictManual, InsertManual, SelectPending,
       EnqueueCli, proc
  <1>12. ASSUME Reset \/ NextSlot \/ LoseLock \/ Tick \/ UNCHANGED vars
         PROVE  Kept
    BY <1>1, <1>12 DEF Reset, NextSlot, LoseLock, Tick, vars, proc
  <1>13. Kept \/ Dropped \/ \E w \in Workers, r \in RunIds : Claim(w, r)
    BY <1>5, <1>6, <1>7, <1>8, <1>9, <1>10, <1>11, <1>12 DEF Next, Worker, Crash, Watchdog
  <1>. QED  BY <1>13 DEF Kept, Dropped

\* The renewal thread runs only while its worker is inside the executor.
LEMMA RenewingStep ==
  ASSUME TypeOK, Ownership, [Next]_vars, NEW v \in Workers, renewing'[v]
  PROVE  pc'[v] \in Executing
  <1>0. /\ pc \in [Workers -> Pcs] /\ renewing \in [Workers -> BOOLEAN]
        /\ \A w \in Workers : renewing[w] => pc[w] \in Executing
    BY DEF TypeOK, Ownership, ClaimTokens
  <1>1. ASSUME UNCHANGED <<renewing, pc>>
        PROVE  pc'[v] \in Executing
    BY <1>0, <1>1
  <1>2. ASSUME NEW w \in Workers, UNCHANGED renewing,
               \E p \in Executing : pc' = [pc EXCEPT ![w] = p]
        PROVE  pc'[v] \in Executing
    BY <1>0, <1>2
  <1>3. ASSUME NEW w \in Workers, UNCHANGED renewing, pc[w] \notin Executing,
               \E p : pc' = [pc EXCEPT ![w] = p]
        PROVE  pc'[v] \in Executing
    BY <1>0, <1>3
  <1>4. ASSUME NEW w \in Workers, NEW p, pc' = [pc EXCEPT ![w] = p],
               renewing' = [renewing EXCEPT ![w] = FALSE]
        PROVE  pc'[v] \in Executing
    BY <1>0, <1>4
  <1>5. ASSUME NEW w \in Workers, AcquireLock(w) \/ BeginStage(w) \/ Publish(w)
        PROVE  pc'[v] \in Executing
    BY <1>2, <1>3, <1>4, <1>5 DEF AcquireLock, BeginStage, Publish, EndExecution, Executing
  <1>6. ASSUME NEW w \in Workers, CompleteStage(w) \/ ConfirmOwnership(w)
        PROVE  pc'[v] \in Executing
    BY <1>2, <1>4, <1>6 DEF CompleteStage, ConfirmOwnership, EndExecution, Executing
  <1>7. ASSUME NEW w \in Workers, FirstHeartbeat(w)
        PROVE  pc'[v] \in Executing
    BY <1>0, <1>4, <1>7 DEF FirstHeartbeat, EndExecution, Executing
  <1>8. ASSUME NEW w \in Workers,
               Die(w) \/ \E oc \in {"retryable", "failed"} : ExecutorFails(w, oc)
        PROVE  pc'[v] \in Executing
    BY <1>4, <1>8 DEF Die, ExecutorFails, EndExecution
  <1>9. ASSUME NEW w \in Workers,
               \/ Finalize(w) \/ Abandon(w) \/ Restart(w) \/ \E r \in RunIds : Claim(w, r)
        PROVE  pc'[v] \in Executing
    BY <1>3, <1>9 DEF Finalize, Abandon, Idle, Restart, Claim, CanClaim, Executing
  <1>10. ASSUME NEW w \in Workers,
                \/ Sweep(w) \/ EnqueueScheduled(w) \/ DispatchError(w)
                \/ \E r \in RunIds : ClaimFrozen(w, r)
         PROVE  pc'[v] \in Executing
    BY <1>1, <1>10 DEF Sweep, EnqueueScheduled, DispatchError, ClaimFrozen, proc
  <1>11. ASSUME NEW w \in Workers, Renew(w) \/ RenewError(w)
         PROVE  pc'[v] \in Executing
    BY <1>0, <1>11 DEF Renew, RenewError
  <1>12. ASSUME Request
         PROVE  pc'[v] \in Executing
    BY <1>1, <1>12 DEF Request, RejectManual, ConflictManual, InsertManual, SelectPending,
       EnqueueCli, proc
  <1>13. ASSUME Reset \/ NextSlot \/ LoseLock \/ Tick \/ UNCHANGED vars
         PROVE  pc'[v] \in Executing
    BY <1>1, <1>13 DEF Reset, NextSlot, LoseLock, Tick, vars, proc
  <1>. QED  BY <1>5, <1>6, <1>7, <1>8, <1>9, <1>10, <1>11, <1>12, <1>13
            DEF Next, Worker, Crash, Watchdog

\* The processes hold distinct tokens, none newer than the table's newest.
LEMMA ClaimTokensStep ==
  ASSUME TypeOK, Ownership, [Next]_vars
  PROVE  ClaimTokens'
  <1>0. /\ issued \in Nat /\ ClaimTokens
        /\ claim \in [Workers -> [run: RunIds \cup {0}, token: Nat, attempt: Nat]]
    BY DEF TypeOK, Ownership
  <1>1. issued' \in Nat /\ issued' >= issued
    BY <1>0, Shapes DEF Untouched, Submitted, Started, Refused, Startable, Ended
  <1>2. \A v \in Workers : renewing'[v] => pc'[v] \in Executing
    BY RenewingStep
  <1>3. ASSUME NEW v \in Workers, claim'[v] = claim[v], Busy(v)' => Busy(v)
        PROVE  /\ claim'[v].token <= issued'
               /\ claim'[v].run \in RunIds => claim'[v].token > 0
               /\ Owns(v)' => claim'[v].attempt = rows'[claim'[v].run].attempt
               /\ Busy(v)' => claim'[v].run \in RunIds
    <2>1. /\ claim[v].token \in Nat /\ claim[v].token <= issued
          /\ claim[v].run \in RunIds => claim[v].token > 0
          /\ Owns(v) => claim[v].attempt = rows[claim[v].run].attempt
          /\ Busy(v) => claim[v].run \in RunIds
      BY <1>0 DEF ClaimTokens
    <2>2. Owns(v)' => Owns(v) /\ rows'[claim[v].run].attempt = rows[claim[v].run].attempt
      BY <1>3, OwnsBefore
    <2>. QED  BY <1>0, <1>1, <1>3, <2>1, <2>2
  <1>4. ASSUME UNCHANGED claim, \A v \in Workers : Busy(v)' => Busy(v)
        PROVE  ClaimTokens'
    <2>1. \A v, w \in Workers : claim'[v].token = claim'[w].token /\ claim'[w].token > 0 => v = w
      BY <1>0, <1>4 DEF ClaimTokens
    <2>. QED  BY <1>2, <1>3, <1>4, <2>1 DEF ClaimTokens
  <1>5. ASSUME NEW w \in Workers, claim' = [claim EXCEPT ![w] = NoClaim], ~Busy(w)',
               \A v \in Workers \ {w} : Busy(v)' => Busy(v)
        PROVE  ClaimTokens'
    <2>1. /\ claim'[w].run = 0 /\ claim'[w].token = 0
          /\ \A v \in Workers \ {w} : claim'[v] = claim[v]
      BY <1>0, <1>5 DEF NoClaim
    <2>2. claim'[w].run \notin RunIds
      BY <2>1, QueueAssumption DEF RunIds
    <2>3. \A u, v \in Workers : claim'[u].token = claim'[v].token /\ claim'[v].token > 0 => u = v
      BY <1>0, <2>1 DEF ClaimTokens
    <2>4. /\ claim'[w].token <= issued'
          /\ claim'[w].run \in RunIds => claim'[w].token > 0
          /\ Owns(w)' => claim'[w].attempt = rows'[claim'[w].run].attempt
          /\ Busy(w)' => claim'[w].run \in RunIds
      BY <1>1, <1>5, <2>1, <2>2 DEF Owns
    <2>. QED  BY <1>2, <1>3, <1>5, <2>1, <2>3, <2>4 DEF ClaimTokens
  <1>6. ASSUME NEW w \in Workers, NEW r \in RunIds, Claim(w, r)
        PROVE  ClaimTokens'
    <2>1. rows[r].attempt + 1 \in 1..MaxAttempts /\ rows \in [RunIds -> Row]
      BY <1>6, AttemptLeft DEF Claim, Ownership, TypeOK
    <2>2. rows'[r].attempt = rows[r].attempt + 1
      BY <1>0, <1>6, <2>1, ClaimEffect
    <2>3. /\ claim'[w] = [run |-> r, token |-> issued + 1, attempt |-> rows[r].attempt + 1]
          /\ \A v \in Workers \ {w} : claim'[v] = claim[v]
          /\ issued' = issued + 1
      BY <1>0, <1>6 DEF Claim, NewToken
    <2>4. \A v \in Workers \ {w} : Busy(v)' => Busy(v)
      BY <1>6 DEF Claim, Busy, TypeOK
    <2>5. /\ claim'[w].token <= issued'
          /\ claim'[w].run \in RunIds => claim'[w].token > 0
          /\ Owns(w)' => claim'[w].attempt = rows'[claim'[w].run].attempt
          /\ Busy(w)' => claim'[w].run \in RunIds
      BY <1>0, <2>2, <2>3
    <2>6. \A v \in Workers : claim[v].token \in Nat /\ claim[v].token <= issued
      BY <1>0 DEF ClaimTokens
    <2>7. \A u, v \in Workers : claim'[u].token = claim'[v].token /\ claim'[v].token > 0 => u = v
      BY <1>0, <2>3, <2>6 DEF ClaimTokens
    <2>. QED  BY <1>2, <1>3, <2>3, <2>4, <2>5, <2>7 DEF ClaimTokens
  <1>. QED  BY <1>4, <1>5, <1>6, ClaimShapes

\* Whoever passes the guard of the worker-side statements is the newest
\* claimant, and there is only one: Ownership implies OneOwner.
LEMMA OwnershipIsOneOwner ==
  ASSUME TypeOK, Ownership
  PROVE  OneOwner
  <1>1. \A v, w \in Workers : Owns(v) /\ Owns(w) => v = w
    BY DEF Ownership, RowTokens, ClaimTokens, Owns, Running
  <1>. QED  BY <1>1 DEF OneOwner, Ownership, RowTokens

\* Before the first request there is nothing to own.
LEMMA InitOwnership ==
  ASSUME Init
  PROVE  TypeOK /\ Ownership
  <1>1. Absent \in Row
    BY QueueAssumption DEF Absent, Row, Statuses
  <1>2. TypeOK
    BY <1>1, QueueAssumption DEF Init, TypeOK, NoEvidence, NoClaim, NoCall, Pcs, Recorded, Codes
  <1>3. RowTokens
    BY <1>2, QueueAssumption DEF Init, RowTokens, Absent, Running
  <1>4. ClaimTokens
    BY QueueAssumption DEF Init, ClaimTokens, NoClaim, Owns, Busy, RunIds
  <1>. QED  BY <1>2, <1>3, <1>4 DEF Ownership

\* Every variable keeps its type, in every instance of the model: in particular
\* no row ever counts more attempts than DEFAULT_MAX_ATTEMPTS.
THEOREM TypesHold == Spec => []TypeOK
  <1>1. Init => TypeOK /\ Ownership
    BY InitOwnership
  <1>2. TypeOK /\ Ownership /\ [Next]_vars => (TypeOK /\ Ownership)'
    BY TypeStep, RowTokensStep, ClaimTokensStep DEF Ownership
  <1>. QED  BY <1>1, <1>2, PTL DEF Spec

\* The fencing tokens work, for any number of workers and runs: whatever is
\* swept, lost or restarted, one run is active and one process owns it.
THEOREM OneOwnerHolds == Spec => []OneOwner
  <1>1. Init => TypeOK /\ Ownership
    BY InitOwnership
  <1>2. TypeOK /\ Ownership /\ [Next]_vars => (TypeOK /\ Ownership)'
    BY TypeStep, RowTokensStep, ClaimTokensStep DEF Ownership
  <1>3. TypeOK /\ Ownership => OneOwner
    BY OwnershipIsOneOwner
  <1>. QED  BY <1>1, <1>2, <1>3, PTL DEF Spec

-----------------------------------------------------------------------------
(* Publication: only the newest claimant writes rollups.                    *)

PublishedBy(w) == /\ Owns(w) /\ pc[w] = "body" /\ UNCHANGED claim
                  /\ served' = claim[w].token
                  /\ pub' = [pub EXCEPT ![claim[w].run] = claim[w].attempt]
                  /\ \A s \in RunIds : rows'[s] = rows[s]
                  /\ UNCHANGED issued

\* The load transaction is the only one that publishes, and it does so for the
\* worker whose claim it verified FOR UPDATE.
LEMMA PublishShape ==
  ASSUME [Next]_vars
  PROVE  UNCHANGED <<served, pub>> \/ \E w \in Workers : PublishedBy(w)
  <1>1. ASSUME NEW w \in Workers, Publish(w)
        PROVE  UNCHANGED <<served, pub>> \/ PublishedBy(w)
    BY <1>1 DEF Publish, PublishedBy
  <1>2. ASSUME NEW w \in Workers, Worker(w), ~Publish(w)
        PROVE  UNCHANGED <<served, pub>>
    BY <1>2 DEF Worker, Claim, ClaimFrozen, AcquireLock, FirstHeartbeat, BeginStage,
       CompleteStage, ConfirmOwnership, ExecutorFails, Finalize, Abandon, Renew, RenewError,
       Crash, Watchdog, Die, Restart, Sweep, EnqueueScheduled, DispatchError, db
  <1>3. ASSUME Request
        PROVE  UNCHANGED <<served, pub>>
    BY <1>3 DEF Request, RejectManual, ConflictManual, InsertManual, SelectPending,
       EnqueueCli, db
  <1>4. ASSUME Reset \/ NextSlot \/ LoseLock \/ Tick \/ UNCHANGED vars
        PROVE  UNCHANGED <<served, pub>>
    BY <1>4 DEF Reset, NextSlot, LoseLock, Tick, vars, db
  <1>. QED  BY <1>1, <1>2, <1>3, <1>4 DEF Next

\* A worker gets past its load stage only by publishing.
LEMMA HasPublishedBefore ==
  ASSUME TypeOK, [Next]_vars, NEW v \in Workers, HasPublished(v)'
  PROVE  claim'[v] = claim[v] /\ (HasPublished(v) \/ PublishedBy(v))
  <1>. DEFINE Goal == claim'[v] = claim[v] /\ (HasPublished(v) \/ PublishedBy(v))
  <1>0. pc \in [Workers -> Pcs] /\ outcome \in [Workers -> Outcomes \cup {"none"}]
        /\ claim \in [Workers -> [run: RunIds \cup {0}, token: Nat, attempt: Nat]]
    BY DEF TypeOK
  <1>1. ASSUME UNCHANGED <<claim, pc, outcome>>
        PROVE  Goal
    BY <1>1 DEF HasPublished
  <1>2. ASSUME NEW w \in Workers, w # v, \A u \in Workers \ {w} :
                 pc'[u] = pc[u] /\ outcome'[u] = outcome[u] /\ claim'[u] = claim[u]
        PROVE  Goal
    BY <1>2 DEF HasPublished
  <1>3. ASSUME NEW w \in Workers, Worker(w)
        PROVE  \A u \in Workers \ {w} :
                 pc'[u] = pc[u] /\ outcome'[u] = outcome[u] /\ claim'[u] = claim[u]
    BY <1>0, <1>3 DEF Worker, Claim, ClaimFrozen, AcquireLock, FirstHeartbeat, BeginStage,
       Publish, CompleteStage, ConfirmOwnership, ExecutorFails, EndExecution, Finalize, Idle,
       Abandon, Renew, RenewError, Crash, Watchdog, Die, Restart, Sweep, EnqueueScheduled,
       DispatchError, proc
  <1>4. ASSUME Worker(v)
        PROVE  Goal
    <2>1. ASSUME Publish(v)
          PROVE  Goal
      BY <1>0, <2>1 DEF Publish, PublishedBy, EndExecution, HasPublished
    <2>2. ASSUME CompleteStage(v)
          PROVE  Goal
      BY <1>0, <2>2 DEF CompleteStage, EndExecution, HasPublished
    <2>3. ASSUME ConfirmOwnership(v)
          PROVE  Goal
      BY <1>0, <2>3 DEF ConfirmOwnership, EndExecution, HasPublished
    <2>4. ASSUME \/ AcquireLock(v) \/ FirstHeartbeat(v) \/ BeginStage(v)
                 \/ \E oc \in {"retryable", "failed"} : ExecutorFails(v, oc)
          PROVE  FALSE
      BY <1>0, <2>4 DEF AcquireLock, FirstHeartbeat, BeginStage, ExecutorFails, EndExecution,
         HasPublished
    <2>5. ASSUME \/ Finalize(v) \/ Abandon(v) \/ Die(v) \/ Restart(v)
                 \/ \E r \in RunIds : Claim(v, r)
          PROVE  FALSE
      BY <1>0, <2>5 DEF Finalize, Idle, Abandon, Die, Restart, Claim, HasPublished
    <2>6. ASSUME \/ Renew(v) \/ RenewError(v) \/ Sweep(v) \/ EnqueueScheduled(v)
                 \/ DispatchError(v) \/ \E r \in RunIds : ClaimFrozen(v, r)
          PROVE  Goal
      BY <1>1, <2>6 DEF Renew, RenewError, Sweep, EnqueueScheduled, DispatchError,
         ClaimFrozen, proc
    <2>. HIDE DEF Goal
    <2>. QED  BY <1>4, <2>1, <2>2, <2>3, <2>4, <2>5, <2>6 DEF Worker, Crash, Watchdog
  <1>5. ASSUME Request
        PROVE  Goal
    BY <1>1, <1>5 DEF Request, RejectManual, ConflictManual, InsertManual, SelectPending,
       EnqueueCli, proc
  <1>6. ASSUME Reset \/ NextSlot \/ LoseLock \/ Tick \/ UNCHANGED vars
        PROVE  Goal
    BY <1>1, <1>6 DEF Reset, NextSlot, LoseLock, Tick, vars, proc
  <1>. HIDE DEF Goal
  <1>7. Goal
    BY <1>2, <1>3, <1>4, <1>5, <1>6 DEF Next
  <1>. QED  BY <1>7 DEF Goal

\* A step never moves the published results back to an older claim.
LEMMA ServedStep ==
  ASSUME TypeOK, Ownership, Publication, [Next]_vars
  PROVE  served' >= served /\ served' <= issued'
  <1>0. /\ issued \in Nat /\ served \in Nat /\ served <= issued
        /\ \A w \in Workers : claim[w].token \in Nat
    BY DEF TypeOK, Publication
  <1>1. issued' \in Nat /\ issued' >= issued
    BY <1>0, Shapes DEF Untouched, Submitted, Started, Refused, Startable, Ended
  <1>2. ASSUME NEW w \in Workers, PublishedBy(w)
        PROVE  served' = issued
    BY <1>2 DEF PublishedBy, Owns, Ownership, RowTokens, Running
  <1>. QED  BY <1>0, <1>1, <1>2, PublishShape

\* Publication survives every step: a superseded worker does not own its claim,
\* so it neither publishes nor finalizes a success.
LEMMA PublicationStep ==
  ASSUME TypeOK, Ownership, Publication, [Next]_vars
  PROVE  Publication'
  <1>0. /\ pub \in [RunIds -> Nat]
        /\ \A w \in Workers : HasPublished(w) /\ Owns(w) =>
             pub[claim[w].run] = claim[w].attempt /\ served = claim[w].token
        /\ \A w \in Workers : Owns(w) => claim[w].attempt = rows[claim[w].run].attempt
    BY DEF TypeOK, Publication, Ownership, ClaimTokens
  <1>1. ASSUME NEW v \in Workers, HasPublished(v)', Owns(v)'
        PROVE  pub'[claim'[v].run] = claim'[v].attempt /\ served' = claim'[v].token
    <2>1. claim'[v] = claim[v] /\ (HasPublished(v) \/ PublishedBy(v))
      BY <1>1, HasPublishedBefore
    <2>2. Owns(v)
      BY <1>1, <2>1, OwnsBefore
    <2>3. CASE PublishedBy(v)
      BY <1>0, <2>1, <2>2, <2>3 DEF PublishedBy, Owns
    <2>4. ASSUME NEW w \in Workers, PublishedBy(w), w # v
          PROVE  FALSE
      BY <2>2, <2>4, OwnershipIsOneOwner DEF PublishedBy, OneOwner
    <2>5. CASE UNCHANGED <<served, pub>> /\ HasPublished(v)
      BY <1>0, <2>1, <2>2, <2>5
    <2>. QED  BY <2>1, <2>3, <2>4, <2>5, PublishShape
  <1>2. ASSUME NEW r \in RunIds, rows'[r].status = "succeeded"
        PROVE  pub'[r] = rows'[r].attempt
    <2>1. ASSUME rows[r].status = "succeeded", rows'[r].attempt = rows[r].attempt
          PROVE  pub'[r] = rows'[r].attempt
      <3>1. pub[r] = rows[r].attempt
        BY <2>1 DEF Publication, SuccessIsPublished
      <3>2. ASSUME NEW w \in Workers, PublishedBy(w)
            PROVE  pub'[r] = pub[r]
        BY <1>0, <2>1, <3>2 DEF PublishedBy, Owns
      <3>. QED  BY <2>1, <3>1, <3>2, PublishShape
    <2>2. CASE Untouched
      BY <1>2, <2>1, <2>2 DEF Untouched, Same
    <2>3. ASSUME NEW q \in RunIds, Submitted(q) \/ Started(q) \/ Refused(q)
          PROVE  pub'[r] = rows'[r].attempt
      <3>1. q # r /\ Others(q)
        BY <1>2, <2>3 DEF Submitted, Started, Refused, Startable
      <3>. QED  BY <1>2, <2>1, <3>1 DEF Others
    <2>4. ASSUME NEW q \in RunIds, Ended(q)
          PROVE  pub'[r] = rows'[r].attempt
      <3>1. CASE q # r
        BY <1>2, <2>1, <2>4, <3>1 DEF Ended, Others
      <3>2. CASE q = r
        <4>1. PICK w \in Workers : Owns(w) /\ claim[w].run = r /\ HasPublished(w)
          BY <1>2, <2>4, <3>2 DEF Ended, EndsAs
        <4>. QED  BY <1>0, <2>4, <3>2, <4>1 DEF Ended
      <3>. QED  BY <3>1, <3>2
    <2>. QED  BY <2>2, <2>3, <2>4, Shapes
  <1>. QED  BY <1>1, <1>2, ServedStep DEF Publication, SuccessIsPublished

-----------------------------------------------------------------------------
(* The attempt ledger and the retry budget.                                *)

LedgerOf(r) ==
  /\ \A a \in Attempts :
       /\ evidence[r][a] = NoEvidence <=>
            a > rows[r].attempt \/ (a = rows[r].attempt /\ Running(r))
       /\ a < rows[r].attempt => evidence[r][a].outcome \in {"retried", "lease_lost"}
  /\ rows[r].status = "succeeded" => evidence[r][rows[r].attempt].outcome = "succeeded"
  /\ rows[r].status = "failed" =>
       evidence[r][rows[r].attempt].outcome \in {"failed", "exhausted", "lease_lost"}

\* Only a re-queued attempt leaves a run that can be claimed again: this is what
\* makes the ledger of the attempts before the newest one inductive.
Requeued(r) ==
  rows[r].status = "retryable" =>
    evidence[r][rows[r].attempt].outcome \in {"retried", "lease_lost"} /\ rows[r].attempt > 0

BudgetOf(r) ==
  /\ rows[r].status \in {"requested", "retryable"} => rows[r].attempt < MaxAttempts
  /\ rows[r].status = "failed" => \/ rows[r].attempt = MaxAttempts
                                  \/ evidence[r][rows[r].attempt].outcome = "failed"

Ledger == \A r \in RunIds : LedgerOf(r) /\ Requeued(r) /\ BudgetOf(r)

\* Every step keeps the ledger of every run.
LEMMA LedgerStep ==
  ASSUME TypeOK, Ownership, Ledger, [Next]_vars
  PROVE  Ledger'
  <1>. USE DEF NoEvidence
  <1>0. /\ evidence \in [RunIds -> [Attempts -> [outcome: Recorded, code: Codes]]]
        /\ \A r \in RunIds : rows[r].attempt \in 0..MaxAttempts
        /\ \A r \in RunIds : Running(r) => rows[r].attempt > 0
        /\ \A r \in RunIds : rows[r].status \in {"absent", "requested"} => rows[r].attempt = 0
        /\ MaxAttempts \in Nat \ {0}
    BY QueueAssumption DEF TypeOK, Row, Ownership, RowTokens
  <1>1. ASSUME NEW q \in RunIds, evidence'[q] = evidence[q],
               rows'[q].status = rows[q].status, rows'[q].attempt = rows[q].attempt
        PROVE  LedgerOf(q)' /\ Requeued(q)' /\ BudgetOf(q)'
    BY <1>1 DEF Ledger, LedgerOf, Requeued, BudgetOf, Running
  <1>2. CASE Untouched
    BY <1>1, <1>2 DEF Untouched, Same, Ledger
  <1>3. ASSUME NEW r \in RunIds, Others(r), \A q \in RunIds \ {r} : evidence'[q] = evidence[q],
               LedgerOf(r)' /\ Requeued(r)' /\ BudgetOf(r)'
        PROVE  Ledger'
    BY <1>1, <1>3 DEF Others, Ledger
  <1>4. ASSUME NEW r \in RunIds, Submitted(r)
        PROVE  Ledger'
    <2>1. LedgerOf(r)' /\ Requeued(r)' /\ BudgetOf(r)'
      BY <1>0, <1>4 DEF Submitted, Ledger, LedgerOf, Requeued, BudgetOf, Running, Attempts
    <2>. QED  BY <1>3, <1>4, <2>1 DEF Submitted
  <1>5. ASSUME NEW r \in RunIds, Startable(r)
        PROVE  /\ rows[r].attempt + 1 \in Attempts /\ Others(r)
               /\ rows'[r].attempt = rows[r].attempt + 1
               /\ \A a \in Attempts : evidence[r][a] = NoEvidence <=> a > rows[r].attempt
               /\ \A a \in Attempts : a <= rows[r].attempt =>
                    evidence[r][a].outcome \in {"retried", "lease_lost"}
    <2>1. /\ rows[r].status \in {"requested", "retryable"} /\ ~Running(r)
          /\ rows[r].attempt + 1 \in Attempts /\ Others(r)
          /\ rows'[r].attempt = rows[r].attempt + 1
      BY <1>5 DEF Startable, Running
    <2>2. LedgerOf(r) /\ Requeued(r)
      BY DEF Ledger
    <2>3. ASSUME NEW a \in Attempts, a <= rows[r].attempt
          PROVE  evidence[r][a].outcome \in {"retried", "lease_lost"}
      BY <1>0, <2>1, <2>2, <2>3 DEF LedgerOf, Requeued, Attempts
    <2>. QED  BY <2>1, <2>2, <2>3 DEF LedgerOf
  <1>6. ASSUME NEW r \in RunIds, Started(r)
        PROVE  Ledger'
    <2>1. Startable(r) /\ rows'[r].status = "running" /\ evidence' = evidence
      BY <1>6 DEF Started
    <2>2. LedgerOf(r)' /\ Requeued(r)' /\ BudgetOf(r)'
      BY <1>0, <1>5, <2>1 DEF LedgerOf, Requeued, BudgetOf, Running, Attempts
    <2>. QED  BY <1>3, <1>5, <2>1, <2>2
  <1>7. ASSUME NEW r \in RunIds, Refused(r)
        PROVE  Ledger'
    <2>. DEFINE b == rows[r].attempt + 1
    <2>1. /\ Startable(r) /\ rows'[r].status = "failed"
          /\ Record(r, b, "failed", "VALIDATE_FAILED")
      BY <1>7 DEF Refused
    <2>2. b \in Attempts /\ "failed" \in Recorded /\ "VALIDATE_FAILED" \in Codes
      BY <1>5, <2>1 DEF Recorded, Codes
    <2>3. evidence[r][b] = NoEvidence
      BY <1>0, <1>5, <2>1, <2>2
    <2>4. /\ \A q \in RunIds \ {r} : evidence'[q] = evidence[q]
          /\ \A a \in Attempts \ {b} : evidence'[r][a] = evidence[r][a]
          /\ evidence'[r][b] = [outcome |-> "failed", code |-> "VALIDATE_FAILED"]
      BY <1>0, <2>1, <2>2, <2>3, RecordEffect
    <2>5. LedgerOf(r)' /\ Requeued(r)' /\ BudgetOf(r)'
      <3>1. /\ rows'[r].attempt = b /\ ~Running(r)'
            /\ evidence'[r][b].outcome = "failed" /\ evidence'[r][b] # NoEvidence
        BY <1>5, <2>1, <2>4 DEF Running
      <3>2. ASSUME NEW a \in Attempts
            PROVE  /\ evidence'[r][a] = NoEvidence <=> a > b
                   /\ a < b => evidence'[r][a].outcome \in {"retried", "lease_lost"}
        <4>1. /\ evidence[r][a] = NoEvidence <=> a > rows[r].attempt
              /\ a <= rows[r].attempt =>
                   evidence[r][a].outcome \in {"retried", "lease_lost"}
          BY <1>5, <2>1
        <4>2. a \in Int /\ rows[r].attempt \in Int
          BY <1>0 DEF Attempts
        <4>3. CASE a = b
          BY <3>1, <4>2, <4>3
        <4>4. CASE a # b
          <5>1. evidence'[r][a] = evidence[r][a]
            BY <2>4, <4>4
          <5>. QED  BY <4>1, <4>2, <4>4, <5>1
        <4>. QED  BY <4>3, <4>4
      <3>. QED  BY <2>1, <3>1, <3>2 DEF LedgerOf, Requeued, BudgetOf
    <2>. QED  BY <1>3, <1>5, <2>1, <2>4, <2>5
  <1>8. ASSUME NEW r \in RunIds, Ended(r)
        PROVE  Ledger'
    <2>. DEFINE b == rows[r].attempt
    <2>1. PICK oc \in Recorded, code \in Codes :
            EndsAs(r, oc) /\ Record(r, b, oc, code)
      BY <1>8 DEF Ended
    <2>2. Running(r) /\ Others(r) /\ rows'[r].attempt = b /\ b \in Attempts
      BY <1>0, <1>8 DEF Ended, Attempts
    <2>3. LedgerOf(r)
      BY DEF Ledger
    <2>4. evidence[r][b] = NoEvidence
      BY <2>2, <2>3 DEF LedgerOf
    <2>5. /\ \A q \in RunIds \ {r} : evidence'[q] = evidence[q]
          /\ \A a \in Attempts \ {b} : evidence'[r][a] = evidence[r][a]
          /\ evidence'[r][b] = [outcome |-> oc, code |-> code]
      BY <1>0, <2>1, <2>2, <2>4, RecordEffect
    <2>6. /\ oc # "none" /\ rows'[r].status # "running"
          /\ rows'[r].status = "succeeded" => oc = "succeeded"
          /\ rows'[r].status = "failed" => \/ oc = "failed"
                                           \/ oc \in {"exhausted", "lease_lost"} /\ b >= MaxAttempts
          /\ rows'[r].status = "retryable" => oc \in {"retried", "lease_lost"} /\ b < MaxAttempts
          /\ rows'[r].status # "requested"
      BY <2>1 DEF EndsAs
    <2>7. LedgerOf(r)'
      <3>1. ASSUME NEW a \in Attempts
            PROVE  /\ evidence'[r][a] = NoEvidence <=> a > rows'[r].attempt
                   /\ a < rows'[r].attempt => evidence'[r][a].outcome \in {"retried", "lease_lost"}
        BY <1>0, <2>2, <2>3, <2>5, <2>6 DEF LedgerOf, Attempts
      <3>2. ~Running(r)'
        BY <2>6 DEF Running
      <3>. QED  BY <2>2, <2>5, <2>6, <3>1, <3>2 DEF LedgerOf
    <2>8. Requeued(r)' /\ BudgetOf(r)'
      <3>1. b \in Nat /\ b > 0 /\ b <= MaxAttempts
        BY <1>0, <2>2 DEF Attempts
      <3>2. evidence'[r][b].outcome = oc
        BY <2>5
      <3>3. rows'[r].status = "failed" => b = MaxAttempts \/ oc = "failed"
        <4>1. MaxAttempts \in Nat
          BY QueueAssumption
        <4>2. b >= MaxAttempts => b = MaxAttempts
          BY <3>1, <4>1
        <4>. QED  BY <2>6, <4>2
      <3>. QED  BY <2>2, <2>6, <3>1, <3>2, <3>3 DEF Requeued, BudgetOf
    <2>. QED  BY <1>3, <2>2, <2>5, <2>7, <2>8
  <1>. QED  BY <1>2, <1>4, <1>6, <1>7, <1>8, Shapes

-----------------------------------------------------------------------------
(* What a row asks for, and what a row at rest looks like.                 *)

\* The columns an INSERT fixes stay as they are, no row comes back to
\* "requested", and no row disappears.
SameRequest(r) ==
  /\ rows'[r].trigger = rows[r].trigger /\ rows'[r].week = rows[r].week
  /\ rows'[r].forced = rows[r].forced
  /\ rows'[r].status = "requested" => rows[r].status = "requested"
  /\ rows'[r].status = "absent" <=> rows[r].status = "absent"

\* Only a running row has a lease, and a terminal one waits for nothing: time
\* has nothing left to count down.
AtRest(r) == /\ rows[r].status # "running" => rows[r].lease = 0
             /\ rows[r].status \in Terminal => rows[r].wait = 0

Rest == \A r \in RunIds : AtRest(r)

Final(r) == rows[r].status \in Terminal => rows'[r] = rows[r]

\* What every step but an INSERT does to a row.
Steady(r) == SameRequest(r) /\ Final(r) /\ AtRest(r)'

\* An INSERT touches one absent row and fixes what it asks for; a manual one got
\* past the partial unique index.
Filed(r, trigger, week, forced) ==
  /\ Fresh(r) /\ Others(r) /\ rows'[r].status = "requested" /\ AtRest(r)'
  /\ trigger = "manual" => ~Conflicts(week, forced)
  /\ rows'[r].trigger = trigger /\ rows'[r].week = week /\ rows'[r].forced = forced

\* An edit of one row that is neither absent nor terminal leaves every row steady
\* when it leaves that row kept and at rest.
LEMMA OneSteady ==
  ASSUME rows \in [RunIds -> Row], Rest, NEW r \in RunIds, NEW y,
         rows' = [rows EXCEPT ![r] = y],
         rows[r].status \in {"requested", "retryable", "running"},
         y.status \in {"running", "retryable"} \cup Terminal,
         y.trigger = rows[r].trigger, y.week = rows[r].week, y.forced = rows[r].forced,
         y.status # "running" => y.lease = 0,
         y.status \in Terminal => y.wait = 0
  PROVE  \A s \in RunIds : Steady(s)
  <1>1. rows'[r] = y /\ \A s \in RunIds \ {r} : rows'[s] = rows[s]
    OBVIOUS
  <1>2. Steady(r)
    BY <1>1 DEF Steady, SameRequest, Final, AtRest, Terminal
  <1>3. ASSUME NEW s \in RunIds \ {r}
        PROVE  Steady(s)
    BY <1>1 DEF Steady, SameRequest, Final, AtRest, Rest
  <1>. QED  BY <1>2, <1>3

\* A table that nobody edits is steady.
LEMMA SameSteady ==
  ASSUME Rest, UNCHANGED rows
  PROVE  \A s \in RunIds : Steady(s)
  BY DEF Steady, SameRequest, Final, AtRest, Rest

\* An INSERT files exactly what it was given.
LEMMA InsertFiles ==
  ASSUME rows \in [RunIds -> Row], NEW r \in RunIds, Fresh(r),
         NEW trigger \in {"scheduled", "manual", "cli"}, NEW s \in 0..MaxSlot,
         NEW week \in 0..MaxWeek, NEW forced \in BOOLEAN,
         trigger = "manual" => ~Conflicts(week, forced),
         Insert(r, trigger, s, week, forced)
  PROVE  Filed(r, trigger, week, forced)
  <1>. DEFINE y == [Absent EXCEPT !.status = "requested", !.trigger = trigger, !.slot = s,
                                  !.week = week, !.forced = forced]
  <1>1. /\ y.status = "requested" /\ y.trigger = trigger /\ y.week = week
        /\ y.forced = forced /\ y.lease = 0
    BY DEF Absent
  <1>2. rows' = [rows EXCEPT ![r] = y]
    BY DEF Insert
  <1>. HIDE DEF y
  <1>3. rows'[r] = y /\ Others(r)
    BY <1>2 DEF Others
  <1>. QED  BY <1>1, <1>3 DEF Filed, AtRest, Terminal

\* Leaving "running" clears the lease, and the wait of a terminal row.
LEMMA LeaveSteady ==
  ASSUME rows \in [RunIds -> Row], Rest, NEW r \in RunIds, rows[r].status = "running",
         NEW status \in {"retryable"} \cup Terminal, NEW wait \in Nat,
         status \in Terminal => wait = 0, Leave(r, status, wait)
  PROVE  \A s \in RunIds : Steady(s)
  <1>. DEFINE y == [rows[r] EXCEPT !.status = status, !.wait = wait, !.token = 0, !.lease = 0]
  <1>1. /\ y.status = status /\ y.wait = wait /\ y.lease = 0 /\ y.trigger = rows[r].trigger
        /\ y.week = rows[r].week /\ y.forced = rows[r].forced
    BY DEF Row
  <1>2. rows' = [rows EXCEPT ![r] = y]
    BY DEF Leave
  <1>. HIDE DEF y
  <1>. QED  BY <1>1, <1>2, OneSteady

\* Both ways back to the queue leave "running".
LEMMA BackToQueueSteady ==
  ASSUME rows \in [RunIds -> Row], Rest, NEW r \in RunIds, rows[r].status = "running",
         NEW a \in Nat, a > 0, BackToQueue(r, a)
  PROVE  \A s \in RunIds : Steady(s)
  <1>1. BackoffAfter(a) \in Nat
    BY BackoffNat
  <1>2. Leave(r, "failed", 0) \/ Leave(r, "retryable", BackoffAfter(a))
    BY DEF BackToQueue
  <1>. QED  BY <1>1, <1>2, LeaveSteady DEF Terminal

\* A tick counts nothing down in a row at rest.
LEMMA TickSteady ==
  ASSUME rows \in [RunIds -> Row], Rest, Tick
  PROVE  \A s \in RunIds : Steady(s)
  <1>1. ASSUME NEW s \in RunIds
        PROVE  Steady(s)
    <2>. DEFINE x == rows[s]
                y == [x EXCEPT !.lease = Less(@), !.wait = Less(@)]
    <2>1. rows'[s] = y
      BY DEF Tick
    <2>2. x \in Row
      OBVIOUS
    <2>3. /\ y.status = x.status /\ y.trigger = x.trigger /\ y.week = x.week
          /\ y.forced = x.forced /\ y.lease = Less(x.lease) /\ y.wait = Less(x.wait)
      BY <2>2 DEF Row
    <2>4. x.lease = 0 /\ x.wait = 0 => y = x
      BY <2>2 DEF Row, Less
    <2>. HIDE DEF y
    <2>5. Terminal \cap {"running"} = {}
      BY DEF Terminal
    <2>. QED  BY <2>1, <2>3, <2>4, <2>5 DEF Steady, SameRequest, Final, AtRest, Rest, Less
  <1>. QED  BY <1>1

\* Every step keeps every row steady or files one.
LEMMA RowShapes ==
  ASSUME TypeOK, Ownership, Rest, [Next]_vars
  PROVE  \/ \A s \in RunIds : Steady(s)
         \/ \E r \in RunIds, trigger \in {"scheduled", "manual", "cli"},
               week \in 0..MaxWeek, forced \in BOOLEAN : Filed(r, trigger, week, forced)
  <1>. DEFINE Goal == \/ \A s \in RunIds : Steady(s)
                      \/ \E r \in RunIds, trigger \in {"scheduled", "manual", "cli"},
                            week \in 0..MaxWeek, forced \in BOOLEAN :
                              Filed(r, trigger, week, forced)
  <1>0. rows \in [RunIds -> Row] /\ issued \in Nat
    BY DEF TypeOK
  <1>1. ASSUME UNCHANGED rows
        PROVE  Goal
    BY <1>1, SameSteady
  <1>2. ASSUME NEW r \in RunIds, NEW trigger \in {"scheduled", "manual", "cli"},
               NEW s \in 0..MaxSlot, NEW week \in 0..MaxWeek, NEW forced \in BOOLEAN,
               Fresh(r), Insert(r, trigger, s, week, forced),
               trigger = "manual" => ~Conflicts(week, forced)
        PROVE  Goal
    BY <1>0, <1>2, InsertFiles
  <1>3. 0 \in 0..MaxSlot /\ 0 \in 0..MaxWeek
    BY QueueAssumption
  <1>4. ASSUME NEW c \in Clients, NEW week \in 0..MaxWeek, NEW forced \in BOOLEAN,
               InsertManual(c, week, forced)
        PROVE  Goal
    <2>1. PICK r \in RunIds : /\ Fresh(r) /\ Insert(r, "manual", 0, week, forced)
                              /\ ~Conflicts(week, forced)
      BY <1>4 DEF InsertManual
    <2>. HIDE DEF Goal
    <2>. QED  BY <1>2, <1>3, <2>1
  <1>5. ASSUME NEW r \in RunIds, NEW week \in 0..MaxWeek, EnqueueCli(r, week)
        PROVE  Goal
    <2>1. Fresh(r) /\ Insert(r, "cli", 0, week, FALSE)
      BY <1>5 DEF EnqueueCli
    <2>. HIDE DEF Goal
    <2>. QED  BY <1>2, <1>3, <2>1
  <1>6. ASSUME NEW w \in Workers, EnqueueScheduled(w)
        PROVE  Goal
    <2>1. CASE UNCHANGED rows
      BY <1>1, <2>1
    <2>2. ASSUME NEW r \in RunIds, Fresh(r), Insert(r, "scheduled", disp[w], 0, FALSE)
          PROVE  Goal
      <3>1. disp[w] \in 0..MaxSlot
        BY DEF TypeOK
      <3>. HIDE DEF Goal
      <3>. QED  BY <1>2, <1>3, <2>2, <3>1
    <2>. QED  BY <1>6, <2>1, <2>2 DEF EnqueueScheduled
  <1>7. ASSUME NEW w \in Workers, NEW r \in RunIds, Claim(w, r)
        PROVE  Goal
    <2>. DEFINE y == [rows[r] EXCEPT !.status = "running", !.attempt = rows[r].attempt + 1,
                                     !.token = NewToken(r), !.lease = Lease, !.wait = 0]
    <2>1. rows' = [rows EXCEPT ![r] = y] /\ rows[r].status \in {"requested", "retryable"}
      BY <1>7 DEF Claim, NextRun, Eligible
    <2>2. /\ y.status = "running" /\ y.trigger = rows[r].trigger /\ y.week = rows[r].week
          /\ y.forced = rows[r].forced
      BY <1>0 DEF Row
    <2>. HIDE DEF y
    <2>. QED  BY <1>0, <2>1, <2>2, OneSteady DEF Terminal
  <1>8. ASSUME NEW w \in Workers, NEW r \in RunIds, ClaimFrozen(w, r)
        PROVE  Goal
    <2>. DEFINE y == [rows[r] EXCEPT !.status = "failed", !.attempt = rows[r].attempt + 1,
                                     !.wait = 0]
    <2>1. rows' = [rows EXCEPT ![r] = y] /\ rows[r].status \in {"requested", "retryable"}
      BY <1>8 DEF ClaimFrozen, NextRun, Eligible
    <2>2. /\ y.status = "failed" /\ y.trigger = rows[r].trigger /\ y.week = rows[r].week
          /\ y.forced = rows[r].forced /\ y.lease = rows[r].lease /\ y.wait = 0
      BY <1>0 DEF Row
    <2>3. rows[r].lease = 0
      BY <2>1 DEF Rest, AtRest
    <2>. HIDE DEF y
    <2>. QED  BY <1>0, <2>1, <2>2, <2>3, OneSteady DEF Terminal
  <1>9. ASSUME NEW w \in Workers, FirstHeartbeat(w) \/ Renew(w) \/ ConfirmOwnership(w)
        PROVE  Goal
    <2>. DEFINE r == claim[w].run
                y == [rows[r] EXCEPT !.lease = Lease]
    <2>1. \/ UNCHANGED rows
          \/ r \in RunIds /\ rows[r].status = "running" /\ rows' = [rows EXCEPT ![r] = y]
      BY <1>0, <1>9 DEF FirstHeartbeat, Renew, ConfirmOwnership, Owns, Heartbeat
    <2>2. ASSUME r \in RunIds
          PROVE  /\ y.status = rows[r].status /\ y.trigger = rows[r].trigger
                 /\ y.week = rows[r].week /\ y.forced = rows[r].forced
      BY <1>0, <2>2 DEF Row
    <2>. HIDE DEF y
    <2>. QED  BY <1>0, <1>1, <2>1, <2>2, OneSteady DEF Terminal
  <1>10. ASSUME NEW w \in Workers, BeginStage(w)
        PROVE  Goal
    <2>. DEFINE r == claim[w].run
                y == [rows[r] EXCEPT !.stage = stage[w], !.stageToken = claim[w].token]
    <2>1. \/ UNCHANGED rows
          \/ r \in RunIds /\ rows[r].status = "running" /\ rows' = [rows EXCEPT ![r] = y]
      BY <1>0, <1>10 DEF BeginStage, Owns
    <2>2. ASSUME r \in RunIds
          PROVE  /\ y.status = rows[r].status /\ y.trigger = rows[r].trigger
                 /\ y.week = rows[r].week /\ y.forced = rows[r].forced
      BY <1>0, <2>2 DEF Row
    <2>. HIDE DEF y
    <2>. QED  BY <1>0, <1>1, <2>1, <2>2, OneSteady DEF Terminal
  <1>11. ASSUME NEW w \in Workers, Finalize(w)
         PROVE  Goal
    <2>. DEFINE r == claim[w].run
                a == claim[w].attempt
    <2>1. CASE outcome[w] # "lease_lost" /\ Owns(w)
      <3>1. r \in RunIds /\ a = rows[r].attempt /\ a > 0 /\ rows[r].status = "running"
        BY <2>1 DEF Owns, Ownership, ClaimTokens, RowTokens, Running
      <3>2. a \in Nat
        BY DEF TypeOK
      <3>3. \/ Leave(r, "succeeded", 0) \/ Leave(r, "failed", 0) \/ BackToQueue(r, a)
        BY <1>11, <2>1 DEF Finalize
      <3>. QED  BY <1>0, <3>1, <3>2, <3>3, LeaveSteady, BackToQueueSteady DEF Terminal
    <2>2. CASE ~(outcome[w] # "lease_lost" /\ Owns(w))
      BY <1>1, <1>11, <2>2 DEF Finalize
    <2>. QED  BY <2>1, <2>2
  <1>12. ASSUME NEW w \in Workers, Sweep(w)
         PROVE  Goal
    <2>1. ASSUME NEW r \in RunIds, Stale(r), BackToQueue(r, rows[r].attempt)
          PROVE  Goal
      <3>1. rows[r].status = "running" /\ rows[r].attempt > 0
        BY <2>1 DEF Stale, Ownership, RowTokens, Running
      <3>2. rows[r].attempt \in Nat
        BY <1>0, QueueAssumption DEF Row
      <3>. QED  BY <1>0, <2>1, <3>1, <3>2, BackToQueueSteady
    <2>. QED  BY <1>1, <1>12, <2>1 DEF Sweep
  <1>13. ASSUME NEW w \in Workers,
                \/ AcquireLock(w) \/ Publish(w) \/ CompleteStage(w)
                \/ \E oc \in {"retryable", "failed"} : ExecutorFails(w, oc)
                \/ Abandon(w) \/ RenewError(w) \/ Die(w) \/ Restart(w) \/ DispatchError(w)
         PROVE  Goal
    BY <1>1, <1>13 DEF AcquireLock, Publish, CompleteStage, ExecutorFails, Abandon,
       RenewError, Die, Restart, DispatchError, db
  <1>14. ASSUME NEW c \in Clients, NEW week \in 0..MaxWeek,
                RejectManual(c, week) \/ ConflictManual(c, week)
         PROVE  Goal
    BY <1>1, <1>14 DEF RejectManual, ConflictManual, db
  <1>15. ASSUME NEW c \in Clients, SelectPending(c)
         PROVE  Goal
    BY <1>1, <1>15 DEF SelectPending, db
  <1>16. ASSUME Tick
         PROVE  Goal
    BY <1>0, <1>16, TickSteady
  <1>17. ASSUME Reset \/ NextSlot \/ LoseLock \/ UNCHANGED vars
         PROVE  Goal
    BY <1>1, <1>17 DEF Reset, NextSlot, LoseLock, vars, db
  <1>. HIDE DEF Goal
  <1>18. Goal
    BY <1>4, <1>5, <1>6, <1>7, <1>8, <1>9, <1>10, <1>11, <1>12, <1>13, <1>14, <1>15, <1>16, <1>17
       DEF Next, Request, Worker, Crash, Watchdog
  <1>. QED  BY <1>18 DEF Goal

\* A row at rest stays at rest.
LEMMA RestStep ==
  ASSUME TypeOK, Ownership, Rest, [Next]_vars
  PROVE  Rest'
  <1>1. ASSUME NEW r \in RunIds, Others(r), AtRest(r)'
        PROVE  Rest'
    BY <1>1 DEF Rest, AtRest, Others
  <1>. QED  BY <1>1, RowShapes DEF Rest, Steady, Filed

\* A terminal run keeps its row, its evidence and its output in every step.
LEMMA FinalStep ==
  ASSUME TypeOK, Ownership, Rest, [Next]_vars, NEW r \in RunIds, rows[r].status \in Terminal
  PROVE  rows'[r] = rows[r] /\ evidence'[r] = evidence[r] /\ pub'[r] = pub[r]
  <1>0. /\ evidence \in [RunIds -> [Attempts -> [outcome: Recorded, code: Codes]]]
        /\ pub \in [RunIds -> Nat]
        /\ \A q \in RunIds : rows[q].attempt \in 0..MaxAttempts
        /\ \A q \in RunIds : Running(q) => rows[q].attempt > 0
        /\ rows[r].status \notin {"absent", "requested", "retryable", "running"}
    BY DEF TypeOK, Row, Ownership, RowTokens, Terminal
  <1>1. rows'[r] = rows[r]
    <2>1. ASSUME NEW q \in RunIds, Fresh(q), Others(q)
          PROVE  rows'[r] = rows[r]
      BY <1>0, <2>1 DEF Fresh, Others
    <2>. QED  BY <2>1, RowShapes DEF Steady, Final, Filed
  <1>2. evidence'[r] = evidence[r]
    <2>1. ASSUME NEW q \in RunIds, NEW a \in Attempts, NEW oc \in Recorded, NEW code \in Codes,
                 q # r, Record(q, a, oc, code)
          PROVE  evidence'[r] = evidence[r]
      <3>1. evidence \in [RunIds -> [Attempts -> [outcome: Recorded, code: Codes]]]
        BY <1>0
      <3>. QED  BY <2>1, <3>1 DEF Record
    <2>2. ASSUME NEW q \in RunIds, Refused(q)
          PROVE  evidence'[r] = evidence[r]
      BY <1>0, <2>1, <2>2 DEF Refused, Startable, Recorded, Codes
    <2>3. ASSUME NEW q \in RunIds, Ended(q)
          PROVE  evidence'[r] = evidence[r]
      <3>1. q # r /\ rows[q].attempt \in Attempts
        BY <1>0, <2>3, QueueAssumption DEF Ended, Running, Attempts
      <3>. QED  BY <2>1, <2>3, <3>1 DEF Ended
    <2>. QED  BY <2>2, <2>3, Shapes DEF Untouched, Submitted, Started
  <1>3. pub'[r] = pub[r]
    BY <1>0, PublishShape DEF PublishedBy, Owns
  <1>. QED  BY <1>1, <1>2, <1>3

-----------------------------------------------------------------------------
(* Coalescing: what enqueue_manual promises its callers.                   *)

AtMostOnePending ==
  \A r, s \in RunIds : \A week \in 0..MaxWeek :
    r \in PendingManual(week) /\ s \in PendingManual(week) => r = s

\* An accepted call holds the id of a row that exists and asks for its week.
Answered(c) ==
  api[c].pc = "accepted" =>
    /\ api[c].run \in RunIds /\ rows[api[c].run].status # "absent"
    /\ rows[api[c].run].trigger = "manual" /\ rows[api[c].run].week = api[c].week

Coalescing == AtMostOnePending /\ \A c \in Clients : Answered(c)

\* A pending manual row was pending before, or was filed by this step.
LEMMA PendingBefore ==
  ASSUME TypeOK, Ownership, Rest, [Next]_vars, NEW s \in RunIds, NEW week \in 0..MaxWeek,
         s \in PendingManual(week)'
  PROVE  \/ s \in PendingManual(week)
         \/ Filed(s, "manual", week, FALSE)
  <1>0. rows[s].forced \in BOOLEAN
    BY DEF TypeOK, Row
  <1>1. /\ rows'[s].status = "requested" /\ rows'[s].trigger = "manual"
        /\ ~rows'[s].forced /\ rows'[s].week = week
    BY DEF PendingManual
  <1>2. CASE Steady(s)
    BY <1>1, <1>2 DEF Steady, SameRequest, PendingManual
  <1>3. ASSUME NEW r \in RunIds, NEW trigger \in {"scheduled", "manual", "cli"},
               NEW wk \in 0..MaxWeek, NEW forced \in BOOLEAN, Filed(r, trigger, wk, forced)
        PROVE  \/ s \in PendingManual(week)
               \/ Filed(s, "manual", week, FALSE)
    <2>1. CASE r # s
      BY <1>1, <1>3, <2>1 DEF Filed, Others, PendingManual
    <2>2. CASE r = s
      <3>1. trigger = "manual" /\ wk = week /\ forced = FALSE
        BY <1>1, <1>3, <2>2 DEF Filed
      <3>. QED  BY <1>3, <2>2, <3>1
    <2>. QED  BY <2>1, <2>2
  <1>. QED  BY <1>2, <1>3, RowShapes

\* uq_pipeline_runs_pending_manual does its work: one pending row per week.
LEMMA AtMostOnePendingStep ==
  ASSUME TypeOK, Ownership, Rest, AtMostOnePending, [Next]_vars
  PROVE  AtMostOnePending'
  <1>1. SUFFICES ASSUME NEW r \in RunIds, NEW s \in RunIds, NEW week \in 0..MaxWeek,
                        r \in PendingManual(week)', s \in PendingManual(week)'
                 PROVE  r = s
    BY DEF AtMostOnePending
  <1>2. ASSUME NEW q \in RunIds, Filed(q, "manual", week, FALSE)
        PROVE  PendingManual(week) = {}
    BY <1>2 DEF Filed, Conflicts
  <1>3. ASSUME Filed(r, "manual", week, FALSE), Filed(s, "manual", week, FALSE)
        PROVE  r = s
    BY <1>3 DEF Filed, Fresh, Others
  <1>4. /\ r \in PendingManual(week) \/ Filed(r, "manual", week, FALSE)
        /\ s \in PendingManual(week) \/ Filed(s, "manual", week, FALSE)
    BY <1>1, PendingBefore
  <1>. QED  BY <1>2, <1>3, <1>4 DEF AtMostOnePending

\* An answer once given stays true: its row is never re-used for another week.
LEMMA AnsweredStep ==
  ASSUME TypeOK, Ownership, Rest, [Next]_vars, NEW c \in Clients, Answered(c),
         api'[c] = api[c]
  PROVE  Answered(c)'
  <1>1. ASSUME NEW r \in RunIds, Steady(r), rows[r].status # "absent"
        PROVE  /\ rows'[r].status # "absent" /\ rows'[r].trigger = rows[r].trigger
               /\ rows'[r].week = rows[r].week
    BY <1>1 DEF Steady, SameRequest
  <1>2. ASSUME NEW r \in RunIds, NEW q \in RunIds, rows[r].status # "absent",
               Fresh(q), Others(q)
        PROVE  rows'[r] = rows[r]
    BY <1>2 DEF Fresh, Others
  <1>3. \/ \A s \in RunIds : Steady(s)
        \/ \E q \in RunIds : Fresh(q) /\ Others(q)
    BY RowShapes DEF Filed
  <1>. QED  BY <1>1, <1>2, <1>3 DEF Answered

\* Every answer enqueue_manual gives is the row it inserted or the pending row it
\* found.
LEMMA CoalescingStep ==
  ASSUME TypeOK, Ownership, Rest, Coalescing, [Next]_vars
  PROVE  Coalescing'
  <1>. DEFINE Goal == \A c \in Clients : Answered(c)'
  <1>0. /\ api \in [Clients -> [pc: {"ready", "select", "accepted", "rejected", "error"},
                                week: 0..MaxWeek, run: RunIds \cup {0}]]
        /\ rows \in [RunIds -> Row] /\ 0 \in 0..MaxSlot
    BY QueueAssumption DEF TypeOK
  <1>1. ASSUME NEW c \in Clients, \A d \in Clients \ {c} : api'[d] = api[d], Answered(c)'
        PROVE  Goal
    BY <1>1, AnsweredStep DEF Coalescing
  <1>2. ASSUME UNCHANGED api
        PROVE  Goal
    BY <1>2, AnsweredStep DEF Coalescing
  <1>. HIDE DEF Goal
  <1>3. ASSUME NEW c \in Clients, NEW week \in 0..MaxWeek,
               RejectManual(c, week) \/ ConflictManual(c, week)
        PROVE  Goal
    <2>1. PICK p \in {"rejected", "select"} :
            api' = [api EXCEPT ![c] = [pc |-> p, week |-> week, run |-> 0]]
      BY <1>3 DEF RejectManual, ConflictManual
    <2>2. api'[c].pc = p /\ \A d \in Clients \ {c} : api'[d] = api[d]
      BY <1>0, <2>1
    <2>. QED  BY <1>1, <2>2 DEF Answered
  <1>4. ASSUME NEW c \in Clients, NEW week \in 0..MaxWeek, NEW forced \in BOOLEAN,
               InsertManual(c, week, forced)
        PROVE  Goal
    <2>1. PICK r \in RunIds :
            /\ Fresh(r) /\ Insert(r, "manual", 0, week, forced) /\ ~Conflicts(week, forced)
            /\ api' = [api EXCEPT ![c] = [pc |-> "accepted", week |-> week, run |-> r]]
      BY <1>4 DEF InsertManual
    <2>2. Filed(r, "manual", week, forced)
      BY <1>0, <2>1, InsertFiles
    <2>3. /\ api'[c].run = r /\ api'[c].week = week
          /\ \A d \in Clients \ {c} : api'[d] = api[d]
      BY <1>0, <2>1
    <2>. QED  BY <1>1, <2>2, <2>3 DEF Answered, Filed
  <1>5. ASSUME NEW c \in Clients, SelectPending(c)
        PROVE  Goal
    <2>1. UNCHANGED rows /\ \A d \in Clients \ {c} : api'[d] = api[d]
      BY <1>0, <1>5 DEF SelectPending, db
    <2>2. ASSUME NEW r \in PendingManual(api[c].week),
                 api' = [api EXCEPT ![c] = [@ EXCEPT !.pc = "accepted", !.run = r]]
          PROVE  Answered(c)'
      <3>1. api'[c].run = r /\ api'[c].week = api[c].week
        BY <1>0, <2>2
      <3>. QED  BY <2>1, <2>2, <3>1 DEF Answered, PendingManual
    <2>3. ASSUME api' = [api EXCEPT ![c].pc = "error"]
          PROVE  Answered(c)'
      <3>1. api'[c].pc = "error"
        BY <1>0, <2>3
      <3>. QED  BY <3>1 DEF Answered
    <2>. QED  BY <1>1, <1>5, <2>1, <2>2, <2>3 DEF SelectPending
  <1>6. ASSUME NEW r \in RunIds, NEW week \in 0..MaxWeek, EnqueueCli(r, week)
        PROVE  Goal
    BY <1>2, <1>6 DEF EnqueueCli, outside
  <1>7. ASSUME NEW w \in Workers, Worker(w)
        PROVE  Goal
    BY <1>2, <1>7 DEF Worker, Claim, ClaimFrozen, AcquireLock, FirstHeartbeat, BeginStage,
       Publish, CompleteStage, ConfirmOwnership, ExecutorFails, Finalize, Abandon, Renew,
       RenewError, Crash, Watchdog, Die, Restart, Sweep, EnqueueScheduled, DispatchError, outside
  <1>8. ASSUME Reset \/ NextSlot \/ LoseLock \/ Tick \/ UNCHANGED vars
        PROVE  Goal
    BY <1>2, <1>8 DEF Reset, NextSlot, LoseLock, Tick, vars, outside
  <1>9. Goal
    BY <1>3, <1>4, <1>5, <1>6, <1>7, <1>8 DEF Next, Request
  <1>. QED  BY <1>9, AtMostOnePendingStep DEF Goal, Coalescing

-----------------------------------------------------------------------------
(* The results.                                                            *)

IInv == TypeOK /\ Ownership /\ Publication /\ Ledger

\* The invariant holds initially and every step keeps it.
LEMMA Invariance == Spec => []IInv
  <1>1. ASSUME Init
        PROVE  IInv
    <2>1. TypeOK /\ Ownership
      BY <1>1, InitOwnership
    <2>2. Publication
      BY <1>1 DEF Init, Publication, HasPublished, SuccessIsPublished, Absent
    <2>3. Ledger
      BY <1>1, QueueAssumption DEF Init, Ledger, LedgerOf, Requeued, BudgetOf, Absent, Running, Attempts
    <2>. QED  BY <2>1, <2>2, <2>3 DEF IInv
  <1>2. IInv /\ [Next]_vars => IInv'
    BY TypeStep, RowTokensStep, ClaimTokensStep, PublicationStep, LedgerStep
       DEF IInv, Ownership
  <1>. QED  BY <1>1, <1>2, PTL DEF Spec

\* finalize_success never marks a run whose own attempt did not publish.
THEOREM SuccessIsPublishedHolds == Spec => []SuccessIsPublished
  <1>1. IInv => SuccessIsPublished
    BY DEF IInv, Publication
  <1>. QED  BY <1>1, Invariance, PTL

\* Exactly one evidence row per ended attempt, in agreement with the run,
\* although the finalizers and the stale sweep race to write it.
THEOREM AttemptLedgerHolds == Spec => []AttemptLedger
  <1>1. IInv => AttemptLedger
    BY DEF IInv, Ledger, LedgerOf, AttemptLedger
  <1>. QED  BY <1>1, Invariance, PTL

\* A waiting run has an attempt left; a run fails early only for good.
THEOREM RetryBudgetHolds == Spec => []RetryBudget
  <1>1. IInv => RetryBudget
    BY DEF IInv, Ledger, BudgetOf, RetryBudget
  <1>. QED  BY <1>1, Invariance, PTL

\* Publications follow claim order: a superseded worker never publishes over a
\* newer one.
THEOREM PublishedInClaimOrderHolds == Spec => PublishedInClaimOrder
  <1>1. IInv /\ [Next]_vars => [served' >= served]_vars
    BY ServedStep DEF IInv
  <1>. QED  BY <1>1, Invariance, PTL DEF Spec, PublishedInClaimOrder

RequestInv == IInv /\ Rest /\ Coalescing

\* Rows at rest and coalescing strengthen the invariant of the claims.
LEMMA RequestInvariance == Spec => []RequestInv
  <1>1. ASSUME Init
        PROVE  Rest /\ Coalescing
    BY <1>1 DEF Init, Rest, AtRest, Coalescing, AtMostOnePending, PendingManual, Answered,
       Absent, NoCall
  <1>2. RequestInv /\ [Next]_vars => Rest' /\ Coalescing'
    BY RestStep, CoalescingStep DEF RequestInv, IInv
  <1>. QED  BY <1>1, <1>2, Invariance, PTL DEF Spec, RequestInv

\* Concurrent identical requests share one pending row, and every caller is told
\* the id of a manual run of its own week, for as long as the row exists.
THEOREM CoalescedHolds == Spec => []Coalesced
  <1>1. RequestInv => Coalesced
    <2>1. SUFFICES ASSUME RequestInv PROVE Coalesced
      OBVIOUS
    <2>2. ASSUME NEW week \in 0..MaxWeek
          PROVE  Cardinality(PendingManual(week)) <= 1
      <3>1. CASE PendingManual(week) = {}
        <4>1. Cardinality(PendingManual(week)) = 0
          BY <3>1, FS_EmptySet
        <4>. QED  BY <4>1
      <3>2. ASSUME NEW r \in PendingManual(week)
            PROVE  Cardinality(PendingManual(week)) <= 1
        <4>1. PendingManual(week) = {r}
          BY <2>1, <3>2 DEF RequestInv, Coalescing, AtMostOnePending, PendingManual
        <4>2. Cardinality({r}) = 1
          BY FS_Singleton
        <4>. QED  BY <4>1, <4>2
      <3>. QED  BY <3>1, <3>2
    <2>. QED  BY <2>1, <2>2 DEF RequestInv, Coalescing, Answered, Coalesced
  <1>. QED  BY <1>1, RequestInvariance, PTL

\* succeeded and failed runs are final: no finalizer, sweep, claim, publication
\* or clock tick touches their row, their evidence or their output again.
THEOREM TerminalIsFinalHolds == Spec => TerminalIsFinal
  <1>1. RequestInv /\ [Next]_vars =>
          [\A r \in RunIds : rows[r].status \in Terminal =>
             rows'[r] = rows[r] /\ evidence'[r] = evidence[r] /\ pub'[r] = pub[r]]_vars
    BY FinalStep DEF RequestInv, IInv
  <1>. QED  BY <1>1, RequestInvariance, PTL DEF Spec, TerminalIsFinal

-----------------------------------------------------------------------------
(* ReportingQueue implements ReportJobs: the table's five kinds of change  *)
(* and the publication map to the abstract steps, and everything else is a *)
(* stutter.                                                                *)

\* The empty table is the abstract initial state.
LEMMA InitRefines == Init => Jobs!Init
  BY DEF Init, Absent, JobOf, Jobs!Init

\* A step that keeps the status and the attempt of every row and publishes
\* nothing is a stutter.
LEMMA StutterRefines ==
  ASSUME Untouched, UNCHANGED <<served, pub>>
  PROVE  UNCHANGED Jobs!jobVars
  BY DEF Untouched, Same, JobOf, Jobs!jobVars

\* A publication shows the results of the newest try: its token is the newest.
LEMMA PublishRefines ==
  ASSUME TypeOK, Ownership, NEW w \in Workers, PublishedBy(w)
  PROVE  Jobs!Show(claim[w].run)
  <1>1. claim[w].run \in RunIds /\ Running(claim[w].run) /\ served' = issued
    BY DEF PublishedBy, Owns, Ownership, RowTokens, Running
  <1>2. issued' = issued /\ \A s \in RunIds : rows'[s] = rows[s]
    BY DEF PublishedBy
  <1>. QED  BY <1>1, <1>2 DEF Jobs!Show, JobOf, Running

\* An INSERT submits a job.
LEMMA SubmitRefines ==
  ASSUME TypeOK, Ownership, NEW r \in RunIds, Submitted(r)
  PROVE  Jobs!Submit(r)
  <1>1. rows[r].attempt = 0
    BY DEF Submitted, Ownership, RowTokens
  <1>2. /\ rows[r].status = "absent" /\ rows'[r].status = "requested" /\ rows'[r].attempt = 0
        /\ \A s \in RunIds \ {r} : rows'[s] = rows[s]
        /\ UNCHANGED <<issued, served>>
    BY DEF Submitted, Others
  <1>. QED  BY <1>1, <1>2 DEF Jobs!Submit, JobOf

\* A claim starts a try; the claim of a frozen week starts one that fails.
LEMMA StartRefines ==
  ASSUME TypeOK, NEW r \in RunIds, Started(r) \/ Refused(r)
  PROVE  Jobs!Start(r)
  <1>1. /\ NoneRunning /\ rows[r].status \in {"requested", "retryable"}
        /\ rows[r].attempt + 1 \in Attempts /\ rows'[r].attempt = rows[r].attempt + 1
        /\ issued' = issued + 1 /\ UNCHANGED served
        /\ rows'[r].status \in {"running", "failed"}
        /\ \A s \in RunIds \ {r} : rows'[s] = rows[s]
    BY DEF Started, Refused, Startable, Others
  <1>2. rows[r].attempt \in Int /\ MaxAttempts \in Int
    BY QueueAssumption DEF TypeOK, Row
  <1>3. rows[r].attempt < MaxAttempts
    BY <1>1, <1>2 DEF Attempts
  <1>4. \A s \in RunIds : JobOf(rows[s].status) # "active"
    BY <1>1 DEF NoneRunning, JobOf, TypeOK, Row, Statuses, Terminal
  <1>5. JobOf(rows[r].status) = "pending"
    BY <1>1 DEF JobOf
  <1>6. \E next \in {"active", "failed"} :
          [s \in RunIds |-> JobOf(rows'[s].status)] =
            [[s \in RunIds |-> JobOf(rows[s].status)] EXCEPT ![r] = next]
    BY <1>1 DEF JobOf
  <1>7. [s \in RunIds |-> rows'[s].attempt] =
          [[s \in RunIds |-> rows[s].attempt] EXCEPT ![r] = @ + 1]
    BY <1>1
  <1>. QED  BY <1>1, <1>3, <1>4, <1>5, <1>6, <1>7 DEF Jobs!Start

\* An attempt that ends succeeds while its own results are on show, or gives up.
LEMMA EndRefines ==
  ASSUME TypeOK, Ownership, Publication, NEW r \in RunIds, Ended(r)
  PROVE  Jobs!Succeed(r) \/ Jobs!GiveUp(r)
  <1>1. /\ Running(r) /\ rows'[r].attempt = rows[r].attempt
        /\ \A s \in RunIds \ {r} : rows'[s] = rows[s]
        /\ UNCHANGED <<issued, served>>
    BY DEF Ended, Others
  <1>2. \/ /\ rows'[r].status = "succeeded"
           /\ \E w \in Workers : Owns(w) /\ claim[w].run = r /\ HasPublished(w)
        \/ rows'[r].status = "failed"
        \/ rows'[r].status = "retryable" /\ rows[r].attempt < MaxAttempts
    BY DEF Ended, EndsAs
  <1>3. ASSUME NEW w \in Workers, Owns(w), HasPublished(w)
        PROVE  served = issued
    BY <1>3 DEF Publication, Owns, Ownership, RowTokens, Running
  <1>4. JobOf(rows[r].status) = "active"
    BY <1>1 DEF JobOf, Running
  <1>5. /\ [s \in RunIds |-> rows'[s].attempt] = [s \in RunIds |-> rows[s].attempt]
        /\ [s \in RunIds |-> JobOf(rows'[s].status)] =
             [[s \in RunIds |-> JobOf(rows[s].status)] EXCEPT ![r] = JobOf(rows'[r].status)]
    BY <1>1
  <1>6. CASE rows'[r].status = "succeeded"
    BY <1>1, <1>2, <1>3, <1>4, <1>5, <1>6 DEF Jobs!Succeed, JobOf
  <1>7. CASE rows'[r].status = "failed"
    BY <1>1, <1>4, <1>5, <1>7 DEF Jobs!GiveUp, JobOf
  <1>8. CASE rows'[r].status = "retryable" /\ rows[r].attempt < MaxAttempts
    BY <1>1, <1>4, <1>5, <1>8 DEF Jobs!GiveUp, JobOf
  <1>. QED  BY <1>2, <1>6, <1>7, <1>8

\* The whole queue - claims, leases, sweeps, crashes, lost locks, coalesced and
\* frozen requests - implements the bounded-retry job board of ReportJobs.
THEOREM QueueImplementsJobs == Spec => ImplementsJobs
  <1>1. ASSUME IInv, [Next]_vars
        PROVE  [Jobs!Next]_(Jobs!jobVars)
    <2>0. TypeOK /\ Ownership /\ Publication
      BY <1>1 DEF IInv
    <2>1. ASSUME NEW r \in RunIds, Submitted(r) \/ Started(r) \/ Refused(r) \/ Ended(r)
          PROVE  Jobs!Next
      BY <2>0, <2>1, SubmitRefines, StartRefines, EndRefines DEF Jobs!Next
    <2>2. ASSUME NEW w \in Workers, PublishedBy(w)
          PROVE  Jobs!Next
      <3>1. claim[w].run \in RunIds
        BY <2>2 DEF PublishedBy, Owns
      <3>. QED  BY <2>0, <2>2, <3>1, PublishRefines DEF Jobs!Next
    <2>3. CASE Untouched
      BY <1>1, <2>2, <2>3, StutterRefines, PublishShape
    <2>. QED  BY <1>1, <2>0, <2>1, <2>3, Shapes
  <1>2. IInv /\ [Next]_vars => [Jobs!Next]_(Jobs!jobVars)
    BY <1>1
  <1>. QED  BY <1>2, InitRefines, Invariance, PTL DEF Spec, ImplementsJobs, Jobs!Spec
=============================================================================
