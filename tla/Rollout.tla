------------------------------- MODULE Rollout -------------------------------
(* A production rollout: the migration, the release through Coolify, the     *)
(* verification of what runs, and the restoration of the previous image.     *)
(*                                                                           *)
(* The workflow runs one job at a time and a job may be cut off anywhere.    *)
(* Coolify is external: it runs its deployments one after the other, each    *)
(* takes the image tag when it starts, and a request to it may have been     *)
(* served although its answer is lost.                                       *)
EXTENDS Integers, Sequences

CONSTANTS
  Images,         \* naturals in release order; an image's schema head is its number
  MaxJobs,        \* bound: jobs of the workflow
  MaxQueue,       \* bound: deployments waiting in Coolify
  TicksPerSecond, \* the boundary has whole seconds, a heartbeat has fractions
  MaxTime         \* bound: ticks

VARIABLES
  schema,         \* revision of the database, and the revision its grants cover
  job,            \* the job in progress, or the last one
  jobs,           \* jobs started
  tag,            \* Coolify's TRACKFLOW_IMAGE_TAG
  deployments,    \* those waiting ("mine" is the one the job polls), and the active one
  running,        \* the image the containers run
  beat,           \* the row of the reporting worker in worker_heartbeats
  now

rolloutVars == <<schema, job, jobs, tag, deployments, running, beat, now>>

Oldest == CHOOSE i \in Images : \A j \in Images : i <= j
NoBeat == [image |-> 0, at |-> 0]
NoJob == [pc |-> "idle", image |-> 0, target |-> 0, previous |-> 0, restoring |-> FALSE,
          status |-> "none", boundary |-> 0, rollback |-> "none", verified |-> NoBeat, before |-> 0]
NoDeployment == [who |-> "none", image |-> 0]

\* The oldest image runs on its own schema.  Default privileges, which grant
\* what a later migration creates, are there if a migration ran before.
RolloutInit ==
  /\ \E defaults \in BOOLEAN :
       schema = [revision |-> Oldest, granted |-> Oldest, defaults |-> defaults]
  /\ job = NoJob /\ jobs = 0 /\ tag = Oldest /\ running = Oldest
  /\ deployments = [queue |-> <<>>, active |-> NoDeployment]
  /\ beat = [image |-> Oldest, at |-> 0] /\ now = 0

At(pc) == job' = [job EXCEPT !.pc = pc]

-----------------------------------------------------------------------------
(* The job: a release migrates with the new image, an image rollback is for  *)
(* an image before the one that runs, as its description asks.               *)
StartJob ==
  /\ job.pc = "idle" /\ jobs < MaxJobs /\ jobs' = jobs + 1
  /\ \E i \in Images, mode \in {"release", "image-rollback"} :
       /\ mode = "image-rollback" => i <= running
       /\ job' = [NoJob EXCEPT !.pc = IF mode = "release" THEN "upgrade" ELSE "read",
                               !.image = i, !.target = i, !.before = tag]
  /\ UNCHANGED <<schema, tag, deployments, running, beat, now>>

\* alembic's upgrade to head, under the migration lock and role; a database
\* newer than the image has a revision the image does not know.
Upgrade ==
  /\ job.pc = "upgrade" /\ job.image >= schema.revision /\ At("grants")
  /\ schema' = [schema EXCEPT !.revision = job.image,
                              !.granted = IF schema.defaults THEN job.image ELSE @]
  /\ UNCHANGED <<jobs, tag, deployments, running, beat, now>>

\* provision_checkpointer_tables, then grants and their verification in one
\* transaction, which also compares the revision with the image's head.
ApplyRuntimeGrants ==
  /\ job.pc = "grants" /\ schema.revision = job.image /\ At("read")
  /\ schema' = [schema EXCEPT !.granted = schema.revision, !.defaults = TRUE]
  /\ UNCHANGED <<jobs, tag, deployments, running, beat, now>>

\* mutant: a failed migration does not stop the job
DeployAnyway == "read"
AfterFailedMigration == "idle"

MigrationFails ==
  /\ job.pc \in {"upgrade", "grants"} /\ At(AfterFailedMigration)
  /\ UNCHANGED <<schema, jobs, tag, deployments, running, beat, now>>

-----------------------------------------------------------------------------
(* deploy, for the new image and again for the restoration.                  *)

\* mutant: the previous tag is only kept once Coolify has confirmed the change
CapturedLater(pc) == IF pc = "confirm" /\ ~job.restoring THEN job.before ELSE job.previous
Captured(pc) == IF pc = "read" /\ ~job.restoring THEN tag ELSE job.previous

\* environments and _target_record; the previous tag is kept before the change.
ReadTag ==
  /\ job.pc = "read"
  /\ job' = [job EXCEPT !.pc = "update", !.previous = Captured("read")]
  /\ UNCHANGED <<schema, jobs, tag, deployments, running, beat, now>>

\* The PATCH is served; its answer may be lost (DeployFails).
UpdateEnvironment ==
  /\ job.pc = "update" /\ tag' = job.target /\ At("confirm")
  /\ UNCHANGED <<schema, jobs, deployments, running, beat, now>>

ConfirmTag ==
  /\ job.pc = "confirm" /\ tag = job.target
  /\ job' = [job EXCEPT !.pc = "trigger", !.previous = Captured("confirm")]
  /\ UNCHANGED <<schema, jobs, tag, deployments, running, beat, now>>

Trigger ==
  /\ job.pc = "trigger" /\ Len(deployments.queue) < MaxQueue
  /\ deployments' = [deployments EXCEPT !.queue = Append(@, "mine")]
  /\ job' = [job EXCEPT !.pc = "poll", !.status = "pending"]
  /\ UNCHANGED <<schema, jobs, tag, running, beat, now>>

\* Whatever the job no longer polls goes on without it.
Abandoned ==
  [queue |-> [k \in DOMAIN deployments.queue |-> "other"],
   active |-> IF deployments.active.who = "mine"
              THEN [deployments.active EXCEPT !.who = "other"] ELSE deployments.active]

DeploySucceeds ==
  /\ job.pc = "poll" /\ job.status = "finished"
  /\ IF job.restoring
     THEN job' = [job EXCEPT !.pc = "idle", !.rollback = "restored"]
     ELSE job' = [job EXCEPT !.pc = "ready", !.boundary = (now \div TicksPerSecond) * TicksPerSecond]
  /\ UNCHANGED <<schema, jobs, tag, deployments, running, beat, now>>

\* The step for a failed deployment or readiness: nothing to restore, or
\* deploy once more with the previous tag.
Restore(j) ==
  IF j.restoring THEN [j EXCEPT !.pc = "idle", !.rollback = "failed"]
  ELSE IF j.previous = 0 THEN [j EXCEPT !.pc = "idle", !.rollback = "not-needed"]
  ELSE [j EXCEPT !.pc = "read", !.restoring = TRUE, !.target = j.previous, !.status = "none"]

\* An answer is lost or invalid, the deployment failed, or polling times out.
DeployFails ==
  /\ job.pc \in {"read", "update", "confirm", "trigger", "poll"}
  /\ job' = Restore(job) /\ deployments' = Abandoned
  /\ UNCHANGED <<schema, jobs, tag, running, beat, now>>

-----------------------------------------------------------------------------
(* Verification.                                                             *)

\* check_readiness: a schema older than the image is refused.
CheckReadiness ==
  /\ job.pc = "ready" /\ schema.revision >= running /\ At("verify")
  /\ UNCHANGED <<schema, jobs, tag, deployments, running, beat, now>>

NotReady ==
  /\ job.pc = "ready" /\ job' = Restore(job)
  /\ UNCHANGED <<schema, jobs, tag, deployments, running, beat, now>>

EvaluateHeartbeat == beat.at >= job.boundary

\* reporting_verification answers whenever the running image may use the tables
\* of its schema, even while it calls the queue stuck or the worker stale.
ReportingVerification ==
  /\ job.pc = "verify" /\ running <= schema.granted /\ At("startup")
  /\ UNCHANGED <<schema, jobs, tag, deployments, running, beat, now>>

\* The proof of the new worker.
VerifyReporting ==
  /\ job.pc = "startup"
  /\ EvaluateHeartbeat /\ job' = [job EXCEPT !.pc = "idle", !.verified = beat]
  /\ UNCHANGED <<schema, jobs, tag, deployments, running, beat, now>>

\* No answer, or no proof in time: the release stays as it is.
NotVerified ==
  /\ job.pc \in {"verify", "startup"} /\ At("idle")
  /\ UNCHANGED <<schema, jobs, tag, deployments, running, beat, now>>

JobIsCutOff ==
  /\ job.pc # "idle" /\ At("idle") /\ deployments' = Abandoned
  /\ UNCHANGED <<schema, jobs, tag, running, beat, now>>

-----------------------------------------------------------------------------
(* External: Coolify, the worker that runs, and the clock.                   *)
DeploymentStarts ==
  /\ deployments.active = NoDeployment /\ deployments.queue # <<>>
  /\ deployments' = [queue |-> Tail(deployments.queue),
                     active |-> [who |-> Head(deployments.queue), image |-> tag]]
  /\ UNCHANGED <<schema, job, jobs, tag, running, beat, now>>

DeploymentEnds ==
  /\ deployments.active # NoDeployment
  /\ deployments' = [deployments EXCEPT !.active = NoDeployment]
  /\ \E ok \in BOOLEAN :
       /\ running' = IF ok THEN deployments.active.image ELSE running
       /\ job' = IF deployments.active.who = "mine"
                 THEN [job EXCEPT !.status = IF ok THEN "finished" ELSE "failed"] ELSE job
  /\ UNCHANGED <<schema, jobs, tag, beat, now>>

Heartbeat ==
  /\ beat' = [image |-> running, at |-> now]
  /\ UNCHANGED <<schema, job, jobs, tag, deployments, running, now>>

Tick ==
  /\ now < MaxTime /\ now' = now + 1
  /\ UNCHANGED <<schema, job, jobs, tag, deployments, running, beat>>

RolloutNext ==
  \/ StartJob \/ Upgrade \/ ApplyRuntimeGrants \/ MigrationFails
  \/ ReadTag \/ UpdateEnvironment \/ ConfirmTag \/ Trigger \/ DeploySucceeds \/ DeployFails
  \/ CheckReadiness \/ NotReady \/ ReportingVerification \/ VerifyReporting \/ NotVerified \/ JobIsCutOff
  \/ DeploymentStarts \/ DeploymentEnds \/ Heartbeat \/ Tick

RolloutSpec == RolloutInit /\ [][RolloutNext]_rolloutVars

-----------------------------------------------------------------------------
\* migrate, deploy: whatever fails, is lost or is cut off, and whichever
\* deployment is still waiting, the image that runs finds the tables of its
\* schema head and may use them.
RunningCanWork == running <= schema.revision /\ running <= schema.granted

\* deploy, the restoration step: a job that reports its rollback as done left
\* the tag it found, and that image runs, although deployments it gave up on
\* may finish later; a job that reports none was needed left the tag alone.
RollbackRestores ==
  /\ job.rollback \in {"restored", "not-needed"} => tag = job.before
  /\ job.rollback = "restored" => running = job.before

\* evaluate_heartbeat: a heartbeat that proves the startup is the new image's,
\* unless the containers were replaced within the second the boundary names.
VerifiedIsNewWorker ==
  job.verified.image \notin {0, job.image} =>
    job.verified.at \div TicksPerSecond = job.boundary \div TicksPerSecond

\* deploy, evaluate_heartbeat: what a job reports of its rollback and of the
\* new worker is so, although answers get lost and deployments finish late.
JobsReportTruly == RollbackRestores /\ VerifiedIsNewWorker
=============================================================================
