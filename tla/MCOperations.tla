---------------------------- MODULE MCOperations ----------------------------
(* What runs the platform rather than serves it, checked side by side: the   *)
(* operations feed with the size guard, a production rollout, the knowledge  *)
(* base (a page that is cut, an index that is rebuilt) and the admission of  *)
(* public questions.  They share no variable; `part` says which one moves.   *)
EXTENDS Integers, Sequences, FiniteSets, TLC

CONSTANTS Feeds, Guards, MaxApprovals, Images, MaxJobs, MaxQueue, TicksPerSecond, MaxTime,
          MaxBlocks, MaxIndexed, Indexers, Requests, Slots, PerMinute, PerDay, Minute, Midnight

\* Nobody's name is a feed's; the processes are finitely many.
ASSUME FeedsAssumption == "none" \notin Feeds /\ IsFiniteSet(Guards)

\* Images are numbered in release order, from a first one; a second has ticks.
ASSUME ImagesAssumption ==
  /\ Images \subseteq Nat \ {0} /\ \E i \in Images : \A j \in Images : i <= j
  /\ TicksPerSecond \in Nat \ {0}

ASSUME LimitsAssumption ==
  /\ IsFiniteSet(Requests) /\ Slots \in Nat /\ PerMinute \in Nat /\ PerDay \in Nat
  /\ Minute \in Nat \ {0} /\ Midnight \in Nat \ {0}

VARIABLES part, leader, feed, control, guard, ledger, past,
          schema, job, jobs, tag, deployments, running, beat, now,
          page, index, run, request, admission, admitted, time

F == INSTANCE OperationsFeed
R == INSTANCE Rollout
K == INSTANCE KnowledgeBase
P == INSTANCE PublicSupport

feedVars == <<leader, feed, control, guard, ledger, past>>
rolloutVars == <<schema, job, jobs, tag, deployments, running, beat, now>>
knowledgeVars == <<page, index, run>>
supportVars == <<request, admission, admitted, time>>

MCInit ==
  /\ part \in {"feed", "rollout", "page", "index", "support"}
  /\ F!FeedInit /\ K!IndexInit /\ P!SupportInit
  /\ R!RolloutInit /\ (part # "rollout" => schema.defaults)
  /\ IF part = "page" THEN K!PageInit ELSE page = <<[list |-> FALSE, colon |-> FALSE, names |-> {}]>>

MCNext ==
  /\ UNCHANGED part
  /\ \/ part = "feed" /\ F!FeedNext /\ UNCHANGED <<rolloutVars, knowledgeVars, supportVars>>
     \/ part = "rollout" /\ R!RolloutNext /\ UNCHANGED <<feedVars, knowledgeVars, supportVars>>
     \/ part = "index" /\ K!KnowledgeNext /\ UNCHANGED <<feedVars, rolloutVars, supportVars>>
     \/ part = "support" /\ P!SupportNext /\ UNCHANGED <<feedVars, rolloutVars, knowledgeVars>>

MCSpec == MCInit /\ [][MCNext]_<<part, feedVars, rolloutVars, knowledgeVars, supportVars>>

Symmetry == Permutations(Feeds) \cup Permutations(Guards)

-----------------------------------------------------------------------------
\* require_singleton_lock, feed_enabled: see OperationsFeed!StoppedFeedStops.
StoppedFeedStops == F!StoppedFeedStops

\* consume_reset_approval: see OperationsFeed!RebuildsAreApproved.
RebuildsAreApproved == F!RebuildsAreApproved

\* migrate, deploy: see Rollout!RunningCanWork.
RunningCanWork == R!RunningCanWork

\* deploy, evaluate_heartbeat: see Rollout!JobsReportTruly.
JobsReportTruly == R!JobsReportTruly

\* chunk_document, retrieve: see KnowledgeBase!PassagesAreSound.
PassagesAreSound == K!PassagesAreSound

\* acquire, release: see PublicSupport!LimitsHold.
LimitsHold == P!LimitsHold
=============================================================================
