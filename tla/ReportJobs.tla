----------------------------- MODULE ReportJobs -----------------------------
(***************************************************************************)
(* What the reporting queue promises to the people who request reports and *)
(* to those who read them, without tokens, leases, locks or workers:       *)
(*   - a run is tried a bounded number of times, one run at a time;        *)
(*   - the results on show always come from the newest try that published; *)
(*   - a run succeeds only while its own results are the ones on show.     *)
(***************************************************************************)
EXTENDS Integers

CONSTANTS Runs, Budget

VARIABLES
  job,      \* per run: where it stands
  tries,    \* per run: tries started so far
  started,  \* number of tries started over all runs
  shown     \* which of those tries published the results on show

jobVars == <<job, tries, started, shown>>

Init ==
  /\ job = [r \in Runs |-> "none"]
  /\ tries = [r \in Runs |-> 0]
  /\ started = 0 /\ shown = 0

Submit(r) ==
  /\ job[r] = "none"
  /\ job' = [job EXCEPT ![r] = "pending"]
  /\ UNCHANGED <<tries, started, shown>>

\* A try starts; it ends at once, in failure, when the request became invalid.
Start(r) ==
  /\ job[r] = "pending" /\ tries[r] < Budget
  /\ \A s \in Runs : job[s] # "active"
  /\ \E next \in {"active", "failed"} : job' = [job EXCEPT ![r] = next]
  /\ tries' = [tries EXCEPT ![r] = @ + 1]
  /\ started' = started + 1
  /\ UNCHANGED shown

Show(r) ==
  /\ job[r] = "active"
  /\ shown' = started
  /\ UNCHANGED <<job, tries, started>>

Succeed(r) ==
  /\ job[r] = "active" /\ shown = started
  /\ job' = [job EXCEPT ![r] = "succeeded"]
  /\ UNCHANGED <<tries, started, shown>>

\* A lost or failed try goes back while the budget lasts; otherwise the run fails.
GiveUp(r) ==
  /\ job[r] = "active"
  /\ \/ job' = [job EXCEPT ![r] = "failed"]
     \/ tries[r] < Budget /\ job' = [job EXCEPT ![r] = "pending"]
  /\ UNCHANGED <<tries, started, shown>>

Next == \E r \in Runs : Submit(r) \/ Start(r) \/ Show(r) \/ Succeed(r) \/ GiveUp(r)

Spec == Init /\ [][Next]_jobVars

=============================================================================
