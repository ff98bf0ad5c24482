------------------------------ MODULE RfpTicket ------------------------------
(* One uploaded RFP: the background task that classifies, drafts and opens   *)
(* it for approval, and the decisions that account managers submit.  Three   *)
(* stores are written by separate commits: the ticket and section rows, the  *)
(* checkpoints of one approval thread per department, and the final document.*)
(*                                                                           *)
(* A draft is named by the iteration that produced it, 0 being no draft.     *)
(* The decisions of different departments interleave; two on one department  *)
(* do not overlap.  The task and a decision may fail at every step.          *)
EXTENDS Integers, FiniteSets

CONSTANTS Departments, MaxIterations

VARIABLES
  ticket,      \* rfp_tickets.status, "none" before the upload
  needed,      \* rfp_tickets.departments_needed
  section,     \* rfp_department_sections, by department
  thread,      \* the checkpoint of each approval thread
  document,    \* rfp_final_documents: the drafts it holds
  task,        \* run_intake_for_ticket: its next step, the threads to open
  decision,    \* the decision in flight on each department
  pressed,     \* history: the drafts a manager looked at and approved
  broken       \* history: departments on which a decision failed midway

rfpVars == <<ticket, needed, section, thread, document, task, decision, pressed, broken>>

NoSection == [status |-> "absent", draft |-> 0, iterations |-> 0]
NoThread == [next |-> "none", outcome |-> "none", draft |-> 0, iterations |-> 0]
NoDocument == <<>>
Idle == [pc |-> "idle", action |-> "none", content |-> NoDocument]
Actions == {"approve", "reject", "request_changes"}
MaxDrafts == IF MaxIterations > 1 THEN MaxIterations ELSE 1

RfpInit ==
  /\ ticket = "none" /\ needed = {} /\ document = NoDocument
  /\ section = [d \in Departments |-> NoSection]
  /\ thread = [d \in Departments |-> NoThread]
  /\ task = [pc |-> "off", opening |-> {}]
  /\ decision = [d \in Departments |-> Idle]
  /\ pressed = [d \in Departments |-> {}] /\ broken = {}

-----------------------------------------------------------------------------
(* The background task.                                                      *)
Goto(pc) == task' = [task EXCEPT !.pc = pc]

CreateFromUpload ==
  /\ ticket = "none"
  /\ ticket' = "analyzing" /\ Goto("intake")
  /\ UNCHANGED <<needed, section, thread, document, decision, pressed, broken>>

\* run_intake: a model call that fails at any node ends the graph with an
\* error; a document that is not an RFP ends it after the first node.
ModelFailure == [status |-> "error", departments |-> {}]
NotAnRfp == [status |-> "discarded", departments |-> {}]

\* Each requested service asks for at most one department, so a document may
\* ask for any set of them, none included.
PlanDepartments == SUBSET Departments

IntakeOutcomes ==
  {ModelFailure, NotAnRfp} \cup [status : {"routed"}, departments : PlanDepartments]

ApplyOutcome ==
  /\ task.pc = "intake"
  /\ \E o \in IntakeOutcomes :
       /\ needed' = o.departments
       /\ ticket' = CASE o.status = "error" -> "analyzing"
                      [] o.status = "discarded" -> "discarded"
                      [] o.status = "routed" -> "drafting"
       /\ Goto(IF o.status = "routed" THEN "sections" ELSE "off")
  /\ UNCHANGED <<section, thread, document, decision, pressed, broken>>

AddSections ==
  /\ task.pc = "sections" /\ Goto("generate")
  /\ section' = [d \in Departments |->
                   IF d \in needed THEN [NoSection EXCEPT !.status = "pending"] ELSE section[d]]
  /\ UNCHANGED <<ticket, needed, thread, document, decision, pressed, broken>>

\* _generate_one: it drafts until the evaluators pass or the cap is reached; a
\* provider error leaves no draft.
DraftPasses(i) == [draft |-> i, iterations |-> i]
DraftingFails(i) == [draft |-> 0, iterations |-> i]
Generated == UNION {{DraftPasses(i), DraftingFails(i)} : i \in 1 .. MaxDrafts}

Drafted(drafts) ==
  [d \in Departments |->
     IF d \in needed
     THEN [section[d] EXCEPT !.draft = drafts[d].draft, !.iterations = drafts[d].iterations]
     ELSE section[d]]

\* The ticket and its sections are one commit: both are in the session.
RunGeneration ==
  /\ task.pc = "generate" /\ ticket = "drafting"
  /\ \E drafts \in [needed -> Generated] : section' = Drafted(drafts)
  /\ ticket' = "under_evaluation"
  /\ task' = [pc |-> "open", opening |-> needed]
  /\ UNCHANGED <<needed, thread, document, decision, pressed, broken>>

\* start_ticket_approval
OpenThread(d) ==
  /\ task.pc = "open" /\ d \in task.opening
  /\ task' = [task EXCEPT !.opening = @ \ {d}]
  /\ thread' = [thread EXCEPT ![d] =
       [next |-> "review", outcome |-> "none", draft |-> section[d].draft,
        iterations |-> IF section[d].iterations = 0 THEN 1 ELSE section[d].iterations]]
  /\ UNCHANGED <<ticket, needed, section, document, decision, pressed, broken>>

AllOpen == task.opening = {}

RereadTicket ==
  /\ task.pc = "open" /\ AllOpen
  /\ Goto(IF ticket = "under_evaluation" THEN "announce" ELSE "off")
  /\ UNCHANGED <<ticket, needed, section, thread, document, decision, pressed, broken>>

AnnounceWaiting ==
  /\ task.pc = "announce" /\ Goto("off")
  /\ ticket' = "waiting_for_approval"
  /\ UNCHANGED <<needed, section, thread, document, decision, pressed, broken>>

TaskFails ==
  /\ task.pc # "off" /\ Goto("off")
  /\ UNCHANGED <<ticket, needed, section, thread, document, decision, pressed, broken>>

-----------------------------------------------------------------------------
(* A decision.  Resuming the thread writes a checkpoint after each node; the *)
(* section row, the document and the ticket follow in commits of their own.  *)
At(d, pc) == decision[d].pc = pc
Moved(d, pc) == decision' = [decision EXCEPT ![d].pc = pc]
End(d) == decision' = [decision EXCEPT ![d] = Idle]

\* A thread with nothing left to run answers 409 and nothing changes.
Decide(d, action) ==
  /\ At(d, "idle") /\ section[d].status # "absent" /\ thread[d].next # "none"
  /\ decision' = [decision EXCEPT ![d] =
       [Idle EXCEPT !.pc = IF thread[d].next = "review" THEN "review" ELSE "node",
                    !.action = action]]
  /\ pressed' = IF action = "approve" THEN [pressed EXCEPT ![d] = @ \cup {section[d].draft}]
                                      ELSE pressed
  /\ UNCHANGED <<ticket, needed, section, thread, document, task, broken>>

RouteAfterReview(action) == IF action \in {"approve", "reject"} THEN action ELSE "revise"

Review(d) ==
  /\ At(d, "review") /\ Moved(d, "node")
  /\ thread' = [thread EXCEPT ![d].next = RouteAfterReview(decision[d].action)]
  /\ UNCHANGED <<ticket, needed, section, document, task, pressed, broken>>

Ended(d, outcome) == [thread[d] EXCEPT !.next = "none", !.outcome = outcome]
Redrafted(d) == [thread[d] EXCEPT !.next = "review", !.iterations = @ + 1, !.draft = thread[d].iterations + 1]

NodeResults(d) ==
  IF thread[d].next = "approve" THEN {Ended(d, "approved")}
  ELSE IF thread[d].next = "reject" THEN {Ended(d, "rejected")}
  ELSE IF thread[d].iterations >= MaxIterations THEN {Ended(d, "changes_exhausted")}
  ELSE {Ended(d, "generation_error"), Redrafted(d)}

RunNode(d) ==
  /\ At(d, "node") /\ Moved(d, "save")
  /\ \E t \in NodeResults(d) : thread' = [thread EXCEPT ![d] = t]
  /\ UNCHANGED <<ticket, needed, section, document, task, pressed, broken>>

SectionStatus(outcome) == IF outcome \in {"approved", "rejected"} THEN outcome ELSE "changes_requested"

\* mutant: the section takes the thread's draft whatever the outcome
SavedWithDraft(d) ==
  IF thread[d].next # "none"
  THEN [status |-> "pending", draft |-> thread[d].draft, iterations |-> thread[d].iterations]
  ELSE [section[d] EXCEPT !.status = SectionStatus(thread[d].outcome), !.draft = thread[d].draft]
Saved(d) ==
  IF thread[d].next # "none"
  THEN [status |-> "pending", draft |-> thread[d].draft, iterations |-> thread[d].iterations]
  ELSE [section[d] EXCEPT !.status = SectionStatus(thread[d].outcome)]

SaveSection(d) ==
  /\ At(d, "save") /\ Moved(d, "finalize?")
  /\ section' = [section EXCEPT ![d] = Saved(d)]
  /\ UNCHANGED <<ticket, needed, thread, document, task, pressed, broken>>

Present == {d \in Departments : section[d].status # "absent"}
AllApproved == Present # {} /\ \A d \in Present : section[d].status = "approved"

\* mutant: only a ticket that is waiting for approval is finalized
FinalizableWaiting == AllApproved /\ ticket = "waiting_for_approval"
Finalizable == AllApproved

MaybeFinalize(d) ==
  /\ At(d, "finalize?")
  /\ IF Finalizable
     THEN decision' = [decision EXCEPT ![d].pc = "document",
                                       ![d].content = [e \in Present |-> section[e].draft]]
     ELSE End(d)
  /\ UNCHANGED <<ticket, needed, section, thread, document, task, pressed, broken>>

\* One document per ticket: the second insert is refused and the request fails.
AddFinalDocument(d) ==
  /\ At(d, "document")
  /\ IF document = NoDocument
     THEN document' = decision[d].content /\ Moved(d, "done")
     ELSE End(d) /\ UNCHANGED document
  /\ UNCHANGED <<ticket, needed, section, thread, task, pressed, broken>>

FinishTicket(d) ==
  /\ At(d, "done") /\ End(d)
  /\ ticket' = "done"
  /\ UNCHANGED <<needed, section, thread, document, task, pressed, broken>>

DecisionFails(d) ==
  /\ ~At(d, "idle") /\ End(d)
  /\ broken' = broken \cup {d}
  /\ UNCHANGED <<ticket, needed, section, thread, document, task, pressed>>

RfpNext ==
  \/ CreateFromUpload \/ ApplyOutcome \/ AddSections \/ RunGeneration
  \/ RereadTicket \/ AnnounceWaiting \/ TaskFails
  \/ \E d \in Departments :
       \/ OpenThread(d) \/ Review(d) \/ RunNode(d) \/ SaveSection(d)
       \/ MaybeFinalize(d) \/ AddFinalDocument(d) \/ FinishTicket(d) \/ DecisionFails(d)
       \/ \E action \in Actions : Decide(d, action)

RfpSpec == RfpInit /\ [][RfpNext]_rfpVars

-----------------------------------------------------------------------------
(* Properties.                                                               *)

\* submit_decision, _maybe_finalize: every department of a final document is
\* approved, and the document holds the very draft that a manager was looking
\* at when approving it, whichever decisions failed between the checkpoint and
\* the row.
DocumentWasApproved ==
  document # NoDocument =>
    \A d \in Present : /\ section[d].status = "approved"
                       /\ document[d] = section[d].draft
                       /\ document[d] \in pressed[d]

\* submit_decision: however the decisions of the departments interleave with
\* each other and with the task that announces the ticket, the last approval
\* writes the document, unless a decision failed.
LastApprovalFinalizes ==
  (AllApproved /\ broken = {} /\ \A d \in Departments : At(d, "idle"))
    => document # NoDocument /\ ticket \in {"done", "waiting_for_approval"}

\* start_ticket_approval: once a ticket says it is waiting for approval, every
\* pending section has a thread that takes a decision, unless a decision on it
\* failed midway.
WaitingIsDecidable ==
  ticket = "waiting_for_approval" =>
    \A d \in Present \ broken :
      (section[d].status = "pending" /\ At(d, "idle")) => thread[d].next = "review"

\* run_generation_for_ticket: a ticket under evaluation or later has been
\* through drafting in every department, at whichever commit the task died.
EvaluatedIsDrafted ==
  ticket \in {"under_evaluation", "waiting_for_approval", "done"} =>
    needed = Present /\ \A d \in Present : section[d].iterations > 0

\* run_generation_for_ticket, start_ticket_approval, submit_decision: a ticket
\* says only where it really is, so that the next step is always possible: it
\* is drafted, then decidable, and finalized by its last approval.
TicketsGoOn == LastApprovalFinalizes /\ WaitingIsDecidable /\ EvaluatedIsDrafted
=============================================================================
