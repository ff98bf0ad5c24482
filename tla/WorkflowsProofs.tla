--------------------------- MODULE WorkflowsProofs ---------------------------
(* The proposal desk and its estimate, the agent's streamed answer, its runs *)
(* and its memory, proved for any number of departments, iterations, volumes *)
(* and digits, pieces of text, proposals and requests.                       *)
EXTENDS MCWorkflows, FiniteSets, Sequences, FiniteSetTheorems, RecursionTheorems, TLAPS

-----------------------------------------------------------------------------
(* The proposal desk.                                                        *)

Contents    == {Rfp!NoDocument} \cup UNION {[S -> Nat] : S \in SUBSET Departments}
SectionRow  == [status: {"absent", "pending", "approved", "rejected", "changes_requested"},
                draft: Nat, iterations: Nat]
ThreadRow   == [next: {"none", "review", "approve", "reject", "revise"},
                outcome: {"none", "approved", "rejected", "changes_exhausted", "generation_error"},
                draft: Nat, iterations: Nat]
DecisionPcs == {"idle", "review", "node", "save", "finalize?", "document", "done"}
DecisionRow == [pc: DecisionPcs, action: {"none", "approve", "reject", "request_changes"},
                content: Contents]
TaskRow     == [pc: {"off", "intake", "sections", "generate", "open", "announce"},
                opening: SUBSET Departments]
Later       == {"under_evaluation", "waiting_for_approval", "done"}

RfpTypes ==
  /\ ticket \in {"none", "analyzing", "discarded", "drafting"} \cup Later
  /\ needed \in SUBSET Departments /\ section \in [Departments -> SectionRow]
  /\ thread \in [Departments -> ThreadRow] /\ document \in Contents /\ task \in TaskRow
  /\ decision \in [Departments -> DecisionRow] /\ pressed \in [Departments -> SUBSET Nat]
  /\ broken \in SUBSET Departments

\* A thread exists from start_ticket_approval on.
Opened(y) == y.next # "none" \/ y.outcome # "none"

\* One department: its section x, its thread y, the decision z in flight on it,
\* the drafts p that were approved, and whether a decision on it failed.
DepartmentOk(x, y, z, p, failed) ==
  /\ y.next # "none" => y.outcome = "none"
  /\ z.pc = "review" => y.next = "review"
  /\ z.pc = "node" => y.next \in {"approve", "reject", "revise"}
  /\ z.pc = "save" => y.next \in {"none", "review"}
  /\ (z.pc = "review" /\ z.action = "approve") \/ y.next = "approve" \/ y.outcome = "approved"
       => x.draft \in p
  /\ x.status = "approved" => y.outcome = "approved"
  /\ z.pc # "idle" => Opened(y)
  /\ Opened(y) => x.status # "absent" /\ y.iterations > 0
  /\ ~failed /\ z.pc \notin {"review", "node", "save"} /\ Opened(y) /\ x.status = "pending"
       => y.next = "review"

DepartmentsOk ==
  \A d \in Departments :
    DepartmentOk(section[d], thread[d], decision[d], pressed[d], d \in broken)

\* How far the task is, and what the ticket says of it.
TaskOk ==
  /\ ticket \in {"none", "analyzing", "discarded"} => Rfp!Present = {}
  /\ task.pc = "intake" => ticket = "analyzing"
  /\ task.pc \in {"sections", "generate"} => ticket = "drafting"
  /\ task.pc = "sections" => Rfp!Present = {}
  /\ task.pc = "generate" => Rfp!Present = needed
  /\ task.pc \in {"open", "announce"} => ticket \in Later
  /\ task.pc = "open" => \A d \in needed : Opened(thread[d]) <=> d \notin task.opening
  /\ task.pc = "open" => task.opening \subseteq needed
  /\ task.pc = "announce" \/ ticket = "waiting_for_approval" => \A d \in needed : Opened(thread[d])
  /\ ticket \in Later =>
       Rfp!Present = needed /\ \A d \in Rfp!Present : section[d].iterations > 0
  /\ \A d \in Departments : Opened(thread[d]) => ticket \in Later

\* What is approved stays as it is, and that is what the document holds.
Drafts == [e \in Rfp!Present |-> section[e].draft]
DocumentOk ==
  /\ \A d \in Departments :
       /\ decision[d].pc \in {"document", "done"} => Rfp!AllApproved
       /\ decision[d].pc = "document" => decision[d].content = Drafts
       /\ decision[d].pc = "done" => document # Rfp!NoDocument
  /\ document # Rfp!NoDocument => Rfp!AllApproved /\ document = Drafts

\* Unless a decision failed, the last approval goes on until the ticket is done.
LastOk ==
  Rfp!AllApproved /\ broken = {} =>
    /\ document = Rfp!NoDocument =>
         \E d \in Departments : decision[d].pc \in {"finalize?", "document"}
    /\ document # Rfp!NoDocument =>
         \/ ticket \in {"done", "waiting_for_approval"}
         \/ \E d \in Departments : decision[d].pc = "done"

RfpInv == RfpTypes /\ DepartmentsOk /\ TaskOk /\ DocumentOk /\ LastOk

LEMMA DraftsAreContents ==
  ASSUME section \in [Departments -> SectionRow]
  PROVE  Drafts \in Contents /\ (Rfp!Present # {} => Drafts # Rfp!NoDocument)
  <1>1. Rfp!Present \in SUBSET Departments
    BY DEF Rfp!Present
  <1>2. \A e \in Rfp!Present : section[e].draft \in Nat
    BY <1>1 DEF SectionRow
  <1>3. Drafts \in [Rfp!Present -> Nat]
    BY <1>2 DEF Drafts
  <1>4. Drafts \in Contents
    BY <1>1, <1>3 DEF Contents
  <1>5. DOMAIN Drafts = Rfp!Present /\ DOMAIN Rfp!NoDocument = {}
    BY DEF Drafts, Rfp!NoDocument
  <1>. QED  BY <1>4, <1>5

\* A step on one department, whose thread is open.
LEMMA DepartmentStep ==
  ASSUME RfpInv, NEW d \in Departments, NEW x \in SectionRow, NEW y \in ThreadRow,
         NEW z \in DecisionRow, NEW p \in SUBSET Nat, NEW b \in SUBSET Departments,
         section' = [section EXCEPT ![d] = x], thread' = [thread EXCEPT ![d] = y],
         decision' = [decision EXCEPT ![d] = z], pressed' = [pressed EXCEPT ![d] = p],
         broken' = b, broken \subseteq b, b \subseteq broken \cup {d},
         UNCHANGED <<needed, task>>, document' \in Contents,
         ticket' = ticket \/ ticket' = "done",
         DepartmentOk(x, y, z, p, d \in b), Opened(thread[d]), Opened(y),
         x.status # "absent", x.iterations > 0,
         section[d].status = "approved" => x.status = "approved" /\ x.draft = section[d].draft
  PROVE  /\ RfpTypes' /\ DepartmentsOk' /\ TaskOk' /\ Rfp!Present' = Rfp!Present
         /\ Rfp!AllApproved => Rfp!AllApproved' /\ Drafts' = Drafts
  <1>0. /\ RfpTypes /\ DepartmentsOk /\ TaskOk /\ ticket \in Later /\ section[d].status # "absent"
        /\ section \in [Departments -> SectionRow] /\ thread \in [Departments -> ThreadRow]
        /\ decision \in [Departments -> DecisionRow] /\ pressed \in [Departments -> SUBSET Nat]
        /\ ticket' \in Later
    BY DEF RfpInv, RfpTypes, TaskOk, DepartmentsOk, DepartmentOk, Later
  <1>1. RfpTypes'
    BY <1>0 DEF RfpTypes, Later
  <1>2. \A e \in Departments : e # d => section'[e] = section[e] /\ thread'[e] = thread[e]
                                        /\ decision'[e] = decision[e] /\ pressed'[e] = pressed[e]
                                        /\ (e \in b <=> e \in broken)
    BY <1>0
  <1>3. section'[d] = x /\ thread'[d] = y /\ decision'[d] = z /\ pressed'[d] = p
    BY <1>0
  <1>4. Rfp!Present' = Rfp!Present
    BY <1>0, <1>2, <1>3 DEF Rfp!Present
  <1>5. DepartmentsOk'
    <2>1. ASSUME NEW e \in Departments
          PROVE  DepartmentOk(section'[e], thread'[e], decision'[e], pressed'[e], e \in broken')
      <3>1. CASE e = d
        BY <1>3, <3>1
      <3>2. CASE e # d
        BY <1>0, <1>2, <3>2 DEF DepartmentsOk
      <3>. QED  BY <3>1, <3>2
    <2>. QED  BY <2>1 DEF DepartmentsOk
  <1>6. \A e \in Departments : Opened(thread'[e]) <=> Opened(thread[e])
    BY <1>2, <1>3
  <1>7. TaskOk'
    <2>1. \A e \in Rfp!Present' : section'[e].iterations > 0
      BY <1>0, <1>2, <1>3, <1>4 DEF TaskOk, Rfp!Present
    <2>2. needed \in SUBSET Departments
      BY <1>0 DEF RfpTypes
    <2>3. \/ task.pc = "open" /\ \A e \in needed : Opened(thread'[e]) <=> e \notin task.opening
          \/ task.pc # "open"
      BY <1>0, <1>6, <2>2 DEF TaskOk
    <2>4. task.pc = "announce" \/ ticket = "waiting_for_approval" =>
            \A e \in needed : Opened(thread'[e])
      BY <1>0, <1>6, <2>2 DEF TaskOk
    <2>. QED  BY <1>0, <1>4, <2>1, <2>3, <2>4 DEF TaskOk, Later
  <1>8. Rfp!AllApproved => Rfp!AllApproved' /\ Drafts' = Drafts
    <2>. SUFFICES ASSUME Rfp!AllApproved  PROVE Rfp!AllApproved' /\ Drafts' = Drafts
      OBVIOUS
    <2>1. \A e \in Rfp!Present : e \in Departments /\ section[e].status = "approved"
      BY DEF Rfp!AllApproved, Rfp!Present
    <2>2. \A e \in Rfp!Present :
            section'[e].status = "approved" /\ section'[e].draft = section[e].draft
      BY <1>2, <1>3, <2>1
    <2>. QED  BY <1>4, <2>2 DEF Rfp!AllApproved, Drafts
  <1>. QED  BY <1>1, <1>4, <1>5, <1>7, <1>8

\* The task, before the threads open: no department has one.
LEMMA TaskStep ==
  ASSUME RfpInv,
         \/ Rfp!CreateFromUpload \/ Rfp!ApplyOutcome \/ Rfp!AddSections \/ Rfp!RunGeneration
         \/ Rfp!RereadTicket \/ Rfp!AnnounceWaiting \/ Rfp!TaskFails \/ UNCHANGED Rfp!rfpVars
  PROVE  RfpInv'
  <1>0. /\ RfpTypes /\ DepartmentsOk /\ TaskOk /\ DocumentOk /\ LastOk /\ task \in TaskRow
        /\ section \in [Departments -> SectionRow] /\ needed \in SUBSET Departments
        /\ thread \in [Departments -> ThreadRow]
    BY DEF RfpInv, RfpTypes
  \* While the sections stay, only the ticket and the task have to be looked at.
  <1>1. ASSUME UNCHANGED <<section, thread, document, decision, pressed, broken>>,
               ticket' \in {"none", "analyzing", "discarded", "drafting"} \cup Later,
               needed' \in SUBSET Departments, task' \in TaskRow, TaskOk',
               ticket \in {"done", "waiting_for_approval"} =>
                 ticket' \in {"done", "waiting_for_approval"}
        PROVE  RfpInv'
    <2>1. Rfp!Present' = Rfp!Present /\ Drafts' = Drafts /\ (Rfp!AllApproved' <=> Rfp!AllApproved)
      BY <1>1 DEF Rfp!Present, Drafts, Rfp!AllApproved
    <2>2. RfpTypes' /\ DepartmentsOk'
      BY <1>0, <1>1 DEF RfpTypes, DepartmentsOk
    <2>3. DocumentOk'
      BY <1>0, <1>1, <2>1 DEF DocumentOk, Rfp!NoDocument
    <2>4. LastOk'
      BY <1>0, <1>1, <2>1 DEF LastOk, Rfp!NoDocument
    <2>. QED  BY <1>1, <2>2, <2>3, <2>4 DEF RfpInv
  <1>2. \A pc \in {"off", "intake", "sections", "generate", "open", "announce"} :
          Rfp!Goto(pc) => task' \in TaskRow /\ task'.pc = pc /\ task'.opening = task.opening
    BY <1>0 DEF TaskRow, Rfp!Goto
  \* While nothing is opened, the sections may change.
  <1>3. ASSUME UNCHANGED <<needed, thread, document, decision, pressed, broken>>,
               ticket \notin Later,
               ticket' \in {"drafting", "under_evaluation"}, task' \in TaskRow, TaskOk',
               section' \in [Departments -> SectionRow],
               \A d \in Departments : section'[d].status # "approved"
        PROVE  RfpInv'
    <2>1. \A d \in Departments : ~Opened(thread[d]) /\ decision[d].pc = "idle"
      BY <1>0, <1>3 DEF TaskOk, DepartmentsOk, DepartmentOk
    <2>2. RfpTypes'
      BY <1>0, <1>3 DEF RfpTypes, Later
    <2>3. DepartmentsOk'
      BY <1>0, <1>3, <2>1 DEF DepartmentsOk, DepartmentOk, Opened
    <2>4. ~Rfp!AllApproved'
      BY <1>3 DEF Rfp!AllApproved, Rfp!Present
    <2>5. ~Rfp!AllApproved
      <3>1. \A d \in Rfp!Present : section[d].status # "approved"
        BY <1>0, <2>1 DEF DepartmentsOk, DepartmentOk, Rfp!Present, Opened
      <3>. QED  BY <3>1 DEF Rfp!AllApproved
    <2>6. DocumentOk' /\ LastOk'
      BY <1>0, <1>3, <2>1, <2>4, <2>5 DEF DocumentOk, LastOk, Rfp!NoDocument
    <2>. QED  BY <1>3, <2>2, <2>3, <2>6 DEF RfpInv
  <1>4. CASE Rfp!CreateFromUpload
    <2>1. /\ ticket = "none" /\ ticket' = "analyzing" /\ Rfp!Goto("intake")
          /\ UNCHANGED <<needed, section, thread, document, decision, pressed, broken>>
      BY <1>4 DEF Rfp!CreateFromUpload
    <2>2. task' \in TaskRow /\ task'.pc = "intake"
      BY <1>2, <2>1
    <2>3. TaskOk'
      BY <1>0, <2>1, <2>2 DEF TaskOk, Later, Rfp!Present
    <2>. QED  BY <1>0, <1>1, <2>1, <2>2, <2>3 DEF RfpTypes
  <1>5. CASE Rfp!ApplyOutcome
    <2>1. PICK o \in Rfp!IntakeOutcomes :
            /\ needed' = o.departments
            /\ ticket' = CASE o.status = "error" -> "analyzing"
                           [] o.status = "discarded" -> "discarded"
                           [] o.status = "routed" -> "drafting"
            /\ Rfp!Goto(IF o.status = "routed" THEN "sections" ELSE "off")
      BY <1>5 DEF Rfp!ApplyOutcome
    <2>2. task.pc = "intake" /\ UNCHANGED <<section, thread, document, decision, pressed, broken>>
      BY <1>5 DEF Rfp!ApplyOutcome
    <2>3. o.status \in {"error", "discarded", "routed"} /\ o.departments \in SUBSET Departments
      BY DEF Rfp!IntakeOutcomes, Rfp!ModelFailure, Rfp!NotAnRfp, Rfp!PlanDepartments
    <2>4. \/ ticket' \in {"analyzing", "discarded"} /\ Rfp!Goto("off")
          \/ ticket' = "drafting" /\ Rfp!Goto("sections")
      BY <2>1, <2>3
    <2>5. task' \in TaskRow /\ (task'.pc = "off" \/ (task'.pc = "sections" /\ ticket' = "drafting"))
      BY <1>2, <2>4
    <2>6. ticket = "analyzing" /\ Rfp!Present = {} /\ Rfp!Present' = Rfp!Present
      BY <1>0, <2>2 DEF TaskOk, Rfp!Present
    <2>7. ticket' \in {"analyzing", "discarded", "drafting"}
      BY <2>4
    <2>8. TaskOk'
      BY <1>0, <2>2, <2>5, <2>6, <2>7 DEF TaskOk, Later
    <2>9. needed' \in SUBSET Departments
      BY <2>1, <2>3
    <2>. QED  BY <1>1, <2>2, <2>5, <2>6, <2>7, <2>8, <2>9
  <1>6. CASE Rfp!AddSections
    <2>1. /\ task.pc = "sections" /\ Rfp!Goto("generate")
          /\ section' = [d \in Departments |->
                           IF d \in needed THEN [Rfp!NoSection EXCEPT !.status = "pending"]
                           ELSE section[d]]
          /\ UNCHANGED <<ticket, needed, thread, document, decision, pressed, broken>>
      BY <1>6 DEF Rfp!AddSections
    <2>2. /\ [Rfp!NoSection EXCEPT !.status = "pending"] \in SectionRow
          /\ [Rfp!NoSection EXCEPT !.status = "pending"].status = "pending"
      BY DEF Rfp!NoSection, SectionRow
    <2>3. task' \in TaskRow /\ task'.pc = "generate"
      BY <1>2, <2>1
    <2>4. ticket = "drafting" /\ Rfp!Present = {}
      BY <1>0, <2>1 DEF TaskOk
    <2>5. \A d \in Departments : section[d].status = "absent"
      BY <2>4 DEF Rfp!Present
    <2>6. /\ section' \in [Departments -> SectionRow]
          /\ \A d \in Departments : section'[d].status = IF d \in needed THEN "pending" ELSE "absent"
      BY <1>0, <2>1, <2>2, <2>5
    <2>7. Rfp!Present' = needed
      BY <1>0, <2>6 DEF Rfp!Present
    <2>8. TaskOk'
      BY <1>0, <2>1, <2>3, <2>4, <2>7 DEF TaskOk, Later
    <2>. QED  BY <1>3, <2>1, <2>3, <2>4, <2>6, <2>8 DEF Later
  <1>7. CASE Rfp!RunGeneration
    <2>1. PICK drafts \in [needed -> Rfp!Generated] : section' = Rfp!Drafted(drafts)
      BY <1>7 DEF Rfp!RunGeneration
    <2>2. /\ task.pc = "generate" /\ ticket = "drafting" /\ ticket' = "under_evaluation"
          /\ task' = [pc |-> "open", opening |-> needed]
          /\ UNCHANGED <<needed, thread, document, decision, pressed, broken>>
      BY <1>7 DEF Rfp!RunGeneration
    <2>3. Rfp!MaxDrafts \in Nat
      BY DraftsAssumption DEF Rfp!MaxDrafts
    <2>4. \A g \in Rfp!Generated : g.draft \in Nat /\ g.iterations \in Nat \ {0}
      <3>1. \A i \in 1..Rfp!MaxDrafts : i \in Nat \ {0}
        BY <2>3
      <3>2. ASSUME NEW g \in Rfp!Generated
            PROVE  \E i \in 1..Rfp!MaxDrafts : g.iterations = i /\ g.draft \in {0, i}
        BY DEF Rfp!Generated, Rfp!DraftPasses, Rfp!DraftingFails
      <3>. QED  BY <3>1, <3>2
    <2>5. ASSUME NEW d \in Departments
          PROVE  /\ section'[d] \in SectionRow /\ section'[d].status = section[d].status
                 /\ d \in needed => section'[d].iterations > 0
      <3>1. CASE d \in needed
        <4>. DEFINE x == [section[d] EXCEPT !.draft = drafts[d].draft, !.iterations = drafts[d].iterations]
        <4>1. section'[d] = x
          BY <2>1, <3>1 DEF Rfp!Drafted
        <4>2. drafts[d].draft \in Nat /\ drafts[d].iterations \in Nat \ {0}
          BY <2>4, <3>1
        <4>3. x \in SectionRow /\ x.status = section[d].status /\ x.iterations = drafts[d].iterations
          BY <1>0, <4>2 DEF SectionRow
        <4>. QED  BY <4>1, <4>2, <4>3
      <3>2. CASE d \notin needed
        BY <1>0, <2>1, <3>2 DEF Rfp!Drafted
      <3>. QED  BY <3>1, <3>2
    <2>6. section' \in [Departments -> SectionRow]
      BY <2>1, <2>5 DEF Rfp!Drafted
    <2>7. Rfp!Present' = Rfp!Present /\ Rfp!Present = needed
      BY <1>0, <2>2, <2>5 DEF Rfp!Present, TaskOk
    <2>8. task' \in TaskRow /\ task'.pc = "open" /\ task'.opening = needed
      BY <1>0, <2>2 DEF TaskRow
    <2>9. \A d \in Departments : ~Opened(thread[d])
      BY <1>0, <2>2 DEF TaskOk, Later
    <2>10. TaskOk'
      BY <1>0, <2>2, <2>5, <2>7, <2>8, <2>9 DEF TaskOk, Later
    <2>11. \A d \in Departments : section'[d].status # "approved"
      BY <1>0, <2>5, <2>9 DEF DepartmentsOk, DepartmentOk, Opened
    <2>. QED  BY <1>3, <2>2, <2>6, <2>8, <2>10, <2>11 DEF Later
  <1>8. CASE Rfp!RereadTicket
    <2>1. /\ task.pc = "open" /\ task.opening = {}
          /\ Rfp!Goto(IF ticket = "under_evaluation" THEN "announce" ELSE "off")
          /\ UNCHANGED <<ticket, needed, section, thread, document, decision, pressed, broken>>
      BY <1>8 DEF Rfp!RereadTicket, Rfp!AllOpen
    <2>2. task' \in TaskRow /\ task'.pc \in {"announce", "off"}
      BY <1>2, <2>1
    <2>3. TaskOk'
      BY <1>0, <2>1, <2>2 DEF TaskOk, Rfp!Present
    <2>. QED  BY <1>0, <1>1, <2>1, <2>2, <2>3 DEF RfpTypes
  <1>9. CASE Rfp!AnnounceWaiting
    <2>1. /\ task.pc = "announce" /\ Rfp!Goto("off") /\ ticket' = "waiting_for_approval"
          /\ UNCHANGED <<needed, section, thread, document, decision, pressed, broken>>
      BY <1>9 DEF Rfp!AnnounceWaiting
    <2>2. task' \in TaskRow /\ task'.pc = "off"
      BY <1>2, <2>1
    <2>3. TaskOk'
      BY <1>0, <2>1, <2>2 DEF TaskOk, Later, Rfp!Present
    <2>. QED  BY <1>0, <1>1, <2>1, <2>2, <2>3 DEF Later
  <1>10. CASE Rfp!TaskFails \/ UNCHANGED Rfp!rfpVars
    <2>1. /\ Rfp!Goto("off") \/ task' = task
          /\ UNCHANGED <<ticket, needed, section, thread, document, decision, pressed, broken>>
      BY <1>10 DEF Rfp!TaskFails, Rfp!rfpVars
    <2>2. task' \in TaskRow /\ (task'.pc = "off" \/ task' = task)
      BY <1>0, <1>2, <2>1
    <2>3. TaskOk'
      BY <1>0, <2>1, <2>2 DEF TaskOk, Rfp!Present
    <2>. QED  BY <1>0, <1>1, <2>1, <2>2, <2>3 DEF RfpTypes
  <1>. QED  BY <1>4, <1>5, <1>6, <1>7, <1>8, <1>9, <1>10

LEMMA OpenThreadStep ==
  ASSUME RfpInv, NEW d \in Departments, Rfp!OpenThread(d)
  PROVE  RfpInv'
  <1>. DEFINE n == IF section[d].iterations = 0 THEN 1 ELSE section[d].iterations
              y == [next |-> "review", outcome |-> "none", draft |-> section[d].draft, iterations |-> n]
              o == task.opening \ {d}
  <1>0. /\ RfpTypes /\ DepartmentsOk /\ TaskOk /\ DocumentOk /\ LastOk /\ task \in TaskRow
        /\ section \in [Departments -> SectionRow] /\ needed \in SUBSET Departments
        /\ thread \in [Departments -> ThreadRow]
    BY DEF RfpInv, RfpTypes
  <1>1. /\ task.pc = "open" /\ d \in task.opening /\ task' = [task EXCEPT !.opening = o]
        /\ thread' = [thread EXCEPT ![d] = y]
        /\ UNCHANGED <<ticket, needed, section, document, decision, pressed, broken>>
    BY DEF Rfp!OpenThread
  <1>2. n \in Nat /\ n > 0
    BY <1>0 DEF SectionRow
  <1>3. y \in ThreadRow /\ y.next = "review" /\ y.outcome = "none" /\ y.iterations = n
    BY <1>0, <1>2 DEF ThreadRow, SectionRow
  <1>. HIDE DEF n, y
  <1>4. o \subseteq needed /\ d \in needed /\ ticket \in Later /\ ~Opened(thread[d])
    BY <1>0, <1>1 DEF TaskOk
  <1>5. task' \in TaskRow /\ task'.pc = "open" /\ task'.opening = o
    BY <1>0, <1>1, <1>4 DEF TaskRow
  <1>6. thread' \in [Departments -> ThreadRow] /\ thread'[d] = y
        /\ \A e \in Departments : e # d => thread'[e] = thread[e]
    BY <1>0, <1>1, <1>3
  <1>7. Opened(y)
    BY <1>3 DEF Opened
  <1>8. RfpTypes'
    BY <1>0, <1>1, <1>5, <1>6 DEF RfpTypes
  <1>9. DepartmentsOk'
    <2>1. DepartmentOk(section[d], y, decision[d], pressed[d], d \in broken)
      <3>1. DepartmentOk(section[d], thread[d], decision[d], pressed[d], d \in broken)
        BY <1>0 DEF DepartmentsOk
      <3>2. section[d].status # "absent"
        BY <1>0, <1>4 DEF TaskOk, Rfp!Present
      <3>3. decision[d].pc = "idle" /\ section[d].status # "approved"
        BY <1>4, <3>1 DEF DepartmentOk, Opened
      <3>. QED  BY <1>2, <1>3, <3>2, <3>3 DEF DepartmentOk
    <2>. QED  BY <1>0, <1>1, <1>6, <2>1 DEF DepartmentsOk
  <1>10. TaskOk'
    <2>1. \A e \in needed : Opened(thread'[e]) <=> e \notin o
      BY <1>0, <1>1, <1>6, <1>7 DEF TaskOk
    <2>2. ticket # "waiting_for_approval"
      BY <1>0, <1>4 DEF TaskOk
    <2>3. Rfp!Present' = Rfp!Present
      BY <1>1 DEF Rfp!Present
    <2>. QED  BY <1>0, <1>1, <1>4, <1>5, <2>1, <2>2, <2>3 DEF TaskOk, Later
  <1>11. Rfp!Present' = Rfp!Present /\ Drafts' = Drafts /\ (Rfp!AllApproved' <=> Rfp!AllApproved)
    BY <1>1 DEF Rfp!Present, Drafts, Rfp!AllApproved
  <1>12. DocumentOk'
    BY <1>0, <1>1, <1>11 DEF DocumentOk, Rfp!NoDocument
  <1>13. LastOk'
    BY <1>0, <1>1, <1>11 DEF LastOk, Rfp!NoDocument
  <1>. QED  BY <1>8, <1>9, <1>10, <1>12, <1>13 DEF RfpInv

\* A decision, as far as the section's row.
LEMMA DecisionStep ==
  ASSUME RfpInv, NEW d \in Departments,
         \/ \E action \in Rfp!Actions : Rfp!Decide(d, action)
         \/ Rfp!Review(d) \/ Rfp!RunNode(d) \/ Rfp!SaveSection(d) \/ Rfp!DecisionFails(d)
  PROVE  RfpInv'
  <1>a. PICK x : x = section[d]
    OBVIOUS
  <1>b. PICK y : y = thread[d]
    OBVIOUS
  <1>c. PICK z : z = decision[d]
    OBVIOUS
  <1>d. PICK p : p = pressed[d]
    OBVIOUS
  <1>e. PICK b : b = broken
    OBVIOUS
  <1>0. /\ RfpTypes /\ TaskOk /\ DocumentOk /\ LastOk
        /\ section \in [Departments -> SectionRow] /\ thread \in [Departments -> ThreadRow]
        /\ decision \in [Departments -> DecisionRow] /\ pressed \in [Departments -> SUBSET Nat]
        /\ b \in SUBSET Departments /\ document \in Contents
        /\ x \in SectionRow /\ y \in ThreadRow /\ z \in DecisionRow /\ p \in SUBSET Nat
        /\ DepartmentOk(x, y, z, p, d \in b)
    BY <1>a, <1>b, <1>c, <1>d, <1>e DEF RfpInv, RfpTypes, DepartmentsOk
  <1>1. /\ Opened(y) => x.iterations > 0 /\ x.status # "absent" /\ y.iterations > 0
        /\ z.pc # "idle" => Opened(y)
    BY <1>0, <1>a, <1>b DEF TaskOk, DepartmentOk, Rfp!Present, Opened
  \* A decision that does not reach the document.
  <1>2. ASSUME NEW x1 \in SectionRow, NEW y1 \in ThreadRow, NEW z1 \in DecisionRow,
               NEW p1 \in SUBSET Nat, NEW b1 \in SUBSET Departments,
               section' = [section EXCEPT ![d] = x1], thread' = [thread EXCEPT ![d] = y1],
               decision' = [decision EXCEPT ![d] = z1], pressed' = [pressed EXCEPT ![d] = p1],
               broken' = b1, b \subseteq b1, b1 \subseteq b \cup {d},
               UNCHANGED <<ticket, needed, document, task>>,
               DepartmentOk(x1, y1, z1, p1, d \in b1), Opened(y), Opened(y1),
               x1.status # "absent", x1.iterations > 0,
               x.status = "approved" => x1.status = "approved" /\ x1.draft = x.draft,
               z1.pc \notin {"document", "done"},
               z.pc \in {"finalize?", "document", "done"} => b1 # {},
               x1.status = "approved" => x.status = "approved" \/ z1.pc = "finalize?"
        PROVE  RfpInv'
    <2>1. /\ RfpTypes' /\ DepartmentsOk' /\ TaskOk' /\ Rfp!Present' = Rfp!Present
          /\ Rfp!AllApproved => Rfp!AllApproved' /\ Drafts' = Drafts
      BY <1>0, <1>2, <1>a, <1>b, <1>e, DepartmentStep
    <2>2. decision'[d] = z1 /\ \A e \in Departments : e # d => decision'[e] = decision[e]
      BY <1>0, <1>2
    <2>3. DocumentOk'
      BY <1>0, <1>2, <2>1, <2>2 DEF DocumentOk, Rfp!NoDocument
    <2>4. LastOk'
      <3>. SUFFICES ASSUME Rfp!AllApproved', broken' = {}  PROVE LastOk'
        BY DEF LastOk
      <3>1. b = {} /\ broken = {} /\ z.pc \notin {"finalize?", "document", "done"}
        BY <1>2, <1>e
      <3>2. CASE Rfp!AllApproved
        <4>1. \A e \in Departments :
                decision[e].pc \in {"finalize?", "document", "done"} => decision'[e] = decision[e]
          BY <1>c, <2>2, <3>1
        <4>. QED  BY <1>0, <1>2, <3>1, <3>2, <4>1 DEF LastOk, Rfp!NoDocument
      <3>3. CASE ~Rfp!AllApproved
        <4>1. document = Rfp!NoDocument /\ document' = document
          BY <1>0, <1>2, <3>3 DEF DocumentOk
        <4>2. x.status # "approved"
          <5>1. Rfp!Present # {} /\ \A e \in Rfp!Present : section'[e].status = "approved"
            BY <2>1 DEF Rfp!AllApproved
          <5>2. \A e \in Rfp!Present : e # d => section'[e] = section[e]
            BY <1>0, <1>2 DEF Rfp!Present
          <5>. QED  BY <1>a, <3>3, <5>1, <5>2 DEF Rfp!AllApproved
        <4>3. x1.status = "approved"
          <5>1. \A e \in Rfp!Present : section'[e].status = "approved"
            BY <2>1 DEF Rfp!AllApproved
          <5>2. d \in Rfp!Present
            BY <1>1, <1>2, <1>a DEF Rfp!Present
          <5>3. section'[d] = x1
            BY <1>0, <1>2
          <5>. QED  BY <5>1, <5>2, <5>3
        <4>4. decision'[d].pc = "finalize?"
          BY <1>2, <2>2, <4>2, <4>3
        <4>. QED  BY <4>1, <4>4 DEF LastOk, Rfp!NoDocument
      <3>. QED  BY <3>2, <3>3
    <2>. QED  BY <2>1, <2>3, <2>4 DEF RfpInv
  <1>3. /\ section = [section EXCEPT ![d] = x] /\ thread = [thread EXCEPT ![d] = y]
        /\ pressed = [pressed EXCEPT ![d] = p]
    BY <1>0, <1>a, <1>b, <1>d
  <1>4. ASSUME NEW action \in Rfp!Actions, Rfp!Decide(d, action)
        PROVE  RfpInv'
    <2>. DEFINE pc == IF y.next = "review" THEN "review" ELSE "node"
                z1 == [Rfp!Idle EXCEPT !.pc = pc, !.action = action]
                p1 == IF action = "approve" THEN p \cup {x.draft} ELSE p
    <2>1. /\ z.pc = "idle" /\ y.next # "none" /\ decision' = [decision EXCEPT ![d] = z1]
          /\ UNCHANGED <<ticket, needed, section, thread, document, task, broken>>
      BY <1>4, <1>a, <1>b, <1>c DEF Rfp!Decide, Rfp!At
    <2>2. pressed' = [pressed EXCEPT ![d] = p1]
      BY <1>0, <1>4, <1>a, <1>d DEF Rfp!Decide
    <2>3. /\ pc \in {"review", "node"} /\ (pc = "review" => y.next = "review")
          /\ (pc = "node" => y.next \in {"approve", "reject", "revise"})
      BY <1>0, <2>1 DEF ThreadRow
    <2>4. action \in {"approve", "reject", "request_changes"}
      BY DEF Rfp!Actions
    <2>5. Rfp!Idle \in DecisionRow
      BY DEF Rfp!Idle, DecisionRow, DecisionPcs, Contents
    <2>. HIDE DEF pc
    <2>6. z1 \in DecisionRow /\ z1.pc = pc /\ z1.action = action
      BY <2>3, <2>4, <2>5 DEF DecisionRow, DecisionPcs
    <2>7. p1 \in SUBSET Nat /\ p \subseteq p1 /\ (action = "approve" => x.draft \in p1)
      BY <1>0 DEF SectionRow
    <2>. HIDE DEF z1, p1
    <2>8. DepartmentOk(x, y, z1, p1, d \in b) /\ Opened(y)
      BY <1>0, <2>1, <2>3, <2>6, <2>7 DEF DepartmentOk, Opened
    <2>. QED  BY <1>0, <1>1, <1>2, <1>3, <1>e, <2>1, <2>2, <2>3, <2>6, <2>7, <2>8
  <1>5. ASSUME NEW pc \in {"node", "save", "finalize?"}, Rfp!Moved(d, pc)
        PROVE  \E z1 \in DecisionRow : /\ decision' = [decision EXCEPT ![d] = z1]
                                       /\ z1.pc = pc /\ z1.action = z.action
    <2>. DEFINE z1 == [z EXCEPT !.pc = pc]
    <2>1. decision' = [decision EXCEPT ![d] = z1]
      BY <1>5, <1>c DEF Rfp!Moved
    <2>2. z1 \in DecisionRow /\ z1.pc = pc /\ z1.action = z.action
      BY <1>0 DEF DecisionRow, DecisionPcs
    <2>. QED  BY <2>1, <2>2
  <1>6. CASE Rfp!Review(d)
    <2>. DEFINE y1 == [y EXCEPT !.next = Rfp!RouteAfterReview(z.action)]
    <2>1. /\ z.pc = "review" /\ Rfp!Moved(d, "node") /\ thread' = [thread EXCEPT ![d] = y1]
          /\ UNCHANGED <<ticket, needed, section, document, task, pressed, broken>>
      BY <1>6, <1>b, <1>c DEF Rfp!Review, Rfp!At
    <2>2. PICK z1 \in DecisionRow : /\ decision' = [decision EXCEPT ![d] = z1]
                                    /\ z1.pc = "node" /\ z1.action = z.action
      BY <1>5, <2>1
    <2>3. /\ Rfp!RouteAfterReview(z.action) \in {"approve", "reject", "revise"}
          /\ Rfp!RouteAfterReview(z.action) = "approve" => z.action = "approve"
      BY DEF Rfp!RouteAfterReview
    <2>4. /\ y1 \in ThreadRow /\ y1.next = Rfp!RouteAfterReview(z.action) /\ y1.outcome = y.outcome
          /\ y1.iterations = y.iterations
      BY <1>0, <2>3 DEF ThreadRow
    <2>. HIDE DEF y1
    <2>5. DepartmentOk(x, y1, z1, p, d \in b) /\ Opened(y1) /\ Opened(y)
      BY <1>0, <1>1, <2>1, <2>2, <2>3, <2>4 DEF DepartmentOk, Opened
    <2>. QED  BY <1>0, <1>1, <1>2, <1>3, <1>e, <2>1, <2>2, <2>4, <2>5
  <1>7. CASE Rfp!RunNode(d)
    <2>1. PICK y1 \in Rfp!NodeResults(d) : thread' = [thread EXCEPT ![d] = y1]
      BY <1>7 DEF Rfp!RunNode
    <2>2. /\ z.pc = "node" /\ Rfp!Moved(d, "save")
          /\ UNCHANGED <<ticket, needed, section, document, task, pressed, broken>>
      BY <1>7, <1>c DEF Rfp!RunNode, Rfp!At
    <2>3. PICK z1 \in DecisionRow : /\ decision' = [decision EXCEPT ![d] = z1]
                                    /\ z1.pc = "save" /\ z1.action = z.action
      BY <1>5, <2>2
    <2>4. \A outcome \in {"approved", "rejected", "changes_exhausted", "generation_error"} :
            /\ Rfp!Ended(d, outcome) \in ThreadRow /\ Rfp!Ended(d, outcome).next = "none"
            /\ Rfp!Ended(d, outcome).outcome = outcome
            /\ Rfp!Ended(d, outcome).iterations = y.iterations
      BY <1>0, <1>b DEF Rfp!Ended, ThreadRow
    <2>5. /\ Rfp!Redrafted(d) \in ThreadRow /\ Rfp!Redrafted(d).next = "review"
          /\ Rfp!Redrafted(d).outcome = y.outcome
          /\ Rfp!Redrafted(d).iterations = y.iterations + 1
      <3>. DEFINE w == [y EXCEPT !.next = "review", !.iterations = y.iterations + 1,
                                 !.draft = y.iterations + 1]
      <3>1. Rfp!Redrafted(d) = w
        BY <1>b DEF Rfp!Redrafted
      <3>2. y.iterations + 1 \in Nat
        BY <1>0 DEF ThreadRow
      <3>3. w \in ThreadRow /\ w.next = "review" /\ w.outcome = y.outcome /\ w.iterations = y.iterations + 1
        BY <1>0, <3>2 DEF ThreadRow
      <3>. QED  BY <3>1, <3>3
    <2>6. \/ y.next = "approve" /\ y1 = Rfp!Ended(d, "approved")
          \/ y1 \in {Rfp!Ended(d, "rejected"), Rfp!Ended(d, "changes_exhausted"),
                     Rfp!Ended(d, "generation_error")}
          \/ y1 = Rfp!Redrafted(d)
      BY <1>b, <2>1 DEF Rfp!NodeResults
    <2>7. y.iterations \in Nat /\ y.iterations > 0 /\ y.outcome = "none"
      BY <1>0, <1>1, <2>2 DEF DepartmentOk, ThreadRow
    <2>8. /\ y1 \in ThreadRow /\ y1.next \in {"none", "review"} /\ y1.iterations > 0
          /\ (y1.next = "none" <=> y1.outcome # "none")
          /\ y1.outcome = "approved" => y.next = "approve"
      BY <2>4, <2>5, <2>6, <2>7
    <2>9. DepartmentOk(x, y1, z1, p, d \in b) /\ Opened(y1) /\ Opened(y)
      BY <1>0, <1>1, <2>2, <2>3, <2>7, <2>8 DEF DepartmentOk, Opened
    <2>. QED  BY <1>0, <1>1, <1>2, <1>3, <1>e, <2>1, <2>2, <2>3, <2>8, <2>9
  <1>8. CASE Rfp!SaveSection(d)
    <2>. DEFINE x1 == IF y.next # "none"
                      THEN [status |-> "pending", draft |-> y.draft, iterations |-> y.iterations]
                      ELSE [x EXCEPT !.status = Rfp!SectionStatus(y.outcome)]
    <2>1. /\ z.pc = "save" /\ Rfp!Moved(d, "finalize?") /\ section' = [section EXCEPT ![d] = x1]
          /\ UNCHANGED <<ticket, needed, thread, document, task, pressed, broken>>
      BY <1>8, <1>a, <1>b, <1>c DEF Rfp!SaveSection, Rfp!Saved, Rfp!At
    <2>2. PICK z1 \in DecisionRow : /\ decision' = [decision EXCEPT ![d] = z1]
                                    /\ z1.pc = "finalize?" /\ z1.action = z.action
      BY <1>5, <2>1
    <2>3. /\ Rfp!SectionStatus(y.outcome) \in {"approved", "rejected", "changes_requested"}
          /\ Rfp!SectionStatus(y.outcome) = "approved" <=> y.outcome = "approved"
      BY DEF Rfp!SectionStatus
    <2>4. Opened(y) /\ x.iterations > 0 /\ y.iterations > 0 /\ y.next \in {"none", "review"}
      BY <1>0, <1>1, <2>1 DEF DepartmentOk
    <2>5. CASE y.next # "none"
      <3>1. /\ x1 \in SectionRow /\ x1.status = "pending" /\ x1.iterations = y.iterations
        BY <1>0, <2>5 DEF SectionRow, ThreadRow
      <3>. HIDE DEF x1
      <3>2. y.next = "review" /\ y.outcome = "none" /\ x.status # "approved"
        BY <1>0, <2>4, <2>5 DEF DepartmentOk
      <3>3. DepartmentOk(x1, y, z1, p, d \in b)
        BY <2>2, <2>4, <3>1, <3>2 DEF DepartmentOk
      <3>. QED  BY <1>0, <1>2, <1>3, <1>e, <2>1, <2>2, <2>4, <3>1, <3>2, <3>3
    <2>6. CASE y.next = "none"
      <3>1. /\ x1 \in SectionRow /\ x1.status = Rfp!SectionStatus(y.outcome)
            /\ x1.iterations = x.iterations /\ x1.draft = x.draft
        BY <1>0, <2>3, <2>6 DEF SectionRow
      <3>. HIDE DEF x1
      <3>2. DepartmentOk(x1, y, z1, p, d \in b)
        BY <1>0, <2>2, <2>3, <2>4, <2>6, <3>1 DEF DepartmentOk
      <3>3. x.status = "approved" => x1.status = "approved"
        BY <1>0, <2>3, <3>1 DEF DepartmentOk
      <3>4. x1.status # "absent"
        BY <2>3, <3>1
      <3>. QED  BY <1>0, <1>2, <1>3, <1>e, <2>1, <2>2, <2>4, <3>1, <3>2, <3>3, <3>4
    <2>. QED  BY <2>5, <2>6
  <1>9. CASE Rfp!DecisionFails(d)
    <2>1. /\ z.pc # "idle" /\ decision' = [decision EXCEPT ![d] = Rfp!Idle]
          /\ UNCHANGED <<ticket, needed, section, thread, document, task, pressed>>
      BY <1>9, <1>c DEF Rfp!DecisionFails, Rfp!At, Rfp!End
    <2>2. PICK b1 : b1 = b \cup {d}
      OBVIOUS
    <2>3. broken' = b1 /\ b1 \in SUBSET Departments /\ b1 # {} /\ d \in b1
      BY <1>0, <1>9, <1>e, <2>2 DEF Rfp!DecisionFails
    <2>4. PICK z1 : z1 = Rfp!Idle
      OBVIOUS
    <2>5. z1 \in DecisionRow /\ z1.pc = "idle" /\ z1.action = "none"
      BY <2>4 DEF Rfp!Idle, DecisionRow, DecisionPcs, Contents
    <2>6. DepartmentOk(x, y, z1, p, d \in b1) /\ Opened(y)
      BY <1>0, <1>1, <2>1, <2>3, <2>5 DEF DepartmentOk
    <2>7. section' = [section EXCEPT ![d] = x] /\ thread' = [thread EXCEPT ![d] = y]
          /\ pressed' = [pressed EXCEPT ![d] = p] /\ decision' = [decision EXCEPT ![d] = z1]
      BY <1>3, <2>1, <2>4
    <2>8. x.status # "absent" /\ x.iterations > 0 /\ b \subseteq b1 /\ b1 \subseteq b \cup {d}
      BY <1>1, <2>1, <2>2
    <2>. QED  BY <1>0, <1>2, <2>1, <2>3, <2>5, <2>6, <2>7, <2>8
  <1>. QED  BY <1>4, <1>6, <1>7, <1>8, <1>9

\* ... and from there to the document and the ticket.
LEMMA FinalStep ==
  ASSUME RfpInv, NEW d \in Departments,
         Rfp!MaybeFinalize(d) \/ Rfp!AddFinalDocument(d) \/ Rfp!FinishTicket(d)
  PROVE  RfpInv'
  <1>a. PICK x : x = section[d]
    OBVIOUS
  <1>b. PICK y : y = thread[d]
    OBVIOUS
  <1>c. PICK z : z = decision[d]
    OBVIOUS
  <1>d. PICK p : p = pressed[d]
    OBVIOUS
  <1>e. PICK b : b = broken
    OBVIOUS
  <1>0. /\ RfpTypes /\ TaskOk /\ DocumentOk /\ LastOk
        /\ section \in [Departments -> SectionRow] /\ thread \in [Departments -> ThreadRow]
        /\ decision \in [Departments -> DecisionRow] /\ pressed \in [Departments -> SUBSET Nat]
        /\ b \in SUBSET Departments /\ document \in Contents
        /\ x \in SectionRow /\ y \in ThreadRow /\ z \in DecisionRow /\ p \in SUBSET Nat
        /\ DepartmentOk(x, y, z, p, d \in b)
    BY <1>a, <1>b, <1>c, <1>d, <1>e DEF RfpInv, RfpTypes, DepartmentsOk
  <1>1. /\ section = [section EXCEPT ![d] = x] /\ thread = [thread EXCEPT ![d] = y]
        /\ pressed = [pressed EXCEPT ![d] = p]
    BY <1>0, <1>a, <1>b, <1>d
  <1>2. ASSUME NEW z1 \in DecisionRow, decision' = [decision EXCEPT ![d] = z1],
               z1.pc \in {"idle", "document", "done"}, z.pc \in {"finalize?", "document", "done"},
               UNCHANGED <<needed, section, thread, task, pressed, broken>>,
               document' \in Contents, ticket' = ticket \/ ticket' = "done"
        PROVE  /\ RfpTypes' /\ DepartmentsOk' /\ TaskOk' /\ Rfp!Present' = Rfp!Present
               /\ Drafts' = Drafts /\ (Rfp!AllApproved' <=> Rfp!AllApproved)
               /\ decision'[d] = z1 /\ \A e \in Departments : e # d => decision'[e] = decision[e]
    <2>1. DepartmentOk(x, y, z1, p, d \in b) /\ Opened(y)
      BY <1>0, <1>2 DEF DepartmentOk
    <2>2. x.iterations > 0 /\ x.status # "absent"
      BY <1>0, <1>a, <1>b, <2>1 DEF TaskOk, DepartmentOk, Rfp!Present
    <2>3. /\ section' = [section EXCEPT ![d] = x] /\ thread' = [thread EXCEPT ![d] = y]
          /\ pressed' = [pressed EXCEPT ![d] = p] /\ broken' = b
      BY <1>1, <1>2, <1>e
    <2>4. /\ RfpTypes' /\ DepartmentsOk' /\ TaskOk' /\ Rfp!Present' = Rfp!Present
      BY <1>0, <1>2, <1>a, <1>b, <1>e, <2>1, <2>2, <2>3, DepartmentStep
    <2>5. Drafts' = Drafts /\ (Rfp!AllApproved' <=> Rfp!AllApproved)
      BY <1>2, <2>4 DEF Drafts, Rfp!AllApproved
    <2>. QED  BY <1>0, <1>2, <2>4, <2>5
  <1>3. PICK i : i = Rfp!Idle
    OBVIOUS
  <1>4. i \in DecisionRow /\ i.pc = "idle"
    BY <1>3 DEF Rfp!Idle, DecisionRow, DecisionPcs, Contents
  <1>5. CASE Rfp!MaybeFinalize(d) /\ Rfp!AllApproved
    <2>1. PICK c : c = Drafts
      OBVIOUS
    <2>2. c \in Contents
      BY <1>0, <2>1, DraftsAreContents
    <2>. DEFINE z1 == [z EXCEPT !.pc = "document", !.content = c]
    <2>3. /\ z.pc = "finalize?" /\ decision' = [decision EXCEPT ![d] = z1]
          /\ UNCHANGED <<ticket, needed, section, thread, document, task, pressed, broken>>
      BY <1>5, <1>0, <1>c, <2>1 DEF Rfp!MaybeFinalize, Rfp!Finalizable, Rfp!At, Drafts, DecisionRow
    <2>4. z1 \in DecisionRow /\ z1.pc = "document" /\ z1.content = c
      BY <1>0, <2>2 DEF DecisionRow, DecisionPcs
    <2>. HIDE DEF z1
    <2>5. /\ RfpTypes' /\ DepartmentsOk' /\ TaskOk' /\ Drafts' = Drafts /\ Rfp!AllApproved'
          /\ decision'[d] = z1 /\ \A e \in Departments : e # d => decision'[e] = decision[e]
      BY <1>0, <1>2, <1>5, <2>3, <2>4
    <2>6. DocumentOk'
      BY <1>0, <2>1, <2>3, <2>4, <2>5 DEF DocumentOk, Rfp!NoDocument
    <2>7. LastOk'
      <3>1. ticket \in {"done", "waiting_for_approval"} \/ document = Rfp!NoDocument \/ broken # {}
            \/ \E e \in Departments : decision[e].pc = "done" /\ e # d
        BY <1>0, <1>5, <1>c, <2>3 DEF LastOk
      <3>. QED  BY <2>3, <2>4, <2>5, <3>1 DEF LastOk, Rfp!NoDocument
    <2>. QED  BY <2>5, <2>6, <2>7 DEF RfpInv
  <1>6. CASE Rfp!MaybeFinalize(d) /\ ~Rfp!AllApproved
    <2>1. /\ z.pc = "finalize?" /\ decision' = [decision EXCEPT ![d] = i]
          /\ UNCHANGED <<ticket, needed, section, thread, document, task, pressed, broken>>
      BY <1>6, <1>c, <1>3 DEF Rfp!MaybeFinalize, Rfp!Finalizable, Rfp!At, Rfp!End
    <2>2. /\ RfpTypes' /\ DepartmentsOk' /\ TaskOk' /\ Drafts' = Drafts /\ ~Rfp!AllApproved'
          /\ decision'[d] = i /\ \A e \in Departments : e # d => decision'[e] = decision[e]
      BY <1>0, <1>2, <1>4, <1>6, <2>1
    <2>3. DocumentOk'
      BY <1>0, <1>4, <1>6, <2>1, <2>2 DEF DocumentOk, Rfp!NoDocument
    <2>4. LastOk'
      BY <2>2 DEF LastOk
    <2>. QED  BY <2>2, <2>3, <2>4 DEF RfpInv
  <1>7. CASE Rfp!AddFinalDocument(d) /\ document = Rfp!NoDocument
    <2>. DEFINE z1 == [z EXCEPT !.pc = "done"]
    <2>1. /\ z.pc = "document" /\ document' = z.content /\ decision' = [decision EXCEPT ![d] = z1]
          /\ UNCHANGED <<ticket, needed, section, thread, task, pressed, broken>>
      BY <1>7, <1>c DEF Rfp!AddFinalDocument, Rfp!At, Rfp!Moved
    <2>2. z1 \in DecisionRow /\ z1.pc = "done" /\ z.content \in Contents
      BY <1>0 DEF DecisionRow, DecisionPcs
    <2>. HIDE DEF z1
    <2>3. Rfp!AllApproved /\ document' = Drafts
      BY <1>0, <1>c, <2>1 DEF DocumentOk
    <2>4. document' # Rfp!NoDocument
      BY <1>0, <2>3, DraftsAreContents DEF Rfp!AllApproved
    <2>5. /\ RfpTypes' /\ DepartmentsOk' /\ TaskOk' /\ Drafts' = Drafts /\ Rfp!AllApproved'
          /\ decision'[d] = z1 /\ \A e \in Departments : e # d => decision'[e] = decision[e]
      BY <1>0, <1>2, <2>1, <2>2, <2>3
    <2>6. DocumentOk'
      BY <1>0, <2>2, <2>3, <2>4, <2>5 DEF DocumentOk, Rfp!NoDocument
    <2>7. LastOk'
      BY <2>2, <2>4, <2>5 DEF LastOk, Rfp!NoDocument
    <2>. QED  BY <2>5, <2>6, <2>7 DEF RfpInv
  <1>8. CASE Rfp!AddFinalDocument(d) /\ document # Rfp!NoDocument
    <2>1. /\ z.pc = "document" /\ decision' = [decision EXCEPT ![d] = i]
          /\ UNCHANGED <<ticket, needed, section, thread, document, task, pressed, broken>>
      BY <1>8, <1>c, <1>3 DEF Rfp!AddFinalDocument, Rfp!At, Rfp!End
    <2>2. Rfp!AllApproved
      BY <1>0, <1>8 DEF DocumentOk
    <2>3. /\ RfpTypes' /\ DepartmentsOk' /\ TaskOk' /\ Drafts' = Drafts /\ Rfp!AllApproved'
          /\ decision'[d] = i /\ \A e \in Departments : e # d => decision'[e] = decision[e]
      BY <1>0, <1>2, <1>4, <2>1, <2>2
    <2>4. DocumentOk'
      BY <1>0, <1>4, <2>1, <2>2, <2>3 DEF DocumentOk, Rfp!NoDocument
    <2>5. LastOk'
      <3>1. ticket \in {"done", "waiting_for_approval"} \/ broken # {}
            \/ \E e \in Departments : decision[e].pc = "done" /\ e # d
        BY <1>0, <1>8, <1>c, <2>1, <2>2 DEF LastOk
      <3>. QED  BY <1>8, <2>1, <2>3, <3>1 DEF LastOk, Rfp!NoDocument
    <2>. QED  BY <2>3, <2>4, <2>5 DEF RfpInv
  <1>9. CASE Rfp!FinishTicket(d)
    <2>1. /\ z.pc = "done" /\ decision' = [decision EXCEPT ![d] = i] /\ ticket' = "done"
          /\ UNCHANGED <<needed, section, thread, document, task, pressed, broken>>
      BY <1>9, <1>c, <1>3 DEF Rfp!FinishTicket, Rfp!At, Rfp!End
    <2>2. Rfp!AllApproved /\ document # Rfp!NoDocument
      BY <1>0, <1>c, <2>1 DEF DocumentOk
    <2>3. /\ RfpTypes' /\ DepartmentsOk' /\ TaskOk' /\ Drafts' = Drafts /\ Rfp!AllApproved'
          /\ decision'[d] = i /\ \A e \in Departments : e # d => decision'[e] = decision[e]
      BY <1>0, <1>2, <1>4, <2>1, <2>2
    <2>4. DocumentOk'
      BY <1>0, <1>4, <2>1, <2>2, <2>3 DEF DocumentOk, Rfp!NoDocument
    <2>5. LastOk'
      BY <2>1, <2>2 DEF LastOk, Rfp!NoDocument
    <2>. QED  BY <2>3, <2>4, <2>5 DEF RfpInv
  <1>. QED  BY <1>5, <1>6, <1>7, <1>8, <1>9

LEMMA RfpInvariance == Rfp!RfpSpec => []RfpInv
  <1>1. Rfp!RfpInit => RfpInv
    <2>. SUFFICES ASSUME Rfp!RfpInit  PROVE RfpInv
      OBVIOUS
    <2>1. /\ ticket = "none" /\ needed = {} /\ document = Rfp!NoDocument /\ broken = {}
          /\ section = [d \in Departments |-> Rfp!NoSection]
          /\ thread = [d \in Departments |-> Rfp!NoThread]
          /\ decision = [d \in Departments |-> Rfp!Idle]
          /\ pressed = [d \in Departments |-> {}] /\ task = [pc |-> "off", opening |-> {}]
      BY DEF Rfp!RfpInit
    <2>2. Rfp!NoSection \in SectionRow /\ Rfp!NoSection.status = "absent"
      BY DEF Rfp!NoSection, SectionRow
    <2>3. /\ Rfp!NoThread \in ThreadRow /\ Rfp!NoThread.next = "none" /\ Rfp!NoThread.outcome = "none"
      BY DEF Rfp!NoThread, ThreadRow
    <2>4. Rfp!Idle \in DecisionRow /\ Rfp!Idle.pc = "idle"
      BY DEF Rfp!Idle, DecisionRow, DecisionPcs, Contents
    <2>5. task \in TaskRow /\ task.pc = "off"
      BY <2>1 DEF TaskRow
    <2>6. RfpTypes
      BY <2>1, <2>2, <2>3, <2>4, <2>5 DEF RfpTypes, Contents
    <2>7. DepartmentsOk
      BY <2>1, <2>2, <2>3, <2>4 DEF DepartmentsOk, DepartmentOk, Opened
    <2>8. Rfp!Present = {} /\ ~Rfp!AllApproved
      BY <2>1, <2>2 DEF Rfp!Present, Rfp!AllApproved
    <2>9. TaskOk
      BY <2>1, <2>3, <2>5, <2>8 DEF TaskOk, Opened, Later
    <2>10. DocumentOk /\ LastOk
      BY <2>1, <2>4, <2>8 DEF DocumentOk, LastOk
    <2>. QED  BY <2>6, <2>7, <2>9, <2>10 DEF RfpInv
  <1>2. RfpInv /\ [Rfp!RfpNext]_Rfp!rfpVars => RfpInv'
    BY TaskStep, OpenThreadStep, DecisionStep, FinalStep DEF Rfp!RfpNext
  <1>. QED  BY <1>1, <1>2, PTL DEF Rfp!RfpSpec

\* submit_decision, _maybe_finalize: every department of a final document is
\* approved, and the document holds the very draft that a manager was looking
\* at when approving it.  For any number of departments: an approved section
\* is never written again, because its thread has ended.
THEOREM DocumentWasApprovedHolds == Rfp!RfpSpec => []DocumentWasApproved
  <1>1. ASSUME RfpInv  PROVE DocumentWasApproved
    <2>1. ASSUME document # Rfp!NoDocument, NEW d \in Rfp!Present
          PROVE  /\ section[d].status = "approved" /\ document[d] = section[d].draft
                 /\ document[d] \in pressed[d]
      <3>1. d \in Departments /\ Rfp!AllApproved /\ document = Drafts
        BY <1>1, <2>1 DEF RfpInv, DocumentOk, Rfp!Present
      <3>2. section[d].status = "approved" /\ document[d] = section[d].draft
        BY <2>1, <3>1 DEF Rfp!AllApproved, Drafts
      <3>3. section[d].draft \in pressed[d]
        BY <1>1, <3>1, <3>2 DEF RfpInv, DepartmentsOk, DepartmentOk
      <3>. QED  BY <3>2, <3>3
    <2>. QED  BY <2>1 DEF DocumentWasApproved, Rfp!DocumentWasApproved
  <1>. QED  BY <1>1, RfpInvariance, PTL

\* run_generation_for_ticket, start_ticket_approval, submit_decision: a ticket
\* says only where it really is: it is drafted, then decidable, and finalized by
\* its last approval, however the decisions and the task interleave and fail.
THEOREM TicketsGoOnHolds == Rfp!RfpSpec => []TicketsGoOn
  <1>1. ASSUME RfpInv  PROVE TicketsGoOn
    <2>1. Rfp!LastApprovalFinalizes
      BY <1>1 DEF RfpInv, LastOk, Rfp!LastApprovalFinalizes, Rfp!At
    <2>2. Rfp!WaitingIsDecidable
      <3>1. ASSUME ticket = "waiting_for_approval", NEW d \in Rfp!Present \ broken,
                   section[d].status = "pending", decision[d].pc = "idle"
            PROVE  thread[d].next = "review"
        <4>1. d \in Departments /\ Opened(thread[d])
          BY <1>1, <3>1 DEF RfpInv, TaskOk, Rfp!Present, Later
        <4>. QED  BY <1>1, <3>1, <4>1 DEF RfpInv, DepartmentsOk, DepartmentOk
      <3>. QED  BY <3>1 DEF Rfp!WaitingIsDecidable, Rfp!At
    <2>3. Rfp!EvaluatedIsDrafted
      BY <1>1 DEF RfpInv, TaskOk, Later, Rfp!EvaluatedIsDrafted
    <2>. QED  BY <2>1, <2>2, <2>3 DEF TicketsGoOn, Rfp!TicketsGoOn
  <1>. QED  BY <1>1, RfpInvariance, PTL

-----------------------------------------------------------------------------
(* The memory.                                                               *)

None(S)     == S \cup {"none"}
ProposalRow == [status: {"none", "pending", "discarded", "rejected", "approved", "deleted"},
                conversation: None(Conversations), subject: None(Subjects), text: None(Texts)]
AuditRow    == [proposal: None(Proposals), action: {"none", "approve", "reject", "edit"}]
FactRow     == [version: Nat, confirmations: Nat, text: None(Texts)]
VersionRow  == [proposal: Proposals, decision: DecisionIds, text: None(Texts)]
TurnRow     == [pc: {"start", "run", "discard", "done"}, conversation: None(Conversations),
                read: None(Proposals)]
DeciderPcs  == {"start", "lock", "locked", "keyed", "done"}
DeciderRow  == [pc: DeciderPcs, id: None(DecisionIds), proposal: None(Proposals),
                action: {"none", "approve", "reject", "edit"}, edit: None(Texts), fact: FactRow]
PurgeRow    == [pc: {"idle", "delete", "done"}, ids: SUBSET Proposals]

MemoryTypes ==
  /\ proposal \in [Proposals -> ProposalRow] /\ audit \in [DecisionIds -> AuditRow]
  /\ fact \in [Subjects -> FactRow] /\ versions \in [Subjects -> Seq(VersionRow)]
  /\ turnOf \in [Turns -> TurnRow] /\ decider \in [Deciders -> DeciderRow]
  /\ purge \in PurgeRow

\* What a decision holds: its row, which is pending for as long, and its key,
\* whose fact is as it was read.
Holding    == {"locked", "keyed"}
Subject(r) == proposal[decider[r].proposal].subject
DeciderOk(r) ==
  /\ decider[r].pc \in Holding \cup {"lock"} =>
       /\ decider[r].id \in DecisionIds /\ decider[r].proposal \in Proposals
       /\ decider[r].action \in {"approve", "reject", "edit"}
  /\ decider[r].pc \in Holding =>
       /\ proposal[decider[r].proposal].status = "pending"
       /\ decider[r].proposal \notin purge.ids
  /\ decider[r].pc = "keyed" => decider[r].fact = fact[Subject(r)] /\ decider[r].action = "approve"
Apart(r, q) ==
  /\ decider[r].pc \in Holding /\ decider[q].pc \in Holding
       => decider[r].proposal # decider[q].proposal
  /\ decider[r].pc = "keyed" /\ decider[q].pc = "keyed" => Subject(r) # Subject(q)
LocksOk == /\ \A r \in Deciders : DeciderOk(r)
           /\ \A r, q \in Deciders : r # q => Apart(r, q)

ProposalsOk ==
  /\ \A p \in Proposals : proposal[p].status = "pending" => proposal[p].subject \in Subjects
  /\ \A p \in purge.ids : proposal[p].status = "pending"

\* A proposal is concluded once, and then it is not pending any more.
Concludes(a) == a.action \in {"approve", "reject"}
Settled      == {"rejected", "approved", "discarded"}
AuditOk ==
  /\ \A i \in DecisionIds : \/ audit[i].action = "none" /\ audit[i].proposal = "none"
                            \/ audit[i].action # "none" /\ audit[i].proposal \in Proposals
  /\ \A i \in DecisionIds : Concludes(audit[i]) => proposal[audit[i].proposal].status \in Settled
  /\ \A i, j \in DecisionIds :
       Concludes(audit[i]) /\ Concludes(audit[j]) /\ audit[i].proposal = audit[j].proposal => i = j

\* The versions of all facts are the approvals, one each.
Versions == UNION {{s} \X DOMAIN versions[s] : s \in Subjects}
Entry(v) == versions[v[1]][v[2]]
VersionsOk ==
  /\ \A v \in Versions : /\ audit[Entry(v).decision].action = "approve"
                         /\ audit[Entry(v).decision].proposal = Entry(v).proposal
  /\ \A v, w \in Versions : Entry(v).decision = Entry(w).decision => v = w
  /\ \A i \in DecisionIds : audit[i].action = "approve" => \E v \in Versions : Entry(v).decision = i

\* A fact counts its versions and says what the last of them says.
FactsOk ==
  \A s \in Subjects :
    /\ fact[s].version = Len(versions[s]) /\ fact[s].confirmations = Len(versions[s])
    /\ Len(versions[s]) > 0 => fact[s].text = versions[s][Len(versions[s])].text

MemoryInv == MemoryTypes /\ LocksOk /\ ProposalsOk /\ AuditOk /\ VersionsOk /\ FactsOk

\* Decisions that approve nothing leave the versions and their approvals.
LEMMA VersionsUntouched ==
  ASSUME VersionsOk, versions' = versions,
         \A v \in Versions : audit'[Entry(v).decision] = audit[Entry(v).decision],
         \A i \in DecisionIds : audit'[i].action = "approve" => audit[i].action = "approve"
  PROVE  VersionsOk'
  <1>1. Versions' = Versions /\ \A v \in Versions : Entry(v)' = Entry(v)
    BY DEF Versions, Entry
  <1>2. \A v \in Versions : /\ audit'[Entry(v)'.decision].action = "approve"
                           /\ audit'[Entry(v)'.decision].proposal = Entry(v)'.proposal
    BY <1>1 DEF VersionsOk
  <1>3. \A v, w \in Versions : Entry(v)'.decision = Entry(w)'.decision => v = w
    BY <1>1 DEF VersionsOk
  <1>4. \A i \in DecisionIds : audit'[i].action = "approve" => \E v \in Versions : Entry(v)'.decision = i
    BY <1>1 DEF VersionsOk
  <1>. QED  BY <1>1, <1>2, <1>3, <1>4 DEF VersionsOk

\* Steps that change rows nobody holds: the turns and the job.
LEMMA RowsNobodyHolds ==
  ASSUME MemoryInv, UNCHANGED <<audit, fact, versions, decider>>,
         proposal' \in [Proposals -> ProposalRow], turnOf' \in [Turns -> TurnRow],
         purge' \in PurgeRow,
         \A p \in Proposals : proposal'[p] # proposal[p] => Memory!RowHolders(p) = {},
         \A p \in Proposals : proposal[p].status \in Settled => proposal'[p].status \in Settled,
         \A p \in Proposals : proposal'[p].status = "pending" => proposal'[p].subject \in Subjects,
         \A p \in purge'.ids : proposal'[p].status = "pending" /\ Memory!RowHolders(p) = {}
  PROVE  MemoryInv'
  <1>0. MemoryTypes /\ LocksOk /\ AuditOk /\ VersionsOk /\ FactsOk
    BY DEF MemoryInv
  <1>1. MemoryTypes'
    BY <1>0 DEF MemoryTypes
  <1>2. ASSUME NEW r \in Deciders, decider[r].pc \in Holding
        PROVE  /\ decider[r].proposal \in Proposals /\ decider[r].proposal \notin purge'.ids
               /\ proposal'[decider[r].proposal] = proposal[decider[r].proposal]
    <2>1. decider[r].proposal \in Proposals
      BY <1>0, <1>2 DEF LocksOk, DeciderOk
    <2>2. r \in Memory!RowHolders(decider[r].proposal)
      BY <1>2 DEF Memory!RowHolders, Holding
    <2>. QED  BY <2>1, <2>2
  <1>3. LocksOk'
    <2>1. ASSUME NEW r \in Deciders
          PROVE  DeciderOk(r)'
      <3>1. DeciderOk(r)
        BY <1>0 DEF LocksOk
      <3>2. CASE decider[r].pc \in Holding
        BY <1>2, <3>1, <3>2 DEF DeciderOk, Subject
      <3>3. CASE decider[r].pc \notin Holding
        BY <3>1, <3>3 DEF DeciderOk, Holding
      <3>. QED  BY <3>2, <3>3
    <2>2. ASSUME NEW r \in Deciders, NEW q \in Deciders, r # q
          PROVE  Apart(r, q)'
      <3>1. Apart(r, q)
        BY <1>0, <2>2 DEF LocksOk
      <3>2. CASE decider[r].pc \in Holding /\ decider[q].pc \in Holding
        BY <1>2, <3>1, <3>2 DEF Apart, Subject
      <3>3. CASE ~(decider[r].pc \in Holding /\ decider[q].pc \in Holding)
        BY <3>3 DEF Apart, Holding
      <3>. QED  BY <3>2, <3>3
    <2>. QED  BY <2>1, <2>2 DEF LocksOk
  <1>4. ProposalsOk'
    BY DEF ProposalsOk
  <1>5. AuditOk'
    <2>1. ASSUME NEW i \in DecisionIds, Concludes(audit[i])
          PROVE  proposal'[audit[i].proposal].status \in Settled
      <3>1. audit[i].proposal \in Proposals /\ proposal[audit[i].proposal].status \in Settled
        BY <1>0, <2>1 DEF AuditOk, Concludes
      <3>. QED  BY <3>1
    <2>. QED  BY <1>0, <2>1 DEF AuditOk
  <1>6. VersionsOk' /\ FactsOk'
    BY <1>0 DEF VersionsOk, FactsOk, Versions, Entry
  <1>. QED  BY <1>1, <1>3, <1>4, <1>5, <1>6 DEF MemoryInv

LEMMA TurnsAndPurge ==
  ASSUME MemoryInv,
         \/ \E r \in Turns : \/ Memory!Discard(r) \/ Memory!CreateProposal(r)
                             \/ \E c \in Conversations : Memory!ReadPending(r, c)
         \/ Memory!SelectExpired \/ Memory!DeleteExpired \/ UNCHANGED Memory!memoryVars
  PROVE  MemoryInv'
  <1>0. /\ MemoryTypes /\ LocksOk /\ ProposalsOk
        /\ proposal \in [Proposals -> ProposalRow] /\ turnOf \in [Turns -> TurnRow]
        /\ purge \in PurgeRow /\ purge.ids \in SUBSET Proposals
    BY DEF MemoryInv, MemoryTypes, PurgeRow
  <1>1. \A p \in Proposals : Memory!RowHolders(p) # {} => proposal[p].status = "pending"
    BY <1>0 DEF LocksOk, DeciderOk, Memory!RowHolders, Holding
  <1>2. \A p \in purge.ids : Memory!RowHolders(p) = {} /\ proposal[p].status = "pending"
    BY <1>0 DEF LocksOk, DeciderOk, Memory!RowHolders, Holding, ProposalsOk
  <1>3. ASSUME NEW r \in Turns, NEW t \in TurnRow, Memory!Turned(r, t)
        PROVE  turnOf' \in [Turns -> TurnRow]
    BY <1>0, <1>3 DEF Memory!Turned
  <1>4. ASSUME UNCHANGED <<proposal, audit, fact, versions, decider, purge>>,
               turnOf' \in [Turns -> TurnRow]
        PROVE  MemoryInv'
    BY <1>0, <1>2, <1>4, RowsNobodyHolds DEF ProposalsOk
  <1>5. ASSUME NEW r \in Turns, NEW pc \in {"run", "done"}
        PROVE  [turnOf[r] EXCEPT !.pc = pc] \in TurnRow
    BY <1>0 DEF TurnRow
  <1>6. ASSUME NEW r \in Turns, NEW c \in Conversations, Memory!ReadPending(r, c)
        PROVE  MemoryInv'
    <2>1. UNCHANGED <<proposal, audit, fact, versions, decider, purge>>
      BY <1>6 DEF Memory!ReadPending
    <2>2. [Memory!NoTurn EXCEPT !.pc = "run", !.conversation = c] \in TurnRow
      BY DEF Memory!NoTurn, TurnRow, None
    <2>3. \A p \in Memory!Pending(c) : [pc |-> "discard", conversation |-> c, read |-> p] \in TurnRow
      BY DEF Memory!Pending, TurnRow, None
    <2>4. turnOf' \in [Turns -> TurnRow]
      BY <1>3, <1>6, <2>2, <2>3 DEF Memory!ReadPending
    <2>. QED  BY <1>4, <2>1, <2>4
  <1>7. ASSUME NEW r \in Turns, Memory!Discard(r)
        PROVE  MemoryInv'
    <2>1. PICK p : p = turnOf[r].read
      OBVIOUS
    <2>2. turnOf' \in [Turns -> TurnRow]
      BY <1>3, <1>5, <1>7 DEF Memory!Discard
    <2>3. /\ Memory!RowHolders(p) = {} /\ p \notin purge.ids
          /\ UNCHANGED <<audit, fact, versions, decider, purge>>
          /\ proposal' = proposal \/ proposal' = [proposal EXCEPT ![p].status = "discarded"]
      BY <1>7, <2>1 DEF Memory!Discard
    <2>4. CASE p \in Proposals /\ proposal' = [proposal EXCEPT ![p].status = "discarded"]
      <3>. DEFINE x == [proposal[p] EXCEPT !.status = "discarded"]
      <3>1. x \in ProposalRow /\ x.status = "discarded"
        BY <1>0, <2>4 DEF ProposalRow
      <3>2. proposal' = [proposal EXCEPT ![p] = x]
        BY <2>4
      <3>. HIDE DEF x
      <3>3. /\ proposal' \in [Proposals -> ProposalRow] /\ proposal'[p] = x
            /\ \A q \in Proposals : q # p => proposal'[q] = proposal[q]
        BY <1>0, <2>4, <3>1, <3>2
      <3>4. \A q \in purge'.ids : proposal'[q].status = "pending" /\ Memory!RowHolders(q) = {}
        BY <1>0, <1>2, <2>3, <3>3
      <3>5. /\ \A q \in Proposals : proposal'[q] # proposal[q] => Memory!RowHolders(q) = {}
            /\ \A q \in Proposals : proposal[q].status \in Settled => proposal'[q].status \in Settled
            /\ \A q \in Proposals : proposal'[q].status = "pending" => proposal'[q].subject \in Subjects
        BY <1>0, <2>3, <3>1, <3>3 DEF ProposalsOk, Settled
      <3>. QED  BY <1>0, <2>2, <2>3, <3>3, <3>4, <3>5, RowsNobodyHolds
    <2>5. CASE ~(p \in Proposals /\ proposal' = [proposal EXCEPT ![p].status = "discarded"])
      <3>1. proposal' = proposal
        BY <1>0, <2>3, <2>5
      <3>. QED  BY <1>4, <2>2, <2>3, <3>1
    <2>. QED  BY <2>4, <2>5
  <1>8. ASSUME NEW r \in Turns, Memory!CreateProposal(r)
        PROVE  MemoryInv'
    <2>1. turnOf' \in [Turns -> TurnRow] /\ UNCHANGED <<audit, fact, versions, decider, purge>>
      BY <1>3, <1>5, <1>8 DEF Memory!CreateProposal
    <2>2. CASE proposal' = proposal
      BY <1>4, <2>1, <2>2
    <2>3. CASE proposal' # proposal
      <3>1. PICK p \in Proposals, s \in Subjects, t \in Texts :
              /\ proposal[p].status = "none"
              /\ proposal' = [proposal EXCEPT ![p] =
                   [status |-> "pending", conversation |-> turnOf[r].conversation,
                    subject |-> s, text |-> t]]
        BY <1>8, <2>3 DEF Memory!CreateProposal
      <3>. DEFINE x == [status |-> "pending", conversation |-> turnOf[r].conversation,
                        subject |-> s, text |-> t]
      <3>2. x \in ProposalRow /\ x.status = "pending" /\ x.subject = s
        BY <1>0 DEF ProposalRow, TurnRow, None
      <3>3. proposal' = [proposal EXCEPT ![p] = x]
        BY <3>1
      <3>. HIDE DEF x
      <3>4. /\ proposal' \in [Proposals -> ProposalRow] /\ proposal'[p] = x
            /\ \A q \in Proposals : q # p => proposal'[q] = proposal[q]
        BY <1>0, <3>2, <3>3
      <3>5. Memory!RowHolders(p) = {} /\ p \notin purge.ids
        BY <1>1, <1>2, <3>1
      <3>6. /\ \A q \in purge'.ids : proposal'[q].status = "pending" /\ Memory!RowHolders(q) = {}
            /\ \A q \in Proposals : proposal'[q] # proposal[q] => Memory!RowHolders(q) = {}
            /\ \A q \in Proposals : proposal[q].status \in Settled => proposal'[q].status \in Settled
            /\ \A q \in Proposals : proposal'[q].status = "pending" => proposal'[q].subject \in Subjects
        BY <1>0, <1>2, <2>1, <3>1, <3>2, <3>4, <3>5 DEF ProposalsOk, Settled
      <3>. QED  BY <1>0, <2>1, <3>4, <3>6, RowsNobodyHolds
    <2>. QED  BY <2>2, <2>3
  <1>9. CASE Memory!SelectExpired
    <2>1. PICK ids \in SUBSET Memory!Expired : purge' = [pc |-> "delete", ids |-> ids]
      BY <1>9 DEF Memory!SelectExpired
    <2>2. UNCHANGED <<proposal, audit, fact, versions, turnOf, decider>>
      BY <1>9 DEF Memory!SelectExpired
    <2>3. ids \in SUBSET Proposals
          /\ \A p \in ids : proposal[p].status = "pending" /\ Memory!RowHolders(p) = {}
      BY <2>1 DEF Memory!Expired
    <2>4. purge' \in PurgeRow /\ purge'.ids = ids
      BY <2>1, <2>3 DEF PurgeRow
    <2>. QED  BY <1>0, <2>2, <2>3, <2>4, RowsNobodyHolds DEF ProposalsOk
  <1>10. CASE Memory!DeleteExpired
    <2>1. /\ purge' = [pc |-> "done", ids |-> {}]
          /\ proposal' = [p \in Proposals |-> IF p \in purge.ids
                                              THEN [proposal[p] EXCEPT !.status = "deleted"]
                                              ELSE proposal[p]]
          /\ UNCHANGED <<audit, fact, versions, turnOf, decider>>
      BY <1>10 DEF Memory!DeleteExpired
    <2>2. purge' \in PurgeRow /\ purge'.ids = {}
      BY <2>1 DEF PurgeRow
    <2>3. \A p \in Proposals : /\ [proposal[p] EXCEPT !.status = "deleted"] \in ProposalRow
                               /\ [proposal[p] EXCEPT !.status = "deleted"].status = "deleted"
      BY <1>0 DEF ProposalRow
    <2>4. proposal' \in [Proposals -> ProposalRow]
      BY <1>0, <2>1, <2>3
    <2>5. /\ \A q \in Proposals : proposal'[q] # proposal[q] => Memory!RowHolders(q) = {}
          /\ \A q \in Proposals : proposal[q].status \in Settled => proposal'[q].status \in Settled
          /\ \A q \in Proposals : proposal'[q].status = "pending" => proposal'[q].subject \in Subjects
      BY <1>0, <1>2, <2>1, <2>3 DEF ProposalsOk, Settled
    <2>. QED  BY <1>0, <2>1, <2>2, <2>4, <2>5, RowsNobodyHolds
  <1>11. CASE UNCHANGED Memory!memoryVars
    <2>1. UNCHANGED <<proposal, audit, fact, versions, decider, purge, turnOf>>
      BY <1>11 DEF Memory!memoryVars
    <2>. QED  BY <1>0, <1>4, <2>1
  <1>. QED  BY <1>6, <1>7, <1>8, <1>9, <1>10, <1>11

\* Steps of a decision before it commits.
LEMMA DeciderMoves ==
  ASSUME MemoryInv, NEW r \in Deciders, NEW z \in DeciderRow,
         decider' = [decider EXCEPT ![r] = z],
         UNCHANGED <<proposal, audit, fact, versions, turnOf, purge>>,
         z.pc \in Holding \cup {"lock"} =>
           /\ z.id \in DecisionIds /\ z.proposal \in Proposals
           /\ z.action \in {"approve", "reject", "edit"},
         z.pc \in Holding => /\ proposal[z.proposal].status = "pending"
                             /\ z.proposal \notin purge.ids
                             /\ \A q \in Memory!RowHolders(z.proposal) : q = r,
         z.pc = "keyed" => /\ z.fact = fact[proposal[z.proposal].subject] /\ z.action = "approve"
                           /\ \A q \in Memory!KeyHolders(proposal[z.proposal].subject) : q = r
  PROVE  MemoryInv'
  <1>0. /\ MemoryTypes /\ LocksOk /\ ProposalsOk /\ AuditOk /\ VersionsOk /\ FactsOk
        /\ decider \in [Deciders -> DeciderRow]
    BY DEF MemoryInv, MemoryTypes
  <1>1. decider'[r] = z /\ \A q \in Deciders : q # r => decider'[q] = decider[q]
    BY <1>0
  <1>2. MemoryTypes'
    BY <1>0 DEF MemoryTypes
  <1>3. ASSUME NEW q \in Deciders
        PROVE  DeciderOk(q)'
    <2>1. CASE q = r
      BY <1>1, <2>1 DEF DeciderOk, Subject
    <2>2. CASE q # r
      <3>1. DeciderOk(q) /\ decider'[q] = decider[q]
        BY <1>0, <1>1, <2>2 DEF LocksOk
      <3>. QED  BY <3>1 DEF DeciderOk, Subject
    <2>. QED  BY <2>1, <2>2
  <1>4. ASSUME NEW q \in Deciders, q # r
        PROVE  Apart(r, q)' /\ Apart(q, r)'
    <2>1. z.pc \in Holding /\ decider[q].pc \in Holding => z.proposal # decider[q].proposal
      BY <1>4 DEF Memory!RowHolders, Holding
    <2>2. z.pc = "keyed" /\ decider[q].pc = "keyed" => proposal[z.proposal].subject # Subject(q)
      BY <1>4 DEF Memory!KeyHolders, Subject
    <2>3. decider'[r] = z /\ decider'[q] = decider[q]
      BY <1>1, <1>4
    <2>. QED  BY <2>1, <2>2, <2>3 DEF Apart, Subject
  <1>5. ASSUME NEW q \in Deciders, NEW w \in Deciders, q # w
        PROVE  Apart(q, w)'
    <2>1. CASE q # r /\ w # r
      <3>1. Apart(q, w) /\ decider'[q] = decider[q] /\ decider'[w] = decider[w]
        BY <1>0, <1>1, <1>5, <2>1 DEF LocksOk
      <3>. QED  BY <3>1 DEF Apart, Subject
    <2>. QED  BY <1>4, <1>5, <2>1
  <1>6. LocksOk'
    BY <1>3, <1>5 DEF LocksOk
  <1>7. ProposalsOk' /\ AuditOk' /\ VersionsOk' /\ FactsOk'
    <2>1. ProposalsOk'
      BY <1>0 DEF ProposalsOk
    <2>2. AuditOk'
      BY <1>0 DEF AuditOk
    <2>3. VersionsOk'
      BY <1>0, VersionsUntouched
    <2>4. FactsOk'
      BY <1>0 DEF FactsOk
    <2>. QED  BY <2>1, <2>2, <2>3, <2>4
  <1>. QED  BY <1>2, <1>6, <1>7 DEF MemoryInv

LEMMA DecisionGoesOn ==
  ASSUME MemoryInv, NEW r \in Deciders,
         \/ Memory!LockProposal(r) \/ Memory!Ineligible(r) \/ Memory!LockKey(r)
         \/ \E i \in DecisionIds, p \in Proposals, a \in {"approve", "reject", "edit"} :
              Memory!Submit(r, i, p, a)
  PROVE  MemoryInv'
  <1>d. PICK d : d = decider[r]
    OBVIOUS
  <1>0. /\ MemoryTypes /\ LocksOk /\ ProposalsOk /\ DeciderOk(r)
        /\ decider \in [Deciders -> DeciderRow] /\ d \in DeciderRow
        /\ fact \in [Subjects -> FactRow]
    BY <1>d DEF MemoryInv, MemoryTypes, LocksOk
  <1>1. ASSUME NEW pc \in DeciderPcs
        PROVE  /\ [d EXCEPT !.pc = pc] \in DeciderRow /\ [d EXCEPT !.pc = pc].pc = pc
               /\ [d EXCEPT !.pc = pc].id = d.id /\ [d EXCEPT !.pc = pc].proposal = d.proposal
               /\ [d EXCEPT !.pc = pc].action = d.action
    BY <1>0 DEF DeciderRow
  <1>2. ASSUME NEW z \in DeciderRow, z.pc = "done", decider' = [decider EXCEPT ![r] = z],
               UNCHANGED <<proposal, audit, fact, versions, turnOf, purge>>
        PROVE  MemoryInv'
    BY <1>2, DeciderMoves DEF Holding
  <1>3. CASE Memory!Ineligible(r)
    <2>. DEFINE z == [d EXCEPT !.pc = "done"]
    <2>1. decider' = [decider EXCEPT ![r] = z] /\ UNCHANGED <<proposal, audit, fact, versions, turnOf, purge>>
      BY <1>3, <1>d DEF Memory!Ineligible, Memory!Stop
    <2>2. "done" \in DeciderPcs
      BY DEF DeciderPcs
    <2>3. z \in DeciderRow /\ z.pc = "done"
      BY <1>1, <2>2
    <2>. QED  BY <1>2, <2>1, <2>3
  <1>4. CASE Memory!LockProposal(r)
    <2>. DEFINE pc == IF Memory!StillOpen(d) THEN "locked" ELSE "done"
                z == [d EXCEPT !.pc = pc]
    <2>1. /\ d.pc = "lock" /\ Memory!RowFree(d.proposal) /\ decider' = [decider EXCEPT ![r] = z]
          /\ UNCHANGED <<proposal, audit, fact, versions, turnOf, purge>>
      BY <1>4, <1>d DEF Memory!LockProposal
    <2>2. pc \in DeciderPcs /\ pc \in {"locked", "done"}
          /\ (pc = "locked" => proposal[d.proposal].status = "pending")
      BY DEF DeciderPcs, Memory!StillOpen
    <2>. HIDE DEF pc
    <2>3. z \in DeciderRow /\ z.pc = pc /\ z.id = d.id /\ z.proposal = d.proposal /\ z.action = d.action
      BY <1>1, <2>2
    <2>. HIDE DEF z
    <2>4. d.id \in DecisionIds /\ d.proposal \in Proposals /\ d.action \in {"approve", "reject", "edit"}
      BY <1>0, <1>d, <2>1 DEF DeciderOk
    <2>5. Memory!RowHolders(z.proposal) = {} /\ z.proposal \notin purge.ids
      BY <2>1, <2>3 DEF Memory!RowFree
    <2>. QED  BY <2>1, <2>2, <2>3, <2>4, <2>5, DeciderMoves DEF Holding
  <1>5. CASE Memory!LockKey(r)
    <2>. DEFINE s == proposal[d.proposal].subject
                z == [d EXCEPT !.pc = "keyed", !.fact = fact[s]]
    <2>1. /\ d.pc = "locked" /\ d.action = "approve" /\ Memory!KeyFree(s)
          /\ UNCHANGED <<proposal, audit, fact, versions, turnOf, purge>>
      BY <1>5, <1>d DEF Memory!LockKey
    <2>2. decider' = [decider EXCEPT ![r] = z]
      BY <1>0, <1>5, <1>d DEF Memory!LockKey
    <2>3. /\ d.id \in DecisionIds /\ d.proposal \in Proposals /\ proposal[d.proposal].status = "pending"
          /\ d.proposal \notin purge.ids
      BY <1>0, <1>d, <2>1 DEF DeciderOk, Holding
    <2>4. fact[s] \in FactRow
      BY <1>0, <2>3 DEF ProposalsOk
    <2>. HIDE DEF s
    <2>5. /\ z \in DeciderRow /\ z.pc = "keyed" /\ z.id = d.id /\ z.proposal = d.proposal
          /\ z.action = d.action /\ z.fact = fact[s]
      BY <1>0, <2>4 DEF DeciderRow, DeciderPcs
    <2>. HIDE DEF z
    <2>6. \A q \in Memory!RowHolders(z.proposal) : q = r
      <3>1. ASSUME NEW q \in Deciders, decider[q].pc \in Holding, decider[q].proposal = d.proposal,
                   q # r
            PROVE  FALSE
        BY <1>0, <1>d, <2>1, <3>1 DEF LocksOk, Apart, Holding
      <3>. QED  BY <2>5, <3>1 DEF Memory!RowHolders, Holding
    <2>7. z.fact = fact[proposal[z.proposal].subject] /\ Memory!KeyHolders(proposal[z.proposal].subject) = {}
      BY <2>1, <2>5 DEF Memory!KeyFree, s
    <2>. QED  BY <2>1, <2>2, <2>3, <2>5, <2>6, <2>7, DeciderMoves
  <1>6. ASSUME NEW i \in DecisionIds, NEW p \in Proposals, NEW a \in {"approve", "reject", "edit"},
               Memory!Submit(r, i, p, a)
        PROVE  MemoryInv'
    <2>1. PICK t \in Texts :
            decider' = [decider EXCEPT ![r] =
              [Memory!NoDecider EXCEPT !.pc = IF audit[i] # Memory!NoAudit THEN "done" ELSE "lock",
                                       !.id = i, !.proposal = p, !.action = a, !.edit = t]]
      BY <1>6 DEF Memory!Submit
    <2>2. UNCHANGED <<proposal, audit, fact, versions, turnOf, purge>>
      BY <1>6 DEF Memory!Submit
    <2>. DEFINE pc == IF audit[i] # Memory!NoAudit THEN "done" ELSE "lock"
                z == [Memory!NoDecider EXCEPT !.pc = pc, !.id = i, !.proposal = p, !.action = a,
                                              !.edit = t]
    <2>3. pc \in {"done", "lock"} /\ decider' = [decider EXCEPT ![r] = z]
      BY <2>1
    <2>. HIDE DEF pc
    <2>4. Memory!NoDecider \in DeciderRow
      BY DEF Memory!NoDecider, Memory!NoFact, DeciderRow, DeciderPcs, FactRow, None
    <2>5. z \in DeciderRow /\ z.pc = pc /\ z.id = i /\ z.proposal = p /\ z.action = a
      BY <2>3, <2>4 DEF DeciderRow, DeciderPcs, None
    <2>. HIDE DEF z
    <2>. QED  BY <2>2, <2>3, <2>5, DeciderMoves DEF Holding
  <1>. QED  BY <1>3, <1>4, <1>5, <1>6

\* A decision commits: the audit row, the proposal, and what it changes in the
\* fact of its key.
LEMMA DecisionCommits ==
  ASSUME MemoryInv, NEW r \in Deciders, NEW d \in DeciderRow, d = decider[r], d.pc \in Holding,
         audit[d.id] = Memory!NoAudit,
         decider' = [decider EXCEPT ![r] = [d EXCEPT !.pc = "done"]],
         audit' = [audit EXCEPT ![d.id] = [proposal |-> d.proposal, action |-> d.action]],
         NEW x \in ProposalRow, proposal' = [proposal EXCEPT ![d.proposal] = x],
         x.subject = proposal[d.proposal].subject,
         x.status = "pending" <=> d.action = "edit",
         x.status \in {"pending"} \cup Settled,
         UNCHANGED <<turnOf, purge>>,
         fact' \in [Subjects -> FactRow], versions' \in [Subjects -> Seq(VersionRow)],
         \A s \in Subjects : fact'[s] # fact[s] => d.pc = "keyed" /\ s = Subject(r),
         FactsOk',
         \/ d.action # "approve" /\ versions' = versions
         \/ /\ d.action = "approve"
            /\ \E s \in Subjects, n \in VersionRow :
                 /\ versions' = [versions EXCEPT ![s] = Append(versions[s], n)]
                 /\ n.proposal = d.proposal /\ n.decision = d.id
  PROVE  MemoryInv'
  <1>0. /\ MemoryTypes /\ LocksOk /\ ProposalsOk /\ AuditOk /\ VersionsOk /\ FactsOk
        /\ decider \in [Deciders -> DeciderRow] /\ proposal \in [Proposals -> ProposalRow]
        /\ audit \in [DecisionIds -> AuditRow] /\ versions \in [Subjects -> Seq(VersionRow)]
        /\ DeciderOk(r)
    BY DEF MemoryInv, MemoryTypes, LocksOk
  <1>1. /\ d.id \in DecisionIds /\ d.proposal \in Proposals /\ d.action \in {"approve", "reject", "edit"}
        /\ proposal[d.proposal].status = "pending" /\ d.proposal \notin purge.ids
    BY <1>0 DEF DeciderOk
  <1>. DEFINE z == [d EXCEPT !.pc = "done"]
              a == [proposal |-> d.proposal, action |-> d.action]
  <1>2. z \in DeciderRow /\ z.pc = "done"
    BY DEF DeciderRow, DeciderPcs
  <1>3. a \in AuditRow /\ a.proposal = d.proposal /\ a.action = d.action
    BY <1>1 DEF AuditRow, None
  <1>. HIDE DEF z, a
  <1>4. /\ decider' = [decider EXCEPT ![r] = z] /\ audit' = [audit EXCEPT ![d.id] = a]
    BY DEF z, a
  <1>5. /\ decider'[r] = z /\ \A q \in Deciders : q # r => decider'[q] = decider[q]
        /\ decider' \in [Deciders -> DeciderRow]
    <2>1. decider \in [Deciders -> DeciderRow] /\ z \in DeciderRow
      BY <1>0, <1>2
    <2>. HIDE DEF MemoryInv
    <2>. QED  BY <1>4, <2>1, Zenon
  <1>6. /\ audit'[d.id] = a /\ \A i \in DecisionIds : i # d.id => audit'[i] = audit[i]
        /\ audit' \in [DecisionIds -> AuditRow]
    BY <1>0, <1>1, <1>3, <1>4
  <1>7. /\ proposal'[d.proposal] = x /\ \A p \in Proposals : p # d.proposal => proposal'[p] = proposal[p]
        /\ proposal' \in [Proposals -> ProposalRow]
        /\ \A p \in Proposals : proposal'[p].subject = proposal[p].subject
    BY <1>0, <1>1
  <1>8. MemoryTypes'
    BY <1>0, <1>5, <1>6, <1>7 DEF MemoryTypes
  <1>9. ASSUME NEW q \in Deciders, q # r, decider[q].pc \in Holding
        PROVE  /\ decider[q].proposal \in Proposals /\ decider[q].proposal # d.proposal
               /\ proposal'[decider[q].proposal] = proposal[decider[q].proposal]
               /\ decider[q].pc = "keyed" => fact'[Subject(q)] = fact[Subject(q)]
    <2>1. /\ DeciderOk(q) /\ Apart(r, q) /\ Apart(q, r)
      BY <1>0, <1>9 DEF LocksOk
    <2>2. decider[q].proposal \in Proposals /\ decider[q].proposal # d.proposal
      BY <1>9, <2>1 DEF DeciderOk, Apart, Holding
    <2>3. decider[q].pc = "keyed" => Subject(q) \in Subjects
      BY <1>0, <1>9, <2>1, <2>2 DEF DeciderOk, ProposalsOk, Subject
    <2>4. decider[q].pc = "keyed" /\ d.pc = "keyed" => Subject(q) # Subject(r)
      BY <2>1 DEF Apart
    <2>. QED  BY <1>7, <2>2, <2>3, <2>4
  <1>10. LocksOk'
    <2>1. ASSUME NEW q \in Deciders
          PROVE  DeciderOk(q)'
      <3>1. CASE q = r
        BY <1>2, <1>5, <3>1 DEF DeciderOk, Holding
      <3>2. CASE q # r
        <4>1. DeciderOk(q) /\ decider'[q] = decider[q]
          BY <1>0, <1>5, <3>2 DEF LocksOk
        <4>2. CASE decider[q].pc \in Holding
          BY <1>9, <3>2, <4>1, <4>2 DEF DeciderOk, Subject
        <4>3. CASE decider[q].pc \notin Holding
          BY <4>1, <4>3 DEF DeciderOk, Holding
        <4>. QED  BY <4>2, <4>3
      <3>. QED  BY <3>1, <3>2
    <2>2. ASSUME NEW q \in Deciders, NEW w \in Deciders, q # w
          PROVE  Apart(q, w)'
      <3>1. CASE q # r /\ w # r
        <4>1. Apart(q, w) /\ decider'[q] = decider[q] /\ decider'[w] = decider[w]
          BY <1>0, <1>5, <2>2, <3>1 DEF LocksOk
        <4>2. CASE decider[q].pc \in Holding /\ decider[w].pc \in Holding
          BY <1>9, <3>1, <4>1, <4>2 DEF Apart, Subject
        <4>3. CASE ~(decider[q].pc \in Holding /\ decider[w].pc \in Holding)
          BY <4>1, <4>3 DEF Apart, Holding
        <4>. QED  BY <4>2, <4>3
      <3>2. CASE q = r \/ w = r
        BY <1>2, <1>5, <3>2 DEF Apart, Holding
      <3>. QED  BY <3>1, <3>2
    <2>. QED  BY <2>1, <2>2 DEF LocksOk
  <1>11. ProposalsOk'
    BY <1>0, <1>1, <1>7 DEF ProposalsOk, MemoryTypes, PurgeRow
  <1>12. ASSUME NEW i \in DecisionIds, Concludes(audit[i])
         PROVE  /\ audit[i].proposal \in Proposals /\ audit[i].proposal # d.proposal /\ i # d.id
                /\ proposal[audit[i].proposal].status \in Settled
    <2>1. audit[i].proposal \in Proposals /\ proposal[audit[i].proposal].status \in Settled
      BY <1>0, <1>12 DEF AuditOk, Concludes
    <2>2. i # d.id
      BY <1>12 DEF Concludes, Memory!NoAudit
    <2>. QED  BY <1>1, <2>1, <2>2 DEF Settled
  <1>13. AuditOk'
    <2>1. \A i \in DecisionIds : \/ audit'[i].action = "none" /\ audit'[i].proposal = "none"
                                 \/ audit'[i].action # "none" /\ audit'[i].proposal \in Proposals
      <3>1. ASSUME NEW i \in DecisionIds
            PROVE  \/ audit'[i].action = "none" /\ audit'[i].proposal = "none"
                   \/ audit'[i].action # "none" /\ audit'[i].proposal \in Proposals
        <4>1. CASE i = d.id
          BY <1>1, <1>3, <1>6, <4>1
        <4>2. CASE i # d.id
          BY <1>0, <1>6, <4>2 DEF AuditOk
        <4>. QED  BY <4>1, <4>2
      <3>. QED  BY <3>1
    <2>2. ASSUME NEW i \in DecisionIds, Concludes(audit'[i])
          PROVE  proposal'[audit'[i].proposal].status \in Settled
      <3>1. CASE i = d.id
        BY <1>3, <1>6, <1>7, <2>2, <3>1 DEF Concludes
      <3>2. CASE i # d.id
        BY <1>6, <1>7, <1>12, <2>2, <3>2
      <3>. QED  BY <3>1, <3>2
    <2>3. ASSUME NEW i \in DecisionIds, NEW j \in DecisionIds, Concludes(audit'[i]),
                 Concludes(audit'[j]), audit'[i].proposal = audit'[j].proposal
          PROVE  i = j
      <3>1. CASE i # d.id /\ j # d.id
        BY <1>0, <1>6, <2>3, <3>1 DEF AuditOk
      <3>2. CASE i = d.id /\ j # d.id
        BY <1>3, <1>6, <1>12, <2>3, <3>2
      <3>3. CASE i # d.id /\ j = d.id
        BY <1>3, <1>6, <1>12, <2>3, <3>3
      <3>. QED  BY <3>1, <3>2, <3>3
    <2>. QED  BY <2>1, <2>2, <2>3 DEF AuditOk
  <1>14. ASSUME NEW v \in Versions
         PROVE  Entry(v).decision \in DecisionIds /\ Entry(v).decision # d.id
    <2>1. v[1] \in Subjects /\ v[2] \in DOMAIN versions[v[1]]
      BY DEF Versions
    <2>2. Entry(v) \in VersionRow
      BY <1>0, <2>1 DEF Entry
    <2>3. audit[Entry(v).decision].action = "approve"
      BY <1>0 DEF VersionsOk
    <2>. QED  BY <2>2, <2>3 DEF VersionRow, Memory!NoAudit
  <1>15. VersionsOk'
    <2>1. CASE d.action # "approve" /\ versions' = versions
      <3>1. \A i \in DecisionIds : audit'[i].action = "approve" => i # d.id /\ audit[i].action = "approve"
        BY <1>3, <1>6, <2>1
      <3>2. \A v \in Versions : audit'[Entry(v).decision] = audit[Entry(v).decision]
        BY <1>6, <1>14
      <3>. QED  BY <1>0, <2>1, <3>1, <3>2, VersionsUntouched
    <2>2. CASE d.action = "approve"
      <3>1. PICK s \in Subjects, n \in VersionRow :
              /\ versions' = [versions EXCEPT ![s] = Append(versions[s], n)]
              /\ n.proposal = d.proposal /\ n.decision = d.id
        BY <2>2
      <3>2. versions[s] \in Seq(VersionRow) /\ Len(versions[s]) \in Nat
        BY <1>0
      <3>3. PICK m : m = <<s, Len(versions[s]) + 1>>
        OBVIOUS
      <3>4. /\ versions'[s] = Append(versions[s], n)
            /\ \A t \in Subjects : t # s => versions'[t] = versions[t]
        BY <1>0, <3>1
      <3>5. /\ DOMAIN versions'[s] = DOMAIN versions[s] \cup {Len(versions[s]) + 1}
            /\ versions'[s][Len(versions[s]) + 1] = n
            /\ \A k \in DOMAIN versions[s] : versions'[s][k] = versions[s][k]
        BY <3>2, <3>4
      <3>6. Versions' = Versions \cup {m}
        <4>1. \A v : v \in Versions' => v \in Versions \cup {m}
          BY <3>3, <3>4, <3>5 DEF Versions
        <4>2. \A v : v \in Versions \cup {m} => v \in Versions'
          BY <3>3, <3>4, <3>5 DEF Versions
        <4>. QED  BY <4>1, <4>2
      <3>7. versions'[m[1]][m[2]] = n
        BY <3>3, <3>5
      <3>8. PICK E : E = [v \in Versions |-> Entry(v)]
        OBVIOUS
      <3>9. PICK F : F = [v \in Versions' |-> versions'[v[1]][v[2]]]
        OBVIOUS
      <3>10. PICK V : V = Versions
        OBVIOUS
      <3>11. F[m] = n
        BY <3>6, <3>7, <3>9
      <3>12. \A v \in V : F[v] = E[v]
        <4>1. ASSUME NEW v \in V
              PROVE  F[v] = E[v]
          <5>1. PICK t \in Subjects : v \in {t} \X DOMAIN versions[t]
            BY <3>10 DEF Versions
          <5>4. PICK k \in DOMAIN versions[t] : v = <<t, k>>
            BY <5>1
          <5>2. versions'[t][k] = versions[t][k]
            BY <3>4, <3>5
          <5>3. E[v] = versions[t][k] /\ F[v] = versions'[t][k]
            BY <3>6, <3>8, <3>9, <3>10, <5>1, <5>4 DEF Entry
          <5>. QED  BY <5>2, <5>3
        <4>. QED  BY <4>1
      <3>13. /\ \A v \in V : audit[E[v].decision].action = "approve" /\ audit[E[v].decision].proposal = E[v].proposal
             /\ \A v, w \in V : E[v].decision = E[w].decision => v = w
             /\ \A i \in DecisionIds : audit[i].action = "approve" => \E v \in V : E[v].decision = i
        BY <1>0, <3>8, <3>10 DEF VersionsOk
      <3>14. \A v \in V : E[v].decision # d.id /\ audit'[E[v].decision] = audit[E[v].decision]
        BY <1>6, <1>14, <3>8, <3>10
      <3>15. audit'[d.id].action = "approve" /\ audit'[d.id].proposal = d.proposal
        BY <1>3, <1>6, <2>2
      <3>16. \A v \in V \cup {m} : /\ audit'[F[v].decision].action = "approve"
                                   /\ audit'[F[v].decision].proposal = F[v].proposal
        BY <3>1, <3>11, <3>12, <3>13, <3>14, <3>15
      <3>17. \A v, w \in V \cup {m} : F[v].decision = F[w].decision => v = w
        <4>1. \A v \in V : F[v].decision # d.id
          BY <3>12, <3>14
        <4>2. F[m].decision = d.id
          BY <3>1, <3>11
        <4>3. \A v, w \in V : F[v].decision = F[w].decision => v = w
          BY <3>12, <3>13
        <4>. QED  BY <4>1, <4>2, <4>3
      <3>18. \A i \in DecisionIds : audit'[i].action = "approve" => \E v \in V \cup {m} : F[v].decision = i
        <4>1. ASSUME NEW i \in DecisionIds, audit'[i].action = "approve"
              PROVE  \E v \in V \cup {m} : F[v].decision = i
          <5>1. CASE i = d.id
            BY <3>1, <3>11, <5>1
          <5>2. CASE i # d.id
            <6>1. audit[i].action = "approve"
              BY <1>6, <4>1, <5>2
            <6>2. PICK v \in V : E[v].decision = i
              BY <3>13, <6>1
            <6>. QED  BY <3>12, <6>2
          <5>. QED  BY <5>1, <5>2
        <4>. QED  BY <4>1
      <3>19. PICK W : W = V \cup {m}
        OBVIOUS
      <3>20. Versions' = W /\ \A v \in W : F[v] = versions'[v[1]][v[2]]
        BY <3>6, <3>9, <3>10, <3>19
      <3>21. \A v \in W : /\ audit'[versions'[v[1]][v[2]].decision].action = "approve"
                          /\ audit'[versions'[v[1]][v[2]].decision].proposal = versions'[v[1]][v[2]].proposal
        BY <3>16, <3>19, <3>20
      <3>22. \A v, w \in W : versions'[v[1]][v[2]].decision = versions'[w[1]][w[2]].decision => v = w
        <4>1. ASSUME NEW v \in W, NEW w \in W,
                     versions'[v[1]][v[2]].decision = versions'[w[1]][w[2]].decision
              PROVE  v = w
          <5>1. F[v] = versions'[v[1]][v[2]] /\ F[w] = versions'[w[1]][w[2]]
            BY <3>20
          <5>2. F[v].decision = F[w].decision
            BY <4>1, <5>1
          <5>. QED  BY <3>17, <3>19, <5>2
        <4>. QED  BY <4>1
      <3>23. \A i \in DecisionIds :
               audit'[i].action = "approve" => \E v \in W : versions'[v[1]][v[2]].decision = i
        BY <3>18, <3>19, <3>20
      <3>. QED  BY <3>20, <3>21, <3>22, <3>23 DEF VersionsOk, Entry
    <2>. QED  BY <2>1, <2>2
  <1>. QED  BY <1>8, <1>10, <1>11, <1>13, <1>15 DEF MemoryInv

\* What the commit of a decision is: the audit row decides.
LEMMA DecisionEnds ==
  ASSUME MemoryInv, NEW r \in Deciders,
         Memory!Reject(r) \/ Memory!Edit(r) \/ Memory!Approve(r)
  PROVE  MemoryInv'
  <1>d. PICK d : d = decider[r]
    OBVIOUS
  <1>0. /\ MemoryTypes /\ LocksOk /\ ProposalsOk /\ FactsOk /\ DeciderOk(r)
        /\ decider \in [Deciders -> DeciderRow] /\ d \in DeciderRow
        /\ proposal \in [Proposals -> ProposalRow] /\ audit \in [DecisionIds -> AuditRow]
        /\ fact \in [Subjects -> FactRow] /\ versions \in [Subjects -> Seq(VersionRow)]
    BY <1>d DEF MemoryInv, MemoryTypes, LocksOk
  <1>1. d.pc \in Holding
    BY <1>d DEF Memory!Reject, Memory!Edit, Memory!Approve, Holding
  <1>2. /\ d.id \in DecisionIds /\ d.proposal \in Proposals /\ d.action \in {"approve", "reject", "edit"}
        /\ proposal[d.proposal].status = "pending"
        /\ d.pc = "keyed" => d.fact = fact[Subject(r)] /\ d.action = "approve"
        /\ proposal[d.proposal] \in ProposalRow
    BY <1>0, <1>1, <1>d DEF DeciderOk
  <1>3. Subject(r) = proposal[d.proposal].subject /\ Subject(r) \in Subjects
    BY <1>0, <1>2, <1>d DEF ProposalsOk, Subject
  <1>4. /\ decider' = [decider EXCEPT ![r] = [d EXCEPT !.pc = "done"]]
        /\ UNCHANGED <<turnOf, purge>>
    BY <1>d DEF Memory!Reject, Memory!Edit, Memory!Approve, Memory!Commit, Memory!Stop
  <1>5. CASE audit[d.id] # Memory!NoAudit
    <2>1. UNCHANGED <<proposal, audit, fact, versions, turnOf, purge>>
      BY <1>5, <1>d DEF Memory!Reject, Memory!Edit, Memory!Approve, Memory!Commit
    <2>2. [d EXCEPT !.pc = "done"] \in DeciderRow /\ [d EXCEPT !.pc = "done"].pc = "done"
      BY <1>0 DEF DeciderRow, DeciderPcs
    <2>3. PICK z : z = [d EXCEPT !.pc = "done"]
      OBVIOUS
    <2>4. /\ z \in DeciderRow /\ z.pc = "done" /\ decider' = [decider EXCEPT ![r] = z]
      BY <1>4, <2>2, <2>3
    <2>. QED  BY <2>1, <2>4, DeciderMoves DEF Holding
  <1>6. CASE audit[d.id] = Memory!NoAudit
    <2>1. audit' = [audit EXCEPT ![d.id] = [proposal |-> d.proposal, action |-> d.action]]
      BY <1>6, <1>d DEF Memory!Reject, Memory!Edit, Memory!Approve, Memory!Commit, Memory!Recorded
    <2>2. CASE Memory!Reject(r)
      <3>1. PICK x : x = [proposal[d.proposal] EXCEPT !.status = "rejected"]
        OBVIOUS
      <3>2. proposal' = [proposal EXCEPT ![d.proposal] = x] /\ UNCHANGED <<fact, versions>> /\ d.action = "reject"
        BY <1>6, <1>d, <2>2, <3>1 DEF Memory!Reject, Memory!Commit
      <3>3. x \in ProposalRow /\ x.status = "rejected" /\ x.subject = proposal[d.proposal].subject
        BY <1>2, <3>1 DEF ProposalRow
      <3>4. FactsOk'
        BY <1>0, <3>2 DEF FactsOk
      <3>. QED  BY <1>0, <1>1, <1>4, <1>6, <1>d, <2>1, <3>2, <3>3, <3>4, DecisionCommits DEF Settled
    <2>3. CASE Memory!Edit(r)
      <3>1. PICK x : x = [proposal[d.proposal] EXCEPT !.text = d.edit]
        OBVIOUS
      <3>2. proposal' = [proposal EXCEPT ![d.proposal] = x] /\ UNCHANGED <<fact, versions>> /\ d.action = "edit"
        BY <1>6, <1>d, <2>3, <3>1 DEF Memory!Edit, Memory!Commit
      <3>3. x \in ProposalRow /\ x.status = "pending" /\ x.subject = proposal[d.proposal].subject
        BY <1>0, <1>2, <3>1 DEF ProposalRow, DeciderRow, None
      <3>4. FactsOk'
        BY <1>0, <3>2 DEF FactsOk
      <3>. QED  BY <1>0, <1>1, <1>4, <1>6, <1>d, <2>1, <3>2, <3>3, <3>4, DecisionCommits DEF Settled
    <2>4. CASE Memory!Approve(r)
      <3>0. PICK s : s = Subject(r)
        OBVIOUS
      <3>1. PICK x : x = [proposal[d.proposal] EXCEPT !.status = "approved"]
        OBVIOUS
      <3>2. PICK n : n = [proposal |-> d.proposal, decision |-> d.id, text |-> proposal[d.proposal].text]
        OBVIOUS
      <3>3. PICK new : new = Memory!Confirmed(d.fact, proposal[d.proposal].text)
        OBVIOUS
      <3>4. /\ proposal' = [proposal EXCEPT ![d.proposal] = x] /\ fact' = [fact EXCEPT ![s] = new]
            /\ versions' = [versions EXCEPT ![s] = Append(versions[s], n)]
            /\ d.pc = "keyed"
        BY <1>3, <1>6, <1>d, <2>4, <3>0, <3>1, <3>2, <3>3 DEF Memory!Approve, Memory!Commit
      <3>5. x \in ProposalRow /\ x.status = "approved" /\ x.subject = proposal[d.proposal].subject
        BY <1>2, <3>1 DEF ProposalRow
      <3>6. n \in VersionRow /\ n.proposal = d.proposal /\ n.decision = d.id /\ n.text = new.text
        BY <1>2, <3>2, <3>3 DEF VersionRow, ProposalRow, Memory!Confirmed
      <3>7. s \in Subjects /\ fact[s] \in FactRow /\ d.fact = fact[s] /\ d.action = "approve"
        BY <1>0, <1>2, <1>3, <3>0, <3>4
      <3>8. /\ new \in FactRow /\ new.version = fact[s].version + 1
            /\ new.confirmations = fact[s].confirmations + 1
        BY <1>2, <3>3, <3>7 DEF FactRow, ProposalRow, Memory!Confirmed
      <3>9. fact' \in [Subjects -> FactRow] /\ fact'[s] = new /\ \A t \in Subjects : t # s => fact'[t] = fact[t]
        BY <1>0, <3>4, <3>7, <3>8
      <3>10. /\ versions' \in [Subjects -> Seq(VersionRow)] /\ versions'[s] = Append(versions[s], n)
             /\ \A t \in Subjects : t # s => versions'[t] = versions[t]
        BY <1>0, <3>4, <3>6, <3>7
      <3>11. /\ Len(versions'[s]) = Len(versions[s]) + 1 /\ Len(versions[s]) \in Nat
             /\ versions'[s][Len(versions'[s])] = n
        BY <1>0, <3>6, <3>7, <3>10
      <3>12. FactsOk'
        <4>1. ASSUME NEW t \in Subjects
              PROVE  /\ fact'[t].version = Len(versions'[t]) /\ fact'[t].confirmations = Len(versions'[t])
                     /\ Len(versions'[t]) > 0 => fact'[t].text = versions'[t][Len(versions'[t])].text
          <5>1. CASE t = s
            BY <1>0, <3>6, <3>7, <3>8, <3>9, <3>11, <5>1 DEF FactsOk
          <5>2. CASE t # s
            BY <1>0, <3>9, <3>10, <5>2 DEF FactsOk
          <5>. QED  BY <5>1, <5>2
        <4>. QED  BY <4>1 DEF FactsOk
      <3>13. \A t \in Subjects : fact'[t] # fact[t] => d.pc = "keyed" /\ t = Subject(r)
        BY <3>0, <3>4, <3>9
      <3>14. \E t \in Subjects, w \in VersionRow :
               /\ versions' = [versions EXCEPT ![t] = Append(versions[t], w)]
               /\ w.proposal = d.proposal /\ w.decision = d.id
        BY <3>4, <3>6, <3>7
      <3>. QED  BY <1>1, <1>0, <1>4, <1>6, <1>d, <2>1, <3>4, <3>5, <3>7, <3>9, <3>10, <3>12, <3>13, <3>14,
                  DecisionCommits DEF Settled
    <2>. QED  BY <2>2, <2>3, <2>4
  <1>. QED  BY <1>5, <1>6

LEMMA MemoryInvariance == Memory!MemorySpec => []MemoryInv
  <1>1. Memory!MemoryInit => MemoryInv
    <2>. SUFFICES ASSUME Memory!MemoryInit PROVE MemoryInv
      OBVIOUS
    <2>. USE DEF Memory!MemoryInit
    <2>1. /\ \A p \in Proposals : proposal[p] = Memory!NoProposal
          /\ \A i \in DecisionIds : audit[i] = Memory!NoAudit
          /\ \A s \in Subjects : fact[s] = Memory!NoFact /\ versions[s] = <<>>
          /\ \A r \in Deciders : decider[r] = Memory!NoDecider
          /\ purge.ids = {}
      OBVIOUS
    <2>2. Memory!NoProposal \in ProposalRow /\ Memory!NoAudit \in AuditRow /\ Memory!NoFact \in FactRow
      BY DEF Memory!NoProposal, Memory!NoAudit, Memory!NoFact, ProposalRow, AuditRow, FactRow, None
    <2>3. Memory!NoTurn \in TurnRow /\ Memory!NoDecider \in DeciderRow
      BY <2>2 DEF Memory!NoTurn, Memory!NoDecider, TurnRow, DeciderRow, DeciderPcs, None
    <2>4. <<>> \in Seq(VersionRow) /\ [pc |-> "idle", ids |-> {}] \in PurgeRow
      BY DEF PurgeRow
    <2>5. MemoryTypes
      BY <2>2, <2>3, <2>4 DEF MemoryTypes
    <2>6. LocksOk
      BY <2>1 DEF LocksOk, DeciderOk, Apart, Holding, Memory!NoDecider
    <2>7. ProposalsOk
      BY <2>1 DEF ProposalsOk, Memory!NoProposal
    <2>8. AuditOk
      BY <2>1 DEF AuditOk, Concludes, Memory!NoAudit
    <2>9. Versions = {}
      BY <2>1 DEF Versions
    <2>10. VersionsOk
      BY <2>1, <2>9 DEF VersionsOk, Memory!NoAudit
    <2>11. FactsOk
      BY <2>1 DEF FactsOk, Memory!NoFact
    <2>. QED  BY <2>5, <2>6, <2>7, <2>8, <2>10, <2>11 DEF MemoryInv
  <1>2. MemoryInv /\ [Memory!MemoryNext]_(Memory!memoryVars) => MemoryInv'
    <2>. SUFFICES ASSUME MemoryInv, [Memory!MemoryNext]_(Memory!memoryVars) PROVE MemoryInv'
      OBVIOUS
    <2>1. CASE \/ \E r \in Turns : \/ Memory!Discard(r) \/ Memory!CreateProposal(r)
                                   \/ \E c \in Conversations : Memory!ReadPending(r, c)
               \/ Memory!SelectExpired \/ Memory!DeleteExpired \/ UNCHANGED Memory!memoryVars
      BY <2>1, TurnsAndPurge
    <2>2. ASSUME NEW r \in Deciders,
                 \/ Memory!LockProposal(r) \/ Memory!Ineligible(r) \/ Memory!LockKey(r)
                 \/ \E i \in DecisionIds, p \in Proposals, a \in {"approve", "reject", "edit"} :
                      Memory!Submit(r, i, p, a)
          PROVE  MemoryInv'
      BY <2>2, DecisionGoesOn
    <2>3. ASSUME NEW r \in Deciders, Memory!Reject(r) \/ Memory!Edit(r) \/ Memory!Approve(r)
          PROVE  MemoryInv'
      BY <2>3, DecisionEnds
    <2>. QED  BY <2>1, <2>2, <2>3 DEF Memory!MemoryNext
  <1>. QED  BY <1>1, <1>2, PTL DEF Memory!MemorySpec

\* However many requests decide a proposal at once, with new decision ids or
\* with repeated ones, one of them concludes it, its fact gains one version if
\* that one approved, no confirmation is lost, and the maintenance job deletes
\* nothing that was decided (decide, _approve, delete_expired_pending).
THEOREM DecisionsCountOnceHolds == Memory!MemorySpec => []DecisionsCountOnce
  <1>1. MemoryInv => DecisionsCountOnce
    <2>. SUFFICES ASSUME MemoryInv PROVE DecisionsCountOnce
      OBVIOUS
    <2>0. /\ AuditOk /\ VersionsOk /\ FactsOk /\ audit \in [DecisionIds -> AuditRow]
          /\ versions \in [Subjects -> Seq(VersionRow)] /\ "none" \notin Proposals
      BY ProposalsAssumption DEF MemoryInv, MemoryTypes
    <2>1. ASSUME NEW S, NEW e, S = {} \/ S = {e}
          PROVE  /\ Memory!Cardinality(S) \in {0, 1} /\ (Memory!Cardinality(S) = 1 <=> S # {})
      <3>1. Memory!Cardinality(S) = Cardinality(S)
        BY DEF Memory!Cardinality, Cardinality
      <3>2. Cardinality({}) = 0 /\ Cardinality({e}) = 1
        BY FS_EmptySet, FS_Singleton
      <3>. QED  BY <2>1, <3>1, <3>2
    <2>2. ASSUME NEW p \in Proposals, NEW i \in DecisionIds
          PROVE  i \in Memory!Concluded(p) <=> Concludes(audit[i]) /\ audit[i].proposal = p
      BY <2>0 DEF Memory!Concluded, Concludes, AuditRow, AuditOk
    <2>3. ASSUME NEW p \in Proposals
          PROVE  \/ Memory!Concluded(p) = {}
                 \/ \E i \in DecisionIds : Memory!Concluded(p) = {i} /\ Concludes(audit[i]) /\ audit[i].proposal = p
      <3>1. \A i, j \in Memory!Concluded(p) : i = j
        BY <2>0, <2>2 DEF AuditOk, Memory!Concluded
      <3>. QED  BY <2>2, <3>1 DEF Memory!Concluded
    <2>4. ASSUME NEW v \in Versions
          PROVE  Entry(v).decision \in DecisionIds
      <3>1. v[1] \in Subjects /\ v[2] \in DOMAIN versions[v[1]]
        BY DEF Versions
      <3>2. Entry(v) \in VersionRow
        BY <2>0, <3>1 DEF Entry
      <3>. QED  BY <3>2 DEF VersionRow
    <2>5. ASSUME NEW p \in Proposals, NEW v
          PROVE  v \in Memory!VersionsFrom(p) <=> v \in Versions /\ Entry(v).proposal = p
      BY DEF Memory!VersionsFrom, Versions, Entry
    <2>6. ASSUME NEW p \in Proposals, NEW v \in Memory!VersionsFrom(p)
          PROVE  /\ Entry(v).decision \in Memory!Concluded(p)
                 /\ audit[Entry(v).decision].action = "approve"
      <3>1. v \in Versions /\ Entry(v).proposal = p
        BY <2>5
      <3>2. /\ audit[Entry(v).decision].action = "approve"
            /\ audit[Entry(v).decision].proposal = Entry(v).proposal
        BY <2>0, <3>1 DEF VersionsOk
      <3>. QED  BY <2>2, <2>4, <3>1, <3>2 DEF Concludes
    <2>7. ASSUME NEW p \in Proposals
          PROVE  /\ Memory!Cardinality(Memory!Concluded(p)) <= 1
                 /\ Memory!Cardinality(Memory!VersionsFrom(p))
                      = Memory!Cardinality({i \in Memory!Concluded(p) : audit[i].action = "approve"})
      <3>. DEFINE A == {i \in Memory!Concluded(p) : audit[i].action = "approve"}
                  V == Memory!VersionsFrom(p)
      <3>1. PICK e : e = CHOOSE i : i \in Memory!Concluded(p)
        OBVIOUS
      <3>2. PICK v : v = CHOOSE w : w \in V
        OBVIOUS
      <3>3. Memory!Concluded(p) = {} \/ Memory!Concluded(p) = {e}
        BY <2>3, <3>1
      <3>4. A = {} \/ A = {e}
        BY <3>3
      <3>5. V = {} \/ V = {v}
        <4>1. ASSUME NEW w \in V, NEW u \in V
              PROVE  w = u
          <5>1. Entry(w).decision = Entry(u).decision
            BY <2>6, <3>3
          <5>. QED  BY <2>0, <2>5, <5>1 DEF VersionsOk
        <4>. QED  BY <3>2, <4>1
      <3>6. V # {} => A # {}
        BY <2>6
      <3>7. A # {} => V # {}
        <4>1. ASSUME NEW i \in A
              PROVE  V # {}
          <5>1. i \in DecisionIds /\ audit[i].action = "approve" /\ audit[i].proposal = p
            BY <2>2 DEF Memory!Concluded
          <5>2. PICK w \in Versions : Entry(w).decision = i
            BY <2>0, <5>1 DEF VersionsOk
          <5>3. Entry(w).proposal = p
            BY <2>0, <5>1, <5>2 DEF VersionsOk
          <5>. QED  BY <2>5, <5>3
        <4>. QED  BY <4>1
      <3>8. Memory!Cardinality(Memory!Concluded(p)) \in {0, 1}
        BY <2>1, <3>3
      <3>9. Memory!Cardinality(A) \in {0, 1} /\ (Memory!Cardinality(A) = 1 <=> A # {})
        BY <2>1, <3>4
      <3>10. Memory!Cardinality(V) \in {0, 1} /\ (Memory!Cardinality(V) = 1 <=> V # {})
        BY <2>1, <3>5
      <3>. HIDE DEF A, V
      <3>11. Memory!Cardinality(V) = Memory!Cardinality(A)
        BY <3>6, <3>7, <3>9, <3>10
      <3>. QED  BY <3>8, <3>11 DEF A, V
    <2>8. Memory!OneConclusion
      BY <2>7 DEF Memory!OneConclusion
    <2>9. Memory!NoConfirmationLost
      <3>1. ASSUME NEW s \in Subjects, versions[s] # <<>>
            PROVE  Len(versions[s]) > 0
        BY <2>0, <3>1
      <3>. QED  BY <2>0, <3>1 DEF FactsOk, Memory!NoConfirmationLost, Memory!Last
    <2>10. Memory!DecidedIsKept
      BY <2>0, <2>2 DEF Memory!DecidedIsKept, AuditOk, Memory!Concluded, Settled
    <2>. QED  BY <2>8, <2>9, <2>10 DEF DecisionsCountOnce, Memory!DecisionsCountOnce
  <1>. QED  BY <1>1, MemoryInvariance, PTL

-----------------------------------------------------------------------------
(* The run of the support agent.                                             *)

Words   == Turn!Pieces \cup {"fallback", "refusal"}
Nodes   == {"receive_question", "guardrail_input", "route", "retrieve", "ticket_tool", "generate",
            "no_context", "guardrail_output", "cancelled", "end", "answered"}
Routes  == {"none", "reject", "rag", "ticket", "both"}
Tools   == {"none", "missing_id", "blocked"} \cup Turn!LookupOutcomes
Claims  == {"none"} \cup Turn!Statuses
Sources == SUBSET {"plain", "mentions"}
Memories == {"none", "clean", "unsafe"}
RunRow  == [node: Nodes, streaming: BOOLEAN, memory: Memories, route: Routes, id: BOOLEAN,
            retrieved: Sources, tool: Tools, authoritative: Claims, text: Seq(Turn!Pieces),
            delivered: Seq(Words), answer: Seq(Words), candidate: BOOLEAN, error: BOOLEAN,
            proposed: BOOLEAN, replied: Seq(Words)]

\* What may be shown of a run: what the output guard looks for in a text is not
\* in it.
Fits(t, text) ==
  /\ ~Turn!Has(text, "secret")
  /\ Turn!Has(text, "claim") => Turn!HasEvidence(t)
  /\ t.authoritative # "none" => Turn!Stated(text) \subseteq {t.authoritative}

Guarded(t) == t.answer \in Seq(Turn!Pieces) /\ Turn!ValidOutput(t.answer, t)

\* Before a model speaks nothing is shown; while it speaks what is shown is what
\* it said; when the run ends its answer was guarded, or is one of the fixed
\* texts of a run that was rejected.
RunOk(t) ==
  /\ t \in RunRow
  /\ Fits(t, t.delivered) /\ Fits(t, t.replied)
  /\ t.tool \in Turn!Statuses => t.authoritative = t.tool
  /\ t.node \in {"receive_question", "guardrail_input", "route", "retrieve", "ticket_tool"}
       => t.text = <<>> /\ t.delivered = <<>> /\ t.answer = <<>> /\ ~t.error /\ t.route # "reject"
  /\ t.node \in {"generate", "no_context"}
       => t.delivered = t.text /\ t.answer = <<>> /\ ~t.error /\ t.route # "reject"
  /\ t.node = "guardrail_output"
       => \/ t.answer = Turn!Fallback /\ t.route = "reject"
          \/ t.answer \in Seq(Turn!Pieces) /\ t.route # "reject" /\ (t.error => t.answer = <<>>)
  /\ t.node = "end"
       => \/ t.answer \in {<<>>, Turn!Fallback, Turn!Refusal} /\ t.route = "reject"
          \/ t.answer = <<>> /\ t.error
          \/ Guarded(t) /\ t.route # "reject" /\ ~t.error
  /\ t.node # "answered" => t.replied = <<>> /\ ~t.proposed
  /\ t.proposed => ~t.error /\ t.replied = t.answer /\ Guarded(t)

\* The fixed texts fit, and the fallback may close what fits.
LEMMA FixedTextsFit ==
  ASSUME NEW t
  PROVE  /\ Fits(t, <<>>) /\ Fits(t, Turn!Fallback) /\ Fits(t, Turn!Refusal)
         /\ \A text \in Seq(Words) : Fits(t, text) => Fits(t, text \o Turn!Fallback)
         /\ <<>> \in Seq(Words) /\ Turn!Fallback \in Seq(Words) /\ Turn!Refusal \in Seq(Words)
  <1>1. ASSUME NEW x, x \in {"secret", "claim"} \cup Turn!Statuses
        PROVE  ~Turn!Has(<<>>, x) /\ ~Turn!Has(Turn!Fallback, x) /\ ~Turn!Has(Turn!Refusal, x)
    BY <1>1 DEF Turn!Has, Turn!Fallback, Turn!Refusal, Turn!Statuses
  <1>2. Fits(t, <<>>) /\ Fits(t, Turn!Fallback) /\ Fits(t, Turn!Refusal)
    BY <1>1 DEF Fits, Turn!Stated
  <1>3. ASSUME NEW text \in Seq(Words), NEW x, x \in {"secret", "claim"} \cup Turn!Statuses
        PROVE  Turn!Has(text \o Turn!Fallback, x) => Turn!Has(text, x)
    <2>1. SUFFICES ASSUME NEW i \in DOMAIN (text \o Turn!Fallback), (text \o Turn!Fallback)[i] = x
                   PROVE  i \in DOMAIN text /\ text[i] = x
      BY DEF Turn!Has
    <2>2. i \in 1 .. Len(text) + 1 /\ Len(text) \in Nat
      BY <2>1 DEF Turn!Fallback
    <2>3. CASE i = Len(text) + 1
      <3>1. (text \o Turn!Fallback)[i] = "fallback"
        BY <2>2, <2>3 DEF Turn!Fallback
      <3>. QED  BY <1>3, <2>1, <3>1 DEF Turn!Statuses
    <2>4. CASE i \in 1 .. Len(text)
      BY <2>1, <2>4 DEF Turn!Fallback
    <2>. QED  BY <2>2, <2>3, <2>4
  <1>4. ASSUME NEW text \in Seq(Words), Fits(t, text)
        PROVE  Fits(t, text \o Turn!Fallback)
    BY <1>3, <1>4 DEF Fits, Turn!Stated
  <1>5. <<>> \in Seq(Words) /\ Turn!Fallback \in Seq(Words) /\ Turn!Refusal \in Seq(Words)
    BY DEF Turn!Fallback, Turn!Refusal, Words
  <1>. QED  BY <1>2, <1>4, <1>5

\* What the guards say of a text depends on what the run found.
LEMMA SameEvidence ==
  ASSUME NEW t, NEW z, z.memory = t.memory, z.retrieved = t.retrieved, z.tool = t.tool,
         z.authoritative = t.authoritative, NEW text
  PROVE  /\ Fits(z, text) <=> Fits(t, text)
         /\ Turn!ValidOutput(text, z) <=> Turn!ValidOutput(text, t)
  BY DEF Fits, Turn!ValidOutput, Turn!HasEvidence, Turn!UsableMemory

LEMMA ValidFits ==
  ASSUME NEW t, NEW text, Turn!ValidOutput(text, t)
  PROVE  Fits(t, text)
  BY DEF Turn!ValidOutput, Fits

LEMMA Members ==
  /\ "guardrail_input" \in Nodes /\ "route" \in Nodes /\ "retrieve" \in Nodes /\ "ticket_tool" \in Nodes
  /\ "generate" \in Nodes /\ "no_context" \in Nodes /\ "guardrail_output" \in Nodes
  /\ "cancelled" \in Nodes /\ "end" \in Nodes /\ "answered" \in Nodes
  /\ "reject" \in Routes /\ "rag" \in Routes /\ "ticket" \in Routes /\ "both" \in Routes
  /\ "missing_id" \in Tools /\ "blocked" \in Tools /\ \A o \in Turn!LookupOutcomes : o \in Tools
  /\ "none" \in Claims /\ \A s \in Turn!Statuses : s \in Claims
  /\ TRUE \in BOOLEAN /\ FALSE \in BOOLEAN
  BY DEF Nodes, Routes, Tools, Claims

\* The fields that a step sets together.
LEMMA RowUpdates ==
  ASSUME NEW t \in RunRow, NEW n \in Nodes
  PROVE  /\ [t EXCEPT !.node = n] \in RunRow
         /\ \A e \in BOOLEAN : [t EXCEPT !.error = e, !.node = n] \in RunRow
         /\ \A r \in Routes, w \in Seq(Words) : [t EXCEPT !.route = r, !.answer = w, !.node = n] \in RunRow
         /\ \A e \in BOOLEAN, r \in Routes, w \in Seq(Words) :
           [t EXCEPT !.error = e, !.route = r, !.answer = w, !.node = n] \in RunRow
         /\ \A r \in Routes, e \in BOOLEAN : [t EXCEPT !.route = r, !.id = e, !.node = n] \in RunRow
         /\ \A s \in Sources : [t EXCEPT !.retrieved = s, !.node = n] \in RunRow
         /\ \A u \in Tools : [t EXCEPT !.tool = u, !.node = n] \in RunRow
         /\ \A u \in Tools, c \in Claims : [t EXCEPT !.tool = u, !.authoritative = c, !.node = n] \in RunRow
  <1>1. [t EXCEPT !.node = n] \in RunRow
    BY DEF RunRow
  <1>2. \A e \in BOOLEAN : [t EXCEPT !.error = e, !.node = n] \in RunRow
    BY DEF RunRow
  <1>3. \A r \in Routes, w \in Seq(Words) : [t EXCEPT !.route = r, !.answer = w, !.node = n] \in RunRow
    BY DEF RunRow
  <1>4. \A e \in BOOLEAN, r \in Routes, w \in Seq(Words) :
           [t EXCEPT !.error = e, !.route = r, !.answer = w, !.node = n] \in RunRow
    BY DEF RunRow
  <1>5. \A r \in Routes, e \in BOOLEAN : [t EXCEPT !.route = r, !.id = e, !.node = n] \in RunRow
    BY DEF RunRow
  <1>6. \A s \in Sources : [t EXCEPT !.retrieved = s, !.node = n] \in RunRow
    BY DEF RunRow
  <1>7. \A u \in Tools : [t EXCEPT !.tool = u, !.node = n] \in RunRow
    BY DEF RunRow
  <1>8. \A u \in Tools, c \in Claims : [t EXCEPT !.tool = u, !.authoritative = c, !.node = n] \in RunRow
    BY DEF RunRow
  <1>. QED  BY <1>1, <1>2, <1>3, <1>4, <1>5, <1>6, <1>7, <1>8

LEMMA ModelUpdates ==
  ASSUME NEW t \in RunRow, NEW n \in Nodes
  PROVE  /\ \A x \in Seq(Turn!Pieces), w \in Seq(Words) :
           [t EXCEPT !.text = x, !.delivered = w] \in RunRow
         /\ \A x \in Seq(Turn!Pieces), w \in Seq(Words), r \in Routes, v \in Seq(Words) :
           [t EXCEPT !.text = x, !.delivered = w, !.route = r, !.answer = v, !.node = n] \in RunRow
         /\ \A x \in Seq(Turn!Pieces), w \in Seq(Words), e \in BOOLEAN :
           [t EXCEPT !.text = x, !.answer = w, !.candidate = e, !.node = n] \in RunRow
         /\ \A e \in BOOLEAN, w \in Seq(Words) :
           [t EXCEPT !.proposed = e, !.replied = w, !.node = n] \in RunRow
  <1>1. \A x \in Seq(Turn!Pieces), w \in Seq(Words) :
           [t EXCEPT !.text = x, !.delivered = w] \in RunRow
    BY DEF RunRow
  <1>2. \A x \in Seq(Turn!Pieces), w \in Seq(Words), r \in Routes, v \in Seq(Words) :
           [t EXCEPT !.text = x, !.delivered = w, !.route = r, !.answer = v, !.node = n] \in RunRow
    BY DEF RunRow
  <1>3. \A x \in Seq(Turn!Pieces), w \in Seq(Words), e \in BOOLEAN :
           [t EXCEPT !.text = x, !.answer = w, !.candidate = e, !.node = n] \in RunRow
    BY DEF RunRow
  <1>4. \A e \in BOOLEAN, w \in Seq(Words) :
           [t EXCEPT !.proposed = e, !.replied = w, !.node = n] \in RunRow
    BY DEF RunRow
  <1>. QED  BY <1>1, <1>2, <1>3, <1>4

RunInv == RunOk(turn)

\* A run before its model speaks, or that ends without.
LEMMA RunGoesOn ==
  ASSUME NEW t, RunOk(t), NEW z \in RunRow,
         t.node \in {"receive_question", "guardrail_input", "route", "retrieve", "ticket_tool"},
         z.text = t.text, z.delivered = t.delivered, z.replied = t.replied, z.proposed = t.proposed,
         z.tool \in Turn!Statuses => z.authoritative = z.tool,
         \/ /\ z.node \in {"guardrail_input", "route", "retrieve", "ticket_tool", "generate", "no_context"}
            /\ z.answer = t.answer /\ ~z.error /\ z.route # "reject"
         \/ /\ z.node = "end" /\ z.route = "reject" /\ z.answer \in {<<>>, Turn!Refusal}
         \/ /\ z.node = "end" /\ z.error /\ z.answer = t.answer
  PROVE  RunOk(z)
  <1>1. t.text = <<>> /\ t.delivered = <<>> /\ t.answer = <<>> /\ t.replied = <<>> /\ ~t.proposed
    BY DEF RunOk
  <1>2. Fits(z, z.delivered) /\ Fits(z, z.replied)
    BY <1>1, FixedTextsFit
  <1>. QED  BY <1>1, <1>2 DEF RunOk

LEMMA EarlySteps ==
  ASSUME RunInv,
         \/ Turn!ReceiveQuestion \/ Turn!GuardrailInput \/ Turn!Route \/ Turn!Retrieve \/ Turn!TicketTool
  PROVE  RunInv'
  <1>1. PICK t : t = turn
    OBVIOUS
  <1>2. PICK z : z = turn'
    OBVIOUS
  <1>3. RunOk(t) /\ t \in RunRow
    BY <1>1 DEF RunInv, RunOk
  <1>4. SUFFICES RunOk(z)
    BY <1>2 DEF RunInv
  <1>5. Turn!Refusal \in Seq(Words) /\ <<>> \in Seq(Words)
    BY FixedTextsFit
  <1>6. CASE Turn!ReceiveQuestion
    <2>1. /\ t.node = "receive_question"
          /\ \/ z = [t EXCEPT !.error = TRUE, !.route = "reject", !.answer = <<>>, !.node = "end"]
             \/ z = [t EXCEPT !.node = "guardrail_input"]
      BY <1>1, <1>2, <1>3, <1>6 DEF Turn!ReceiveQuestion, Turn!Visit, Turn!Reject, RunRow
    <2>2. ~t.error /\ t.route # "reject" /\ (t.tool \in Turn!Statuses => t.authoritative = t.tool)
      BY <1>3, <2>1 DEF RunOk
    <2>3. z \in RunRow
      <3>1. [t EXCEPT !.error = TRUE, !.route = "reject", !.answer = <<>>, !.node = "end"] \in RunRow
        BY <1>3, <1>5, Members, RowUpdates
      <3>2. [t EXCEPT !.node = "guardrail_input"] \in RunRow
        BY <1>3, <1>5, Members, RowUpdates
      <3>. QED  BY <2>1, <3>1, <3>2
    <2>4. z.text = t.text /\ z.delivered = t.delivered /\ z.replied = t.replied /\ z.proposed = t.proposed
      BY <1>3, <2>1 DEF RunRow
    <2>5. \/ /\ z.node \in {"guardrail_input", "route", "retrieve", "ticket_tool", "generate", "no_context"}
             /\ z.answer = t.answer /\ ~z.error /\ z.route # "reject"
          \/ /\ z.node = "end" /\ z.route = "reject" /\ z.answer \in {<<>>, Turn!Refusal}
          \/ /\ z.node = "end" /\ z.error /\ z.answer = t.answer
      BY <1>3, <2>1, <2>2 DEF RunRow
    <2>6. z.tool \in Turn!Statuses => z.authoritative = z.tool
      BY <1>3, <2>1, <2>2 DEF RunRow
    <2>. QED  BY <1>3, <2>1, <2>3, <2>4, <2>5, <2>6, RunGoesOn
  <1>7. CASE Turn!GuardrailInput
    <2>1. /\ t.node = "guardrail_input"
          /\ \/ z = [t EXCEPT !.route = "reject", !.answer = Turn!Refusal, !.node = "end"]
             \/ z = [t EXCEPT !.node = "route"]
      BY <1>1, <1>2, <1>3, <1>7 DEF Turn!GuardrailInput, Turn!Visit, Turn!Reject, RunRow
    <2>2. ~t.error /\ t.route # "reject" /\ (t.tool \in Turn!Statuses => t.authoritative = t.tool)
      BY <1>3, <2>1 DEF RunOk
    <2>3. z \in RunRow
      <3>1. [t EXCEPT !.route = "reject", !.answer = Turn!Refusal, !.node = "end"] \in RunRow
        BY <1>3, <1>5, Members, RowUpdates
      <3>2. [t EXCEPT !.node = "route"] \in RunRow
        BY <1>3, <1>5, Members, RowUpdates
      <3>. QED  BY <2>1, <3>1, <3>2
    <2>4. z.text = t.text /\ z.delivered = t.delivered /\ z.replied = t.replied /\ z.proposed = t.proposed
      BY <1>3, <2>1 DEF RunRow
    <2>5. \/ /\ z.node \in {"guardrail_input", "route", "retrieve", "ticket_tool", "generate", "no_context"}
             /\ z.answer = t.answer /\ ~z.error /\ z.route # "reject"
          \/ /\ z.node = "end" /\ z.route = "reject" /\ z.answer \in {<<>>, Turn!Refusal}
          \/ /\ z.node = "end" /\ z.error /\ z.answer = t.answer
      BY <1>3, <2>1, <2>2 DEF RunRow
    <2>6. z.tool \in Turn!Statuses => z.authoritative = z.tool
      BY <1>3, <2>1, <2>2 DEF RunRow
    <2>. QED  BY <1>3, <2>1, <2>3, <2>4, <2>5, <2>6, RunGoesOn
  <1>8. CASE Turn!Route
    <2>1. /\ t.node = "route"
          /\ \E route \in {"rag", "ticket", "both"}, id \in BOOLEAN, node \in {"ticket_tool", "retrieve"} :
               z = [t EXCEPT !.route = route, !.id = id, !.node = node]
      BY <1>1, <1>2, <1>3, <1>8 DEF Turn!Route, Turn!Visit, RunRow
    <2>2. ~t.error /\ t.route # "reject" /\ (t.tool \in Turn!Statuses => t.authoritative = t.tool)
      BY <1>3, <2>1 DEF RunOk
    <2>3. z \in RunRow
      <3>1. \A route \in {"rag", "ticket", "both"}, id \in BOOLEAN, node \in {"ticket_tool", "retrieve"} :
              [t EXCEPT !.route = route, !.id = id, !.node = node] \in RunRow
        BY <1>3, <1>5, Members, RowUpdates
      <3>. QED  BY <2>1, <3>1
    <2>4. z.text = t.text /\ z.delivered = t.delivered /\ z.replied = t.replied /\ z.proposed = t.proposed
      BY <1>3, <2>1 DEF RunRow
    <2>5. \/ /\ z.node \in {"guardrail_input", "route", "retrieve", "ticket_tool", "generate", "no_context"}
             /\ z.answer = t.answer /\ ~z.error /\ z.route # "reject"
          \/ /\ z.node = "end" /\ z.route = "reject" /\ z.answer \in {<<>>, Turn!Refusal}
          \/ /\ z.node = "end" /\ z.error /\ z.answer = t.answer
      BY <1>3, <2>1, <2>2 DEF RunRow
    <2>6. z.tool \in Turn!Statuses => z.authoritative = z.tool
      BY <1>3, <2>1, <2>2 DEF RunRow
    <2>. QED  BY <1>3, <2>1, <2>3, <2>4, <2>5, <2>6, RunGoesOn
  <1>9. CASE Turn!Retrieve
    <2>1. /\ t.node = "retrieve"
          /\ \/ z = [t EXCEPT !.route = "reject", !.answer = Turn!Refusal, !.node = "end"]
             \/ z = [t EXCEPT !.error = TRUE, !.node = "end"]
             \/ \E found \in Sources, node \in {"ticket_tool", "generate", "no_context"} :
                  z = [t EXCEPT !.retrieved = found, !.node = node]
      <3>1. \A chunks \in SUBSET {"plain", "mentions", "unsafe"} : Turn!SafeEvidence(chunks) \in Sources
        BY DEF Turn!SafeEvidence, Sources
      <3>2. \A y : Turn!AfterRetrieve(y) \in {"ticket_tool", "generate", "no_context"}
        BY DEF Turn!AfterRetrieve
      <3>3. CASE \E chunks \in SUBSET {"plain", "mentions", "unsafe"} :
                   LET y == [turn EXCEPT !.retrieved = Turn!SafeEvidence(chunks)]
                   IN Turn!Visit(y, Turn!AfterRetrieve(y))
        <4>1. PICK chunks \in SUBSET {"plain", "mentions", "unsafe"} :
                LET y == [turn EXCEPT !.retrieved = Turn!SafeEvidence(chunks)]
                IN Turn!Visit(y, Turn!AfterRetrieve(y))
          BY <3>3
        <4>2. PICK found : found = Turn!SafeEvidence(chunks)
          OBVIOUS
        <4>3. PICK node : node = Turn!AfterRetrieve([turn EXCEPT !.retrieved = found])
          OBVIOUS
        <4>4. z = [[t EXCEPT !.retrieved = found] EXCEPT !.node = node]
          BY <1>1, <1>2, <4>1, <4>2, <4>3 DEF Turn!Visit
        <4>5. z = [t EXCEPT !.retrieved = found, !.node = node]
          BY <4>4
        <4>. QED  BY <1>1, <1>9, <3>1, <3>2, <4>2, <4>3, <4>5 DEF Turn!Retrieve
      <3>. QED  BY <1>1, <1>2, <1>3, <1>9, <3>3 DEF Turn!Retrieve, Turn!Visit, Turn!Reject
    <2>2. ~t.error /\ t.route # "reject" /\ (t.tool \in Turn!Statuses => t.authoritative = t.tool)
      BY <1>3, <2>1 DEF RunOk
    <2>3. z \in RunRow
      <3>1. [t EXCEPT !.route = "reject", !.answer = Turn!Refusal, !.node = "end"] \in RunRow
        BY <1>3, <1>5, Members, RowUpdates
      <3>2. [t EXCEPT !.error = TRUE, !.node = "end"] \in RunRow
        BY <1>3, <1>5, Members, RowUpdates
      <3>3. \A found \in Sources, node \in {"ticket_tool", "generate", "no_context"} :
              [t EXCEPT !.retrieved = found, !.node = node] \in RunRow
        BY <1>3, <1>5, Members, RowUpdates
      <3>4. ASSUME NEW found \in Sources, NEW node \in {"ticket_tool", "generate", "no_context"},
                   z = [t EXCEPT !.retrieved = found, !.node = node]
            PROVE  z \in RunRow
        BY <3>3, <3>4
      <3>. QED  BY <2>1, <3>1, <3>2, <3>4
    <2>4. z.text = t.text /\ z.delivered = t.delivered /\ z.replied = t.replied /\ z.proposed = t.proposed
      BY <1>3, <2>1 DEF RunRow
    <2>5. \/ /\ z.node \in {"guardrail_input", "route", "retrieve", "ticket_tool", "generate", "no_context"}
             /\ z.answer = t.answer /\ ~z.error /\ z.route # "reject"
          \/ /\ z.node = "end" /\ z.route = "reject" /\ z.answer \in {<<>>, Turn!Refusal}
          \/ /\ z.node = "end" /\ z.error /\ z.answer = t.answer
      BY <1>3, <2>1, <2>2 DEF RunRow
    <2>6. z.tool \in Turn!Statuses => z.authoritative = z.tool
      BY <1>3, <2>1, <2>2 DEF RunRow
    <2>. QED  BY <1>3, <2>1, <2>3, <2>4, <2>5, <2>6, RunGoesOn
  <1>10. CASE Turn!TicketTool
    <2>1. /\ t.node = "ticket_tool"
          /\ \/ \E tool \in {"missing_id", "blocked"} : z = [t EXCEPT !.tool = tool, !.node = "generate"]
             \/ \E tool \in Turn!LookupOutcomes :
                  z = [t EXCEPT !.tool = tool,
                                !.authoritative = IF tool \in Turn!Statuses THEN tool ELSE "none",
                                !.node = "generate"]
      BY <1>1, <1>2, <1>3, <1>10 DEF Turn!TicketTool, Turn!Visit, RunRow
    <2>2. ~t.error /\ t.route # "reject"
      BY <1>3, <2>1 DEF RunOk
    <2>3. z \in RunRow
      <3>1. \A tool \in {"missing_id", "blocked"} : [t EXCEPT !.tool = tool, !.node = "generate"] \in RunRow
        BY <1>3, <1>5, Members, RowUpdates
      <3>2. \A tool \in Turn!LookupOutcomes :
              [t EXCEPT !.tool = tool,
                        !.authoritative = IF tool \in Turn!Statuses THEN tool ELSE "none",
                        !.node = "generate"] \in RunRow
        BY <1>3, <1>5, Members, RowUpdates
      <3>. QED  BY <2>1, <3>1, <3>2
    <2>4. z.text = t.text /\ z.delivered = t.delivered /\ z.replied = t.replied /\ z.proposed = t.proposed
      BY <1>3, <2>1 DEF RunRow
    <2>5. z.node = "generate" /\ z.answer = t.answer /\ ~z.error /\ z.route # "reject"
      BY <1>3, <2>1, <2>2 DEF RunRow
    <2>6. z.tool \in Turn!Statuses => z.authoritative = z.tool
      BY <1>3, <2>1 DEF RunRow, Turn!Statuses
    <2>. QED  BY <1>3, <2>1, <2>3, <2>4, <2>5, <2>6, RunGoesOn
  <1>. QED  BY <1>6, <1>7, <1>8, <1>9, <1>10

\* The model speaks: what is shown is what the guard let through.
LEMMA EmitStep ==
  ASSUME RunInv, NEW piece \in Turn!Pieces, Turn!Emit(piece)
  PROVE  RunInv'
  <1>1. PICK t : t = turn
    OBVIOUS
  <1>2. PICK z : z = turn'
    OBVIOUS
  <1>3. RunOk(t) /\ t \in RunRow
    BY <1>1 DEF RunInv, RunOk
  <1>4. SUFFICES RunOk(z)
    BY <1>2 DEF RunInv
  <1>5. /\ t.delivered = t.text /\ t.answer = <<>> /\ ~t.error /\ t.route # "reject"
        /\ t.node \in {"generate", "no_context"} /\ Fits(t, t.delivered)
        /\ t.replied = <<>> /\ ~t.proposed /\ (t.tool \in Turn!Statuses => t.authoritative = t.tool)
    BY <1>1, <1>3 DEF RunOk, Turn!Emit, Turn!Generating
  <1>6. PICK x : x = Append(t.text, piece)
    OBVIOUS
  <1>7. /\ t.text \in Seq(Turn!Pieces) /\ x \in Seq(Turn!Pieces) /\ x \in Seq(Words)
        /\ t.delivered \in Seq(Words)
    <2>1. t.text \in Seq(Turn!Pieces) /\ t.delivered \in Seq(Words)
      BY <1>3 DEF RunRow
    <2>2. x \in Seq(Turn!Pieces)
      BY <1>6, <2>1
    <2>3. x \in Seq(Words)
      BY <1>5, <1>6, <2>1 DEF Words
    <2>. QED  BY <2>1, <2>2, <2>3
  <1>8. PICK w : w = t.delivered \o Turn!Fallback
    OBVIOUS
  <1>9. w \in Seq(Words) /\ Fits(t, w) /\ Turn!Fallback \in Seq(Words)
    <2>1. Turn!Fallback \in Seq(Words)
      BY FixedTextsFit
    <2>2. w \in Seq(Words)
      BY <1>7, <1>8, <2>1
    <2>3. Fits(t, w)
      BY <1>5, <1>7, <1>8, FixedTextsFit
    <2>. QED  BY <2>1, <2>2, <2>3
  <1>12. PICK said : said = [t EXCEPT !.text = x]
    OBVIOUS
  <1>13. said.text = x /\ said.delivered = t.delivered
    BY <1>3, <1>12 DEF RunRow
  <1>14. PICK y : y = Turn!Delivered(t, piece)
    OBVIOUS
  <1>15. IF Turn!ValidOutput(y.text, t) THEN z = y
         ELSE Turn!Visit(Turn!Reject([y EXCEPT !.delivered = @ \o Turn!Fallback], Turn!Fallback), "guardrail_output")
    BY <1>1, <1>2, <1>14 DEF Turn!Emit
  <1>16. y = IF Turn!ValidOutput(x, t) THEN [said EXCEPT !.delivered = Append(@, piece)] ELSE said
    BY <1>6, <1>12, <1>13, <1>14 DEF Turn!Delivered
  <1>10. CASE Turn!ValidOutput(x, t)
    <2>1. z = [t EXCEPT !.text = x, !.delivered = x]
      <3>1. y = [said EXCEPT !.delivered = x] /\ y.text = x
        BY <1>3, <1>5, <1>6, <1>10, <1>12, <1>13, <1>16 DEF RunRow
      <3>. QED  BY <1>10, <1>12, <1>15, <3>1
    <2>2. z \in RunRow
      <3>1. t.node \in Nodes
        BY <1>3 DEF RunRow
      <3>. QED  BY <1>3, <1>7, <2>1, <3>1, ModelUpdates
    <2>3. /\ z.text = x /\ z.delivered = x /\ z.node = t.node /\ z.answer = t.answer /\ z.error = t.error
          /\ z.route = t.route /\ z.replied = t.replied /\ z.proposed = t.proposed
          /\ z.memory = t.memory /\ z.retrieved = t.retrieved /\ z.tool = t.tool
          /\ z.authoritative = t.authoritative
      BY <1>3, <2>1 DEF RunRow
    <2>4. Fits(z, x) /\ Fits(z, <<>>)
      BY <1>10, <2>3, SameEvidence, ValidFits, FixedTextsFit
    <2>. QED  BY <1>5, <2>2, <2>3, <2>4 DEF RunOk
  <1>11. CASE ~Turn!ValidOutput(x, t)
    <2>1. z = [t EXCEPT !.text = x, !.delivered = w, !.route = "reject", !.answer = Turn!Fallback,
                        !.node = "guardrail_output"]
      <3>1. y = said /\ Turn!Visit(Turn!Reject([y EXCEPT !.delivered = w], Turn!Fallback), "guardrail_output")
        BY <1>8, <1>11, <1>13, <1>15, <1>16
      <3>. QED  BY <1>2, <1>12, <3>1 DEF Turn!Visit, Turn!Reject
    <2>2. z \in RunRow
      BY <1>3, <1>7, <1>9, <2>1, ModelUpdates, Members
    <2>3. /\ z.delivered = w /\ z.node = "guardrail_output" /\ z.answer = Turn!Fallback
          /\ z.route = "reject" /\ z.replied = t.replied /\ z.proposed = t.proposed
          /\ z.memory = t.memory /\ z.retrieved = t.retrieved /\ z.tool = t.tool
          /\ z.authoritative = t.authoritative
      BY <1>3, <2>1 DEF RunRow
    <2>4. Fits(z, w) /\ Fits(z, <<>>)
      BY <1>9, <2>3, SameEvidence, FixedTextsFit
    <2>. QED  BY <1>5, <2>2, <2>3, <2>4 DEF RunOk
  <1>. QED  BY <1>10, <1>11

\* The model has spoken, has failed or was interrupted.
LEMMA GenerationStep ==
  ASSUME RunInv, Turn!Generated \/ Turn!GenerationFails \/ Turn!GenerationCancelled
  PROVE  RunInv'
  <1>1. PICK t : t = turn
    OBVIOUS
  <1>2. PICK z : z = turn'
    OBVIOUS
  <1>3. RunOk(t) /\ t \in RunRow
    BY <1>1 DEF RunInv, RunOk
  <1>4. SUFFICES RunOk(z)
    BY <1>2 DEF RunInv
  <1>5. /\ t.delivered = t.text /\ t.answer = <<>> /\ ~t.error /\ t.route # "reject"
        /\ t.node \in {"generate", "no_context"} /\ Fits(t, t.delivered)
        /\ t.replied = <<>> /\ ~t.proposed /\ (t.tool \in Turn!Statuses => t.authoritative = t.tool)
    BY <1>1, <1>3 DEF RunOk, Turn!Generated, Turn!GenerationFails, Turn!GenerationCancelled, Turn!Generating
  <1>6. ASSUME z \in RunRow,
               z.delivered = t.delivered, z.replied = t.replied, z.proposed = t.proposed,
               z.memory = t.memory, z.retrieved = t.retrieved, z.tool = t.tool,
               z.authoritative = t.authoritative, z.route = t.route,
               \/ /\ z.node = "guardrail_output" /\ z.answer \in Seq(Turn!Pieces)
                  /\ z.error => z.answer = <<>>
               \/ z.node = "cancelled"
        PROVE  RunOk(z)
    <2>1. Fits(z, z.delivered) /\ Fits(z, z.replied)
      BY <1>5, <1>6, SameEvidence, FixedTextsFit
    <2>. QED  BY <1>5, <1>6, <2>1 DEF RunOk
  <1>7. CASE Turn!Generated
    <2>1. PICK text \in (IF turn.streaming THEN {turn.text} ELSE Turn!SeqOf(Turn!Pieces, MaxPieces)),
               candidate \in BOOLEAN :
            \E first, last \in Turn!Said(text) :
              /\ Turn!Said(text) \subseteq first .. last
              /\ Turn!Visit([turn EXCEPT !.text = text, !.answer = SubSeq(text, first, last),
                                         !.candidate = candidate], "guardrail_output")
      BY <1>7 DEF Turn!Generated
    <2>2. PICK first \in Turn!Said(text), last \in Turn!Said(text) :
            /\ Turn!Said(text) \subseteq first .. last
            /\ Turn!Visit([turn EXCEPT !.text = text, !.answer = SubSeq(text, first, last),
                                       !.candidate = candidate], "guardrail_output")
      BY <2>1
    <2>3. text \in Seq(Turn!Pieces)
      <3>1. t.text \in Seq(Turn!Pieces)
        BY <1>3 DEF RunRow
      <3>2. Turn!SeqOf(Turn!Pieces, MaxPieces) \subseteq Seq(Turn!Pieces)
        BY PiecesAssumption DEF Turn!SeqOf
      <3>. QED  BY <1>1, <2>1, <3>1, <3>2
    <2>4. PICK said : said = SubSeq(text, first, last)
      OBVIOUS
    <2>5. said \in Seq(Turn!Pieces)
      BY <2>2, <2>3, <2>4 DEF Turn!Said
    <2>6. said \in Seq(Words)
      BY <2>5 DEF Words
    <2>7. z = [t EXCEPT !.text = text, !.answer = said, !.candidate = candidate, !.node = "guardrail_output"]
      BY <1>1, <1>2, <2>2, <2>4 DEF Turn!Visit
    <2>8. z \in RunRow
      BY <1>3, <2>3, <2>6, <2>7, ModelUpdates, Members
    <2>9. /\ z.node = "guardrail_output" /\ z.answer = said /\ z.error = t.error /\ z.route = t.route
          /\ z.delivered = t.delivered /\ z.replied = t.replied /\ z.proposed = t.proposed
          /\ z.memory = t.memory /\ z.retrieved = t.retrieved /\ z.tool = t.tool
          /\ z.authoritative = t.authoritative
      BY <1>3, <2>7 DEF RunRow
    <2>. QED  BY <1>5, <1>6, <2>5, <2>8, <2>9
  <1>8. CASE Turn!GenerationFails \/ Turn!GenerationCancelled
    <2>1. \/ z = [t EXCEPT !.error = TRUE, !.node = "guardrail_output"]
          \/ z = [t EXCEPT !.node = "cancelled"]
      BY <1>1, <1>2, <1>8 DEF Turn!GenerationFails, Turn!GenerationCancelled, Turn!Visit
    <2>2. /\ [t EXCEPT !.error = TRUE, !.node = "guardrail_output"] \in RunRow
          /\ [t EXCEPT !.node = "cancelled"] \in RunRow
      BY <1>3, RowUpdates, Members
    <2>3. /\ z.node = "guardrail_output" \/ z.node = "cancelled"
          /\ z.answer = t.answer /\ z.route = t.route
          /\ z.delivered = t.delivered /\ z.replied = t.replied /\ z.proposed = t.proposed
          /\ z.memory = t.memory /\ z.retrieved = t.retrieved /\ z.tool = t.tool
          /\ z.authoritative = t.authoritative
      BY <1>3, <2>1 DEF RunRow
    <2>4. z \in RunRow
      BY <2>1, <2>2
    <2>5. z.answer = <<>> /\ <<>> \in Seq(Turn!Pieces)
      BY <1>5, <2>3
    <2>. QED  BY <1>6, <2>3, <2>4, <2>5
  <1>. QED  BY <1>7, <1>8

\* The output guard reads the answer, and the service keeps what it let through.
LEMMA LastSteps ==
  ASSUME RunInv, Turn!GuardrailOutput \/ Turn!Answer
  PROVE  RunInv'
  <1>1. PICK t : t = turn
    OBVIOUS
  <1>2. PICK z : z = turn'
    OBVIOUS
  <1>3. RunOk(t) /\ t \in RunRow
    BY <1>1 DEF RunInv, RunOk
  <1>4. SUFFICES RunOk(z)
    BY <1>2 DEF RunInv
  <1>5. /\ Fits(t, t.delivered) /\ (t.tool \in Turn!Statuses => t.authoritative = t.tool)
        /\ Turn!Fallback \in Seq(Words) /\ <<>> \in Seq(Words) /\ t.answer \in Seq(Words)
    BY <1>3, FixedTextsFit DEF RunOk, RunRow
  <1>6. CASE Turn!GuardrailOutput
    <2>1. t.node = "guardrail_output" /\ t.replied = <<>> /\ ~t.proposed
      BY <1>1, <1>3, <1>6 DEF Turn!GuardrailOutput, RunOk
    <2>2. \/ t.answer = Turn!Fallback /\ t.route = "reject"
          \/ t.answer \in Seq(Turn!Pieces) /\ t.route # "reject" /\ (t.error => t.answer = <<>>)
      BY <1>3, <2>1 DEF RunOk
    <2>3. CASE t.answer = Turn!Fallback \/ Turn!ValidOutput(t.answer, t)
      <3>1. z = [t EXCEPT !.node = "end"]
        BY <1>1, <1>2, <1>6, <2>3 DEF Turn!GuardrailOutput, Turn!Visit
      <3>2. z \in RunRow
        BY <1>3, <3>1, RowUpdates, Members
      <3>3. /\ z.node = "end" /\ z.answer = t.answer /\ z.error = t.error /\ z.route = t.route
            /\ z.delivered = t.delivered /\ z.replied = t.replied /\ z.proposed = t.proposed
            /\ z.memory = t.memory /\ z.retrieved = t.retrieved /\ z.tool = t.tool
            /\ z.authoritative = t.authoritative
        BY <1>3, <3>1 DEF RunRow
      <3>4. Fits(z, z.delivered) /\ Fits(z, z.replied)
        BY <1>5, <2>1, <3>3, SameEvidence, FixedTextsFit
      <3>5. \/ t.answer = Turn!Fallback /\ t.route = "reject"
            \/ t.answer = <<>> /\ t.error
            \/ Guarded(z) /\ t.route # "reject" /\ ~t.error
        <4>1. Turn!Fallback \notin Seq(Turn!Pieces)
          <5>1. Turn!Fallback[1] = "fallback" /\ Len(Turn!Fallback) = 1
            BY DEF Turn!Fallback
          <5>2. "fallback" \notin Turn!Pieces
            BY DEF Turn!Pieces, Turn!Statuses
          <5>. QED  BY <5>1, <5>2
        <4>2. Turn!ValidOutput(t.answer, t) => Turn!ValidOutput(t.answer, z)
          BY <3>3, SameEvidence
        <4>. QED  BY <2>2, <2>3, <3>3, <4>1, <4>2 DEF Guarded
      <3>. QED  BY <1>5, <2>1, <3>2, <3>3, <3>4, <3>5 DEF RunOk
    <2>4. CASE ~(t.answer = Turn!Fallback \/ Turn!ValidOutput(t.answer, t))
      <3>1. z = [t EXCEPT !.route = "reject", !.answer = Turn!Fallback, !.node = "end"]
        BY <1>1, <1>2, <1>6, <2>4 DEF Turn!GuardrailOutput, Turn!Visit, Turn!Reject
      <3>2. z \in RunRow
        BY <1>3, <1>5, <3>1, RowUpdates, Members
      <3>3. /\ z.node = "end" /\ z.answer = Turn!Fallback /\ z.route = "reject"
            /\ z.delivered = t.delivered /\ z.replied = t.replied /\ z.proposed = t.proposed
            /\ z.memory = t.memory /\ z.retrieved = t.retrieved /\ z.tool = t.tool
            /\ z.authoritative = t.authoritative
        BY <1>3, <3>1 DEF RunRow
      <3>4. Fits(z, z.delivered) /\ Fits(z, z.replied)
        BY <1>5, <2>1, <3>3, SameEvidence, FixedTextsFit
      <3>. QED  BY <1>5, <2>1, <3>2, <3>3, <3>4 DEF RunOk
    <2>. QED  BY <2>3, <2>4
  <1>7. CASE Turn!Answer
    <2>1. t.node = "end" /\ t.replied = <<>> /\ ~t.proposed
      BY <1>1, <1>3, <1>7 DEF Turn!Answer, RunOk
    <2>2. PICK e \in BOOLEAN : e = (Turn!MayPropose(t) /\ t.candidate)
      BY <1>3 DEF RunRow
    <2>3. PICK w : w = IF Turn!RunStatus(t) \in {"ok", "rejected"} THEN t.answer ELSE <<>>
      OBVIOUS
    <2>4. z = [t EXCEPT !.proposed = e, !.replied = w, !.node = "answered"]
      BY <1>1, <1>2, <1>7, <2>2, <2>3 DEF Turn!Answer, Turn!Visit
    <2>5. w \in Seq(Words) /\ z \in RunRow
      <3>1. w \in Seq(Words)
        BY <1>5, <2>3
      <3>. QED  BY <1>3, <2>4, <3>1, ModelUpdates, Members
    <2>6. /\ z.node = "answered" /\ z.answer = t.answer /\ z.error = t.error
          /\ z.delivered = t.delivered /\ z.replied = w /\ z.proposed = e
          /\ z.memory = t.memory /\ z.retrieved = t.retrieved /\ z.tool = t.tool
          /\ z.authoritative = t.authoritative
      BY <1>3, <2>4 DEF RunRow
    <2>7. \/ t.answer \in {<<>>, Turn!Fallback, Turn!Refusal} /\ t.route = "reject"
          \/ t.answer = <<>> /\ t.error
          \/ Guarded(t) /\ t.route # "reject" /\ ~t.error
      BY <1>3, <2>1 DEF RunOk
    <2>8. Guarded(t) => Guarded(z) /\ Fits(t, t.answer)
      BY <2>6, SameEvidence, ValidFits DEF Guarded
    <2>9. Fits(t, w)
      BY <2>3, <2>7, <2>8, FixedTextsFit
    <2>10. Fits(z, z.delivered) /\ Fits(z, z.replied)
      BY <1>5, <2>6, <2>9, SameEvidence
    <2>11. e => ~t.error /\ w = t.answer /\ Guarded(z)
      BY <2>2, <2>3, <2>7, <2>8 DEF Turn!MayPropose, Turn!RunStatus
    <2>. QED  BY <1>5, <2>5, <2>6, <2>10, <2>11 DEF RunOk
  <1>. QED  BY <1>6, <1>7

LEMMA RunInvariance == Turn!TurnSpec => []RunInv
  <1>1. Turn!TurnInit => RunInv
    <2>. SUFFICES ASSUME Turn!TurnInit PROVE RunInv
      OBVIOUS
    <2>1. PICK t : t = turn
      OBVIOUS
    <2>2. PICK s \in BOOLEAN, m \in {"none", "clean", "unsafe"} :
            t = [Turn!NewTurn EXCEPT !.streaming = s, !.memory = m]
      BY <2>1 DEF Turn!TurnInit
    <2>3. t = [node |-> "receive_question", streaming |-> s, memory |-> m,
               route |-> "none", id |-> FALSE, retrieved |-> {}, tool |-> "none",
               authoritative |-> "none", text |-> <<>>, delivered |-> <<>>, answer |-> <<>>,
               candidate |-> FALSE, error |-> FALSE, proposed |-> FALSE, replied |-> <<>>]
      BY <2>2 DEF Turn!NewTurn
    <2>4. /\ "receive_question" \in Nodes /\ m \in Memories /\ "none" \in Routes /\ {} \in Sources
          /\ "none" \in Tools /\ "none" \in Claims /\ <<>> \in Seq(Turn!Pieces) /\ <<>> \in Seq(Words)
      BY DEF Nodes, Memories, Routes, Sources, Tools, Claims
    <2>5. t \in RunRow
      BY <2>3, <2>4 DEF RunRow
    <2>6. Fits(t, <<>>)
      BY FixedTextsFit
    <2>7. RunOk(t)
      BY <2>3, <2>5, <2>6 DEF RunOk, Turn!Statuses
    <2>. QED  BY <2>1, <2>7 DEF RunInv
  <1>2. RunInv /\ [Turn!TurnNext]_turn => RunInv'
    <2>. SUFFICES ASSUME RunInv, [Turn!TurnNext]_turn PROVE RunInv'
      OBVIOUS
    <2>1. CASE UNCHANGED turn
      BY <2>1 DEF RunInv
    <2>2. CASE \E piece \in Turn!Pieces : Turn!Emit(piece)
      BY <2>2, EmitStep
    <2>3. CASE Turn!ReceiveQuestion \/ Turn!GuardrailInput \/ Turn!Route \/ Turn!Retrieve \/ Turn!TicketTool
      BY <2>3, EarlySteps
    <2>4. CASE Turn!Generated \/ Turn!GenerationFails \/ Turn!GenerationCancelled
      BY <2>4, GenerationStep
    <2>5. CASE Turn!GuardrailOutput \/ Turn!Answer
      BY <2>5, LastSteps
    <2>. QED  BY <2>1, <2>2, <2>3, <2>4, <2>5 DEF Turn!TurnNext
  <1>. QED  BY <1>1, <1>2, PTL DEF Turn!TurnSpec

\* Nothing is shown or proposed that the guards would refuse, piece by piece
\* or as a whole (guarded_token_callback, guardrail_output_node, answer).
THEOREM OnlyGuardedTextHolds == Turn!TurnSpec => []OnlyGuardedText
  <1>1. RunInv => OnlyGuardedText
    <2>. SUFFICES ASSUME RunInv PROVE OnlyGuardedText
      OBVIOUS
    <2>1. /\ RunOk(turn) /\ turn \in RunRow /\ Fits(turn, turn.delivered) /\ Fits(turn, turn.replied)
          /\ turn.tool \in Turn!Statuses => turn.authoritative = turn.tool
          /\ turn.proposed => ~turn.error /\ turn.replied = turn.answer /\ Guarded(turn)
      BY DEF RunInv, RunOk
    <2>2. Turn!OnlySafeTextIsShown
      <3>1. ASSUME NEW text, Fits(turn, text)
            PROVE  /\ ~Turn!Has(text, "secret")
                   /\ turn.tool \in Turn!Statuses => Turn!Stated(text) \subseteq {turn.tool}
        <4>1. turn.tool \in Turn!Statuses => turn.authoritative = turn.tool /\ turn.tool # "none"
          BY <2>1 DEF Turn!Statuses
        <4>. QED  BY <3>1, <4>1 DEF Fits
      <3>. QED  BY <2>1, <3>1 DEF Turn!OnlySafeTextIsShown, Turn!Shown
    <2>3. Turn!HasEvidence(turn)
            => turn.retrieved \ {"unsafe"} # {} \/ turn.tool # "none" \/ turn.memory = "clean"
      <3>1. turn.retrieved \in Sources
        BY <2>1 DEF RunRow
      <3>2. "unsafe" \notin turn.retrieved
        BY <3>1 DEF Sources
      <3>. QED  BY <3>2 DEF Turn!HasEvidence, Turn!UsableMemory
    <2>4. Turn!ClaimsAreGrounded
      BY <2>1, <2>3 DEF Turn!ClaimsAreGrounded, Turn!Shown, Fits
    <2>5. Turn!ProposalsComeWithAnswers
      <3>1. ASSUME turn.proposed
            PROVE  turn.replied \notin {<<>>, Turn!Fallback, Turn!Refusal} /\ ~turn.error
        <4>1. /\ turn.replied \in Seq(Turn!Pieces) /\ ~turn.error
              /\ \E i \in DOMAIN turn.replied : turn.replied[i] # "blank"
          BY <2>1, <3>1 DEF Guarded, Turn!ValidOutput
        <4>2. turn.replied # <<>>
          BY <4>1
        <4>3. "fallback" \notin Turn!Pieces /\ "refusal" \notin Turn!Pieces
          BY DEF Turn!Pieces, Turn!Statuses
        <4>4. turn.replied[1] \in Turn!Pieces
          BY <4>1, <4>2
        <4>5. Turn!Fallback[1] = "fallback" /\ Turn!Refusal[1] = "refusal"
          BY DEF Turn!Fallback, Turn!Refusal
        <4>. QED  BY <4>1, <4>2, <4>3, <4>4, <4>5
      <3>. QED  BY <3>1 DEF Turn!ProposalsComeWithAnswers
    <2>. QED  BY <2>2, <2>4, <2>5 DEF OnlyGuardedText, Turn!OnlyGuardedText
  <1>. QED  BY <1>1, RunInvariance, PTL

-----------------------------------------------------------------------------
(* The estimate of a proposal.                                               *)

\* Half-up rounding is off by at most half a unit.
LEMMA HalfUpIsNear ==
  ASSUME NEW n \in Nat, NEW d \in Nat \ {0}
  PROVE  /\ Price!HalfUp(n, d) \in Nat
         /\ 2 * d * Price!HalfUp(n, d) <= 2 * n + d
         /\ 2 * n - d < 2 * d * Price!HalfUp(n, d)
  BY DEF Price!HalfUp

QuoteRow == [currency: Price!Currencies, volume: Volumes \cup {0}]

LEMMA EstimateIsPublished ==
  ASSUME quote \in QuoteRow
  PROVE  QuoteIsPublished
  <1>. DEFINE V == Price!Volume(quote)
              F == Price!Fulfilment(quote)
  <1>1. SUFFICES ASSUME NEW tier \in Price!Tiers, V \in tier.from .. tier.to
                 PROVE  100 * (Price!Total(quote) - Price!Storage(quote)) - (100 - tier.rate) * F \in -50 .. 50
    BY DEF QuoteIsPublished, Price!QuoteIsPublished
  <1>2. V \in Nat /\ Price!DiscountForVolume(V) = tier.rate /\ tier.rate \in {0, 5, 8, 12}
    BY <1>1 DEF Price!Tiers, Price!DiscountForVolume
  <1>3. Price!Code(quote) \in {"USD", "EUR"}
    BY DEF QuoteRow, Price!Code, Price!Currencies
  <1>4. F \in Nat
    <2>1. PICK lm \in Nat, rp \in Nat : /\ lm = Price!LastMile[Price!Code(quote)]
                                        /\ rp = Price!ReturnsProcessing[Price!Code(quote)]
      BY <1>3 DEF Price!LastMile, Price!ReturnsProcessing
    <2>2. PICK h \in Nat : h = Price!HalfUp(6 * V, 100)
      <3>1. PICK n \in Nat : n = 6 * V
        BY <1>2
      <3>2. Price!HalfUp(n, 100) \in Nat
        BY HalfUpIsNear
      <3>. QED  BY <3>1, <3>2
    <2>3. F = V * lm + h * rp
      BY <2>1, <2>2 DEF Price!Fulfilment
    <2>. HIDE DEF V, F
    <2>4. V * lm \in Nat /\ h * rp \in Nat
      BY <1>2
    <2>. QED  BY <2>3, <2>4
  <1>5. Price!Storage(quote) \in Nat
    <2>1. PICK sp \in Nat : sp = Price!StoragePerCubicMeter[Price!Code(quote)]
      BY <1>3 DEF Price!StoragePerCubicMeter
    <2>2. PICK h \in Nat : h = Price!HalfUp(12 * V, 10)
      <3>1. PICK n \in Nat : n = 12 * V
        BY <1>2
      <3>2. Price!HalfUp(n, 10) \in Nat
        BY HalfUpIsNear
      <3>. QED  BY <3>1, <3>2
    <2>3. Price!Storage(quote) = Price!HalfUp(h * sp, 100)
      BY <2>1, <2>2 DEF Price!Storage
    <2>4. h * sp \in Nat
      OBVIOUS
    <2>. QED  BY <2>3, <2>4, HalfUpIsNear
  <1>. HIDE DEF V, F
  <1>6. PICK m \in Nat : m = F * tier.rate
    BY <1>2, <1>4
  <1>7. PICK x \in Nat : x = Price!Discount(quote) /\ 200 * x <= 2 * m + 100 /\ 2 * m - 100 < 200 * x
    <2>1. Price!Discount(quote) = Price!HalfUp(m, 100)
      BY <1>2, <1>6 DEF Price!Discount, V, F
    <2>. QED  BY <2>1, HalfUpIsNear
  <1>8. Price!Total(quote) - Price!Storage(quote) = F - x
    <2>1. Price!Total(quote) = F + Price!Storage(quote) - x
      BY <1>7 DEF Price!Total, F
    <2>. QED  BY <2>1, <1>4, <1>5
  <1>9. (100 - tier.rate) * F = 100 * F - m
    BY <1>2, <1>4, <1>6
  <1>10. 100 * (F - x) - (100 * F - m) \in -50 .. 50
    <2>1. 100 * (F - x) - (100 * F - m) = m - 100 * x
      BY <1>4
    <2>2. m - 100 * x \in -50 .. 50
      <3>1. 2 * m - 100 < 200 * x /\ 200 * x <= 2 * m + 100
        BY <1>7
      <3>2. m - 100 * x <= 50
        BY <3>1
      <3>3. 0 - 50 <= m - 100 * x
        BY <3>1
      <3>. QED  BY <3>2, <3>3
    <2>. QED  BY <2>1, <2>2
  <1>. QED  BY <1>8, <1>9, <1>10

\* Every estimate the desk prints (build_cost_breakdown): whatever volumes an
\* RFP may state, the price is the published rate's to the nearest cent.
THEOREM QuoteIsPublishedHolds == MCSpec => []QuoteIsPublished
  <1>1. MCInit => quote \in QuoteRow
    BY DEF MCInit, QuoteRow, Price!PriceInit, Price!Currencies
  <1>2. quote \in QuoteRow /\ [MCNext]_<<part, quote, rfp, stream, turn, memory>> => (quote \in QuoteRow)'
    BY DEF MCNext, QuoteRow, Price!Currencies
  <1>3. quote \in QuoteRow => QuoteIsPublished
    BY EstimateIsPublished
  <1>. QED  BY <1>1, <1>2, <1>3, PTL DEF MCSpec

-----------------------------------------------------------------------------
(* The streamed answer.  Three recursive functions read the reply: the       *)
(* decoder's copying loop, its unescaping of what was copied, and the        *)
(* reference, one symbol at a time.  All of them are compared position by    *)
(* position with the reference, whose value at a position depends only on    *)
(* the symbols before it.                                                    *)

Symbols == Stream!Symbols
Letters == Symbols \cup {"newline", "point"}
Modes   == {"text", "escape", "digits", "closed", "invalid"}
Going   == {"text", "escape", "digits"}
Reader  == [mode: Modes, digits: Nat, text: Seq(Letters)]

LEMMA ReadOnTypes ==
  ASSUME NEW r \in Reader, NEW c \in Symbols
  PROVE  Stream!ReadOn(r, c) \in Reader
  <1>1. HexDigits \in Nat \ {0} /\ c \in Letters /\ "point" \in Letters
    BY DigitsAssumption DEF Letters
  <1>2. \A x \in DOMAIN Stream!Replacement : Stream!Replacement[x] \in Letters
    BY DEF Stream!Replacement, Letters, Symbols, Stream!Symbols
  <1>3. \A x \in Letters : Append(r.text, x) \in Seq(Letters)
    BY DEF Reader
  <1>4. Stream!ReadText(r, c) \in Reader
    <2>1. PICK x : x = Append(r.text, c)
      OBVIOUS
    <2>2. Stream!ReadText(r, c) \in {[r EXCEPT !.mode = "closed"], [r EXCEPT !.mode = "escape"],
                                     [r EXCEPT !.text = x]}
      BY <2>1 DEF Stream!ReadText
    <2>3. x \in Seq(Letters)
      BY <1>1, <1>3, <2>1
    <2>. QED  BY <2>2, <2>3 DEF Reader, Modes
  <1>5. Stream!ReadEscape(r, c) \in Reader
    <2>1. CASE c = "u"
      BY <1>1, <2>1 DEF Stream!ReadEscape, Reader, Modes
    <2>2. CASE c # "u" /\ c \in DOMAIN Stream!Replacement
      <3>1. PICK x \in Seq(Letters) : x = Append(r.text, Stream!Replacement[c])
        BY <1>2, <1>3, <2>2
      <3>2. Stream!ReadEscape(r, c) = [r EXCEPT !.mode = "text", !.text = x]
        BY <2>2, <3>1 DEF Stream!ReadEscape
      <3>. QED  BY <3>2 DEF Reader, Modes
    <2>3. CASE c # "u" /\ c \notin DOMAIN Stream!Replacement
      BY <2>3 DEF Stream!ReadEscape, Reader, Modes
    <2>. QED  BY <2>1, <2>2, <2>3
  <1>6. Stream!ReadDigit(r, c) \in Reader
    <2>1. PICK x \in Seq(Letters) : x = Append(r.text, "point")
      BY <1>1, <1>3
    <2>2. Stream!ReadDigit(r, c) \in {[r EXCEPT !.mode = "invalid"], [r EXCEPT !.digits = r.digits + 1],
                                      [r EXCEPT !.mode = "text", !.text = x]}
      BY <2>1 DEF Stream!ReadDigit
    <2>3. [r EXCEPT !.digits = r.digits + 1] \in Reader
      BY DEF Reader
    <2>4. [r EXCEPT !.mode = "text", !.text = x] \in Reader
      BY <2>1 DEF Reader, Modes
    <2>5. [r EXCEPT !.mode = "invalid"] \in Reader
      BY DEF Reader, Modes
    <2>. QED  BY <2>2, <2>3, <2>4, <2>5
  <1>. QED  BY <1>4, <1>5, <1>6 DEF Stream!ReadOn

\* The reference is a function on the positions of the reply.
LEMMA ReadingIs ==
  ASSUME NEW s \in Seq(Symbols)
  PROVE  /\ Stream!Reading(s)[0] = Stream!StartOfText
         /\ \A k \in 1..Len(s) : Stream!Reading(s)[k] = Stream!ReadOn(Stream!Reading(s)[k - 1], s[k])
         /\ \A k \in 0..Len(s) : Stream!Reading(s)[k] \in Reader
  <1>. DEFINE Is(f) == f = [k \in 0 .. Len(s) |-> IF k = 0 THEN Stream!StartOfText
                                                  ELSE Stream!ReadOn(f[k - 1], s[k])]
  <1>0. Len(s) \in Nat /\ \A k \in 1..Len(s) : s[k] \in Symbols
    OBVIOUS
  <1>1. Stream!StartOfText \in Reader
    BY DEF Stream!StartOfText, Reader, Modes
  <1>2. \E f : Is(f)
    <2>1. PICK step : step = [k \in 1..Len(s) |-> [r \in Reader |-> Stream!ReadOn(r, s[k])]]
      OBVIOUS
    <2>2. \A k \in 0 + 1 .. Len(s) : \A r \in Reader : step[k][r] \in Reader
      BY <1>0, <2>1, ReadOnTypes
    <2>3. PICK f \in [0 .. Len(s) -> Reader] : Iterates(f, 0, Len(s), Stream!StartOfText, step)
      <3>1. Len(s) \in Int /\ 0 \in Int
        BY <1>0
      <3>. QED  BY <1>1, <2>2, <3>1, IterationExists
    <2>4. ASSUME NEW k \in 0 .. Len(s), k # 0
          PROVE  step[k][f[k - 1]] = Stream!ReadOn(f[k - 1], s[k])
      <3>1. k \in 1..Len(s) /\ k - 1 \in 0 .. Len(s)
        BY <1>0, <2>4
      <3>. QED  BY <2>1, <2>3, <3>1
    <2>5. Is(f)
      BY ONLY <2>3, <2>4 DEF Is, Iterates
    <2>. QED  BY <2>5
  <1>3. PICK f : f = CHOOSE g : Is(g)
    OBVIOUS
  <1>4. Is(f)
    BY <1>2, <1>3
  <1>5. Stream!Reading(s) = f
    BY <1>3 DEF Stream!Reading
  <1>6. /\ f[0] = Stream!StartOfText
        /\ \A k \in 1..Len(s) : f[k] = Stream!ReadOn(f[k - 1], s[k])
    <2>1. 0 \in 0 .. Len(s) /\ \A k \in 1..Len(s) : k \in 0 .. Len(s) /\ k # 0
      BY <1>0
    <2>. QED  BY <1>4, <2>1
  <1>. DEFINE S == {k \in 0 .. Len(s) : f[k] \in Reader}
  <1>7. \A k \in 0 .. Len(s) : k \in S
    <2>1. 0 \in S
      BY <1>0, <1>1, <1>6
    <2>2. ASSUME NEW k \in 0 .. Len(s) - 1, k \in S
          PROVE  k + 1 \in S
      <3>1. k + 1 \in 1..Len(s) /\ (k + 1) - 1 = k /\ k + 1 \in 0 .. Len(s)
        BY <1>0
      <3>2. f[k + 1] = Stream!ReadOn(f[k], s[k + 1])
        BY <1>6, <3>1
      <3>. QED  BY <1>0, <2>2, <3>1, <3>2, ReadOnTypes
    <2>3. 0 \in Int /\ Len(s) \in Int
      BY <1>0
    <2>. HIDE DEF S
    <2>. QED  BY <2>1, <2>2, <2>3, Climbing
  <1>. QED  BY <1>5, <1>6, <1>7

\* What it has read of a reply, it has read of every longer one.
LEMMA ReadingsAgree ==
  ASSUME NEW s \in Seq(Symbols), NEW t \in Seq(Symbols), Len(s) <= Len(t),
         \A i \in 1..Len(s) : s[i] = t[i]
  PROVE  \A k \in 0 .. Len(s) : Stream!Reading(s)[k] = Stream!Reading(t)[k]
  <1>. DEFINE S == {k \in 0 .. Len(s) : Stream!Reading(s)[k] = Stream!Reading(t)[k]}
  <1>0. Len(s) \in Nat /\ Len(t) \in Nat
    OBVIOUS
  <1>1. 0 \in S
    BY <1>0, ReadingIs
  <1>2. ASSUME NEW k \in 0 .. Len(s) - 1, k \in S
        PROVE  k + 1 \in S
    <2>1. k + 1 \in 1..Len(s) /\ k + 1 \in 1..Len(t) /\ (k + 1) - 1 = k /\ k + 1 \in 0 .. Len(s)
      BY <1>0
    <2>2. Stream!Reading(s)[k + 1] = Stream!ReadOn(Stream!Reading(s)[k], s[k + 1])
      BY <2>1, ReadingIs
    <2>3. Stream!Reading(t)[k + 1] = Stream!ReadOn(Stream!Reading(t)[k], t[k + 1])
      BY <2>1, ReadingIs
    <2>. QED  BY <1>2, <2>1, <2>2, <2>3
  <1>. HIDE DEF S
  <1>3. \A k \in 0 .. Len(s) : k \in S
    <2>1. 0 \in Int /\ Len(s) \in Int
      BY <1>0
    <2>. QED  BY <1>1, <1>2, <2>1, Climbing
  <1>. QED  BY <1>3 DEF S

\* A closed or an invalid reply stays as it is.
LEMMA ReadingEnds ==
  ASSUME NEW s \in Seq(Symbols), NEW j \in 0 .. Len(s),
         Stream!Reading(s)[j].mode \notin Going
  PROVE  \A k \in j .. Len(s) : Stream!Reading(s)[k] = Stream!Reading(s)[j]
  <1>. DEFINE S == {k \in j .. Len(s) : Stream!Reading(s)[k] = Stream!Reading(s)[j]}
  <1>0. Len(s) \in Nat /\ j \in Nat
    OBVIOUS
  <1>1. j \in S
    OBVIOUS
  <1>2. ASSUME NEW k \in j .. Len(s) - 1, k \in S
        PROVE  k + 1 \in S
    <2>1. k + 1 \in 1..Len(s) /\ (k + 1) - 1 = k /\ k + 1 \in j .. Len(s)
      BY <1>0
    <2>2. Stream!Reading(s)[k + 1] = Stream!ReadOn(Stream!Reading(s)[k], s[k + 1])
      BY <2>1, ReadingIs
    <2>3. Stream!Reading(s)[k].mode \notin {"text", "escape", "digits"}
      BY <1>2 DEF Going
    <2>4. Stream!ReadOn(Stream!Reading(s)[k], s[k + 1]) = Stream!Reading(s)[k]
      BY <2>3 DEF Stream!ReadOn
    <2>. QED  BY <1>2, <2>1, <2>2, <2>4
  <1>. HIDE DEF S
  <1>3. \A k \in j .. Len(s) : k \in S
    <2>1. j \in Int /\ Len(s) \in Int
      BY <1>0
    <2>. QED  BY <1>1, <1>2, <2>1, Climbing
  <1>. QED  BY <1>3 DEF S

\* So what is valid, or still going, has always been.
LEMMA ReadingGoes ==
  ASSUME NEW s \in Seq(Symbols), NEW k \in 0 .. Len(s)
  PROVE  LET now == Stream!Reading(s)[k].mode
         IN \A j \in 0 .. k : LET then == Stream!Reading(s)[j].mode
                              IN /\ now # "invalid" => then # "invalid"
                                 /\ now \in Going => then \in Going
  <1>1. ASSUME NEW j \in 0 .. k, Stream!Reading(s)[j].mode \notin Going
        PROVE  Stream!Reading(s)[k] = Stream!Reading(s)[j]
    <2>1. j \in 0 .. Len(s) /\ k \in j .. Len(s)
      OBVIOUS
    <2>. QED  BY <1>1, <2>1, ReadingEnds
  <1>2. "invalid" \notin Going
    BY DEF Going
  <1>. QED  BY <1>1, <1>2

\* How the mode moves on.
LEMMA ModeMoves ==
  ASSUME NEW r \in Reader, NEW c \in Symbols
  PROVE  LET mode == Stream!ReadOn(r, c).mode
         IN /\ r.mode = "text" => mode = IF c = "quote" THEN "closed"
                                         ELSE IF c = "backslash" THEN "escape" ELSE "text"
            /\ r.mode = "escape" => mode = IF c = "u" THEN "digits"
                                           ELSE IF c \in DOMAIN Stream!Replacement THEN "text" ELSE "invalid"
            /\ r.mode = "digits" => /\ mode \in {"invalid", "digits", "text"}
                                    /\ c # "0" => mode = "invalid"
  <1>1. r.mode = "text" => Stream!ReadOn(r, c) = Stream!ReadText(r, c)
    BY DEF Stream!ReadOn
  <1>2. r.mode = "escape" => Stream!ReadOn(r, c) = Stream!ReadEscape(r, c)
    BY DEF Stream!ReadOn
  <1>3. r.mode = "digits" => Stream!ReadOn(r, c) = Stream!ReadDigit(r, c)
    BY DEF Stream!ReadOn
  <1>4. PICK t, u, w : /\ t = Append(r.text, c) /\ u = Append(r.text, Stream!Replacement[c])
                       /\ w = Append(r.text, "point")
    OBVIOUS
  <1>5. Stream!ReadText(r, c).mode = IF c = "quote" THEN "closed"
                                     ELSE IF c = "backslash" THEN "escape" ELSE r.mode
    BY DEF Stream!ReadText, Reader
  <1>6. Stream!ReadEscape(r, c).mode = IF c = "u" THEN "digits"
                                       ELSE IF c \in DOMAIN Stream!Replacement THEN "text" ELSE "invalid"
    BY DEF Stream!ReadEscape, Reader
  <1>7. /\ Stream!ReadDigit(r, c).mode \in {"invalid", r.mode, "text"}
        /\ c # "0" => Stream!ReadDigit(r, c).mode = "invalid"
    BY DEF Stream!ReadDigit, Reader
  <1>. QED  BY <1>1, <1>2, <1>3, <1>5, <1>6, <1>7

\* While the reply goes on, an odd run of backslashes is a pending escape.
LEMMA OddRunIsEscape ==
  ASSUME NEW e \in Seq(Symbols), Stream!Reading(e)[Len(e)].mode \in Going
  PROVE  Stream!QuoteIsEscaped(e) <=> Stream!Reading(e)[Len(e)].mode = "escape"
  <1>. DEFINE Is(f) == f = [k \in 0 .. Len(e) |-> IF k > 0 /\ e[k] = "backslash" THEN 1 + f[k - 1] ELSE 0]
  <1>0. Len(e) \in Nat /\ \A k \in 1..Len(e) : e[k] \in Symbols
    OBVIOUS
  <1>1. \E f : Is(f)
    <2>1. PICK step : step = [k \in 1..Len(e) |-> [r \in Nat |-> IF e[k] = "backslash" THEN 1 + r ELSE 0]]
      OBVIOUS
    <2>2. \A k \in 0 + 1 .. Len(e) : \A r \in Nat : step[k][r] \in Nat
      BY <1>0, <2>1
    <2>3. PICK f \in [0 .. Len(e) -> Nat] : Iterates(f, 0, Len(e), 0, step)
      <3>1. Len(e) \in Int /\ 0 \in Int /\ 0 \in Nat
        BY <1>0
      <3>. QED  BY <2>2, <3>1, IterationExists
    <2>4. ASSUME NEW k \in 0 .. Len(e), k # 0
          PROVE  k > 0 /\ step[k][f[k - 1]] = IF e[k] = "backslash" THEN 1 + f[k - 1] ELSE 0
      <3>1. k > 0 /\ k \in 1..Len(e) /\ k - 1 \in 0 .. Len(e)
        BY <1>0, <2>4
      <3>. QED  BY <2>1, <2>3, <3>1
    <2>5. \A k \in 0 .. Len(e) : (IF k = 0 THEN 0 ELSE step[k][f[k - 1]])
                                   = IF k > 0 /\ e[k] = "backslash" THEN 1 + f[k - 1] ELSE 0
      BY <2>4
    <2>6. Is(f)
      BY ONLY <2>3, <2>5 DEF Is, Iterates
    <2>. QED  BY <2>6
  <1>2. PICK f : f = CHOOSE g : Is(g)
    OBVIOUS
  <1>3. Is(f)
    BY <1>1, <1>2
  <1>4. Stream!QuoteIsEscaped(e) <=> f[Len(e)] % 2 = 1
    BY <1>2 DEF Stream!QuoteIsEscaped
  <1>. DEFINE R == Stream!Reading(e)
              S == {k \in 0 .. Len(e) : f[k] \in Nat /\ (f[k] % 2 = 1 <=> R[k].mode = "escape")}
  <1>5. 0 \in S
    <2>1. f[0] = 0
      BY <1>0, <1>3
    <2>2. R[0].mode = "text"
      BY ReadingIs DEF Stream!StartOfText
    <2>. QED  BY <1>0, <2>1, <2>2
  <1>6. ASSUME NEW k \in 0 .. Len(e) - 1, k \in S
        PROVE  k + 1 \in S
    <2>1. k + 1 \in 1..Len(e) /\ (k + 1) - 1 = k /\ k + 1 \in 0 .. Len(e) /\ k + 1 > 0 /\ k \in 0 .. Len(e)
      BY <1>0
    <2>2. R[k + 1] = Stream!ReadOn(R[k], e[k + 1]) /\ R[k] \in Reader
      BY <2>1, ReadingIs
    <2>3. R[k].mode \in Going /\ R[k + 1].mode \in Going
      <3>1. Len(e) \in 0 .. Len(e) /\ k \in 0 .. Len(e) /\ k + 1 \in 0 .. Len(e)
        BY <1>0, <2>1
      <3>. QED  BY <3>1, ReadingGoes
    <2>4. f[k + 1] = IF e[k + 1] = "backslash" THEN 1 + f[k] ELSE 0
      BY <1>3, <2>1
    <2>5. f[k] \in Nat /\ (f[k] % 2 = 1 <=> R[k].mode = "escape")
      BY <1>6
    <2>6. e[k + 1] \in Symbols /\ "backslash" \in DOMAIN Stream!Replacement
      BY <1>0, <2>1 DEF Stream!Replacement
    <2>. HIDE DEF R, Is
    <2>7. R[k + 1].mode = "escape" <=> R[k].mode # "escape" /\ e[k + 1] = "backslash"
      BY <2>2, <2>3, <2>6, ModeMoves DEF Going
    <2>8. CASE e[k + 1] = "backslash"
      <3>1. PICK x \in Nat : x = f[k]
        BY <2>5
      <3>2. 1 + x \in Nat /\ ((1 + x) % 2 = 1 <=> ~(x % 2 = 1))
        OBVIOUS
      <3>3. f[k + 1] = 1 + x
        BY <2>4, <2>8, <3>1
      <3>4. f[k + 1] \in Nat /\ (f[k + 1] % 2 = 1 <=> ~(x % 2 = 1))
        BY <3>2, <3>3
      <3>5. x % 2 = 1 <=> R[k].mode = "escape"
        BY <2>5, <3>1
      <3>6. f[k + 1] % 2 = 1 <=> R[k + 1].mode = "escape"
        BY <2>7, <2>8, <3>4, <3>5
      <3>. QED  BY <2>1, <3>4, <3>6
    <2>9. CASE e[k + 1] # "backslash"
      <3>1. f[k + 1] = 0 /\ ~(R[k + 1].mode = "escape")
        BY <2>4, <2>7, <2>9
      <3>. QED  BY <2>1, <3>1
    <2>. QED  BY <2>8, <2>9
  <1>. HIDE DEF S
  <1>7. \A k \in 0 .. Len(e) : k \in S
    <2>1. 0 \in Int /\ Len(e) \in Int
      BY <1>0
    <2>. QED  BY <1>5, <1>6, <2>1, Climbing
  <1>8. Len(e) \in 0 .. Len(e)
    BY <1>0
  <1>. QED  BY <1>4, <1>7, <1>8 DEF S

\* The readings r of s find, from k on, the digits of a code point.
DigitsFollow(r, s, k) ==
  \A j \in 0 .. HexDigits :
    k + j <= Len(s) =>
      /\ j < HexDigits => r[k + j].mode = "digits" /\ r[k + j].digits = j /\ r[k + j].text = r[k].text
      /\ j = HexDigits => r[k + j].mode = "text" /\ r[k + j].text = Append(r[k].text, "point")
      /\ j > 0 => s[k + j] = "0"

\* A code point that has begun: so far its digits have been digits.
LEMMA DigitsAreRead ==
  ASSUME NEW s \in Seq(Symbols), Stream!Reading(s)[Len(s)].mode \in Going,
         NEW k \in 0 .. Len(s), Stream!Reading(s)[k].mode = "digits", Stream!Reading(s)[k].digits = 0
  PROVE  DigitsFollow(Stream!Reading(s), s, k)
  <1>. DEFINE R == Stream!Reading(s)
              P(j) == /\ j < HexDigits => R[k + j].mode = "digits" /\ R[k + j].digits = j /\ R[k + j].text = R[k].text
                      /\ j = HexDigits => R[k + j].mode = "text" /\ R[k + j].text = Append(R[k].text, "point")
                      /\ j > 0 => s[k + j] = "0"
              S == {j \in 0 .. HexDigits : k + j <= Len(s) => P(j)}
  <1>0. HexDigits \in Nat /\ HexDigits > 0 /\ Len(s) \in Nat /\ k \in Nat
    BY DigitsAssumption
  <1>1. 0 \in S
    BY <1>0
  <1>2. ASSUME NEW j \in 0 .. HexDigits - 1, j \in S
        PROVE  j + 1 \in S
    <2>1. SUFFICES ASSUME k + (j + 1) <= Len(s) PROVE P(j + 1)
      BY <1>0
    <2>2. /\ k + j <= Len(s) /\ j < HexDigits /\ k + j \in 0 .. Len(s) /\ (k + j) + 1 \in 1..Len(s)
          /\ ((k + j) + 1) - 1 = k + j /\ (k + j) + 1 = k + (j + 1) /\ (k + j) + 1 \in 0 .. Len(s)
      BY <1>0, <2>1
    <2>3. R[k + j].mode = "digits" /\ R[k + j].digits = j /\ R[k + j].text = R[k].text
      BY <1>2, <2>2
    <2>4. R[k + (j + 1)] = Stream!ReadOn(R[k + j], s[k + (j + 1)]) /\ R[k + j] \in Reader
      BY <2>2, ReadingIs
    <2>5. s[k + (j + 1)] \in Symbols
      BY <2>2
    <2>6. R[k + (j + 1)].mode \in Going
      <3>1. Len(s) \in 0 .. Len(s) /\ k + (j + 1) \in 0 .. Len(s)
        BY <1>0, <2>2
      <3>. QED  BY <3>1, ReadingGoes
    <2>. HIDE DEF R
    <2>7. s[k + (j + 1)] = "0"
      BY <2>3, <2>4, <2>5, <2>6, ModeMoves DEF Going
    <2>8. R[k + (j + 1)] = IF j + 1 < HexDigits THEN [R[k + j] EXCEPT !.digits = @ + 1]
                           ELSE [R[k + j] EXCEPT !.mode = "text", !.text = Append(@, "point")]
      BY <2>3, <2>4, <2>7 DEF Stream!ReadOn, Stream!ReadDigit
    <2>9. CASE j + 1 < HexDigits
      BY <1>0, <2>3, <2>4, <2>7, <2>8, <2>9 DEF Reader
    <2>10. CASE ~(j + 1 < HexDigits)
      <3>1. j + 1 = HexDigits
        BY <1>0, <2>10
      <3>2. PICK x : x = Append(R[k].text, "point")
        OBVIOUS
      <3>3. R[k + (j + 1)].mode = "text" /\ R[k + (j + 1)].text = x
        BY <2>3, <2>4, <2>8, <2>10, <3>2 DEF Reader
      <3>. QED  BY <1>0, <2>7, <3>1, <3>2, <3>3
    <2>. QED  BY <2>9, <2>10
  <1>. HIDE DEF S
  <1>3. \A j \in 0 .. HexDigits : j \in S
    <2>1. 0 \in Int /\ HexDigits \in Int
      BY <1>0
    <2>. QED  BY <1>1, <1>2, <2>1, Climbing
  <1>. QED  BY <1>3 DEF S, DigitsFollow

\* A piece moved from the front of the rest to the end of what is there.
LEMMA MovedOver ==
  ASSUME NEW T, NEW a \in Seq(T), NEW x \in T, NEW b \in Seq(T)
  PROVE  Append(a, x) \o b = a \o (<<x>> \o b)
  OBVIOUS

\* A piece put before what follows it.
LEMMA PutBefore ==
  ASSUME NEW T, NEW x \in T, NEW b \in Seq(T)
  PROVE  <<x>> \o b \in Seq(T)
  <1>1. <<x>> \in Seq(T)
    OBVIOUS
  <1>. QED  BY <1>1

\* The unescaping of _decode_complete_prefix is what the reference has read.
Escapes(e, i)  == e[i] = "backslash"
Unfinished(e, i) ==
  \/ i > Len(e)
  \/ /\ Escapes(e, i)
     /\ \/ i = Len(e)
        \/ e[i + 1] = "u" /\ ~Stream!CodePointAt(e, i)
        \/ e[i + 1] # "u" /\ e[i + 1] \notin DOMAIN Stream!Replacement
Piece(e, i) ==
  IF ~Escapes(e, i) THEN <<e[i]>>
  ELSE IF e[i + 1] = "u" THEN <<"point">> ELSE <<Stream!Replacement[e[i + 1]]>>
Following(e, i) ==
  IF ~Escapes(e, i) THEN i + 1 ELSE IF e[i + 1] = "u" THEN i + 2 + HexDigits ELSE i + 2

LEMMA DecodingIs ==
  ASSUME NEW e \in Seq(Symbols)
  PROVE  \E d : /\ \A i \in 1 .. Len(e) + HexDigits + 2 :
                     d[i] = IF Unfinished(e, i) THEN <<>> ELSE Piece(e, i) \o d[Following(e, i)]
                /\ Stream!DecodeCompletePrefix(e) = d[1]
  <1>. DEFINE Is(f) == f = [i \in 1 .. Len(e) + HexDigits + 2 |->
        IF i > Len(e) THEN <<>>
        ELSE IF e[i] # "backslash" THEN <<e[i]>> \o f[i + 1]
        ELSE IF i = Len(e) THEN <<>>
        ELSE IF e[i + 1] = "u"
             THEN IF Stream!CodePointAt(e, i) THEN <<"point">> \o f[i + 2 + HexDigits] ELSE <<>>
        ELSE IF e[i + 1] \in DOMAIN Stream!Replacement
             THEN <<Stream!Replacement[e[i + 1]]>> \o f[i + 2]
        ELSE <<>>]
  <1>0. HexDigits \in Nat /\ HexDigits > 0 /\ Len(e) \in Nat
    BY DigitsAssumption
  <1>1. PICK last \in Nat : last = Len(e) + HexDigits + 2
    BY <1>0
  <1>2. PICK piece : piece = [i \in 1..last |-> Piece(e, i)]
    OBVIOUS
  <1>3. PICK next : next = [i \in 1..last |-> Following(e, i)]
    OBVIOUS
  <1>4. PICK stops : stops = {i \in 1..last : Unfinished(e, i)}
    OBVIOUS
  <1>5. ASSUME NEW f
        PROVE  f = [i \in 1..last |-> IF i \in stops THEN <<>> ELSE piece[i] \o f[next[i]]] <=> Is(f)
    <2>1. ASSUME NEW i \in 1..last
          PROVE  (IF i \in stops THEN <<>> ELSE piece[i] \o f[next[i]])
                   = (IF i > Len(e) THEN <<>>
                      ELSE IF e[i] # "backslash" THEN <<e[i]>> \o f[i + 1]
                      ELSE IF i = Len(e) THEN <<>>
                      ELSE IF e[i + 1] = "u"
                           THEN IF Stream!CodePointAt(e, i) THEN <<"point">> \o f[i + 2 + HexDigits] ELSE <<>>
                      ELSE IF e[i + 1] \in DOMAIN Stream!Replacement
                           THEN <<Stream!Replacement[e[i + 1]]>> \o f[i + 2]
                      ELSE <<>>)
      <3>1. i \in stops <=> Unfinished(e, i)
        BY <1>4
      <3>2. piece[i] = Piece(e, i) /\ next[i] = Following(e, i)
        BY <1>2, <1>3
      <3>3. i \in Nat
        OBVIOUS
      <3>. QED  BY <1>0, <3>1, <3>2, <3>3, ZenonT(60) DEF Unfinished, Piece, Following, Escapes
    <2>. QED  BY ONLY <1>1, <2>1 DEF Is
  <1>6. \E f : Is(f)
    <2>1. ASSUME NEW i \in 1..last, i \notin stops
          PROVE  next[i] \in i + 1 .. last
      <3>1. next[i] = Following(e, i) /\ ~Unfinished(e, i)
        BY <1>3, <1>4, <2>1
      <3>2. i <= Len(e) /\ (Escapes(e, i) => i < Len(e))
        BY <1>0, <3>1 DEF Unfinished
      <3>. QED  BY <1>0, <1>1, <3>1, <3>2 DEF Following
    <2>2. PICK f : Unfolds(f, last, stops, piece, next)
      BY <2>1, UnfoldingExists
    <2>3. f = [i \in 1..last |-> IF i \in stops THEN <<>> ELSE piece[i] \o f[next[i]]]
      BY ONLY <2>2 DEF Unfolds
    <2>. HIDE DEF Is
    <2>. QED  BY <1>5, <2>3
  <1>7. PICK d : d = CHOOSE g : Is(g)
    OBVIOUS
  <1>8. Is(d)
    BY <1>6, <1>7
  <1>9. Stream!DecodeCompletePrefix(e) = d[1]
    BY <1>7 DEF Stream!DecodeCompletePrefix
  <1>10. d = [i \in 1..last |-> IF i \in stops THEN <<>> ELSE piece[i] \o d[next[i]]]
    BY <1>5, <1>8
  <1>. HIDE DEF Is
  <1>11. ASSUME NEW i \in 1..last
         PROVE  d[i] = IF Unfinished(e, i) THEN <<>> ELSE Piece(e, i) \o d[Following(e, i)]
    <2>1. i \in stops <=> Unfinished(e, i)
      BY <1>4
    <2>2. piece[i] = Piece(e, i) /\ next[i] = Following(e, i)
      BY <1>2, <1>3
    <2>. QED  BY <1>10, <2>1, <2>2
  <1>. QED  BY <1>1, <1>9, <1>11

LEMMA PrefixIsDecoded ==
  ASSUME NEW e \in Seq(Symbols), Stream!Reading(e)[Len(e)].mode \in Going
  PROVE  Stream!DecodeCompletePrefix(e) = Stream!Reading(e)[Len(e)].text
  <1>0. HexDigits \in Nat /\ HexDigits > 0 /\ Len(e) \in Nat /\ \A k \in 1..Len(e) : e[k] \in Symbols
    BY DigitsAssumption
  <1>. DEFINE R == Stream!Reading(e)
              n == Len(e)
              last == Len(e) + HexDigits + 2
  <1>1. PICK d : /\ \A i \in 1..last :
                      d[i] = IF Unfinished(e, i) THEN <<>> ELSE Piece(e, i) \o d[Following(e, i)]
                 /\ Stream!DecodeCompletePrefix(e) = d[1]
    BY DecodingIs
  <1>2. \A k \in 0..n : R[k] \in Reader /\ R[k].mode \in Going /\ R[k].text \in Seq(Letters)
    <2>1. \A k \in 0..n : R[k] \in Reader
      BY ReadingIs
    <2>2. \A k \in 0..n : R[k].mode \in Going
      <3>1. n \in 0..n
        BY <1>0
      <3>. QED  BY <3>1, ReadingGoes
    <2>. QED  BY <2>1, <2>2 DEF Reader
  <1>3. ASSUME NEW k \in 1..n
        PROVE  R[k] = Stream!ReadOn(R[k - 1], e[k])
    BY ReadingIs
  <1>. DEFINE Rest(i) == d[i] \in Seq(Letters) /\ R[n].text = R[i - 1].text \o d[i]
              S == {i \in 1..last : i <= n + 1 /\ R[i - 1].mode = "text" => Rest(i)}
  <1>4. ASSUME NEW i \in 1..last, \A j \in i + 1 .. last : j \in S
        PROVE  i \in S
    <2>. SUFFICES ASSUME i <= n + 1, R[i - 1].mode = "text" PROVE Rest(i)
      OBVIOUS
    <2>0. i \in Nat /\ i > 0 /\ i - 1 \in 0..n
      BY <1>0
    <2>t. PICK t \in Seq(Letters) : t = R[i - 1].text
      BY <1>2, <2>0
    \* A piece that is text, and what follows it.
    <2>p. ASSUME NEW x \in Letters, Piece(e, i) = <<x>>, ~Unfinished(e, i),
                 NEW j \in i + 1 .. n + 1, Following(e, i) = j,
                 R[j - 1].mode = "text", R[j - 1].text = Append(t, x)
          PROVE  Rest(i)
      <3>1. j \in i + 1 .. last /\ j \in 1..last /\ j <= n + 1
        BY <1>0, <2>0
      <3>2. Rest(j)
        BY <1>4, <2>p, <3>1
      <3>3. d[i] = <<x>> \o d[j]
        BY <1>1, <2>p
      <3>4. PICK b \in Seq(Letters) : b = d[j]
        BY <3>2
      <3>5. R[n].text = Append(t, x) \o b
        BY <2>p, <3>2, <3>4
      <3>6. R[n].text = t \o (<<x>> \o b)
        <4>1. Append(t, x) \o b = t \o (<<x>> \o b)
          <5>1. t \in Seq(Letters) /\ b \in Seq(Letters) /\ x \in Letters
            OBVIOUS
          <5>. QED  BY ONLY <5>1, MovedOver
        <4>. QED  BY <3>5, <4>1, Zenon
      <3>7. <<x>> \o b \in Seq(Letters)
        BY PutBefore, Zenon
      <3>. QED  BY <2>t, <3>3, <3>4, <3>6, <3>7
    \* Nothing more is text.
    <2>e. ASSUME Unfinished(e, i), R[n].text = t
          PROVE  Rest(i)
      <3>1. d[i] = <<>>
        BY <1>1, <2>e
      <3>2. t \o <<>> = t /\ <<>> \in Seq(Letters)
        OBVIOUS
      <3>. QED  BY <2>e, <2>t, <3>1, <3>2
    <2>1. CASE i = n + 1
      <3>1. i - 1 = n /\ i > Len(e)
        BY <1>0, <2>1
      <3>. QED  BY <2>e, <2>t, <3>1 DEF Unfinished
    <2>2. CASE i <= n /\ e[i] # "backslash"
      <3>0. i \in 1..n /\ i \in 0..n
        BY <1>0, <2>0, <2>2
      <3>1. R[i] = Stream!ReadOn(R[i - 1], e[i]) /\ R[i].mode \in Going /\ e[i] \in Symbols
        BY <1>0, <1>2, <1>3, <3>0
      <3>2. e[i] # "quote"
        BY <1>2, <2>0, <3>1, ModeMoves DEF Going
      <3>3. PICK a : a = Append(t, e[i])
        OBVIOUS
      <3>4. R[i] = [R[i - 1] EXCEPT !.text = a]
        BY <2>2, <2>t, <3>1, <3>2, <3>3 DEF Stream!ReadOn, Stream!ReadText
      <3>5. R[i].mode = "text" /\ R[i].text = a
        BY <1>2, <2>0, <3>4 DEF Reader
      <3>6. i + 1 \in i + 1 .. n + 1 /\ (i + 1) - 1 = i /\ e[i] \in Letters
        BY <1>0, <2>0, <3>0, <3>1 DEF Letters
      <3>7. Piece(e, i) = <<e[i]>> /\ Following(e, i) = i + 1 /\ ~Unfinished(e, i)
        BY <1>0, <2>0, <2>2 DEF Piece, Following, Unfinished, Escapes
      <3>. QED  BY <2>p, <3>3, <3>5, <3>6, <3>7
    <2>3. CASE i <= n /\ e[i] = "backslash"
      <3>0. i \in 1..n /\ i \in 0..n
        BY <1>0, <2>0, <2>3
      <3>1. R[i] = Stream!ReadOn(R[i - 1], e[i]) /\ R[i - 1] \in Reader
        BY <1>2, <1>3, <2>0, <3>0
      <3>2. R[i] = [R[i - 1] EXCEPT !.mode = "escape"]
        BY <2>3, <3>1 DEF Stream!ReadOn, Stream!ReadText
      <3>3. R[i].mode = "escape" /\ R[i].text = t
        BY <2>t, <3>1, <3>2 DEF Reader
      <3>4. CASE i = n
        <4>1. Unfinished(e, i)
          BY <2>3, <3>4 DEF Unfinished, Escapes
        <4>. HIDE DEF Rest
        <4>. QED  BY <2>e, <3>3, <3>4, <4>1
      <3>5. CASE i < n
        <4>0. i + 1 \in 1..n /\ i + 1 \in 0..n /\ (i + 1) - 1 = i /\ (i + 2) - 1 = i + 1
          BY <1>0, <2>0, <3>5
        <4>1. R[i + 1] = Stream!ReadOn(R[i], e[i + 1]) /\ R[i] \in Reader /\ e[i + 1] \in Symbols
          BY <1>0, <1>2, <1>3, <3>0, <4>0
        <4>2. R[i + 1] = Stream!ReadEscape(R[i], e[i + 1]) /\ R[i + 1].mode \in Going
          BY <1>2, <3>3, <4>0, <4>1 DEF Stream!ReadOn
        <4>3. CASE e[i + 1] = "u"
          <5>1. R[i + 1] = [R[i] EXCEPT !.mode = "digits", !.digits = 0]
            BY <4>2, <4>3 DEF Stream!ReadEscape
          <5>2. R[i + 1].mode = "digits" /\ R[i + 1].digits = 0 /\ R[i + 1].text = t
            BY <3>3, <4>1, <5>1 DEF Reader
          <5>3. ASSUME NEW j \in 0 .. HexDigits, (i + 1) + j <= n
                PROVE  /\ j < HexDigits => R[(i + 1) + j].text = t
                       /\ j = HexDigits => R[(i + 1) + j].mode = "text" /\ R[(i + 1) + j].text = Append(t, "point")
                       /\ j > 0 => e[(i + 1) + j] = "0"
            <6>1. R[n].mode \in Going
              BY <1>0, <1>2
            <6>2. R[i + 1].mode = "digits" /\ R[i + 1].digits = 0 /\ i + 1 \in 0 .. Len(e)
              BY <4>0, <5>2
            <6>3. PICK k \in 0 .. Len(e) : k = i + 1
              BY <6>2
            <6>4. R[k].mode = "digits" /\ R[k].digits = 0
              BY <6>2, <6>3
            <6>5. DigitsFollow(R, e, k)
              BY <6>1, <6>4, DigitsAreRead
            <6>. HIDE DEF R
            <6>. QED  BY <5>2, <5>3, <6>3, <6>5 DEF DigitsFollow
          <5>4. CASE n < i + 1 + HexDigits
            <6>1. ~Stream!CodePointAt(e, i)
              BY <1>0, <2>0, <5>4 DEF Stream!CodePointAt
            <6>2. Unfinished(e, i)
              BY <2>3, <4>3, <6>1 DEF Unfinished, Escapes
            <6>3. PICK j \in 0 .. HexDigits : j = n - (i + 1)
              <7>1. n - (i + 1) \in 0 .. HexDigits
                BY <1>0, <2>0, <4>0, <5>4
              <7>. QED  BY <7>1
            <6>4. R[n].text = t
              <7>1. j < HexDigits /\ (i + 1) + j <= n /\ (i + 1) + j = n
                BY <1>0, <2>0, <5>4, <6>3
              <7>2. R[(i + 1) + j].text = t
                BY <5>3, <7>1
              <7>. HIDE DEF R
              <7>. QED  BY <7>1, <7>2
            <6>. HIDE DEF R, Rest
            <6>. QED  BY <2>e, <6>2, <6>4
          <5>5. CASE n >= i + 1 + HexDigits
            <6>1. ASSUME NEW j \in 1..HexDigits
                  PROVE  Stream!Digits(e, i)[j] = "0"
              <7>1. j \in 0 .. HexDigits /\ (i + 1) + j <= n /\ j > 0
                BY <1>0, <2>0, <5>5
              <7>2. e[(i + 1) + j] = "0"
                BY <5>3, <7>1
              <7>3. SubSeq(e, i + 2, i + 1 + HexDigits)[j] = e[(i + 2) + j - 1]
                BY <1>0, <2>0, <5>5
              <7>4. (i + 2) + j - 1 = (i + 1) + j
                BY <2>0
              <7>. QED  BY <7>2, <7>3, <7>4 DEF Stream!Digits
            <6>2. Stream!CodePointAt(e, i)
              BY <1>0, <2>0, <5>5, <6>1 DEF Stream!CodePointAt
            <6>3. Piece(e, i) = <<"point">> /\ Following(e, i) = i + 2 + HexDigits
              BY <2>3, <4>3 DEF Piece, Following, Escapes
            <6>4. ~Unfinished(e, i)
              BY <1>0, <2>0, <2>3, <3>5, <4>3, <6>2 DEF Unfinished, Escapes
            <6>5. PICK j : j = i + 2 + HexDigits
              OBVIOUS
            <6>6. j \in i + 1 .. n + 1 /\ j - 1 = (i + 1) + HexDigits
                  /\ HexDigits \in 0 .. HexDigits /\ (i + 1) + HexDigits <= n
              BY <1>0, <2>0, <5>5, <6>5
            <6>7. R[j - 1].mode = "text" /\ R[j - 1].text = Append(t, "point")
              BY <5>3, <6>6
            <6>8. "point" \in Letters
              BY DEF Letters
            <6>. QED  BY <2>p, <6>3, <6>4, <6>5, <6>6, <6>7, <6>8
          <5>. HIDE DEF Rest
          <5>. QED  BY <1>0, <2>0, <5>4, <5>5
        <4>4. CASE e[i + 1] # "u"
          <5>1. e[i + 1] \in DOMAIN Stream!Replacement
            <6>1. R[i + 1].mode # "invalid"
              BY <4>2 DEF Going
            <6>. HIDE DEF R
            <6>. QED  BY <3>3, <4>1, <4>4, <6>1, ModeMoves
          <5>2. PICK x : x = Stream!Replacement[e[i + 1]]
            OBVIOUS
          <5>3. x \in Letters
            BY <5>1, <5>2 DEF Stream!Replacement, Letters, Symbols, Stream!Symbols
          <5>4. PICK a : a = Append(t, x)
            OBVIOUS
          <5>5. R[i + 1] = [R[i] EXCEPT !.mode = "text", !.text = a]
            BY <3>3, <4>2, <4>4, <5>1, <5>2, <5>4 DEF Stream!ReadEscape
          <5>6. R[i + 1].mode = "text" /\ R[i + 1].text = a
            BY <4>1, <5>5 DEF Reader
          <5>7. Piece(e, i) = <<x>> /\ Following(e, i) = i + 2
            BY <2>3, <4>4, <5>2 DEF Piece, Following, Escapes
          <5>8. ~Unfinished(e, i)
            BY <1>0, <2>0, <2>3, <3>5, <4>4, <5>1 DEF Unfinished, Escapes
          <5>9. i + 2 \in i + 1 .. n + 1
            BY <1>0, <2>0, <3>5
          <5>. QED  BY <2>p, <4>0, <5>3, <5>4, <5>6, <5>7, <5>8, <5>9
        <4>. QED  BY <4>3, <4>4
      <3>. HIDE DEF Rest
      <3>. QED  BY <1>0, <2>0, <2>3, <3>4, <3>5
    <2>. HIDE DEF Rest
    <2>. QED  BY <1>0, <2>0, <2>1, <2>2, <2>3
  <1>. HIDE DEF S
  <1>5. \A i \in 1..last : i \in S
    <2>1. 1 \in Int /\ last \in Int
      BY <1>0
    <2>. HIDE DEF last
    <2>. QED  BY <1>4, <2>1, Descending
  <1>6. Rest(1)
    <2>1. 1 \in 1..last /\ 1 <= n + 1 /\ 1 - 1 = 0
      BY <1>0
    <2>2. R[0].mode = "text"
      BY ReadingIs DEF Stream!StartOfText
    <2>. QED  BY <1>5, <2>1, <2>2 DEF S
  <1>7. R[0].text = <<>> /\ 1 - 1 = 0
    BY ReadingIs DEF Stream!StartOfText
  <1>8. \A b \in Seq(Letters) : <<>> \o b = b
    OBVIOUS
  <1>. QED  BY <1>1, <1>6, <1>7, <1>8

LEMMA OneMore ==
  ASSUME NEW T, NEW b \in Seq(T), NEW x
  PROVE  Len(Append(b, x)) = Len(b) + 1 /\ \A i \in 1..Len(b) : Append(b, x)[i] = b[i]
  <1>1. PICK U : U = T \cup {x}
    OBVIOUS
  <1>2. b \in Seq(U) /\ x \in U
    BY <1>1
  <1>. QED  BY <1>2

\* Text that was read stays, and what comes is added behind it.
LEMMA TextGrows ==
  ASSUME NEW s \in Seq(Symbols), NEW j \in 0 .. Len(s), NEW k \in j .. Len(s)
  PROVE  LET first == Stream!Reading(s)[j].text
             then  == Stream!Reading(s)[k].text
         IN first \o SubSeq(then, Len(first) + 1, Len(then)) = then
  <1>. DEFINE R == Stream!Reading(s)
              Grown(a, b) == Len(a) <= Len(b) /\ \A i \in 1..Len(a) : a[i] = b[i]
              S == {m \in j .. Len(s) : Grown(R[j].text, R[m].text)}
  <1>0. Len(s) \in Nat /\ j \in Nat
    OBVIOUS
  <1>1. j \in S
    <2>1. R[j].text \in Seq(Letters)
      BY ReadingIs DEF Reader
    <2>. QED  BY <1>0, <2>1
  <1>2. ASSUME NEW m \in j .. Len(s) - 1, m \in S
        PROVE  m + 1 \in S
    <2>1. /\ m \in 0 .. Len(s) /\ m + 1 \in 1 .. Len(s) /\ m + 1 \in 0 .. Len(s) /\ (m + 1) - 1 = m
          /\ m + 1 \in j .. Len(s)
      BY <1>0
    <2>2. R[m + 1] = Stream!ReadOn(R[m], s[m + 1]) /\ R[m] \in Reader /\ R[m + 1] \in Reader
      BY <2>1, ReadingIs
    <2>3. \E x : R[m + 1].text \in {R[m].text, Append(R[m].text, x)}
      <3>1. PICK t, u, w : /\ t = Append(R[m].text, s[m + 1])
                           /\ u = Append(R[m].text, Stream!Replacement[s[m + 1]])
                           /\ w = Append(R[m].text, "point")
        OBVIOUS
      <3>2. Stream!ReadText(R[m], s[m + 1]).text \in {R[m].text, t}
        BY <2>2, <3>1 DEF Stream!ReadText, Reader
      <3>3. Stream!ReadEscape(R[m], s[m + 1]).text \in {R[m].text, u}
        BY <2>2, <3>1 DEF Stream!ReadEscape, Reader
      <3>4. Stream!ReadDigit(R[m], s[m + 1]).text \in {R[m].text, w}
        BY <2>2, <3>1 DEF Stream!ReadDigit, Reader
      <3>5. R[m + 1] \in {R[m], Stream!ReadText(R[m], s[m + 1]), Stream!ReadEscape(R[m], s[m + 1]),
                          Stream!ReadDigit(R[m], s[m + 1])}
        BY <2>2 DEF Stream!ReadOn
      <3>6. R[m + 1].text \in {R[m].text, t, u, w}
        BY <3>2, <3>3, <3>4, <3>5
      <3>. QED  BY <3>1, <3>6
    <2>4. Grown(R[j].text, R[m].text)
      BY <1>2
    <2>5. R[j].text \in Seq(Letters) /\ R[m].text \in Seq(Letters) /\ R[m + 1].text \in Seq(Letters)
      <3>1. R[j] \in Reader
        BY ReadingIs
      <3>. QED  BY <2>2, <3>1 DEF Reader
    <2>6. PICK a, b, c \in Seq(Letters) : a = R[j].text /\ b = R[m].text /\ c = R[m + 1].text
      BY <2>5
    <2>7. PICK x : c \in {b, Append(b, x)}
      BY <2>3, <2>6
    <2>8. Len(a) \in Nat /\ Len(b) \in Nat /\ Len(c) \in Nat
      BY <2>6
    <2>9. Len(b) <= Len(c) /\ \A i \in 1..Len(b) : b[i] = c[i]
      <3>1. Len(Append(b, x)) = Len(b) + 1 /\ \A i \in 1..Len(b) : Append(b, x)[i] = b[i]
        BY <2>6, OneMore
      <3>. QED  BY <2>7, <2>8, <3>1
    <2>10. Grown(a, c)
      <3>1. Len(a) <= Len(b) /\ \A i \in 1..Len(a) : a[i] = b[i]
        BY <2>4, <2>6
      <3>. QED  BY <2>8, <2>9, <3>1
    <2>. QED  BY <2>1, <2>6, <2>10
  <1>. HIDE DEF S
  <1>3. \A m \in j .. Len(s) : m \in S
    <2>1. j \in Int /\ Len(s) \in Int
      BY <1>0
    <2>. QED  BY <1>1, <1>2, <2>1, Climbing
  <1>4. Grown(R[j].text, R[k].text)
    BY <1>3 DEF S
  <1>5. PICK a, b \in Seq(Letters) : a = R[j].text /\ b = R[k].text
    <2>1. k \in 0 .. Len(s)
      BY <1>0
    <2>2. R[j] \in Reader /\ R[k] \in Reader
      BY <2>1, ReadingIs
    <2>. QED  BY <2>2 DEF Reader
  <1>6. Len(a) <= Len(b) /\ \A i \in 1..Len(a) : a[i] = b[i]
    BY <1>4, <1>5
  <1>7. a \o SubSeq(b, Len(a) + 1, Len(b)) = b
    BY <1>6
  <1>. QED  BY <1>5, <1>7

\* The copying loop goes on to the quote that closes the value.
Copying(s, d, b, k) ==
  /\ b = [cursor |-> b.cursor, encoded |-> SubSeq(s, 1, b.cursor), length |-> d.length, finished |-> b.finished]
  /\ b.cursor \in 0 .. Len(s) /\ b.finished \in BOOLEAN
  /\ d.cursor <= b.cursor
  /\ Stream!Reading(s)[b.cursor].mode \in Going
  /\ ~b.finished => b.cursor = k
  /\ b.finished => b.cursor < k /\ Stream!Reading(s)[b.cursor + 1].mode = "closed"

LEMMA CopiedIs ==
  ASSUME NEW s \in Seq(Symbols), Stream!Reading(s)[Len(s)].mode # "invalid",
         NEW d, Copying(s, d, d, d.cursor), ~d.finished
  PROVE  Copying(s, d, Stream!Copied(s, d), Len(s))
  <1>. DEFINE R == Stream!Reading(s)
              On(r, k) == IF r.finished THEN r
                          ELSE IF s[k] = "quote" /\ ~Stream!QuoteIsEscaped(r.encoded)
                               THEN [r EXCEPT !.finished = TRUE]
                               ELSE [r EXCEPT !.encoded = Append(@, s[k]), !.cursor = k]
              Is(f) == f = [k \in d.cursor .. Len(s) |->
                              IF k = d.cursor THEN [d EXCEPT !.cursor = k] ELSE On(f[k - 1], k)]
              Rows == [cursor: Nat, encoded: Seq(Symbols), length: {d.length}, finished: BOOLEAN]
  <1>0. Len(s) \in Nat /\ (\A k \in 1..Len(s) : s[k] \in Symbols) /\ d.cursor \in 0 .. Len(s) /\ d.cursor \in Nat
    BY DEF Copying
  <1>1. d \in Rows /\ [d EXCEPT !.cursor = d.cursor] = d
    <2>1. PICK c \in 0 .. Len(s) : c = d.cursor
      BY <1>0
    <2>2. SubSeq(s, 1, c) \in Seq(Symbols)
      BY <1>0
    <2>3. d = [cursor |-> c, encoded |-> SubSeq(s, 1, c), length |-> d.length, finished |-> FALSE]
      BY <2>1 DEF Copying
    <2>4. PICK len, e : len = d.length /\ e = SubSeq(s, 1, c)
      OBVIOUS
    <2>5. d = [cursor |-> c, encoded |-> e, length |-> len, finished |-> FALSE]
      BY <2>3, <2>4
    <2>6. d.cursor \in Nat /\ d.encoded \in Seq(Symbols) /\ d.finished \in BOOLEAN
      BY <1>0, <2>2, <2>4, <2>5
    <2>7. d = [cursor |-> d.cursor, encoded |-> d.encoded, length |-> d.length, finished |-> d.finished]
      BY <2>5
    <2>. QED  BY <2>6, <2>7
  <1>2. ASSUME NEW r \in Rows, NEW k \in d.cursor + 1 .. Len(s)
        PROVE  On(r, k) \in Rows
    <2>1. k \in Nat /\ k \in 1..Len(s) /\ s[k] \in Symbols
      BY <1>0
    <2>2. PICK a \in Seq(Symbols) : a = Append(r.encoded, s[k])
      <3>1. r.encoded \in Seq(Symbols)
        OBVIOUS
      <3>2. PICK e \in Seq(Symbols), x \in Symbols : e = r.encoded /\ x = s[k]
        BY <2>1, <3>1
      <3>3. Append(e, x) \in Seq(Symbols)
        OBVIOUS
      <3>. QED  BY <3>2, <3>3
    <2>3. On(r, k) \in {r, [r EXCEPT !.finished = TRUE], [r EXCEPT !.encoded = a, !.cursor = k]}
      BY <2>2
    <2>. QED  BY <2>1, <2>2, <2>3
  <1>3. \E f : Is(f)
    <2>1. PICK step : step = [k \in d.cursor + 1 .. Len(s) |-> [r \in Rows |-> On(r, k)]]
      OBVIOUS
    <2>2. \A k \in d.cursor + 1 .. Len(s) : \A r \in Rows : step[k][r] = On(r, k) /\ step[k][r] \in Rows
      BY <1>2, <2>1
    <2>3. PICK f \in [d.cursor .. Len(s) -> Rows] : Iterates(f, d.cursor, Len(s), d, step)
      <3>1. Len(s) \in Int /\ d.cursor \in Int
        BY <1>0
      <3>. HIDE DEF Rows, On
      <3>. QED  BY <1>1, <2>2, <3>1, IterationExists
    <2>4. ASSUME NEW k \in d.cursor .. Len(s)
          PROVE  (IF k = d.cursor THEN d ELSE step[k][f[k - 1]])
                   = (IF k = d.cursor THEN [d EXCEPT !.cursor = k] ELSE On(f[k - 1], k))
      <3>1. CASE k = d.cursor
        BY <1>1, <3>1
      <3>2. CASE k # d.cursor
        <4>1. k \in d.cursor + 1 .. Len(s) /\ k - 1 \in d.cursor .. Len(s)
          BY <1>0, <3>2
        <4>2. f[k - 1] \in Rows
          BY <2>3, <4>1
        <4>. HIDE DEF Rows, On
        <4>. QED  BY <2>2, <3>2, <4>1, <4>2
      <3>. QED  BY <3>1, <3>2
    <2>5. Is(f)
      <3>1. f = [k \in d.cursor .. Len(s) |-> IF k = d.cursor THEN d ELSE step[k][f[k - 1]]]
        BY ONLY <2>3 DEF Iterates
      <3>. HIDE DEF On, Rows
      <3>. QED  BY ONLY <2>4, <3>1 DEF Is
    <2>. QED  BY <2>5
  <1>4. PICK f : f = CHOOSE g : Is(g)
    OBVIOUS
  <1>5. Is(f)
    BY <1>3, <1>4
  <1>6. Stream!Copied(s, d) = f[Len(s)]
    BY <1>4 DEF Stream!Copied
  <1>7. f[d.cursor] = d
    <2>1. d.cursor \in d.cursor .. Len(s)
      BY <1>0
    <2>2. f[d.cursor] = [d EXCEPT !.cursor = d.cursor]
      BY <1>5, <2>1
    <2>. QED  BY <1>1, <2>2
  <1>8. \A k \in d.cursor + 1 .. Len(s) : f[k] = On(f[k - 1], k)
    <2>1. \A k \in d.cursor + 1 .. Len(s) : k # d.cursor /\ k \in d.cursor .. Len(s)
      BY <1>0
    <2>. QED  BY <1>5, <2>1
  <1>. DEFINE S == {k \in d.cursor .. Len(s) : Copying(s, d, f[k], k)}
  <1>. HIDE DEF Is
  <1>9. d.cursor \in S
    BY <1>0, <1>7
  <1>10. ASSUME NEW k \in d.cursor .. Len(s) - 1, k \in S
         PROVE  k + 1 \in S
    <2>0. /\ k \in Nat /\ k + 1 \in d.cursor + 1 .. Len(s) /\ k + 1 \in d.cursor .. Len(s) /\ (k + 1) - 1 = k
          /\ k + 1 \in 1..Len(s) /\ k \in 0 .. Len(s) /\ k + 1 \in 0 .. Len(s)
      BY <1>0
    <2>1. PICK b : b = f[k]
      OBVIOUS
    <2>2. Copying(s, d, b, k)
      BY <1>10, <2>1
    <2>3. f[k + 1] = On(b, k + 1)
      BY <1>8, <2>0, <2>1
    <2>4. CASE b.finished
      <3>1. f[k + 1] = b
        BY <2>3, <2>4
      <3>2. Copying(s, d, b, k + 1)
        BY <2>0, <2>2, <2>4 DEF Copying
      <3>. QED  BY <2>0, <3>1, <3>2
    <2>5. CASE ~b.finished
      <3>1. PICK e : e = SubSeq(s, 1, k)
        OBVIOUS
      <3>2. b = [cursor |-> k, encoded |-> e, length |-> d.length, finished |-> FALSE]
        BY <2>2, <2>5, <3>1 DEF Copying
      <3>3. R[k].mode \in Going /\ d.cursor <= k
        BY <2>2, <2>5 DEF Copying
      <3>4. e \in Seq(Symbols) /\ Len(e) = k /\ \A i \in 1..k : e[i] = s[i]
        BY <2>0, <3>1
      <3>5. Stream!Reading(e)[Len(e)] = R[k]
        <4>1. Len(e) <= Len(s) /\ k \in 0 .. Len(e)
          BY <2>0, <3>4
        <4>. QED  BY <3>4, <4>1, ReadingsAgree
      <3>6. Stream!QuoteIsEscaped(e) <=> R[k].mode = "escape"
        BY <3>3, <3>4, <3>5, OddRunIsEscape
      <3>7. /\ R[k + 1] = Stream!ReadOn(R[k], s[k + 1]) /\ R[k] \in Reader /\ R[k + 1] \in Reader
            /\ s[k + 1] \in Symbols
        BY <1>0, <2>0, ReadingIs
      <3>8. R[k + 1].mode # "invalid"
        <4>1. Len(s) \in 0 .. Len(s) /\ k + 1 \in 0 .. Len(s)
          BY <1>0, <2>0
        <4>. QED  BY <4>1, ReadingGoes
      <3>. HIDE DEF R
      <3>9. R[k + 1].mode = "closed" <=> s[k + 1] = "quote" /\ R[k].mode # "escape"
        <4>1. R[k].mode \in {"text", "escape", "digits"}
          BY <3>3 DEF Going
        <4>. QED  BY <3>7, <3>8, <4>1, ModeMoves
      <3>10. R[k + 1].mode # "closed" => R[k + 1].mode \in Going
        <4>1. R[k + 1].mode \in Modes
          BY <3>7 DEF Reader
        <4>. QED  BY <3>8, <4>1 DEF Modes, Going
      <3>11. CASE s[k + 1] = "quote" /\ ~Stream!QuoteIsEscaped(e)
        <4>1. f[k + 1] = [cursor |-> k, encoded |-> e, length |-> d.length, finished |-> TRUE]
          BY <2>3, <3>2, <3>11
        <4>2. R[k + 1].mode = "closed"
          BY <3>6, <3>9, <3>11
        <4>3. k < k + 1
          BY <2>0
        <4>4. PICK q : q = f[k + 1]
          OBVIOUS
        <4>5. q.cursor = k /\ q.finished = TRUE /\ q.encoded = e
              /\ q = [cursor |-> q.cursor, encoded |-> q.encoded, length |-> d.length, finished |-> q.finished]
          BY <4>1, <4>4
        <4>6. Copying(s, d, q, k + 1)
          BY <2>0, <3>1, <3>3, <4>2, <4>3, <4>5 DEF Copying, R
        <4>. QED  BY <2>0, <4>4, <4>6
      <3>12. CASE ~(s[k + 1] = "quote" /\ ~Stream!QuoteIsEscaped(e))
        <4>1. PICK a : a = Append(e, s[k + 1])
          OBVIOUS
        <4>2. f[k + 1] = [cursor |-> k + 1, encoded |-> a, length |-> d.length, finished |-> FALSE]
          BY <2>3, <3>2, <3>12, <4>1
        <4>3. a = SubSeq(s, 1, k + 1)
          BY <2>0, <3>1, <4>1
        <4>4. R[k + 1].mode \in Going
          BY <3>6, <3>9, <3>10, <3>12
        <4>5. d.cursor <= k + 1
          BY <1>0, <2>0, <3>3
        <4>6. PICK q : q = f[k + 1]
          OBVIOUS
        <4>7. q.cursor = k + 1 /\ q.finished = FALSE /\ q.encoded = a
              /\ q = [cursor |-> q.cursor, encoded |-> q.encoded, length |-> d.length, finished |-> q.finished]
          BY <4>2, <4>6
        <4>8. Copying(s, d, q, k + 1)
          BY <2>0, <4>3, <4>4, <4>5, <4>7 DEF Copying, R
        <4>. QED  BY <2>0, <4>6, <4>8
      <3>. HIDE DEF S
      <3>. QED  BY <3>11, <3>12
    <2>. HIDE DEF S
    <2>. QED  BY <2>4, <2>5
  <1>. HIDE DEF S
  <1>11. \A k \in d.cursor .. Len(s) : k \in S
    <2>1. d.cursor \in Int /\ Len(s) \in Int
      BY <1>0
    <2>. QED  BY <1>9, <1>10, <2>1, Climbing
  <1>12. Len(s) \in d.cursor .. Len(s)
    BY <1>0
  <1>. QED  BY <1>6, <1>11, <1>12 DEF S

ShownOk ==
  LET read == Stream!Reading(reply)
      c == decoder.cursor
  IN /\ Copying(reply, decoder, decoder, Len(reply))
     /\ shown = read[c].text /\ decoder.length = Len(shown)

StreamInv ==
  /\ reply \in Seq(Symbols)
  /\ Stream!Read(reply).mode # "invalid" => ShownOk

LEMMA StreamStarts ==
  ASSUME Stream!StreamInit
  PROVE  StreamInv
  <1>1. /\ reply = <<>> /\ shown = <<>>
        /\ decoder = [cursor |-> 0, encoded |-> <<>>, length |-> 0, finished |-> FALSE]
    BY DEF Stream!StreamInit
  <1>2. reply \in Seq(Symbols) /\ Len(reply) = 0 /\ SubSeq(reply, 1, 0) = <<>> /\ Len(shown) = 0
    BY <1>1
  <1>3. Stream!Reading(reply)[0] = Stream!StartOfText
    BY <1>2, ReadingIs
  <1>4. Stream!Reading(reply)[0].mode = "text" /\ Stream!Reading(reply)[0].text = <<>>
    BY <1>3 DEF Stream!StartOfText
  <1>5. Copying(reply, decoder, decoder, 0)
    <2>1. /\ decoder.cursor = 0 /\ decoder.finished = FALSE /\ decoder.encoded = <<>> /\ decoder.length = 0
      BY <1>1
    <2>2. decoder = [cursor |-> decoder.cursor, encoded |-> SubSeq(reply, 1, decoder.cursor),
                     length |-> decoder.length, finished |-> decoder.finished]
      <3>1. PICK e : e = SubSeq(reply, 1, decoder.cursor)
        OBVIOUS
      <3>2. e = <<>>
        BY <1>2, <2>1, <3>1
      <3>. QED  BY <1>1, <2>1, <3>1, <3>2
    <2>3. /\ decoder.cursor \in 0 .. Len(reply) /\ decoder.cursor <= decoder.cursor
          /\ Stream!Reading(reply)[decoder.cursor].mode \in Going
      BY <1>2, <1>4, <2>1 DEF Going
    <2>4. PICK q : q = decoder
      OBVIOUS
    <2>5. Copying(reply, q, q, 0)
      BY <2>1, <2>2, <2>3, <2>4 DEF Copying
    <2>. QED  BY <2>4, <2>5
  <1>. QED  BY <1>1, <1>2, <1>4, <1>5 DEF StreamInv, ShownOk

LEMMA StreamGoesOn ==
  ASSUME StreamInv, Stream!StreamNext
  PROVE  StreamInv'
  <1>1. PICK delta \in Seq(Symbols) : Stream!Feed(delta)
    <2>1. PICK delta \in Stream!SeqOf(Stream!Symbols, MaxReply - Len(reply)) : Stream!Feed(delta)
      BY DEF Stream!StreamNext
    <2>2. delta \in Seq(Symbols)
      BY <2>1 DEF Stream!SeqOf, Symbols
    <2>. QED  BY <2>1, <2>2
  <1>2. PICK s \in Seq(Symbols) : s = reply'
    <2>1. reply' = reply \o delta /\ reply \in Seq(Symbols)
      BY <1>1 DEF Stream!Feed, StreamInv
    <2>2. reply \o delta \in Seq(Symbols)
      BY <1>1, <2>1
    <2>. QED  BY <2>1, <2>2
  <1>3. PICK old \in Seq(Symbols) : old = reply
    BY DEF StreamInv
  <1>4. s = old \o delta
    BY <1>1, <1>2, <1>3 DEF Stream!Feed
  <1>5. Len(old) \in Nat /\ Len(s) \in Nat /\ Len(old) <= Len(s) /\ \A i \in 1..Len(old) : old[i] = s[i]
    BY <1>4
  <1>. DEFINE R == Stream!Reading(s)
  <1>6. \A k \in 0 .. Len(old) : Stream!Reading(old)[k] = R[k]
    BY <1>5, ReadingsAgree
  <1>7. SUFFICES ASSUME R[Len(s)].mode # "invalid"
                 PROVE  ShownOk'
    BY <1>2 DEF StreamInv, Stream!Read
  <1>8. Stream!Reading(old)[Len(old)].mode # "invalid"
    <2>1. Len(s) \in 0 .. Len(s) /\ Len(old) \in 0 .. Len(s) /\ Len(old) \in 0 .. Len(old)
      BY <1>5
    <2>2. R[Len(old)].mode # "invalid"
      BY <1>7, <2>1, ReadingGoes
    <2>. QED  BY <1>6, <2>1, <2>2
  <1>9. ShownOk
    BY <1>3, <1>8 DEF StreamInv, Stream!Read
  <1>10. PICK d : d = decoder
    OBVIOUS
  <1>11. ~d.finished
    BY <1>1, <1>10 DEF Stream!Feed
  <1>12. /\ Copying(old, d, d, Len(old)) /\ d.cursor = Len(old)
         /\ shown = Stream!Reading(old)[Len(old)].text /\ d.length = Len(shown)
    <2>1. /\ Copying(old, d, d, Len(old))
          /\ shown = Stream!Reading(old)[d.cursor].text /\ d.length = Len(shown)
      BY <1>3, <1>9, <1>10 DEF ShownOk
    <2>2. d.cursor = Len(old)
      BY <1>11, <2>1 DEF Copying
    <2>. QED  BY <2>1, <2>2
  <1>13. Copying(s, d, d, d.cursor)
    <2>1. SubSeq(s, 1, Len(old)) = SubSeq(old, 1, Len(old))
      BY <1>5
    <2>2. /\ d = [cursor |-> d.cursor, encoded |-> SubSeq(old, 1, d.cursor), length |-> d.length,
                  finished |-> d.finished]
          /\ d.finished \in BOOLEAN /\ Stream!Reading(old)[d.cursor].mode \in Going
      BY <1>12 DEF Copying
    <2>3. d = [cursor |-> d.cursor, encoded |-> SubSeq(s, 1, d.cursor), length |-> d.length,
               finished |-> d.finished]
      BY <1>12, <2>1, <2>2
    <2>4. d.cursor \in 0 .. Len(s) /\ d.cursor <= d.cursor /\ Len(old) \in 0 .. Len(old)
      BY <1>5, <1>12
    <2>5. R[d.cursor].mode \in Going
      BY <1>6, <1>12, <2>2, <2>4
    <2>. HIDE DEF R
    <2>. QED  BY <1>11, <2>2, <2>3, <2>4, <2>5 DEF Copying, R
  <1>14. PICK b : b = Stream!Copied(s, d)
    OBVIOUS
  <1>15. Copying(s, d, b, Len(s))
    BY <1>7, <1>11, <1>13, <1>14, CopiedIs
  <1>16. PICK c, e : c \in 0 .. Len(s) /\ c = b.cursor /\ e = SubSeq(s, 1, c)
    BY <1>15 DEF Copying
  <1>17. /\ b = [cursor |-> c, encoded |-> e, length |-> d.length, finished |-> b.finished]
         /\ R[c].mode \in Going /\ Len(old) <= c
    BY <1>12, <1>15, <1>16 DEF Copying
  <1>18. Stream!DecodeCompletePrefix(e) = R[c].text
    <2>1. e \in Seq(Symbols) /\ Len(e) = c /\ Len(e) <= Len(s) /\ (\A i \in 1..Len(e) : e[i] = s[i])
          /\ c \in 0 .. Len(e)
      BY <1>5, <1>16
    <2>2. Stream!Reading(e)[c] = R[c]
      BY <2>1, ReadingsAgree
    <2>3. Stream!Reading(e)[Len(e)].mode \in Going
      BY <1>17, <2>1, <2>2
    <2>. QED  BY <2>1, <2>2, <2>3, PrefixIsDecoded
  <1>19. PICK t : t = R[c].text
    OBVIOUS
  <1>20. b.encoded = e /\ b.length = Len(shown) /\ b.cursor = c
    BY <1>12, <1>17
  <1>21. decoder' = [b EXCEPT !.length = Len(t)] /\ shown' = t
    <2>1. /\ shown' = shown \o SubSeq(t, Len(shown) + 1, Len(t))
          /\ decoder' = [b EXCEPT !.length = Len(t)]
      BY <1>1, <1>2, <1>10, <1>14, <1>18, <1>19, <1>20 DEF Stream!Feed
    <2>2. Len(old) \in 0 .. Len(s) /\ c \in Len(old) .. Len(s) /\ Len(old) \in 0 .. Len(old)
      BY <1>5, <1>16, <1>17
    <2>3. shown = R[Len(old)].text
      BY <1>6, <1>12, <2>2
    <2>4. shown \o SubSeq(t, Len(shown) + 1, Len(t)) = t
      BY <1>19, <2>2, <2>3, TextGrows
    <2>. QED  BY <2>1, <2>4
  <1>. HIDE DEF R
  <1>22. PICK q : q = decoder'
    OBVIOUS
  <1>23. /\ q = [cursor |-> c, encoded |-> e, length |-> Len(t), finished |-> b.finished]
    BY <1>17, <1>21, <1>22
  <1>24. /\ b.finished \in BOOLEAN /\ (~b.finished => c = Len(s))
         /\ b.finished => c < Len(s) /\ R[c + 1].mode = "closed"
    BY <1>15, <1>16 DEF Copying, R
  <1>25. /\ q.cursor = c /\ q.finished = b.finished /\ q.length = Len(t)
         /\ q = [cursor |-> q.cursor, encoded |-> e, length |-> q.length, finished |-> q.finished]
    BY <1>23
  <1>26. Copying(s, q, q, Len(s))
    <2>1. q.cursor <= q.cursor
      BY <1>5, <1>16, <1>25
    <2>. QED  BY <1>16, <1>17, <1>24, <1>25, <2>1 DEF Copying, R
  <1>. QED  BY <1>2, <1>19, <1>21, <1>22, <1>25, <1>26 DEF ShownOk, R

LEMMA StreamIsShown ==
  ASSUME StreamInv
  PROVE  ShownIsTheAnswer
  <1>. DEFINE R == Stream!Reading(reply)
              n == Len(reply)
              c == decoder.cursor
  <1>1. SUFFICES ASSUME R[n].mode # "invalid"
                 PROVE  shown = R[n].text /\ (decoder.finished <=> R[n].mode = "closed")
    BY DEF ShownIsTheAnswer, Stream!ShownIsTheAnswer, Stream!Read
  <1>2. /\ reply \in Seq(Symbols) /\ n \in Nat /\ shown = R[c].text
        /\ decoder.finished \in BOOLEAN /\ c \in 0..n /\ R[c].mode \in Going
        /\ ~decoder.finished => c = n
        /\ decoder.finished => c < n /\ R[c + 1].mode = "closed"
    BY <1>1 DEF StreamInv, ShownOk, Copying, Stream!Read
  <1>3. CASE ~decoder.finished
    BY <1>2, <1>3 DEF Going
  <1>4. CASE decoder.finished
    <2>1. c + 1 \in 1..n /\ c + 1 \in 0..n /\ n \in c + 1 .. n /\ (c + 1) - 1 = c /\ c \in 0..n
      BY <1>2, <1>4
    <2>2. R[n] = R[c + 1]
      BY <1>2, <1>4, <2>1, ReadingEnds DEF Going
    <2>3. R[c + 1] = Stream!ReadOn(R[c], reply[c + 1]) /\ R[c] \in Reader /\ reply[c + 1] \in Symbols
      BY <1>2, <2>1, ReadingIs
    <2>. HIDE DEF R, n, c
    <2>4. R[c].mode = "text" /\ reply[c + 1] = "quote"
      <3>1. R[c + 1].mode = "closed" /\ R[c].mode \in {"text", "escape", "digits"}
        BY <1>2, <1>4 DEF Going
      <3>. QED  BY <2>3, <3>1, ModeMoves
    <2>5. R[c + 1] = [R[c] EXCEPT !.mode = "closed"]
      BY <2>3, <2>4 DEF Stream!ReadOn, Stream!ReadText
    <2>6. R[c + 1].text = R[c].text
      BY <2>3, <2>5 DEF Reader
    <2>. QED  BY <1>2, <1>4, <2>2, <2>6
  <1>. QED  BY <1>2, <1>3, <1>4

THEOREM ShownIsTheAnswerHolds == Stream!StreamSpec => []ShownIsTheAnswer
  <1>1. Stream!StreamInit => StreamInv
    BY StreamStarts
  <1>2. StreamInv /\ [Stream!StreamNext]_(Stream!streamVars) => StreamInv'
    <2>1. ASSUME StreamInv, UNCHANGED Stream!streamVars
          PROVE  StreamInv'
      BY <2>1 DEF StreamInv, ShownOk, Stream!streamVars
    <2>. QED  BY <2>1, StreamGoesOn
  <1>3. StreamInv => ShownIsTheAnswer
    BY StreamIsShown
  <1>. QED  BY <1>1, <1>2, <1>3, PTL DEF Stream!StreamSpec

-----------------------------------------------------------------------------
(* The composition.                                                        *)

\* The desk, the answer stream, a run of the agent and its memory side by side:
\* each is its own specification, with the others at rest, so what is proved of
\* each holds of all of them together.
THEOREM WorkflowsParts ==
  MCSpec => /\ Rfp!RfpSpec /\ Stream!StreamSpec /\ Turn!TurnSpec /\ Memory!MemorySpec
            /\ [](DocumentWasApproved /\ TicketsGoOn /\ QuoteIsPublished /\ ShownIsTheAnswer
                  /\ OnlyGuardedText /\ DecisionsCountOnce)
  <1>. DEFINE all == <<part, quote, rfp, stream, turn, memory>>
  <1>1. MCInit => Rfp!RfpInit /\ Stream!StreamInit /\ Turn!TurnInit /\ Memory!MemoryInit
    <2>1. Turn!NewTurn = [Turn!NewTurn EXCEPT !.streaming = TRUE, !.memory = "none"]
      <3>1. PICK r : r = Turn!NewTurn
        OBVIOUS
      <3>2. r.streaming = TRUE /\ r.memory = "none"
        BY <3>1 DEF Turn!NewTurn
      <3>3. r = [x \in DOMAIN r |-> r[x]]
        BY <3>1 DEF Turn!NewTurn
      <3>4. r = [r EXCEPT !["streaming"] = r["streaming"]] /\ r = [r EXCEPT !["memory"] = r["memory"]]
        BY <3>3
      <3>5. r = [r EXCEPT !.streaming = TRUE]
        BY <3>2, <3>4
      <3>6. r = [r EXCEPT !.memory = "none"]
        BY <3>2, <3>4
      <3>. QED  BY <3>1, <3>5, <3>6
    <2>2. turn = Turn!NewTurn => Turn!TurnInit
      BY <2>1 DEF Turn!TurnInit
    <2>. QED  BY <2>2 DEF MCInit
  <1>2. [MCNext]_all => [Rfp!RfpNext]_(Rfp!rfpVars)
    BY DEF MCNext, rfp, Rfp!rfpVars
  <1>3. [MCNext]_all => [Stream!StreamNext]_(Stream!streamVars)
    BY DEF MCNext, stream, Stream!streamVars
  <1>4. [MCNext]_all => [Turn!TurnNext]_turn
    BY DEF MCNext
  <1>5. [MCNext]_all => [Memory!MemoryNext]_(Memory!memoryVars)
    BY DEF MCNext, memory, Memory!memoryVars
  <1>6. MCSpec => Rfp!RfpSpec /\ Stream!StreamSpec /\ Turn!TurnSpec /\ Memory!MemorySpec
    BY <1>1, <1>2, <1>3, <1>4, <1>5, PTL
    DEF MCSpec, Rfp!RfpSpec, Stream!StreamSpec, Turn!TurnSpec, Memory!MemorySpec
  <1>. QED
    BY <1>6, DocumentWasApprovedHolds, TicketsGoOnHolds, QuoteIsPublishedHolds,
       ShownIsTheAnswerHolds, OnlyGuardedTextHolds, DecisionsCountOnceHolds, PTL
=============================================================================
