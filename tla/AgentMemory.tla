----------------------------- MODULE AgentMemory -----------------------------
(* What the agent remembers about carriers.  A turn discards the pending     *)
(* proposal of its conversation and may leave a new one; a person approves,  *)
(* rejects or edits it in a request that carries its own decision id, and    *)
(* that clients repeat; a maintenance job deletes proposals nobody decided.  *)
(*                                                                           *)
(* Every request is a session of its own: what it reads outside a row lock   *)
(* may be stale when it commits.                                             *)
EXTENDS Integers, Sequences, FiniteSets, SequencesExt

CONSTANTS
  Conversations, Proposals, DecisionIds,
  Turns,       \* requests that carry no decision, each a conversation's
  Deciders,    \* requests that carry one
  Subjects,    \* consolidation keys: carrier, jurisdiction, kind, subject
  Texts        \* what a fact says

VARIABLES
  proposal,    \* agent_memory_proposals
  audit,       \* agent_memory_decisions, by decision id
  fact,        \* agent_memory_facts, by consolidation key
  versions,    \* agent_memory_versions, by consolidation key
  turnOf, decider, purge    \* the requests and the job in flight

memoryVars == <<proposal, audit, fact, versions, turnOf, decider, purge>>

NoProposal == [status |-> "none", conversation |-> "none", subject |-> "none", text |-> "none"]
NoAudit == [proposal |-> "none", action |-> "none"]
NoFact == [version |-> 0, confirmations |-> 0, text |-> "none"]
NoTurn == [pc |-> "start", conversation |-> "none", read |-> "none"]
NoDecider == [pc |-> "start", id |-> "none", proposal |-> "none", action |-> "none",
              edit |-> "none", fact |-> NoFact]

MemoryInit ==
  /\ proposal = [p \in Proposals |-> NoProposal]
  /\ audit = [i \in DecisionIds |-> NoAudit]
  /\ fact = [s \in Subjects |-> NoFact] /\ versions = [s \in Subjects |-> <<>>]
  /\ turnOf = [r \in Turns |-> NoTurn] /\ decider = [r \in Deciders |-> NoDecider]
  /\ purge = [pc |-> "idle", ids |-> {}]

Pending(c) == {p \in Proposals : proposal[p].status = "pending" /\ proposal[p].conversation = c}

\* Who holds the row lock of a proposal, and the advisory lock of a key.
RowHolders(p) == {r \in Deciders : decider[r].pc \in {"locked", "keyed"} /\ decider[r].proposal = p}
RowFree(p) == RowHolders(p) = {} /\ p \notin purge.ids
KeyHolders(s) == {r \in Deciders : decider[r].pc = "keyed" /\ proposal[decider[r].proposal].subject = s}
\* mutant: neither the key nor the fact is locked
KeyFreeUnlocked(s) == TRUE
KeyFree(s) == KeyHolders(s) = {}

-----------------------------------------------------------------------------
(* A turn: discard_pending before the agent runs, create_proposal after it.  *)
Turned(r, t) == turnOf' = [turnOf EXCEPT ![r] = t]

ReadPending(r, c) ==
  /\ turnOf[r].pc = "start"
  /\ \/ Pending(c) = {} /\ Turned(r, [NoTurn EXCEPT !.pc = "run", !.conversation = c])
     \/ \E p \in Pending(c) : Turned(r, [pc |-> "discard", conversation |-> c, read |-> p])
  /\ UNCHANGED <<proposal, audit, fact, versions, decider, purge>>

\* The update waits for the row, and overwrites whatever it finds there; a row
\* that is gone fails the request.
Discard(r) ==
  /\ turnOf[r].pc = "discard" /\ RowHolders(turnOf[r].read) = {} /\ turnOf[r].read \notin purge.ids
  /\ IF proposal[turnOf[r].read].status = "deleted"
     THEN Turned(r, [turnOf[r] EXCEPT !.pc = "done"]) /\ UNCHANGED proposal
     ELSE /\ Turned(r, [turnOf[r] EXCEPT !.pc = "run"])
          /\ proposal' = [proposal EXCEPT ![turnOf[r].read].status = "discarded"]
  /\ UNCHANGED <<audit, fact, versions, decider, purge>>

\* The check for a pending proposal is not locked: the unique index of pending
\* proposals refuses the second of two, and its turn reports the first.  A
\* candidate that validate_memory_candidate refuses is not proposed.
CreateProposal(r) ==
  /\ turnOf[r].pc = "run" /\ Turned(r, [turnOf[r] EXCEPT !.pc = "done"])
  /\ \/ UNCHANGED proposal
     \/ /\ Pending(turnOf[r].conversation) = {}
        /\ \E p \in Proposals, s \in Subjects, t \in Texts :
             /\ proposal[p].status = "none"
             /\ p = CHOOSE q \in Proposals : proposal[q].status = "none"
             /\ proposal' = [proposal EXCEPT ![p] =
                  [status |-> "pending", conversation |-> turnOf[r].conversation,
                   subject |-> s, text |-> t]]
  /\ UNCHANGED <<audit, fact, versions, decider, purge>>

-----------------------------------------------------------------------------
(* A decision.                                                               *)
Stop(r) == decider' = [decider EXCEPT ![r].pc = "done"]

\* The first look for the decision id, before the row is locked.  A proposal
\* of another conversation answers 404.
Submit(r, i, p, action) ==
  /\ decider[r].pc = "start" /\ proposal[p].status # "none"
  /\ \E t \in Texts :
       /\ action # "edit" => t = CHOOSE u \in Texts : TRUE
       /\ decider' = [decider EXCEPT ![r] =
            [NoDecider EXCEPT !.pc = IF audit[i] # NoAudit THEN "done" ELSE "lock", !.id = i,
                              !.proposal = p, !.action = action, !.edit = t]]
  /\ UNCHANGED <<proposal, audit, fact, versions, turnOf, purge>>

\* The second look, under the lock.
StillOpen(d) == audit[d.id] = NoAudit /\ proposal[d.proposal].status = "pending"

LockProposal(r) ==
  /\ decider[r].pc = "lock" /\ RowFree(decider[r].proposal)
  /\ decider' = [decider EXCEPT ![r].pc = IF StillOpen(decider[r]) THEN "locked" ELSE "done"]
  /\ UNCHANGED <<proposal, audit, fact, versions, turnOf, purge>>

Recorded(d) == audit' = [audit EXCEPT ![d.id] = [proposal |-> d.proposal, action |-> d.action]]

\* The audit row's unique id: the loser rolls back and returns the winner's.
Commit(r, changed) ==
  LET d == decider[r]
  IN /\ Stop(r)
     /\ IF audit[d.id] = NoAudit THEN changed /\ Recorded(d)
        ELSE UNCHANGED <<proposal, audit, fact, versions>>

Reject(r) ==
  /\ decider[r].pc = "locked" /\ decider[r].action = "reject"
  /\ Commit(r, /\ proposal' = [proposal EXCEPT ![decider[r].proposal].status = "rejected"]
               /\ UNCHANGED <<fact, versions>>)
  /\ UNCHANGED <<turnOf, purge>>

Edit(r) ==
  /\ decider[r].pc = "locked" /\ decider[r].action = "edit"
  /\ Commit(r, /\ proposal' = [proposal EXCEPT ![decider[r].proposal].text = decider[r].edit]
               /\ UNCHANGED <<fact, versions>>)
  /\ UNCHANGED <<turnOf, purge>>

\* _validate: a carrier no longer active, or an edit that may not be stored.
Ineligible(r) ==
  /\ decider[r].pc = "locked" /\ decider[r].action # "reject" /\ Stop(r)
  /\ UNCHANGED <<proposal, audit, fact, versions, turnOf, purge>>

\* _approve: the key is locked, then the fact is read.
LockKey(r) ==
  LET s == proposal[decider[r].proposal].subject
  IN /\ decider[r].pc = "locked" /\ decider[r].action = "approve"
     /\ KeyFree(s)
     /\ decider' = [decider EXCEPT ![r].pc = "keyed", ![r].fact = fact[s]]
     /\ UNCHANGED <<proposal, audit, fact, versions, turnOf, purge>>

Confirmed(old, text) == [version |-> old.version + 1, confirmations |-> old.confirmations + 1, text |-> text]

Approve(r) ==
  LET d == decider[r]
      p == proposal[d.proposal]
      new == Confirmed(d.fact, p.text)
  IN /\ d.pc = "keyed"
     /\ Commit(r, /\ proposal' = [proposal EXCEPT ![d.proposal].status = "approved"]
                  /\ fact' = [fact EXCEPT ![p.subject] = new]
                  /\ versions' = [versions EXCEPT ![p.subject] =
                       Append(@, [proposal |-> d.proposal, decision |-> d.id, text |-> p.text])])
     /\ UNCHANGED <<turnOf, purge>>

-----------------------------------------------------------------------------
(* The maintenance job, with SKIP LOCKED.                                    *)
Expired == {p \in Proposals : proposal[p].status = "pending" /\ RowHolders(p) = {}}

SelectExpired ==
  /\ purge.pc = "idle" /\ \E ids \in SUBSET Expired \ {{}} : purge' = [pc |-> "delete", ids |-> ids]
  /\ UNCHANGED <<proposal, audit, fact, versions, turnOf, decider>>

DeleteExpired ==
  /\ purge.pc = "delete" /\ purge' = [pc |-> "done", ids |-> {}]
  /\ \A p \in purge.ids : RowHolders(p) = {}
  /\ proposal' = [p \in Proposals |-> IF p \in purge.ids THEN [proposal[p] EXCEPT !.status = "deleted"]
                                      ELSE proposal[p]]
  /\ UNCHANGED <<audit, fact, versions, turnOf, decider>>

MemoryNext ==
  \/ \E r \in Turns : Discard(r) \/ CreateProposal(r) \/ \E c \in Conversations : ReadPending(r, c)
  \/ \E r \in Deciders :
       \/ LockProposal(r) \/ Reject(r) \/ Edit(r) \/ Ineligible(r) \/ LockKey(r) \/ Approve(r)
       \/ \E i \in DecisionIds, p \in Proposals, a \in {"approve", "reject", "edit"} : Submit(r, i, p, a)
  \/ SelectExpired \/ DeleteExpired

MemorySpec == MemoryInit /\ [][MemoryNext]_memoryVars

-----------------------------------------------------------------------------
(* Properties.                                                               *)
Concluded(p) == {i \in DecisionIds : audit[i].proposal = p /\ audit[i].action # "edit"}
VersionsFrom(p) == {v \in UNION {{s} \X DOMAIN versions[s] : s \in Subjects} :
                      versions[v[1]][v[2]].proposal = p}

\* decide: however many requests decide a proposal at once, with new decision
\* ids or with repeated ones, one of them concludes it, and the fact gains one
\* version if that one approved.
OneConclusion ==
  \A p \in Proposals :
    /\ Cardinality(Concluded(p)) <= 1
    /\ Cardinality(VersionsFrom(p)) =
         Cardinality({i \in Concluded(p) : audit[i].action = "approve"})

\* _approve: two conversations that confirm the same thing at once lose
\* neither confirmation, and the fact says what the last of them confirmed.
NoConfirmationLost ==
  \A s \in Subjects :
    /\ fact[s].version = Len(versions[s]) /\ fact[s].confirmations = Len(versions[s])
    /\ versions[s] # <<>> => fact[s].text = Last(versions[s]).text

\* delete_expired_pending: the job never deletes a proposal that was decided
\* while it ran.
DecidedIsKept == \A p \in Proposals : Concluded(p) # {} => proposal[p].status # "deleted"

\* decide, _approve, delete_expired_pending: a decision counts once in the
\* proposal, the audit and the fact, and nothing that was decided is lost.
DecisionsCountOnce == OneConclusion /\ NoConfirmationLost /\ DecidedIsKept
=============================================================================
