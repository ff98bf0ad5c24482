----------------------------- MODULE ToolCalls ------------------------------
(***************************************************************************)
(* The MCP server's tools and their delegated calls (mcps/trackflow_mcp/   *)
(* {auth,main,upstream}.py), and the incident API they reach (core/        *)
(* dependencies.py, domains/incidents/{router,service,repository}.py).     *)
(*                                                                         *)
(* A call goes over an unreliable connection: the request may be lost, or  *)
(* handled after the caller gave up, and the answer may be lost.           *)
(***************************************************************************)
EXTENDS Naturals, FiniteSets

CONSTANTS
  Users, Admins,
  Presented,   \* the sets of scopes the callers' tokens carry
  Calls, Tickets

VARIABLES
  call,        \* tool calls of the MCP server
  wire,        \* requests of calls on their way to, or inside, the API
  ticket       \* table incidents

vars == <<call, wire, ticket>>

NoCall   == [pc |-> "unused"]
NoTicket == [status |-> "none"]

Init ==
  /\ call = [k \in Calls |-> NoCall] /\ wire = {}
  /\ ticket = [t \in Tickets |-> NoTicket]

-----------------------------------------------------------------------------
(* The MCP server: ticket_check_status, ticket_create, ticket_update_status *)
(* and inventory_access, which refuses to write before it asks anyone.      *)

ScopeOf(tool) == CASE tool = "check" -> "incidents:read"
                   [] tool \in {"create", "update"} -> "incidents:write"
                   [] OTHER -> "inventory:read"

\* Mutant: a lost create is sent again.
AttemptsForAll(tool) == 2

(* client.request: attempts = 2 if idempotent else 1. *)
Attempts(tool) == IF tool \in {"check", "products"} THEN 2 ELSE 1

(* _exchange keeps the subject of the caller's token. *)
Subject(u) == u

(* What a call asks for; a part its tool has no argument for is fixed. *)
Statuses == {"open", "in_progress", "resolved", "discarded"}
AnyTicket == CHOOSE t \in Tickets : TRUE
Requests == [tool : {"create", "products", "stock_write"}, target : {AnyTicket}, status : {"open"}]
            \cup [tool : {"check"}, target : Tickets, status : {"open"}]
            \cup [tool : {"update"}, target : Tickets, status : Statuses \ {"open"}]

(* The bearer middleware, principal(required_scope) and _exchange: a call   *)
(* the caller's token does not cover is refused without a request, and so   *)
(* is one that would write stock.  for is a ghost: the caller.              *)
Invoke(k, q, u, scopes) ==
  /\ call[k] = NoCall /\ "mcp:connect" \in scopes
  /\ call' = [call EXCEPT ![k] =
       IF ScopeOf(q.tool) \in scopes /\ q.tool # "stock_write"
       THEN [pc |-> "ready", tool |-> q.tool, target |-> q.target, status |-> q.status,
             attempt |-> 0, sub |-> Subject(u), for |-> u]
       ELSE [pc |-> "refused"]]
  /\ UNCHANGED <<wire, ticket>>

Send(k) ==
  /\ call[k].pc = "ready"
  /\ call' = [call EXCEPT ![k].pc = "waiting", ![k].attempt = @ + 1]
  /\ wire' = wire \cup {[call |-> k, attempt |-> call[k].attempt + 1, locked |-> FALSE]}
  /\ UNCHANGED ticket

RetryOr(k, outcome) == IF call[k].attempt < Attempts(call[k].tool) THEN "ready" ELSE outcome

(* ConnectError and ReadError are tried again while an attempt is left, a   *)
(* timeout ends the call; the request itself may live on.                   *)
Disconnected(k) ==
  /\ call[k].pc = "waiting"
  /\ \E pc \in {RetryOr(k, "error"), "error"} : call' = [call EXCEPT ![k].pc = pc]
  /\ UNCHANGED <<wire, ticket>>

(* The loop over transient statuses and _raise_for_status. *)
Outcome(k, http) == IF http = 503 THEN RetryOr(k, "error") ELSE IF http = 200 THEN "ok" ELSE "error"

-----------------------------------------------------------------------------
(* The incident API.  An answer reaches the attempt that still waits.       *)

Answer(r, http) ==
  LET k == r.call IN
  /\ wire' = wire \ {r}
  /\ call' = IF call[k].pc = "waiting" /\ call[k].attempt = r.attempt
             THEN [call EXCEPT ![k].pc = Outcome(k, http)] ELSE call

(* The request or the answer is lost on the way. *)
Lost(r) ==
  /\ wire' = wire \ {r}
  /\ UNCHANGED <<call, ticket>>

(* _persistence_failure: rolled back, 503. *)
DatabaseFails(r) == Answer(r, 503) /\ UNCHANGED ticket

(* IncidentService.create: one commit.  call and by are ghosts: the calls   *)
(* that made and that changed the ticket.                                   *)
Create(r, t) ==
  LET k == call[r.call] IN
  /\ k.tool = "create" /\ ticket[t] = NoTicket
  /\ ticket' = [ticket EXCEPT ![t] = [status |-> "open", owner |-> k.sub, call |-> r.call, by |-> {}]]
  /\ Answer(r, 200)

(* _authorize_delegated. *)
Authorized(k, t) == k.sub \in Admins \/ ticket[t].owner = k.sub

(* Reads: get, and the product list. *)
Read(r) ==
  LET k == call[r.call] IN
  /\ k.tool \in {"check", "products"}
  /\ Answer(r, IF k.tool = "products" THEN 200
               ELSE IF ticket[k.target] = NoTicket THEN 404
               ELSE IF Authorized(k, k.target) THEN 200 ELSE 403)
  /\ UNCHANGED ticket

Allowed(status) ==
  CASE status = "open" -> {"in_progress", "discarded"}
    [] status = "in_progress" -> {"resolved", "discarded"}
    [] OTHER -> {}

RowFree(t) == \A r \in wire : r.locked => call[r.call].target # t

(* update_status: the row is locked, checked and, in a second step, written *)
(* and committed.                                                           *)
LockAndCheck(r) ==
  LET k == call[r.call] IN
  /\ k.tool = "update" /\ ~r.locked /\ RowFree(k.target)
  /\ \/ /\ ticket[k.target] # NoTicket /\ Authorized(k, k.target)
        /\ k.status \in Allowed(ticket[k.target].status)
        /\ wire' = (wire \ {r}) \cup {[r EXCEPT !.locked = TRUE]}
        /\ UNCHANGED call
     \/ /\ ticket[k.target] = NoTicket /\ Answer(r, 404)
     \/ /\ ticket[k.target] # NoTicket
        /\ ~Authorized(k, k.target) \/ k.status \notin Allowed(ticket[k.target].status)
        /\ Answer(r, 403)
  /\ UNCHANGED ticket

CommitUpdate(r) ==
  LET k == call[r.call] IN
  /\ r.locked
  /\ ticket' = [ticket EXCEPT ![k.target].status = k.status, ![k.target].by = @ \cup {r.call}]
  /\ Answer(r, 200)

(* The same handler for a Back Office user, who is not scoped. *)
BackOfficeUpdate(t, status) ==
  /\ ticket[t] # NoTicket /\ RowFree(t) /\ status \in Allowed(ticket[t].status)
  /\ ticket' = [ticket EXCEPT ![t].status = status]
  /\ UNCHANGED <<call, wire>>

Next ==
  \/ \E k \in Calls :
       \/ \E q \in Requests, u \in Users, scopes \in Presented : Invoke(k, q, u, scopes)
       \/ Send(k) \/ Disconnected(k)
  \/ \E r \in wire :
       \/ Lost(r) \/ DatabaseFails(r) \/ Read(r) \/ LockAndCheck(r) \/ CommitUpdate(r)
       \/ \E t \in Tickets : Create(r, t)
  \/ \E t \in Tickets, status \in Statuses : BackOfficeUpdate(t, status)

Spec == Init /\ [][Next]_vars

-----------------------------------------------------------------------------
Started == {k \in Calls : call[k].pc \notin {"unused", "refused"}}
Filed   == {t \in Tickets : ticket[t] # NoTicket}

(* "This operation is not retried automatically": a ticket_create files at  *)
(* most one ticket, whatever is lost or answered late.                      *)
OneTicketPerCall == \A t, u \in Filed : ticket[t].call = ticket[u].call => t = u

(* A tool reports success only for what was committed.                      *)
ReportedIsDone ==
  \A k \in Started : call[k].pc = "ok" =>
    /\ call[k].tool = "create" => \E t \in Filed : ticket[t].call = k
    /\ call[k].tool = "update" => k \in ticket[call[k].target].by

(* Delegated work is done for the person who consented: a ticket belongs to *)
(* them, and only its owner or an admin moves it through a tool.            *)
ActsForPrincipal ==
  \A t \in Filed :
    /\ call[ticket[t].call].for = ticket[t].owner
    /\ \A k \in ticket[t].by : call[k].for \in Admins \cup {ticket[t].owner}

(* request, _raise_for_status, _authorize_delegated: a call does at most     *)
(* once what it was asked, for the person who consented, and reports success *)
(* only of what was committed, whatever is lost or late on the wire.         *)
CallsAreHonest == OneTicketPerCall /\ ReportedIsDone /\ ActsForPrincipal
=============================================================================
