--------------------------- MODULE ChatGeneration ---------------------------
(***************************************************************************)
(* One chat session: the manager that owns at most one model call for it   *)
(* (chat/streaming.py), the sockets that watch it (chat/realtime.py), the  *)
(* agent query endpoint that writes to the same transcript                 *)
(* (agents/service.py) and what the panel shows (ChatPanel.tsx).           *)
(*                                                                         *)
(* Everything between two awaits is one step of the event loop; the work   *)
(* given to asyncio.to_thread is a step of its own, and the loop's         *)
(* continuation after it another.  A socket's events arrive in the order   *)
(* published: the producers of a turn take turns (loop, model thread,      *)
(* loop), which is the case RealtimeBus promises order for, and no queue   *)
(* is at its capacity of 64.                                               *)
(***************************************************************************)
EXTENDS Naturals, Sequences, FiniteSets

CONSTANTS
    Sockets,        \* connections of the session's owner
    Watchers,       \* those whose panel is followed; the others only send
    Generations,    \* 1..n, bound on the turns streamed
    Queries,        \* agent queries that name this conversation
    MaxTokens       \* bound on the tokens of one turn

VARIABLES
    active,      \* ChatGenerationManager._active of this session, 0 for none
    gen,         \* per turn: where _run is, the cancel event, tokens and who waits for it
    query,       \* per agent query: where AgentService.answer is
    transcript,  \* chat_messages of the session, by sequence
    terminal,    \* per turn: the terminal events published
    late,        \* history: tokens accepted after the cancel event was set
    socket       \* per socket: the handshake's progress, queued events and the panel's draft

chatVars == <<active, gen, query, transcript, terminal, late, socket>>

NoTurn == 0
NotStarted == [at |-> "none", cancel |-> FALSE, tokens |-> 0]
Disconnected == [at |-> "closed", queue |-> <<>>, from |-> NoTurn, history |-> 0, missed |-> 0,
                 waits |-> NoTurn, redirect |-> FALSE,
                 draft |-> [g \in Generations |-> <<>>], seen |-> [g \in Generations |-> 0]]

ChatInit ==
    /\ active = NoTurn
    /\ gen = [g \in Generations |-> NotStarted]
    /\ query = [q \in Queries |-> "none"]
    /\ transcript = <<>>
    /\ terminal = [g \in Generations |-> <<>>]
    /\ late = [g \in Generations |-> 0]
    /\ socket = [k \in Sockets |-> [Disconnected EXCEPT !.at = IF k \in Watchers THEN "closed" ELSE "open"]]

Message(turn, role, cut) == [turn |-> turn, role |-> role, interrupted |-> cut]

(* bus.publish on the session's topic: every subscribed socket gets it. *)
Subscribed(k) == k \in Watchers /\ socket[k].at # "closed"
Published(sockets, e) ==
    [k \in Sockets |-> IF Subscribed(k) THEN [sockets[k] EXCEPT !.queue = Append(@, e)] ELSE sockets[k]]

Event(kind, g, n) == [kind |-> kind, turn |-> g, n |-> n]

-----------------------------------------------------------------------------
\* Mutant: a socket may start a turn while another runs
FreeAlways == TRUE

(* start: one turn at a time, claimed under the manager's lock. *)
Free == active = NoTurn

Started == {g \in Generations : gen[g].at # "none"}

StartTurn(g) ==
    /\ Free /\ g = Cardinality(Started) + 1
    /\ active' = g
    /\ gen' = [gen EXCEPT ![g].at = "preparing"]

(* A refused start or interrupt is published as a failure that names no    *)
(* turn; nothing modelled here changes.                                    *)
UserMessage(k) ==
    /\ socket[k].at = "open" /\ socket[k].waits = NoTurn
    /\ \E g \in Generations : StartTurn(g)
    /\ UNCHANGED <<query, transcript, terminal, late, socket>>

(* interrupt: sets the cancel event, then awaits the task. *)
Interrupt(k, redirect) ==
    /\ socket[k].at = "open" /\ socket[k].waits = NoTurn /\ active # NoTurn
    /\ gen' = [gen EXCEPT ![active].cancel = TRUE]
    /\ socket' = [socket EXCEPT ![k].waits = active, ![k].redirect = redirect]
    /\ UNCHANGED <<active, query, transcript, terminal, late>>

(* The awaited task is over: start the redirected turn, unless another     *)
(* socket was faster, which is reported as a failure.                      *)
InterruptReturns(k) ==
    /\ socket[k].waits # NoTurn /\ gen[socket[k].waits].at = "done"
    /\ socket' = [socket EXCEPT ![k].waits = NoTurn]
    /\ \/ socket[k].redirect /\ \E g \in Generations : StartTurn(g)
       \/ (~socket[k].redirect \/ ~Free \/ \A g \in Generations : g \in Started) /\ UNCHANGED <<active, gen>>
    /\ UNCHANGED <<query, transcript, terminal, late>>

(* The awaited task raised (see PersistFails): so does interrupt, and the  *)
(* socket's handler ends with it.                                          *)
InterruptRaises(k) ==
    /\ socket[k].waits # NoTurn /\ gen[socket[k].waits].at = "raised"
    /\ socket' = [socket EXCEPT ![k] = Disconnected]
    /\ UNCHANGED <<active, gen, query, transcript, terminal, late>>

(* close, at shutdown: every running turn is cancelled. *)
Shutdown ==
    /\ active # NoTurn /\ ~gen[active].cancel
    /\ gen' = [gen EXCEPT ![active].cancel = TRUE]
    /\ UNCHANGED <<active, query, transcript, terminal, late, socket>>

-----------------------------------------------------------------------------
Goes(g, from, to) == gen[g].at = from /\ gen' = [gen EXCEPT ![g].at = to]

(* _prepare_turn, in a thread: the question is in the transcript, or the   *)
(* turn fails with nothing stored.                                         *)
Prepare(g) ==
    /\ \/ Goes(g, "preparing", "prepared") /\ transcript' = Append(transcript, Message(g, "user", FALSE))
       \/ Goes(g, "preparing", "failing") /\ UNCHANGED transcript
    /\ UNCHANGED <<active, query, terminal, late, socket>>

(* user_message is published; a panel adds a row for the question. *)
Announce(g) ==
    /\ Goes(g, "prepared", "streaming")
    /\ UNCHANGED <<active, query, transcript, terminal, late, socket>>

(* The first half of publish_token and of the stream loop: both look at    *)
(* the cancel event before they go on.                                     *)
MayStream(g) == ~gen[g].cancel

TokenArrives(g) ==
    /\ gen[g].tokens < MaxTokens /\ MayStream(g)
    /\ Goes(g, "streaming", "appending")
    /\ UNCHANGED <<active, query, transcript, terminal, late, socket>>

(* The token joins token_parts under the thread lock... *)
AppendToken(g) ==
    /\ gen[g].at = "appending"
    /\ gen' = [gen EXCEPT ![g].at = "publishing", ![g].tokens = @ + 1]
    /\ late' = [late EXCEPT ![g] = IF gen[g].cancel THEN @ + 1 ELSE @]
    /\ UNCHANGED <<active, query, transcript, terminal, socket>>

(* ...and is published after the lock is released. *)
PublishToken(g) ==
    /\ gen[g].at = "publishing"
    /\ gen' = [gen EXCEPT ![g].at = "streaming"]
    /\ socket' = Published(socket, Event("token_chunk", g, gen[g].tokens))
    /\ UNCHANGED <<active, query, transcript, terminal, late>>

(* run_agent ends: with an answer, with none, or with GenerationCancelled, *)
(* which only the cancel event causes (the guard rails' own cancellation   *)
(* is turned into an answer inside the graph).  Closing the provider's     *)
(* stream makes it end early in any of these ways.                         *)
AgentReturns(g) ==
    /\ \/ Goes(g, "streaming", "answered")
       \/ Goes(g, "streaming", "unanswered")
       \/ gen[g].cancel /\ Goes(g, "streaming", "saving")
    /\ UNCHANGED <<active, query, transcript, terminal, late, socket>>

(* The loop looks at the cancel event once more before it completes. *)
Continue(g) ==
    /\ gen[g].at \in {"answered", "unanswered"}
    /\ gen' = [gen EXCEPT ![g].at = IF gen[g].cancel THEN "saving"
                                    ELSE IF gen[g].at = "answered" THEN "completing" ELSE "failing"]
    /\ UNCHANGED <<active, query, transcript, terminal, late, socket>>

(* _complete_turn: the answer is stored; what follows the commit may still *)
(* raise, and then the turn is reported as failed.                         *)
Complete(g) ==
    /\ \/ /\ Goes(g, "completing", "completed") \/ Goes(g, "completing", "failing")
          /\ transcript' = Append(transcript, Message(g, "assistant", FALSE))
       \/ Goes(g, "completing", "failing") /\ UNCHANGED transcript
    /\ UNCHANGED <<active, query, terminal, late, socket>>

(* _persist_interrupted: what was streamed so far, marked interrupted;     *)
(* nothing when nothing (or only blanks) was streamed.                     *)
Partial(g) == gen[g].tokens > 0

\* Mutant: the partial answer is stored as if it were whole
KeptWhole(g) == Message(g, "assistant", FALSE)

Kept(g) == Message(g, "assistant", TRUE)

PersistInterrupted(g) ==
    /\ \/ /\ Goes(g, "saving", "saved") /\ Partial(g)
          /\ transcript' = Append(transcript, Kept(g))
       \/ Goes(g, "saving", "savedNothing") /\ UNCHANGED transcript
    /\ UNCHANGED <<active, query, terminal, late, socket>>

(* finally: the slot is given back in the step that publishes the terminal *)
(* event, as nothing is awaited between them but a lock nobody holds.      *)
Released(g) == IF active = g THEN NoTurn ELSE active

Finish(g, from, kind) ==
    /\ Goes(g, from, "done")
    /\ active' = Released(g)
    /\ terminal' = [terminal EXCEPT ![g] = Append(@, kind)]
    /\ socket' = Published(socket, Event(kind, g, 0))
    /\ UNCHANGED <<query, transcript, late>>

Completed(g) == Finish(g, "completed", "generation_completed")
Failed(g) == Finish(g, "failing", "generation_failed")
Interrupted(g) ==
    Finish(g, "saved", "generation_interrupted") \/ Finish(g, "savedNothing", "generation_interrupted")

(* Storing the partial answer fails: an exception inside the handler of    *)
(* GenerationCancelled leaves _run, with no terminal event; finally gives  *)
(* the slot back all the same.                                             *)
PersistFails(g) ==
    /\ Goes(g, "saving", "raised")
    /\ active' = Released(g)
    /\ UNCHANGED <<query, transcript, terminal, late, socket>>

-----------------------------------------------------------------------------
(* AgentService.answer for a conversation that is a chat session: the      *)
(* question and the answer are two transactions, with no slot claimed.     *)
QueryAsks(q) ==
    /\ query[q] = "none"
    /\ query' = [query EXCEPT ![q] = "asked"]
    /\ transcript' = Append(transcript, Message(q, "user", FALSE))
    /\ UNCHANGED <<active, gen, terminal, late, socket>>

QueryAnswers(q) ==
    /\ query[q] = "asked"
    /\ query' = [query EXCEPT ![q] = "over"]
    /\ transcript' \in {transcript, Append(transcript, Message(q, "assistant", FALSE))}
    /\ UNCHANGED <<active, gen, terminal, late, socket>>

-----------------------------------------------------------------------------
(* chat_socket: the socket subscribes before it reads anything, ... *)
Connect(k) ==
    /\ k \in Watchers /\ socket[k].at = "closed"
    /\ socket' = [socket EXCEPT ![k].at = "subscribed"]
    /\ UNCHANGED <<active, gen, query, transcript, terminal, late>>

(* ...reads the transcript in a thread, ... *)
ReadHistory(k) ==
    /\ socket[k].at \in {"subscribed", "refreshing"}
    /\ socket' = [socket EXCEPT ![k] = IF @.at = "subscribed"
                     THEN [@ EXCEPT !.at = "read", !.history = Len(transcript)]
                     ELSE [@ EXCEPT !.at = "open", !.missed = 0]]
    /\ UNCHANGED <<active, gen, query, transcript, terminal, late>>

\* Mutant: the transcript read first is sent in any case
AfterLookingOpen == "open"

(* ...asks for the running turn, and reads the transcript again when there *)
(* is none.                                                                *)
AfterLooking == IF active = NoTurn THEN "refreshing" ELSE "open"

(* active_snapshot: the text of the running turn so far.  The panel starts *)
(* from it and forgets the draft it showed before.                         *)
Snapshot(k) ==
    /\ socket[k].at = "read"
    /\ LET n == IF active = NoTurn THEN 0 ELSE gen[active].tokens IN
       socket' = [socket EXCEPT
          ![k].at = AfterLooking,
          ![k].from = IF active = NoTurn THEN Cardinality(Started) + 1 ELSE active,
          ![k].history = 0,
          ![k].missed = IF active = NoTurn THEN Len(transcript) - socket[k].history ELSE 0,
          ![k].seen = [g \in Generations |-> IF g = active THEN n ELSE 0],
          ![k].draft = [g \in Generations |-> IF g = active THEN [i \in 1..n |-> i] ELSE <<>>]]
    /\ UNCHANGED <<active, gen, query, transcript, terminal, late>>

(* handleSocketEvent: a token whose sequence the panel has is dropped, and *)
(* the draft becomes a message when its turn ends.                         *)
IsNew(k, e) == e.n > socket[k].seen[e.turn]

Deliver(k) ==
    /\ socket[k].at = "open" /\ socket[k].queue # <<>>
    /\ LET e == Head(socket[k].queue)
           rest == [socket[k] EXCEPT !.queue = Tail(@)] IN
       socket' = [socket EXCEPT ![k] =
          CASE e.kind = "token_chunk" /\ IsNew(k, e) ->
                 [rest EXCEPT !.seen[e.turn] = e.n, !.draft[e.turn] = Append(@, e.n)]
            [] e.kind \in {"generation_completed", "generation_interrupted"} ->
                 [rest EXCEPT !.seen[e.turn] = 0, !.draft[e.turn] = <<>>]
            [] OTHER -> rest]
    /\ UNCHANGED <<active, gen, query, transcript, terminal, late>>

(* The connection is lost or expires; a handler that awaits an interrupted *)
(* turn notices only afterwards.                                           *)
Disconnect(k) ==
    /\ k \in Watchers /\ socket[k].at # "closed" /\ socket[k].waits = NoTurn
    /\ socket' = [socket EXCEPT ![k] = Disconnected]
    /\ UNCHANGED <<active, gen, query, transcript, terminal, late>>

-----------------------------------------------------------------------------
TurnStep(g) ==
    \/ Prepare(g) \/ Announce(g) \/ TokenArrives(g) \/ AppendToken(g) \/ PublishToken(g) \/ AgentReturns(g)
    \/ Continue(g) \/ Complete(g) \/ PersistInterrupted(g) \/ PersistFails(g)
    \/ Completed(g) \/ Failed(g) \/ Interrupted(g)

(* K: the sockets whose connection comes and goes. *)
ChatStep(K, Q) ==
    \/ \E g \in Generations : TurnStep(g)
    \/ \E q \in Q : QueryAsks(q) \/ QueryAnswers(q)
    \/ \E k \in Sockets :
          \/ UserMessage(k) \/ \E redirect \in BOOLEAN : Interrupt(k, redirect)
          \/ InterruptReturns(k) \/ InterruptRaises(k) \/ Deliver(k)
    \/ \E k \in K : Connect(k) \/ ReadHistory(k) \/ Snapshot(k) \/ Disconnect(k)
    \/ Shutdown

ChatNext == ChatStep(Watchers, Queries)

ChatSpec == ChatInit /\ [][ChatNext]_chatVars

-----------------------------------------------------------------------------
MessagesOf(turn, role) ==
    {i \in DOMAIN transcript : transcript[i].turn = turn /\ transcript[i].role = role}

(* The streamed turns of a session do not overlap in its transcript: an    *)
(* answer, whole or interrupted, is the only one of its turn, follows its  *)
(* own question, and no other streamed turn has a message in between --    *)
(* whatever sockets start, interrupt and redirect (start, interrupt,       *)
(* finally).  Agent queries on the same conversation may come in between.  *)
TurnsDoNotOverlap ==
    \A i \in DOMAIN transcript :
        LET m == transcript[i] IN
        m.turn \in Generations /\ m.role = "assistant" =>
            /\ Cardinality(MessagesOf(m.turn, "assistant")) = 1
            /\ \E j \in MessagesOf(m.turn, "user") :
                  /\ j < i
                  /\ \A l \in j+1..i-1 : transcript[l].turn \notin Generations

(* What a turn's watchers are told is what was stored: one terminal event  *)
(* at most; after generation_completed the transcript holds the whole      *)
(* answer, after generation_interrupted it holds no answer that passes for *)
(* a whole one (_run, _complete_turn, _persist_interrupted).               *)
ToldIsStored ==
    \A g \in Generations : terminal[g] # <<>> =>
        /\ Len(terminal[g]) = 1
        /\ LET whole == {i \in MessagesOf(g, "assistant") : ~transcript[i].interrupted} IN
           /\ terminal[g][1] = "generation_completed" => whole # {}
           /\ terminal[g][1] = "generation_interrupted" => whole = {}

(* An accepted interrupt stops the stream: at most the one token that was  *)
(* past its check still joins the answer (publish_token).                  *)
InterruptStops == \A g \in Generations : late[g] <= 1

(* What a reconnecting panel shows of the turn that was running when it    *)
(* looked, or of a later one, is its text with no token missing or         *)
(* doubled, wherever in the stream the socket came in (chat_socket,        *)
(* active_snapshot, handleSocketEvent).                                    *)
DraftHasNoGap ==
    \A k \in Sockets, g \in Generations :
        socket[k].at = "open" /\ g >= socket[k].from =>
            socket[k].draft[g] = [i \in 1..Len(socket[k].draft[g]) |-> i]

(* A socket that found no turn running shows the history whole: what was   *)
(* stored when it looked is in the transcript it sends, also when a turn   *)
(* ended between its two looks (the second read in chat_socket).           *)
HistoryIsWhole ==
    \A k \in Sockets :
        socket[k].at = "open" => socket[k].missed = 0

(* A session is never stuck on a turn that is over: the slot is held by a  *)
(* turn that still runs, whatever failed and whoever interrupted (finally).*)
SlotIsLive == active # NoTurn => gen[active].at \notin {"none", "done", "raised"}

(* start, interrupt, finally: a session has one turn at a time, in its slot, *)
(* on the wire and in its transcript; an interrupted one stops, and one that *)
(* ended, however it ended, makes room for the next.                         *)
OneTurnAtATime == TurnsDoNotOverlap /\ InterruptStops /\ SlotIsLive

(* chat_socket, handleSocketEvent: a panel that connects anywhere in a       *)
(* stream shows the history whole and the running turn without gap or repeat.*)
PanelShowsTheSession == DraftHasNoGap /\ HistoryIsWhole
=============================================================================
