--------------------------- MODULE MCConversation ---------------------------
(* The bus and a chat session, checked side by side.  The bus moves with two *)
(* publishers and one subscription, or with one publisher and all of them;   *)
(* the session with panels that come and go, or with agent queries beside    *)
(* the turns.                                                                *)
EXTENDS RealtimeBus

CONSTANTS Sockets, Watchers, Generations, Queries, MaxTokens

\* The turns are numbered from 1, and an agent query is not one of them.
ASSUME TurnsAssumption ==
  /\ Generations \subseteq Nat \ {0} /\ Queries \cap Generations = {}
  /\ Watchers \subseteq Sockets

\* Somebody publishes and somebody listens: one of each is picked below.
ASSUME ActorsAssumption == Publishers # {} /\ Subscriptions # {}

VARIABLES part, active, gen, query, transcript, terminal, late, socket

Chat == INSTANCE ChatGeneration

chat == <<active, gen, query, transcript, terminal, late, socket>>

MCInit == BusInit /\ Chat!ChatInit /\ part \in {"fan in", "fan out", "panel", "turns"}

MCNext ==
  /\ UNCHANGED part
  /\ \/ part = "fan in" /\ BusStep(Publishers, {CHOOSE s \in Subscriptions : TRUE}) /\ UNCHANGED chat
     \/ part = "fan out" /\ BusStep({CHOOSE p \in Publishers : TRUE}, Subscriptions) /\ UNCHANGED chat
     \/ part = "panel" /\ Chat!ChatStep(Watchers, {}) /\ UNCHANGED busVars
     \/ part = "turns" /\ Chat!ChatStep({}, Queries) /\ UNCHANGED busVars

MCSpec == MCInit /\ [][MCNext]_<<part, busVars, chat>>

-----------------------------------------------------------------------------
\* start, interrupt, finally: see ChatGeneration!OneTurnAtATime.
OneTurnAtATime == Chat!OneTurnAtATime

\* _run: see ChatGeneration!ToldIsStored.
ToldIsStored == Chat!ToldIsStored

\* chat_socket, handleSocketEvent: see ChatGeneration!PanelShowsTheSession.
PanelShowsTheSession == Chat!PanelShowsTheSession
=============================================================================
