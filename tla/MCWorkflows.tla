----------------------------- MODULE MCWorkflows -----------------------------
(* The two workflows that a language model and a person share, checked side  *)
(* by side: a proposal desk (the ticket, and the estimate it prints) and the *)
(* support agent (a run of its graph, the decoding of its streamed answer,   *)
(* and what it is allowed to remember).                                      *)
EXTENDS Integers

CONSTANTS Departments, MaxIterations, Volumes, MaxReply, HexDigits, MaxPieces,
          Conversations, Proposals, DecisionIds, Turns, Deciders, Subjects, Texts

ASSUME DraftsAssumption == MaxIterations \in Nat
ASSUME PiecesAssumption == MaxPieces \in Nat

\* A code point has at least one digit.
ASSUME DigitsAssumption == HexDigits \in Nat \ {0}

\* No proposal has the name that stands for none.
ASSUME ProposalsAssumption == "none" \notin Proposals

VARIABLES part, ticket, needed, section, thread, document, task, decision, pressed, broken,
          quote, reply, decoder, shown, turn,
          proposal, audit, fact, versions, turnOf, decider, purge

Rfp == INSTANCE RfpTicket
Price == INSTANCE RfpPricing
Stream == INSTANCE AnswerStream
Turn == INSTANCE AgentTurn
Memory == INSTANCE AgentMemory

rfp == <<ticket, needed, section, thread, document, task, decision, pressed, broken>>
stream == <<reply, decoder, shown>>
memory == <<proposal, audit, fact, versions, turnOf, decider, purge>>

MCInit ==
  /\ part \in {"ticket", "quote", "stream", "turn", "memory"}
  /\ Rfp!RfpInit /\ Stream!StreamInit /\ Memory!MemoryInit
  /\ IF part = "quote" THEN Price!PriceInit ELSE quote = [currency |-> "none", volume |-> 0]
  /\ IF part = "turn" THEN Turn!TurnInit ELSE turn = Turn!NewTurn

MCNext ==
  /\ UNCHANGED <<part, quote>>
  /\ \/ part = "ticket" /\ Rfp!RfpNext /\ UNCHANGED <<stream, turn, memory>>
     \/ part = "stream" /\ Stream!StreamNext /\ UNCHANGED <<rfp, turn, memory>>
     \/ part = "turn" /\ Turn!TurnNext /\ UNCHANGED <<rfp, stream, memory>>
     \/ part = "memory" /\ Memory!MemoryNext /\ UNCHANGED <<rfp, stream, turn>>

MCSpec == MCInit /\ [][MCNext]_<<part, quote, rfp, stream, turn, memory>>

-----------------------------------------------------------------------------
\* submit_decision, _maybe_finalize: see RfpTicket!DocumentWasApproved.
DocumentWasApproved == Rfp!DocumentWasApproved

\* start_ticket_approval, submit_decision: see RfpTicket!TicketsGoOn.
TicketsGoOn == Rfp!TicketsGoOn

\* build_cost_breakdown: see RfpPricing!QuoteIsPublished.
QuoteIsPublished == Price!QuoteIsPublished

\* feed: see AnswerStream!ShownIsTheAnswer.
ShownIsTheAnswer == Stream!ShownIsTheAnswer

\* guarded_token_callback: see AgentTurn!OnlyGuardedText.
OnlyGuardedText == Turn!OnlyGuardedText

\* decide, _approve: see AgentMemory!DecisionsCountOnce.
DecisionsCountOnce == Memory!DecisionsCountOnce
=============================================================================
