------------------------------ MODULE AgentTurn ------------------------------
(* One run of the support agent: the graph of receive, guard, route,         *)
(* retrieve, ticket tool, generate and guard, and what the service keeps of  *)
(* it.  Text is a sequence of pieces: plain words, a policy claim, a ticket  *)
(* status, a secret, or blank space.                                         *)
EXTENDS Integers, Sequences, SequencesExt

CONSTANT MaxPieces   \* pieces of text a model generates in one run

VARIABLE turn

Statuses == {"open", "resolved"}
Pieces == Statuses \cup {"words", "claim", "secret", "blank"}
Fallback == <<"fallback">>
Refusal == <<"refusal">>

NewTurn == [node |-> "receive_question", streaming |-> TRUE, memory |-> "none",
            route |-> "none", id |-> FALSE, retrieved |-> {}, tool |-> "none",
            authoritative |-> "none", text |-> <<>>, delivered |-> <<>>, answer |-> <<>>,
            candidate |-> FALSE, error |-> FALSE, proposed |-> FALSE, replied |-> <<>>]

TurnInit == \E streaming \in BOOLEAN, memory \in {"none", "clean", "unsafe"} :
              turn = [NewTurn EXCEPT !.streaming = streaming, !.memory = memory]

Visit(changed, node) == turn' = [changed EXCEPT !.node = node]

\* Routes of a run that goes no further: its answer, and where it ends.
Reject(t, answer) == [t EXCEPT !.route = "reject", !.answer = answer]

-----------------------------------------------------------------------------
ReceiveQuestion ==
  /\ turn.node = "receive_question"
  /\ \/ Visit(Reject([turn EXCEPT !.error = TRUE], <<>>), "end")
     \/ Visit(turn, "guardrail_input")

GuardrailInput ==
  /\ turn.node = "guardrail_input"
  /\ \/ Visit(Reject(turn, Refusal), "end")
     \/ Visit(turn, "route")

\* route_question: a tool route without a ticket id falls back to retrieval,
\* but the id may be one that validate_ticket_argument refuses.
Route ==
  /\ turn.node = "route"
  /\ \E route \in {"rag", "ticket", "both"}, valid \in BOOLEAN :
       Visit([turn EXCEPT !.route = route, !.id = valid /\ route # "rag"],
             IF route = "ticket" THEN "ticket_tool" ELSE "retrieve")

\* Chunks speak of other things or of the carrier the memory is about; those
\* with instructions in them are dropped.
SafeEvidence(chunks) == chunks \ {"unsafe"}

AfterRetrieve(t) ==
  IF t.route = "both" THEN "ticket_tool"
  ELSE IF t.retrieved # {} THEN "generate" ELSE "no_context"

Retrieve ==
  /\ turn.node = "retrieve"
  /\ \/ Visit(Reject(turn, Refusal), "end")
     \/ Visit([turn EXCEPT !.error = TRUE], "end")
     \/ \E chunks \in SUBSET {"plain", "mentions", "unsafe"} :
          LET t == [turn EXCEPT !.retrieved = SafeEvidence(chunks)]
          IN Visit(t, AfterRetrieve(t))

LookupOutcomes == Statuses \cup {"not_found", "timeout", "error"}

TicketTool ==
  /\ turn.node = "ticket_tool"
  /\ \/ ~turn.id /\ Visit([turn EXCEPT !.tool = "missing_id"], "generate")
     \/ turn.id /\ \E outcome \in LookupOutcomes :
          Visit([turn EXCEPT !.tool = outcome,
                             !.authoritative = IF outcome \in Statuses THEN outcome ELSE "none"],
                "generate")
     \/ turn.id /\ Visit([turn EXCEPT !.tool = "blocked"], "generate")

-----------------------------------------------------------------------------
UsableMemory(t) == t.memory = "clean" /\ "mentions" \notin t.retrieved

HasEvidence(t) == t.retrieved # {} \/ t.tool # "none" \/ UsableMemory(t)

Has(text, piece) == \E i \in DOMAIN text : text[i] = piece
Stated(text) == {s \in Statuses : Has(text, s)}

\* validate_output, TRUE when no rule blocks the text
ValidOutput(text, t) ==
  /\ \E i \in DOMAIN text : text[i] # "blank"
  /\ ~Has(text, "secret")
  /\ Has(text, "claim") => HasEvidence(t)
  /\ (t.authoritative # "none" /\ Stated(text) # {}) => Stated(text) = {t.authoritative}

Generating == turn.node \in {"generate", "no_context"}

\* mutant: the text is delivered before it is validated
DeliverFirst(t, piece) == [t EXCEPT !.text = Append(@, piece), !.delivered = Append(@, piece)]
Delivered(t, piece) ==
  LET said == [t EXCEPT !.text = Append(@, piece)]
  IN IF ValidOutput(said.text, t) THEN [said EXCEPT !.delivered = Append(@, piece)] ELSE said

\* guarded_token_callback; a blocked stream is closed with the fallback.
Emit(piece) ==
  /\ Generating /\ turn.streaming /\ Len(turn.text) < MaxPieces
  /\ LET said == Delivered(turn, piece)
     IN IF ValidOutput(said.text, turn)
        THEN turn' = said
        ELSE Visit(Reject([said EXCEPT !.delivered = @ \o Fallback], Fallback), "guardrail_output")

Said(text) == {i \in DOMAIN text : text[i] # "blank"}

\* The provider's reply is complete: its answer, stripped of the blanks before
\* the first and after the last piece, and perhaps a memory candidate.
Generated ==
  /\ Generating
  /\ \E text \in (IF turn.streaming THEN {turn.text} ELSE SeqOf(Pieces, MaxPieces)),
        candidate \in BOOLEAN :
       \E first, last \in Said(text) :
         /\ Said(text) \subseteq first .. last
         /\ Visit([turn EXCEPT !.text = text, !.answer = SubSeq(text, first, last),
                               !.candidate = candidate], "guardrail_output")

GenerationFails == Generating /\ Visit([turn EXCEPT !.error = TRUE], "guardrail_output")

\* An interrupted generation leaves the graph by an exception.
GenerationCancelled == Generating /\ turn.streaming /\ Visit(turn, "cancelled")

\* Also what becomes of a failed generation: an empty answer is blocked.
GuardrailOutput ==
  /\ turn.node = "guardrail_output"
  /\ Visit(IF turn.answer = Fallback \/ ValidOutput(turn.answer, turn) THEN turn
           ELSE Reject(turn, Fallback), "end")

-----------------------------------------------------------------------------
RunStatus(t) == IF t.route = "reject" THEN "rejected" ELSE IF t.error THEN "error" ELSE "ok"

MayPropose(t) == RunStatus(t) = "ok"

\* AgentService.answer after the run; an error, or no answer, is a 502.
Answer ==
  /\ turn.node = "end"
  /\ Visit([turn EXCEPT !.proposed = MayPropose(turn) /\ turn.candidate,
                        !.replied = IF RunStatus(turn) \in {"ok", "rejected"} THEN turn.answer ELSE <<>>],
           "answered")

TurnNext ==
  \/ ReceiveQuestion \/ GuardrailInput \/ Route \/ Retrieve \/ TicketTool
  \/ Generated \/ GenerationFails \/ GenerationCancelled \/ GuardrailOutput \/ Answer
  \/ \E piece \in Pieces : Emit(piece)

TurnSpec == TurnInit /\ [][TurnNext]_turn

-----------------------------------------------------------------------------
(* Properties.                                                               *)
Shown == {turn.delivered, turn.replied}

\* guarded_token_callback, guardrail_output_node: no secret, and no status
\* that the ticket system contradicts, is ever shown, in a reply or in the
\* pieces of one that is blocked later.
OnlySafeTextIsShown ==
  \A text \in Shown : ~Has(text, "secret")
                   /\ (turn.tool \in Statuses => Stated(text) \subseteq {turn.tool})

\* usable_memory, validate_output: a policy claim that is shown, piece by piece
\* or in a reply, rests on a retrieved document, on the ticket tool or on a
\* remembered fact, and on none with instructions in it.
ClaimsAreGrounded ==
  \A text \in Shown : Has(text, "claim") =>
    turn.retrieved \ {"unsafe"} # {} \/ turn.tool # "none" \/ turn.memory = "clean"

\* generate_node, answer: what a run proposes to remember comes with a reply
\* that the model wrote and the output guard let through.
ProposalsComeWithAnswers ==
  turn.proposed => turn.replied \notin {<<>>, Fallback, Refusal} /\ ~turn.error

\* guarded_token_callback, guardrail_output_node, answer: nothing is shown or
\* proposed that the guards would refuse, piece by piece or as a whole.
OnlyGuardedText == OnlySafeTextIsShown /\ ClaimsAreGrounded /\ ProposalsComeWithAnswers
=============================================================================
