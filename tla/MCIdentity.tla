----------------------------- MODULE MCIdentity -----------------------------
(* Accounts, access tokens, delegation and the tools that use it, checked    *)
(* side by side: they share no variable, so the behaviours of one with the   *)
(* others at rest show all that a property of the one can see.  `part` says  *)
(* which one moves.                                                          *)
EXTENDS Accounts

CONSTANTS Clients, Meta, Asked, Codes, MaxTokens, Admins, Presented, Calls, Tickets,
          SessionLife, OAuthLife, MaxIssued, MaxTime

ASSUME LivesAssumption == SessionLife \in Nat /\ OAuthLife \in Nat

VARIABLES part, code, tokens, call, wire, ticket, account, issued, stream, last, clock

\* One public client; the agents' client, which also exchanges what it was
\* given; the MCP server's client.
AllScopes == {"mcp:connect", "incidents:read", "incidents:write", "inventory:read"}

MCMeta ==
  [app    |-> [grants |-> {"code"}, scopes |-> AllScopes, resources |-> {"mcp"}, sources |-> {}],
   agent  |-> [grants |-> {"exchange", "credentials"}, scopes |-> AllScopes, resources |-> {"mcp"},
               sources |-> {"backoffice", "mcp"}],
   server |-> [grants |-> {"exchange"}, scopes |-> AllScopes \ {"mcp:connect"}, resources |-> {"api"},
               sources |-> {"mcp"}]]

MCAsked == {{"incidents:write"}, {"mcp:connect", "incidents:write"}, AllScopes}

D == INSTANCE Delegation
T == INSTANCE ToolCalls
A == INSTANCE AccessTokens

codeVars == <<code, tokens>>
toolVars == <<call, wire, ticket>>
tokenVars == <<account, issued, stream, last, clock>>
allVars == <<vars, codeVars, toolVars, tokenVars, part>>

MCInit == Init /\ D!Init /\ T!Init /\ A!TokenInit
          /\ part \in {"accounts", "delegation", "tools", "tokens"}

MCNext ==
  /\ UNCHANGED part
  /\ \/ part = "accounts" /\ Next /\ UNCHANGED <<codeVars, toolVars, tokenVars>>
     \/ part = "delegation" /\ D!Next /\ UNCHANGED <<vars, toolVars, tokenVars>>
     \/ part = "tools" /\ T!Next /\ UNCHANGED <<vars, codeVars, tokenVars>>
     \/ part = "tokens" /\ A!TokenNext /\ UNCHANGED <<vars, codeVars, toolVars>>

MCSpec == MCInit /\ [][MCNext]_allVars

-----------------------------------------------------------------------------
\* verify_access_token, _operational_principal: see AccessTokens!ServedAsEntitled.
ServedAsEntitled == A!ServedAsEntitled

\* consume, token_exchange: see Delegation!TokensAreEarned.
TokensAreEarned == D!TokensAreEarned

\* request, _authorize_delegated: see ToolCalls!CallsAreHonest.
CallsAreHonest == T!CallsAreHonest
=============================================================================
