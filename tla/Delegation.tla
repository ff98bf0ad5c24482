----------------------------- MODULE Delegation -----------------------------
(***************************************************************************)
(* The OAuth authorization server of the identity service (services/       *)
(* identity/identity/{oauth,oauth_routes,repository}.py): registration,    *)
(* consent, codes, client credentials and token exchange, as the MCP       *)
(* server and the chat agents use it.                                      *)
(*                                                                         *)
(* Signed tokens cannot be forged and carry their claims; an expired token *)
(* is one nobody presents.  Clients are registered once and never changed; *)
(* a user's status is read by authorize only, so any user may be the one   *)
(* who is active when it is read.                                          *)
(***************************************************************************)
EXTENDS Naturals, FiniteSets

CONSTANTS
  Users,
  Clients,
  Meta,        \* what each client registers: grants, scopes, resources, sources
  Asked,       \* the sets of scopes requests ask for
  Codes,
  MaxTokens    \* bound: access tokens in clients' hands

VARIABLES
  code,        \* table oauth_authorization_codes
  tokens       \* access tokens handed to clients

vars == <<code, tokens>>

Scopes    == {"mcp:connect", "incidents:read", "incidents:write", "inventory:read"}
Resources == {"mcp", "api"}
NoCode    == [state |-> "unused"]

Init == code = [c \in Codes |-> NoCode] /\ tokens = {}

(* _require_client_scopes and _require_client_resource. *)
Permitted(meta, scopes, resource) ==
  /\ scopes # {} /\ scopes \subseteq Scopes
  /\ scopes \subseteq meta.scopes /\ resource \in meta.resources

(* register_public_client, and create-oauth-client for confidential ones. *)
Valid(meta) ==
  /\ meta.scopes # {} /\ meta.scopes \subseteq Scopes /\ meta.resources # {}
  /\ meta.grants = {"code"} \/ (meta.grants # {} /\ meta.grants \subseteq {"credentials", "exchange"})

(* _active_client, and the grant check of _authenticate_client. *)
MayUse(c, grant) == Valid(Meta[c]) /\ grant \in Meta[c].grants

ValidateAuthorizationRequest(c, scopes, resource) ==
  MayUse(c, "code") /\ Permitted(Meta[c], scopes, resource)

(* The code that authorize keeps for an active user with a password of its own. *)
NewCode(c, u, scopes, resource) ==
  [state |-> "open", client |-> c, user |-> u, scopes |-> scopes, resource |-> resource,
   tried |-> 0, redeemed |-> 0]

(* authorize_submit with the user's credentials and approval. *)
Authorize(c, u, scopes, resource, new) ==
  /\ ValidateAuthorizationRequest(c, scopes, resource)
  /\ code[new].state = "unused"
  /\ code' = [code EXCEPT ![new] = NewCode(c, u, scopes, resource)]
  /\ UNCHANGED tokens

(* A token, and (ghosts) who consented and to what. *)
Token(sub, c, scopes, aud, root, granted) ==
  [sub |-> sub, client |-> c, scopes |-> scopes, aud |-> aud, root |-> root, granted |-> granted]

Room == Cardinality(tokens) < MaxTokens

(* consume burns the code at the first attempt, whatever comes of it. *)
Burnt(x, good) == "used"

(* exchange_authorization_code: the client, the redirect URI and PKCE are   *)
(* compared after that.  tried and redeemed are ghosts.                     *)
ExchangeCode(c, x, matches) ==
  LET good == matches /\ code[x].client = c IN
  /\ MayUse(c, "code")
  /\ code[x].state = "open" /\ Room
  /\ code' = [code EXCEPT ![x].state = Burnt(x, good), ![x].tried = @ + 1,
                          ![x].redeemed = IF good THEN @ + 1 ELSE @]
  /\ tokens' = IF ~good THEN tokens
               ELSE tokens \cup {Token(code[x].user, c, code[x].scopes, code[x].resource,
                                       code[x].user, code[x].scopes)}

CodeExpires(x) ==
  /\ code[x].state = "open"
  /\ code' = [code EXCEPT ![x].state = "used"]
  /\ UNCHANGED tokens

ClientCredentials(c, scopes, resource) ==
  /\ MayUse(c, "credentials")
  /\ Permitted(Meta[c], scopes, resource) /\ Room
  /\ tokens' = tokens \cup {Token(c, c, scopes, resource, c, scopes)}
  /\ UNCHANGED code

\* Mutant: only the exchanging client's registration limits the scopes.
ExchangeWidens(meta, source, scopes, resource) ==
  Permitted(meta, scopes, resource) /\ source.aud \in meta.sources

(* token_exchange and _verify_subject_token. *)
Exchangeable(meta, source, scopes, resource) ==
  /\ Permitted(meta, scopes, resource)
  /\ source.aud \in meta.sources
  /\ scopes \subseteq source.scopes

(* A Back Office session token names no scope: nothing is narrowed. *)
SessionToken(u) == Token(u, "backoffice", Scopes, "backoffice", u, Scopes)

TokenExchange(c, source, scopes, resource) ==
  /\ MayUse(c, "exchange")
  /\ Exchangeable(Meta[c], source, scopes, resource) /\ Room
  /\ tokens' = tokens \cup {Token(source.sub, c, scopes, resource, source.root, source.granted)}
  /\ UNCHANGED code

Next ==
  \/ \E c \in Clients :
       \/ \E scopes \in Asked, resource \in Resources :
            \/ \E u \in Users, x \in Codes : Authorize(c, u, scopes, resource, x)
            \/ ClientCredentials(c, scopes, resource)
            \/ \E source \in tokens \cup {SessionToken(u) : u \in Users} :
                 TokenExchange(c, source, scopes, resource)
       \/ \E x \in Codes, matches \in BOOLEAN : ExchangeCode(c, x, matches)
  \/ \E x \in Codes : CodeExpires(x)

Spec == Init /\ [][Next]_vars

-----------------------------------------------------------------------------
(* Delegation only narrows: whatever chain of consent and exchanges led to  *)
(* a token, it allows no more than was granted, and to the same person.     *)
ScopesNeverGrow == \A t \in tokens : t.scopes \subseteq t.granted /\ t.sub = t.root

(* "burns each code on first redemption attempt": a code yields at most one *)
(* token, and none once an attempt with it has failed.                      *)
OneTokenPerCode == \A x \in Codes : code[x] # NoCode /\ code[x].redeemed > 0 => code[x].tried = 1

(* consume, token_exchange: every token goes back to one consent, through    *)
(* one redemption of its code, and allows no more than was consented to.     *)
TokensAreEarned == ScopesNeverGrow /\ OneTokenPerCode
=============================================================================
