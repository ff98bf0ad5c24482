---------------------------- MODULE AccessTokens ----------------------------
(* What a signed access token still allows after the account behind it has   *)
(* changed.  The Central API never asks the identity service: it checks the  *)
(* signature, the audience, the expiry and the claims a token was issued     *)
(* with (packages/trackflow_auth/verifier.py, core/dependencies.py), and     *)
(* long-lived connections end when the token they were opened with does.     *)
(*                                                                           *)
(* A session token opens the Back Office; the agents exchange it for one     *)
(* that the MCP server accepts, and the MCP server that one for one that     *)
(* the Central API accepts.  Time is in units in which tokens expire.        *)
EXTENDS Integers, FiniteSets

CONSTANTS
  Users,
  SessionLife, OAuthLife,   \* ACCESS_ and OAUTH_ACCESS_TOKEN_EXPIRE_MINUTES
  MaxIssued, MaxTime        \* bounds: tokens in circulation, time

VARIABLES
  account,   \* status of each user, and when it was last disabled
  issued,    \* access tokens in circulation
  stream,    \* a long-lived connection: the token it was opened with
  last,      \* history: who was served last, how, and how long after being disabled
  clock

tokenVars == <<account, issued, stream, last, clock>>

NoToken == [sub |-> "none", aud |-> "none", status |-> "none", temporary |-> FALSE,
            scope |-> "none", exp |-> 0]
Nobody == [way |-> "none", as |-> "none", cookie |-> "none", forged |-> FALSE, late |-> 0]

\* Users are created with a temporary password.
TokenInit ==
  /\ account = [u \in Users |-> [status |-> "active", temporary |-> TRUE, since |-> 0]]
  /\ issued = {} /\ stream = NoToken
  /\ last = Nobody /\ clock = 0

\* Nobody is served in this step.
Quiet == last' = Nobody

-----------------------------------------------------------------------------
(* The identity service.                                                     *)

\* Neither takes a token out of circulation.
UpdateStatus(u) ==
  /\ account' = [account EXCEPT ![u].status = IF @ = "active" THEN "disabled" ELSE "active",
                                ![u].since = IF account[u].status = "active" THEN clock ELSE 0]
  /\ UNCHANGED <<issued, stream, clock>> /\ Quiet

ChangePassword(u) ==
  /\ account[u].temporary /\ account' = [account EXCEPT ![u].temporary = FALSE]
  /\ UNCHANGED <<issued, stream, clock>> /\ Quiet

Issue(t) == Cardinality(issued \cup {t}) <= MaxIssued /\ issued' = issued \cup {t}

\* build_access_claims copies the account as it is at a login or a refresh.
BuildAccessClaims(u) ==
  /\ account[u].status = "active"
  /\ Issue([sub |-> u, aud |-> "backoffice", status |-> account[u].status,
            temporary |-> account[u].temporary, scope |-> "none", exp |-> clock + SessionLife])
  /\ UNCHANGED <<account, stream, clock>> /\ Quiet

\* mutant: the subject token's expiry is not verified
ValidForever(t) == TRUE
NotExpired(t) == clock <= t.exp

\* token_exchange by the agents ("mcp") and by the MCP server ("api"): from the
\* claims of the subject token, for a full lifetime; the account is not read.
VerifySubjectToken(t, aud) ==
  /\ NotExpired(t) /\ t.status = "active" /\ ~t.temporary
  /\ t.aud = (IF aud = "mcp" THEN "backoffice" ELSE "mcp")

TokenExchange(t, aud, scope) ==
  /\ VerifySubjectToken(t, aud) /\ t.scope \in {"none", scope}
  /\ Issue([t EXCEPT !.aud = aud, !.scope = scope, !.exp = clock + OAuthLife])
  /\ UNCHANGED <<account, stream, clock>> /\ Quiet

\* A token is thrown away, or outlives its use.
Discard(t) == issued' = issued \ {t} /\ UNCHANGED <<account, stream, clock>> /\ Quiet

-----------------------------------------------------------------------------
(* The Central API.                                                          *)
Lateness(u) == IF account[u].status = "active" THEN 0 ELSE clock - account[u].since

\* forged: a write whose CSRF token does not match.
Served(way, u, cookie, forged) ==
  last' = [way |-> way, as |-> u, cookie |-> cookie.sub, forged |-> forged, late |-> Lateness(u)]

\* verify_access_token, and the claims authenticate_request insists on.
Authentic(t) ==
  t # NoToken /\ t.aud = "backoffice" /\ clock <= t.exp /\ t.status = "active" /\ ~t.temporary

\* authenticate_scoped_bearer
Scoped(t, scope) ==
  t # NoToken /\ t.aud = "api" /\ clock <= t.exp /\ t.status = "active" /\ t.scope = scope

\* extract_access_token: the cookie first.
Extracted(cookie, bearer) == IF cookie # NoToken THEN cookie ELSE bearer

ScopedInstead(cookie, bearer, scope) == cookie = NoToken /\ Scoped(bearer, scope)

\* require_csrf, on a write that was authenticated by the cookie.
RequireCsrf(cookie, forged) == cookie # NoToken => ~forged

\* current_principal and write_principal, or _operational_principal on the
\* routes that also take a scoped token.
Request(cookie, bearer, operational, scope, csrf) ==
  LET forged == scope = "write" /\ ~csrf
      token == Extracted(cookie, bearer)
  IN /\ \/ /\ Authentic(token) /\ RequireCsrf(cookie, forged)
           /\ Served("staff", token.sub, cookie, forged)
        \/ /\ operational /\ ~Authentic(token) /\ ScopedInstead(cookie, bearer, scope)
           /\ Served("delegated", bearer.sub, cookie, forged)
     /\ UNCHANGED <<account, issued, stream, clock>>

\* authenticate_http_stream, authenticate_websocket_upgrade: the cookie only.
OpenStream(t) ==
  /\ Authentic(t) /\ stream = NoToken /\ stream' = t
  /\ UNCHANGED <<account, issued, clock>> /\ Quiet

Deliver ==
  /\ stream # NoToken /\ Served("stream", stream.sub, stream, FALSE)
  /\ UNCHANGED <<account, issued, stream, clock>>

\* stream_rfp_events and _close_at_expiry, or the client leaves.
CloseStream ==
  /\ stream # NoToken /\ stream' = NoToken
  /\ UNCHANGED <<account, issued, clock>> /\ Quiet

NoneOverdue == stream = NoToken \/ clock < stream.exp

\* The wait for an event and the expiry task are timed: no stream is left open.
Tick ==
  /\ clock < MaxTime /\ NoneOverdue /\ clock' = clock + 1
  /\ UNCHANGED <<account, issued, stream>> /\ Quiet

TokenNext ==
  \/ Tick \/ Deliver \/ CloseStream
  \/ \E u \in Users : UpdateStatus(u) \/ ChangePassword(u) \/ BuildAccessClaims(u)
  \/ \E t \in issued : \/ Discard(t) \/ OpenStream(t)
                       \/ \E aud \in {"mcp", "api"}, scope \in {"read", "write"} : TokenExchange(t, aud, scope)
  \/ \E cookie, bearer \in issued \cup {NoToken} :
       \E operational, csrf \in BOOLEAN, scope \in {"read", "write"} :
         Request(cookie, bearer, operational, scope, csrf)

TokenSpec == TokenInit /\ [][TokenNext]_tokenVars

-----------------------------------------------------------------------------
\* verify_access_token, token_exchange: nobody is served longer after being
\* disabled than the token, or the chain of exchanged tokens, lives; a Back
\* Office page and a stream end with the session token.
DisabledSoonOut ==
  last.late <= IF last.way = "delegated" THEN SessionLife + 2 * OAuthLife ELSE SessionLife

\* _operational_principal, extract_access_token, require_csrf: a request that
\* carries the cookie is served as the cookie's user, and changes something
\* only with its CSRF token, whatever else it carries.
CookieDecides ==
  last.cookie # "none" => last.as = last.cookie /\ ~last.forged

\* verify_access_token, _operational_principal: whoever is served is the
\* cookie's user if there is a cookie, and not later after being disabled than
\* the tokens live.
ServedAsEntitled == DisabledSoonOut /\ CookieDecides
=============================================================================
