---------------------------- MODULE HttpSession ----------------------------
\* Who a request is served for: interfaces/http/auth.py and the launch from the
\* ERP. The ERP gives a user a launch token; the service looks it up and signs a
\* session that the page sends with every request. A session is kept nowhere:
\* it is good while its signature matches the secret of the process and its
\* time has not run out. Unless RECON_SESSION_SECRET is set, the secret is drawn
\* when the process starts. A request without a session may carry a token of the
\* ERP instead, which nobody verifies.
EXTENDS Naturals, FiniteSets

CONSTANTS Users,             \* users of the ERP
          Ttl,               \* how long a session is good for
          Settings,          \* what the process may be configured with
          MaxClock,          \* bound: the last moment that is looked at
          MaxRestarts        \* bound: how often the process starts anew

VARIABLES config,   \* whether RECON_REQUIRE_ERP_TOKEN and RECON_SESSION_SECRET are set
          clock,    \* time.time()
          secret,   \* number of the key in use
          leftAt,   \* when the ERP shut a user out (f_isactived), or Never
          session   \* what the page sends as X-Recon-Session

\* auth.py refuses to sign when sessions are required and no secret is set; the
\* settings for demonstration and development are left out.
ASSUME DeploymentAssumption ==
  /\ Settings \subseteq [require_token : BOOLEAN, secret_configured : BOOLEAN]
  /\ \A c \in Settings : c.require_token => c.secret_configured
  /\ Ttl \in Nat /\ MaxClock \in Nat

sessionVars == <<config, clock, secret, leftAt, session>>

NoSession == [user |-> "none", exp |-> 0, key |-> 0]

\* What a request may carry: the session of the page, or none and a token in
\* X-ERP-Token or Authorization, or neither.
Headers == {[session |-> session, token |-> FALSE]}
             \cup {[session |-> NoSession, token |-> t] : t \in BOOLEAN}

\* A request without a session says itself whose it is.
Claimed == "as X-ERP-User-Email says"
Refused == [auth_source |-> "refused", user |-> "none"]

Never == MaxClock + 1

InitSession ==
  /\ config \in Settings
  /\ clock = 0 /\ secret = 0
  /\ leftAt = [u \in Users |-> Never] /\ session = NoSession

CreateSession(user) == [user |-> user, exp |-> clock + Ttl, key |-> secret]

\* The ERP knows the launch token, or the password, of an active user only.
ErpVouches(user) == leftAt[user] = Never

Launch(user) ==
  /\ ErpVouches(user)
  /\ session' = CreateSession(user)
  /\ UNCHANGED <<config, clock, secret, leftAt>>

\* Mutant: a session is never too old.
SignatureHolds(s) == s.key = secret

SessionHolds(s) == s.key = secret /\ ~ s.exp < clock

\* The context that a request with these headers is served in, or Refused
\* (AuthenticationError).
RequestContext(h) ==
  CASE h.session # NoSession /\ SessionHolds(h.session) ->
         [auth_source |-> "recon_session", user |-> h.session.user]
    [] h.session # NoSession /\ ~ SessionHolds(h.session) -> Refused
    [] h.session = NoSession /\ h.token -> [auth_source |-> "erp_token", user |-> Claimed]
    [] OTHER -> IF config.require_token THEN Refused
                ELSE [auth_source |-> "anonymous", user |-> Claimed]

Tick == clock < MaxClock /\ clock' = clock + 1 /\ UNCHANGED <<config, secret, leftAt, session>>

\* The ERP shuts a user out; the sessions that exist are not looked up again.
Deactivate(user) ==
  /\ leftAt[user] = Never
  /\ leftAt' = [leftAt EXCEPT ![user] = clock]
  /\ UNCHANGED <<config, clock, secret, session>>

NewSecret == IF config.secret_configured THEN secret ELSE secret + 1
=============================================================================
