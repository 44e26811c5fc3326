----------------------------- MODULE OwnerAuth -----------------------------
(***************************************************************************)
(* The owner's login and the authorization-code flow: server.py's endpoints *)
(* under /terminal, /notifications, /authorize, /token and /chat/token, on  *)
(* totp.py, totp_store.py, oauth_store.py and auth.py.                     *)
(*                                                                         *)
(* The handlers call their stores without suspending, so each is one step. *)
(* Time is counted in units of the configuration's choice; what happens    *)
(* between two ticks happens at the same time.  A one-time code is right or *)
(* wrong (pyotp), a verifier fits its challenge or does not (pkce.py).     *)
(***************************************************************************)
EXTENDS Naturals, Sequences, FiniteSets

CONSTANTS
    Browsers,       \* with a cookie jar each
    Addresses,      \* what get_client_ip may return
    Clients,        \* OAuth clients that may register
    MaxAttempts, Window,                    \* of the RateLimiter
    SessionTTL, CodeTTL, TokenTTL, ChatTTL, \* lifetimes
    MaxTime,        \* bound on the clock
    MaxSecrets, MaxSessions, MaxCodes, MaxTokens    \* bounds

ASSUME AuthAssumption ==
    /\ \A n \in {MaxAttempts, Window, SessionTTL, CodeTTL, TokenTTL, ChatTTL} : n \in Nat \ {0}
    /\ \A n \in {MaxTime, MaxSecrets, MaxSessions, MaxCodes, MaxTokens} : n \in Nat

Jars == {"terminal", "notifications", "authorize"}
Scopes == {"mcp", "chat"}
Places == {"tools", "sockets"}

VARIABLES
    now,
    secret,         \* the owner's secret, by its number; 0 before enrollment
    sessions,       \* totp_sessions: when they expire, and whether they are still there
    cookie,         \* the session of each cookie of each browser, 0 for none
    page,           \* the consent page a browser shows: its request and the session it is bound to
    attempts,       \* RateLimiter._attempts
    clients,        \* oauth_clients
    codes,          \* authorization_codes
    tokens,         \* the tokens signed; code 0 is /chat/token
    served,         \* history: which tokens opened what
    checks,         \* history: when one-time codes were checked, since the start
    refusals        \* history: refused attempts that found the window not full

login == <<secret, sessions, cookie>>
limiter == <<attempts, checks, refusals>>
flow == <<page, clients, codes>>
vars == <<now, login, limiter, flow, tokens, served>>

Requests == [client : Clients, scope : Scopes]
NoPage == [session |-> 0]

Sessions == [expires : Nat, live : BOOLEAN]
Codes == [client : Clients, scope : Scopes, expires : Nat, used : BOOLEAN, session : Nat \ {0}]
Tokens == [client : Clients \union {"web-chat"}, scope : Scopes, code : Nat, expires : Nat]

TypeOK ==
    /\ now \in 0..MaxTime
    /\ secret \in 0..MaxSecrets
    /\ sessions \in Seq(Sessions) /\ Len(sessions) <= MaxSessions
    /\ cookie \in [Browsers -> [Jars -> 0..Len(sessions)]]
    /\ page \in [Browsers -> {NoPage} \union [session : 1..Len(sessions), request : Requests]]
    /\ attempts \in [Addresses -> Seq(0..now)]
    /\ clients \subseteq Clients
    /\ codes \in Seq(Codes) /\ Len(codes) <= MaxCodes
    /\ tokens \in Seq(Tokens) /\ Len(tokens) <= MaxTokens
    /\ served \subseteq (1..Len(tokens)) \X Places
    /\ checks \in [Addresses -> Seq(0..now)]
    /\ refusals \in Nat

Init ==
    /\ now = 0 /\ secret = 0 /\ sessions = <<>>
    /\ cookie = [b \in Browsers |-> [j \in Jars |-> 0]]
    /\ page = [b \in Browsers |-> NoPage]
    /\ attempts = [a \in Addresses |-> <<>>]
    /\ clients = {} /\ codes = <<>> /\ tokens = <<>>
    /\ served = {} /\ checks = [a \in Addresses |-> <<>>] /\ refusals = 0

-----------------------------------------------------------------------------
(* The rate limiter.                                                       *)

\* The times that are not older than the window.  A clock that does not go back has left them
\* in order, so that what the code filters out is what is before the first of them.
Recent(S) ==
    LET first == CHOOSE k \in 1..(Len(S) + 1) :
                     \A i \in 1..Len(S) : S[i] + Window > now <=> i >= k
    IN SubSeq(S, first, Len(S))

\* Mutant: one attempt too many.
IsAllowedOneMore(a) == Len(Recent(attempts[a])) <= MaxAttempts

IsAllowed(a) == Len(Recent(attempts[a])) < MaxAttempts

\* An attempt that is let through is recorded.
Check(a) ==
    /\ IsAllowed(a)
    /\ attempts' = [attempts EXCEPT ![a] = Append(Recent(@), now)]
    /\ checks' = [checks EXCEPT ![a] = Append(@, now)]
    /\ UNCHANGED refusals

TurnAway(a) == [attempts EXCEPT ![a] = Recent(@)]

\* An attempt over the limit only has old ones forgotten.
Refuse(a) ==
    /\ ~IsAllowed(a)
    /\ attempts' = TurnAway(a)
    /\ refusals' = IF Len(Recent(checks[a])) < MaxAttempts THEN refusals + 1 ELSE refusals
    /\ UNCHANGED checks

-----------------------------------------------------------------------------
(* Sessions of the owner.                                                  *)

\* verify_session of what a browser has in a jar.
SessionOf(b, j) ==
    LET s == cookie[b][j] IN
    IF s \in DOMAIN sessions /\ sessions[s].live /\ sessions[s].expires > now THEN s ELSE 0

\* create_session, and set_cookie.
NewSession(b, j) ==
    /\ Len(sessions) < MaxSessions
    /\ sessions' = Append(sessions, [expires |-> now + SessionTTL, live |-> TRUE])
    /\ cookie' = [cookie EXCEPT ![b][j] = Len(sessions) + 1]

\* The POST handlers of /terminal/verify, /notifications/verify and /authorize/verify.
Verify(b, j, a) ==
    /\ \/ Refuse(a) /\ UNCHANGED login
       \/ Check(a) /\ UNCHANGED login           \* not enrolled, or the wrong code
       \/ Check(a) /\ secret # 0 /\ NewSession(b, j) /\ UNCHANGED secret
    /\ UNCHANGED <<now, flow, tokens, served>>

\* The first enrollment is open, a later one is for a terminal session.
EnrollmentAllowed(b) == secret = 0 \/ SessionOf(b, "terminal") # 0

\* The POST handler of /terminal/setup: the code is checked against the secret that comes with
\* it, which then replaces the owner's.
Setup(b, a) ==
    /\ EnrollmentAllowed(b)
    /\ \/ Refuse(a) /\ UNCHANGED login
       \/ Check(a) /\ UNCHANGED login
       \/ /\ Check(a)
          /\ secret < MaxSecrets /\ secret' = secret + 1
          /\ NewSession(b, "terminal")
    /\ UNCHANGED <<now, flow, tokens, served>>

\* The logout handlers delete the session, expired or not, and the cookie.
Logout(b, j) ==
    /\ cookie[b][j] # 0
    /\ sessions' = [sessions EXCEPT ![cookie[b][j]].live = FALSE]
    /\ cookie' = [cookie EXCEPT ![b][j] = 0]
    /\ UNCHANGED <<now, secret, limiter, flow, tokens, served>>

-----------------------------------------------------------------------------
(* Authorization codes.                                                    *)

Register(c) ==
    /\ clients' = clients \union {c}
    /\ UNCHANGED <<now, login, limiter, page, codes, tokens, served>>

\* GET /authorize shows a browser with an owner's session the consent page, whose form is
\* bound to the session.
Authorize(b, request) ==
    LET s == SessionOf(b, "authorize") IN
    /\ request.client \in clients /\ secret # 0 /\ s # 0
    /\ page' = [page EXCEPT ![b] = [session |-> s, request |-> request]]
    /\ UNCHANGED <<now, login, limiter, clients, codes, tokens, served>>

\* Mutant: the form is taken from whatever session shows it.
FormIsOwnersAny(b) == page[b].session # 0

\* The browser has a session, and the form is that session's.
FormIsOwners(b) == page[b].session # 0 /\ SessionOf(b, "authorize") = page[b].session

NewCode(r, s) ==
    [client |-> r.client, scope |-> r.scope, expires |-> now + CodeTTL, used |-> FALSE,
     session |-> s]

\* POST /authorize/consent, approved; the form may be sent again.
Consent(b) ==
    /\ page[b] # NoPage /\ FormIsOwners(b)
    /\ Len(codes) < MaxCodes
    /\ codes' = Append(codes, NewCode(page[b].request, page[b].session))
    /\ UNCHANGED <<now, login, limiter, page, clients, tokens, served>>

\* Mutant: a code is looked up and marked, not marked if unused.
UsableAgain(k) == codes[k].expires > now

Usable(k) == ~codes[k].used /\ codes[k].expires > now

\* Mutant: the client is not compared.
MatchesAnyone(k, c) == TRUE

Matches(k, c) == codes[k].client = c

Expiry(ttl) == now + ttl

\* POST /token by client c, whose secret is right.  The code is used up before the client, the
\* redirect and the verifier are compared, and if they fail, or the answer is lost, it stays so.
Exchange(c, k) ==
    /\ c \in clients
    /\ Usable(k)
    /\ codes' = [codes EXCEPT ![k].used = TRUE]
    /\ \/ UNCHANGED tokens
       \/ /\ Matches(k, c)
          /\ Len(tokens) < MaxTokens
          /\ tokens' = Append(tokens, [client |-> c, scope |-> codes[k].scope, code |-> k,
                                       expires |-> Expiry(TokenTTL)])
    /\ UNCHANGED <<now, login, limiter, page, clients, served>>

-----------------------------------------------------------------------------
(* Tokens.                                                                 *)

\* GET /chat/token, for the handshake of a chat page.
ChatToken ==
    /\ Len(tokens) < MaxTokens
    /\ tokens' = Append(tokens, [client |-> "web-chat", scope |-> "chat", code |-> 0,
                                 expires |-> Expiry(ChatTTL)])
    /\ UNCHANGED <<now, login, limiter, flow, served>>

\* Mutant: the tools take what the sockets take.
AdmitsBoth(place) == Scopes

\* allowed_scopes: the tools take the full scope, the chat sockets both.
Admits(place) == IF place = "tools" THEN {"mcp"} ELSE Scopes

\* verify_token, by the middleware and the dependency of the tools, or by a socket.
Use(i, place) ==
    /\ tokens[i].expires > now
    /\ tokens[i].scope \in Admits(place)
    /\ served' = served \union {<<i, place>>}
    /\ UNCHANGED <<now, login, limiter, flow, tokens>>

-----------------------------------------------------------------------------
Tick ==
    /\ now < MaxTime /\ now' = now + 1
    /\ UNCHANGED <<login, limiter, flow, tokens, served>>

\* The limiter is in memory; everything else is in the database or the browser.
Restart ==
    /\ attempts' = [a \in Addresses |-> <<>>] /\ checks' = [a \in Addresses |-> <<>>]
    /\ UNCHANGED <<now, login, refusals, flow, tokens, served>>

Next ==
    \/ \E b \in Browsers, a \in Addresses : Setup(b, a) \/ (\E j \in Jars : Verify(b, j, a))
    \/ \E b \in Browsers : Consent(b) \/ (\E j \in Jars \ {"authorize"} : Logout(b, j))
    \/ \E b \in Browsers, r \in Requests : Authorize(b, r)
    \/ \E c \in Clients : Register(c)
    \/ \E c \in Clients, k \in DOMAIN codes : Exchange(c, k)
    \/ ChatToken
    \/ \E i \in DOMAIN tokens, place \in Places : Use(i, place)
    \/ Tick \/ Restart

Spec == Init /\ [][Next]_vars

-----------------------------------------------------------------------------
(* Properties.                                                             *)

\* A code is good for one token, however often and by whomever it is presented.
OneTokenPerCode ==
    \A i, j \in DOMAIN tokens :
        tokens[i].code # 0 /\ tokens[i].code = tokens[j].code => i = j

\* A token that opens the tools was given to the client, in the scope and within the time
\* that the owner approved, in a session the owner had logged in for.
ToolsAreApproved ==
    \A u \in served : u[2] = "tools" =>
        LET t == tokens[u[1]] IN
        /\ t.code \in DOMAIN codes
        /\ LET c == codes[t.code] IN
           /\ t.client = c.client /\ t.scope = c.scope /\ c.used
           /\ t.expires < c.expires + TokenTTL
           /\ c.expires - CodeTTL < sessions[c.session].expires

\* However attempts are timed, no more than MaxAttempts of an address are checked in any
\* window, between two restarts; and one is refused only when so many were checked in the
\* window before it, for refused attempts do not prolong the wait (RateLimiter).
ChecksAreLimited ==
    /\ \A a \in Addresses : \A i \in 1..Len(checks[a]) :
           i + MaxAttempts <= Len(checks[a]) =>
               checks[a][i] + Window <= checks[a][i + MaxAttempts]
    /\ refusals = 0
=============================================================================
