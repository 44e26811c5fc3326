-------------------------- MODULE OwnerAuth_proofs --------------------------
(***************************************************************************)
(* Proofs about OwnerAuth, for any browsers, clients and lifetimes: a code *)
(* gives one token, and a token that opens the tools is one the owner      *)
(* approved; and no window of time has more than its share of checks.      *)
(***************************************************************************)
EXTENDS OwnerAuth, WellFoundedInduction, TLAPS

\* The types of what the flow of a code touches.
FlowTypes ==
    /\ now \in Nat
    /\ sessions \in Seq(Sessions)
    /\ page \in [Browsers -> {NoPage} \union [session : 1..Len(sessions), request : Requests]]
    /\ codes \in Seq(Codes)
    /\ tokens \in Seq(Tokens)
    /\ served \subseteq (1..Len(tokens)) \X Places

\* A code was asked for in a session that had not run out.
CodesApproved ==
    \A k \in 1..Len(codes) :
        /\ codes[k].session \in 1..Len(sessions)
        /\ codes[k].expires < sessions[codes[k].session].expires + CodeTTL

\* A token has a code that was used up for it, in time; or it is for the sockets only.
TokensBacked ==
    \A i \in 1..Len(tokens) :
        LET t == tokens[i] IN
        \/ t.code = 0 /\ t.scope = "chat"
        \/ /\ t.code \in 1..Len(codes)
           /\ codes[t.code].used
           /\ t.client = codes[t.code].client /\ t.scope = codes[t.code].scope
           /\ t.expires < codes[t.code].expires + TokenTTL

\* What was shown to the tools has the full scope.
ServedAdmitted == \A u \in served : u[2] = "tools" => tokens[u[1]].scope = "mcp"

OneToken ==
    \A i, j \in 1..Len(tokens) : tokens[i].code # 0 /\ tokens[i].code = tokens[j].code => i = j

Inv == FlowTypes /\ CodesApproved /\ TokensBacked /\ ServedAdmitted /\ OneToken

LEMMA Lifetimes == /\ SessionTTL \in Nat \ {0} /\ CodeTTL \in Nat \ {0}
                   /\ TokenTTL \in Nat \ {0} /\ ChatTTL \in Nat \ {0}
BY AuthAssumption

\* What the elements of the sequences are.
LEMMA SessionTypes ==
    ASSUME FlowTypes, NEW s \in 1..Len(sessions)
    PROVE  sessions[s] \in Sessions /\ sessions[s].expires \in Nat
<1>1. sessions[s] \in Sessions
  BY DEF FlowTypes
<1> QED BY <1>1 DEF Sessions

LEMMA CodeTypes ==
    ASSUME FlowTypes, NEW k \in 1..Len(codes)
    PROVE  codes[k] \in Codes /\ codes[k].expires \in Nat
<1>1. codes[k] \in Codes
  BY DEF FlowTypes
<1> QED BY <1>1 DEF Codes

-----------------------------------------------------------------------------
LEMMA InitInv == Init => Inv
BY DEF Init, Inv, FlowTypes, CodesApproved, TokensBacked, ServedAdmitted, OneToken

\* Sessions are added and deleted, but the time one runs out is never moved.
SessionsKept ==
    /\ sessions' \in Seq(Sessions)
    /\ Len(sessions) <= Len(sessions')
    /\ \A s \in 1..Len(sessions) : sessions'[s].expires = sessions[s].expires

\* Whatever the owner's logins do, the flow stays as it was.
LEMMA LoginKeeps ==
    ASSUME Inv, SessionsKept, now' \in Nat, UNCHANGED <<page, codes, tokens, served>>
    PROVE  Inv'
<1>1. FlowTypes'
  BY DEF Inv, FlowTypes, SessionsKept, Sessions
<1>2. CodesApproved'
  <2>1. ASSUME NEW k \in 1..Len(codes)
        PROVE  /\ codes[k].session \in 1..Len(sessions')
               /\ codes[k].expires < sessions'[codes[k].session].expires + CodeTTL
    <3>1. /\ codes[k].session \in 1..Len(sessions)
          /\ codes[k].expires < sessions[codes[k].session].expires + CodeTTL
      BY DEF Inv, CodesApproved
    <3>2. Len(sessions) \in Nat /\ Len(sessions') \in Nat /\ Len(sessions) <= Len(sessions')
      BY DEF Inv, FlowTypes, SessionsKept
    <3>3. sessions'[codes[k].session].expires = sessions[codes[k].session].expires
      BY <3>1 DEF SessionsKept
    <3> QED BY <3>1, <3>2, <3>3
  <2> QED BY <2>1 DEF CodesApproved
<1>3. TokensBacked' /\ ServedAdmitted' /\ OneToken'
  BY DEF Inv, TokensBacked, ServedAdmitted, OneToken
<1> QED BY <1>1, <1>2, <1>3 DEF Inv

LEMMA NewSessionKeeps ==
    ASSUME Inv, NEW b \in Browsers, NEW j \in Jars, NewSession(b, j)
    PROVE  SessionsKept
<1>1. [expires |-> now + SessionTTL, live |-> TRUE] \in Sessions
  BY Lifetimes DEF Inv, FlowTypes, Sessions
<1>2. sessions \in Seq(Sessions) /\ sessions' = Append(sessions, [expires |-> now + SessionTTL, live |-> TRUE])
  BY DEF Inv, FlowTypes, NewSession
<1> QED BY <1>1, <1>2 DEF SessionsKept

LEMMA SessionsStay ==
    ASSUME Inv, UNCHANGED sessions
    PROVE  SessionsKept
BY DEF Inv, FlowTypes, SessionsKept

LEMMA VerifyKeeps ==
    ASSUME Inv, NEW b \in Browsers, NEW j \in Jars, NEW a \in Addresses, Verify(b, j, a)
    PROVE  Inv'
<1>1. SessionsKept
  BY NewSessionKeeps, SessionsStay DEF Verify, login
<1>2. now' \in Nat /\ UNCHANGED <<page, codes, tokens, served>>
  BY DEF Verify, flow, Inv, FlowTypes
<1> QED BY <1>1, <1>2, LoginKeeps

LEMMA SetupKeeps ==
    ASSUME Inv, NEW b \in Browsers, NEW a \in Addresses, Setup(b, a)
    PROVE  Inv'
<1>1. SessionsKept
  BY NewSessionKeeps, SessionsStay DEF Setup, login, Jars
<1>2. now' \in Nat /\ UNCHANGED <<page, codes, tokens, served>>
  BY DEF Setup, flow, Inv, FlowTypes
<1> QED BY <1>1, <1>2, LoginKeeps

LEMMA LogoutKeeps ==
    ASSUME Inv, NEW b \in Browsers, NEW j \in Jars, Logout(b, j)
    PROVE  Inv'
<1>1. SessionsKept
  <2> DEFINE x == cookie[b][j]
  <2>1. sessions' = [sessions EXCEPT ![x].live = FALSE] /\ sessions \in Seq(Sessions)
    BY DEF Logout, Inv, FlowTypes
  <2> HIDE DEF x
  <2>2. CASE x \notin 1..Len(sessions)
    <3>1. DOMAIN sessions = 1..Len(sessions) /\ Len(sessions) \in Nat
      BY <2>1
    <3>2. /\ DOMAIN sessions' = 1..Len(sessions)
          /\ \A i \in 1..Len(sessions) : sessions'[i] = sessions[i]
      BY <2>1, <2>2, <3>1
    <3>3. \A i \in 1..Len(sessions) : sessions'[i] \in Sessions
      BY <3>2, SessionTypes DEF Inv
    <3>4. sessions' \in [1..Len(sessions) -> Sessions]
      BY <2>1, <3>1, <3>2, <3>3
    <3> QED BY <3>1, <3>2, <3>4 DEF SessionsKept
  <2>3. CASE x \in 1..Len(sessions)
    <3>1. sessions[x] \in Sessions
      BY <2>3, SessionTypes DEF Inv
    <3>2. /\ [sessions[x] EXCEPT !.live = FALSE] \in Sessions
          /\ [sessions[x] EXCEPT !.live = FALSE].expires = sessions[x].expires
      BY <3>1 DEF Sessions
    <3>3. sessions' = [sessions EXCEPT ![x] = [sessions[x] EXCEPT !.live = FALSE]]
      BY <2>1
    <3> QED BY <2>1, <2>3, <3>2, <3>3 DEF SessionsKept
  <2> QED BY <2>2, <2>3
<1>2. now' \in Nat /\ UNCHANGED <<page, codes, tokens, served>>
  BY DEF Logout, flow, Inv, FlowTypes
<1> QED BY <1>1, <1>2, LoginKeeps

-----------------------------------------------------------------------------
\* A page is bound to a session that is there.
LEMMA AuthorizeKeeps ==
    ASSUME Inv, NEW b \in Browsers, NEW r \in Requests, Authorize(b, r)
    PROVE  Inv'
<1>1. /\ SessionOf(b, "authorize") \in 1..Len(sessions)
      /\ page' = [page EXCEPT ![b] = [session |-> SessionOf(b, "authorize"), request |-> r]]
      /\ UNCHANGED <<now, sessions, codes, tokens, served>>
  BY DEF Authorize, SessionOf, login, Inv, FlowTypes
<1>2. FlowTypes'
  BY <1>1 DEF Inv, FlowTypes
<1>3. CodesApproved' /\ TokensBacked' /\ ServedAdmitted' /\ OneToken'
  BY <1>1 DEF Inv, CodesApproved, TokensBacked, ServedAdmitted, OneToken
<1> QED BY <1>2, <1>3 DEF Inv

\* A new code is of the request and the session of its page.
LEMMA ConsentKeeps ==
    ASSUME Inv, NEW b \in Browsers, Consent(b)
    PROVE  Inv'
<1> DEFINE s == page[b].session
           c == NewCode(page[b].request, s)
<1>1. /\ codes' = Append(codes, c)
      /\ UNCHANGED <<now, sessions, page, tokens, served>>
  BY DEF Consent, login
<1>2. s # 0 /\ SessionOf(b, "authorize") = s
  BY DEF Consent, FormIsOwners
<1>3. s \in 1..Len(sessions) /\ sessions[s].expires > now
  BY <1>2 DEF SessionOf, Inv, FlowTypes
<1>4. page[b].request \in Requests
  BY <1>2 DEF Inv, FlowTypes, NoPage
<1>5. c \in Codes /\ c.session = s /\ c.expires = now + CodeTTL
  BY <1>3, <1>4, Lifetimes DEF NewCode, Codes, Requests, Inv, FlowTypes
<1> HIDE DEF c
<1>6. FlowTypes'
  BY <1>1, <1>5 DEF Inv, FlowTypes
<1>7. /\ Len(codes') = Len(codes) + 1 /\ codes'[Len(codes) + 1] = c
      /\ \A k \in 1..Len(codes) : codes'[k] = codes[k]
      /\ Len(codes) \in Nat
  BY <1>1, <1>5 DEF Inv, FlowTypes
<1>8. CodesApproved'
  <2>1. ASSUME NEW k \in 1..Len(codes')
        PROVE  /\ codes'[k].session \in 1..Len(sessions)
               /\ codes'[k].expires < sessions[codes'[k].session].expires + CodeTTL
    <3>1. CASE k \in 1..Len(codes)
      BY <1>7, <3>1 DEF Inv, CodesApproved
    <3>2. CASE k = Len(codes) + 1
      <4>1. sessions[s].expires \in Nat /\ now \in Nat
        BY <1>3, SessionTypes DEF Inv, FlowTypes
      <4> HIDE DEF s
      <4> QED BY <1>3, <1>5, <1>7, <3>2, <4>1, Lifetimes, SMTT(30)
    <3> QED BY <1>7, <3>1, <3>2
  <2> QED BY <1>1, <2>1 DEF CodesApproved
<1>9. TokensBacked' /\ ServedAdmitted' /\ OneToken'
  BY <1>1, <1>7 DEF Inv, TokensBacked, ServedAdmitted, OneToken
<1> QED BY <1>6, <1>8, <1>9 DEF Inv

-----------------------------------------------------------------------------
\* What becomes of the tokens when t is added.
LEMMA Added ==
    ASSUME Inv, NEW t \in Tokens, tokens' = Append(tokens, t)
    PROVE  /\ tokens' \in Seq(Tokens) /\ Len(tokens) \in Nat
           /\ Len(tokens') = Len(tokens) + 1 /\ tokens'[Len(tokens) + 1] = t
           /\ \A i \in 1..Len(tokens) : tokens'[i] = tokens[i]
BY DEF Inv, FlowTypes

LEMMA ServedStays ==
    ASSUME Inv, NEW t \in Tokens, tokens' = Append(tokens, t), UNCHANGED served
    PROVE  ServedAdmitted' /\ served' \subseteq (1..Len(tokens')) \X Places
<1>1. \A u \in served : u[1] \in 1..Len(tokens)
  BY DEF Inv, FlowTypes
<1>2. ServedAdmitted'
  BY <1>1, Added DEF Inv, ServedAdmitted
<1>3. 1..Len(tokens) \subseteq 1..Len(tokens')
  BY Added
<1> QED BY <1>2, <1>3 DEF Inv, FlowTypes

LEMMA ChatTokenKeeps ==
    ASSUME Inv, ChatToken
    PROVE  Inv'
<1> DEFINE t == [client |-> "web-chat", scope |-> "chat", code |-> 0, expires |-> Expiry(ChatTTL)]
<1>1. /\ tokens' = Append(tokens, t)
      /\ UNCHANGED <<now, sessions, page, codes, served>>
  BY DEF ChatToken, login, flow
<1>2. t \in Tokens /\ t.code = 0 /\ t.scope = "chat"
  BY Lifetimes DEF Tokens, Scopes, Expiry, Inv, FlowTypes
<1> HIDE DEF t
<1>3. FlowTypes' /\ ServedAdmitted'
  BY <1>1, <1>2, Added, ServedStays DEF Inv, FlowTypes
<1>4. CodesApproved'
  BY <1>1 DEF Inv, CodesApproved
<1>5. TokensBacked' /\ OneToken'
  BY <1>1, <1>2, Added DEF Inv, TokensBacked, OneToken
<1> QED BY <1>3, <1>4, <1>5 DEF Inv

\* Marking a code changes nothing else of it.
LEMMA Marked ==
    ASSUME Inv, NEW k \in 1..Len(codes), codes' = [codes EXCEPT ![k].used = TRUE]
    PROVE  /\ codes' \in Seq(Codes) /\ Len(codes') = Len(codes) /\ codes'[k].used
           /\ \A m \in 1..Len(codes) :
                  /\ codes[m].used => codes'[m].used
                  /\ codes'[m].client = codes[m].client /\ codes'[m].scope = codes[m].scope
                  /\ codes'[m].expires = codes[m].expires
                  /\ codes'[m].session = codes[m].session
<1>1. codes \in Seq(Codes)
  BY DEF Inv, FlowTypes
<1>2. codes[k] \in Codes /\ [codes[k] EXCEPT !.used = TRUE] \in Codes
  <2>1. codes[k] \in Codes
    BY CodeTypes DEF Inv
  <2> QED BY <2>1 DEF Codes
<1>3. codes' \in Seq(Codes) /\ Len(codes') = Len(codes)
  BY <1>1, <1>2
<1>4. ASSUME NEW m \in 1..Len(codes)
      PROVE  codes'[m] = IF m = k THEN [codes[k] EXCEPT !.used = TRUE] ELSE codes[m]
  BY <1>1
<1>5. \A m \in 1..Len(codes) : codes[m] \in Codes
  BY <1>1
<1> QED BY <1>2, <1>3, <1>4, <1>5 DEF Codes

\* A code that was not used has no token, so the new one is its first.
LEMMA ExchangeKeeps ==
    ASSUME Inv, NEW c \in Clients, NEW k \in DOMAIN codes, Exchange(c, k)
    PROVE  Inv'
<1>0. k \in 1..Len(codes) /\ codes[k] \in Codes /\ now \in Nat
  BY DEF Inv, FlowTypes
<1>1. /\ codes' = [codes EXCEPT ![k].used = TRUE]
      /\ ~codes[k].used /\ codes[k].expires > now
      /\ UNCHANGED <<now, sessions, page, served>>
  BY DEF Exchange, Usable, login
<1>2. /\ codes' \in Seq(Codes) /\ Len(codes') = Len(codes) /\ codes'[k].used
      /\ \A m \in 1..Len(codes) :
             /\ codes[m].used => codes'[m].used
             /\ codes'[m].client = codes[m].client /\ codes'[m].scope = codes[m].scope
             /\ codes'[m].expires = codes[m].expires
             /\ codes'[m].session = codes[m].session
  BY <1>0, <1>1, Marked
<1>3. CodesApproved'
  BY <1>1, <1>2 DEF Inv, CodesApproved
<1>4. CASE UNCHANGED tokens
  <2>1. FlowTypes' /\ ServedAdmitted' /\ OneToken'
    BY <1>1, <1>2, <1>4 DEF Inv, FlowTypes, ServedAdmitted, OneToken
  <2>2. TokensBacked'
    BY <1>2, <1>4 DEF Inv, TokensBacked
  <2> QED BY <1>3, <2>1, <2>2 DEF Inv
<1>5. CASE Matches(k, c) /\ tokens' = Append(tokens, [client |-> c, scope |-> codes[k].scope,
                                                     code |-> k, expires |-> Expiry(TokenTTL)])
  <2> DEFINE t == [client |-> c, scope |-> codes[k].scope, code |-> k, expires |-> Expiry(TokenTTL)]
  <2>1. /\ t \in Tokens /\ t.code = k /\ t.client = codes[k].client /\ t.scope = codes[k].scope
        /\ t.expires = now + TokenTTL
    BY <1>0, <1>5, Lifetimes DEF Tokens, Codes, Matches, Expiry
  <2>2. tokens' = Append(tokens, t)
    BY <1>5
  <2> HIDE DEF t
  <2>3. FlowTypes' /\ ServedAdmitted'
    BY <1>1, <1>2, <2>1, <2>2, Added, ServedStays DEF Inv, FlowTypes
  <2>4. /\ Len(tokens) \in Nat /\ Len(tokens') = Len(tokens) + 1 /\ tokens'[Len(tokens) + 1] = t
        /\ \A i \in 1..Len(tokens) : tokens'[i] = tokens[i]
    BY <2>1, <2>2, Added
  <2>5. \A i \in 1..Len(tokens) : tokens[i].code # k
    BY <1>0, <1>1 DEF Inv, TokensBacked
  <2>6. OneToken'
    BY <2>1, <2>4, <2>5 DEF Inv, OneToken
  <2>7. t.expires < codes'[k].expires + TokenTTL
    <3>1. codes[k].expires \in Nat /\ codes'[k].expires = codes[k].expires
      BY <1>0, <1>2, CodeTypes DEF Inv
    <3> QED BY <1>0, <1>1, <2>1, <3>1, Lifetimes
  <2>8. TokensBacked'
    <3>1. ASSUME NEW i \in 1..Len(tokens')
          PROVE  LET u == tokens'[i] IN
                 \/ u.code = 0 /\ u.scope = "chat"
                 \/ /\ u.code \in 1..Len(codes')
                    /\ codes'[u.code].used
                    /\ u.client = codes'[u.code].client /\ u.scope = codes'[u.code].scope
                    /\ u.expires < codes'[u.code].expires + TokenTTL
      <4>1. CASE i \in 1..Len(tokens)
        BY <1>2, <2>4, <4>1, SMTT(30) DEF Inv, TokensBacked
      <4>2. CASE i = Len(tokens) + 1
        BY <1>0, <1>2, <2>1, <2>4, <2>7, <4>2
      <4> QED BY <2>4, <4>1, <4>2
    <3> QED BY <3>1 DEF TokensBacked
  <2> QED BY <1>3, <2>3, <2>6, <2>8 DEF Inv
<1> QED BY <1>4, <1>5 DEF Exchange

LEMMA UseKeeps ==
    ASSUME Inv, NEW i \in DOMAIN tokens, NEW place \in Places, Use(i, place)
    PROVE  Inv'
<1>1. /\ served' = served \union {<<i, place>>} /\ tokens[i].scope \in Admits(place)
      /\ UNCHANGED <<now, sessions, page, codes, tokens>>
  BY DEF Use, login, flow
<1>2. i \in 1..Len(tokens)
  BY DEF Inv, FlowTypes
<1>3. FlowTypes' /\ CodesApproved' /\ TokensBacked' /\ OneToken'
  BY <1>1, <1>2 DEF Inv, FlowTypes, CodesApproved, TokensBacked, OneToken
<1>4. ServedAdmitted'
  BY <1>1 DEF Inv, ServedAdmitted, Admits
<1> QED BY <1>3, <1>4 DEF Inv

-----------------------------------------------------------------------------
LEMMA NextKeeps == Inv /\ [Next]_vars => Inv'
<1> SUFFICES ASSUME Inv, [Next]_vars PROVE Inv'
  OBVIOUS
<1>1. ASSUME NEW b \in Browsers, NEW a \in Addresses, Setup(b, a) PROVE Inv'
  BY <1>1, SetupKeeps
<1>2. ASSUME NEW b \in Browsers, NEW a \in Addresses, NEW j \in Jars, Verify(b, j, a) PROVE Inv'
  BY <1>2, VerifyKeeps
<1>3. ASSUME NEW b \in Browsers, NEW j \in Jars, Logout(b, j) PROVE Inv'
  BY <1>3, LogoutKeeps
<1>4. ASSUME NEW b \in Browsers, NEW r \in Requests, Authorize(b, r) PROVE Inv'
  BY <1>4, AuthorizeKeeps
<1>5. ASSUME NEW b \in Browsers, Consent(b) PROVE Inv'
  BY <1>5, ConsentKeeps
<1>6. ASSUME NEW c \in Clients, NEW k \in DOMAIN codes, Exchange(c, k) PROVE Inv'
  BY <1>6, ExchangeKeeps
<1>7. CASE ChatToken
  BY <1>7, ChatTokenKeeps
<1>8. ASSUME NEW i \in DOMAIN tokens, NEW place \in Places, Use(i, place) PROVE Inv'
  BY <1>8, UseKeeps
<1>9. ASSUME NEW c \in Clients, Register(c) PROVE Inv'
  <2>1. SessionsKept /\ now' \in Nat /\ UNCHANGED <<page, codes, tokens, served>>
    BY <1>9, SessionsStay DEF Register, login, Inv, FlowTypes
  <2> QED BY <2>1, LoginKeeps
<1>10. CASE Tick \/ Restart \/ UNCHANGED vars
  <2>1. SessionsKept /\ now' \in Nat /\ UNCHANGED <<page, codes, tokens, served>>
    BY <1>10, SessionsStay DEF Tick, Restart, vars, login, flow, Inv, FlowTypes
  <2> QED BY <2>1, LoginKeeps
<1> QED
  BY <1>1, <1>2, <1>3, <1>4, <1>5, <1>6, <1>7, <1>8, <1>9, <1>10 DEF Next

\* The inductive invariant holds in every state of every run of the handlers.
THEOREM AuthInvariant == Spec => []Inv
BY InitInv, NextKeeps, PTL DEF Spec

\* However often and by whomever a code is presented, it gives one token (OAuthStore.consume_code).
THEOREM CodesAreUsedOnce == Spec => []OneTokenPerCode
<1>1. Inv => OneTokenPerCode
  BY DEF Inv, FlowTypes, OneToken, OneTokenPerCode
<1> QED BY <1>1, AuthInvariant, PTL

\* A token that opens the tools was given to the client, in the scope and within the time that
\* the owner approved in a session of his (the consent form and the token endpoint).
THEOREM OnlyApprovedTokens == Spec => []ToolsAreApproved
<1>1. ASSUME Inv PROVE ToolsAreApproved
  <2> SUFFICES ASSUME NEW u \in served, u[2] = "tools"
               PROVE  LET t == tokens[u[1]] IN
                      /\ t.code \in DOMAIN codes
                      /\ LET c == codes[t.code] IN
                         /\ t.client = c.client /\ t.scope = c.scope /\ c.used
                         /\ t.expires < c.expires + TokenTTL
                         /\ c.expires - CodeTTL < sessions[c.session].expires
    BY DEF ToolsAreApproved
  <2>1. u[1] \in 1..Len(tokens) /\ tokens[u[1]].scope = "mcp"
    BY <1>1 DEF Inv, FlowTypes, ServedAdmitted
  <2> DEFINE t == tokens[u[1]]
             c == codes[t.code]
  <2>2. /\ t.code \in 1..Len(codes) /\ c.used
        /\ t.client = c.client /\ t.scope = c.scope /\ t.expires < c.expires + TokenTTL
    BY <1>1, <2>1 DEF Inv, TokensBacked
  <2>3. c \in Codes /\ c.session \in 1..Len(sessions)
        /\ c.expires < sessions[c.session].expires + CodeTTL
    BY <1>1, <2>2 DEF Inv, FlowTypes, CodesApproved
  <2>4. sessions[c.session].expires \in Nat /\ c.expires \in Nat
    BY <1>1, <2>2, <2>3, SessionTypes, CodeTypes DEF Inv
  <2>5. DOMAIN codes = 1..Len(codes)
    BY <1>1 DEF Inv, FlowTypes
  <2> HIDE DEF c
  <2>6. c.expires - CodeTTL < sessions[c.session].expires
    BY <2>3, <2>4, Lifetimes
  <2> QED BY <2>2, <2>5, <2>6 DEF c
<1> QED BY <1>1, AuthInvariant, PTL
-----------------------------------------------------------------------------
(* The limiter.  What it holds of an address is the end of the history of  *)
(* checks, and what it has let go of is too old to count.                  *)

LEMMA Limits == MaxAttempts \in Nat \ {0} /\ Window \in Nat \ {0}
BY AuthAssumption

\* Times in order, none of them to come.
Dated(S) ==
    /\ S \in Seq(Nat)
    /\ \A i \in 1..Len(S) : S[i] <= now
    /\ \A i, j \in 1..Len(S) : i <= j => S[i] <= S[j]

\* S is the times C without its first d, which are old.
EndOf(S, C, d) ==
    /\ S \in Seq(Nat) /\ Len(S) = Len(C) - d
    /\ \A i \in 1..Len(S) : S[i] = C[i + d]
    /\ \A i \in 1..d : C[i] + Window <= now

\* What was checked so many checks later is of a later window.
Spaced(C) ==
    \A i \in 1..Len(C) : i + MaxAttempts <= Len(C) => C[i] + Window <= C[i + MaxAttempts]

LimitInv ==
    /\ now \in Nat
    /\ attempts \in [Addresses -> Seq(Nat)] /\ checks \in [Addresses -> Seq(Nat)]
    /\ refusals = 0
    /\ \A a \in Addresses :
           /\ Dated(checks[a]) /\ Spaced(checks[a])
           /\ \E d \in 0..Len(checks[a]) : EndOf(attempts[a], checks[a], d)

\* A set of naturals has a least one.
LEMMA LeastNatural ==
    ASSUME NEW S \in SUBSET Nat, S # {}
    PROVE  \E m \in S : \A n \in S : m <= n
<1> DEFINE R == OpToRel(<, Nat)
<1>1. IsWellFoundedOn(R, Nat)
  BY NatLessThanWellFounded
<1>2. PICK m \in S : \A n \in S : ~(<<n, m>> \in R)
  <2> HIDE DEF R
  <2> QED BY <1>1, WFMin
<1>3. ASSUME NEW n \in S PROVE m <= n
  <2>1. n \in Nat /\ m \in Nat /\ <<n, m>> \notin R
    BY <1>2
  <2>2. n < m => <<n, m>> \in R
    BY <2>1 DEF OpToRel
  <2>3. ~(n < m)
    BY <2>1, <2>2
  <2> HIDE DEF R
  <2> QED BY <2>1, <2>3
<1> QED BY <1>3

\* Of times in order, those that count come last, so that Recent has them all and no other.
LEMMA RecentIsTheEnd ==
    ASSUME now \in Nat, NEW S, Dated(S)
    PROVE  \E k \in 0..Len(S) :
               /\ EndOf(Recent(S), S, k)
               /\ \A i \in (k + 1)..Len(S) : S[i] + Window > now
<1> DEFINE Counts(i) == S[i] + Window > now
           first == CHOOSE k \in 1..(Len(S) + 1) : \A i \in 1..Len(S) : Counts(i) <=> i >= k
           stay == {i \in 1..Len(S) : Counts(i)} \union {Len(S) + 1}
<1>1. Len(S) \in Nat /\ \A i \in 1..Len(S) : S[i] \in Nat
  BY DEF Dated
<1>2. stay \in SUBSET Nat /\ stay # {}
  BY <1>1
<1>3. PICK m \in stay : \A n \in stay : m <= n
  <2> HIDE DEF stay
  <2> QED BY <1>2, LeastNatural
<1>4. m \in 1..(Len(S) + 1)
  BY <1>1, <1>3
<1>5. ASSUME NEW i \in 1..Len(S) PROVE Counts(i) <=> i >= m
  <2>1. CASE Counts(i)
    <3>1. i \in stay
      BY <2>1
    <3> QED BY <1>3, <2>1, <3>1
  <2>2. CASE ~Counts(i) /\ i >= m
    <3>1. m \in 1..Len(S) /\ Counts(m)
      BY <1>1, <1>3, <1>4, <2>2
    <3>2. S[m] <= S[i] /\ S[m] \in Nat /\ S[i] \in Nat
      BY <1>1, <2>2, <3>1 DEF Dated
    <3> QED BY <2>2, <3>1, <3>2, Limits
  <2> QED BY <2>1, <2>2
<1>6. first \in 1..(Len(S) + 1) /\ \A i \in 1..Len(S) : Counts(i) <=> i >= first
  <2> HIDE DEF Counts
  <2> QED BY <1>4, <1>5
<1>7. Recent(S) = SubSeq(S, first, Len(S))
  BY DEF Recent
<1> HIDE DEF first
<1>8. /\ Recent(S) \in Seq(Nat) /\ Len(Recent(S)) = Len(S) - (first - 1)
      /\ \A i \in 1..Len(Recent(S)) : Recent(S)[i] = S[i + (first - 1)]
  <2>1. S \in Seq(Nat)
    BY DEF Dated
  <2> QED BY <1>1, <1>6, <1>7, <2>1
<1>9. \A i \in 1..(first - 1) : S[i] + Window <= now
  BY <1>1, <1>6, Limits
<1>10. EndOf(Recent(S), S, first - 1)
  BY <1>8, <1>9 DEF EndOf
<1>11. first - 1 \in 0..Len(S) /\ \A i \in ((first - 1) + 1)..Len(S) : S[i] + Window > now
  BY <1>1, <1>6
<1> QED BY <1>10, <1>11

\* What counts of what the limiter holds is what counts of the checks there have been.
LEMMA RecentOfChecks ==
    ASSUME LimitInv, NEW a \in Addresses
    PROVE  \E d \in 0..Len(checks[a]) :
               /\ EndOf(Recent(attempts[a]), checks[a], d)
               /\ Len(Recent(checks[a])) = Len(checks[a]) - d
<1> DEFINE C == checks[a]
           S == attempts[a]
<1>1. /\ now \in Nat /\ Dated(C) /\ S \in Seq(Nat)
      /\ Len(C) \in Nat /\ Len(S) \in Nat
  BY DEF LimitInv, Dated
<1>2. PICK d \in 0..Len(C) : EndOf(S, C, d)
  BY DEF LimitInv
<1> HIDE DEF C, S
<1>3. Dated(S)
  <2>1. /\ \A i \in 1..Len(S) : i + d \in 1..Len(C) /\ S[i] = C[i + d]
    BY <1>1, <1>2 DEF EndOf
  <2>2. \A i \in 1..Len(S) : S[i] <= now
    BY <1>1, <2>1 DEF Dated
  <2>3. \A i, j \in 1..Len(S) : i <= j => S[i] <= S[j]
    <3> SUFFICES ASSUME NEW i \in 1..Len(S), NEW j \in 1..Len(S), i <= j PROVE S[i] <= S[j]
      OBVIOUS
    <3>1. i + d \in 1..Len(C) /\ j + d \in 1..Len(C) /\ i + d <= j + d
      BY <1>1, <1>2, <2>1
    <3>2. C[i + d] <= C[j + d]
      BY <3>1, <1>1 DEF Dated
    <3> QED BY <2>1, <3>2
  <2> QED BY <1>1, <2>2, <2>3 DEF Dated
<1>4. PICK k \in 0..Len(S) : /\ EndOf(Recent(S), S, k)
                             /\ \A i \in (k + 1)..Len(S) : S[i] + Window > now
  BY <1>1, <1>3, RecentIsTheEnd
<1>5. PICK e \in 0..Len(C) : /\ EndOf(Recent(C), C, e)
                             /\ \A i \in (e + 1)..Len(C) : C[i] + Window > now
  BY <1>1, RecentIsTheEnd
<1>6. Len(S) = Len(C) - d /\ d + k \in 0..Len(C)
  BY <1>1, <1>2 DEF EndOf
<1>7. EndOf(Recent(S), C, d + k)
  <2>1. /\ Recent(S) \in Seq(Nat) /\ Len(Recent(S)) = Len(C) - (d + k)
        /\ \A i \in 1..Len(Recent(S)) : Recent(S)[i] = S[i + k]
    BY <1>1, <1>2, <1>4, <1>6 DEF EndOf
  <2>2. ASSUME NEW i \in 1..Len(Recent(S)) PROVE Recent(S)[i] = C[i + (d + k)]
    <3>1. i + k \in 1..Len(S) /\ (i + k) + d = i + (d + k)
      BY <1>1, <1>2, <1>4, <1>6, <2>1
    <3> QED BY <1>2, <2>1, <3>1 DEF EndOf
  <2>3. ASSUME NEW i \in 1..(d + k) PROVE C[i] + Window <= now
    <3>1. CASE i <= d
      BY <1>2, <3>1 DEF EndOf
    <3>2. CASE i > d
      <4>1. i - d \in 1..k /\ i - d \in 1..Len(S) /\ (i - d) + d = i
        BY <1>1, <1>2, <1>4, <3>2
      <4>2. S[i - d] + Window <= now /\ S[i - d] = C[i]
        BY <1>2, <1>4, <4>1 DEF EndOf
      <4> QED BY <4>2
    <3> QED BY <1>2, <3>1, <3>2
  <2> QED BY <2>1, <2>2, <2>3 DEF EndOf
<1>8. ASSUME NEW i \in (d + k + 1)..Len(C) PROVE C[i] + Window > now
  <2>1. i - d \in (k + 1)..Len(S) /\ i - d \in 1..Len(S) /\ (i - d) + d = i
    BY <1>1, <1>2, <1>4, <1>6
  <2>2. S[i - d] + Window > now /\ S[i - d] = C[i]
    BY <1>2, <1>4, <2>1 DEF EndOf
  <2> QED BY <2>2
<1>9. d + k = e
  <2>1. CASE d + k < e
    <3>1. e \in 1..e /\ e \in (d + k + 1)..Len(C) /\ e \in 1..Len(C)
      BY <1>1, <1>2, <1>4, <1>5, <2>1
    <3>2. C[e] + Window > now /\ C[e] + Window <= now /\ C[e] \in Nat
      BY <1>1, <1>5, <1>8, <3>1 DEF EndOf, Dated
    <3> QED BY <1>1, <3>2, Limits
  <2>2. CASE d + k > e
    <3>1. d + k \in 1..(d + k) /\ d + k \in (e + 1)..Len(C) /\ d + k \in 1..Len(C)
      BY <1>1, <1>2, <1>4, <1>5, <1>6, <2>2
    <3>2. C[d + k] + Window > now
      BY <1>5, <3>1
    <3>3. C[d + k] + Window <= now
      BY <1>7, <3>1 DEF EndOf
    <3>4. C[d + k] \in Nat
      BY <1>1, <3>1 DEF Dated
    <3> QED BY <1>1, <3>2, <3>3, <3>4, Limits
  <2> QED BY <1>2, <1>4, <1>5, <2>1, <2>2
<1>10. Len(Recent(C)) = Len(C) - (d + k)
  BY <1>5, <1>9 DEF EndOf
<1> QED BY <1>6, <1>7, <1>10 DEF C, S

LEMMA LimitInit == Init => LimitInv
BY DEF Init, LimitInv, Dated, Spaced, EndOf

\* An attempt is let through only if few of the last checks count.
LEMMA CheckKeepsLimit ==
    ASSUME LimitInv, NEW a \in Addresses, Check(a), UNCHANGED now
    PROVE  LimitInv'
<1> DEFINE C == checks[a]
           R == Recent(attempts[a])
<1>1. /\ now \in Nat /\ C \in Seq(Nat) /\ Dated(C) /\ Spaced(C) /\ Len(C) \in Nat
      /\ \A i \in 1..Len(C) : C[i] \in Nat
  BY DEF LimitInv
<1>2. PICK d \in 0..Len(C) : EndOf(R, C, d)
  BY RecentOfChecks
<1>3. /\ Len(R) < MaxAttempts /\ refusals' = 0
      /\ attempts' = [attempts EXCEPT ![a] = Append(R, now)]
      /\ checks' = [checks EXCEPT ![a] = Append(C, now)]
  BY DEF Check, IsAllowed, LimitInv
<1> DEFINE D == Append(C, now)
           Q == Append(R, now)
<1> HIDE DEF C, R
<1>4. /\ D \in Seq(Nat) /\ Len(D) = Len(C) + 1 /\ D[Len(C) + 1] = now
      /\ \A i \in 1..Len(C) : D[i] = C[i]
  BY <1>1
<1>5. /\ Q \in Seq(Nat) /\ Len(Q) = Len(R) + 1 /\ Q[Len(R) + 1] = now
      /\ \A i \in 1..Len(R) : Q[i] = R[i]
      /\ Len(R) \in Nat /\ Len(R) = Len(C) - d
  BY <1>1, <1>2 DEF EndOf
<1> HIDE DEF D, Q
<1>6. Dated(D)
  <2>1. ASSUME NEW i \in 1..Len(D) PROVE D[i] <= now
    <3>1. CASE i \in 1..Len(C)
      BY <1>1, <1>4, <3>1 DEF Dated
    <3>2. CASE i = Len(C) + 1
      BY <1>1, <1>4, <3>2
    <3> QED BY <1>1, <1>4, <3>1, <3>2
  <2>2. ASSUME NEW i \in 1..Len(D), NEW j \in 1..Len(D), i <= j PROVE D[i] <= D[j]
    <3>1. CASE j \in 1..Len(C)
      <4>1. i \in 1..Len(C) /\ C[i] <= C[j]
        BY <1>1, <2>2, <3>1 DEF Dated
      <4> QED BY <1>4, <3>1, <4>1
    <3>2. CASE j = Len(C) + 1
      BY <1>4, <2>1, <3>2
    <3> QED BY <1>1, <1>4, <3>1, <3>2
  <2> QED BY <1>4, <2>1, <2>2 DEF Dated
<1>7. Spaced(D)
  <2> SUFFICES ASSUME NEW i \in 1..Len(D), i + MaxAttempts <= Len(D)
               PROVE  D[i] + Window <= D[i + MaxAttempts]
    BY DEF Spaced
  <2>1. i \in 1..Len(C)
    BY <1>1, <1>4, Limits
  <2>2. CASE i + MaxAttempts <= Len(C)
    <3>1. i + MaxAttempts \in 1..Len(C) /\ C[i] + Window <= C[i + MaxAttempts]
      BY <1>1, <2>1, <2>2, Limits DEF Spaced
    <3> QED BY <1>4, <2>1, <3>1
  <2>3. CASE i + MaxAttempts = Len(C) + 1
    <3>1. i \in 1..d
      BY <1>1, <1>3, <1>5, <2>1, <2>3, Limits
    <3>2. C[i] + Window <= now
      BY <1>2, <3>1 DEF EndOf
    <3> QED BY <1>4, <2>1, <2>3, <3>2
  <2>4. i + MaxAttempts <= Len(C) \/ i + MaxAttempts = Len(C) + 1
    <3>1. i \in Nat /\ MaxAttempts \in Nat /\ i + MaxAttempts <= Len(C) + 1 /\ Len(C) \in Nat
      BY <1>1, <1>4, <2>1, Limits
    <3> QED BY <3>1
  <2> QED BY <2>2, <2>3, <2>4
<1>8. EndOf(Q, D, d) /\ d \in 0..Len(D)
  <2>1. ASSUME NEW i \in 1..Len(Q) PROVE Q[i] = D[i + d]
    <3>1. CASE i \in 1..Len(R)
      <4>1. R[i] = C[i + d] /\ i + d \in 1..Len(C)
        BY <1>1, <1>2, <1>5, <3>1 DEF EndOf
      <4> QED BY <1>4, <1>5, <3>1, <4>1
    <3>2. CASE i = Len(R) + 1
      <4>1. i + d = Len(C) + 1
        BY <1>1, <1>5, <3>2
      <4> QED BY <1>4, <1>5, <3>2, <4>1
    <3> QED BY <1>5, <3>1, <3>2
  <2>2. ASSUME NEW i \in 1..d PROVE D[i] + Window <= now
    <3>1. i \in 1..Len(C) /\ C[i] + Window <= now
      BY <1>1, <1>2 DEF EndOf
    <3> QED BY <1>4, <3>1
  <2>3. Len(Q) = Len(D) - d /\ d \in 0..Len(D)
    BY <1>1, <1>4, <1>5
  <2> QED BY <1>5, <2>1, <2>2, <2>3 DEF EndOf
<1>9. attempts' \in [Addresses -> Seq(Nat)] /\ checks' \in [Addresses -> Seq(Nat)]
  BY <1>3, <1>4, <1>5 DEF LimitInv, D, Q
<1>10. ASSUME NEW b \in Addresses
       PROVE  /\ Dated(checks'[b]) /\ Spaced(checks'[b])
              /\ \E e \in 0..Len(checks'[b]) : EndOf(attempts'[b], checks'[b], e)
  <2>1. CASE b = a
    <3>1. checks'[b] = D /\ attempts'[b] = Q
      BY <1>3, <2>1 DEF LimitInv, D, Q
    <3> QED BY <1>6, <1>7, <1>8, <3>1
  <2>2. CASE b # a
    <3>1. checks'[b] = checks[b] /\ attempts'[b] = attempts[b]
      BY <1>3, <2>2 DEF LimitInv
    <3> QED BY <3>1 DEF LimitInv
  <2> QED BY <2>1, <2>2
<1>11. ASSUME NEW b \in Addresses
       PROVE  /\ Dated(checks[b])' /\ Spaced(checks[b])'
              /\ \E e \in 0..Len(checks'[b]) : EndOf(attempts[b], checks[b], e)'
  BY <1>10 DEF Dated, Spaced, EndOf
<1> QED BY <1>1, <1>3, <1>9, <1>11 DEF LimitInv

\* An attempt is turned away only if many of the checks count.
LEMMA RefuseKeepsLimit ==
    ASSUME LimitInv, NEW a \in Addresses, Refuse(a), UNCHANGED now
    PROVE  LimitInv'
<1> DEFINE C == checks[a]
           R == Recent(attempts[a])
<1>1. PICK d \in 0..Len(C) : EndOf(R, C, d) /\ Len(Recent(C)) = Len(C) - d
  BY RecentOfChecks
<1>2. /\ ~(Len(R) < MaxAttempts) /\ checks' = checks
      /\ attempts' = [attempts EXCEPT ![a] = R]
      /\ refusals' = IF Len(Recent(C)) < MaxAttempts THEN refusals + 1 ELSE refusals
  BY DEF Refuse, IsAllowed, TurnAway
<1>3. Len(R) = Len(Recent(C)) /\ R \in Seq(Nat)
  BY <1>1 DEF EndOf
<1>4. refusals' = 0
  BY <1>2, <1>3 DEF LimitInv
<1> HIDE DEF R
<1>5. ASSUME NEW b \in Addresses
      PROVE  \E e \in 0..Len(checks[b]) : EndOf(attempts'[b], checks[b], e)
  <2>1. CASE b = a
    <3>1. attempts'[b] = R
      BY <1>2, <2>1 DEF LimitInv
    <3> QED BY <1>1, <2>1, <3>1
  <2>2. CASE b # a
    <3>1. attempts'[b] = attempts[b]
      BY <1>2, <2>2 DEF LimitInv
    <3> QED BY <3>1 DEF LimitInv
  <2> QED BY <2>1, <2>2
<1>6. attempts' \in [Addresses -> Seq(Nat)]
  BY <1>2, <1>3 DEF LimitInv
<1>7. ASSUME NEW b \in Addresses
      PROVE  /\ Dated(checks[b])' /\ Spaced(checks[b])'
             /\ \E e \in 0..Len(checks'[b]) : EndOf(attempts[b], checks[b], e)'
  <2>1. Dated(checks[b]) /\ Spaced(checks[b]) /\ UNCHANGED <<now, checks>>
    BY <1>2 DEF LimitInv
  <2>2. Dated(checks[b])' /\ Spaced(checks[b])'
    BY <2>1 DEF Dated, Spaced
  <2>3. PICK e \in 0..Len(checks[b]) : EndOf(attempts'[b], checks[b], e)
    BY <1>5
  <2>4. EndOf(attempts[b], checks[b], e)'
    BY <2>1, <2>3 DEF EndOf
  <2> QED BY <2>1, <2>2, <2>3, <2>4
<1> QED BY <1>2, <1>4, <1>6, <1>7 DEF LimitInv

\* Time makes what is old older.
LEMMA TickKeepsLimit ==
    ASSUME LimitInv, Tick
    PROVE  LimitInv'
<1>1. now' = now + 1 /\ now \in Nat /\ UNCHANGED <<attempts, checks, refusals>>
  BY DEF Tick, limiter, LimitInv
<1>2. ASSUME NEW a \in Addresses
      PROVE  Dated(checks[a])' /\ \E d \in 0..Len(checks[a]) : EndOf(attempts[a], checks[a], d)'
  <2>1. checks[a] \in Seq(Nat) /\ Dated(checks[a]) /\ \A i \in 1..Len(checks[a]) : checks[a][i] \in Nat
    BY DEF LimitInv
  <2>2. Dated(checks[a])'
    BY <1>1, <2>1 DEF Dated
  <2>3. PICK d \in 0..Len(checks[a]) : EndOf(attempts[a], checks[a], d)
    BY DEF LimitInv
  <2>4. ASSUME NEW i \in 1..d PROVE checks[a][i] + Window <= now + 1
    <3>1. checks[a][i] + Window <= now /\ i \in 1..Len(checks[a])
      BY <2>1, <2>3 DEF EndOf
    <3>2. checks[a][i] \in Nat
      BY <2>1, <3>1
    <3> QED BY <1>1, <3>1, <3>2, Limits
  <2>5. EndOf(attempts[a], checks[a], d)'
    BY <1>1, <2>3, <2>4 DEF EndOf
  <2> QED BY <2>2, <2>5
<1> QED BY <1>1, <1>2 DEF LimitInv, Spaced

LEMMA RestartKeepsLimit ==
    ASSUME LimitInv, Restart
    PROVE  LimitInv'
BY DEF Restart, LimitInv, Dated, Spaced, EndOf

LEMMA OthersKeepLimit ==
    ASSUME LimitInv, UNCHANGED <<now, limiter>>
    PROVE  LimitInv'
BY DEF limiter, LimitInv, Dated, Spaced, EndOf

LEMMA NextKeepsLimit == LimitInv /\ [Next]_vars => LimitInv'
<1> SUFFICES ASSUME LimitInv, [Next]_vars PROVE LimitInv'
  OBVIOUS
<1>1. ASSUME NEW b \in Browsers, NEW a \in Addresses, Setup(b, a) PROVE LimitInv'
  BY <1>1, CheckKeepsLimit, RefuseKeepsLimit DEF Setup
<1>2. ASSUME NEW b \in Browsers, NEW a \in Addresses, NEW j \in Jars, Verify(b, j, a)
      PROVE  LimitInv'
  BY <1>2, CheckKeepsLimit, RefuseKeepsLimit DEF Verify
<1>3. CASE Tick
  BY <1>3, TickKeepsLimit
<1>4. CASE Restart
  BY <1>4, RestartKeepsLimit
<1>5. CASE \/ \E b \in Browsers : Consent(b) \/ (\E j \in Jars \ {"authorize"} : Logout(b, j))
           \/ \E b \in Browsers, r \in Requests : Authorize(b, r)
           \/ \E c \in Clients : Register(c)
           \/ \E c \in Clients, k \in DOMAIN codes : Exchange(c, k)
           \/ ChatToken
           \/ \E i \in DOMAIN tokens, place \in Places : Use(i, place)
           \/ UNCHANGED vars
  <2>1. UNCHANGED <<now, limiter>>
    BY <1>5 DEF Consent, Logout, Authorize, Register, Exchange, ChatToken, Use, vars
  <2> QED BY <2>1, OthersKeepLimit
<1> QED BY <1>1, <1>2, <1>3, <1>4, <1>5 DEF Next

\* However attempts are timed, and whatever is forgotten of them, no window of time sees more
\* checks of an address than it may, and none is refused that there was room for (RateLimiter).
THEOREM AttemptsAreLimited == Spec => []ChecksAreLimited
<1>1. LimitInv => ChecksAreLimited
  BY DEF LimitInv, Spaced, ChecksAreLimited
<1> QED BY <1>1, LimitInit, NextKeepsLimit, PTL DEF Spec
=============================================================================
