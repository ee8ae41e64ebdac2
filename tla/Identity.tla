------------------------------ MODULE Identity ------------------------------
(***************************************************************************)
(* Who a request speaks for: browsers with their session, upstream and     *)
(* sudo cookies, the assertions minted for them, and the gate in front of  *)
(* the backend's handlers, on two machines whose clocks differ             *)
(* (web/lib/auth/server.ts, session.ts, sudo.ts, assertion.ts;             *)
(* backend/pkg/assertion, internal/auth).                                  *)
(*                                                                         *)
(* A request to /api/auth is proxied to Neon Auth when one is configured;  *)
(* without one, or when the fetch throws, the web server answers itself.   *)
(* The local session cookie is a copy of upstream's session that a sign-in *)
(* makes and that only some of the ways to sign out take back.             *)
(*                                                                         *)
(* An assertion is known by its claims; a signature is what makes it one.  *)
(* The web signer writes the algorithm "EdDSA", the backend's Sign writes  *)
(* "Ed25519"; both are given the claims of callBackendRPC.  An assertion   *)
(* may be presented any number of times, by whoever saw it: jti is never   *)
(* checked.  Time is in ticks: every duration of the code is a constant.   *)
(***************************************************************************)
EXTENDS Integers, FiniteSets

CONSTANTS
  Users, Browsers,
  Live,        \* NEON_AUTH_BASE_URL names an upstream
  Gate,        \* what the handlers are mounted with: "combined" or "key"
  Lifetime,    \* MaxTokenLifetime (300 s)
  WebLifetime, \* ttlSeconds of the web signer (120 s)
  Skew,        \* MaxClockSkew (5 s)
  WebSkew,     \* what the web signer takes off nbf (1 s)
  SudoTTL,     \* SUDO_TTL_SECONDS (900 s)
  SessionLife, \* how old a local session may be (15 days)
  Drift,       \* bound: how far the two clocks are apart
  MaxNow,      \* bound: the last instant
  MaxTokens,   \* bound: assertions minted
  MaxRequests, \* bound: requests to /api/auth
  Service,     \* the user of a caller with an API key
  None

ASSUME IdentityAssumption ==
  /\ Lifetime \in Nat /\ Skew \in Nat /\ SudoTTL \in Nat \ {0} /\ Drift \in Nat
  /\ SessionLife \in Nat
  /\ WebLifetime \in 0 .. Lifetime /\ WebSkew \in Nat /\ MaxNow \in Nat
  /\ MaxRequests \in Nat /\ Live \in BOOLEAN /\ Gate \in {"combined", "key"}
  /\ None \notin Users /\ Service \notin Users

VARIABLES
  now,      \* the clock of the web server
  offset,   \* how much the backend's clock is ahead of it
  session,  \* a browser's local session cookie: a user and its authTime
  neon,     \* the user whose upstream token the browser holds
  cookie,   \* its sudo cookie: a user and an expiry
  pending,  \* the user whose password POST /api/auth/sudo is checking
  tokens,   \* assertions minted so far
  requests, \* requests to /api/auth that may still come
  ident,    \* the identity of the handler that runs
  present,  \* history: when getSession last answered with a user somewhere
  entered,  \* history: when a user last signed in or held upstream's token
  elevated  \* history: when a user was last elevated anywhere

clocks  == <<now, offset>>
signed  == <<session, neon>>
sudo    == <<cookie, pending, elevated>>
history == <<present, entered>>
vars    == <<clocks, signed, sudo, tokens, requests, ident, history>>

Core == now + offset            \* time.Now() of the backend

Claims == [alg : {"Ed25519", "EdDSA"}, sub : Users, iat : Int, nbf : Int, exp : Int,
           sudo : Int]          \* sudo_exp, 0 when absent

-----------------------------------------------------------------------------
Init ==
  /\ now      = 1
  /\ offset   \in -Drift .. Drift
  /\ session  = [b \in Browsers |-> None]
  /\ neon     = [b \in Browsers |-> None]
  /\ cookie   = [b \in Browsers |-> None]
  /\ pending  = [b \in Browsers |-> None]
  /\ tokens   = {}
  /\ requests = MaxRequests
  /\ ident    = None
  /\ present  = [u \in Users |-> 0]
  /\ entered  = [u \in Users |-> 0]
  /\ elevated = [u \in Users |-> -(SudoTTL + Drift)]

(* getSession: the local cookie while it is young enough, else upstream's    *)
(* answer for its token.                                                     *)
AcceptedEver(s) == s # None
Accepted(s) ==
  /\ s # None
  /\ now - s.since <= SessionLife

GetSession(b) ==
  IF Accepted(session[b]) THEN session[b].user
  ELSE IF Live THEN neon[b] ELSE None

(* What the histories make of a step. *)
Enters(b, u) ==
  \/ neon[b] = u
  \/ session[b] = [user |-> u, since |-> now]

Remember ==
  /\ present' = [u \in Users |->
       IF \E b \in Browsers : GetSession(b)' = u THEN now' ELSE present[u]]
  /\ entered' = [u \in Users |->
       IF \E b \in Browsers : Enters(b, u)' THEN now' ELSE entered[u]]

Tick ==
  /\ now < MaxNow
  /\ now' = now + 1
  /\ UNCHANGED <<offset, signed, sudo, tokens, ident>>

(* A sign-in upstream accepts: its token, and the local copy of the session. *)
ProxySignIn(b, u) ==
  /\ Live
  /\ neon' = [neon EXCEPT ![b] = u]
  /\ session' = [session EXCEPT ![b] = [user |-> u, since |-> now]]
  /\ UNCHANGED <<clocks, sudo, tokens, ident>>

(* Upstream sets its token in any other answer (a social sign-in): the       *)
(* headers are passed on, the local copy stays what it was.                  *)
ProxyToken(b, u) ==
  /\ Live
  /\ neon' = [neon EXCEPT ![b] = u]
  /\ UNCHANGED <<clocks, session, sudo, tokens, ident>>

(* Upstream signs the browser out and takes its token back, but the local    *)
(* copy stays.                                                               *)
ProxySignOut(b) ==
  /\ Live
  /\ neon' = [neon EXCEPT ![b] = None]
  /\ UNCHANGED <<clocks, session, sudo, tokens, ident>>

(* The offline fallback, also of a live upstream that cannot be reached: a   *)
(* sign-in is believed, a sign-out drops the local cookie alone.             *)
LocalSignIn(b, u) ==
  /\ session' = [session EXCEPT ![b] = [user |-> u, since |-> now]]
  /\ UNCHANGED <<clocks, neon, sudo, tokens, ident>>

LocalSignOut(b) ==
  /\ session' = [session EXCEPT ![b] = None]
  /\ UNCHANGED <<clocks, neon, sudo, tokens, ident>>

(* POST /api/auth/logout drops every cookie, whatever upstream says. *)
Logout(b) ==
  /\ session' = [session EXCEPT ![b] = None]
  /\ neon'    = [neon EXCEPT ![b] = None]
  /\ cookie'  = [cookie EXCEPT ![b] = None]
  /\ UNCHANGED <<clocks, pending, elevated, tokens, ident>>

(* POST /api/auth/sudo reads the user, waits for the password check and then *)
(* sets a cookie for the user it read.                                       *)
AskSudo(b) ==
  /\ GetSession(b) # None /\ pending[b] = None
  /\ pending' = [pending EXCEPT ![b] = GetSession(b)]
  /\ UNCHANGED <<clocks, signed, cookie, elevated, tokens, ident>>

SudoExpiry(t) == t + SudoTTL

(* auth.signIn.email reports no error.  That is upstream's word only where   *)
(* one is configured and the fetch reaches it: else nobody has checked.      *)
ElevateSudo(b) ==
  /\ pending[b] # None
  /\ cookie'  = [cookie EXCEPT ![b] = [user |-> pending[b], exp |-> SudoExpiry(now)]]
  /\ pending' = [pending EXCEPT ![b] = None]
  /\ elevated' = [elevated EXCEPT ![pending[b]] = now]
  /\ UNCHANGED <<clocks, signed, tokens, ident>>

(* Upstream rejects the password, or the request breaks off. *)
RefuseSudo(b) ==
  /\ pending[b] # None
  /\ pending' = [pending EXCEPT ![b] = None]
  /\ UNCHANGED <<clocks, signed, cookie, elevated, tokens, ident>>

-----------------------------------------------------------------------------
(* callBackendRPC: the claims of a call. *)
SudoActiveUnbound(c, u) == c # None /\ c.exp > now
SudoActive(c, u) ==
  /\ c # None
  /\ c.user = u /\ c.exp > now

SudoClaim(b) == IF SudoActive(cookie[b], GetSession(b)) THEN cookie[b].exp ELSE 0

WebToken(b) ==
  [alg |-> "EdDSA", sub |-> GetSession(b), iat |-> now, nbf |-> now - WebSkew,
   exp |-> now + WebLifetime, sudo |-> SudoClaim(b)]

Sign(b) ==
  [alg |-> "Ed25519", sub |-> GetSession(b), iat |-> now, nbf |-> now - Skew,
   exp |-> now + Lifetime, sudo |-> SudoClaim(b)]

Mint(b, t) ==
  /\ GetSession(b) # None /\ Cardinality(tokens) < MaxTokens
  /\ tokens' = tokens \cup {t}
  /\ UNCHANGED <<clocks, signed, sudo, ident>>

(* Verifier.Verify, past the format, key and signature of an assertion. *)
InTime(t) == Core <= t.exp + Skew
TooStrict(t) == Core >= t.nbf + 2 * Skew
NotEarly(t) == Core >= t.nbf - Skew

Verify(t) ==
  /\ t.alg = "Ed25519"
  /\ t.exp - t.iat <= Lifetime + Skew
  /\ InTime(t)
  /\ NotEarly(t)

(* The two interceptors.  What they refuse runs no handler; the key gate     *)
(* lets a call through without an identity.                                  *)
Authenticate(t, key) ==
  IF t # None
    THEN IF Verify(t) THEN [user |-> t.sub, sudo |-> t.sudo] ELSE None
    ELSE IF key = "known" THEN [user |-> Service, sudo |-> 0] ELSE None

Admit(t, key) == IF Gate = "key" THEN None ELSE Authenticate(t, key)

Call(t, key) ==
  /\ ident' = Admit(t, key)
  /\ UNCHANGED <<clocks, signed, sudo, tokens>>

Next ==
  /\ \/ /\ requests > 0 /\ requests' = requests - 1
        /\ \E b \in Browsers :
             \/ \E u \in Users : ProxySignIn(b, u) \/ ProxyToken(b, u) \/ LocalSignIn(b, u)
             \/ ProxySignOut(b) \/ LocalSignOut(b) \/ Logout(b)
             \/ AskSudo(b) \/ ElevateSudo(b) \/ RefuseSudo(b)
     \/ /\ \/ Tick
           \/ \E b \in Browsers : Mint(b, WebToken(b)) \/ Mint(b, Sign(b))
           \/ \E t \in tokens \cup {None}, key \in {"none", "known", "wrong"} : Call(t, key)
        /\ UNCHANGED requests
  /\ Remember

Spec == Init /\ [][Next]_vars

-----------------------------------------------------------------------------
(* Identity.HasActiveSudo, asked by the handlers, and Claims.HasActiveSudo,  *)
(* reported by ExchangeAssertion.                                            *)
HasActiveSudo(id) == id.sudo # 0 /\ id.sudo > Core
ClaimsWithSkew(t) == t.sudo # 0 /\ Core <= t.sudo + Skew
ClaimsHaveActiveSudo(t) == t.sudo # 0 /\ Core <= t.sudo

(* ExchangeAssertion and GetSessionContext: what a client is told of itself. *)
ExchangeAssertionResponse == [user : Users, server_time : Int, sudo_active : BOOLEAN]
GetSessionContextResponse == [user : Users \cup {Service}, sudo_active : BOOLEAN,
                              sudo_expires_at : Int]

(* Absent is no assertion, no identity and no answer. *)
ASSUME NoneAssumption ==
  None \notin Claims \cup [user : Users \cup {Service}, sudo : Int]
            \cup ExchangeAssertionResponse \cup GetSessionContextResponse

Unauthenticated == None
ExchangeAssertion(t) ==
  IF Verify(t) THEN [user |-> t.sub, server_time |-> Core,
                     sudo_active |-> ClaimsHaveActiveSudo(t)]
               ELSE Unauthenticated
GetSessionContext(id) ==
  IF id = None THEN Unauthenticated
               ELSE [user |-> id.user, sudo_active |-> HasActiveSudo(id),
                     sudo_expires_at |-> id.sudo]

(* The types; a sudo cookie never runs for longer than its TTL. *)
TypeOK ==
  /\ now \in 1 .. MaxNow + 1 /\ offset \in -Drift .. Drift
  /\ \A b \in Browsers : session[b] # None =>
       session[b].user \in Users /\ session[b].since \in 1 .. now
  /\ neon \in [Browsers -> Users \cup {None}]
  /\ ~Live => \A b \in Browsers : neon[b] = None
  /\ pending \in [Browsers -> Users \cup {None}]
  /\ \A b \in Browsers : cookie[b] # None => cookie[b].user \in Users /\ cookie[b].exp <= now + SudoTTL
  /\ tokens \subseteq Claims /\ requests \in 0 .. MaxRequests
  /\ ident = None \/ (ident.user \in Users \cup {Service} /\ ident.sudo \in Int)
  /\ present \in [Users -> 0 .. now] /\ entered \in [Users -> 0 .. now]
  /\ elevated \in [Users -> Int]
  /\ \A t \in tokens : ExchangeAssertion(t) \in ExchangeAssertionResponse \cup {None}
  /\ GetSessionContext(ident) \in GetSessionContextResponse \cup {None}

(* Nothing revokes an assertion, and a sign-out that upstream answers leaves *)
(* the local session behind.  Still an assertion the backend accepts names a *)
(* user whom some browser spoke for no longer ago than the lifetime, the     *)
(* skew allowance and the drift of the clocks (so much after the cookies are *)
(* gone, as they are by a logout), and who signed in or held upstream's      *)
(* token no longer ago than that and the life of a local session together.   *)
Window == Lifetime + Skew + Drift

RevocationWindow == \A t \in tokens : Verify(t) =>
  /\ now - present[t.sub] <= Window
  /\ now - entered[t.sub] <= SessionLife + Window

(* Clocks no further apart than the allowance never make the backend refuse  *)
(* a fresh assertion of its own signer, however the user comes by it.        *)
FreshAdmitted == \A t \in tokens :
  Drift <= Skew /\ t.alg = "Ed25519" /\ now <= t.iat + Lifetime => Verify(t)

(* A handler that finds sudo active acts for a user who was elevated, at his *)
(* own request, less than the TTL ago: not by a cookie that another user     *)
(* left in the browser or by a check answered after a sign-out.  (That his   *)
(* password was checked is more than the code can say: see ElevateSudo.)     *)
SudoIsRecent ==
  ident # None /\ HasActiveSudo(ident) => now < elevated[ident.user] + SudoTTL + Drift

(* What ExchangeAssertion reports of an assertion and what a handler that is *)
(* called with it finds differ at most in the last instant of the window.    *)
SudoViewsAgree == \A t \in tokens :
  LET told == ExchangeAssertion(t)
      met  == GetSessionContext(Authenticate(t, "none"))
  IN  /\ told = Unauthenticated <=> met = Unauthenticated
      /\ told # Unauthenticated =>
           /\ told.user = met.user
           /\ told.sudo_active # met.sudo_active =>
                told.sudo_active /\ met.sudo_expires_at = told.server_time
=============================================================================
