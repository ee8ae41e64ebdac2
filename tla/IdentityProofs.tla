--------------------------- MODULE IdentityProofs ---------------------------
(***************************************************************************)
(* The windows of an assertion and of an elevation, for every lifetime,    *)
(* allowance, time to live and drift, with and without an upstream.  The   *)
(* argument: whom getSession answers with is in the present, a local       *)
(* session is no older than its user's last entry allows, a sudo cookie no *)
(* older than its user's last elevation does, and an assertion carries all *)
(* three facts on.                                                         *)
(***************************************************************************)
EXTENDS Identity, TLAPS

Sessions   == [user : Users, since : Int]
SudoStates == [user : Users, exp : Int]

Typed ==
  /\ now \in 1 .. MaxNow + 1 /\ offset \in -Drift .. Drift
  /\ session \in [Browsers -> Sessions \cup {None}]
  /\ neon \in [Browsers -> Users \cup {None}]
  /\ pending \in [Browsers -> Users \cup {None}]
  /\ cookie \in [Browsers -> SudoStates \cup {None}]
  /\ tokens \subseteq Claims
  /\ ident \in [user : Users \cup {Service}, sudo : Int] \cup {None}
  /\ present \in [Users -> Int] /\ entered \in [Users -> Int] /\ elevated \in [Users -> Int]

Past ==
  /\ \A u \in Users : present[u] \in 0 .. now /\ entered[u] \in 0 .. now /\ elevated[u] <= now
  /\ \A b \in Browsers : session[b] # None => session[b].since \in 1 .. now
  /\ ~Live => \A b \in Browsers : neon[b] = None

(* Whom a browser speaks for is in the present; what it has of him is either *)
(* upstream's token or a local session that began with an entry of his.      *)
PresentInv == \A b \in Browsers : GetSession(b) # None => present[GetSession(b)] = now

SessionInv == \A b \in Browsers :
  /\ neon[b] # None => entered[neon[b]] = now
  /\ session[b] # None => session[b].since <= entered[session[b].user]

CookieInv == \A b \in Browsers : cookie[b] # None =>
  cookie[b].exp <= elevated[cookie[b].user] + SudoTTL

TokenInv == \A t \in tokens :
  /\ t.iat <= present[t.sub] /\ t.iat <= entered[t.sub] + SessionLife
  /\ t.alg = "Ed25519" => t.exp = t.iat + Lifetime /\ t.nbf = t.iat - Skew
  /\ t.sudo # 0 => t.sudo <= elevated[t.sub] + SudoTTL

IdentInv == ident # None /\ ident.sudo # 0 =>
  ident.user \in Users /\ ident.sudo <= elevated[ident.user] + SudoTTL

(* What a step does to the cookies is left to the invariants above; requests *)
(* is a bound of its own.                                                    *)
Inv == /\ Typed /\ Past /\ PresentInv /\ SessionInv /\ CookieInv /\ TokenInv /\ IdentInv
       /\ requests \in 0 .. MaxRequests

LEMMA InitInv == Init => Inv
<1> SUFFICES ASSUME Init PROVE Inv
  OBVIOUS
<1>1. /\ \A b \in Browsers : session[b] = None /\ neon[b] = None /\ cookie[b] = None
      /\ \A u \in Users : present[u] = 0 /\ entered[u] = 0 /\ elevated[u] = -(SudoTTL + Drift)
      /\ now = 1 /\ tokens = {} /\ ident = None
  BY DEF Init
<1>2. Typed /\ requests \in 0 .. MaxRequests
  BY <1>1, IdentityAssumption DEF Init, Typed
<1>3. Past /\ PresentInv /\ SessionInv /\ CookieInv /\ TokenInv /\ IdentInv
  BY <1>1, IdentityAssumption
     DEF Past, PresentInv, SessionInv, CookieInv, TokenInv, IdentInv, GetSession, Accepted
<1> QED BY <1>2, <1>3 DEF Inv

LEMMA SessionTypes ==
  ASSUME Typed, NEW b \in Browsers PROVE GetSession(b) \in Users \cup {None}
BY DEF Typed, Sessions, GetSession, Accepted

(* Whatever a step does to the cookies, the histories only grow, up to the   *)
(* present, and reach it for those whom a browser still speaks for.          *)
LEMMA RememberGrows ==
  ASSUME Inv, Remember, now' \in {now, now + 1}
  PROVE  /\ now \in Int /\ now' \in Int /\ now <= now'
         /\ present' \in [Users -> Int] /\ entered' \in [Users -> Int]
         /\ \A u \in Users :
              /\ present[u] \in Int /\ present[u] <= present'[u] /\ present'[u] \in 0 .. now'
              /\ entered[u] \in Int /\ entered[u] <= entered'[u] /\ entered'[u] \in 0 .. now'
<1>1. /\ now \in Int /\ now' \in Int /\ now <= now' /\ 0 <= now'
      /\ \A u \in Users : present[u] \in 0 .. now /\ entered[u] \in 0 .. now
  BY DEF Inv, Typed, Past
<1>2. \A u \in Users : /\ present'[u] = now' \/ present'[u] = present[u]
                       /\ entered'[u] = now' \/ entered'[u] = entered[u]
  BY DEF Remember
<1>3. present' \in [Users -> Int] /\ entered' \in [Users -> Int]
  BY <1>1 DEF Remember
<1> QED BY <1>1, <1>2, <1>3

LEMMA RememberReaches ==
  ASSUME Remember, Typed'
  PROVE  /\ PresentInv'
         /\ \A b \in Browsers : neon'[b] # None => entered'[neon'[b]] = now'
         /\ \A b \in Browsers, u \in Users :
              session'[b] = [user |-> u, since |-> now'] => entered'[u] = now'
<1>1. \A b \in Browsers : GetSession(b)' \in Users \cup {None}
  BY DEF Typed, Sessions, GetSession, Accepted
<1>2. \A b \in Browsers : neon'[b] \in Users \cup {None}
  BY DEF Typed
<1>3. PresentInv'
  BY <1>1 DEF Remember, PresentInv
<1>4. \A b \in Browsers, u \in Users : Enters(b, u)' => entered'[u] = now'
  BY DEF Remember
<1> QED BY <1>2, <1>3, <1>4 DEF Enters

(* What is known of an assertion stays true while the histories grow. *)
LEMMA TokensKeep ==
  ASSUME Inv, NEW t \in tokens,
         \A u \in Users : /\ present'[u] \in Int /\ present[u] <= present'[u]
                          /\ entered'[u] \in Int /\ entered[u] <= entered'[u]
                          /\ elevated'[u] \in Int /\ elevated[u] <= elevated'[u]
  PROVE  /\ t.iat <= present'[t.sub] /\ t.iat <= entered'[t.sub] + SessionLife
         /\ t.alg = "Ed25519" => t.exp = t.iat + Lifetime /\ t.nbf = t.iat - Skew
         /\ t.sudo # 0 => t.sudo <= elevated'[t.sub] + SudoTTL
<1>1. /\ t.sub \in Users /\ t.iat \in Int /\ t.sudo \in Int
      /\ present[t.sub] \in Int /\ entered[t.sub] \in Int /\ elevated[t.sub] \in Int
  BY DEF Inv, Typed, Claims
<1>2. SessionLife \in Int /\ SudoTTL \in Int
  BY IdentityAssumption
<1> QED BY <1>1, <1>2 DEF Inv, TokenInv

(* Time passes. *)
LEMMA TickInv == ASSUME Inv, Tick, Remember, UNCHANGED requests PROVE Inv'
<1>1. /\ now' = now + 1 /\ now' \in 1 .. MaxNow + 1
      /\ UNCHANGED <<offset, signed, sudo, tokens, ident>>
  BY IdentityAssumption DEF Inv, Typed, Tick
<1>2. /\ now \in Int /\ now' \in Int
      /\ present' \in [Users -> Int] /\ entered' \in [Users -> Int]
      /\ \A u \in Users :
           /\ present[u] <= present'[u] /\ present'[u] \in 0 .. now'
           /\ entered[u] \in Int /\ entered[u] <= entered'[u] /\ entered'[u] \in 0 .. now'
  BY <1>1, RememberGrows
<1>3. Typed'
  BY <1>1, <1>2 DEF Inv, Typed, signed, sudo
<1>4. Past'
  <2>1. \A u \in Users : elevated[u] \in Int /\ elevated[u] <= now
    BY DEF Inv, Typed, Past
  <2>2. \A b \in Browsers : session[b] # None => session[b].since \in 1 .. now
    BY DEF Inv, Past
  <2> QED BY <1>1, <1>2, <2>1, <2>2 DEF Inv, Past, signed, sudo
<1>5. PresentInv' /\ \A b \in Browsers : neon'[b] # None => entered'[neon'[b]] = now'
  BY <1>3, RememberReaches
<1>6. SessionInv'
  <2> SUFFICES ASSUME NEW b \in Browsers, session[b] # None
               PROVE  session[b].since <= entered'[session[b].user]
    BY <1>1, <1>5 DEF SessionInv, signed
  <2>1. session[b].user \in Users /\ session[b].since \in Int
    BY DEF Inv, Typed, Sessions
  <2> QED BY <1>2, <2>1 DEF Inv, SessionInv
<1>7. CookieInv' /\ IdentInv'
  BY <1>1 DEF Inv, CookieInv, IdentInv, sudo
<1>8. TokenInv'
  <2>1. \A u \in Users : elevated[u] \in Int /\ elevated' = elevated
    BY <1>1 DEF Inv, Typed, sudo
  <2> QED BY <1>1, <1>2, <2>1, TokensKeep DEF TokenInv
<1> QED BY <1>3, <1>4, <1>5, <1>6, <1>7, <1>8 DEF Inv

(* The browsers' session cookies change: each is kept, dropped, or begins    *)
(* now; no sudo cookie is made and no assertion, and the clocks stand still. *)
LEMMA CookiesInv ==
  ASSUME Inv, Remember, requests' \in 0 .. MaxRequests,
         UNCHANGED <<clocks, elevated, tokens, ident>>,
         session' \in [Browsers -> Sessions \cup {None}],
         \A b \in Browsers : \/ session'[b] \in {session[b], None}
                             \/ \E u \in Users : session'[b] = [user |-> u, since |-> now],
         neon' \in [Browsers -> Users \cup {None}], ~Live => neon' = neon,
         cookie' \in [Browsers -> SudoStates \cup {None}],
         \A b \in Browsers : cookie'[b] \in {cookie[b], None},
         pending' \in [Browsers -> Users \cup {None}]
  PROVE  Inv'
<1>1. now' = now /\ offset' = offset /\ elevated' = elevated
  BY DEF clocks
<1>2. /\ now \in Int /\ 1 <= now
      /\ present' \in [Users -> Int] /\ entered' \in [Users -> Int]
      /\ \A u \in Users :
           /\ present[u] <= present'[u] /\ present'[u] \in 0 .. now
           /\ entered[u] \in Int /\ entered[u] <= entered'[u] /\ entered'[u] \in 0 .. now
  BY <1>1, RememberGrows DEF Inv, Typed
<1>3. Typed'
  BY <1>1, <1>2 DEF Inv, Typed
<1>4. Past'
  <2>1. \A b \in Browsers : session'[b] # None => session'[b].since \in 1 .. now
    BY <1>2 DEF Inv, Past
  <2> QED BY <1>1, <1>2, <2>1 DEF Inv, Past
<1>5. /\ PresentInv'
      /\ \A b \in Browsers : neon'[b] # None => entered'[neon'[b]] = now
      /\ \A b \in Browsers, u \in Users :
           session'[b] = [user |-> u, since |-> now] => entered'[u] = now
  BY <1>1, <1>3, RememberReaches
<1>6. SessionInv'
  <2> SUFFICES ASSUME NEW b \in Browsers, session'[b] # None
               PROVE  session'[b].since <= entered'[session'[b].user]
    BY <1>1, <1>5 DEF SessionInv
  <2>1. CASE session'[b] = session[b]
    <3>1. session[b].user \in Users /\ session[b].since \in Int
      BY <2>1 DEF Inv, Typed, Sessions
    <3> QED BY <1>2, <2>1, <3>1 DEF Inv, SessionInv
  <2>2. ASSUME NEW u \in Users, session'[b] = [user |-> u, since |-> now]
        PROVE  session'[b].since <= entered'[session'[b].user]
    BY <1>2, <1>5, <2>2
  <2> QED BY <2>1, <2>2
<1>7. CookieInv' /\ IdentInv'
  BY <1>1 DEF Inv, CookieInv, IdentInv
<1>8. TokenInv'
  <2>1. \A u \in Users : elevated[u] \in Int
    BY DEF Inv, Typed
  <2> QED BY <1>1, <1>2, <2>1, TokensKeep DEF TokenInv
<1> QED BY <1>3, <1>4, <1>5, <1>6, <1>7, <1>8 DEF Inv

LEMMA BrowserInv ==
  ASSUME Inv, Remember, requests' \in 0 .. MaxRequests, NEW b \in Browsers,
         \/ \E u \in Users : ProxySignIn(b, u) \/ ProxyToken(b, u) \/ LocalSignIn(b, u)
         \/ ProxySignOut(b) \/ LocalSignOut(b) \/ Logout(b)
         \/ AskSudo(b) \/ RefuseSudo(b)
  PROVE  Inv'
<1> USE DEF clocks, signed, sudo
<1>1. Typed /\ now \in Int
  BY DEF Inv, Typed
<1>2. ASSUME NEW u \in Users, ProxySignIn(b, u) \/ ProxyToken(b, u) \/ LocalSignIn(b, u)
      PROVE  Inv'
  <2>1. [user |-> u, since |-> now] \in Sessions
    BY <1>1 DEF Sessions
  <2>2. CASE ProxySignIn(b, u)
    BY <1>1, <2>1, <2>2, CookiesInv DEF Typed, ProxySignIn
  <2>3. CASE ProxyToken(b, u)
    BY <1>1, <2>3, CookiesInv DEF Typed, ProxyToken
  <2>4. CASE LocalSignIn(b, u)
    BY <1>1, <2>1, <2>4, CookiesInv DEF Typed, LocalSignIn
  <2> QED BY <1>2, <2>2, <2>3, <2>4
<1>3. CASE ProxySignOut(b)
  BY <1>1, <1>3, CookiesInv DEF Typed, ProxySignOut
<1>4. CASE LocalSignOut(b)
  BY <1>1, <1>4, CookiesInv DEF Typed, LocalSignOut
<1>5. CASE Logout(b)
  <2>1. ~Live => neon' = neon
    BY <1>1, <1>5 DEF Inv, Typed, Past, Logout
  <2> QED BY <1>1, <1>5, <2>1, CookiesInv DEF Typed, Logout
<1>6. CASE AskSudo(b)
  <2>1. GetSession(b) \in Users \cup {None}
    BY <1>1, SessionTypes
  <2> QED BY <1>1, <1>6, <2>1, CookiesInv DEF Typed, AskSudo
<1>7. CASE RefuseSudo(b)
  BY <1>1, <1>7, CookiesInv DEF Typed, RefuseSudo
<1> QED BY <1>2, <1>3, <1>4, <1>5, <1>6, <1>7

(* A step that leaves the session cookies and the clocks alone. *)
LEMMA QuietInv ==
  ASSUME Inv, Remember, UNCHANGED <<clocks, signed>>,
         elevated' \in [Users -> Int],
         \A u \in Users : elevated[u] <= elevated'[u] /\ elevated'[u] <= now,
         cookie' \in [Browsers -> SudoStates \cup {None}],
         pending' \in [Browsers -> Users \cup {None}],
         tokens' \subseteq Claims,
         ident' \in [user : Users \cup {Service}, sudo : Int] \cup {None}
  PROVE  /\ Typed' /\ Past' /\ PresentInv' /\ SessionInv'
         /\ \A t \in tokens :
              /\ t.iat <= present'[t.sub] /\ t.iat <= entered'[t.sub] + SessionLife
              /\ t.alg = "Ed25519" => t.exp = t.iat + Lifetime /\ t.nbf = t.iat - Skew
              /\ t.sudo # 0 => t.sudo <= elevated'[t.sub] + SudoTTL
<1>1. now' = now /\ offset' = offset /\ session' = session /\ neon' = neon
  BY DEF clocks, signed
<1>2. /\ now \in Int
      /\ present' \in [Users -> Int] /\ entered' \in [Users -> Int]
      /\ \A u \in Users :
           /\ present[u] <= present'[u] /\ present'[u] \in 0 .. now
           /\ entered[u] \in Int /\ entered[u] <= entered'[u] /\ entered'[u] \in 0 .. now
  BY <1>1, RememberGrows
<1>3. Typed'
  BY <1>1, <1>2 DEF Inv, Typed
<1>4. Past'
  BY <1>1, <1>2 DEF Inv, Past
<1>5. PresentInv' /\ \A b \in Browsers : neon'[b] # None => entered'[neon'[b]] = now
  BY <1>1, <1>3, RememberReaches
<1>6. SessionInv'
  <2> SUFFICES ASSUME NEW b \in Browsers, session[b] # None
               PROVE  session[b].since <= entered'[session[b].user]
    BY <1>1, <1>5 DEF SessionInv
  <2>1. session[b].user \in Users /\ session[b].since \in Int
    BY DEF Inv, Typed, Sessions
  <2> QED BY <1>2, <2>1 DEF Inv, SessionInv
<1>7. \A u \in Users : elevated'[u] \in Int
  OBVIOUS
<1> QED BY <1>2, <1>3, <1>4, <1>5, <1>6, <1>7, TokensKeep

(* An elevation renews the cookie of the user who was asked, nobody else's. *)
LEMMA ElevateInv ==
  ASSUME Inv, Remember, requests' \in 0 .. MaxRequests, NEW b \in Browsers, ElevateSudo(b)
  PROVE  Inv'
<1> DEFINE u == pending[b]
<1>1. u \in Users /\ now \in Int /\ SudoTTL \in Int
  BY IdentityAssumption DEF Inv, Typed, ElevateSudo
<1>2. /\ elevated' \in [Users -> Int] /\ elevated'[u] = now
      /\ \A w \in Users : elevated[w] \in Int /\ elevated[w] <= elevated'[w] /\ elevated'[w] <= now
  BY <1>1 DEF Inv, Typed, Past, ElevateSudo
<1>3. [user |-> u, exp |-> SudoExpiry(now)] \in SudoStates
  BY <1>1 DEF SudoStates, SudoExpiry
<1>4. cookie' \in [Browsers -> SudoStates \cup {None}] /\ pending' \in [Browsers -> Users \cup {None}]
  BY <1>3 DEF Inv, Typed, ElevateSudo
<1>5. UNCHANGED <<clocks, signed, tokens, ident>>
  BY DEF ElevateSudo
<1>6. /\ Typed' /\ Past' /\ PresentInv' /\ SessionInv' /\ TokenInv'
  BY <1>2, <1>4, <1>5, QuietInv DEF Inv, Typed, TokenInv
<1>7. CookieInv'
  <2> SUFFICES ASSUME NEW c \in Browsers, cookie'[c] # None
               PROVE  cookie'[c].exp <= elevated'[cookie'[c].user] + SudoTTL
    BY DEF CookieInv
  <2>1. CASE c = b
    <3>1. cookie'[c] = [user |-> u, exp |-> SudoExpiry(now)]
      BY <2>1 DEF Inv, Typed, ElevateSudo
    <3> QED BY <1>1, <1>2, <3>1 DEF SudoExpiry
  <2>2. CASE c # b
    <3>1. /\ cookie'[c] = cookie[c] /\ cookie[c] \in SudoStates
          /\ cookie[c].exp <= elevated[cookie[c].user] + SudoTTL
      BY <2>2 DEF Inv, Typed, ElevateSudo, CookieInv
    <3>2. cookie[c].user \in Users /\ cookie[c].exp \in Int
      BY <3>1 DEF SudoStates
    <3> QED BY <1>1, <1>2, <3>1, <3>2
  <2> QED BY <2>1, <2>2
<1>8. IdentInv'
  <2> SUFFICES ASSUME ident # None, ident.sudo # 0
               PROVE  ident.user \in Users /\ ident.sudo <= elevated'[ident.user] + SudoTTL
    BY <1>5 DEF IdentInv
  <2>1. ident.user \in Users /\ ident.sudo \in Int
    BY DEF Inv, Typed, IdentInv
  <2> QED BY <1>1, <1>2, <2>1 DEF Inv, IdentInv
<1> QED BY <1>6, <1>7, <1>8 DEF Inv

(* An assertion takes over what the cookies guarantee. *)
LEMMA MintInv ==
  ASSUME Inv, Remember, UNCHANGED requests,
         NEW b \in Browsers, NEW t \in {WebToken(b), Sign(b)}, Mint(b, t)
  PROVE  Inv'
<1> DEFINE u == GetSession(b)
<1>1. /\ u \in Users /\ now \in Int /\ SessionLife \in Nat /\ SudoTTL \in Int
      /\ present[u] = now
  BY SessionTypes, IdentityAssumption DEF Inv, Typed, Mint, PresentInv
<1>2. entered[u] \in Int /\ now <= entered[u] + SessionLife
  <2>1. entered[u] \in Int
    BY <1>1 DEF Inv, Typed
  <2>2. CASE Accepted(session[b])
    <3>1. /\ u = session[b].user /\ session[b].since \in Int
          /\ session[b].since <= entered[u] /\ now - session[b].since <= SessionLife
      BY <2>2 DEF Inv, Typed, Sessions, SessionInv, GetSession, Accepted
    <3> QED BY <1>1, <2>1, <3>1
  <2>3. CASE ~Accepted(session[b])
    <3>1. u = neon[b] /\ entered[u] = now
      BY <1>1, <2>3, IdentityAssumption DEF Inv, SessionInv, GetSession
    <3> QED BY <1>1, <2>1, <3>1
  <2> QED BY <2>2, <2>3
<1>3. /\ SudoClaim(b) \in Int
      /\ SudoClaim(b) # 0 => SudoClaim(b) <= elevated[u] + SudoTTL
  <2>1. CASE SudoActive(cookie[b], u)
    <3>1. cookie[b] \in SudoStates /\ cookie[b].user = u
      BY <2>1 DEF Inv, Typed, SudoActive
    <3> QED BY <2>1, <3>1 DEF Inv, SudoClaim, CookieInv, SudoStates, SudoActive
  <2>2. CASE ~SudoActive(cookie[b], u)
    BY <2>2 DEF SudoClaim
  <2> QED BY <2>1, <2>2
<1>4. /\ t \in Claims /\ t.sub = u /\ t.iat = now /\ t.sudo = SudoClaim(b)
      /\ t.alg = "Ed25519" => t.exp = t.iat + Lifetime /\ t.nbf = t.iat - Skew
  BY <1>1, <1>3, IdentityAssumption DEF WebToken, Sign, Claims
<1>5. UNCHANGED <<clocks, signed, sudo, ident>> /\ tokens' = tokens \cup {t}
  BY DEF Mint
<1>6. /\ Typed' /\ Past' /\ PresentInv' /\ SessionInv'
      /\ \A x \in tokens :
           /\ x.iat <= present'[x.sub] /\ x.iat <= entered'[x.sub] + SessionLife
           /\ x.alg = "Ed25519" => x.exp = x.iat + Lifetime /\ x.nbf = x.iat - Skew
           /\ x.sudo # 0 => x.sudo <= elevated'[x.sub] + SudoTTL
  <2>1. \A w \in Users : elevated[w] \in Int /\ elevated[w] <= now
    BY DEF Inv, Typed, Past
  <2> QED BY <1>4, <1>5, <2>1, QuietInv DEF Inv, Typed, sudo
<1>7. CookieInv' /\ IdentInv'
  BY <1>5 DEF Inv, CookieInv, IdentInv, sudo
<1>8. TokenInv'
  <2>1. t.iat <= present'[u] /\ t.iat <= entered'[u] + SessionLife
    <3>1. /\ present[u] <= present'[u] /\ present'[u] \in Int
          /\ entered[u] <= entered'[u] /\ entered'[u] \in Int
      BY <1>1, <1>5, RememberGrows DEF clocks
    <3> QED BY <1>1, <1>2, <1>4, <3>1
  <2>2. t.sudo # 0 => t.sudo <= elevated'[u] + SudoTTL
    BY <1>3, <1>4, <1>5 DEF sudo
  <2> QED BY <1>4, <1>5, <1>6, <2>1, <2>2 DEF TokenInv
<1> QED BY <1>6, <1>7, <1>8 DEF Inv

(* The gate takes the identity over from an assertion. *)
LEMMA CallInv ==
  ASSUME Inv, Remember, UNCHANGED requests,
         NEW t \in tokens \cup {None}, NEW key \in {"none", "known", "wrong"}, Call(t, key)
  PROVE  Inv'
<1>1. UNCHANGED <<clocks, signed, sudo, tokens>>
  BY DEF Call
<1>2. /\ ident' \in [user : Users \cup {Service}, sudo : Int] \cup {None}
      /\ IdentInv'
  <2>1. CASE ident' = None
    BY <2>1 DEF IdentInv
  <2>2. CASE ident' = [user |-> Service, sudo |-> 0]
    BY <2>2 DEF IdentInv
  <2>3. CASE t \in tokens /\ ident' = [user |-> t.sub, sudo |-> t.sudo]
    <3>1. t.sub \in Users /\ t.sudo \in Int
      BY <2>3 DEF Inv, Typed, Claims
    <3>2. t.sudo # 0 => t.sudo <= elevated'[t.sub] + SudoTTL
      BY <1>1, <2>3 DEF Inv, TokenInv, sudo
    <3> QED BY <2>3, <3>1, <3>2 DEF IdentInv
  <2> QED BY <2>1, <2>2, <2>3 DEF Call, Admit, Authenticate
<1>3. /\ Typed' /\ Past' /\ PresentInv' /\ SessionInv' /\ TokenInv'
  <2>1. \A w \in Users : elevated[w] \in Int /\ elevated[w] <= now
    BY DEF Inv, Typed, Past
  <2> QED BY <1>1, <1>2, <2>1, QuietInv DEF Inv, Typed, TokenInv, sudo
<1>4. CookieInv'
  BY <1>1 DEF Inv, CookieInv, sudo
<1> QED BY <1>1, <1>2, <1>3, <1>4 DEF Inv

LEMMA Invariance == Spec => []Inv
<1>1. Inv /\ [Next]_vars => Inv'
  <2> SUFFICES ASSUME Inv, [Next]_vars PROVE Inv'
    OBVIOUS
  <2>1. CASE Tick /\ Remember /\ UNCHANGED requests
    BY <2>1, TickInv
  <2>2. ASSUME NEW b \in Browsers, Remember, requests > 0, requests' = requests - 1,
               \/ \E u \in Users : ProxySignIn(b, u) \/ ProxyToken(b, u) \/ LocalSignIn(b, u)
               \/ ProxySignOut(b) \/ LocalSignOut(b) \/ Logout(b)
               \/ AskSudo(b) \/ ElevateSudo(b) \/ RefuseSudo(b)
        PROVE  Inv'
    <3>1. requests' \in 0 .. MaxRequests
      BY <2>2, IdentityAssumption DEF Inv
    <3> QED BY <2>2, <3>1, BrowserInv, ElevateInv
  <2>3. ASSUME NEW b \in Browsers, Remember, UNCHANGED requests,
               Mint(b, WebToken(b)) \/ Mint(b, Sign(b))
        PROVE  Inv'
    BY <2>3, MintInv
  <2>4. ASSUME NEW t \in tokens \cup {None}, NEW key \in {"none", "known", "wrong"},
               Remember, UNCHANGED requests, Call(t, key)
        PROVE  Inv'
    BY <2>4, CallInv
  <2>5. CASE UNCHANGED vars
    BY <2>5 DEF Inv, Typed, Past, PresentInv, SessionInv, CookieInv, TokenInv, IdentInv,
                GetSession, Accepted, vars, clocks, signed, sudo, history
  <2> QED BY <2>1, <2>2, <2>3, <2>4, <2>5 DEF Next
<1> QED BY InitInv, <1>1, PTL DEF Spec

(* The types, and no sudo cookie beyond its TTL. *)
THEOREM TypeCorrect == Spec => []TypeOK
<1>1. Inv => TypeOK
  <2> SUFFICES ASSUME Inv PROVE TypeOK
    OBVIOUS
  <2>1. ASSUME NEW b \in Browsers, cookie[b] # None
        PROVE  cookie[b].user \in Users /\ cookie[b].exp <= now + SudoTTL
    <3>1. cookie[b] \in SudoStates
      BY <2>1 DEF Inv, Typed
    <3>2. cookie[b].user \in Users /\ cookie[b].exp \in Int
      BY <3>1 DEF SudoStates
    <3>3. elevated[cookie[b].user] \in Int /\ elevated[cookie[b].user] <= now /\ now \in Int
      BY <3>2 DEF Inv, Typed, Past
    <3> QED BY <2>1, <3>2, <3>3, IdentityAssumption DEF Inv, CookieInv
  <2>2. ASSUME NEW b \in Browsers, session[b] # None
        PROVE  session[b].user \in Users /\ session[b].since \in 1 .. now
    BY <2>2 DEF Inv, Typed, Past, Sessions
  <2>3. ASSUME NEW t \in tokens
        PROVE  ExchangeAssertion(t) \in ExchangeAssertionResponse \cup {None}
    <3>1. t.sub \in Users /\ Core \in Int
      BY DEF Inv, Typed, Claims, Core
    <3>2. ClaimsHaveActiveSudo(t) \in BOOLEAN
      BY DEF ClaimsHaveActiveSudo
    <3> QED BY <3>1, <3>2 DEF ExchangeAssertion, ExchangeAssertionResponse, Unauthenticated
  <2>4. GetSessionContext(ident) \in GetSessionContextResponse \cup {None}
    <3>1. HasActiveSudo(ident) \in BOOLEAN
      BY DEF HasActiveSudo
    <3> QED BY <3>1 DEF Inv, Typed, GetSessionContext, GetSessionContextResponse, Unauthenticated
  <2>5. present \in [Users -> 0 .. now] /\ entered \in [Users -> 0 .. now]
    BY DEF Inv, Typed, Past
  <2> QED BY <2>1, <2>2, <2>3, <2>4, <2>5 DEF TypeOK, Inv, Typed, Past
<1> QED BY Invariance, <1>1, PTL

(* How long an assertion outlives the cookies it was minted with, and how    *)
(* long one can still be minted and used after a sign-out that only upstream *)
(* saw.                                                                      *)
THEOREM RevocationIsBounded == Spec => []RevocationWindow
<1>1. Inv => RevocationWindow
  <2> SUFFICES ASSUME Inv, NEW t \in tokens, Verify(t)
               PROVE  /\ now - present[t.sub] <= Window
                      /\ now - entered[t.sub] <= SessionLife + Window
    BY DEF RevocationWindow
  <2>1. /\ t.sub \in Users /\ t.iat \in Int /\ t.exp \in Int
        /\ now \in Int /\ offset \in -Drift .. Drift
    BY DEF Inv, Typed, Claims
  <2>2. /\ present[t.sub] \in Int /\ t.iat <= present[t.sub]
        /\ entered[t.sub] \in Int /\ t.iat <= entered[t.sub] + SessionLife
        /\ t.exp = t.iat + Lifetime
    BY <2>1 DEF Inv, Typed, TokenInv, Verify
  <2>3. now - t.iat <= Window
    BY <2>1, <2>2, IdentityAssumption DEF Verify, InTime, Core, Window
  <2>4. Window \in Int /\ SessionLife \in Int
    BY IdentityAssumption DEF Window
  <2> QED BY <2>1, <2>2, <2>3, <2>4
<1> QED BY Invariance, <1>1, PTL

(* The allowance suffices for clocks that are no further apart than it. *)
THEOREM FreshIsAdmitted == Spec => []FreshAdmitted
<1>1. Inv => FreshAdmitted
  <2> SUFFICES ASSUME Inv, NEW t \in tokens, Drift <= Skew, t.alg = "Ed25519",
                      now <= t.iat + Lifetime
               PROVE  Verify(t)
    BY DEF FreshAdmitted
  <2>1. /\ t.sub \in Users /\ t.iat \in Int /\ t.exp \in Int /\ t.nbf \in Int
        /\ now \in Int /\ offset \in -Drift .. Drift
    BY DEF Inv, Typed, Claims
  <2>2. /\ present[t.sub] \in Int /\ t.iat <= present[t.sub] /\ present[t.sub] <= now
        /\ t.exp = t.iat + Lifetime /\ t.nbf = t.iat - Skew
    BY <2>1 DEF Inv, Typed, Past, TokenInv
  <2> QED BY <2>1, <2>2, IdentityAssumption DEF Verify, InTime, NotEarly, Core
<1> QED BY Invariance, <1>1, PTL

(* Sudo is never found active beyond the TTL of an elevation of that user. *)
THEOREM SudoStaysRecent == Spec => []SudoIsRecent
<1>1. Inv => SudoIsRecent
  <2> SUFFICES ASSUME Inv, ident # None, HasActiveSudo(ident)
               PROVE  now < elevated[ident.user] + SudoTTL + Drift
    BY DEF SudoIsRecent
  <2>1. /\ ident.user \in Users /\ ident.sudo \in Int
        /\ ident.sudo <= elevated[ident.user] + SudoTTL /\ ident.sudo > now + offset
    BY DEF Inv, Typed, IdentInv, HasActiveSudo, Core
  <2>2. elevated[ident.user] \in Int /\ now \in Int /\ offset \in -Drift .. Drift
    BY <2>1 DEF Inv, Typed
  <2> QED BY <2>1, <2>2, IdentityAssumption
<1> QED BY Invariance, <1>1, PTL

(* What a client is told of an assertion, and what a handler that is called  *)
(* with it finds: the same user, and the same elevation but for the instant  *)
(* at which the one test says "not after" and the other "before".            *)
THEOREM SudoIsToldAsMet == Spec => []SudoViewsAgree
<1>1. Inv => SudoViewsAgree
  <2> SUFFICES ASSUME Inv, NEW t \in tokens
      PROVE  LET told == ExchangeAssertion(t)
                 met  == GetSessionContext(Authenticate(t, "none"))
             IN  /\ told = Unauthenticated <=> met = Unauthenticated
                 /\ told # Unauthenticated =>
                      /\ told.user = met.user
                      /\ told.sudo_active # met.sudo_active =>
                           told.sudo_active /\ met.sudo_expires_at = told.server_time
    BY DEF SudoViewsAgree
  <2>1. t \in Claims /\ t # None /\ t.sub \in Users /\ t.sudo \in Int /\ Core \in Int
    BY NoneAssumption DEF Inv, Typed, Claims, Core
  <2>2. CASE ~Verify(t)
    BY <2>1, <2>2 DEF ExchangeAssertion, Authenticate, GetSessionContext, Unauthenticated
  <2>3. CASE Verify(t)
    <3> DEFINE id   == [user |-> t.sub, sudo |-> t.sudo]
               told == [user |-> t.sub, server_time |-> Core,
                        sudo_active |-> ClaimsHaveActiveSudo(t)]
               met  == [user |-> t.sub, sudo_active |-> HasActiveSudo(id),
                        sudo_expires_at |-> t.sudo]
    <3>1. id # None
      BY <2>1, NoneAssumption
    <3>2. /\ ExchangeAssertion(t) = told
          /\ GetSessionContext(Authenticate(t, "none")) = met
      BY <2>1, <2>3, <3>1 DEF ExchangeAssertion, Authenticate, GetSessionContext
    <3>3. told # None
      <4>1. told \in ExchangeAssertionResponse
        BY <2>1 DEF ExchangeAssertionResponse, ClaimsHaveActiveSudo
      <4> QED BY <4>1, NoneAssumption
    <3>4. met # None
      <4>1. met \in GetSessionContextResponse
        BY <2>1 DEF GetSessionContextResponse, HasActiveSudo
      <4> QED BY <4>1, NoneAssumption
    <3>5. ClaimsHaveActiveSudo(t) # HasActiveSudo(id) =>
            ClaimsHaveActiveSudo(t) /\ t.sudo = Core
      BY <2>1 DEF ClaimsHaveActiveSudo, HasActiveSudo
    <3> QED BY <3>2, <3>3, <3>4, <3>5 DEF Unauthenticated
  <2> QED BY <2>2, <2>3
<1> QED BY Invariance, <1>1, PTL
=============================================================================
