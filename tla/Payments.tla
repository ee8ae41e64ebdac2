------------------------------ MODULE Payments -------------------------------
(***************************************************************************)
(* The payment providers: STK pushes through the Daraja client and its     *)
(* cached OAuth token (internal/mpesa/daraja.go), and the webhooks that    *)
(* are told the results (internal/mpesa/webhook.go, internal/paystack).    *)
(*                                                                         *)
(* A provider tells a result until it is acknowledged, and an              *)
(* acknowledgement may be lost.  A request with the wrong secret, a bad    *)
(* signature, a body that does not decode or another event is answered     *)
(* and leaves no trace; so does every callback sent to the bare path that  *)
(* STKPush names, unless something in front of the server adds the secret. *)
(* Time is in ticks; the http.Client gives up after Timeout.               *)
(*                                                                         *)
(* A result is recorded by a line of the log and nothing else ("for now    *)
(* the audit trail is the log").  The webhook_inbox, and the check of an   *)
(* M-Pesa payload against its pending attempt, that ADR-0007 asks for      *)
(* before a 200 are not in the code and so not here.                       *)
(***************************************************************************)
EXTENDS Integers

CONSTANTS
  Calls,     \* STKPush calls
  Refs,      \* Paystack references, each of one charge
  Hooks,     \* Paystack deliveries in progress at a time
  Timeout,   \* http.Client.Timeout (15 s)
  Margin,    \* how long before its end a token is refreshed (2 min)
  Lives,     \* lifetimes of a token Daraja states
  Default,   \* its documented lifetime (3599 s)
  Malformed, \* an expires_in that is no positive number
  MaxNow,    \* bound: the last instant
  Customers, \* bound: calls whose customer reacts to the prompt
  None

ASSUME PaymentsAssumption ==
  /\ Timeout \in Nat \ {0} /\ Margin \in Nat /\ MaxNow \in Nat
  /\ Lives \subseteq Nat /\ Default \in Nat /\ Malformed \notin Nat
  /\ None \notin Calls \cup Refs \cup {"paid", "failed"} /\ Calls \cap Refs = {}

(* The margin covers a fetch and a push, a lifetime more than that. *)
ASSUME MarginAssumption ==
  /\ Margin >= 2 * Timeout
  /\ \A l \in Lives \cup {Default} : l > 2 * Timeout

VARIABLES
  now,
  tokenMu, \* the call that holds the mutex
  token,   \* Client.token and tokenExpiry, with the end its issuer knows
  pc,      \* how far a call of STKPush is
  since,   \* when its HTTP exchange began
  bearer,  \* the token it goes on with
  charge,  \* what became of its prompt: None, "prompted", "paid", "failed"
  secret,  \* whether callbacks reach the server with the secret in the path
  status,  \* Paystack's status of a reference
  hook,    \* the reference a delivery is verifying
  owed,    \* results a provider has to tell and no acknowledgement of
  log      \* the log: what was said to be paid, and what not

client   == <<tokenMu, token, pc, since, bearer>>
paystack == <<status, hook>>
vars == <<now, client, charge, secret, paystack, owed, log>>

AccessToken == [until : Int, expiry : Int]
Line == [ref : Calls \cup Refs, paid : BOOLEAN]

-----------------------------------------------------------------------------
Init ==
  /\ now     = 0
  /\ tokenMu = None
  /\ token   = None
  /\ pc      = [c \in Calls |-> "idle"]
  /\ since   = [c \in Calls |-> 0]
  /\ bearer  = [c \in Calls |-> None]
  /\ charge  = [c \in Calls |-> None]
  /\ secret  \in BOOLEAN
  /\ status  = [r \in Refs |-> "pending"]
  /\ hook    = [h \in Hooks |-> None]
  /\ owed    = {}
  /\ log     = {}

(* An exchange is answered, fails or is abandoned within Timeout. *)
Tick ==
  /\ now < MaxNow
  /\ \A c \in Calls : pc[c] \in {"oauth", "push"} => now < since[c] + Timeout
  /\ now' = now + 1
  /\ UNCHANGED <<client, charge, secret, paystack, owed, log>>

STKPush(c) ==
  /\ pc[c] = "idle"
  /\ pc' = [pc EXCEPT ![c] = "lock"]
  /\ UNCHANGED <<now, tokenMu, token, since, bearer, charge, secret, paystack, owed, log>>

-----------------------------------------------------------------------------
(* accessToken.  The mutex is taken without regard to the caller's context   *)
(* and held over the fetch; a usable token is returned at once.              *)
Unlocked(c) == TRUE
LockFree(c) == tokenMu = None

Usable(c) == token # None /\ now < token.expiry

Goto(c, at) ==
  /\ pc'    = [pc EXCEPT ![c] = at]
  /\ since' = [since EXCEPT ![c] = IF at \in {"oauth", "push"} THEN now ELSE 0]

TakeToken(c) ==
  /\ pc[c] = "lock" /\ LockFree(c)
  /\ IF Usable(c)
       THEN /\ bearer' = [bearer EXCEPT ![c] = token]
            /\ Goto(c, "push")
            /\ UNCHANGED tokenMu
       ELSE /\ tokenMu' = c
            /\ Goto(c, "oauth")
            /\ UNCHANGED bearer
  /\ UNCHANGED <<now, token, charge, secret, paystack, owed, log>>

(* expires_in is a string; what is no positive number counts as the default. *)
Seconds(stated) == IF stated = Malformed THEN Default ELSE stated

NoMargin(secs) == now + secs
Expiry(secs) == now + secs - Margin

(* The answer of the OAuth endpoint, which issued the token on its way. *)
FetchToken(c) ==
  /\ pc[c] = "oauth"
  /\ \E stated \in Lives \cup {Malformed}, issued \in since[c] .. now :
       token' = [until  |-> issued + Seconds(stated),
                 expiry |-> Expiry(Seconds(stated))]
  /\ bearer'  = [bearer EXCEPT ![c] = token']
  /\ tokenMu' = None
  /\ Goto(c, "push")
  /\ UNCHANGED <<now, charge, secret, paystack, owed, log>>

(* Any failure of the fetch; the deferred Unlock runs. *)
HeldOnError(c) == tokenMu
OnError(c) == None

FetchFails(c) ==
  /\ pc[c] = "oauth"
  /\ tokenMu' = OnError(c)
  /\ Goto(c, "done")
  /\ UNCHANGED <<now, token, bearer, charge, secret, paystack, owed, log>>

-----------------------------------------------------------------------------
(* Daraja prompts the customer for a push whose token it still honours, ...  *)
Prompt(c) ==
  /\ pc[c] = "push" /\ charge[c] = None
  /\ now < bearer[c].until
  /\ charge' = [charge EXCEPT ![c] = "prompted"]
  /\ UNCHANGED <<now, client, secret, paystack, owed, log>>

(* ... who pays or does not, whatever the caller is told. *)
Settle(c, outcome) ==
  /\ charge[c] = "prompted" /\ c \in Customers
  /\ charge' = [charge EXCEPT ![c] = outcome]
  /\ owed'   = owed \cup {c}
  /\ UNCHANGED <<now, client, secret, paystack, log>>

(* STKPush returns.  Any error may stand for a prompt whose answer was lost; *)
(* a result comes after the prompt.                                          *)
PushAnswered(c) ==
  /\ pc[c] = "push"
  /\ Goto(c, "done")
  /\ bearer' = [bearer EXCEPT ![c] = None]
  /\ UNCHANGED <<now, tokenMu, token, charge, secret, paystack, owed, log>>

(* An acknowledged result is not told again, unless the answer was lost. *)
Acknowledged(x) == owed' \in {owed \ {x}, owed}

(* mpesa.WebhookHandler logs the result and acknowledges. *)
Callback(c) ==
  /\ c \in owed /\ secret
  /\ log' = log \cup {[ref |-> c, paid |-> charge[c] = "paid"]}
  /\ Acknowledged(c)
  /\ UNCHANGED <<now, client, charge, secret, paystack>>

-----------------------------------------------------------------------------
(* InitializeTransaction sent the customer to Paystack's form: a charge      *)
(* succeeds, which Paystack tells, and may be reversed later.                *)
Charge(r, next) ==
  /\ <<status[r], next>> \in {<<"pending", "success">>, <<"success", "reversed">>}
  /\ status' = [status EXCEPT ![r] = next]
  /\ owed'   = owed \cup (IF next = "success" THEN {r} ELSE {})
  /\ UNCHANGED <<now, client, charge, secret, hook, log>>

(* paystack.WebhookHandler: the signature holds and the event is             *)
(* charge.success; the API is asked before anything is logged.               *)
Deliver(h, r) ==
  /\ hook[h] = None /\ r \in owed
  /\ hook' = [hook EXCEPT ![h] = r]
  /\ UNCHANGED <<now, client, charge, secret, status, owed, log>>

Unverified(r) == FALSE
VerifyTransaction(r) == status[r] = "success"

Verified(h) ==
  /\ hook[h] # None
  /\ log' = log \cup {[ref |-> hook[h], paid |-> VerifyTransaction(hook[h])]}
  /\ Acknowledged(hook[h])
  /\ hook' = [hook EXCEPT ![h] = None]
  /\ UNCHANGED <<now, client, charge, secret, status>>

(* An error is answered with 500: Paystack tells it again. *)
Swallowed(r) == owed \ {r}
AfterError(r) == owed

VerifyFails(h) ==
  /\ hook[h] # None
  /\ owed' = AfterError(hook[h])
  /\ hook' = [hook EXCEPT ![h] = None]
  /\ UNCHANGED <<now, client, charge, secret, status, log>>

-----------------------------------------------------------------------------
Deliveries(r) == \E h \in Hooks : Deliver(h, r)

Next ==
  \/ Tick
  \/ \E c \in Calls :
       \/ STKPush(c) \/ TakeToken(c) \/ FetchToken(c) \/ FetchFails(c)
       \/ Prompt(c) \/ PushAnswered(c) \/ Callback(c)
       \/ \E outcome \in {"paid", "failed"} : Settle(c, outcome)
  \/ \E r \in Refs : Deliveries(r) \/ \E next \in {"success", "reversed"} : Charge(r, next)
  \/ \E h \in Hooks : Verified(h) \/ VerifyFails(h)

(* sync.Mutex starves nobody and no exchange outlasts its timeout.  The      *)
(* providers repeat what was not acknowledged, and Paystack's API does not   *)
(* fail for ever.                                                            *)
Fairness ==
  /\ \A c \in Calls :
       /\ SF_vars(TakeToken(c))
       /\ WF_vars(FetchToken(c) \/ FetchFails(c))
       /\ WF_vars(PushAnswered(c))
       /\ WF_vars(Callback(c))
  /\ \A r \in Refs : SF_vars(Deliveries(r))
  /\ \A h \in Hooks : SF_vars(Verified(h)) /\ WF_vars(Verified(h) \/ VerifyFails(h))

Spec == Init /\ [][Next]_vars /\ Fairness

-----------------------------------------------------------------------------
TypeOK ==
  /\ now \in Nat
  /\ tokenMu \in Calls \cup {None}
  /\ token \in AccessToken \cup {None}
  /\ pc \in [Calls -> {"idle", "lock", "oauth", "push", "done"}]
  /\ since \in [Calls -> Nat]
  /\ bearer \in [Calls -> AccessToken \cup {None}]
  /\ charge \in [Calls -> {None, "prompted", "paid", "failed"}]
  /\ secret \in BOOLEAN
  /\ status \in [Refs -> {"pending", "success", "reversed"}]
  /\ hook \in [Hooks -> Refs \cup {None}]
  /\ owed \subseteq Calls \cup Refs
  /\ log \subseteq Line

(* However long a fetch and a push take, and however old the cached token    *)
(* is: Daraja honours the token of a push for as long as the push lasts.     *)
TokenLive == \A c \in Calls : pc[c] = "push" => now < bearer[c].until

(* Concurrent pushes share one fetch: a token is replaced only when the      *)
(* cached one has reached its margin.                                        *)
FetchedOnce == [][token' # token => token = None \/ now >= token.expiry]_vars

(* The mutex is held by a fetch, by one at a time and for no longer than an  *)
(* exchange may last.                                                        *)
MutexMeansFetch == \A c \in Calls :
  tokenMu = c <=> pc[c] = "oauth" /\ now <= since[c] + Timeout

(* Whatever fails, every push returns: nobody keeps the mutex. *)
PushesEnd == \A c \in Calls : pc[c] = "lock" ~> pc[c] = "done"

(* The log is the audit trail: it says of a payment what the provider knew   *)
(* of it, and a result that is acknowledged, and so not told again, is in    *)
(* it.  That is less than a committed row: a line may be lost with its       *)
(* stream.                                                                   *)
LogTrue ==
  /\ \A l \in log : l.ref \in Calls => charge[l.ref] = IF l.paid THEN "paid" ELSE "failed"
  /\ \A l \in log : l.ref \in Refs =>
       status[l.ref] \in {"reversed"} \cup (IF l.paid THEN {"success"} ELSE {})

Told == {c \in Calls : charge[c] \in {"paid", "failed"}}
          \cup {r \in Refs : status[r] # "pending"}

NothingSwallowed == \A x \in Told \ owed : \E l \in log : l.ref = x

AuditTrail == LogTrue /\ NothingSwallowed

(* A payment gets its line in the log, however often the verification       *)
(* fails; one made through M-Pesa if its callbacks carry the secret.          *)
PaymentsLogged ==
  \A x \in Calls \cup Refs :
    (x \in Told /\ (x \in Calls => secret)) ~> (\E l \in log : l.ref = x)
=============================================================================
