--------------------------- MODULE PaymentsProofs ---------------------------
(***************************************************************************)
(* Tokens and the log for any number of calls, references and deliveries.  *)
(* The argument: an exchange lasts at most Timeout, so a token that was    *)
(* issued during a fetch outlives the refresh margin by the time of a      *)
(* push; whoever fetches holds the mutex; and what a provider still tells, *)
(* or a delivery verifies, has happened.                                   *)
(***************************************************************************)
EXTENDS Payments, TLAPS

(* The token a call goes on with outlives the exchange it began. *)
Clock ==
  /\ token # None => token.until >= token.expiry + Timeout
  /\ \A c \in Calls : pc[c] \in {"oauth", "push"} => since[c] <= now /\ now <= since[c] + Timeout
  /\ \A c \in Calls : pc[c] = "push" =>
       bearer[c] \in AccessToken /\ bearer[c].until > since[c] + Timeout

(* Whoever fetches holds the mutex and found no usable token. *)
Mutex ==
  \A c \in Calls : pc[c] = "oauth" =>
    tokenMu = c /\ (token = None \/ now >= token.expiry)

(* What is owed or verified has happened. *)
Happened ==
  /\ \A c \in Calls : c \in owed => charge[c] \in {"paid", "failed"}
  /\ \A r \in Refs : r \in owed => status[r] # "pending"
  /\ \A h \in Hooks : hook[h] # None => status[hook[h]] # "pending"

Inv == TypeOK /\ Clock /\ Mutex /\ Happened /\ AuditTrail

LEMMA InitInv == Init => Inv
<1> SUFFICES ASSUME Init PROVE Inv
  OBVIOUS
<1>1. TypeOK
  BY PaymentsAssumption DEF Init, TypeOK
<1>2. Clock /\ Mutex
  BY DEF Init, Clock, Mutex
<1>3. Happened /\ AuditTrail
  BY PaymentsAssumption DEF Init, Happened, AuditTrail, LogTrue, NothingSwallowed, Told
<1> QED
  BY <1>1, <1>2, <1>3 DEF Inv

(* The books depend on the provider's side only, the clock and the mutex on  *)
(* the client's.                                                             *)
LEMMA BooksAlone ==
  ASSUME Inv, UNCHANGED <<charge, paystack, owed, log>>
  PROVE  Happened' /\ AuditTrail'
BY DEF Inv, paystack, Happened, AuditTrail, LogTrue, NothingSwallowed, Told

LEMMA ClientAlone ==
  ASSUME Inv, UNCHANGED <<now, client>> PROVE Clock' /\ Mutex'
BY DEF Inv, client, Clock, Mutex

LEMMA TickInv == ASSUME Inv, Tick PROVE Inv'
<1> USE DEF Inv, TypeOK
<1>1. TypeOK'
  BY DEF Tick, client, paystack
<1>2. Clock'
  BY PaymentsAssumption DEF Tick, client, Clock
<1>3. Mutex'
  BY DEF Tick, client, Mutex, AccessToken
<1> QED
  BY <1>1, <1>2, <1>3, BooksAlone DEF Tick

LEMMA STKPushInv == ASSUME Inv, NEW c \in Calls, STKPush(c) PROVE Inv'
<1> USE DEF Inv, TypeOK
<1>1. TypeOK'
  BY DEF STKPush, paystack
<1>2. Clock' /\ Mutex'
  BY DEF STKPush, Clock, Mutex
<1> QED
  BY <1>1, <1>2, BooksAlone DEF STKPush

LEMMA TakeTokenInv == ASSUME Inv, NEW c \in Calls, TakeToken(c) PROVE Inv'
<1> USE DEF Inv, TypeOK
<1>1. TypeOK'
  BY DEF TakeToken, Goto, paystack
<1>2. CASE Usable(c)
  <2>1. token \in AccessToken /\ now < token.expiry /\ token.until >= token.expiry + Timeout
    BY <1>2 DEF Usable, Clock
  <2>2. token.until > now + Timeout
    BY <2>1, PaymentsAssumption DEF AccessToken
  <2>3. /\ pc' = [pc EXCEPT ![c] = "push"] /\ since' = [since EXCEPT ![c] = now]
        /\ bearer' = [bearer EXCEPT ![c] = token] /\ UNCHANGED <<now, token, tokenMu>>
    BY <1>2 DEF TakeToken, Goto
  <2>4. Clock'
    BY <2>1, <2>2, <2>3, PaymentsAssumption DEF Clock
  <2>5. Mutex'
    BY <2>3 DEF Mutex
  <2> QED
    BY <1>1, <2>4, <2>5, BooksAlone DEF TakeToken
<1>3. CASE ~Usable(c)
  <2>1. /\ pc' = [pc EXCEPT ![c] = "oauth"] /\ since' = [since EXCEPT ![c] = now]
        /\ tokenMu = None /\ tokenMu' = c /\ UNCHANGED <<now, token, bearer>>
    BY <1>3 DEF TakeToken, Goto, LockFree
  <2>2. Clock'
    BY <2>1, PaymentsAssumption DEF Clock
  <2>3. token = None \/ now >= token.expiry
    BY <1>3 DEF Usable, AccessToken
  <2>4. Mutex'
    BY <2>1, <2>3, PaymentsAssumption DEF Mutex
  <2> QED
    BY <1>1, <2>2, <2>4, BooksAlone DEF TakeToken
<1> QED
  BY <1>2, <1>3

LEMMA FetchTokenInv == ASSUME Inv, NEW c \in Calls, FetchToken(c) PROVE Inv'
<1> USE DEF Inv, TypeOK
<1>1. PICK stated \in Lives \cup {Malformed}, issued \in since[c] .. now :
        token' = [until  |-> issued + Seconds(stated), expiry |-> Expiry(Seconds(stated))]
  BY DEF FetchToken
<1> DEFINE secs == Seconds(stated)
<1>2. secs \in Nat /\ secs > 2 * Timeout
  BY PaymentsAssumption, MarginAssumption DEF Seconds
<1> HIDE DEF secs
<1>3. /\ issued \in Int /\ issued <= now /\ since[c] <= issued
      /\ since[c] <= now /\ now <= since[c] + Timeout
  BY DEF FetchToken, Clock
<1>4. /\ token' \in AccessToken
      /\ token'.until = issued + secs /\ token'.expiry = now + secs - Margin
  BY <1>1, <1>2, <1>3, PaymentsAssumption DEF secs, AccessToken, Expiry
<1>5. token'.until >= token'.expiry + Timeout /\ token'.until > now + Timeout
  BY <1>2, <1>3, <1>4, PaymentsAssumption, MarginAssumption
<1>6. /\ pc' = [pc EXCEPT ![c] = "push"] /\ since' = [since EXCEPT ![c] = now]
      /\ bearer' = [bearer EXCEPT ![c] = token'] /\ tokenMu' = None /\ now' = now
      /\ tokenMu = c
  BY DEF FetchToken, Goto, Mutex
<1>7. TypeOK'
  BY <1>4, <1>6 DEF FetchToken, paystack
<1>8. Clock'
  BY <1>4, <1>5, <1>6, PaymentsAssumption DEF Clock
<1>9. Mutex'
  BY <1>6 DEF Mutex
<1> QED
  BY <1>7, <1>8, <1>9, BooksAlone DEF FetchToken

LEMMA FetchFailsInv == ASSUME Inv, NEW c \in Calls, FetchFails(c) PROVE Inv'
<1> USE DEF Inv, TypeOK
<1>1. TypeOK'
  BY DEF FetchFails, Goto, OnError, paystack
<1>2. Clock' /\ Mutex'
  BY DEF FetchFails, Goto, OnError, Clock, Mutex
<1> QED
  BY <1>1, <1>2, BooksAlone DEF FetchFails

LEMMA PushAnsweredInv == ASSUME Inv, NEW c \in Calls, PushAnswered(c) PROVE Inv'
<1> USE DEF Inv, TypeOK
<1>1. TypeOK'
  BY DEF PushAnswered, Goto, paystack
<1>2. Clock' /\ Mutex'
  BY DEF PushAnswered, Goto, Clock, Mutex
<1> QED
  BY <1>1, <1>2, BooksAlone DEF PushAnswered

LEMMA PromptInv == ASSUME Inv, NEW c \in Calls, Prompt(c) PROVE Inv'
<1> USE DEF Inv, TypeOK
<1>1. TypeOK'
  BY DEF Prompt, client, paystack
<1>2. Happened' /\ AuditTrail'
  BY PaymentsAssumption DEF Prompt, paystack, Happened, AuditTrail, LogTrue, NothingSwallowed, Told
<1> QED
  BY <1>1, <1>2, ClientAlone DEF Prompt

LEMMA SettleInv ==
  ASSUME Inv, NEW c \in Calls, NEW outcome \in {"paid", "failed"}, Settle(c, outcome)
  PROVE  Inv'
<1> USE DEF Inv, TypeOK
<1>1. TypeOK'
  BY DEF Settle, client, paystack
<1>2. Happened'
  BY PaymentsAssumption DEF Settle, paystack, Happened
<1>3. AuditTrail'
  BY PaymentsAssumption DEF Settle, paystack, Happened, AuditTrail, LogTrue,
       NothingSwallowed, Told
<1> QED
  BY <1>1, <1>2, <1>3, ClientAlone DEF Settle

LEMMA CallbackInv == ASSUME Inv, NEW c \in Calls, Callback(c) PROVE Inv'
<1> USE DEF Inv, TypeOK
<1> DEFINE line == [ref |-> c, paid |-> charge[c] = "paid"]
<1>1. /\ line \in Line /\ line.ref = c /\ line.paid = (charge[c] = "paid")
      /\ log' = log \cup {line} /\ owed' \in {owed \ {c}, owed}
      /\ UNCHANGED <<now, client, charge, secret, paystack>>
      /\ charge[c] \in {"paid", "failed"}
  BY DEF Callback, Acknowledged, Line, Happened
<1> HIDE DEF line
<1>2. TypeOK'
  BY <1>1 DEF client, paystack
<1>3. Happened'
  BY <1>1 DEF paystack, Happened
<1>4. LogTrue'
  BY <1>1, PaymentsAssumption DEF paystack, AuditTrail, LogTrue
<1>5. NothingSwallowed'
  BY <1>1 DEF paystack, AuditTrail, NothingSwallowed, Told
<1> QED
  BY <1>1, <1>2, <1>3, <1>4, <1>5, ClientAlone DEF AuditTrail

LEMMA ChargeInv ==
  ASSUME Inv, NEW r \in Refs, NEW next \in {"success", "reversed"}, Charge(r, next)
  PROVE  Inv'
<1> USE DEF Inv, TypeOK
<1>1. TypeOK'
  BY DEF Charge, client, paystack
<1>2. Happened'
  BY PaymentsAssumption DEF Charge, Happened
<1>3. LogTrue'
  BY DEF Charge, AuditTrail, LogTrue
<1>4. NothingSwallowed'
  BY DEF Charge, AuditTrail, NothingSwallowed, Told
<1> QED
  BY <1>1, <1>2, <1>3, <1>4, ClientAlone DEF Charge, AuditTrail

LEMMA DeliverInv == ASSUME Inv, NEW h \in Hooks, NEW r \in Refs, Deliver(h, r) PROVE Inv'
<1> USE DEF Inv, TypeOK
<1>1. TypeOK'
  BY DEF Deliver, client
<1>2. Happened' /\ AuditTrail'
  BY DEF Deliver, Happened, AuditTrail, LogTrue, NothingSwallowed, Told
<1> QED
  BY <1>1, <1>2, ClientAlone DEF Deliver

LEMMA VerifiedInv == ASSUME Inv, NEW h \in Hooks, Verified(h) PROVE Inv'
<1> USE DEF Inv, TypeOK
<1> DEFINE r == hook[h]
           line == [ref |-> r, paid |-> VerifyTransaction(r)]
<1>1. /\ r \in Refs /\ line \in Line /\ line.ref = r /\ line.paid = (status[r] = "success")
      /\ log' = log \cup {line} /\ owed' \in {owed \ {r}, owed}
      /\ hook' = [hook EXCEPT ![h] = None]
      /\ UNCHANGED <<now, client, charge, secret, status>>
      /\ status[r] # "pending"
  BY DEF Verified, Acknowledged, VerifyTransaction, Line, Happened
<1> HIDE DEF line, r
<1>2. TypeOK'
  BY <1>1 DEF client
<1>3. Happened'
  BY <1>1, PaymentsAssumption DEF Happened
<1>4. LogTrue'
  BY <1>1, PaymentsAssumption DEF AuditTrail, LogTrue
<1>5. NothingSwallowed'
  BY <1>1 DEF AuditTrail, NothingSwallowed, Told
<1> QED
  BY <1>1, <1>2, <1>3, <1>4, <1>5, ClientAlone DEF AuditTrail

LEMMA VerifyFailsInv == ASSUME Inv, NEW h \in Hooks, VerifyFails(h) PROVE Inv'
<1> USE DEF Inv, TypeOK
<1>1. TypeOK'
  BY DEF VerifyFails, AfterError, client
<1>2. Happened' /\ AuditTrail'
  BY DEF VerifyFails, AfterError, Happened, AuditTrail, LogTrue, NothingSwallowed, Told
<1> QED
  BY <1>1, <1>2, ClientAlone DEF VerifyFails

LEMMA NextInv == ASSUME Inv, [Next]_vars PROVE Inv'
<1>1. CASE UNCHANGED vars
  <2>1. TypeOK'
    BY <1>1 DEF Inv, TypeOK, vars, client, paystack
  <2> QED
    BY <1>1, <2>1, ClientAlone, BooksAlone DEF Inv, vars
<1>2. CASE Next
  BY <1>2, TickInv, STKPushInv, TakeTokenInv, FetchTokenInv, FetchFailsInv, PromptInv,
     PushAnsweredInv, CallbackInv, SettleInv, DeliverInv, ChargeInv, VerifiedInv,
     VerifyFailsInv DEF Next, Deliveries
<1> QED
  BY <1>1, <1>2

LEMMA Invariant == Spec => []Inv
<1>1. Init => Inv
  BY InitInv
<1>2. Inv /\ [Next]_vars => Inv'
  BY NextInv
<1> QED
  BY <1>1, <1>2, PTL DEF Spec

-----------------------------------------------------------------------------
(* The state stays within its types. *)
THEOREM TypeCorrect == Spec => []TypeOK
<1>1. Inv => TypeOK
  BY DEF Inv
<1> QED
  BY <1>1, Invariant, PTL

(* Daraja honours the token of a push while the push lasts: accessToken      *)
(* refreshes early enough for both exchanges.                                *)
THEOREM TokensStayLive == Spec => []TokenLive
<1>1. Inv => TokenLive
  BY PaymentsAssumption DEF Inv, TypeOK, Clock, AccessToken, TokenLive
<1> QED
  BY <1>1, Invariant, PTL

(* The log is true of every payment it names and misses none that was        *)
(* acknowledged, whatever the webhooks meet.                                 *)
THEOREM LogIsComplete == Spec => []AuditTrail
<1>1. Inv => AuditTrail
  BY DEF Inv
<1> QED
  BY <1>1, Invariant, PTL

(* A usable token is never replaced: the mutex makes pushes share a fetch. *)
THEOREM FetchIsShared == Spec => FetchedOnce
<1> DEFINE Kept == token' # token => token = None \/ now >= token.expiry
<1>1. ASSUME Inv, [Next]_vars PROVE [Kept]_vars
  <2>1. ASSUME NEW c \in Calls, FetchToken(c) PROVE Kept
    BY <1>1, <2>1 DEF FetchToken, Inv, Mutex
  <2> QED
    BY <1>1, <2>1 DEF Next, vars, client, Deliveries, Tick, STKPush, TakeToken, FetchFails,
       Prompt, Settle, PushAnswered, Callback, Deliver, Charge, Verified, VerifyFails
<1>2. Inv /\ [Next]_vars => [Kept]_vars
  BY <1>1
<1> QED
  BY <1>2, Invariant, PTL DEF Spec, FetchedOnce
-----------------------------------------------------------------------------
(* Whoever holds the mutex is in a fetch. *)
Holder == tokenMu # None => pc[tokenMu] = "oauth"

LEMMA HolderStep == ASSUME Inv, Holder, [Next]_vars PROVE Holder'
<1> USE DEF Inv, TypeOK, Holder
<1>1. ASSUME NEW c \in Calls, STKPush(c) PROVE Holder'
  BY <1>1 DEF STKPush
<1>2. ASSUME NEW c \in Calls, TakeToken(c) PROVE Holder'
  BY <1>2 DEF TakeToken, Goto, LockFree
<1>3. ASSUME NEW c \in Calls, FetchToken(c) \/ FetchFails(c) PROVE Holder'
  BY <1>3 DEF FetchToken, FetchFails, OnError
<1>4. ASSUME NEW c \in Calls, PushAnswered(c) PROVE Holder'
  BY <1>4 DEF PushAnswered, Goto
<1>5. CASE UNCHANGED <<tokenMu, pc>>
  BY <1>5
<1>6. CASE UNCHANGED vars \/ Tick
  BY <1>5, <1>6 DEF vars, client, Tick
<1>7. ASSUME NEW c \in Calls, NEW outcome, Prompt(c) \/ Settle(c, outcome) \/ Callback(c)
      PROVE  Holder'
  BY <1>5, <1>7 DEF Prompt, Settle, Callback, client
<1>8. ASSUME NEW r, NEW h, NEW next, Charge(r, next) \/ Deliver(h, r) \/ Verified(h) \/ VerifyFails(h)
      PROVE  Holder'
  BY <1>5, <1>8 DEF Charge, Deliver, Verified, VerifyFails, client
<1> QED
  BY <1>1, <1>2, <1>3, <1>4, <1>6, <1>7, <1>8 DEF Next, Deliveries

(* The mutex is never held without cause: whoever holds it is in a fetch     *)
(* that Timeout bounds, so a push that waits for it waits for an exchange    *)
(* and not for a call that has left.  What remains of PushesEnd is that the  *)
(* mutex is fair and the exchange ends, which Spec assumes.                  *)
THEOREM MutexIsAFetch == Spec => []MutexMeansFetch
<1>1. Init => Holder
  BY DEF Init, Holder
<1>2. Inv /\ Holder /\ [Next]_vars => Holder'
  BY HolderStep
<1>3. Inv /\ Holder => MutexMeansFetch
  BY PaymentsAssumption DEF Inv, Holder, Clock, Mutex, MutexMeansFetch
<1> QED
  BY <1>1, <1>2, <1>3, Invariant, PTL DEF Spec
=============================================================================
