---------------------------- MODULE IntakeProofs ----------------------------
(***************************************************************************)
(* What replies promise and whose writes are made, for any number of       *)
(* calls, organizations and ids.  The argument: an id is minted once, so   *)
(* a stored row is only ever touched by a completion that names it; and a  *)
(* completion past its first transaction has marked its row or missed it,  *)
(* and stands before the job of what it marked until it is answered or cut *)
(* off.                                                                    *)
(***************************************************************************)
EXTENDS Intake, TLAPS

(* What the handler of a call has in hand at each step. *)
CallInv(c) ==
  /\ pc[c] = "upload" => msg[c] \in InitiateDatasetUploadRequest
  /\ pc[c] \in {"complete", "enqueue"} =>
       msg[c] \in CompleteDatasetUploadRequest /\ msg[c].upload_id \in minted
  /\ pc[c] \in {"push", "record", "unchecked"} => msg[c] \in InitiateMpesaStkPushRequest
  /\ pc[c] = "enqueue" =>
       \/ \A d \in datasets : Names(c, d) => d.status = "PROCESSING"
       \/ "status" \in missed[c]
  /\ pc[c] = "record" /\ caller[c] # None =>
       Role[msg[c].organization_id][caller[c]] \in {"owner", "admin", None}

(* Rows and completed uploads carry ids that were minted. *)
MintedInv ==
  /\ \A d \in datasets : d.dataset_id \in minted
  /\ \A t \in told : t.reply \in CompleteDatasetUploadResponse => t.request.upload_id \in minted

Inv == /\ TypeOK /\ MintedInv /\ ConfirmedIsKept /\ ProcessingHasJob
       /\ \A c \in Calls : CallInv(c)

LEMMA Ranks == /\ RoleRank("owner") = 40 /\ RoleRank("admin") = 30
               /\ RoleRank("geologist") = 20 /\ RoleRank("viewer") = 10
BY DEF RoleRank

(* The three kinds of reply do not overlap. *)
LEMMA ReplyKinds ==
  /\ InitiateDatasetUploadResponse \cap CompleteDatasetUploadResponse = {}
  /\ InitiateDatasetUploadResponse \cap InitiateMpesaStkPushResponse = {}
  /\ CompleteDatasetUploadResponse \cap InitiateMpesaStkPushResponse = {}
BY DEF InitiateDatasetUploadResponse, CompleteDatasetUploadResponse,
       InitiateMpesaStkPushResponse

LEMMA InitInv == Init => Inv
BY DEF Init, Inv, TypeOK, MintedInv, ConfirmedIsKept, ProcessingHasJob, CallInv

(* Rows are only added under new ids or marked, nothing else goes away: what *)
(* was kept stays kept.                                                      *)
Grows ==
  /\ jobs \subseteq jobs' /\ attempts \subseteq attempts' /\ minted \subseteq minted'
  /\ told \subseteq told' /\ cut \subseteq cut'
  /\ \A d \in datasets : \E e \in datasets' :
       /\ e.dataset_id = d.dataset_id /\ e.organization_id = d.organization_id
       /\ e.project_id = d.project_id
  /\ \A e \in datasets' : e \in datasets \/ e.status = "PROCESSING" \/ e.dataset_id \notin minted

LEMMA StaysKept == ASSUME Inv, Grows, NEW t \in told PROVE Kept(t)'
<1>1. Kept(t)
  BY DEF Inv, ConfirmedIsKept
<1>2. UploadKept(t) => UploadKept(t)'
  BY DEF Grows, UploadKept
<1>3. t.reply \in CompleteDatasetUploadResponse /\ CompletionKept(t) => CompletionKept(t)'
  BY DEF Grows, CompletionKept, Is, Inv, MintedInv
<1>4. AttemptKept(t) => AttemptKept(t)'
  BY DEF Grows, AttemptKept
<1> QED
  BY <1>1, <1>2, <1>3, <1>4 DEF Kept

(* A call that is not running one of these steps keeps what it has in hand. *)
LEMMA OthersStay ==
  ASSUME Inv, Grows, NEW c \in Calls, pc'[c] = pc[c], msg'[c] = msg[c], caller'[c] = caller[c],
         missed'[c] = missed[c]
  PROVE  CallInv(c)'
BY DEF Inv, Grows, CallInv, Names

LEMMA EndsClean == ASSUME NEW c \in Calls, pc'[c] = "idle" PROVE CallInv(c)'
BY DEF CallInv

(* One call acts, and the tables grow. *)
LEMMA OneMoves ==
  ASSUME Inv, Grows, NEW c \in Calls, CallInv(c)',
         \A d \in Calls : d # c => /\ pc'[d] = pc[d] /\ msg'[d] = msg[d]
                                   /\ caller'[d] = caller[d] /\ missed'[d] = missed[d]
  PROVE  \A d \in Calls : CallInv(d)'
<1> SUFFICES ASSUME NEW d \in Calls, d # c PROVE CallInv(d)'
  OBVIOUS
<1> QED
  BY OthersStay

(* A dataset keeps its job, or its excuse: what is newly marked is named by  *)
(* a call that stands before the insert, and a call that leaves that place   *)
(* has inserted the job, was cut off, or was answered without it.            *)
Accounted(c) ==
  \/ pc'[c] = "enqueue" /\ msg'[c] = msg[c]
  \/ Job(c) \in jobs' \cup cut'
  \/ \E t \in told' : /\ t.request = msg[c] /\ t.reply \in CompleteDatasetUploadResponse
                      /\ "job" \in t.missed \/ "queue" \in t.missed

LEMMA JobsStay ==
  ASSUME Inv, Grows,
         \A e \in datasets' : \/ e \in datasets \/ e.status # "PROCESSING"
                              \/ \E c \in Calls : pc'[c] = "enqueue" /\ Is(e, msg'[c]),
         \A c \in Calls : pc[c] = "enqueue" => Accounted(c)
  PROVE  ProcessingHasJob'
<1> SUFFICES ASSUME NEW e \in datasets', e.status = "PROCESSING"
             PROVE  JobOf(e) \in jobs' \/ Orphaned(e)'
  BY DEF ProcessingHasJob, JobOf
<1>1. CASE \E c \in Calls : pc'[c] = "enqueue" /\ Is(e, msg'[c])
  BY <1>1 DEF Orphaned, Is
<1>2. CASE e \in datasets
  <2>1. JobOf(e) \in jobs \/ Orphaned(e)
    BY <1>2 DEF Inv, ProcessingHasJob
  <2>2. CASE JobOf(e) \in jobs \cup cut
    BY <2>2 DEF Grows, Orphaned, JobOf
  <2>3. CASE \E t \in told : /\ t.reply \in CompleteDatasetUploadResponse /\ Is(e, t.request)
                             /\ "job" \in t.missed \/ "queue" \in t.missed
    BY <2>3 DEF Grows, Orphaned, Is
  <2>4. ASSUME NEW c \in Calls, pc[c] = "enqueue", Is(e, msg[c])
        PROVE  JobOf(e) \in jobs' \/ Orphaned(e)'
    <3>1. Job(c) = JobOf(e)
      BY <2>4 DEF Job, JobOf, Is
    <3>2. CASE pc'[c] = "enqueue" /\ msg'[c] = msg[c]
      BY <2>4, <3>2 DEF Orphaned, Is
    <3>3. CASE Job(c) \in jobs' \cup cut'
      BY <3>1, <3>3 DEF Orphaned, JobOf
    <3>4. CASE \E t \in told' : /\ t.request = msg[c]
                                /\ t.reply \in CompleteDatasetUploadResponse
                                /\ "job" \in t.missed \/ "queue" \in t.missed
      BY <2>4, <3>4 DEF Orphaned, Is
    <3> QED
      BY <2>4, <3>2, <3>3, <3>4 DEF Accounted
  <2> QED
    BY <2>1, <2>2, <2>3, <2>4 DEF Orphaned
<1> QED
  BY <1>1, <1>2

LEMMA StartInv ==
  ASSUME Inv, NEW c \in Calls, NEW u \in Users \cup {None}, NEW m \in Request,
         NEW at \in {"upload", "complete", "push"}, Start(c, u, m, at),
         at = "upload" => m \in InitiateDatasetUploadRequest,
         at = "complete" => m \in CompleteDatasetUploadRequest /\ m.upload_id \in minted,
         at = "push" => m \in InitiateMpesaStkPushRequest
  PROVE  Inv'
<1>1. TypeOK'
  BY DEF Start, Inv, TypeOK, tables
<1>2. Grows /\ MintedInv'
  BY DEF Start, Inv, MintedInv, Grows, tables
<1>3. CallInv(c)'
  BY DEF Start, Inv, TypeOK, CallInv
<1>4. \A d \in Calls : CallInv(d)'
  BY <1>2, <1>3, OneMoves DEF Start, Inv, TypeOK
<1>5. ConfirmedIsKept'
  BY <1>2, StaysKept DEF Start, ConfirmedIsKept
<1>6. ProcessingHasJob'
  BY <1>2, JobsStay DEF Start, tables, Accounted, Inv, TypeOK
<1> QED
  BY <1>1, <1>2, <1>4, <1>5, <1>6 DEF Inv

LEMMA UploadInv ==
  ASSUME Inv, NEW c \in Calls, NEW id \in Ids, InitiateDatasetUpload(c, id)
  PROVE  Inv'
<1> DEFINE row == Quarantined(c, id)
           answer(l) == [request |-> msg[c], reply |-> [upload_id |-> id],
                         missed |-> missed[c] \cup l]
<1>0. PICK lost \in {{}, {"row"}} :
        /\ Written(lost, datasets' = datasets \cup {row} /\ UNCHANGED <<jobs, attempts>>)
        /\ Answer(c, [upload_id |-> id], lost)
  BY DEF InitiateDatasetUpload
<1>a. PICK t : t = answer(lost)
  OBVIOUS
<1>1. msg[c] \in InitiateDatasetUploadRequest /\ msg[c] \in Request
  BY DEF Inv, CallInv, InitiateDatasetUpload, Request
<1>2. /\ row \in GisDatasetSummary /\ row.dataset_id = id
      /\ row.organization_id = msg[c].organization_id /\ row.project_id = msg[c].project_id
  BY <1>1 DEF Quarantined, GisDatasetSummary, InitiateDatasetUploadRequest, IngestionStatus
<1>3. /\ t \in Reply /\ t.request = msg[c] /\ t.reply = [upload_id |-> id]
      /\ t.reply \in InitiateDatasetUploadResponse /\ t.reply.upload_id = id
      /\ t.missed = missed[c] \cup lost
  BY <1>a, <1>1 DEF Reply, InitiateDatasetUploadResponse, Write, Inv, TypeOK
<1>4. /\ \/ datasets' = datasets \cup {row}
         \/ datasets' = datasets /\ "row" \in t.missed
      /\ id \notin minted /\ minted' = minted \cup {id} /\ UNCHANGED <<jobs, attempts>>
      /\ pc' = [pc EXCEPT ![c] = "idle"] /\ msg' = [msg EXCEPT ![c] = None]
      /\ caller' = [caller EXCEPT ![c] = None] /\ missed' = [missed EXCEPT ![c] = {}]
      /\ told' = told \cup {t} /\ UNCHANGED <<river, cut, sent>> /\ faults' \in {faults, faults + 1}
      /\ pc[c] = "upload"
  BY <1>0, <1>a, <1>3 DEF InitiateDatasetUpload, Written, Answer, End, tables
<1>b. row.status = "QUARANTINED"
  BY DEF Quarantined
<1> HIDE DEF row, answer
<1>5. TypeOK'
  BY <1>1, <1>2, <1>3, <1>4 DEF Inv, TypeOK
<1>6. Grows
  BY <1>2, <1>4 DEF Grows
<1>7. MintedInv'
  BY <1>2, <1>3, <1>4, ReplyKinds DEF Inv, MintedInv
<1>8. Kept(t)'
  BY <1>2, <1>3, <1>4, ReplyKinds DEF Kept, UploadKept
<1>9. ConfirmedIsKept'
  BY <1>4, <1>6, <1>8, StaysKept DEF ConfirmedIsKept
<1>10. \A d \in Calls : CallInv(d)'
  BY <1>4, <1>6, OneMoves, EndsClean DEF Inv, TypeOK
<1>11. ProcessingHasJob'
  BY <1>4, <1>b, <1>6, JobsStay DEF Accounted, Inv, TypeOK
<1> QED
  BY <1>5, <1>7, <1>9, <1>10, <1>11 DEF Inv

LEMMA MarkInv == ASSUME Inv, NEW c \in Calls, MarkProcessing(c) PROVE Inv'
<1>0. PICK lost \in {{}, {"status"}} :
        /\ Written(lost, datasets' = Marked(c) /\ UNCHANGED <<jobs, attempts>>)
        /\ missed' = [missed EXCEPT ![c] = lost]
  BY DEF MarkProcessing
<1>1. msg[c] \in CompleteDatasetUploadRequest /\ msg[c] \in Request
      /\ msg[c].upload_id \in minted /\ msg[c].upload_id \in Ids
  BY DEF Inv, TypeOK, CallInv, MarkProcessing, Request
<1>2. /\ \/ datasets' = Marked(c)
         \/ datasets' = datasets /\ "status" \in lost
      /\ UNCHANGED <<jobs, attempts, minted, msg, caller, told, river, cut, sent>>
      /\ faults' \in {faults, faults + 1}
      /\ pc[c] = "complete" /\ pc' = [pc EXCEPT ![c] = "enqueue"]
      /\ missed' = [missed EXCEPT ![c] = lost]
  BY <1>0 DEF MarkProcessing, Written, Goto, tables
<1>3. \A d \in datasets :
        /\ d \in GisDatasetSummary
        /\ [d EXCEPT !.status = "PROCESSING"] \in GisDatasetSummary
        /\ [d EXCEPT !.status = "PROCESSING"].dataset_id = d.dataset_id
        /\ [d EXCEPT !.status = "PROCESSING"].organization_id = d.organization_id
        /\ [d EXCEPT !.status = "PROCESSING"].project_id = d.project_id
        /\ [d EXCEPT !.status = "PROCESSING"].status = "PROCESSING"
  BY DEF Inv, TypeOK, GisDatasetSummary, IngestionStatus
<1>4. /\ \A e \in Marked(c) : \E d \in datasets :
           \/ e = d /\ ~Names(c, d)
           \/ e = [d EXCEPT !.status = "PROCESSING"]
      /\ \A d \in datasets : d \in Marked(c) \/ [d EXCEPT !.status = "PROCESSING"] \in Marked(c)
  BY DEF Marked
<1>5. TypeOK'
  <2>1. Marked(c) \subseteq GisDatasetSummary
    BY <1>3, <1>4
  <2>2. lost \in SUBSET Write
    BY DEF Write
  <2> QED
    BY <1>2, <2>1, <2>2 DEF Inv, TypeOK
<1>6. Grows
  BY <1>2, <1>3, <1>4 DEF Grows
<1>7. MintedInv'
  BY <1>2, <1>3, <1>4 DEF Inv, MintedInv
<1>8. ConfirmedIsKept'
  BY <1>2, <1>6, StaysKept DEF ConfirmedIsKept
<1>9. CallInv(c)'
  <2>1. pc'[c] = "enqueue" /\ msg'[c] = msg[c] /\ missed'[c] = lost
    BY <1>2 DEF Inv, TypeOK
  <2>2. CASE datasets' = Marked(c)
    <3>1. \A e \in Marked(c) : Names(c, e) => e.status = "PROCESSING"
      BY <1>3, <1>4 DEF Names
    <3> QED
      BY <1>1, <1>2, <2>1, <2>2, <3>1 DEF CallInv, Names
  <2>3. CASE "status" \in lost
    BY <1>1, <1>2, <2>1, <2>3 DEF CallInv
  <2> QED
    BY <1>2, <2>2, <2>3
<1>10. \A d \in Calls : CallInv(d)'
  BY <1>2, <1>6, <1>9, OneMoves DEF Inv, TypeOK
<1>11. ProcessingHasJob'
  <2>1. pc'[c] = "enqueue" /\ msg'[c] = msg[c]
    BY <1>2 DEF Inv, TypeOK
  <2>2. \A e \in Marked(c) : e \in datasets \/ Is(e, msg[c])
    BY <1>3 DEF Marked, Names, Is, GisDatasetSummary
  <2>3. \A d \in Calls : pc[d] = "enqueue" => pc'[d] = "enqueue" /\ msg'[d] = msg[d]
    BY <1>2 DEF Inv, TypeOK
  <2> QED
    BY <1>2, <1>6, <2>1, <2>2, <2>3, JobsStay DEF Accounted
<1> QED
  BY <1>5, <1>7, <1>8, <1>10, <1>11 DEF Inv

LEMMA EnqueueInv == ASSUME Inv, NEW c \in Calls, Enqueue(c) PROVE Inv'
<1> DEFINE id == msg[c].upload_id
           reply == [dataset_id |-> id, status |-> "PROCESSING"]
           answer(l) == [request |-> msg[c], reply |-> reply, missed |-> missed[c] \cup l]
<1>0. PICK lost \in {{}, {"job"}, {"queue"}} :
        /\ \/ river /\ lost # {"queue"}
              /\ Written(lost, jobs' = JobsAfter(c) /\ UNCHANGED <<datasets, attempts>>)
           \/ ~river /\ lost = {"queue"} /\ UNCHANGED <<tables, faults>>
        /\ Answer(c, reply, lost)
  BY DEF Enqueue
<1>a. PICK t : t = answer(lost)
  OBVIOUS
<1>1. /\ msg[c] \in CompleteDatasetUploadRequest /\ msg[c] \in Request
      /\ id \in minted /\ id \in Ids
  BY DEF Inv, TypeOK, CallInv, Enqueue, Request
<1>2. Job(c) \in GisIngestionArgs
  BY <1>1 DEF Job, GisIngestionArgs, CompleteDatasetUploadRequest
<1>3. /\ t \in Reply /\ t.request = msg[c] /\ t.reply \in CompleteDatasetUploadResponse
      /\ t.missed = missed[c] \cup lost
  BY <1>a, <1>1 DEF Reply, CompleteDatasetUploadResponse, Write, Inv, TypeOK
<1>4. /\ \/ jobs' = jobs \cup {Job(c)}
         \/ jobs' = jobs /\ ("job" \in t.missed \/ "queue" \in t.missed)
      /\ UNCHANGED <<datasets, attempts, minted, river, cut, sent>>
      /\ faults' \in {faults, faults + 1}
      /\ pc' = [pc EXCEPT ![c] = "idle"] /\ msg' = [msg EXCEPT ![c] = None]
      /\ caller' = [caller EXCEPT ![c] = None] /\ missed' = [missed EXCEPT ![c] = {}]
      /\ told' = told \cup {t}
  BY <1>0, <1>a, <1>3 DEF Enqueue, JobsAfter, Written, Answer, End, tables
<1>5. \/ \A d \in datasets : Names(c, d) => d.status = "PROCESSING"
      \/ "status" \in t.missed
  BY <1>3 DEF Inv, CallInv, Enqueue
<1> HIDE DEF reply, answer
<1>6. TypeOK'
  BY <1>1, <1>2, <1>3, <1>4 DEF Inv, TypeOK
<1>7. Grows
  BY <1>4 DEF Grows
<1>8. MintedInv'
  BY <1>1, <1>3, <1>4 DEF Inv, MintedInv
<1>9. Kept(t)'
  BY <1>3, <1>4, <1>5, ReplyKinds DEF Kept, CompletionKept, Names, Is, Job, JobFor
<1>10. ConfirmedIsKept'
  BY <1>4, <1>7, <1>9, StaysKept DEF ConfirmedIsKept
<1>11. \A d \in Calls : CallInv(d)'
  BY <1>4, <1>7, OneMoves, EndsClean DEF Inv, TypeOK
<1>12. ProcessingHasJob'
  <2>1. Accounted(c)
    BY <1>3, <1>4 DEF Accounted
  <2>2. \A d \in Calls : d # c => pc'[d] = pc[d] /\ msg'[d] = msg[d]
    BY <1>4 DEF Inv, TypeOK
  <2>3. \A d \in Calls : pc[d] = "enqueue" => Accounted(d)
    BY <2>1, <2>2 DEF Accounted
  <2> QED
    BY <1>4, <1>7, <2>3, JobsStay
<1> QED
  BY <1>6, <1>8, <1>10, <1>11, <1>12 DEF Inv

LEMMA CheckRoleInv == ASSUME Inv, NEW c \in Calls, CheckRole(c) PROVE Inv'
<1>1. /\ UNCHANGED <<tables, minted, river, told, cut, faults, sent>> /\ pc[c] = "push"
      /\ \/ /\ pc' = [pc EXCEPT ![c] = "idle"] /\ msg' = [msg EXCEPT ![c] = None]
            /\ caller' = [caller EXCEPT ![c] = None] /\ missed' = [missed EXCEPT ![c] = {}]
         \/ /\ pc' = [pc EXCEPT ![c] = "record"] /\ UNCHANGED <<msg, caller, missed>>
            /\ ~Refused(c)
         \/ pc' = [pc EXCEPT ![c] = "unchecked"] /\ UNCHANGED <<msg, caller, missed>>
  BY DEF CheckRole, End, Goto
<1>2. TypeOK'
  BY <1>1 DEF Inv, TypeOK, tables
<1>3. Grows /\ MintedInv'
  BY <1>1 DEF Inv, MintedInv, Grows, tables
<1>4. ConfirmedIsKept'
  BY <1>1, <1>3, StaysKept DEF ConfirmedIsKept
<1>5. ~Refused(c) => Role[msg[c].organization_id][caller[c]] \in {"owner", "admin", None}
  <2>1. msg[c].organization_id \in Orgs /\ caller[c] \in Users
    BY DEF Inv, TypeOK, CallInv, CheckRole, InitiateMpesaStkPushRequest
  <2>2. Role[msg[c].organization_id][caller[c]] \in TenantRole \cup {None}
    BY <2>1, IntakeAssumption
  <2> QED
    BY <2>2, Ranks DEF Refused, TenantRole
<1>6. CallInv(c)'
  BY <1>1, <1>5 DEF Inv, TypeOK, CallInv, CheckRole
<1>7. \A d \in Calls : CallInv(d)'
  BY <1>1, <1>3, <1>6, OneMoves DEF Inv, TypeOK
<1>8. ProcessingHasJob'
  BY <1>1, <1>3, JobsStay DEF Accounted, Inv, TypeOK, tables
<1> QED
  BY <1>2, <1>3, <1>4, <1>7, <1>8 DEF Inv

LEMMA RecordInv ==
  ASSUME Inv, NEW c \in Calls, NEW id \in Ids, RecordAttempt(c, id) PROVE Inv'
<1> DEFINE new == IF msg[c].plan_id \in Plans THEN {Attempt(c, id)} ELSE {}
           answer(l) == [request |-> msg[c], reply |-> [payment_attempt_id |-> id],
                         missed |-> missed[c] \cup l]
<1>0. PICK lost \in {{}, {"attempt"}} :
        /\ Written(lost, attempts' = attempts \cup new /\ UNCHANGED <<datasets, jobs>>)
        /\ Answer(c, [payment_attempt_id |-> id], lost)
  BY DEF RecordAttempt
<1>a. PICK t : t = answer(lost)
  OBVIOUS
<1>1. msg[c] \in InitiateMpesaStkPushRequest /\ msg[c] \in Request
  BY DEF Inv, CallInv, RecordAttempt, ReadyToRecord, Request
<1>2. new \subseteq PaymentAttempt
  BY <1>1 DEF Attempt, PaymentAttempt, InitiateMpesaStkPushRequest
<1>3. /\ msg[c].plan_id \in Plans => Attempt(c, id) \in new
      /\ Attempt(c, id).id = id
      /\ Attempt(c, id).organization_id = msg[c].organization_id
  BY DEF Attempt
<1>4. /\ t \in Reply /\ t.request = msg[c] /\ t.reply.payment_attempt_id = id
      /\ t.reply \in InitiateMpesaStkPushResponse /\ t.missed = missed[c] \cup lost
  BY <1>a, <1>1 DEF Reply, InitiateMpesaStkPushResponse, Write, Inv, TypeOK
<1>5. /\ \/ attempts' = attempts \cup new
         \/ attempts' = attempts /\ "attempt" \in t.missed
      /\ minted' = minted \cup {id} /\ UNCHANGED <<datasets, jobs, river, cut, sent>>
      /\ faults' \in {faults, faults + 1} /\ pc[c] # "enqueue"
      /\ pc' = [pc EXCEPT ![c] = "idle"] /\ msg' = [msg EXCEPT ![c] = None]
      /\ caller' = [caller EXCEPT ![c] = None] /\ missed' = [missed EXCEPT ![c] = {}]
      /\ told' = told \cup {t}
  BY <1>0, <1>a, <1>4 DEF RecordAttempt, ReadyToRecord, Written, Answer, End, tables
<1> HIDE DEF answer, new
<1>6. TypeOK'
  BY <1>1, <1>2, <1>4, <1>5 DEF Inv, TypeOK
<1>7. Grows
  BY <1>5 DEF Grows
<1>8. MintedInv'
  BY <1>4, <1>5, ReplyKinds DEF Inv, MintedInv
<1>9. Kept(t)'
  BY <1>3, <1>4, <1>5, ReplyKinds DEF Kept, AttemptKept
<1>10. ConfirmedIsKept'
  BY <1>5, <1>7, <1>9, StaysKept DEF ConfirmedIsKept
<1>11. \A d \in Calls : CallInv(d)'
  BY <1>5, <1>7, OneMoves, EndsClean DEF Inv, TypeOK
<1>12. ProcessingHasJob'
  BY <1>5, <1>7, JobsStay DEF Accounted, Inv, TypeOK
<1> QED
  BY <1>6, <1>8, <1>10, <1>11, <1>12 DEF Inv

LEMMA CrashInv == ASSUME Inv, Crash PROVE Inv'
<1>1. MintedInv' /\ \A c \in Calls : CallInv(c)'
  BY DEF Crash, Inv, MintedInv, CallInv, tables
<1>2. \A c \in Calls : pc[c] = "enqueue" => Job(c) \in GisIngestionArgs
  BY DEF Inv, CallInv, Job, GisIngestionArgs, CompleteDatasetUploadRequest
<1>3. TypeOK'
  BY <1>2 DEF Crash, Inv, TypeOK, tables
<1>4. Grows
  BY DEF Crash, Grows, tables
<1>5. ConfirmedIsKept'
  BY <1>4, StaysKept DEF Crash, ConfirmedIsKept
<1>6. ProcessingHasJob'
  BY <1>4, JobsStay DEF Crash, Accounted, tables
<1> QED
  BY <1>1, <1>3, <1>5, <1>6 DEF Inv

LEMMA StutterInv == ASSUME Inv, UNCHANGED vars PROVE Inv'
<1>1. TypeOK' /\ MintedInv' /\ \A c \in Calls : CallInv(c)'
  BY DEF vars, Inv, TypeOK, MintedInv, CallInv, Names, tables, call, history
<1>2. Grows
  BY DEF vars, Grows, tables, history
<1>3. ConfirmedIsKept'
  BY <1>2, StaysKept DEF vars, history, ConfirmedIsKept
<1>4. ProcessingHasJob'
  BY <1>2, JobsStay DEF vars, Accounted, tables, call
<1> QED
  BY <1>1, <1>3, <1>4 DEF Inv

LEMMA NextInv == ASSUME Inv, [Next]_vars PROVE Inv'
<1>1. ASSUME NEW c \in Calls, NEW m \in InitiateDatasetUploadRequest, Start(c, None, m, "upload")
      PROVE  Inv'
  BY <1>1, StartInv DEF Request
<1>2. ASSUME NEW c \in Calls, NEW m \in CompleteDatasetUploadRequest, m.upload_id \in minted,
             Start(c, None, m, "complete")
      PROVE  Inv'
  BY <1>2, StartInv DEF Request
<1>3. ASSUME NEW c \in Calls, NEW m \in InitiateMpesaStkPushRequest,
             NEW u \in Users \cup {None}, Start(c, u, m, "push")
      PROVE  Inv'
  BY <1>3, StartInv DEF Request
<1> QED
  BY <1>1, <1>2, <1>3, UploadInv, MarkInv, EnqueueInv, CheckRoleInv, RecordInv, CrashInv,
     StutterInv DEF Next

LEMMA Invariant == Spec => []Inv
<1>1. Init => Inv
  BY InitInv
<1>2. Inv /\ [Next]_vars => Inv'
  BY NextInv
<1> QED
  BY <1>1, <1>2, PTL DEF Spec

-----------------------------------------------------------------------------
(* The state stays within its types. *)
THEOREM TypeCorrect == Spec => []TypeOK
<1>1. Inv => TypeOK
  BY DEF Inv
<1> QED
  BY <1>1, Invariant, PTL

(* A reply is only untrue of what its own call could not write: whatever     *)
(* other calls missed, a completion that missed nothing has its job and its  *)
(* mark.                                                                     *)
THEOREM PromisesAreKept == Spec => []ConfirmedIsKept
<1>1. Inv => ConfirmedIsKept
  BY DEF Inv
<1> QED
  BY <1>1, Invariant, PTL

(* A dataset PROCESSING has its job, save for the crash, the failed insert   *)
(* and the missing client between the two transactions of its completion.    *)
THEOREM ProcessingIsBacked == Spec => []ProcessingHasJob
<1>1. Inv => ProcessingHasJob
  BY DEF Inv
<1> QED
  BY <1>1, Invariant, PTL

(* No dataset moves for another tenant, and nobody known to be below admin   *)
(* starts a payment.                                                         *)
THEOREM WritesByTheEntitled == Spec => WritesAreEntitled
<1>1. ASSUME Inv, [Next]_vars PROVE DatasetsByTenant
  <2> SUFFICES ASSUME NEW d \in datasets \ datasets'
               PROVE  \E c \in Calls :
                        /\ pc[c] = "complete" /\ msg[c].upload_id = d.dataset_id
                        /\ msg[c].organization_id = d.organization_id
                        /\ msg[c].project_id = d.project_id
                        /\ [d EXCEPT !.status = "PROCESSING"] \in datasets'
    BY DEF DatasetsByTenant
  <2>1. PICK c \in Calls : MarkProcessing(c)
    BY <1>1 DEF Next, vars, tables, Start, InitiateDatasetUpload, Enqueue, CheckRole,
                RecordAttempt, Written, Crash
  <2>2. datasets' = Marked(c) /\ pc[c] = "complete"
    BY <2>1 DEF MarkProcessing, Written, tables
  <2>3. Names(c, d) /\ [d EXCEPT !.status = "PROCESSING"] \in datasets'
    BY <2>2 DEF Marked
  <2> QED
    BY <2>2, <2>3 DEF Names
<1>2. ASSUME Inv, [Next]_vars PROVE AttemptsByAdmins
  <2> SUFFICES ASSUME NEW a \in attempts' \ attempts
               PROVE  \E c \in Calls :
                        /\ pc[c] # "idle" /\ pc'[c] = "idle"
                        /\ a.organization_id = msg[c].organization_id
                        /\ pc[c] # "unchecked" /\ caller[c] # None =>
                             Role[a.organization_id][caller[c]] \in {"owner", "admin", None}
    BY DEF AttemptsByAdmins
  <2>1. PICK c \in Calls, id \in Ids : RecordAttempt(c, id)
    BY <1>2 DEF Next, vars, tables, Start, InitiateDatasetUpload, Enqueue, CheckRole,
                MarkProcessing, Written, Crash
  <2>2. a = Attempt(c, id)
    BY <2>1 DEF RecordAttempt, Written, tables
  <2>3. a.organization_id = msg[c].organization_id /\ pc'[c] = "idle" /\ ReadyToRecord(c)
    BY <1>2, <2>1, <2>2 DEF RecordAttempt, Attempt, Answer, End, Inv, TypeOK
  <2>4. CallInv(c)
    BY <1>2 DEF Inv
  <2> QED
    BY <2>3, <2>4 DEF ReadyToRecord, CallInv
<1>3. Inv /\ [Next]_vars => [DatasetsByTenant /\ AttemptsByAdmins]_vars
  BY <1>1, <1>2
<1> QED
  BY <1>3, Invariant, PTL DEF Spec, WritesAreEntitled
=============================================================================
