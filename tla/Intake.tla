------------------------------- MODULE Intake --------------------------------
(***************************************************************************)
(* Handlers that promise more than they write: dataset uploads and their   *)
(* processing jobs (internal/gis, internal/queue), and payment attempts    *)
(* (internal/billing).  Every write is a transaction of its own whose      *)
(* error is dropped: the reply is the same whether it was made or not.  A  *)
(* process whose river client could not be made serves without one: it     *)
(* inserts no jobs and still answers PROCESSING.                           *)
(*                                                                         *)
(* A request with a field that does not parse is refused and leaves no     *)
(* trace; names, sizes, keys, prices and the presigned URL play no part    *)
(* (the key of a job lacks the file name of the dataset's own key).  Jobs  *)
(* are a set: a completion sent twice inserts two with the same arguments. *)
(* The river client is never started: jobs wait in their table for a       *)
(* worker that nothing runs, so no dataset is ever READY.  The queries     *)
(* answer constants.                                                       *)
(***************************************************************************)
EXTENDS Integers, FiniteSets

CONSTANTS
  Orgs, Projects, Users,
  Plans,      \* rows of the table plans
  PlanIds,    \* plan_ids that are asked for
  Kinds,      \* kinds of datasets that are uploaded
  Calls,      \* handlers that run at a time
  Role,       \* the role of a user in an organization, None for none
  Ids,        \* bound: UUIDs to mint
  MaxFaults,  \* bound: writes that fail
  MaxCalls,   \* bound: requests that are sent
  None

DatasetKind == {"SHAPEFILE_ARCHIVE", "GEOTIFF", "CWLS_LAS", "ASPRS_LAS", "SURVEY_CSV"}
TenantRole  == {"owner", "admin", "geologist", "viewer"}

ASSUME IntakeAssumption ==
  /\ Kinds \subseteq DatasetKind
  /\ Role \in [Orgs -> [Users -> TenantRole \cup {None}]]
  /\ None \notin Users \cup TenantRole /\ {MaxFaults, MaxCalls} \subseteq Nat

VARIABLES
  datasets, \* gis_datasets
  jobs,     \* jobs in the queue
  attempts, \* payment_attempts
  minted,   \* UUIDs given out
  river,    \* the process has a river client
  pc,       \* how far the handler of a call is
  msg,      \* its request
  caller,   \* the user it runs for where that matters, None without an identity
  missed,   \* history: the writes it did not make
  told,     \* history: the replies sent, with the writes missed for each
  cut,      \* history: the jobs that calls were about to insert at a crash
  faults,   \* history: how many writes failed
  sent      \* history: how many requests were sent

tables  == <<datasets, jobs, attempts>>
call    == <<pc, msg, caller, missed>>
history == <<told, cut, faults, sent>>
vars    == <<tables, minted, river, call, history>>

(* The messages. *)
IngestionStatus == {"QUARANTINED", "SCANNING", "PROCESSING", "READY", "FAILED"}

InitiateDatasetUploadRequest  == [organization_id : Orgs, project_id : Projects,
                                  kind : Kinds]
InitiateDatasetUploadResponse == [upload_id : Ids]
CompleteDatasetUploadRequest  == [organization_id : Orgs, project_id : Projects,
                                  upload_id : Ids]
CompleteDatasetUploadResponse == [dataset_id : Ids, status : {"PROCESSING"}]
InitiateMpesaStkPushRequest   == [organization_id : Orgs, plan_id : PlanIds]
InitiateMpesaStkPushResponse  == [payment_attempt_id : Ids]

(* The rows. *)
GisDatasetSummary == [dataset_id : Ids, organization_id : Orgs, project_id : Projects,
                      kind : Kinds, status : IngestionStatus]
GisIngestionArgs  == [dataset_id : Ids, organization_id : Orgs, project_id : Projects]
PaymentAttempt    == [id : Ids, organization_id : Orgs, plan_id : Plans,
                      status : {"PENDING"}]

(* The writes of the handlers, "queue" where there is no client to insert with. *)
Write == {"row", "status", "job", "queue", "attempt"}

Reply ==
  [request : InitiateDatasetUploadRequest, reply : InitiateDatasetUploadResponse,
   missed : SUBSET Write]
  \cup [request : CompleteDatasetUploadRequest, reply : CompleteDatasetUploadResponse,
        missed : SUBSET Write]
  \cup [request : InitiateMpesaStkPushRequest, reply : InitiateMpesaStkPushResponse,
        missed : SUBSET Write]

RoleRank(r) == CASE r = "owner" -> 40 [] r = "admin" -> 30 [] r = "geologist" -> 20
                 [] r = "viewer" -> 10 [] OTHER -> 0

-----------------------------------------------------------------------------
Init ==
  /\ datasets = {}
  /\ jobs     = {}
  /\ attempts = {}
  /\ minted   = {}
  /\ river \in BOOLEAN
  /\ pc       = [c \in Calls |-> "idle"]
  /\ msg      = [c \in Calls |-> None]
  /\ caller   = [c \in Calls |-> None]
  /\ missed   = [c \in Calls |-> {}]
  /\ told     = {}
  /\ cut      = {}
  /\ faults   = 0
  /\ sent     = 0

Start(c, u, m, at) ==
  /\ pc[c] = "idle" /\ sent < MaxCalls
  /\ sent'   = sent + 1
  /\ pc'     = [pc EXCEPT ![c] = at]
  /\ msg'    = [msg EXCEPT ![c] = m]
  /\ caller' = [caller EXCEPT ![c] = u]
  /\ UNCHANGED <<tables, minted, river, missed, told, cut, faults>>

End(c) ==
  /\ pc'     = [pc EXCEPT ![c] = "idle"]
  /\ msg'    = [msg EXCEPT ![c] = None]
  /\ caller' = [caller EXCEPT ![c] = None]
  /\ missed' = [missed EXCEPT ![c] = {}]

Answer(c, r, lost) ==
  /\ End(c)
  /\ told' = told \cup {[request |-> msg[c], reply |-> r, missed |-> missed[c] \cup lost]}

Goto(c, at) == pc' = [pc EXCEPT ![c] = at] /\ UNCHANGED <<msg, caller, told>>

(* db.WithTenantTx with its error dropped: the write of a table, or nothing.  *)
(* A commit whose answer was lost is a write.                                *)
Written(lost, write) ==
  \/ lost = {} /\ write /\ UNCHANGED faults
  \/ lost # {} /\ faults < MaxFaults /\ UNCHANGED tables /\ faults' = faults + 1

-----------------------------------------------------------------------------
(* InitiateDatasetUpload: a fresh id, its row, the reply. *)
Quarantined(c, id) ==
  [dataset_id |-> id, organization_id |-> msg[c].organization_id,
   project_id |-> msg[c].project_id, kind |-> msg[c].kind, status |-> "QUARANTINED"]

InitiateDatasetUpload(c, id) ==
  /\ pc[c] = "upload" /\ id \notin minted
  /\ minted' = minted \cup {id}
  /\ \E lost \in {{}, {"row"}} :
       /\ Written(lost, /\ datasets' = datasets \cup {Quarantined(c, id)}
                        /\ UNCHANGED <<jobs, attempts>>)
       /\ Answer(c, [upload_id |-> id], lost)
  /\ UNCHANGED <<river, cut, sent>>

(* CompleteDatasetUpload: the status in one transaction, ... *)
NamesId(c, d) == d.dataset_id = msg[c].upload_id
Names(c, d) ==
  /\ d.dataset_id      = msg[c].upload_id
  /\ d.organization_id = msg[c].organization_id
  /\ d.project_id      = msg[c].project_id

Marked(c) ==
  {IF Names(c, d) THEN [d EXCEPT !.status = "PROCESSING"] ELSE d : d \in datasets}

MarkProcessing(c) ==
  /\ pc[c] = "complete"
  /\ \E lost \in {{}, {"status"}} :
       /\ Written(lost, datasets' = Marked(c) /\ UNCHANGED <<jobs, attempts>>)
       /\ missed' = [missed EXCEPT ![c] = lost]
  /\ Goto(c, "enqueue")
  /\ UNCHANGED <<minted, river, cut, sent>>

(* ... the job in another, for whatever dataset the request names, if there *)
(* is a client to insert it with.                                           *)
Job(c) == [dataset_id |-> msg[c].upload_id, organization_id |-> msg[c].organization_id,
           project_id |-> msg[c].project_id]

JobsIfUnprocessed(c) == jobs \cup
  (IF \E d \in datasets : Names(c, d) /\ d.status = "QUARANTINED" THEN {Job(c)} ELSE {})
JobsAfter(c) == jobs \cup {Job(c)}

Enqueue(c) ==
  /\ pc[c] = "enqueue"
  /\ \E lost \in {{}, {"job"}, {"queue"}} :
       /\ \/ river /\ lost # {"queue"}
             /\ Written(lost, jobs' = JobsAfter(c) /\ UNCHANGED <<datasets, attempts>>)
          \/ ~river /\ lost = {"queue"} /\ UNCHANGED <<tables, faults>>
       /\ Answer(c, [dataset_id |-> msg[c].upload_id, status |-> "PROCESSING"], lost)
  /\ UNCHANGED <<minted, river, cut, sent>>

-----------------------------------------------------------------------------
(* InitiateMpesaStkPush asks for the role of a caller with an identity; one  *)
(* whose lookup fails or finds nothing is let through.                       *)
RefusedBelowViewer(c) ==
  LET r == Role[msg[c].organization_id][caller[c]]
  IN  r # None /\ RoleRank(r) < RoleRank("viewer")
Refused(c) ==
  LET r == Role[msg[c].organization_id][caller[c]]
  IN  r # None /\ RoleRank(r) < RoleRank("admin")

CheckRole(c) ==
  /\ pc[c] = "push" /\ caller[c] # None
  /\ \/ Refused(c) /\ End(c) /\ UNCHANGED told
     \/ ~Refused(c) /\ Goto(c, "record") /\ UNCHANGED missed
     \/ Goto(c, "unchecked") /\ UNCHANGED missed
  /\ UNCHANGED <<tables, minted, river, cut, faults, sent>>

(* The attempt is written unless plans knows no such plan; no push is sent.  *)
Attempt(c, id) == [id |-> id, organization_id |-> msg[c].organization_id,
                   plan_id |-> msg[c].plan_id, status |-> "PENDING"]

ReadyToRecord(c) ==
  pc[c] \in {"record", "unchecked"} \cup (IF caller[c] = None THEN {"push"} ELSE {})

RecordAttempt(c, id) ==
  /\ ReadyToRecord(c) /\ id \notin minted
  /\ minted' = minted \cup {id}
  /\ \E lost \in {{}, {"attempt"}} :
       /\ Written(lost, /\ attempts' = attempts \cup
                             (IF msg[c].plan_id \in Plans THEN {Attempt(c, id)} ELSE {})
                        /\ UNCHANGED <<datasets, jobs>>)
       /\ Answer(c, [payment_attempt_id |-> id], lost)
  /\ UNCHANGED <<river, cut, sent>>

(* The process dies: calls end without a reply, what is committed stays; the *)
(* next process makes its own river client, or serves without one.          *)
Crash ==
  /\ cut' = cut \cup {Job(c) : c \in {d \in Calls : pc[d] = "enqueue"}}
  /\ pc'     = [c \in Calls |-> "idle"]
  /\ msg'    = [c \in Calls |-> None]
  /\ caller' = [c \in Calls |-> None]
  /\ missed' = [c \in Calls |-> {}]
  /\ river' \in BOOLEAN
  /\ UNCHANGED <<tables, minted, told, faults, sent>>

Next ==
  \/ \E c \in Calls :
       \/ \E m \in InitiateDatasetUploadRequest : Start(c, None, m, "upload")
       \/ \E m \in CompleteDatasetUploadRequest :
            m.upload_id \in minted /\ Start(c, None, m, "complete")
       \/ \E m \in InitiateMpesaStkPushRequest, u \in Users \cup {None} :
            Start(c, u, m, "push")
  \/ \E c \in Calls, id \in Ids : InitiateDatasetUpload(c, id) \/ RecordAttempt(c, id)
  \/ \E c \in Calls : MarkProcessing(c) \/ Enqueue(c) \/ CheckRole(c)
  \/ Crash

Spec == Init /\ [][Next]_vars

-----------------------------------------------------------------------------
Request == InitiateDatasetUploadRequest \cup CompleteDatasetUploadRequest
             \cup InitiateMpesaStkPushRequest

TypeOK ==
  /\ datasets \subseteq GisDatasetSummary /\ jobs \subseteq GisIngestionArgs
  /\ attempts \subseteq PaymentAttempt /\ minted \subseteq Ids
  /\ pc \in [Calls -> {"idle", "upload", "complete", "enqueue", "push", "record", "unchecked"}]
  /\ msg \in [Calls -> Request \cup {None}]
  /\ caller \in [Calls -> Users \cup {None}]
  /\ river \in BOOLEAN /\ missed \in [Calls -> SUBSET Write]
  /\ told \subseteq Reply /\ cut \subseteq GisIngestionArgs /\ {faults, sent} \subseteq Nat

Is(d, r) == /\ d.dataset_id      = r.upload_id
            /\ d.organization_id = r.organization_id
            /\ d.project_id      = r.project_id

JobFor(r) == [dataset_id |-> r.upload_id, organization_id |-> r.organization_id,
              project_id |-> r.project_id]

(* What a reply promised is in the tables, however calls for one dataset     *)
(* interleave, fail half-way or die in between, unless that very call could  *)
(* not make the write, or its plan is none of the table's.  So a completion  *)
(* sent again makes good what an earlier one, or a crash, left undone.       *)
UploadKept(t) ==
  \/ \E d \in datasets : /\ d.dataset_id = t.reply.upload_id
                         /\ d.organization_id = t.request.organization_id
                         /\ d.project_id = t.request.project_id
  \/ "row" \in t.missed

CompletionKept(t) ==
  /\ JobFor(t.request) \in jobs \/ "job" \in t.missed \/ "queue" \in t.missed
  /\ \/ \A d \in datasets : Is(d, t.request) => d.status = "PROCESSING"
     \/ "status" \in t.missed

AttemptKept(t) ==
  \/ \E a \in attempts : /\ a.id = t.reply.payment_attempt_id
                         /\ a.organization_id = t.request.organization_id
  \/ t.request.plan_id \notin Plans
  \/ "attempt" \in t.missed

Kept(t) ==
  /\ t.reply \in InitiateDatasetUploadResponse => UploadKept(t)
  /\ t.reply \in CompleteDatasetUploadResponse => CompletionKept(t)
  /\ t.reply \in InitiateMpesaStkPushResponse => AttemptKept(t)

ConfirmedIsKept == \A t \in told : Kept(t)

(* A dataset PROCESSING has its job.  It is orphaned in these ways and no    *)
(* other: a call that names it is just about to insert the job, was cut off  *)
(* there by a crash, or was answered though its insert failed or there was   *)
(* no client to insert with.                                                 *)
JobOf(d) == [dataset_id |-> d.dataset_id, organization_id |-> d.organization_id,
             project_id |-> d.project_id]

Orphaned(d) ==
  \/ \E c \in Calls : pc[c] = "enqueue" /\ Is(d, msg[c])
  \/ JobOf(d) \in cut
  \/ \E t \in told : /\ t.reply \in CompleteDatasetUploadResponse /\ Is(d, t.request)
                     /\ "job" \in t.missed \/ "queue" \in t.missed

ProcessingHasJob ==
  \A d \in datasets : d.status = "PROCESSING" => JobOf(d) \in jobs \/ Orphaned(d)

(* A dataset moves only by a completion that names its organization and      *)
(* project, and only forward; an attempt is made for the organization its    *)
(* call names, and by a member below admin only if the lookup failed.        *)
DatasetsByTenant ==
  \A d \in datasets \ datasets' : \E c \in Calls :
    /\ pc[c] = "complete" /\ msg[c].upload_id = d.dataset_id
    /\ msg[c].organization_id = d.organization_id /\ msg[c].project_id = d.project_id
    /\ [d EXCEPT !.status = "PROCESSING"] \in datasets'

AttemptsByAdmins ==
  \A a \in attempts' \ attempts : \E c \in Calls :
    /\ pc[c] # "idle" /\ pc'[c] = "idle" /\ a.organization_id = msg[c].organization_id
    /\ pc[c] # "unchecked" /\ caller[c] # None =>
         Role[a.organization_id][caller[c]] \in {"owner", "admin", None}

WritesAreEntitled == [][DatasetsByTenant /\ AttemptsByAdmins]_vars
=============================================================================
