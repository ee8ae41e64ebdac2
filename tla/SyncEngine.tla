----------------------------- MODULE SyncEngine -----------------------------
(***************************************************************************)
(* The offline-first sync protocol of backend/internal/sync: field devices *)
(* edit rows offline, PUSH them (PushSyncQueue: one statement per entity,  *)
(* last-write-wins on the device-minted updated_at) and PULL deltas        *)
(* (PullProjectData: a server watermark, then one query per table).        *)
(*                                                                         *)
(* The rows of one project are modelled.  Every table goes through the     *)
(* same upsert pattern, so a row is an entity with a table; boreholes have *)
(* a second table behind them and a module of their own, BoreholeLog.      *)
(* The mobile client is not in the repository: Edit, PushDone and PullDone *)
(* are what the comments of the server ask of it.                          *)
(***************************************************************************)
EXTENDS Integers

CONSTANTS
  Devices,         \* the field devices syncing one project
  Entities,        \* row ids (UUIDs minted on devices)
  Table,           \* the table of each entity
  Codes,           \* business keys: station codes, sample tags, types
  NoCode,          \* the empty string in a code field
  CodesOf,         \* what devices write in the code field of each entity
  NoStation,       \* the station_id of a row that has no parent
  Overlap,         \* pullOverlapMs
  MaxTime,         \* bound of the model: the last instant of the server clock
  MaxEdits,        \* bound of the model: edits made by all devices together
  MaxAhead,        \* how far ahead of the server a device clock may run
  CursorFromPush   \* does the client also store a push's ServerTimestamp?

Tables == {"stations", "measurements", "samples", "vegetation"}

ASSUME SyncAssumption ==
  /\ Table \in [Entities -> Tables]
  /\ CodesOf \in [Entities -> SUBSET (Codes \union {NoCode})]
  /\ Overlap \in Nat /\ MaxTime \in Nat /\ MaxEdits \in Nat /\ MaxAhead \in Nat
  /\ CursorFromPush \in BOOLEAN

VARIABLES
  now,      \* the server's clock (NowMillis)
  srv,      \* the stored rows
  local,    \* each device's copies
  dirty,    \* each device's sync queue: the rows edited since they last synced
  cursor,   \* the since_timestamp each device sends on its next pull
  pc,       \* the request a device has outstanding
  todo,     \* push: entities not upserted yet; pull: entities not queried yet
  sent,     \* push: the versions in the request
  result,   \* push: the per-entity verdicts so far
  got,      \* pull: the rows read so far
  mark,     \* the ServerTimestamp of the request
  late,     \* history: entities ever pushed more than Overlap after their stamp
  edits     \* the number of edits so far, for MaxEdits only

device  == <<local, dirty, cursor>>
request == <<pc, todo, sent, result, got, mark>>
ghosts  == <<late, edits>>
vars    == <<now, srv, device, request, ghosts>>

-----------------------------------------------------------------------------
(* Rows.  Absent stands for "no such row"; its stamp is below every real one. *)

IsChild(e) == Table[e] # "stations"
Version == [ts : Nat, code : Codes \union {NoCode}, station : Entities \union {NoStation}]
Absent  == [ts |-> 0, code |-> NoCode, station |-> NoStation]
NoRows  == [e \in Entities |-> Absent]
ParentChoices(e) == IF IsChild(e) THEN {s \in Entities : ~IsChild(s)} ELSE {NoStation}

(* The tables whose business key is UNIQUE in the schema: a sample's within *)
(* its station, a station's within the project.  A soft-deleted row keeps   *)
(* its key: to every statement is_deleted is data like the rest.            *)
SameKey(e, v, f, w) ==
  /\ Table[e] = Table[f] /\ Table[e] \in {"stations", "samples"}
  /\ v.code = w.code /\ v.station = w.station

(* validateStation and the checks at the head of the other push functions. *)
Valid(e, v) == Table[e] # "vegetation" => v.code # NoCode

(* The position of a table in a batch, and in the queries of a pull. *)
TableOrder == [t \in Tables |-> CASE t = "stations" -> 1 [] t = "measurements" -> 2
                                  [] t = "samples" -> 3 [] t = "vegetation" -> 4]
Unordered(e, f) == TRUE
Precedes(e, f) == TableOrder[Table[e]] <= TableOrder[Table[f]]

-----------------------------------------------------------------------------
(* One upsert: the verdict of the statement. *)

Accepted == {"SYNCED", "OVERWROTE"}
Rejected == {"INVALID", "DUPLICATE", "ORPHAN", "STORAGE"}
SyncStatus == Accepted \union {"STALE"} \union Rejected
NoResult == [e \in Entities |-> "none"]

(* The messages: what they hold of each entity, Absent or "none" for nothing. *)
PushSyncQueueRequest    == [Entities -> Version]
PushSyncQueueResponse   == [Entities -> SyncStatus \union {"none"}]
PullProjectDataResponse == [Entities -> Version]

LastArrivalWins(stored, incoming) == TRUE
WinsTies(stored, incoming) == stored.ts <= incoming.ts
Wins(stored, incoming) == stored.ts < incoming.ts

KeyTaken(e, v) == \E f \in Entities \ {e} : srv[f] # Absent /\ SameKey(e, v, f, srv[f])
ParentKnown(e, v) == IsChild(e) => v.station \in Entities /\ srv[v.station] # Absent

(* classifyError: the verdict of a statement that failed with a SQLSTATE. *)
RefusalAsStale(code) == "STALE"
Refusal(code) == CASE code = "23505" -> "DUPLICATE" [] code = "23503" -> "ORPHAN"
                   [] OTHER -> "STORAGE"

Verdict(e, v) ==
  CASE ~Valid(e, v)                         -> "INVALID"
    [] Valid(e, v) /\ ~Wins(srv[e], v)      -> "STALE"
    [] Valid(e, v) /\ Wins(srv[e], v) ->
         IF KeyTaken(e, v) THEN Refusal("23505")
         ELSE IF ~ParentKnown(e, v) THEN Refusal("23503")
         ELSE IF srv[e] = Absent THEN "SYNCED" ELSE "OVERWROTE"

-----------------------------------------------------------------------------
Init ==
  /\ now = 1
  /\ srv = NoRows
  /\ local  = [d \in Devices |-> NoRows]
  /\ dirty  = [d \in Devices |-> {}]
  /\ cursor = [d \in Devices |-> 0]
  /\ pc     = [d \in Devices |-> "idle"]
  /\ todo   = [d \in Devices |-> {}]
  /\ sent   = [d \in Devices |-> NoRows]
  /\ result = [d \in Devices |-> NoResult]
  /\ got    = [d \in Devices |-> NoRows]
  /\ mark   = [d \in Devices |-> 0]
  /\ late   = {}
  /\ edits  = 0

(* The request of d is over: its per-request state goes back to nothing. *)
Close(d) ==
  /\ pc'     = [pc EXCEPT ![d] = "idle"]
  /\ todo'   = [todo EXCEPT ![d] = {}]
  /\ sent'   = [sent EXCEPT ![d] = NoRows]
  /\ result' = [result EXCEPT ![d] = NoResult]
  /\ got'    = [got EXCEPT ![d] = NoRows]
  /\ mark'   = [mark EXCEPT ![d] = 0]

Tick ==
  /\ now < MaxTime
  /\ now' = now + 1
  /\ UNCHANGED <<srv, device, request, ghosts>>

(* A geologist captures or edits a row; the device stamps it with its clock. *)
Edit(d, e) ==
  /\ edits < MaxEdits
  /\ \E t \in now .. now + MaxAhead, c \in CodesOf[e], s \in ParentChoices(e) :
    /\ local' = [local EXCEPT ![d][e] = [ts |-> t, code |-> c, station |-> s]]
    /\ dirty' = [dirty EXCEPT ![d] = @ \union {e}]
    /\ edits' = edits + 1
    /\ UNCHANGED <<now, srv, cursor, request, late>>

-----------------------------------------------------------------------------
(* PushSyncQueue: every locally changed entity, in one request. *)

StartPush(d) ==
  /\ pc[d] = "idle" /\ dirty[d] # {}
  /\ pc'   = [pc EXCEPT ![d] = "push"]
  /\ todo' = [todo EXCEPT ![d] = dirty[d]]
  /\ sent' = [sent EXCEPT ![d] = [e \in Entities |->
                 IF e \in dirty[d] THEN local[d][e] ELSE Absent]]
  /\ mark' = [mark EXCEPT ![d] = now]
  /\ UNCHANGED <<now, srv, device, result, got, ghosts>>

(* The loops over the batch: one statement of its own per entity.  A storage *)
(* failure is a verdict of that entity too, and the connection may be lost   *)
(* after the statement committed.                                            *)
PushEntity(d, e) ==
  /\ pc[d] = "push" /\ e \in todo[d]
  /\ \A f \in todo[d] : Precedes(e, f)
  /\ LET v == sent[d][e]
         written == [srv EXCEPT ![e] = v]
     IN \/ /\ result' = [result EXCEPT ![d][e] = Verdict(e, v)]
           /\ srv' = IF Verdict(e, v) \in Accepted THEN written ELSE srv
        \/ /\ Valid(e, v)
           /\ result' = [result EXCEPT ![d][e] = Refusal("08006")]
           /\ srv' \in {srv} \union IF Verdict(e, v) \in Accepted THEN {written} ELSE {}
  /\ todo' = [todo EXCEPT ![d] = @ \ {e}]
  /\ late' = IF sent[d][e].ts + Overlap < now THEN late \union {e} ELSE late
  /\ UNCHANGED <<now, device, pc, sent, got, mark, edits>>

Settled(d) == {e \in dirty[d] : local[d][e] = sent[d][e] /\ result[d][e] \in Accepted}
Discarded(d) == {e \in dirty[d] : local[d][e] = sent[d][e] /\ result[d][e] = "STALE"}

(* The response arrives.  An accepted entity leaves the queue, a stale one is *)
(* discarded ("the device should pull and discard its local copy"), a         *)
(* rejected one, or one edited meanwhile, stays.                              *)
PushDone(d) ==
  /\ pc[d] = "push" /\ todo[d] = {}
  /\ local' = [local EXCEPT ![d] = [e \in Entities |->
                 IF e \in Discarded(d) THEN Absent ELSE local[d][e]]]
  /\ dirty' = [dirty EXCEPT ![d] = @ \ (Settled(d) \union Discarded(d))]
  /\ cursor' = IF CursorFromPush THEN [cursor EXCEPT ![d] = mark[d]] ELSE cursor
  /\ Close(d)
  /\ UNCHANGED <<now, srv, ghosts>>

-----------------------------------------------------------------------------
(* PullProjectData: the watermark first, then one query per table. *)

SinceNoOverlap(c) == c
Since(c) == IF c > Overlap THEN c - Overlap ELSE 0

StartPull(d) ==
  /\ pc[d] = "idle"
  /\ pc'   = [pc EXCEPT ![d] = "pull"]
  /\ todo' = [todo EXCEPT ![d] = Entities]
  /\ mark' = [mark EXCEPT ![d] = now]
  /\ UNCHANGED <<now, srv, device, sent, result, got, ghosts>>

(* Row e belongs to the delta of a pull that sends cursor c. *)
InDelta(e, c) == srv[e] # Absent /\ srv[e].ts >= Since(c)

(* One SELECT: the rows of table t stamped at or after since. *)
ReadTable(d, t) ==
  LET rows == {e \in Entities : Table[e] = t}
  IN /\ pc[d] = "pull" /\ rows \intersect todo[d] # {}
     /\ \A e \in rows, f \in todo[d] : Precedes(e, f)
     /\ got' = [got EXCEPT ![d] = [e \in Entities |->
                   IF e \in rows /\ InDelta(e, cursor[d]) THEN srv[e] ELSE got[d][e]]]
     /\ todo' = [todo EXCEPT ![d] = @ \ rows]
     /\ UNCHANGED <<now, srv, device, pc, sent, result, mark, ghosts>>

WatermarkLast(d) == now
Watermark(d) == mark[d]

(* The delta arrives: rows are overwritten by id, except those still queued, *)
(* and the watermark becomes the cursor of the next pull.                    *)
PullDone(d) ==
  /\ pc[d] = "pull" /\ todo[d] = {}
  /\ local' = [local EXCEPT ![d] = [e \in Entities |->
                 IF e \notin dirty[d] /\ got[d][e] # Absent THEN got[d][e] ELSE local[d][e]]]
  /\ cursor' = [cursor EXCEPT ![d] = Watermark(d)]
  /\ Close(d)
  /\ UNCHANGED <<now, srv, dirty, ghosts>>

(* The request fails or its response is lost: what was committed stays, the *)
(* device has learnt nothing and will send the same queue and cursor again. *)
Lost(d) ==
  /\ pc[d] # "idle"
  /\ Close(d)
  /\ UNCHANGED <<now, srv, device, ghosts>>

-----------------------------------------------------------------------------
Next ==
  \/ Tick
  \/ \E d \in Devices :
       \/ \E e \in Entities : Edit(d, e)
       \/ StartPush(d)
       \/ \E e \in Entities : PushEntity(d, e)
       \/ PushDone(d)
       \/ StartPull(d)
       \/ \E t \in Tables : ReadTable(d, t)
       \/ PullDone(d)
       \/ Lost(d)

Spec == Init /\ [][Next]_vars

-----------------------------------------------------------------------------
TypeOK ==
  /\ now \in Nat
  /\ srv \in [Entities -> Version]
  /\ local \in [Devices -> [Entities -> Version]]
  /\ dirty \in [Devices -> SUBSET Entities]
  /\ cursor \in [Devices -> Nat]
  /\ pc \in [Devices -> {"idle", "push", "pull"}]
  /\ todo \in [Devices -> SUBSET Entities]
  /\ sent \in [Devices -> PushSyncQueueRequest]
  /\ result \in [Devices -> PushSyncQueueResponse]
  /\ got \in [Devices -> PullProjectDataResponse]
  /\ mark \in [Devices -> Nat]
  /\ late \subseteq Entities

(* The copy of row e on device d is current, or the next pull will bring it. *)
Covered(d, e) == local[d][e] = srv[e] \/ InDelta(e, cursor[d])

(* What the overlap is for (service.go, pullOverlapMs): no row is ever lost  *)
(* to the delta cursor.  A device that has no edit of its own pending on a   *)
(* row either holds exactly the server's version or will be sent it by its   *)
(* next pull, as long as no version of that row was pushed more than Overlap *)
(* after the device stamped it.                                              *)
DeltaComplete ==
  \A d \in Devices : \A e \in Entities \ late : e \notin dirty[d] => Covered(d, e)

(* The same without the proviso, which is what the comment claims: false for *)
(* devices that stay offline longer than Overlap.                            *)
NothingMissed ==
  \A d \in Devices : \A e \in Entities : e \notin dirty[d] => Covered(d, e)

(* An edit leaves a device's queue only once the server holds it or a newer  *)
(* version: no lost response, refused entity, edit during the request or     *)
(* pull may take it away before.                                             *)
NoEditLost ==
  [][\A d \in Devices : \A e \in dirty[d] \ dirty'[d] : local[d][e].ts <= srv[e].ts]_vars

(* Reads are monotonic: a copy with no edit of its own pending only moves to  *)
(* a later stamp.  No answer brings back an older version, neither of another *)
(* device's edit nor of one this device has pushed.                           *)
CopiesMoveForward ==
  [][\A d \in Devices : \A e \in Entities \ (dirty[d] \union dirty'[d]) :
       local[d][e].ts <= local'[d][e].ts]_vars

(* The stored rows are last-write-wins registers: whatever the order in      *)
(* which devices push, retry and fail, a row only moves to a later stamp and *)
(* an equal stamp never displaces the stored copy.                           *)
Registers == INSTANCE LwwRegisters WITH rows <- srv
RowsAreRegisters == Registers!Spec

(* Parents before children: a child is refused for want of its parent only   *)
(* if the parent was not in the batch, or was itself refused.                *)
ParentsFirst ==
  \A d \in Devices : \A e \in Entities :
    LET p == sent[d][e].station
    IN result[d][e] = "ORPHAN" /\ p \in Entities =>
         result[d][p] \in Rejected \union {"none"}

(* The queries of a pull are not one snapshot, so a child may arrive without *)
(* its station; the station is then still ahead of the cursor.               *)
OrphansAreResent ==
  \A d \in Devices : \A e \in Entities :
    LET p == local[d][e].station
    IN /\ IsChild(e) /\ e \notin dirty[d] /\ local[d][e] # Absent
       /\ p \notin dirty[d] \union late /\ local[d][p] = Absent
       => InDelta(p, cursor[d])
=============================================================================
