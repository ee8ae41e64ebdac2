-------------------------- MODULE SyncEngineProofs --------------------------
(***************************************************************************)
(* Theorems about SyncEngine, for any set of devices and rows, any overlap *)
(* and any bounds.                                                         *)
(***************************************************************************)
EXTENDS SyncEngine, TLAPS

USE DEF PushSyncQueueRequest, PushSyncQueueResponse, PullProjectDataResponse

(* Clocks: no cursor or watermark is ahead of the server, and the watermark *)
(* of a request is not behind the cursor it will replace.                   *)
ClockInv ==
  /\ now >= 1
  /\ \A d \in Devices : cursor[d] <= now /\ mark[d] <= now

(* The bookkeeping of a request: it is empty outside the request, a row in  *)
(* the batch is still queued, and a row not queried yet has not been read.  *)
RequestInv ==
  \A d \in Devices : \A e \in Entities :
    /\ e \in dirty[d] => local[d][e].ts >= 1
    /\ pc[d] = "push" /\ e \in todo[d] => e \in dirty[d] /\ sent[d][e].ts >= 1
    /\ result[d][e] # "none" => pc[d] = "push" /\ e \in dirty[d] /\ e \notin todo[d]
    /\ pc[d] # "pull" \/ e \in todo[d] => got[d][e] = Absent

(* What a verdict of a running push tells about the stored row. *)
PushInv ==
  \A d \in Devices : \A e \in Entities :
    result[d][e] \in Accepted \union {"STALE"} =>
      /\ sent[d][e].ts <= srv[e].ts
      /\ e \notin late =>
           (result[d][e] \in Accepted /\ sent[d][e] = srv[e]) \/ InDelta(e, cursor[d])

(* What has been read by a running pull: a row already queried is current   *)
(* in the response, or in the device's copy if it was left out, or else it  *)
(* has changed since and belongs to the delta of the pull after this one.   *)
PullInv ==
  \A d \in Devices : \A e \in Entities \ (dirty[d] \union late) :
    pc[d] = "pull" /\ e \notin todo[d] =>
      \/ InDelta(e, mark[d])
      \/ srv[e] = IF got[d][e] # Absent THEN got[d][e] ELSE local[d][e]

RequestsInv == TypeOK /\ ClockInv /\ RequestInv /\ PushInv

IInv == RequestsInv /\ PullInv /\ DeltaComplete

-----------------------------------------------------------------------------
(* Absent is a version with the least stamp; every version has a stamp. *)
LEMMA VersionFacts ==
  /\ Absent \in Version /\ Absent.ts = 0
  /\ NoRows \in [Entities -> Version]
  /\ \A v \in Version : v.ts \in Nat
<1>1. Absent \in Version /\ Absent.ts = 0
  BY DEF Absent, Version
<1>2. NoRows \in [Entities -> Version]
  BY <1>1 DEF NoRows
<1>3. \A v \in Version : v.ts \in Nat
  BY DEF Version
<1>4. QED
  BY <1>1, <1>2, <1>3

(* The delta bound is a number, at most the cursor less the overlap. *)
LEMMA SinceFacts ==
  ASSUME NEW c \in Nat
  PROVE  Since(c) \in Nat /\ (Since(c) = 0 \/ Since(c) + Overlap = c)
BY SyncAssumption DEF Since

(* A verdict is one of the protocol's, and only a later stamp is accepted. *)
LEMMA VerdictFacts ==
  ASSUME NEW e \in Entities, NEW v
  PROVE  /\ Verdict(e, v) \in SyncStatus
         /\ Verdict(e, v) \in Accepted => srv[e].ts < v.ts /\ ParentKnown(e, v)
         /\ Verdict(e, v) = "STALE" => ~(srv[e].ts < v.ts)
         /\ Verdict(e, v) = "ORPHAN" => ~ParentKnown(e, v)
<1>1. CASE ~Valid(e, v)
  BY <1>1 DEF Verdict, SyncStatus, Accepted, Rejected
<1>2. CASE Valid(e, v) /\ ~Wins(srv[e], v)
  BY <1>2 DEF Verdict, SyncStatus, Accepted, Rejected, Wins
<1>3. CASE Valid(e, v) /\ Wins(srv[e], v)
  BY <1>3 DEF Verdict, SyncStatus, Accepted, Rejected, Wins, Refusal
<1>4. QED
  BY <1>1, <1>2, <1>3

(* What one statement of a push does, whichever way it ends: it stores the  *)
(* version sent or leaves the table alone, and the verdict says which.      *)
LEMMA PushEffect ==
  ASSUME NEW d \in Devices, NEW e \in Entities, PushEntity(d, e)
  PROVE  \E r \in SyncStatus :
           /\ result' = [result EXCEPT ![d][e] = r]
           /\ \/ srv' = srv
              \/ /\ srv' = [srv EXCEPT ![e] = sent[d][e]] /\ srv[e].ts < sent[d][e].ts
                 /\ ParentKnown(e, sent[d][e])
           /\ r \in Accepted => /\ srv' = [srv EXCEPT ![e] = sent[d][e]]
                                /\ srv[e].ts < sent[d][e].ts
                                /\ ParentKnown(e, sent[d][e])
           /\ r = "STALE" => srv' = srv /\ ~(srv[e].ts < sent[d][e].ts)
           /\ r = "ORPHAN" => srv' = srv /\ ~ParentKnown(e, sent[d][e])
<1> DEFINE v == sent[d][e]
           written == [srv EXCEPT ![e] = v]
<1>1. /\ Verdict(e, v) \in SyncStatus
      /\ Verdict(e, v) \in Accepted => srv[e].ts < v.ts /\ ParentKnown(e, v)
      /\ Verdict(e, v) = "STALE" => ~(srv[e].ts < v.ts)
      /\ Verdict(e, v) = "ORPHAN" => ~ParentKnown(e, v)
  BY VerdictFacts
<1>2. CASE /\ result' = [result EXCEPT ![d][e] = Verdict(e, v)]
           /\ srv' = IF Verdict(e, v) \in Accepted THEN written ELSE srv
  BY <1>1, <1>2 DEF Accepted
<1>3. CASE /\ result' = [result EXCEPT ![d][e] = Refusal("08006")]
           /\ srv' \in {srv} \union IF Verdict(e, v) \in Accepted THEN {written} ELSE {}
  <2>1. Refusal("08006") = "STORAGE"
    BY DEF Refusal
  <2>2. "STORAGE" \in SyncStatus /\ "STORAGE" \notin Accepted
    BY DEF SyncStatus, Rejected, Accepted
  <2>3. srv' = srv \/ (srv' = written /\ srv[e].ts < v.ts /\ ParentKnown(e, v))
    BY <1>1, <1>3
  <2>4. QED
    BY <1>3, <2>1, <2>2, <2>3
<1>4. QED
  BY <1>2, <1>3 DEF PushEntity

LEMMA PushVerdict ==
  ASSUME NEW d \in Devices, NEW e \in Entities, PushEntity(d, e)
  PROVE  \E r \in SyncStatus : result' = [result EXCEPT ![d][e] = r]
<1>1. \E r \in SyncStatus : /\ result' = [result EXCEPT ![d][e] = r]
                            /\ srv' = srv \/ srv' = [srv EXCEPT ![e] = sent[d][e]]
  BY PushEffect
<1>2. QED
  BY <1>1

-----------------------------------------------------------------------------
(* Type correctness. *)

LEMMA TypeInit == Init => TypeOK
BY VersionFacts, SyncAssumption DEF Init, TypeOK, NoResult

LEMMA TypeStep ==
  ASSUME TypeOK, [Next]_vars
  PROVE  TypeOK'
<1> USE VersionFacts
<1> USE DEF TypeOK
<1>1. CASE Tick
  BY <1>1 DEF Tick, device, request, ghosts
<1>2. ASSUME NEW d \in Devices, NEW e \in Entities, Edit(d, e)
      PROVE  TypeOK'
  <2>1. PICK t \in now .. now + MaxAhead, c \in CodesOf[e], s \in ParentChoices(e) :
          /\ local' = [local EXCEPT ![d][e] = [ts |-> t, code |-> c, station |-> s]]
          /\ dirty' = [dirty EXCEPT ![d] = @ \union {e}]
          /\ UNCHANGED <<now, srv, cursor, request, late>>
    BY <1>2 DEF Edit
  <2>2. [ts |-> t, code |-> c, station |-> s] \in Version
    BY SyncAssumption DEF Version, ParentChoices
  <2>3. QED
    BY <2>1, <2>2 DEF request
<1>3. ASSUME NEW d \in Devices, StartPush(d)
      PROVE  TypeOK'
  BY <1>3 DEF StartPush, device, ghosts
<1>4. ASSUME NEW d \in Devices, NEW e \in Entities, PushEntity(d, e)
      PROVE  TypeOK'
  <2>1. PICK r \in SyncStatus : /\ result' = [result EXCEPT ![d][e] = r]
                                /\ \/ srv' = srv
                                   \/ srv' = [srv EXCEPT ![e] = sent[d][e]]
    BY <1>4, PushEffect
  <2>2. srv' \in [Entities -> Version]
    <3>1. sent[d][e] \in Version
      OBVIOUS
    <3>2. srv \in [Entities -> Version]
      OBVIOUS
    <3>3. QED
      BY <2>1, <3>1, <3>2
  <2>3. result' \in [Devices -> [Entities -> SyncStatus \union {"none"}]]
    BY <2>1
  <2>4. /\ todo' = [todo EXCEPT ![d] = @ \ {e}]
        /\ late' \in {late, late \union {e}}
        /\ UNCHANGED <<now, device, pc, sent, got, mark>>
    BY <1>4 DEF PushEntity
  <2>5. todo' \in [Devices -> SUBSET Entities] /\ late' \subseteq Entities
    BY <2>4
  <2>6. QED
    BY <2>2, <2>3, <2>4, <2>5 DEF device
<1>5. ASSUME NEW d \in Devices, PushDone(d)
      PROVE  TypeOK'
  BY <1>5 DEF PushDone, Close, NoResult, ghosts
<1>6. ASSUME NEW d \in Devices, StartPull(d)
      PROVE  TypeOK'
  BY <1>6 DEF StartPull, device, ghosts
<1>7. ASSUME NEW d \in Devices, NEW t \in Tables, ReadTable(d, t)
      PROVE  TypeOK'
  BY <1>7 DEF ReadTable, device, ghosts
<1>8. ASSUME NEW d \in Devices, PullDone(d)
      PROVE  TypeOK'
  BY <1>8 DEF PullDone, Close, NoResult, Watermark, ghosts
<1>9. ASSUME NEW d \in Devices, Lost(d)
      PROVE  TypeOK'
  BY <1>9 DEF Lost, Close, NoResult, device, ghosts
<1>10. CASE UNCHANGED vars
  BY <1>10 DEF vars, device, request, ghosts
<1>11. QED
  BY <1>1, <1>2, <1>3, <1>4, <1>5, <1>6, <1>7, <1>8, <1>9, <1>10 DEF Next

(* Every variable keeps its type. *)
THEOREM TypeCorrect == Spec => []TypeOK
<1>1. QED
  BY TypeInit, TypeStep, PTL DEF Spec

-----------------------------------------------------------------------------
(* No row is lost to the delta cursor. *)

(* A statement of a push never takes a row out of a delta, and a row it      *)
(* changes in time belongs to the delta of every cursor in use: its stamp is *)
(* at most Overlap behind the server's clock.                                *)
LEMMA PushDelta ==
  ASSUME TypeOK, NEW d \in Devices, NEW e \in Entities, PushEntity(d, e),
         NEW f \in Entities, NEW c \in Nat, c <= now
  PROVE  /\ InDelta(f, c) => InDelta(f, c)'
         /\ f \notin late' => srv'[f] = srv[f] \/ InDelta(f, c)'
<1> DEFINE v == sent[d][e]
<1>1. v \in Version /\ srv[f] \in Version /\ v.ts \in Nat /\ srv[f].ts \in Nat
  BY VersionFacts DEF TypeOK
<1>2. now \in Nat /\ Overlap \in Nat /\ Since(c) \in Nat /\ (Since(c) = 0 \/ Since(c) + Overlap = c)
  BY SinceFacts, SyncAssumption DEF TypeOK
<1>3. srv' = srv \/ (srv' = [srv EXCEPT ![e] = v] /\ srv[e].ts < v.ts)
  BY PushEffect
<1>4. CASE srv'[f] = srv[f]
  BY <1>4 DEF InDelta
<1>5. CASE srv'[f] # srv[f]
  <2>1. f = e /\ srv'[f] = v /\ srv[f].ts < v.ts
    BY <1>3, <1>5 DEF TypeOK
  <2>2. v # Absent
    BY <2>1, <1>1, VersionFacts
  <2>3. InDelta(f, c) => InDelta(f, c)'
    BY <2>1, <2>2, <1>1, <1>2 DEF InDelta
  <2>4. f \notin late' => ~(v.ts + Overlap < now)
    BY <2>1 DEF PushEntity
  <2>5. ~(v.ts + Overlap < now) => v.ts >= Since(c)
    BY <1>1, <1>2
  <2>6. QED
    BY <2>1, <2>2, <2>3, <2>4, <2>5 DEF InDelta
<1>6. QED
  BY <1>4, <1>5

LEMMA IndInit == Init => IInv
<1> SUFFICES ASSUME Init PROVE IInv
  OBVIOUS
<1>1. TypeOK
  BY TypeInit
<1>2. ClockInv
  BY DEF Init, ClockInv
<1>3. RequestInv
  BY DEF Init, RequestInv, NoResult, NoRows
<1>4. PushInv
  BY DEF Init, PushInv, NoResult, Accepted
<1>5. PullInv
  BY DEF Init, PullInv
<1>6. DeltaComplete
  BY DEF Init, DeltaComplete, Covered, NoRows
<1>7. QED
  BY <1>1, <1>2, <1>3, <1>4, <1>5, <1>6 DEF IInv, RequestsInv

LEMMA ClockStep ==
  ASSUME RequestsInv, [Next]_vars
  PROVE  ClockInv'
<1> USE DEF RequestsInv, ClockInv, TypeOK
<1>1. CASE Tick
  BY <1>1 DEF Tick, device, request
<1>2. ASSUME NEW d \in Devices, NEW e \in Entities, Edit(d, e)
      PROVE  ClockInv'
  BY <1>2 DEF Edit, request
<1>3. ASSUME NEW d \in Devices, StartPush(d)
      PROVE  ClockInv'
  BY <1>3 DEF StartPush, device
<1>4. ASSUME NEW d \in Devices, NEW e \in Entities, PushEntity(d, e)
      PROVE  ClockInv'
  BY <1>4 DEF PushEntity, device
<1>5. ASSUME NEW d \in Devices, PushDone(d)
      PROVE  ClockInv'
  BY <1>5 DEF PushDone, Close
<1>6. ASSUME NEW d \in Devices, StartPull(d)
      PROVE  ClockInv'
  BY <1>6 DEF StartPull, device
<1>7. ASSUME NEW d \in Devices, NEW t \in Tables, ReadTable(d, t)
      PROVE  ClockInv'
  BY <1>7 DEF ReadTable, device
<1>8. ASSUME NEW d \in Devices, PullDone(d)
      PROVE  ClockInv'
  BY <1>8 DEF PullDone, Close, Watermark
<1>9. ASSUME NEW d \in Devices, Lost(d)
      PROVE  ClockInv'
  BY <1>9 DEF Lost, Close, device
<1>10. CASE UNCHANGED vars
  BY <1>10 DEF vars, device, request
<1>11. QED
  BY <1>1, <1>2, <1>3, <1>4, <1>5, <1>6, <1>7, <1>8, <1>9, <1>10 DEF Next

LEMMA RequestStep ==
  ASSUME RequestsInv, [Next]_vars
  PROVE  RequestInv'
<1> USE DEF RequestsInv, RequestInv, TypeOK
<1>1. CASE Tick
  BY <1>1 DEF Tick, device, request
<1>2. ASSUME NEW d \in Devices, NEW e \in Entities, Edit(d, e)
      PROVE  RequestInv'
  <2>1. PICK t \in now .. now + MaxAhead, c \in CodesOf[e], s \in ParentChoices(e) :
          /\ local' = [local EXCEPT ![d][e] = [ts |-> t, code |-> c, station |-> s]]
          /\ dirty' = [dirty EXCEPT ![d] = @ \union {e}]
          /\ UNCHANGED request
    BY <1>2 DEF Edit
  <2>2. t >= 1
    BY SyncAssumption DEF ClockInv
  <2>3. QED
    BY <2>1, <2>2 DEF request
<1>3. ASSUME NEW d \in Devices, StartPush(d)
      PROVE  RequestInv'
  BY <1>3 DEF StartPush, device
<1>4. ASSUME NEW d \in Devices, NEW e \in Entities, PushEntity(d, e)
      PROVE  RequestInv'
  <2>1. PICK r \in SyncStatus : result' = [result EXCEPT ![d][e] = r]
    BY <1>4, PushVerdict
  <2>2. /\ pc[d] = "push" /\ e \in todo[d]
        /\ todo' = [todo EXCEPT ![d] = @ \ {e}]
        /\ UNCHANGED <<device, pc, sent, got, mark>>
    BY <1>4 DEF PushEntity
  <2>3. QED
    BY <2>1, <2>2 DEF device
<1>5. ASSUME NEW d \in Devices, PushDone(d)
      PROVE  RequestInv'
  BY <1>5 DEF PushDone, Close, NoResult, NoRows, Settled, Discarded
<1>6. ASSUME NEW d \in Devices, StartPull(d)
      PROVE  RequestInv'
  BY <1>6 DEF StartPull, device
<1>7. ASSUME NEW d \in Devices, NEW t \in Tables, ReadTable(d, t)
      PROVE  RequestInv'
  BY <1>7 DEF ReadTable, device
<1>8. ASSUME NEW d \in Devices, PullDone(d)
      PROVE  RequestInv'
  BY <1>8 DEF PullDone, Close, NoResult, NoRows
<1>9. ASSUME NEW d \in Devices, Lost(d)
      PROVE  RequestInv'
  BY <1>9 DEF Lost, Close, NoResult, NoRows, device
<1>10. CASE UNCHANGED vars
  BY <1>10 DEF vars, device, request
<1>11. QED
  BY <1>1, <1>2, <1>3, <1>4, <1>5, <1>6, <1>7, <1>8, <1>9, <1>10 DEF Next

(* A stored row's stamp never goes down. *)
LEMMA StampsGrow ==
  ASSUME TypeOK, NEW d \in Devices, NEW e \in Entities, PushEntity(d, e), NEW f \in Entities
  PROVE  srv[f].ts <= srv'[f].ts
<1>1. srv' = srv \/ (srv' = [srv EXCEPT ![e] = sent[d][e]] /\ srv[e].ts < sent[d][e].ts)
  BY PushEffect
<1>2. srv[f].ts \in Nat /\ sent[d][e].ts \in Nat
  BY VersionFacts DEF TypeOK
<1>3. srv'[f] = srv[f] \/ (f = e /\ srv'[f] = sent[d][e] /\ srv[e].ts < sent[d][e].ts)
  BY <1>1 DEF TypeOK
<1>4. QED
  BY <1>2, <1>3

LEMMA PushStep ==
  ASSUME RequestsInv, [Next]_vars
  PROVE  PushInv'
<1> USE DEF RequestsInv, PushInv, InDelta
<1>1. CASE UNCHANGED <<srv, sent, result, cursor, late>>
  BY <1>1
<1>2. ASSUME NEW d \in Devices, StartPush(d)
      PROVE  PushInv'
  <2>1. \A f \in Entities : result[d][f] \notin Accepted \union {"STALE"}
    BY <1>2 DEF StartPush, RequestInv, Accepted
  <2>2. QED
    BY <1>2, <2>1 DEF StartPush, device, ghosts, TypeOK
<1>3. ASSUME NEW d \in Devices, NEW e \in Entities, PushEntity(d, e)
      PROVE  PushInv'
  <2>1. /\ UNCHANGED <<cursor, sent>>
        /\ late \subseteq late'
        /\ pc[d] = "push" /\ e \in todo[d]
    BY <1>3 DEF PushEntity, device
  <2> SUFFICES ASSUME NEW d2 \in Devices, NEW e2 \in Entities,
                      result'[d2][e2] \in Accepted \union {"STALE"}
               PROVE  /\ sent[d2][e2].ts <= srv'[e2].ts
                      /\ e2 \notin late' =>
                           \/ result'[d2][e2] \in Accepted /\ sent[d2][e2] = srv'[e2]
                           \/ InDelta(e2, cursor[d2])'
    BY <2>1
  <2>2. /\ InDelta(e2, cursor[d2]) => InDelta(e2, cursor[d2])'
        /\ e2 \notin late' => srv'[e2] = srv[e2] \/ InDelta(e2, cursor[d2])'
    <3>1. cursor[d2] \in Nat /\ cursor[d2] <= now
      BY DEF TypeOK, ClockInv
    <3>2. QED
      BY <1>3, <2>1, <3>1, PushDelta
  <2>3. srv[e2].ts <= srv'[e2].ts
    BY <1>3, StampsGrow
  <2>4. /\ srv[e2].ts \in Nat /\ srv'[e2].ts \in Nat /\ sent[d2][e2].ts \in Nat
        /\ Absent.ts = 0
    BY VersionFacts, TypeStep DEF TypeOK
  <2>5. CASE d2 = d /\ e2 = e
    <3>1. PICK r \in SyncStatus :
            /\ result' = [result EXCEPT ![d][e] = r]
            /\ r \in Accepted => srv' = [srv EXCEPT ![e] = sent[d][e]]
            /\ r = "STALE" => srv' = srv /\ ~(srv[e].ts < sent[d][e].ts)
      <4>1. \E r \in SyncStatus :
            /\ result' = [result EXCEPT ![d][e] = r]
            /\ r \in Accepted => /\ srv' = [srv EXCEPT ![e] = sent[d][e]]
                                 /\ srv[e].ts < sent[d][e].ts
            /\ r = "STALE" => srv' = srv /\ ~(srv[e].ts < sent[d][e].ts)
        BY <1>3, PushEffect
      <4>2. QED
        BY <4>1
    <3>2. result'[d][e] = r
      BY <3>1 DEF TypeOK
    <3>3. CASE r \in Accepted
      <4>1. srv'[e] = sent[d][e]
        BY <3>1, <3>3 DEF TypeOK
      <4>2. QED
        BY <2>4, <2>5, <3>2, <3>3, <4>1
    <3>4. CASE r = "STALE"
      <4>1. srv' = srv /\ sent[d][e].ts <= srv[e].ts /\ sent[d][e].ts >= 1
        BY <2>1, <2>4, <2>5, <3>1, <3>4 DEF RequestInv
      <4>2. srv[e] # Absent
        BY <2>4, <2>5, <4>1
      <4>3. e \notin late' => ~(sent[d][e].ts + Overlap < now)
        BY <1>3 DEF PushEntity
      <4>4. now \in Nat /\ Overlap \in Nat /\ cursor[d] \in Nat /\ cursor[d] <= now
        BY SyncAssumption DEF TypeOK, ClockInv
      <4>5. Since(cursor[d]) \in Nat /\ (Since(cursor[d]) = 0 \/ Since(cursor[d]) + Overlap = cursor[d])
        BY <4>4, SinceFacts
      <4>6. e \notin late' => srv[e].ts >= Since(cursor[d])
        BY <2>4, <2>5, <4>1, <4>3, <4>4, <4>5
      <4>7. QED
        BY <2>1, <2>5, <4>1, <4>2, <4>6
    <3>5. QED
      BY <2>5, <3>2, <3>3, <3>4
  <2>6. CASE ~(d2 = d /\ e2 = e)
    <3>1. PICK r \in SyncStatus : result' = [result EXCEPT ![d][e] = r]
      BY <1>3, PushVerdict
    <3>2. result'[d2][e2] = result[d2][e2]
      BY <2>6, <3>1 DEF TypeOK
    <3>3. /\ sent[d2][e2].ts <= srv[e2].ts
          /\ e2 \notin late =>
               \/ result[d2][e2] \in Accepted /\ sent[d2][e2] = srv[e2]
               \/ InDelta(e2, cursor[d2])
      BY <3>2
    <3>4. QED
      BY <2>1, <2>2, <2>3, <2>4, <3>2, <3>3
  <2>7. QED
    BY <2>5, <2>6
<1>4. ASSUME NEW d \in Devices, Close(d), UNCHANGED <<srv, late>>,
             \A d2 \in Devices \ {d} : cursor'[d2] = cursor[d2]
      PROVE  PushInv'
  <2>1. \A f \in Entities : result'[d][f] \notin Accepted \union {"STALE"}
    BY <1>4 DEF Close, NoResult, Accepted, TypeOK
  <2>2. \A d2 \in Devices \ {d} : result'[d2] = result[d2] /\ sent'[d2] = sent[d2]
    BY <1>4 DEF Close, TypeOK
  <2>3. QED
    BY <1>4, <2>1, <2>2
<1>5. ASSUME NEW d \in Devices, PushDone(d)
      PROVE  PushInv'
  BY <1>4, <1>5 DEF PushDone, ghosts, TypeOK
<1>6. ASSUME NEW d \in Devices, PullDone(d)
      PROVE  PushInv'
  BY <1>4, <1>6 DEF PullDone, ghosts, TypeOK
<1>7. ASSUME NEW d \in Devices, Lost(d)
      PROVE  PushInv'
  BY <1>4, <1>7 DEF Lost, ghosts, device
<1>8. QED
  BY <1>1, <1>2, <1>3, <1>5, <1>6, <1>7
     DEF Next, Tick, Edit, StartPull, ReadTable, vars, device, request, ghosts

LEMMA PullStep ==
  ASSUME IInv, [Next]_vars
  PROVE  PullInv'
<1> USE DEF IInv, RequestsInv, PullInv, InDelta
<1>1. CASE UNCHANGED <<srv, local, dirty, pc, todo, got, mark, late>>
  BY <1>1
<1>2. ASSUME NEW d \in Devices, NEW e \in Entities, Edit(d, e)
      PROVE  PullInv'
  BY <1>2 DEF Edit, request, TypeOK
<1>3. ASSUME NEW d \in Devices, StartPush(d) \/ StartPull(d)
      PROVE  PullInv'
  <2>1. /\ UNCHANGED <<srv, local, dirty, late, got>>
        /\ \A d2 \in Devices \ {d} :
             pc'[d2] = pc[d2] /\ todo'[d2] = todo[d2] /\ mark'[d2] = mark[d2]
    BY <1>3 DEF StartPush, StartPull, device, ghosts, TypeOK
  <2>2. pc'[d] = "pull" => todo'[d] = Entities
    BY <1>3 DEF StartPush, StartPull, TypeOK
  <2>3. QED
    BY <2>1, <2>2
<1>4. ASSUME NEW d \in Devices, NEW e \in Entities, PushEntity(d, e)
      PROVE  PullInv'
  <2>1. /\ UNCHANGED <<local, dirty, pc, got, mark>>
        /\ late \subseteq late'
        /\ pc[d] = "push" /\ todo' = [todo EXCEPT ![d] = @ \ {e}]
    BY <1>4 DEF PushEntity, device
  <2> SUFFICES ASSUME NEW d2 \in Devices, NEW e2 \in Entities \ (dirty[d2] \union late'),
                      pc[d2] = "pull", e2 \notin todo'[d2]
               PROVE  \/ InDelta(e2, mark[d2])'
                      \/ srv'[e2] = IF got[d2][e2] # Absent THEN got[d2][e2] ELSE local[d2][e2]
    BY <2>1
  <2>2. d2 # d /\ e2 \notin todo[d2]
    BY <2>1 DEF TypeOK
  <2>3. mark[d2] \in Nat /\ mark[d2] <= now
    BY DEF TypeOK, ClockInv
  <2>4. /\ InDelta(e2, mark[d2]) => InDelta(e2, mark[d2])'
        /\ srv'[e2] = srv[e2] \/ InDelta(e2, mark[d2])'
    BY <1>4, <2>1, <2>3, PushDelta
  <2>5. \/ InDelta(e2, mark[d2])
        \/ srv[e2] = IF got[d2][e2] # Absent THEN got[d2][e2] ELSE local[d2][e2]
    BY <2>1, <2>2
  <2>6. QED
    BY <2>1, <2>4, <2>5
<1>5. ASSUME NEW d \in Devices, NEW t \in Tables, ReadTable(d, t)
      PROVE  PullInv'
  <2> DEFINE rows == {f \in Entities : Table[f] = t}
  <2>1. /\ UNCHANGED <<srv, local, dirty, cursor, pc, mark, late>>
        /\ pc[d] = "pull"
        /\ todo' = [todo EXCEPT ![d] = @ \ rows]
        /\ got' = [got EXCEPT ![d] = [f \in Entities |->
                      IF f \in rows /\ InDelta(f, cursor[d]) THEN srv[f] ELSE got[d][f]]]
    BY <1>5 DEF ReadTable, device, ghosts
  <2> HIDE DEF rows
  <2> SUFFICES ASSUME NEW d2 \in Devices, NEW e2 \in Entities \ (dirty[d2] \union late),
                      pc[d2] = "pull", e2 \notin todo'[d2]
               PROVE  \/ InDelta(e2, mark[d2])
                      \/ srv[e2] = IF got'[d2][e2] # Absent THEN got'[d2][e2] ELSE local[d2][e2]
    BY <2>1
  <2>2. CASE d2 # d
    <3>1. todo'[d2] = todo[d2] /\ got'[d2] = got[d2]
      BY <2>1, <2>2 DEF TypeOK
    <3>2. QED
      BY <3>1
  <2>3. CASE d2 = d
    <3>1. got'[d][e2] = IF e2 \in rows /\ InDelta(e2, cursor[d]) THEN srv[e2] ELSE got[d][e2]
      BY <2>1 DEF TypeOK
    <3>2. CASE e2 \in rows /\ InDelta(e2, cursor[d])
      BY <2>3, <3>1, <3>2
    <3>3. CASE ~(e2 \in rows /\ InDelta(e2, cursor[d])) /\ e2 \in todo[d]
      <4>1. e2 \in rows
        BY <2>1, <2>3, <3>3 DEF TypeOK
      <4>2. got'[d][e2] = Absent
        BY <3>1, <3>3 DEF RequestInv
      <4>3. local[d][e2] = srv[e2]
        BY <2>3, <3>3, <4>1 DEF DeltaComplete, Covered
      <4>4. QED
        BY <2>3, <4>2, <4>3
    <3>4. CASE ~(e2 \in rows /\ InDelta(e2, cursor[d])) /\ e2 \notin todo[d]
      BY <2>3, <3>1, <3>4
    <3>5. QED
      BY <3>2, <3>3, <3>4
  <2>4. QED
    BY <2>2, <2>3
<1>6. ASSUME NEW d \in Devices, Close(d), UNCHANGED <<srv, late>>,
             \A d2 \in Devices \ {d} : local'[d2] = local[d2] /\ dirty'[d2] = dirty[d2]
      PROVE  PullInv'
  <2>1. pc'[d] = "idle"
    BY <1>6 DEF Close, TypeOK
  <2>2. \A d2 \in Devices \ {d} : /\ pc'[d2] = pc[d2] /\ todo'[d2] = todo[d2]
                                  /\ got'[d2] = got[d2] /\ mark'[d2] = mark[d2]
    BY <1>6 DEF Close, TypeOK
  <2>3. QED
    BY <1>6, <2>1, <2>2
<1>7. ASSUME NEW d \in Devices, PushDone(d)
      PROVE  PullInv'
  BY <1>6, <1>7 DEF PushDone, ghosts, TypeOK
<1>8. ASSUME NEW d \in Devices, PullDone(d)
      PROVE  PullInv'
  BY <1>6, <1>8 DEF PullDone, ghosts, TypeOK
<1>9. ASSUME NEW d \in Devices, Lost(d)
      PROVE  PullInv'
  BY <1>6, <1>9 DEF Lost, ghosts, device
<1>10. QED
  BY <1>1, <1>2, <1>3, <1>4, <1>5, <1>7, <1>8, <1>9
     DEF Next, Tick, vars, device, request, ghosts

LEMMA DeltaStep ==
  ASSUME IInv, [Next]_vars, ~CursorFromPush
  PROVE  DeltaComplete'
<1> USE DEF IInv, RequestsInv, DeltaComplete, Covered, InDelta
<1>1. CASE UNCHANGED <<srv, local, dirty, cursor, late>>
  BY <1>1
<1>2. ASSUME NEW d \in Devices, NEW e \in Entities, Edit(d, e)
      PROVE  DeltaComplete'
  BY <1>2 DEF Edit, TypeOK
<1>3. ASSUME NEW d \in Devices, NEW e \in Entities, PushEntity(d, e)
      PROVE  DeltaComplete'
  <2>1. UNCHANGED <<local, dirty, cursor>> /\ late \subseteq late'
    BY <1>3 DEF PushEntity, device
  <2> SUFFICES ASSUME NEW d2 \in Devices, NEW e2 \in Entities \ late', e2 \notin dirty[d2]
               PROVE  local[d2][e2] = srv'[e2] \/ InDelta(e2, cursor[d2])'
    BY <2>1
  <2>2. cursor[d2] \in Nat /\ cursor[d2] <= now
    BY DEF TypeOK, ClockInv
  <2>3. /\ InDelta(e2, cursor[d2]) => InDelta(e2, cursor[d2])'
        /\ srv'[e2] = srv[e2] \/ InDelta(e2, cursor[d2])'
    BY <1>3, <2>1, <2>2, PushDelta
  <2>4. local[d2][e2] = srv[e2] \/ InDelta(e2, cursor[d2])
    BY <2>1
  <2>5. QED
    BY <2>1, <2>3, <2>4
<1>4. ASSUME NEW d \in Devices, PushDone(d)
      PROVE  DeltaComplete'
  <2>1. /\ UNCHANGED <<srv, cursor, late>>
        /\ dirty' = [dirty EXCEPT ![d] = @ \ (Settled(d) \union Discarded(d))]
        /\ local' = [local EXCEPT ![d] = [f \in Entities |->
                        IF f \in Discarded(d) THEN Absent ELSE local[d][f]]]
    BY <1>4 DEF PushDone, ghosts
  <2> SUFFICES ASSUME NEW d2 \in Devices, NEW e2 \in Entities \ late, e2 \notin dirty'[d2]
               PROVE  local'[d2][e2] = srv[e2] \/ InDelta(e2, cursor[d2])
    BY <2>1
  <2>2. CASE e2 \notin dirty[d2]
    <3>1. local'[d2][e2] = local[d2][e2]
      BY <2>1, <2>2 DEF Discarded, TypeOK
    <3>2. QED
      BY <2>2, <3>1
  <2>3. CASE e2 \in dirty[d2]
    <3>1. d2 = d /\ e2 \in Settled(d) \union Discarded(d)
      BY <2>1, <2>3 DEF TypeOK
    <3>2. CASE e2 \in Discarded(d)
      <4>1. result[d][e2] = "STALE"
        BY <3>2 DEF Discarded
      <4>2. InDelta(e2, cursor[d])
        BY <4>1 DEF PushInv, Accepted
      <4>3. QED
        BY <3>1, <4>2
    <3>3. CASE e2 \notin Discarded(d)
      <4>1. result[d][e2] \in Accepted /\ local[d][e2] = sent[d][e2]
        BY <3>1, <3>3 DEF Settled
      <4>2. local'[d][e2] = local[d][e2]
        BY <2>1, <3>3 DEF TypeOK
      <4>3. sent[d][e2] = srv[e2] \/ InDelta(e2, cursor[d])
        BY <4>1 DEF PushInv
      <4>4. QED
        BY <3>1, <4>1, <4>2, <4>3
    <3>4. QED
      BY <3>2, <3>3
  <2>4. QED
    BY <2>2, <2>3
<1>5. ASSUME NEW d \in Devices, PullDone(d)
      PROVE  DeltaComplete'
  <2>1. /\ UNCHANGED <<srv, dirty, late>>
        /\ pc[d] = "pull" /\ todo[d] = {}
        /\ cursor' = [cursor EXCEPT ![d] = mark[d]]
        /\ local' = [local EXCEPT ![d] = [f \in Entities |->
             IF f \notin dirty[d] /\ got[d][f] # Absent THEN got[d][f] ELSE local[d][f]]]
    BY <1>5 DEF PullDone, ghosts, Watermark
  <2> SUFFICES ASSUME NEW d2 \in Devices, NEW e2 \in Entities \ late, e2 \notin dirty[d2]
               PROVE  local'[d2][e2] = srv[e2] \/ InDelta(e2, cursor'[d2])
    BY <2>1
  <2>2. CASE d2 # d
    <3>1. local'[d2] = local[d2] /\ cursor'[d2] = cursor[d2]
      BY <2>1, <2>2 DEF TypeOK
    <3>2. QED
      BY <3>1
  <2>3. CASE d2 = d
    <3>1. local'[d][e2] = IF got[d][e2] # Absent THEN got[d][e2] ELSE local[d][e2]
      BY <2>1, <2>3 DEF TypeOK
    <3>2. cursor'[d] = mark[d]
      BY <2>1 DEF TypeOK
    <3>3. InDelta(e2, mark[d]) \/ srv[e2] = local'[d][e2]
      BY <2>1, <2>3, <3>1 DEF PullInv
    <3>4. QED
      BY <2>3, <3>2, <3>3
  <2>4. QED
    BY <2>2, <2>3
<1>6. QED
  BY <1>1, <1>2, <1>3, <1>4, <1>5
     DEF Next, Tick, StartPush, StartPull, ReadTable, Lost, vars, device, request, ghosts

(* No row is lost to the delta cursor: for every overlap, a row that was     *)
(* never pushed later than the overlap after its stamp is, on every device   *)
(* with no edit of it pending, either the server's version or part of the    *)
(* next delta.  The proviso on the cursor is the "previous pull" of the      *)
(* package comment in service.go.                                            *)
THEOREM NoRowIsLost == ASSUME ~CursorFromPush PROVE Spec => []DeltaComplete
<1>1. IInv /\ [Next]_vars => IInv'
  BY TypeStep, ClockStep, RequestStep, PushStep, PullStep, DeltaStep DEF IInv, RequestsInv
<1>2. IInv => DeltaComplete
  BY DEF IInv
<1>3. QED
  BY IndInit, <1>1, <1>2, PTL DEF Spec

-----------------------------------------------------------------------------
(* What holds whatever the client does with the cursor. *)

LEMMA RequestsInvariant == Spec => []RequestsInv
<1>1. Init => RequestsInv
  BY IndInit DEF IInv
<1>2. RequestsInv /\ [Next]_vars => RequestsInv'
  BY TypeStep, ClockStep, RequestStep, PushStep DEF RequestsInv
<1>3. QED
  BY <1>1, <1>2, PTL DEF Spec

(* An edit leaves a device's queue only when the server holds it or a later *)
(* version of the row.                                                      *)
THEOREM EditsAreKept == Spec => NoEditLost
<1> DEFINE Kept == \A d \in Devices : \A e \in dirty[d] \ dirty'[d] : local[d][e].ts <= srv[e].ts
<1>1. ASSUME RequestsInv, Next
      PROVE  Kept
  <2> SUFFICES ASSUME NEW d \in Devices, NEW e \in dirty[d] \ dirty'[d]
               PROVE  local[d][e].ts <= srv[e].ts
    OBVIOUS
  <2>1. e \in Entities
    BY <1>1 DEF RequestsInv, TypeOK
  <2>2. PICK d2 \in Devices : PushDone(d2)
    <3>1. ASSUME NEW f \in Devices, NEW g \in Entities, Edit(f, g)
          PROVE  FALSE
      <4>1. dirty' = [dirty EXCEPT ![f] = @ \union {g}]
        BY <3>1 DEF Edit
      <4>2. QED
        BY <1>1, <4>1 DEF RequestsInv, TypeOK
    <3>2. dirty' # dirty
      OBVIOUS
    <3>3. QED
      BY <1>1, <3>1, <3>2 DEF Next, Tick, StartPush, PushEntity, StartPull, ReadTable,
                              PullDone, Lost, device
  <2>3. d2 = d /\ e \in Settled(d) \union Discarded(d)
    BY <1>1, <2>2 DEF PushDone, RequestsInv, TypeOK
  <2>4. local[d][e] = sent[d][e] /\ result[d][e] \in Accepted \union {"STALE"}
    BY <2>3 DEF Settled, Discarded
  <2>5. QED
    BY <1>1, <2>1, <2>4 DEF RequestsInv, PushInv
<1>2. RequestsInv /\ [Next]_vars => [Kept]_vars
  BY <1>1
<1>3. QED
  BY <1>2, RequestsInvariant, PTL DEF Spec, NoEditLost

(* The stored rows implement last-write-wins registers: a behaviour of the  *)
(* engine, seen through its rows, only ever replaces a row by a later one.  *)
THEOREM EngineImplementsRegisters == Spec => RowsAreRegisters
<1>1. Init => Registers!Init
  BY DEF Init, Registers!Init, NoRows
<1>2. ASSUME RequestsInv, [Next]_vars
      PROVE  [Registers!Next]_srv
  <2>1. CASE UNCHANGED srv
    BY <2>1
  <2>2. ASSUME NEW d \in Devices, NEW e \in Entities, PushEntity(d, e)
        PROVE  [Registers!Next]_srv
    <3>1. srv' = srv \/ (srv' = [srv EXCEPT ![e] = sent[d][e]] /\ srv[e].ts < sent[d][e].ts)
      BY <2>2, PushEffect
    <3>2. sent[d][e] \in Version /\ sent[d][e].ts \in Nat /\ srv[e].ts \in Nat
      BY <1>2, VersionFacts DEF RequestsInv, TypeOK
    <3>3. ASSUME srv' = [srv EXCEPT ![e] = sent[d][e]], srv[e].ts < sent[d][e].ts
          PROVE  Registers!Overwrite(e)
      <4>1. srv'[e] = sent[d][e]
        BY <1>2, <3>3 DEF RequestsInv, TypeOK
      <4>2. QED
        BY <3>2, <3>3, <4>1 DEF Registers!Overwrite, Registers!Later
    <3>4. QED
      BY <3>1, <3>3 DEF Registers!Next
  <2>3. QED
    BY <1>2, <2>1, <2>2
       DEF Next, Tick, Edit, StartPush, PushDone, StartPull, ReadTable, PullDone, Lost,
           vars
<1>3. QED
  BY <1>1, <1>2, RequestsInvariant, PTL DEF Spec, RowsAreRegisters, Registers!Spec

-----------------------------------------------------------------------------
(* Families: parents are stored before their children. *)

(* The parent of a version is among some rows. *)
Known(v, rows) == v.station \in Entities /\ rows[v.station] # Absent

(* Whatever came from the server has a parent there. *)
FamilyInv ==
  /\ \A e \in Entities : IsChild(e) /\ srv[e] # Absent => Known(srv[e], srv)
  /\ \A d \in Devices : \A e \in Entities : IsChild(e) =>
       /\ got[d][e] # Absent => Known(got[d][e], srv)
       /\ local[d][e] # Absent /\ e \notin dirty[d] => Known(local[d][e], srv)
       /\ result[d][e] \in Accepted => Known(sent[d][e], srv)

(* Children name stations, and an orphan was judged after its parent. *)
BatchInv ==
  \A d \in Devices : \A e \in Entities :
    /\ IsChild(e) /\ e \in dirty[d] =>
         local[d][e].station \in Entities /\ ~IsChild(local[d][e].station)
    /\ IsChild(e) /\ sent[d][e] # Absent =>
         sent[d][e].station \in Entities /\ ~IsChild(sent[d][e].station)
    /\ result[d][e] # "none" => sent[d][e] # Absent /\ sent[d][e].ts >= 1
    /\ result[d][e] = "ORPHAN" => IsChild(e) /\ sent[d][e].station \notin todo[d]

FamiliesInv == RequestsInv /\ FamilyInv /\ BatchInv /\ ParentsFirst

LEMMA FamiliesInit == Init => FamiliesInv
<1> SUFFICES ASSUME Init PROVE FamiliesInv
  OBVIOUS
<1>1. RequestsInv
  BY IndInit DEF IInv
<1>2. FamilyInv /\ BatchInv /\ ParentsFirst
  BY DEF Init, FamilyInv, BatchInv, ParentsFirst, NoRows, NoResult, Accepted
<1>3. QED
  BY <1>1, <1>2 DEF FamiliesInv

(* Two excerpts of PushEffect. *)
LEMMA FamilyVerdict ==
  ASSUME NEW d \in Devices, NEW e \in Entities, PushEntity(d, e)
  PROVE  \E r \in SyncStatus :
           /\ result' = [result EXCEPT ![d][e] = r]
           /\ \/ srv' = srv
              \/ srv' = [srv EXCEPT ![e] = sent[d][e]] /\ ParentKnown(e, sent[d][e])
           /\ r \in Accepted => ParentKnown(e, sent[d][e])
<1>1. \E r \in SyncStatus :
          /\ result' = [result EXCEPT ![d][e] = r]
          /\ \/ srv' = srv
             \/ /\ srv' = [srv EXCEPT ![e] = sent[d][e]] /\ srv[e].ts < sent[d][e].ts
                /\ ParentKnown(e, sent[d][e])
          /\ r \in Accepted => /\ srv' = [srv EXCEPT ![e] = sent[d][e]]
                               /\ srv[e].ts < sent[d][e].ts
                               /\ ParentKnown(e, sent[d][e])
          /\ r = "STALE" => srv' = srv /\ ~(srv[e].ts < sent[d][e].ts)
          /\ r = "ORPHAN" => srv' = srv /\ ~ParentKnown(e, sent[d][e])
  BY PushEffect
<1>2. QED
  BY <1>1

LEMMA OrphanVerdict ==
  ASSUME NEW d \in Devices, NEW e \in Entities, PushEntity(d, e)
  PROVE  \E r \in SyncStatus :
           /\ result' = [result EXCEPT ![d][e] = r]
           /\ r = "ORPHAN" => ~ParentKnown(e, sent[d][e])
<1>1. \E r \in SyncStatus :
          /\ result' = [result EXCEPT ![d][e] = r]
          /\ \/ srv' = srv
             \/ /\ srv' = [srv EXCEPT ![e] = sent[d][e]] /\ srv[e].ts < sent[d][e].ts
                /\ ParentKnown(e, sent[d][e])
          /\ r \in Accepted => /\ srv' = [srv EXCEPT ![e] = sent[d][e]]
                               /\ srv[e].ts < sent[d][e].ts
                               /\ ParentKnown(e, sent[d][e])
          /\ r = "STALE" => srv' = srv /\ ~(srv[e].ts < sent[d][e].ts)
          /\ r = "ORPHAN" => srv' = srv /\ ~ParentKnown(e, sent[d][e])
  BY PushEffect
<1>2. QED
  BY <1>1

(* Rows do not disappear. *)
LEMMA KnownStays ==
  ASSUME RequestsInv, NEW d \in Devices, NEW e \in Entities, PushEntity(d, e), NEW v, Known(v, srv)
  PROVE  Known(v, srv')
<1>1. srv[v.station].ts <= srv'[v.station].ts /\ srv[v.station] \in Version
  BY StampsGrow DEF RequestsInv, TypeOK, Known
<1>2. srv' = srv \/ (srv' = [srv EXCEPT ![e] = sent[d][e]] /\ srv[e].ts < sent[d][e].ts)
  BY PushEffect
<1>3. sent[d][e].ts \in Nat /\ srv[e].ts \in Nat
  BY VersionFacts DEF RequestsInv, TypeOK
<1>4. srv'[v.station] # Absent
  BY <1>2, <1>3, VersionFacts DEF RequestsInv, TypeOK, Known
<1>5. QED
  BY <1>4 DEF Known

LEMMA FamilyStep ==
  ASSUME FamiliesInv, [Next]_vars
  PROVE  FamilyInv'
<1> USE DEF FamiliesInv, RequestsInv, TypeOK, FamilyInv
<1>1. CASE Tick
  BY <1>1 DEF Tick, device, request, Known
<1>2. ASSUME NEW d \in Devices, NEW e \in Entities, Edit(d, e)
      PROVE  FamilyInv'
  <2>1. PICK v : /\ local' = [local EXCEPT ![d][e] = v]
                 /\ dirty' = [dirty EXCEPT ![d] = @ \union {e}]
                 /\ UNCHANGED <<srv, request>>
    BY <1>2 DEF Edit
  <2>2. QED
    BY <2>1 DEF request, Known
<1>3. ASSUME NEW d \in Devices, StartPush(d)
      PROVE  FamilyInv'
  <2>1. \A e \in Entities : result[d][e] = "none"
    BY <1>3 DEF StartPush, RequestInv
  <2>2. QED
    BY <1>3, <2>1 DEF StartPush, device, Known, Accepted
<1>4. ASSUME NEW d \in Devices, NEW e \in Entities, PushEntity(d, e)
      PROVE  FamilyInv'
  <2>1. PICK r \in SyncStatus :
          /\ result' = [result EXCEPT ![d][e] = r]
          /\ \/ srv' = srv
             \/ srv' = [srv EXCEPT ![e] = sent[d][e]] /\ ParentKnown(e, sent[d][e])
          /\ r \in Accepted => ParentKnown(e, sent[d][e])
    BY <1>4, FamilyVerdict
  <2>2. UNCHANGED <<local, dirty, sent, got>>
    BY <1>4 DEF PushEntity, device
  <2>3. IsChild(e) /\ ParentKnown(e, sent[d][e]) => Known(sent[d][e], srv)
    BY DEF ParentKnown, Known
  <2>4. \A v : Known(v, srv) => Known(v, srv')
    BY <1>4, KnownStays
  <2>5. \A f \in Entities : IsChild(f) /\ srv'[f] # Absent => Known(srv'[f], srv')
    BY <2>1, <2>3, <2>4
  <2>6. \A c \in Devices : \A f \in Entities : IsChild(f) =>
          /\ got'[c][f] # Absent => Known(got'[c][f], srv')
          /\ local'[c][f] # Absent /\ f \notin dirty'[c] => Known(local'[c][f], srv')
    BY <2>2, <2>4
  <2>7. \A c \in Devices : \A f \in Entities :
          IsChild(f) /\ result'[c][f] \in Accepted => Known(sent'[c][f], srv')
    BY <2>1, <2>2, <2>3, <2>4
  <2>8. QED
    BY <2>5, <2>6, <2>7 DEF Known
<1>5. ASSUME NEW d \in Devices, PushDone(d)
      PROVE  FamilyInv'
  <2>1. /\ srv' = srv /\ got' = [got EXCEPT ![d] = NoRows]
        /\ sent' = [sent EXCEPT ![d] = NoRows] /\ result' = [result EXCEPT ![d] = NoResult]
        /\ local' = [local EXCEPT ![d] = [e \in Entities |->
                       IF e \in Discarded(d) THEN Absent ELSE local[d][e]]]
        /\ dirty' = [dirty EXCEPT ![d] = @ \ (Settled(d) \union Discarded(d))]
    BY <1>5 DEF PushDone, Close
  <2>2. ASSUME NEW e \in Entities, IsChild(e), local'[d][e] # Absent, e \notin dirty'[d]
        PROVE  Known(local'[d][e], srv)
    <3>1. e \notin Discarded(d) /\ local'[d][e] = local[d][e]
      BY <2>1, <2>2
    <3>2. CASE e \in Settled(d)
      BY <2>2, <3>1, <3>2 DEF Settled
    <3>3. CASE e \notin Settled(d)
      BY <2>1, <2>2, <3>1, <3>3
    <3>4. QED
      BY <3>2, <3>3
  <2>3. \A c \in Devices \ {d} : /\ local'[c] = local[c] /\ dirty'[c] = dirty[c]
                                 /\ got'[c] = got[c] /\ sent'[c] = sent[c]
                                 /\ result'[c] = result[c]
    BY <2>1
  <2>4. \A e \in Entities : got'[d][e] = Absent /\ result'[d][e] \notin Accepted
    BY <2>1 DEF NoRows, NoResult, Accepted
  <2>5. QED
    BY <2>1, <2>2, <2>3, <2>4 DEF Known
<1>6. ASSUME NEW d \in Devices, StartPull(d)
      PROVE  FamilyInv'
  BY <1>6 DEF StartPull, device, Known
<1>7. ASSUME NEW d \in Devices, NEW t \in Tables, ReadTable(d, t)
      PROVE  FamilyInv'
  <2>1. /\ UNCHANGED <<srv, local, dirty, sent, result>>
        /\ \A f \in Entities : got'[d][f] \in {got[d][f], srv[f]}
        /\ \A c \in Devices \ {d} : got'[c] = got[c]
    BY <1>7 DEF ReadTable, device
  <2>2. ASSUME NEW c \in Devices, NEW f \in Entities, IsChild(f), got'[c][f] # Absent
        PROVE  Known(got'[c][f], srv)
    <3>1. got'[c][f] = got[c][f] \/ got'[c][f] = srv[f]
      <4>1. CASE c = d
        BY <2>1, <4>1
      <4>2. CASE c # d
        BY <2>1, <4>2
      <4>3. QED
        BY <4>1, <4>2
    <3>2. CASE got'[c][f] = got[c][f]
      BY <2>2, <3>2
    <3>3. CASE got'[c][f] = srv[f]
      BY <2>2, <3>3
    <3>4. QED
      BY <3>1, <3>2, <3>3
  <2>3. \A g \in Entities : IsChild(g) /\ srv[g] # Absent => Known(srv[g], srv)
    OBVIOUS
  <2>4. \A c \in Devices : \A f \in Entities : IsChild(f) =>
          /\ local[c][f] # Absent /\ f \notin dirty[c] => Known(local[c][f], srv)
          /\ result[c][f] \in Accepted => Known(sent[c][f], srv)
    OBVIOUS
  <2>5. QED
    BY <2>1, <2>2, <2>3, <2>4 DEF Known
<1>8. ASSUME NEW d \in Devices, PullDone(d)
      PROVE  FamilyInv'
  <2>1. /\ UNCHANGED <<srv, dirty>>
        /\ got' = [got EXCEPT ![d] = NoRows] /\ result' = [result EXCEPT ![d] = NoResult]
        /\ sent' = [sent EXCEPT ![d] = NoRows]
        /\ local' = [local EXCEPT ![d] = [e \in Entities |->
             IF e \notin dirty[d] /\ got[d][e] # Absent THEN got[d][e] ELSE local[d][e]]]
    BY <1>8 DEF PullDone, Close
  <2>2. QED
    BY <2>1 DEF Known, NoRows, NoResult, Accepted
<1>9. ASSUME NEW d \in Devices, Lost(d)
      PROVE  FamilyInv'
  BY <1>9 DEF Lost, Close, NoResult, NoRows, device, Known, Accepted
<1>10. CASE UNCHANGED vars
  BY <1>10 DEF vars, device, request, Known
<1>11. QED
  BY <1>1, <1>2, <1>3, <1>4, <1>5, <1>6, <1>7, <1>8, <1>9, <1>10 DEF Next

(* A station comes before what hangs off it. *)
LEMMA StationsFirst ==
  ASSUME NEW e \in Entities, NEW p \in Entities, IsChild(e), ~IsChild(p)
  PROVE  ~Precedes(e, p)
<1>1. Table[p] = "stations" /\ Table[e] \in {"measurements", "samples", "vegetation"}
  BY SyncAssumption DEF IsChild, Tables
<1>2. QED
  BY <1>1 DEF Precedes, TableOrder, Tables

LEMMA BatchStep ==
  ASSUME FamiliesInv, [Next]_vars
  PROVE  BatchInv'
<1> USE DEF FamiliesInv, RequestsInv, TypeOK, BatchInv
<1>1. CASE Tick
  BY <1>1 DEF Tick, device, request
<1>2. ASSUME NEW d \in Devices, NEW e \in Entities, Edit(d, e)
      PROVE  BatchInv'
  <2>1. PICK t \in now .. now + MaxAhead, c \in CodesOf[e], s \in ParentChoices(e) :
          /\ local' = [local EXCEPT ![d][e] = [ts |-> t, code |-> c, station |-> s]]
          /\ dirty' = [dirty EXCEPT ![d] = @ \union {e}]
          /\ UNCHANGED request
    BY <1>2 DEF Edit
  <2>2. IsChild(e) => s \in Entities /\ ~IsChild(s)
    BY DEF ParentChoices
  <2>3. QED
    BY <2>1, <2>2 DEF request
<1>3. ASSUME NEW d \in Devices, StartPush(d)
      PROVE  BatchInv'
  <2>1. \A e \in Entities : result[d][e] = "none"
    BY <1>3 DEF StartPush, RequestInv
  <2>2. QED
    BY <1>3, <2>1 DEF StartPush, device
<1>4. ASSUME NEW d \in Devices, NEW e \in Entities, PushEntity(d, e)
      PROVE  BatchInv'
  <2>1. PICK r \in SyncStatus :
          /\ result' = [result EXCEPT ![d][e] = r]
          /\ r = "ORPHAN" => ~ParentKnown(e, sent[d][e])
    BY <1>4, OrphanVerdict
  <2>2. /\ UNCHANGED <<local, dirty, sent>> /\ pc[d] = "push" /\ e \in todo[d]
        /\ todo' = [todo EXCEPT ![d] = @ \ {e}]
        /\ \A f \in todo[d] : Precedes(e, f)
    BY <1>4 DEF PushEntity, device
  <2>3. sent[d][e] # Absent /\ sent[d][e].ts >= 1
    BY <2>2, VersionFacts DEF RequestInv
  <2>4. r = "ORPHAN" => IsChild(e) /\ sent[d][e].station \notin todo[d]
    BY <2>1, <2>2, <2>3, StationsFirst DEF ParentKnown
  <2>5. QED
    BY <2>1, <2>2, <2>3, <2>4
<1>5. ASSUME NEW d \in Devices, PushDone(d)
      PROVE  BatchInv'
  BY <1>5 DEF PushDone, Close, NoResult, NoRows, Settled, Discarded
<1>6. ASSUME NEW d \in Devices, StartPull(d)
      PROVE  BatchInv'
  <2>1. \A e \in Entities : result[d][e] = "none"
    BY <1>6 DEF StartPull, RequestInv
  <2>2. QED
    BY <1>6, <2>1 DEF StartPull, device
<1>7. ASSUME NEW d \in Devices, NEW t \in Tables, ReadTable(d, t)
      PROVE  BatchInv'
  BY <1>7 DEF ReadTable, device
<1>8. ASSUME NEW d \in Devices, PullDone(d)
      PROVE  BatchInv'
  BY <1>8 DEF PullDone, Close, NoResult, NoRows
<1>9. ASSUME NEW d \in Devices, Lost(d)
      PROVE  BatchInv'
  BY <1>9 DEF Lost, Close, NoResult, NoRows, device
<1>10. CASE UNCHANGED vars
  BY <1>10 DEF vars, device, request
<1>11. QED
  BY <1>1, <1>2, <1>3, <1>4, <1>5, <1>6, <1>7, <1>8, <1>9, <1>10 DEF Next

LEMMA ParentStep ==
  ASSUME FamiliesInv, [Next]_vars
  PROVE  ParentsFirst'
<1> USE DEF FamiliesInv, RequestsInv, TypeOK, ParentsFirst
<1>1. ASSUME NEW d \in Devices, NEW e \in Entities, PushEntity(d, e)
      PROVE  ParentsFirst'
  <2>1. PICK r \in SyncStatus :
          /\ result' = [result EXCEPT ![d][e] = r]
          /\ r = "ORPHAN" => ~ParentKnown(e, sent[d][e])
    BY <1>1, OrphanVerdict
  <2>2. /\ sent' = sent /\ pc[d] = "push" /\ e \in todo[d]
        /\ \A f \in todo[d] : Precedes(e, f)
    BY <1>1 DEF PushEntity
  <2> SUFFICES ASSUME NEW c \in Devices, NEW f \in Entities, result'[c][f] = "ORPHAN",
                      sent[c][f].station \in Entities
               PROVE  result'[c][sent[c][f].station] \in Rejected \union {"none"}
    BY <2>2
  <2> DEFINE p == sent[c][f].station
  <2>3. CASE c = d /\ f = e
    <3>1. r = "ORPHAN" /\ ~ParentKnown(e, sent[d][e])
      BY <2>1, <2>3
    <3>2. IsChild(e) /\ srv[p] = Absent
      BY <2>3, <3>1 DEF ParentKnown
    <3>3. p # e
      <4>1. sent[d][e] # Absent
        BY <2>2, VersionFacts DEF RequestInv
      <4>2. QED
        BY <2>3, <3>2, <4>1 DEF BatchInv
    <3>4. result[d][p] \notin Accepted \union {"STALE"}
      <4>1. result[d][p] \in Accepted \union {"STALE"} => sent[d][p].ts <= 0
        BY <3>2, VersionFacts DEF PushInv
      <4>2. result[d][p] \in Accepted \union {"STALE"} => sent[d][p].ts >= 1
        BY DEF BatchInv, Accepted
      <4>3. sent[d][p].ts \in Nat
        BY VersionFacts
      <4>4. QED
        BY <4>1, <4>2, <4>3
    <3>5. result[d][p] \in Rejected \union {"none"}
      BY <3>4 DEF SyncStatus
    <3>6. QED
      BY <2>1, <2>3, <3>3, <3>5
  <2>4. CASE ~(c = d /\ f = e)
    <3>1. result[c][f] = "ORPHAN"
      BY <2>1, <2>4
    <3>2. ~(c = d /\ p = e)
      BY <2>2, <3>1 DEF BatchInv
    <3>3. QED
      BY <2>1, <3>1, <3>2
  <2>5. QED
    BY <2>3, <2>4
<1>2. ASSUME NEW d \in Devices, StartPush(d)
      PROVE  ParentsFirst'
  <2>1. \A e \in Entities : result[d][e] = "none"
    BY <1>2 DEF StartPush, RequestInv
  <2>2. QED
    BY <1>2, <2>1 DEF StartPush
<1>3. ASSUME NEW d \in Devices, PushDone(d) \/ PullDone(d) \/ Lost(d)
      PROVE  ParentsFirst'
  <2>1. /\ result' = [result EXCEPT ![d] = NoResult]
        /\ sent' = [sent EXCEPT ![d] = NoRows]
    BY <1>3 DEF PushDone, PullDone, Lost, Close
  <2>2. QED
    BY <2>1 DEF NoResult
<1>4. CASE UNCHANGED <<sent, result>>
  BY <1>4
<1>5. QED
  BY <1>1, <1>2, <1>3, <1>4 DEF Next, Tick, Edit, StartPull, ReadTable, vars, request

LEMMA FamiliesInvariant == Spec => []FamiliesInv
<1>1. FamiliesInv /\ [Next]_vars => FamiliesInv'
  BY TypeStep, ClockStep, RequestStep, PushStep, FamilyStep, BatchStep, ParentStep
     DEF FamiliesInv, RequestsInv
<1>2. QED
  BY FamiliesInit, <1>1, PTL DEF Spec

(* A child is refused for want of its parent only if the parent was not in   *)
(* the batch or was refused itself: the order of PushSyncQueue's loops.      *)
THEOREM ParentsComeFirst == Spec => []ParentsFirst
BY FamiliesInvariant, PTL DEF FamiliesInv

(* A child that a device holds without its station has that station ahead of *)
(* the cursor, although the queries of a pull are not one snapshot.          *)
THEOREM OrphansComeHome == ASSUME ~CursorFromPush PROVE Spec => []OrphansAreResent
<1>1. FamiliesInv /\ DeltaComplete => OrphansAreResent
  <2> SUFFICES ASSUME FamiliesInv, DeltaComplete, NEW d \in Devices, NEW e \in Entities,
                      IsChild(e), e \notin dirty[d], local[d][e] # Absent,
                      local[d][e].station \notin dirty[d] \union late,
                      local[d][local[d][e].station] = Absent
               PROVE  InDelta(local[d][e].station, cursor[d])
    BY DEF OrphansAreResent
  <2>1. Known(local[d][e], srv)
    BY DEF FamiliesInv, FamilyInv
  <2>2. QED
    BY <2>1 DEF Known, DeltaComplete, Covered
<1>2. QED
  BY <1>1, FamiliesInvariant, NoRowIsLost, PTL

-----------------------------------------------------------------------------
(* Monotonic reads. *)

(* What a pull has read is not ahead of the table, and neither is a copy     *)
(* that is not being edited; what has been read is not behind that copy.     *)
CopiesInv ==
  \A d \in Devices : \A e \in Entities :
    /\ got[d][e].ts <= srv[e].ts
    /\ e \notin dirty[d] => local[d][e].ts <= srv[e].ts
    /\ e \notin dirty[d] /\ got[d][e] # Absent => local[d][e].ts <= got[d][e].ts

LEMMA CopiesInit == Init => CopiesInv
<1>1. \A e \in Entities : NoRows[e] = Absent
  BY DEF NoRows
<1>2. QED
  BY <1>1, VersionFacts DEF Init, CopiesInv

(* A row of a device that leaves its queue was judged by the push that ends. *)
LEMMA LeavesQueue ==
  ASSUME RequestsInv, NEW d \in Devices, PushDone(d),
         NEW e \in Entities, e \in dirty[d], e \notin dirty'[d]
  PROVE  /\ local'[d][e] = Absent \/ local'[d][e] = local[d][e]
         /\ local[d][e].ts <= srv[e].ts
<1>1. e \in Settled(d) \union Discarded(d)
  BY DEF PushDone, RequestsInv, TypeOK
<1>2. local[d][e] = sent[d][e] /\ result[d][e] \in Accepted \union {"STALE"}
  BY <1>1 DEF Settled, Discarded
<1>3. local[d][e].ts <= srv[e].ts
  BY <1>2 DEF RequestsInv, PushInv
<1>4. QED
  BY <1>3 DEF PushDone, RequestsInv, TypeOK

LEMMA CopiesStep ==
  ASSUME RequestsInv, CopiesInv, [Next]_vars
  PROVE  CopiesInv'
<1> USE DEF RequestsInv, CopiesInv
<1>0. \A d \in Devices, e \in Entities :
        srv[e].ts \in Nat /\ local[d][e].ts \in Nat /\ got[d][e].ts \in Nat
  BY VersionFacts DEF TypeOK
<1>1. CASE UNCHANGED <<srv, local, dirty, got>>
  BY <1>1
<1>2. ASSUME NEW d \in Devices, NEW e \in Entities, Edit(d, e)
      PROVE  CopiesInv'
  <2>1. /\ UNCHANGED <<srv, got>>
        /\ dirty' = [dirty EXCEPT ![d] = @ \union {e}]
        /\ \A d2 \in Devices, f \in Entities :
             d2 # d \/ f # e => local'[d2][f] = local[d2][f]
    BY <1>2 DEF Edit, TypeOK, request
  <2>2. \A d2 \in Devices, f \in Entities :
          f \notin dirty'[d2] => f \notin dirty[d2] /\ (d2 # d \/ f # e)
    BY <2>1 DEF TypeOK
  <2>3. QED
    BY <2>1, <2>2
<1>3. ASSUME NEW d \in Devices, NEW e \in Entities, PushEntity(d, e)
      PROVE  CopiesInv'
  <2>1. UNCHANGED <<local, dirty, got>>
    BY <1>3 DEF PushEntity, device
  <2>2. \A f \in Entities : srv[f].ts <= srv'[f].ts
    BY <1>3, StampsGrow
  <2>3. \A f \in Entities : srv'[f].ts \in Nat
    BY TypeStep, VersionFacts DEF TypeOK
  <2>4. QED
    BY <1>0, <2>1, <2>2, <2>3
<1>4. ASSUME NEW d \in Devices, PushDone(d)
      PROVE  CopiesInv'
  <2>1. /\ srv' = srv /\ got' = [got EXCEPT ![d] = NoRows]
        /\ \A d2 \in Devices \ {d} : local'[d2] = local[d2] /\ dirty'[d2] = dirty[d2]
        /\ \A e \in Entities : e \notin dirty[d] => local'[d][e] = local[d][e]
    BY <1>4 DEF PushDone, Close, Discarded, TypeOK
  <2>2. \A e \in Entities : got'[d][e] = Absent
    BY <2>1 DEF TypeOK, NoRows
  <2>3. \A e \in Entities : e \notin dirty'[d] => local'[d][e].ts <= srv[e].ts
    BY <1>0, <1>4, <2>1, LeavesQueue, VersionFacts
  <2>4. \A d2 \in Devices \ {d} : got'[d2] = got[d2]
    BY <2>1 DEF TypeOK
  <2>5. QED
    BY <1>0, <2>1, <2>2, <2>3, <2>4, VersionFacts
<1>5. ASSUME NEW d \in Devices, NEW t \in Tables, ReadTable(d, t)
      PROVE  CopiesInv'
  <2>1. /\ UNCHANGED <<srv, local, dirty>>
        /\ \A d2 \in Devices, e \in Entities : got'[d2][e] \in {got[d2][e], srv[e]}
    BY <1>5 DEF ReadTable, device, TypeOK
  <2>2. QED
    BY <1>0, <2>1
<1>6. ASSUME NEW d \in Devices, PullDone(d)
      PROVE  CopiesInv'
  <2>1. /\ UNCHANGED <<srv, dirty>> /\ got' = [got EXCEPT ![d] = NoRows]
        /\ \A d2 \in Devices \ {d} : local'[d2] = local[d2]
        /\ \A e \in Entities : e \notin dirty[d] => local'[d][e] \in {local[d][e], got[d][e]}
    BY <1>6 DEF PullDone, Close, TypeOK
  <2>2. /\ \A e \in Entities : got'[d][e] = Absent
        /\ \A d2 \in Devices \ {d} : got'[d2] = got[d2]
    BY <2>1 DEF TypeOK, NoRows
  <2>3. QED
    BY <1>0, <2>1, <2>2, VersionFacts
<1>7. ASSUME NEW d \in Devices, Lost(d)
      PROVE  CopiesInv'
  <2>1. UNCHANGED <<srv, local, dirty>> /\ got' = [got EXCEPT ![d] = NoRows]
    BY <1>7 DEF Lost, Close, device
  <2>2. \A d2 \in Devices, e \in Entities : got'[d2][e] \in {got[d2][e], Absent}
    BY <2>1 DEF TypeOK, NoRows
  <2>3. QED
    BY <1>0, <2>1, <2>2, VersionFacts
<1>8. QED
  BY <1>1, <1>2, <1>3, <1>4, <1>5, <1>6, <1>7
     DEF Next, Tick, StartPush, StartPull, vars, device, request

(* A device's copy of a row never goes back to an older version, whatever    *)
(* the answers of its pulls and pushes, lost ones and conflicts included.    *)
THEOREM ReadsAreMonotonic == Spec => CopiesMoveForward
<1> DEFINE Forward == \A d \in Devices : \A e \in Entities \ (dirty[d] \union dirty'[d]) :
                        local[d][e].ts <= local'[d][e].ts
<1>1. ASSUME RequestsInv, CopiesInv, [Next]_vars
      PROVE  Forward
  <2> SUFFICES ASSUME NEW d \in Devices, NEW e \in Entities,
                      e \notin dirty[d], e \notin dirty'[d]
               PROVE  local[d][e].ts <= local'[d][e].ts
    OBVIOUS
  <2>1. \/ local'[d][e] = local[d][e]
        \/ got[d][e] # Absent /\ local'[d][e] = got[d][e]
    <3>1. CASE UNCHANGED local
      BY <3>1
    <3>2. ASSUME NEW f \in Devices, NEW g \in Entities, Edit(f, g)
          PROVE  local'[d][e] = local[d][e]
      BY <1>1, <3>2 DEF Edit, RequestsInv, TypeOK
    <3>3. ASSUME NEW f \in Devices, PushDone(f)
          PROVE  local'[d][e] = local[d][e]
      BY <1>1, <3>3 DEF PushDone, Discarded, RequestsInv, TypeOK
    <3>4. ASSUME NEW f \in Devices, PullDone(f)
          PROVE  \/ local'[d][e] = local[d][e]
                 \/ got[d][e] # Absent /\ local'[d][e] = got[d][e]
      BY <1>1, <3>4 DEF PullDone, RequestsInv, TypeOK
    <3>5. QED
      BY <1>1, <3>1, <3>2, <3>3, <3>4
         DEF Next, Tick, StartPush, PushEntity, StartPull, ReadTable, Lost, vars, device
  <2>2. local[d][e].ts \in Nat
    BY <1>1, VersionFacts DEF RequestsInv, TypeOK
  <2>3. QED
    BY <1>1, <2>1, <2>2 DEF CopiesInv
<1>2. Spec => [](RequestsInv /\ CopiesInv)
  <2>1. RequestsInv /\ CopiesInv /\ [Next]_vars => CopiesInv'
    BY CopiesStep
  <2>2. QED
    BY CopiesInit, RequestsInvariant, <2>1, PTL DEF Spec
<1>3. RequestsInv /\ CopiesInv /\ [Next]_vars => [Forward]_vars
  BY <1>1
<1>4. QED
  BY <1>2, <1>3, PTL DEF Spec, CopiesMoveForward

(* Devices agree on a row that neither is editing, that was pushed in time   *)
(* and that the next pull of neither would bring.                            *)
DevicesAgree ==
  \A d, f \in Devices : \A e \in Entities \ (late \union dirty[d] \union dirty[f]) :
    ~InDelta(e, cursor[d]) /\ ~InDelta(e, cursor[f]) => local[d][e] = local[f][e]

(* Convergence: where there is nothing left to sync, all copies are the one  *)
(* the server stores.                                                        *)
THEOREM CopiesConverge == ASSUME ~CursorFromPush PROVE Spec => []DevicesAgree
<1>1. DeltaComplete => DevicesAgree
  BY DEF DeltaComplete, Covered, DevicesAgree
<1>2. QED
  BY <1>1, NoRowIsLost, PTL
=============================================================================
