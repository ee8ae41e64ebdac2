------------------------- MODULE TelemetryHubProofs -------------------------
(***************************************************************************)
(* Theorems about TelemetryHub, for any projects, users, streams and       *)
(* buffer.  The argument: whatever changes a team broadcasts to everybody  *)
(* subscribed to it under the same lock, and a stream subscribes before    *)
(* its first publication, so the newest snapshot of a stream that has not  *)
(* lost one is the present team.                                           *)
(***************************************************************************)
EXTENDS TelemetryHub, SequenceTheorems, TLAPS

QueueInv ==
  /\ queue \in [Streams -> Seq(StreamLiveTelemetryResponse)]
  /\ \A s \in Streams : Len(queue[s]) <= Buffer

(* The handler of a stream between its subscription and its end. *)
HandlerInv == \A s \in Streams :
  /\ pc[s] = "subscribed" =>
       recv[s] \in StreamLiveTelemetryRequest /\ subs[s] = recv[s].project
  /\ pc[s] = "running" => subs[s] \in Projects

Inv == TypeOK /\ QueueInv /\ HandlerInv /\ UpToDate

-----------------------------------------------------------------------------
LEMMA SnapshotType ==
  ASSUME NEW ms \in [Projects -> [Users -> Member \union {None}]], NEW p \in Projects
  PROVE  Snapshot(ms, p) \in StreamLiveTelemetryResponse
BY DEF Snapshot, StreamLiveTelemetryResponse, TeamMemberLocation, Member

(* A snapshot depends on its project only. *)
LEMMA SnapshotLocal ==
  ASSUME NEW ms, NEW ns, NEW p, ms[p] = ns[p]
  PROVE  Snapshot(ms, p) = Snapshot(ns, p)
BY DEF Snapshot

(* Taking the head of a queue keeps its last element, in the queue or in hand. *)
LEMMA TailFacts ==
  ASSUME NEW S, NEW q \in Seq(S), q # <<>>
  PROVE  /\ Head(q) \in S /\ Tail(q) \in Seq(S) /\ Len(Tail(q)) = Len(q) - 1
         /\ Tail(q) = <<>> => Head(q) = q[Len(q)]
         /\ Tail(q) # <<>> => Tail(q)[Len(Tail(q))] = q[Len(q)]
<1>1. /\ Head(q) \in S /\ Tail(q) \in Seq(S) /\ Len(Tail(q)) = Len(q) - 1
      /\ \A i \in 1 .. Len(Tail(q)) : Tail(q)[i] = q[i + 1]
      /\ Len(q) \in Nat \ {0}
  BY HeadTailProperties, EmptySeq
<1>2. Tail(q) = <<>> => Head(q) = q[Len(q)]
  <2>1. Tail(q) = <<>> => Len(q) = 1
    BY <1>1, EmptySeq
  <2> QED
    BY <2>1
<1>3. Tail(q) # <<>> => Len(Tail(q)) \in 1 .. Len(Tail(q)) /\ Len(Tail(q)) + 1 = Len(q)
  BY <1>1, EmptySeq
<1> QED
  BY <1>1, <1>2, <1>3

LEMMA QueueTypes ==
  ASSUME QueueInv
  PROVE  \A s \in Streams :
           /\ Len(queue[s]) <= Buffer
           /\ \A i \in 1 .. Len(queue[s]) : queue[s][i] \in StreamLiveTelemetryResponse
BY DEF QueueInv

LEMMA InitInv == Init => Inv
<1> SUFFICES ASSUME Init PROVE Inv
  OBVIOUS
<1>1. QueueInv
  BY HubAssumption DEF Init, QueueInv
<1>2. TypeOK
  BY <1>1, QueueTypes DEF Init, TypeOK
<1>3. HandlerInv /\ UpToDate
  BY DEF Init, HandlerInv, UpToDate
<1> QED
  BY <1>1, <1>2, <1>3 DEF Inv

-----------------------------------------------------------------------------
(* A broadcast to the projects ps, once the members have changed there and   *)
(* nowhere else.                                                             *)
LEMMA BroadcastFacts ==
  ASSUME TypeOK, QueueInv, NEW ps \in SUBSET Projects, Broadcast(ps),
         members' \in [Projects -> [Users -> Member \union {None}]]
  PROVE  /\ QueueInv'
         /\ dropped' \in [Streams -> BOOLEAN]
         /\ \A s \in Streams :
              /\ dropped[s] => dropped'[s]
              /\ subs[s] \in ps /\ ~dropped'[s] =>
                   /\ queue'[s] # <<>>
                   /\ queue'[s][Len(queue'[s])] = Snapshot(members', subs[s])
              /\ subs[s] \notin ps => queue'[s] = queue[s]
<1>1. /\ queue' = [s \in Streams |-> IF subs[s] \in ps /\ ~Full(s)
                     THEN Append(queue[s], Snapshot(members', subs[s])) ELSE queue[s]]
      /\ dropped' = [s \in Streams |-> dropped[s] \/ (subs[s] \in ps /\ Full(s))]
  BY DEF Broadcast
<1>2. ASSUME NEW s \in Streams, subs[s] \in ps, ~Full(s)
      PROVE  /\ queue'[s] \in Seq(StreamLiveTelemetryResponse)
             /\ Len(queue'[s]) = Len(queue[s]) + 1 /\ Len(queue'[s]) <= Buffer
             /\ queue'[s] # <<>>
             /\ queue'[s][Len(queue'[s])] = Snapshot(members', subs[s])
  <2>1. Snapshot(members', subs[s]) \in StreamLiveTelemetryResponse
    BY <1>2, SnapshotType
  <2>2. queue[s] \in Seq(StreamLiveTelemetryResponse) /\ Len(queue[s]) \in Nat
    BY DEF QueueInv
  <2>3. queue'[s] = Append(queue[s], Snapshot(members', subs[s]))
    BY <1>1, <1>2
  <2>4. Len(queue[s]) < Buffer
    BY <1>2, <2>2, HubAssumption DEF Full
  <2> QED
    BY <2>1, <2>2, <2>3, <2>4, AppendProperties, HubAssumption
<1>3. ASSUME NEW s \in Streams, subs[s] \notin ps \/ Full(s)
      PROVE  queue'[s] = queue[s] /\ queue[s] \in Seq(StreamLiveTelemetryResponse)
                /\ Len(queue[s]) <= Buffer
  BY <1>1, <1>3 DEF QueueInv
<1>4. \A s \in Streams : /\ queue'[s] \in Seq(StreamLiveTelemetryResponse)
                         /\ Len(queue'[s]) <= Buffer
  BY <1>2, <1>3
<1>5. QueueInv'
  BY <1>1, <1>4 DEF QueueInv
<1>6. dropped' \in [Streams -> BOOLEAN]
  <2>1. \A s \in Streams : dropped[s] \in BOOLEAN
    BY DEF TypeOK
  <2> QED
    BY <1>1, <2>1
<1>7. \A s \in Streams : dropped'[s] <=> dropped[s] \/ (subs[s] \in ps /\ Full(s))
  BY <1>1
<1> QED
  BY <1>2, <1>3, <1>5, <1>6, <1>7

(* ... keeps every stream that runs already up to date, and its handler.     *)
LEMMA BroadcastKeeps ==
  ASSUME Inv, NEW ps \in SUBSET Projects, Broadcast(ps),
         members' \in [Projects -> [Users -> Member \union {None}]],
         \A p \in Projects \ ps : members'[p] = members[p],
         NEW s \in Streams, pc[s] = "running", UNCHANGED <<subs, shown>>, ~dropped'[s]
  PROVE  Newest(s)' = Snapshot(members', subs'[s])
<1>1. CASE subs[s] \in ps
  BY <1>1, BroadcastFacts DEF Inv, Newest
<1>2. CASE subs[s] \notin ps
  <2>1. queue'[s] = queue[s] /\ ~dropped[s]
    BY <1>2, BroadcastFacts DEF Inv
  <2>2. Newest(s) = Snapshot(members, subs[s]) /\ subs[s] \in Projects
    BY <2>1 DEF Inv, UpToDate, HandlerInv
  <2>3. Snapshot(members', subs[s]) = Snapshot(members, subs[s])
    BY <1>2, <2>2, SnapshotLocal
  <2> QED
    BY <2>1, <2>2, <2>3 DEF Newest
<1> QED
  BY <1>1, <1>2

LEMMA PublishFacts ==
  ASSUME Inv, NEW pt \in StreamLiveTelemetryRequest, Publish(pt)
  PROVE  /\ members' \in [Projects -> [Users -> Member \union {None}]]
         /\ {pt.project} \in SUBSET Projects /\ Broadcast({pt.project})
         /\ \A p \in Projects \ {pt.project} : members'[p] = members[p]
<1>1. /\ pt.project \in Projects /\ pt.user \in Users
      /\ [at |-> pt.at, silence |-> 0, active |-> TRUE] \in Member
  BY DEF StreamLiveTelemetryRequest, Member, Silences
<1> QED
  BY <1>1 DEF Publish, Inv, TypeOK

-----------------------------------------------------------------------------
LEMMA TickStep ==
  ASSUME Inv, NEW p \in Projects, NEW u \in Users, Tick(p, u)
  PROVE  Inv'
<1>1. /\ members[p][u] \in Member /\ members[p][u].silence < 2
      /\ members' = [members EXCEPT ![p][u].silence = @ + 1]
      /\ UNCHANGED <<subs, stream, queue, dropped>>
  BY DEF Tick, Inv, TypeOK
<1> DEFINE m == [members[p][u] EXCEPT !.silence = @ + 1]
<1>2. /\ m \in Member /\ m # None
      /\ m.at = members[p][u].at /\ m.active = members[p][u].active
  BY <1>1, MemberAssumption DEF Member, Silences
<1>3. /\ members' \in [Projects -> [Users -> Member \union {None}]]
      /\ \A q \in Projects, v \in Users :
           members'[q][v] = IF q = p /\ v = u THEN m ELSE members[q][v]
  BY <1>1, <1>2 DEF Inv, TypeOK
<1>4. \A q \in Projects : Snapshot(members', q) = Snapshot(members, q)
  BY <1>1, <1>2, <1>3, MemberAssumption DEF Snapshot
<1>5. TypeOK' /\ QueueInv' /\ HandlerInv'
  BY <1>1, <1>3, QueueTypes DEF Inv, TypeOK, QueueInv, HandlerInv, stream
<1>6. UpToDate'
  BY <1>1, <1>4 DEF Inv, UpToDate, HandlerInv, Newest, stream
<1> QED
  BY <1>5, <1>6 DEF Inv

LEMMA SweepStep ==
  ASSUME Inv, Sweep
  PROVE  Inv'
<1>1. /\ members' = [p \in Projects |-> [u \in Users |-> Reaped(members[p][u])]]
      /\ Broadcast(Changed) /\ Changed \in SUBSET Projects
      /\ UNCHANGED <<subs, stream>>
      /\ \A p \in Projects \ Changed : members'[p] = members[p]
  BY DEF Sweep, Changed
<1>2. \A m \in Member \union {None} : Reaped(m) \in Member \union {None}
  BY DEF Reaped, Member
<1>3. members' \in [Projects -> [Users -> Member \union {None}]]
  BY <1>1, <1>2 DEF Inv, TypeOK
<1>4. QueueInv' /\ dropped' \in [Streams -> BOOLEAN]
  BY <1>1, <1>3, BroadcastFacts DEF Inv
<1>5. TypeOK'
  <2>1. \A s \in Streams :
          /\ Len(queue'[s]) <= Buffer
          /\ \A i \in 1 .. Len(queue'[s]) : queue'[s][i] \in StreamLiveTelemetryResponse
    BY <1>4 DEF QueueInv
  <2> QED
    BY <1>1, <1>3, <1>4, <2>1 DEF Inv, TypeOK, stream
<1>6. HandlerInv'
  BY <1>1 DEF Inv, HandlerInv, stream
<1>7. UpToDate'
  BY <1>1, <1>3, BroadcastKeeps DEF UpToDate, stream
<1> QED
  BY <1>4, <1>5, <1>6, <1>7 DEF Inv

(* The steps of a stream that leave team and channels alone. *)
LEMMA QuietStep ==
  ASSUME Inv, UNCHANGED <<members, subs, queue, shown, dropped>>, TypeOK', HandlerInv',
         \A s \in Streams : pc'[s] = "running" => pc[s] = "running"
  PROVE  Inv'
<1>1. QueueInv'
  BY DEF Inv, QueueInv
<1>2. UpToDate'
  BY DEF Inv, UpToDate, Newest
<1> QED
  BY <1>1, <1>2 DEF Inv

LEMMA SubscribeStep ==
  ASSUME Inv, NEW s \in Streams, NEW pt \in StreamLiveTelemetryRequest, Subscribe(s, pt)
  PROVE  Inv'
<1>1. /\ pc[s] = "new" /\ pc' = [pc EXCEPT ![s] = "subscribed"]
      /\ subs' = [subs EXCEPT ![s] = pt.project]
      /\ recv' = [recv EXCEPT ![s] = pt]
      /\ UNCHANGED <<members, queue, sending, shown, dropped>>
      /\ pt.project \in Projects
  BY DEF Subscribe, Go, StreamLiveTelemetryRequest
<1>2. TypeOK'
  BY <1>1, QueueTypes DEF Inv, TypeOK
<1>3. HandlerInv'
  BY <1>1 DEF Inv, TypeOK, HandlerInv
<1>4. QueueInv'
  BY <1>1 DEF Inv, QueueInv
<1>5. UpToDate'
  BY <1>1 DEF Inv, TypeOK, UpToDate, Newest
<1> QED
  BY <1>2, <1>3, <1>4, <1>5 DEF Inv

LEMMA PublishFirstStep ==
  ASSUME Inv, NEW s \in Streams, PublishFirst(s)
  PROVE  Inv'
<1> DEFINE pt == recv[s]
<1>1. /\ pc[s] = "subscribed" /\ pc' = [pc EXCEPT ![s] = "running"]
      /\ Publish(pt) /\ recv' = [recv EXCEPT ![s] = Reading]
      /\ UNCHANGED <<subs, sending, shown>>
  BY DEF PublishFirst, Go
<1>2. pt \in StreamLiveTelemetryRequest /\ subs[s] = pt.project /\ pt.project \in Projects
  BY <1>1 DEF Inv, HandlerInv, StreamLiveTelemetryRequest
<1>3. /\ members' \in [Projects -> [Users -> Member \union {None}]]
      /\ {pt.project} \in SUBSET Projects /\ Broadcast({pt.project})
      /\ \A p \in Projects \ {pt.project} : members'[p] = members[p]
  BY <1>1, <1>2, PublishFacts
<1>4. QueueInv' /\ dropped' \in [Streams -> BOOLEAN]
  BY <1>3, BroadcastFacts DEF Inv
<1>5. TypeOK'
  <2>1. \A t \in Streams :
          /\ Len(queue'[t]) <= Buffer
          /\ \A i \in 1 .. Len(queue'[t]) : queue'[t][i] \in StreamLiveTelemetryResponse
    BY <1>4 DEF QueueInv
  <2> QED
    BY <1>1, <1>3, <1>4, <2>1 DEF Inv, TypeOK
<1>6. HandlerInv'
  BY <1>1, <1>2 DEF Inv, TypeOK, HandlerInv
<1>7. ASSUME NEW t \in Streams, pc'[t] = "running", ~dropped'[t]
      PROVE  Newest(t)' = Snapshot(members', subs'[t])
  <2>1. CASE t = s
    BY <2>1, <1>1, <1>2, <1>3, <1>7, BroadcastFacts DEF Inv, Newest
  <2>2. CASE t # s
    <3>1. pc[t] = "running"
      BY <2>2, <1>1, <1>7 DEF Inv, TypeOK
    <3> QED
      BY <3>1, <1>1, <1>3, <1>7, BroadcastKeeps
  <2> QED
    BY <2>1, <2>2
<1>8. UpToDate'
  BY <1>7 DEF UpToDate
<1> QED
  BY <1>4, <1>5, <1>6, <1>8 DEF Inv

LEMMA TakePointStep ==
  ASSUME Inv, NEW s \in Streams, TakePoint(s)
  PROVE  Inv'
<1>1. /\ pc[s] = "running" /\ recv[s] \in StreamLiveTelemetryRequest
      /\ recv' = [recv EXCEPT ![s] = Reading]
      /\ UNCHANGED <<subs, pc, sending, shown>>
  BY DEF TakePoint, Selecting
<1>2. HandlerInv'
  BY <1>1 DEF Inv, TypeOK, HandlerInv
<1>3. CASE Publish(recv[s])
  <2> DEFINE pt == recv[s]
  <2>1. /\ members' \in [Projects -> [Users -> Member \union {None}]]
        /\ {pt.project} \in SUBSET Projects /\ Broadcast({pt.project})
        /\ \A p \in Projects \ {pt.project} : members'[p] = members[p]
    BY <1>1, <1>3, PublishFacts
  <2>2. QueueInv' /\ dropped' \in [Streams -> BOOLEAN]
    BY <2>1, BroadcastFacts DEF Inv
  <2>3. \A t \in Streams :
          /\ Len(queue'[t]) <= Buffer
          /\ \A i \in 1 .. Len(queue'[t]) : queue'[t][i] \in StreamLiveTelemetryResponse
    BY <2>2 DEF QueueInv
  <2>4. TypeOK'
    BY <1>1, <2>1, <2>2, <2>3 DEF Inv, TypeOK
  <2>5. UpToDate'
    BY <1>1, <2>1, BroadcastKeeps DEF UpToDate
  <2> QED
    BY <1>2, <2>2, <2>4, <2>5 DEF Inv
<1>4. CASE UNCHANGED <<members, queue, dropped>>
  <2>1. TypeOK'
    BY <1>1, <1>4, QueueTypes DEF Inv, TypeOK
  <2> QED
    BY <1>1, <1>2, <1>4, <2>1, QuietStep
<1> QED
  BY <1>3, <1>4 DEF TakePoint

LEMMA TakeSnapshotStep ==
  ASSUME Inv, NEW s \in Streams, TakeSnapshot(s)
  PROVE  Inv'
<1>1. /\ pc[s] = "running" /\ queue[s] # <<>>
      /\ queue'   = [queue EXCEPT ![s] = Tail(@)]
      /\ shown'   = [shown EXCEPT ![s] = Head(queue[s])]
      /\ sending' = [sending EXCEPT ![s] = TRUE]
      /\ UNCHANGED <<members, subs, pc, recv, dropped>>
  BY DEF TakeSnapshot, Selecting
<1>2. queue[s] \in Seq(StreamLiveTelemetryResponse) /\ Len(queue[s]) \in Nat
      /\ Len(queue[s]) <= Buffer
  BY DEF Inv, QueueInv
<1>3. /\ Head(queue[s]) \in StreamLiveTelemetryResponse
      /\ Tail(queue[s]) \in Seq(StreamLiveTelemetryResponse)
      /\ Len(Tail(queue[s])) = Len(queue[s]) - 1
      /\ Tail(queue[s]) = <<>> => Head(queue[s]) = queue[s][Len(queue[s])]
      /\ Tail(queue[s]) # <<>> => Tail(queue[s])[Len(Tail(queue[s]))] = queue[s][Len(queue[s])]
  BY <1>1, <1>2, TailFacts
<1>4. QueueInv'
  BY <1>1, <1>2, <1>3, HubAssumption DEF Inv, QueueInv
<1>5. TypeOK'
  <2>1. \A t \in Streams :
          /\ Len(queue'[t]) <= Buffer
          /\ \A i \in 1 .. Len(queue'[t]) : queue'[t][i] \in StreamLiveTelemetryResponse
    BY <1>4 DEF QueueInv
  <2> QED
    BY <1>1, <1>3, <2>1 DEF Inv, TypeOK
<1>6. HandlerInv'
  BY <1>1 DEF Inv, HandlerInv
<1>7. \A t \in Streams : Newest(t)' = Newest(t)
  BY <1>1, <1>3 DEF Newest, Inv, TypeOK, QueueInv
<1>8. UpToDate'
  BY <1>1, <1>7 DEF Inv, UpToDate
<1> QED
  BY <1>4, <1>5, <1>6, <1>8 DEF Inv

LEMMA ReturnStep ==
  ASSUME Inv, NEW s \in Streams, Return(s),
         recv' \in [Streams -> StreamLiveTelemetryRequest \union {Reading, Closed, Gone}],
         \A t \in Streams \ {s} : recv'[t] = recv[t]
  PROVE  Inv'
<1>1. /\ pc' = [pc EXCEPT ![s] = "ended"]
      /\ subs'    = [subs EXCEPT ![s] = None]
      /\ queue'   = [queue EXCEPT ![s] = <<>>]
      /\ shown'   = [shown EXCEPT ![s] = None]
      /\ sending' = [sending EXCEPT ![s] = FALSE]
      /\ dropped' = [dropped EXCEPT ![s] = FALSE]
      /\ members' = members
  BY DEF Return, Go
<1>2. QueueInv'
  BY <1>1, HubAssumption DEF Inv, QueueInv
<1>3. TypeOK'
  <2>1. \A t \in Streams :
          /\ Len(queue'[t]) <= Buffer
          /\ \A i \in 1 .. Len(queue'[t]) : queue'[t][i] \in StreamLiveTelemetryResponse
    BY <1>2 DEF QueueInv
  <2> QED
    BY <1>1, <2>1 DEF Inv, TypeOK
<1>4. HandlerInv'
  BY <1>1 DEF Inv, TypeOK, HandlerInv
<1>5. UpToDate'
  BY <1>1 DEF Inv, TypeOK, QueueInv, UpToDate, Newest
<1> QED
  BY <1>2, <1>3, <1>4, <1>5 DEF Inv

-----------------------------------------------------------------------------
LEMMA NextInv == Inv /\ [Next]_vars => Inv'
<1> SUFFICES ASSUME Inv, [Next]_vars PROVE Inv'
  OBVIOUS
<1>1. ASSUME NEW p \in Projects, NEW u \in Users, Tick(p, u) PROVE Inv'
  BY <1>1, TickStep
<1>2. CASE Sweep
  BY <1>2, SweepStep
<1>3. ASSUME NEW s \in Streams, NEW pt \in StreamLiveTelemetryRequest, Subscribe(s, pt)
      PROVE  Inv'
  BY <1>3, SubscribeStep
<1>4. ASSUME NEW s \in Streams, PublishFirst(s) PROVE Inv'
  BY <1>4, PublishFirstStep
<1>5. ASSUME NEW s \in Streams, Receive(s) \/ Released(s) \/ Sent(s) PROVE Inv'
  <2>1. UNCHANGED <<members, subs, queue, shown, dropped, pc>>
    BY <1>5 DEF Receive, Released, Sent
  <2>2. TypeOK'
    <3>1. CASE Receive(s)
      <4>1. recv' \in [Streams -> StreamLiveTelemetryRequest \union {Reading, Closed, Gone}]
        BY <3>1, BoundAssumption DEF Receive, Inv, TypeOK
      <4> QED
        BY <3>1, <4>1, <2>1, QueueTypes DEF Receive, Inv, TypeOK
    <3>2. CASE Released(s) \/ Sent(s)
      BY <3>2, <2>1, QueueTypes DEF Released, Sent, Inv, TypeOK
    <3> QED
      BY <1>5, <3>1, <3>2
  <2>3. HandlerInv'
    BY <1>5, <2>1 DEF Receive, Released, Sent, Inv, TypeOK, HandlerInv
  <2> QED
    BY <2>1, <2>2, <2>3, QuietStep
<1>6. ASSUME NEW s \in Streams, TakePoint(s) PROVE Inv'
  BY <1>6, TakePointStep
<1>7. ASSUME NEW s \in Streams, TakeSnapshot(s) PROVE Inv'
  BY <1>7, TakeSnapshotStep
<1>8. ASSUME NEW s \in Streams, TakeClosed(s) \/ Abort(s) PROVE Inv'
  <2>1. recv' = [recv EXCEPT ![s] = Gone] \/ recv' = recv
    BY <1>8 DEF TakeClosed, Abort
  <2>2. /\ recv' \in [Streams -> StreamLiveTelemetryRequest \union {Reading, Closed, Gone}]
        /\ \A t \in Streams \ {s} : recv'[t] = recv[t]
    BY <2>1 DEF Inv, TypeOK
  <2>3. Return(s)
    BY <1>8 DEF TakeClosed, Abort
  <2> QED
    BY <2>2, <2>3, ReturnStep
<1>9. CASE UNCHANGED vars
  <2>1. TypeOK' /\ HandlerInv'
    BY <1>9, QueueTypes DEF Inv, TypeOK, HandlerInv, vars, stream
  <2> QED
    BY <1>9, <2>1, QuietStep DEF vars, stream
<1> QED
  BY <1>1, <1>2, <1>3, <1>4, <1>5, <1>6, <1>7, <1>8, <1>9, BoundAssumption DEF Next

LEMMA Invariance == Spec => []Inv
BY InitInv, NextInv, PTL DEF Spec

(* The types of the telemetry model. *)
THEOREM TypeCorrect == Spec => []TypeOK
BY Invariance, PTL DEF Inv

(* A stream that never lost a snapshot has the present team of its project   *)
(* on the way or on show, for any number of streams, members and projects.   *)
THEOREM SubscribersAreUpToDate == Spec => []UpToDate
BY Invariance, PTL DEF Inv
-----------------------------------------------------------------------------
(* A broadcast fills subscribed channels only. *)
LEMMA BroadcastSpares ==
  ASSUME NEW ps \in SUBSET Projects, Broadcast(ps)
  PROVE  \A s \in Streams : subs[s] = None => queue'[s] = queue[s]
BY MarkerAssumption DEF Broadcast

LEMMA NoLeaksStep ==
  ASSUME Inv, NoLeaks, [Next]_vars
  PROVE  NoLeaks'
<1> USE DEF Inv, TypeOK, NoLeaks
<1>1. ASSUME UNCHANGED <<subs, pc, sending>>, NEW ps \in SUBSET Projects, Broadcast(ps),
             \A s \in Streams : pc[s] = "running" => recv'[s] # Gone
      PROVE  NoLeaks'
  BY <1>1, BroadcastSpares
<1>2. ASSUME UNCHANGED <<subs, pc, sending, queue>>,
             \A s \in Streams : pc[s] = "running" => recv'[s] # Gone
      PROVE  NoLeaks'
  BY <1>2
<1>3. ASSUME NEW p \in Projects, NEW u \in Users, Tick(p, u) PROVE NoLeaks'
  BY <1>2, <1>3 DEF Tick, stream
<1>4. CASE Sweep
  <2>1. Broadcast(Changed) /\ Changed \in SUBSET Projects /\ UNCHANGED <<subs, stream>>
    BY <1>4 DEF Sweep, Changed
  <2> QED
    BY <1>1, <2>1 DEF stream
<1>5. ASSUME NEW s \in Streams, NEW pt \in StreamLiveTelemetryRequest, Subscribe(s, pt)
      PROVE  NoLeaks'
  <2>1. pt.project \in Projects
    BY DEF StreamLiveTelemetryRequest
  <2> QED
    BY <1>5, <2>1, MarkerAssumption DEF Subscribe, Go
<1>6. ASSUME NEW s \in Streams, PublishFirst(s) PROVE NoLeaks'
  <2>1. recv[s].project \in Projects /\ Broadcast({recv[s].project})
    BY <1>6 DEF PublishFirst, Go, HandlerInv, Publish, StreamLiveTelemetryRequest
  <2>2. \A t \in Streams : subs[t] = None => queue'[t] = queue[t]
    BY <2>1, BroadcastSpares
  <2>3. /\ pc[s] = "subscribed" /\ pc' = [pc EXCEPT ![s] = "running"]
        /\ recv' = [recv EXCEPT ![s] = Reading] /\ UNCHANGED <<subs, sending>>
    BY <1>6 DEF PublishFirst, Go
  <2> QED
    BY <2>2, <2>3, MarkerAssumption
<1>7. ASSUME NEW s \in Streams, Receive(s) PROVE NoLeaks'
  <2>1. PICK env \in StreamLiveTelemetryRequest \union {Closed} : recv' = [recv EXCEPT ![s] = env]
    BY <1>7, BoundAssumption DEF Receive
  <2>2. \A t \in Streams : pc[t] = "running" => recv'[t] # Gone
    BY <2>1, MarkerAssumption
  <2> QED
    BY <1>2, <1>7, <2>2 DEF Receive
<1>8. ASSUME NEW s \in Streams, Released(s) PROVE NoLeaks'
  BY <1>2, <1>8 DEF Released
<1>9. ASSUME NEW s \in Streams, TakePoint(s) PROVE NoLeaks'
  <2>1. /\ recv' = [recv EXCEPT ![s] = Reading] /\ UNCHANGED <<subs, pc, sending>>
        /\ recv[s].project \in Projects
        /\ Broadcast({recv[s].project}) \/ UNCHANGED queue
    BY <1>9 DEF TakePoint, Publish, StreamLiveTelemetryRequest
  <2>2. \A t \in Streams : pc[t] = "running" => recv'[t] # Gone
    BY <2>1, MarkerAssumption
  <2> QED
    BY <1>1, <1>2, <2>1, <2>2
<1>10. ASSUME NEW s \in Streams, TakeSnapshot(s) \/ Sent(s) PROVE NoLeaks'
  <2>1. /\ pc[s] = "running" /\ UNCHANGED <<subs, pc, recv>>
        /\ \A t \in Streams \ {s} : queue'[t] = queue[t] /\ sending'[t] = sending[t]
    BY <1>10 DEF TakeSnapshot, Sent, Selecting, QueueInv
  <2> QED
    BY <2>1
<1>11. ASSUME NEW s \in Streams, TakeClosed(s) \/ Abort(s) PROVE NoLeaks'
  <2>1. Return(s) /\ (recv' = [recv EXCEPT ![s] = Gone] \/ recv' = recv)
    BY <1>11 DEF TakeClosed, Abort
  <2> QED
    BY <2>1 DEF Return, Go, QueueInv
<1>12. CASE UNCHANGED vars
  BY <1>2, <1>12 DEF vars, stream
<1> QED
  BY <1>3, <1>4, <1>5, <1>6, <1>7, <1>8, <1>9, <1>10, <1>11, <1>12,
     BoundAssumption DEF Next

(* The hub holds a channel for a stream exactly while its handler is there   *)
(* to drain it, and no handler selects without a receiver, for any number of *)
(* streams and whatever of them wedge or break off.                          *)
THEOREM NothingLeaks == Spec => []NoLeaks
<1>1. Init => NoLeaks
  BY DEF Init, NoLeaks
<1> QED
  BY <1>1, NoLeaksStep, Invariance, PTL DEF Spec
=============================================================================
