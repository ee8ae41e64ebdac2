---------------------------- MODULE TelemetryHub ----------------------------
(***************************************************************************)
(* Live team tracking (backend/internal/telemetry): the in-memory Hub with *)
(* its reaper, and the StreamLiveTelemetry handlers around it.             *)
(*                                                                         *)
(* A stream is two goroutines.  The receiver reads breadcrumbs and hands   *)
(* them over an unbuffered channel; the handler selects between them, the  *)
(* snapshots the hub delivers, and its context.  Publish, Subscribe,       *)
(* cancel and sweepOnce hold the hub's mutex, so each is one step.         *)
(***************************************************************************)
EXTENDS Integers, Sequences

CONSTANTS
  Projects, Users, Places,
  Streams,     \* StreamLiveTelemetry calls
  Wedged,      \* the streams whose client may stop reading for ever
  Buffer,      \* capacity of a subscriber channel (64)
  Sends,       \* bound: the breadcrumbs the client of a stream sends
  Fading,      \* bound: the members who may fall silent
  None,        \* no member, no snapshot, no project
  Reading,     \* a receiver goroutine blocked in stream.Receive
  Closed,      \* one that holds io.EOF or another error of stream.Receive
  Gone         \* one that does not run

ASSUME HubAssumption ==
  /\ Wedged \subseteq Streams
  /\ Buffer \in Nat \ {0}

VARIABLES
  members,   \* Hub.members: project, user: the latest breadcrumb and its silence
  subs,      \* Hub.subs: the project whose snapshots the stream's channel gets
  pc,        \* the handler of a stream
  recv,      \* its receiver goroutine: reading, holding an envelope, or gone
  queue,     \* the channel the hub delivers into
  shown,     \* the last snapshot handed to stream.Send
  sending,   \* Send has not returned yet
  dropped    \* history: a snapshot for this stream was ever dropped

stream == <<pc, recv, shown, sending>>
vars   == <<members, subs, stream, queue, dropped>>

(* How long a member has been silent, as far as sweepOnce tells: up to ttl,   *)
(* up to 4 ttl, or longer.                                                    *)
Silences == 0 .. 2
Member == [at : Places, silence : Silences, active : BOOLEAN]

ASSUME MemberAssumption == None \notin Member

(* The breadcrumbs, and the team that is sent back. *)
StreamLiveTelemetryRequest  == [project : Projects, user : Users, at : Places]
TeamMemberLocation          == [at : Places, active : BOOLEAN]
StreamLiveTelemetryResponse == [Users -> TeamMemberLocation \union {None}]

ASSUME BoundAssumption ==
  /\ Sends \in [Streams -> SUBSET StreamLiveTelemetryRequest]
  /\ Fading \subseteq Users

(* No project is called None, and no receiver reads as Gone. *)
ASSUME MarkerAssumption ==
  None \notin Projects /\ Gone \notin StreamLiveTelemetryRequest \union {Reading, Closed}

Snapshot(ms, p) == [u \in Users |->
  IF ms[p][u] = None THEN None ELSE [at |-> ms[p][u].at, active |-> ms[p][u].active]]

-----------------------------------------------------------------------------
Init ==
  /\ members = [p \in Projects |-> [u \in Users |-> None]]
  /\ subs    = [s \in Streams |-> None]
  /\ pc      = [s \in Streams |-> "new"]
  /\ recv    = [s \in Streams |-> Gone]
  /\ queue   = [s \in Streams |-> <<>>]
  /\ shown   = [s \in Streams |-> None]
  /\ sending = [s \in Streams |-> FALSE]
  /\ dropped = [s \in Streams |-> FALSE]

(* deliverLocked: never waits; a full channel loses the snapshot on offer.   *)
WaitsForRoom(ps) == \A s \in Streams : subs[s] \in ps => Len(queue[s]) < Buffer
NeverWaits(ps) == TRUE

Full(s) == Len(queue[s]) >= Buffer

(* broadcastLocked, for the projects ps, once the members have changed. *)
Broadcast(ps) ==
  /\ NeverWaits(ps)
  /\ queue' = [s \in Streams |-> IF subs[s] \in ps /\ ~Full(s)
                 THEN Append(queue[s], Snapshot(members', subs[s])) ELSE queue[s]]
  /\ dropped' = [s \in Streams |->
                   dropped[s] \/ (subs[s] \in ps /\ Full(s))]

Publish(pt) ==
  /\ members' = [members EXCEPT ![pt.project][pt.user] =
                   [at |-> pt.at, silence |-> 0, active |-> TRUE]]
  /\ Broadcast({pt.project})

-----------------------------------------------------------------------------
(* The reaper. *)

(* Time passes: any of the members may have been silent for longer now. *)
Tick(p, u) ==
  /\ members[p][u] # None /\ members[p][u].silence < 2
  /\ members' = [members EXCEPT ![p][u].silence = @ + 1]
  /\ UNCHANGED <<subs, stream, queue, dropped>>

LongGoneActive(m) == m.silence = 2 /\ m.active
LongGone(m) == m.silence = 2

ReapedUnmarked(m) == IF m = None \/ LongGone(m) THEN None ELSE m
Reaped(m) ==
  IF m = None \/ LongGone(m) THEN None
  ELSE IF m.silence = 1 THEN [m EXCEPT !.active = FALSE] ELSE m

(* The projects that are broadcast again: those where something changed,     *)
(* also when nobody is left in them.                                         *)
ChangedNonEmpty == {p \in Projects : members'[p] # members[p]
                                     /\ \E u \in Users : members'[p][u] # None}
Changed == {p \in Projects : members'[p] # members[p]}

(* sweepOnce *)
Sweep ==
  /\ members' = [p \in Projects |-> [u \in Users |-> Reaped(members[p][u])]]
  /\ Broadcast(Changed)
  /\ UNCHANGED <<subs, stream>>

-----------------------------------------------------------------------------
(* StreamLiveTelemetry. *)

Go(s, from, to) == pc[s] = from /\ pc' = [pc EXCEPT ![s] = to]

(* The first breadcrumb: the stream subscribes to its project.  (One that is  *)
(* refused by validatePoint ends here and leaves no state.)                   *)
Subscribe(s, pt) ==
  /\ Go(s, "new", "subscribed")
  /\ subs' = [subs EXCEPT ![s] = pt.project]
  /\ recv' = [recv EXCEPT ![s] = pt]
  /\ UNCHANGED <<members, queue, sending, shown, dropped>>

(* It is then published under a lock of its own, and the receiver starts. *)
PublishFirst(s) ==
  /\ Go(s, "subscribed", "running")
  /\ Publish(recv[s])
  /\ recv' = [recv EXCEPT ![s] = Reading]
  /\ UNCHANGED <<subs, sending, shown>>

(* The receiver: one envelope at a time; the client may also hang up. *)
Receive(s) ==
  /\ pc[s] = "running" /\ recv[s] = Reading
  /\ \E env \in Sends[s] \union {Closed} : recv' = [recv EXCEPT ![s] = env]
  /\ UNCHANGED <<members, subs, pc, queue, sending, shown, dropped>>

(* The context is gone and nobody takes its envelope: the receiver returns. *)
ReleaseIdle(s) == recv[s] = Reading
ReleaseAny(s) == recv[s] # Gone

Released(s) ==
  /\ pc[s] = "ended" /\ ReleaseAny(s)
  /\ recv' = [recv EXCEPT ![s] = Gone]
  /\ UNCHANGED <<members, subs, pc, queue, shown, sending, dropped>>

(* The select of the handler. *)
Selecting(s) == pc[s] = "running" /\ ~sending[s]

(* Published, or skipped as invalid. *)
TakePoint(s) ==
  /\ Selecting(s) /\ recv[s] \in StreamLiveTelemetryRequest
  /\ recv' = [recv EXCEPT ![s] = Reading]
  /\ Publish(recv[s]) \/ UNCHANGED <<members, queue, dropped>>
  /\ UNCHANGED <<subs, pc, sending, shown>>

TakeSnapshot(s) ==
  /\ Selecting(s) /\ queue[s] # <<>>
  /\ queue'   = [queue EXCEPT ![s] = Tail(@)]
  /\ shown'   = [shown EXCEPT ![s] = Head(queue[s])]
  /\ sending' = [sending EXCEPT ![s] = TRUE]
  /\ UNCHANGED <<members, subs, pc, recv, dropped>>

Sent(s) ==
  /\ pc[s] = "running" /\ sending[s]
  /\ sending' = [sending EXCEPT ![s] = FALSE]
  /\ UNCHANGED <<members, subs, pc, recv, queue, shown, dropped>>

(* The handler returns.  The deferred cancel takes its channel out of the    *)
(* hub, and the context of the request is cancelled.                         *)
Return(s) ==
  /\ Go(s, "running", "ended")
  /\ subs'    = [subs EXCEPT ![s] = None]
  /\ queue'   = [queue EXCEPT ![s] = <<>>]
  /\ shown'   = [shown EXCEPT ![s] = None]
  /\ sending' = [sending EXCEPT ![s] = FALSE]
  /\ dropped' = [dropped EXCEPT ![s] = FALSE]
  /\ UNCHANGED members

TakeClosed(s) ==
  /\ Selecting(s) /\ recv[s] = Closed
  /\ recv' = [recv EXCEPT ![s] = Gone]
  /\ Return(s)

(* It sees that its context is cancelled, or Send fails. *)
Abort(s) ==
  /\ Return(s)
  /\ UNCHANGED recv

-----------------------------------------------------------------------------
Next ==
  \/ \E p \in Projects, u \in Fading : Tick(p, u)
  \/ Sweep
  \/ \E s \in Streams :
       \/ \E pt \in Sends[s] : Subscribe(s, pt)
       \/ PublishFirst(s)
       \/ Receive(s)
       \/ Released(s)
       \/ TakePoint(s)
       \/ TakeSnapshot(s)
       \/ Sent(s)
       \/ TakeClosed(s)
       \/ Abort(s)

(* The reaper's ticker fires, goroutines run, a client that is not wedged    *)
(* reads, and select, which picks among its ready cases at random, does not  *)
(* ignore one of them for ever.                                              *)
Fairness ==
  /\ WF_vars(Sweep)
  /\ \A s \in Streams :
       /\ WF_vars(PublishFirst(s))
       /\ WF_vars(Released(s))
       /\ SF_vars(TakePoint(s) \/ TakeClosed(s))
       /\ SF_vars(TakeSnapshot(s))
       /\ s \notin Wedged => WF_vars(Sent(s))

Spec == Init /\ [][Next]_vars /\ Fairness

-----------------------------------------------------------------------------
TypeOK ==
  /\ members \in [Projects -> [Users -> Member \union {None}]]
  /\ subs \in [Streams -> Projects \union {None}]
  /\ pc \in [Streams -> {"new", "subscribed", "running", "ended"}]
  /\ recv \in [Streams -> StreamLiveTelemetryRequest \union {Reading, Closed, Gone}]
  /\ \A s \in Streams :
       /\ Len(queue[s]) <= Buffer
       /\ \A i \in 1 .. Len(queue[s]) : queue[s][i] \in StreamLiveTelemetryResponse
  /\ shown \in [Streams -> StreamLiveTelemetryResponse \union {None}]
  /\ sending \in [Streams -> BOOLEAN]
  /\ dropped \in [Streams -> BOOLEAN]

(* The newest snapshot on its way to the client of s, or with it. *)
Newest(s) == IF queue[s] # <<>> THEN queue[s][Len(queue[s])] ELSE shown[s]

(* A stream that was never too slow has the present state of its project on  *)
(* the way, whatever publishes, sweeps and deletions interleave: there is no *)
(* change of the team that its subscribers are not told of.                  *)
UpToDate ==
  \A s \in Streams :
    pc[s] = "running" /\ ~dropped[s] => Newest(s) = Snapshot(members, subs[s])

(* Nothing is left behind and nobody is deaf: the hub knows a channel for    *)
(* exactly the handlers between their subscription and their end, a channel  *)
(* outside that time is empty, and a handler in its select has a receiver    *)
(* that reads for it or holds what it read.                                  *)
NoLeaks == \A s \in Streams :
  /\ subs[s] # None <=> pc[s] \in {"subscribed", "running"}
  /\ pc[s] \in {"new", "ended"} => queue[s] = <<>> /\ ~sending[s]
  /\ pc[s] = "running" => recv[s] # Gone

(* What the comments on Subscribe and sweepOnce promise of a slow client: it *)
(* catches up on the latest snapshot, the final empty team included.  False: *)
(* a full channel drops the new snapshot and keeps the old ones, and nothing *)
(* is sent again until the team changes.                                     *)
CatchesUp ==
  \A s \in Streams :
    pc[s] = "running" /\ queue[s] = <<>> /\ ~sending[s] =>
      shown[s] = Snapshot(members, subs[s])

Silent(p, u, n) == members[p][u] # None /\ members[p][u].silence >= n

(* Two-stage expiry, second stage: a member silent for four TTLs does not    *)
(* stay in the hub.                                                          *)
SilentForgotten ==
  \A p \in Projects, u \in Fading : Silent(p, u, 2) ~> ~Silent(p, u, 2)

(* First stage, end to end: a client that reads and was never too slow does  *)
(* not show a silent member as active for ever, though another member keeps  *)
(* publishing: the sweep's snapshot reaches it among those of the other one. *)
ShownActive(s, u) == shown[s] # None /\ shown[s][u] # None /\ shown[s][u].active

SilentGreyed ==
  \A s \in Streams \ Wedged : \A u \in Fading : \A p \in Projects :
    (subs[s] = p /\ Silent(p, u, 1) /\ ShownActive(s, u))
      ~> (subs[s] # p \/ ~Silent(p, u, 1) \/ ~ShownActive(s, u) \/ dropped[s])

(* A wedged subscriber does not stall anybody else: the breadcrumb a handler *)
(* holds is published whatever the other clients do.                         *)
PointsGetThrough ==
  \A s \in Streams \ Wedged :
    (recv[s] \in StreamLiveTelemetryRequest) ~> (recv[s] \notin StreamLiveTelemetryRequest)

(* No goroutine outlives its stream: once the handler has returned, for      *)
(* whatever reason, its receiver ends, also when it still holds an envelope  *)
(* that nobody will take.                                                    *)
ReceiversEnd == \A s \in Streams : (pc[s] = "ended") ~> (recv[s] = Gone)
=============================================================================
