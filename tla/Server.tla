------------------------------- MODULE Server -------------------------------
(***************************************************************************)
(* The life of the backend processes (cmd/server/main.go): each instance   *)
(* of a rolling deployment loads its settings, opens a pool, migrates the  *)
(* one database under an advisory lock, serves, drains and exits; any of   *)
(* them may be stopped or killed at any step.                              *)
(*                                                                         *)
(* An instance knows the migrations 1 .. Known[i]: it carries the files of *)
(* its own build.  A connection is only counted; the migration's own       *)
(* connection is the session that holds the lock.                          *)
(***************************************************************************)
EXTENDS Integers

CONSTANTS
  Instances,
  Known,        \* the number of migrations an instance's build embeds
  Deployments,  \* the settings an operator may start an instance with
  Requests,     \* unary calls and health probes: each borrows one connection
  None          \* no instance

Settings == [database : BOOLEAN, port : BOOLEAN, mpesa : {"off", "partial", "complete"},
             maxConns : Int, minConns : Int, ttlQuarter : Int]

ASSUME ServerAssumption ==
  /\ Known \in [Instances -> Nat]
  /\ Deployments \subseteq Settings
  /\ None \notin Instances

VARIABLES
  pc,       \* how far main.run has come
  env,      \* config.Config
  conns,    \* connections of the pool that are lent out
  next,     \* the migration file Migrate is at
  failed,   \* run returns an error
  streams,  \* a telemetry stream is open
  lock,     \* the instance whose session holds the advisory lock
  applied,  \* schema_migrations, and with it the schema
  lost,     \* history: the database ever dropped the session of a lock holder
  at,       \* the instance a request is with
  stage     \* what the request is doing

instance == <<pc, env, conns, next, failed, streams>>
database == <<lock, applied, lost>>
requests == <<at, stage>>
vars     == <<instance, database, requests>>

Stopped == {"exited", "crashed"}
Holders == {"create", "check", "apply", "unlock"}       \* between lock and unlock
Booting == {"connect", "acquire", "lock", "hub"} \cup Holders
Up      == {"serve", "drain", "close"}

-----------------------------------------------------------------------------
Init ==
  /\ pc      = [i \in Instances |-> "exited"]
  /\ env     \in [Instances -> Deployments]
  /\ conns   = [i \in Instances |-> 0]
  /\ next    = [i \in Instances |-> 1]
  /\ failed  = [i \in Instances |-> FALSE]
  /\ streams = [i \in Instances |-> FALSE]
  /\ lock    = None
  /\ applied = {}
  /\ lost    = FALSE
  /\ at      = [r \in Requests |-> None]
  /\ stage   = [r \in Requests |-> "idle"]

(* config.Load. *)
Loads(e) ==
  /\ e.maxConns \in 1 .. 64 /\ e.minConns \in 0 .. 64 /\ e.minConns <= e.maxConns
  /\ e.database /\ e.port
  /\ e.mpesa # "partial"

Load(i) ==
  /\ pc[i] \in Stopped
  /\ \E e \in Deployments :
       /\ env' = [env EXCEPT ![i] = e]
       /\ pc'  = [pc EXCEPT ![i] = IF Loads(e) THEN "connect" ELSE "exited"]
  /\ next'   = [next EXCEPT ![i] = 1]
  /\ failed' = [failed EXCEPT ![i] = FALSE]
  /\ UNCHANGED <<conns, streams, database, requests>>

(* db.Connect: an error or an unanswered ping ends the boot. *)
Connect(i) ==
  /\ pc[i] = "connect"
  /\ \E to \in {"acquire", "exited"} : pc' = [pc EXCEPT ![i] = to]
  /\ UNCHANGED <<env, conns, next, failed, streams, database, requests>>

(* pgxpool: a connection is lent while fewer than MaxConns are out. *)
Free(i) == conns[i] < env[i].maxConns

AcquireLockConn(i) ==
  /\ pc[i] = "acquire"
  /\ Free(i)
  /\ conns' = [conns EXCEPT ![i] = @ + 1]
  /\ pc'    = [pc EXCEPT ![i] = "lock"]
  /\ UNCHANGED <<env, next, failed, streams, database, requests>>

LockIgnored(i) == TRUE
LockGranted(i) == lock = None

TakeLock(i) ==
  /\ pc[i] = "lock"
  /\ LockGranted(i)
  /\ lock' = i
  /\ pc'   = [pc EXCEPT ![i] = "create"]
  /\ UNCHANGED <<env, conns, next, failed, streams, applied, lost, requests>>

(* CREATE TABLE IF NOT EXISTS runs on another connection of the pool. *)
CreateTable(i) ==
  /\ pc[i] = "create"
  /\ Free(i)
  /\ pc' = [pc EXCEPT ![i] = "check"]
  /\ UNCHANGED <<env, conns, next, failed, streams, database, requests>>

(* An error on the way: Migrate returns it past the deferred unlock. *)
Abandon(i) ==
  /\ pc'     = [pc EXCEPT ![i] = "unlock"]
  /\ failed' = [failed EXCEPT ![i] = TRUE]

(* applyOne up to BEGIN; the loop ends behind the last file. *)
CheckOne(i) ==
  /\ pc[i] = "check"
  /\ \/ /\ next[i] > Known[i]
        /\ pc' = [pc EXCEPT ![i] = "unlock"]
        /\ UNCHANGED <<next, conns>>
     \/ /\ next[i] <= Known[i] /\ Free(i) /\ next[i] \in applied
        /\ next' = [next EXCEPT ![i] = @ + 1]
        /\ UNCHANGED <<pc, conns>>
     \/ /\ next[i] <= Known[i] /\ Free(i) /\ next[i] \notin applied
        /\ conns' = [conns EXCEPT ![i] = @ + 1]
        /\ pc' = [pc EXCEPT ![i] = "apply"]
        /\ UNCHANGED next
  /\ UNCHANGED <<env, failed, streams, database, requests>>

(* The deferred Rollback gives the transaction's connection back. *)
RolledBack(i) == conns[i] - 1

(* The transaction of a migration that goes through: the file's statements   *)
(* and its row commit together.                                              *)
Committed(i) ==
  /\ next[i] \notin applied
  /\ applied' = applied \cup {next[i]}

(* What a migration that failed leaves behind: the commit is lost with its   *)
(* answer, or never happened; the key of schema_migrations refuses the file  *)
(* another instance has applied.  Either way Migrate returns the error.      *)
GoesOn(i) ==
  /\ pc'   = [pc EXCEPT ![i] = "check"]
  /\ next' = [next EXCEPT ![i] = @ + 1]
  /\ UNCHANGED failed
Fails(i) == Abandon(i) /\ UNCHANGED next

ApplyOne(i) ==
  /\ pc[i] = "apply"
  /\ \/ /\ Committed(i)
        /\ pc'   = [pc EXCEPT ![i] = "check"]
        /\ next' = [next EXCEPT ![i] = @ + 1]
        /\ UNCHANGED failed
     \/ Committed(i) /\ Fails(i)
     \/ Fails(i) /\ UNCHANGED applied
  /\ conns' = [conns EXCEPT ![i] = RolledBack(i)]
  /\ UNCHANGED <<env, streams, lock, lost, requests>>

-----------------------------------------------------------------------------
(* The deferred unlock, through the same session, then lockConn.Release.     *)
KeptLock(i)  == lock
FreedLock(i) == IF lock = i THEN None ELSE lock

AfterMigrateAnyway(i) == "hub"
AfterMigrate(i) == IF failed[i] THEN "close" ELSE "hub"

Unlock(i) ==
  /\ pc[i] = "unlock"
  /\ lock'  = FreedLock(i)
  /\ conns' = [conns EXCEPT ![i] = @ - 1]
  /\ pc'    = [pc EXCEPT ![i] = AfterMigrate(i)]
  /\ UNCHANGED <<env, next, failed, streams, applied, lost, requests>>

(* NewHub starts the reaper, whose ticker panics on an interval of 0, then   *)
(* ListenAndServe, which may find the port taken.                            *)
Listen(i) ==
  /\ pc[i] = "hub"
  /\ \/ /\ env[i].ttlQuarter <= 0
        /\ pc' = [pc EXCEPT ![i] = "crashed"]
     \/ /\ env[i].ttlQuarter > 0
        /\ \E to \in {"serve", "close"} : pc' = [pc EXCEPT ![i] = to]
  /\ UNCHANGED <<env, conns, next, failed, streams, database, requests>>

(* SIGTERM cancels the context: it fails the step of the boot that uses it   *)
(* and starts the drain of a server.  Migrate's end and NewHub do not look.  *)
Sigterm(i) ==
  /\ \/ /\ pc[i] = "connect"
        /\ pc' = [pc EXCEPT ![i] = "exited"]
        /\ UNCHANGED <<conns, failed>>
     \/ /\ pc[i] \in {"acquire", "lock"}
        /\ pc'    = [pc EXCEPT ![i] = "close"]
        /\ conns' = [conns EXCEPT ![i] = 0]
        /\ failed' = [failed EXCEPT ![i] = TRUE]
     \/ /\ pc[i] \in {"create", "check"}
        /\ Abandon(i)
        /\ UNCHANGED conns
     \/ /\ pc[i] = "apply"
        /\ Abandon(i)
        /\ conns' = [conns EXCEPT ![i] = RolledBack(i)]
     \/ /\ pc[i] = "serve"
        /\ pc' = [pc EXCEPT ![i] = "drain"]
        /\ UNCHANGED <<conns, failed>>
  /\ UNCHANGED <<env, next, streams, database, requests>>

-----------------------------------------------------------------------------
(* Serving. *)
With(i) == {r \in Requests : at[r] = i}

Arrive(r, i) ==
  /\ pc[i] = "serve"
  /\ stage[r] = "idle"
  /\ at'    = [at EXCEPT ![r] = i]
  /\ stage' = [stage EXCEPT ![r] = "waiting"]
  /\ UNCHANGED <<instance, database>>

Borrow(r, i) ==
  /\ at[r] = i /\ stage[r] = "waiting" /\ pc[i] \in {"serve", "drain"}
  /\ Free(i)
  /\ conns' = [conns EXCEPT ![i] = @ + 1]
  /\ stage' = [stage EXCEPT ![r] = "working"]
  /\ UNCHANGED <<pc, env, next, failed, streams, database, at>>

(* The handler answers; its transaction or its rows are closed first. *)
KeptByHandler(r, i) == conns[i]
Given(r, i) == conns[i] - (IF stage[r] = "working" THEN 1 ELSE 0)

(* A request ends with its answer, when its client leaves or, still waiting, *)
(* because the pool is closed.                                               *)
Answer(r, i) ==
  /\ at[r] = i
  /\ conns' = [conns EXCEPT ![i] = Given(r, i)]
  /\ at'    = [at EXCEPT ![r] = None]
  /\ stage' = [stage EXCEPT ![r] = "idle"]
  /\ UNCHANGED <<pc, env, next, failed, streams, database>>

OpenStream(i) ==
  /\ pc[i] = "serve" /\ ~streams[i]
  /\ streams' = [streams EXCEPT ![i] = TRUE]
  /\ UNCHANGED <<pc, env, conns, next, failed, database, requests>>

LeaveStream(i) ==
  /\ streams[i]
  /\ streams' = [streams EXCEPT ![i] = FALSE]
  /\ UNCHANGED <<pc, env, conns, next, failed, database, requests>>

-----------------------------------------------------------------------------
(* srv.Shutdown waits for every request and stream, 15 seconds at most.      *)
WaitsForStreams(i) == streams[i]
Waits(i) == FALSE

Drain(i) ==
  /\ pc[i] = "drain"
  /\ ~Waits(i)
  /\ pc'     = [pc EXCEPT ![i] = "close"]
  /\ failed' = [failed EXCEPT ![i] = streams[i] \/ With(i) # {}]
  /\ UNCHANGED <<env, conns, next, streams, database, requests>>

(* What ends with the process. *)
Vanish(i, how) ==
  /\ pc'      = [pc EXCEPT ![i] = how]
  /\ conns'   = [conns EXCEPT ![i] = 0]
  /\ streams' = [streams EXCEPT ![i] = FALSE]
  /\ at'      = [r \in Requests |-> IF at[r] = i THEN None ELSE at[r]]
  /\ stage'   = [r \in Requests |-> IF at[r] = i THEN "idle" ELSE stage[r]]
  /\ UNCHANGED <<env, next, failed, applied>>

(* The deferred pool.Close returns once every connection is back. *)
PoolAbandoned(i) == TRUE
PoolClosed(i) == conns[i] = 0

Exit(i) ==
  /\ pc[i] = "close"
  /\ PoolClosed(i)
  /\ Vanish(i, "exited")
  /\ UNCHANGED <<lock, lost>>

Crash(i) ==
  /\ pc[i] \notin Stopped
  /\ Vanish(i, "crashed")
  /\ lock' = FreedLock(i)
  /\ UNCHANGED lost

(* The database ends the idle session of a lock holder; Migrate does not     *)
(* notice before it unlocks.                                                 *)
LoseSession(i) ==
  /\ lock = i
  /\ lock' = None
  /\ lost' = TRUE
  /\ UNCHANGED <<instance, applied, requests>>

Step(i) == \/ Connect(i) \/ AcquireLockConn(i) \/ CreateTable(i) \/ CheckOne(i)
           \/ ApplyOne(i) \/ Unlock(i) \/ Listen(i) \/ Drain(i) \/ Exit(i)

Next ==
  \/ \E i \in Instances :
       Load(i) \/ TakeLock(i) \/ Step(i) \/ Sigterm(i) \/ Crash(i) \/ LoseSession(i)
         \/ OpenStream(i) \/ LeaveStream(i)
  \/ \E r \in Requests, i \in Instances : Arrive(r, i) \/ Borrow(r, i) \/ Answer(r, i)

(* PostgreSQL and pgxpool serve those who wait in order of arrival; every    *)
(* query and every step of a running process ends.                           *)
Fairness ==
  /\ \A i \in Instances : WF_vars(Step(i)) /\ SF_vars(TakeLock(i))
  /\ \A r \in Requests, i \in Instances :
       SF_vars(Borrow(r, i)) /\ WF_vars(Answer(r, i) /\ stage[r] = "working")

Spec == Init /\ [][Next]_vars /\ Fairness

-----------------------------------------------------------------------------
(* Migrations are applied in order, without a gap, whoever applied them and  *)
(* whoever died over them, even when a lock holder lost its session.         *)
InOrder == \A m \in applied : 1 .. m \subseteq applied

(* An instance answers requests only on a schema its build knows completely. *)
ServesMigrated == \A i \in Instances :
  pc[i] \in {"serve", "drain"} => 1 .. Known[i] \subseteq applied

(* The deployment as a whole: whatever is killed when, the schema goes from   *)
(* migration to migration and only an instance that knows it all is opened.  *)
Serving == {i \in Instances : pc[i] \in {"serve", "drain"}}
Rolling == INSTANCE RollingUpgrade WITH schema <- applied, open <- Serving
UpgradesRoll == Rolling!Spec

(* Unless the database drops a holder's session, the lock keeps an instance  *)
(* from trying a migration that has been applied since it looked.            *)
AppliedAlone == \A i \in Instances :
  pc[i] = "apply" /\ ~lost => next[i] \notin applied

(* An orderly exit, however late, never cuts a request off its connection.   *)
NoWorkCut == [][\A r \in Requests, i \in Instances :
  at[r] = i /\ stage[r] = "working" => pc'[i] # "exited"]_vars

(* Whoever waits, waits for something that ends: the pool never refuses the  *)
(* first connection of a boot, and the second only when it has one; the lock *)
(* is with an instance between lock and unlock; a request without connection *)
(* and a closing pool wait for a handler that has one.                       *)
NobodyWaitsInVain == \A i \in Instances :
  LET somebodyWorks == \E r \in Requests : at[r] = i /\ stage[r] = "working"
  IN  /\ pc[i] = "acquire" => Free(i)
      /\ pc[i] \in {"create", "check"} => Free(i) \/ env[i].maxConns = 1
      /\ pc[i] = "lock" => lock = None \/ (lock # i /\ pc[lock] \in Holders)
      /\ pc[i] \in {"serve", "drain"} => Free(i) \/ somebodyWorks
      /\ pc[i] = "close" => PoolClosed(i) \/ somebodyWorks

(* Nothing but an instance that waits for itself, its only connection lent   *)
(* to its own lock, can keep an instance from booting.                       *)
WaitsForItself(i) == pc[i] \in {"create", "check"} /\ env[i].maxConns = 1
StallsNeedOneConn == \A i \in Instances :
  <>[](pc[i] \in Booting) => \E j \in Instances : <>[]WaitsForItself(j)

(* A drain ends, whatever streams and requests are open. *)
DrainEnds == \A i \in Instances : pc[i] = "drain" ~> pc[i] \in Stopped

(* A request is not left waiting for a connection. *)
RequestsEnd == \A r \in Requests : stage[r] = "waiting" ~> stage[r] = "idle"
=============================================================================
