---------------------------- MODULE ServerProofs ----------------------------
(***************************************************************************)
(* What holds of the migrations for every number of instances, builds and  *)
(* settings, crashes and lost lock sessions included.                      *)
(***************************************************************************)
EXTENDS Server, FiniteSetTheorems, TLAPS

Pcs == Stopped \cup Booting \cup Up

(* The part of the types the migrations need. *)
Typed ==
  /\ pc \in [Instances -> Pcs]
  /\ next \in [Instances -> Nat \ {0}]
  /\ failed \in [Instances -> BOOLEAN]
  /\ applied \subseteq Nat \ {0}

(* What an instance knows of the schema at each step of its boot. *)
Progress(i) ==
  /\ pc[i] \in {"connect", "acquire", "lock", "create"} => next[i] = 1
  /\ pc[i] \in {"check", "apply"} => \A m \in Nat \ {0} : m < next[i] => m \in applied
  /\ pc[i] = "apply" => next[i] <= Known[i]
  /\ pc[i] = "unlock" /\ ~failed[i] => 1 .. Known[i] \subseteq applied
  /\ pc[i] \in {"hub", "serve", "drain"} => 1 .. Known[i] \subseteq applied

(* The lock: while no session was dropped, it is held throughout. *)
Locked(i) ==
  /\ pc[i] \in Holders /\ ~lost => lock = i
  /\ pc[i] = "apply" /\ ~lost => next[i] \notin applied

Inv == /\ Typed
       /\ InOrder
       /\ \A i \in Instances : Progress(i) /\ Locked(i)

(* At the start no process runs and the database is empty. *)
LEMMA InitInv == Init => Inv
BY DEF Init, Inv, Typed, Pcs, Stopped, Booting, Up, Holders, InOrder, Progress, Locked

(* Only ApplyOne writes the schema, and it writes the next file or nothing. *)
LEMMA ApplyOneInv == ASSUME Inv, NEW i \in Instances, ApplyOne(i) PROVE Inv'
<1> USE DEF Inv, Typed, Progress, Locked, ApplyOne, Committed, Fails, Abandon
<1>1. next[i] \in Nat \ {0} /\ pc[i] = "apply"
  OBVIOUS
<1>2. /\ applied \subseteq applied'
      /\ applied' \subseteq applied \cup {next[i]}
      /\ lock' = lock /\ lost' = lost
      /\ \A j \in Instances : j # i => pc'[j] = pc[j] /\ next'[j] = next[j] /\ failed'[j] = failed[j]
  OBVIOUS
<1>3. pc'[i] = "check" \/ (pc'[i] = "unlock" /\ failed'[i])
  OBVIOUS
<1>4. pc'[i] = "check" => next'[i] = next[i] + 1 /\ next[i] \in applied'
  OBVIOUS
<1>5. Typed'
  <2>1. applied' \subseteq Nat \ {0}
    BY <1>1, <1>2
  <2>2. pc' \in [Instances -> Pcs]
    BY DEF Pcs, Booting, Holders
  <2>3. next' \in [Instances -> Nat \ {0}]
    <3>1. next' = next \/ next' = [next EXCEPT ![i] = next[i] + 1]
      OBVIOUS
    <3> QED BY <1>1, <3>1
  <2>4. failed' \in [Instances -> BOOLEAN]
    OBVIOUS
  <2> QED BY <2>1, <2>2, <2>3, <2>4
<1>6. InOrder'
  <2> SUFFICES ASSUME NEW m \in applied', NEW k \in 1 .. m PROVE k \in applied'
    BY DEF InOrder
  <2>1. CASE m \in applied
    BY <2>1, <1>2 DEF InOrder
  <2>2. CASE m = next[i] /\ m \in applied'
    BY <2>2, <1>1, <1>2
  <2> QED BY <2>1, <2>2, <1>2
<1>7. Progress(i)'
  BY <1>1, <1>2, <1>3, <1>4, <1>5
<1>8. Locked(i)'
  BY <1>1, <1>2, <1>3 DEF Holders
<1>9. ASSUME NEW j \in Instances, j # i PROVE Progress(j)' /\ Locked(j)'
  <2>1. Progress(j)'
    BY <1>2, <1>9
  <2>2. ~lost => pc[j] \notin Holders
    BY <1>1, <1>9 DEF Holders
  <2>3. Locked(j)'
    BY <1>2, <1>9, <2>2 DEF Holders
  <2> QED BY <2>1, <2>3
<1> QED BY <1>5, <1>6, <1>7, <1>8, <1>9

(* The other steps of a boot leave the schema alone. *)
LEMMA BootInv ==
  ASSUME Inv, NEW i \in Instances,
         \/ Load(i) \/ Connect(i) \/ AcquireLockConn(i) \/ TakeLock(i) \/ CreateTable(i)
         \/ CheckOne(i) \/ Unlock(i) \/ Listen(i)
  PROVE  Inv'
<1> USE DEF Inv, Typed, Progress, Locked, Pcs, Stopped, Booting, Up, Holders
<1>1. applied' = applied /\ lost' = lost /\ InOrder'
  BY DEF Load, Connect, AcquireLockConn, TakeLock, CreateTable, CheckOne, Unlock, Listen,
         database, InOrder
<1>2. CASE Load(i)
  BY <1>1, <1>2 DEF Load, database
<1>3. CASE Connect(i)
  BY <1>1, <1>3 DEF Connect, database
<1>4. CASE AcquireLockConn(i)
  BY <1>1, <1>4 DEF AcquireLockConn, database
<1>5. CASE TakeLock(i)
  <2>1. ~lost => \A j \in Instances : pc[j] \notin Holders
    BY <1>5, ServerAssumption DEF TakeLock, LockGranted
  <2> QED BY <1>1, <1>5, <2>1 DEF TakeLock
<1>6. CASE CreateTable(i)
  BY <1>1, <1>6 DEF CreateTable, database
<1>7. CASE CheckOne(i)
  <2>1. pc[i] = "check" /\ next[i] \in Nat \ {0} /\ Known[i] \in Nat
    BY <1>7, ServerAssumption DEF CheckOne
  <2>2. CASE next[i] > Known[i] /\ pc' = [pc EXCEPT ![i] = "unlock"] /\ UNCHANGED next
    BY <1>1, <1>7, <2>1, <2>2 DEF CheckOne, database
  <2>3. CASE next[i] \in applied /\ next' = [next EXCEPT ![i] = @ + 1] /\ UNCHANGED pc
    BY <1>1, <1>7, <2>1, <2>3 DEF CheckOne, database
  <2>4. CASE next[i] \notin applied /\ pc' = [pc EXCEPT ![i] = "apply"] /\ UNCHANGED next
    BY <1>1, <1>7, <2>1, <2>4 DEF CheckOne, database
  <2> QED BY <1>7, <2>2, <2>3, <2>4 DEF CheckOne
<1>8. CASE Unlock(i)
  BY <1>1, <1>8 DEF Unlock, AfterMigrate, FreedLock
<1>9. CASE Listen(i)
  BY <1>1, <1>9 DEF Listen, database
<1> QED BY <1>2, <1>3, <1>4, <1>5, <1>6, <1>7, <1>8, <1>9

(* Signals, crashes, lost sessions and everything that happens while serving. *)
LEMMA OtherInv ==
  ASSUME Inv, NEW i \in Instances,
         \/ Sigterm(i) \/ Drain(i) \/ Exit(i) \/ Crash(i) \/ LoseSession(i)
         \/ OpenStream(i) \/ LeaveStream(i)
         \/ \E r \in Requests : Arrive(r, i) \/ Borrow(r, i) \/ Answer(r, i)
         \/ UNCHANGED vars
  PROVE  Inv'
<1> USE DEF Inv, Typed, Progress, Locked, Pcs, Stopped, Booting, Up, Holders
<1>1. applied' = applied /\ next' = next /\ InOrder'
  BY DEF Sigterm, Drain, Exit, Crash, LoseSession, OpenStream, LeaveStream, Arrive, Borrow,
         Answer, Vanish, Abandon, instance, database, vars, InOrder
<1>2. CASE Sigterm(i)
  BY <1>1, <1>2 DEF Sigterm, Abandon, database
<1>3. CASE Drain(i)
  BY <1>1, <1>3 DEF Drain, database
<1>4. CASE Exit(i)
  BY <1>1, <1>4 DEF Exit, Vanish
<1>5. CASE Crash(i)
  BY <1>1, <1>5 DEF Crash, Vanish, FreedLock
<1>6. CASE LoseSession(i)
  BY <1>1, <1>6 DEF LoseSession, instance
<1>7. CASE \/ OpenStream(i) \/ LeaveStream(i)
           \/ \E r \in Requests : Arrive(r, i) \/ Borrow(r, i) \/ Answer(r, i)
           \/ UNCHANGED vars
  <2>1. pc' = pc /\ failed' = failed /\ lock' = lock /\ lost' = lost
    BY <1>7 DEF OpenStream, LeaveStream, Arrive, Borrow, Answer, instance, database, vars
  <2> QED BY <1>1, <2>1
<1> QED BY <1>2, <1>3, <1>4, <1>5, <1>6, <1>7

(* The invariant holds throughout. *)
LEMMA Invariance == Spec => []Inv
<1>1. Inv /\ [Next]_vars => Inv'
  <2> SUFFICES ASSUME Inv, [Next]_vars PROVE Inv'
    OBVIOUS
  <2>1. ASSUME NEW i \in Instances,
               \/ Load(i) \/ TakeLock(i) \/ Step(i) \/ Sigterm(i) \/ Crash(i)
               \/ LoseSession(i) \/ OpenStream(i) \/ LeaveStream(i)
        PROVE  Inv'
    BY <2>1, ApplyOneInv, BootInv, OtherInv DEF Step
  <2>2. ASSUME NEW r \in Requests, NEW i \in Instances,
               Arrive(r, i) \/ Borrow(r, i) \/ Answer(r, i)
        PROVE  Inv'
    BY <2>2, OtherInv
  <2>3. CASE UNCHANGED vars
    BY <2>3 DEF Inv, Typed, Progress, Locked, InOrder, vars, instance, database
  <2> QED BY <2>1, <2>2, <2>3 DEF Next
<1> QED BY InitInv, <1>1, PTL DEF Spec

(* Migrations are applied in order and without a gap, whatever dies when. *)
THEOREM MigrationsInOrder == Spec => []InOrder
<1>1. Inv => InOrder
  BY DEF Inv
<1> QED BY Invariance, <1>1, PTL

(* No instance answers a request on a schema its build does not know. *)
THEOREM ServingIsMigrated == Spec => []ServesMigrated
<1>1. Inv => ServesMigrated
  BY DEF Inv, Progress, ServesMigrated
<1> QED BY Invariance, <1>1, PTL

(* The advisory lock keeps two instances from applying the same migration.   *)
THEOREM NobodyTrips == Spec => []AppliedAlone
<1>1. Inv => AppliedAlone
  BY DEF Inv, Locked, AppliedAlone
<1> QED BY Invariance, <1>1, PTL
(* A step of an instance other than ApplyOne leaves the schema alone.        *)
LEMMA SchemaStays ==
  ASSUME [Next]_vars PROVE applied' = applied \/ \E i \in Instances : ApplyOne(i)
BY DEF Next, Load, TakeLock, Step, Connect, AcquireLockConn, CreateTable, CheckOne, Unlock,
       Listen, Sigterm, Drain, Exit, Crash, Vanish, LoseSession, OpenStream, LeaveStream,
       Arrive, Borrow, Answer, database, vars

(* What a step does to the set of the instances that serve.                  *)
LEMMA ServingStep ==
  ASSUME Inv, [Next]_vars
  PROVE  \/ Serving' = Serving
         \/ \E i \in Instances : /\ 1 .. Known[i] \subseteq applied
                                 /\ Serving' = Serving \cup {i}
         \/ \E i \in Instances : Serving' = Serving \ {i}
<1>1. pc \in [Instances -> Pcs]
  BY DEF Inv, Typed
<1>2. CASE UNCHANGED pc
  BY <1>2 DEF Serving
<1>3. ASSUME NEW i \in Instances, Listen(i)
      PROVE  Serving' \in {Serving, Serving \cup {i}} /\ 1 .. Known[i] \subseteq applied
  BY <1>1, <1>3 DEF Listen, Serving, Inv, Progress
<1>4. ASSUME NEW i \in Instances,
             \/ Load(i) \/ Connect(i) \/ AcquireLockConn(i) \/ TakeLock(i) \/ CreateTable(i)
             \/ CheckOne(i) \/ ApplyOne(i) \/ Unlock(i)
      PROVE  Serving' = Serving
  <2>1. /\ pc[i] \notin {"serve", "drain"} /\ pc'[i] \notin {"serve", "drain"}
        /\ \A j \in Instances \ {i} : pc'[j] = pc[j]
    BY <1>1, <1>4
       DEF Load, Connect, AcquireLockConn, TakeLock, CreateTable, CheckOne, ApplyOne, Unlock,
           AfterMigrate, Fails, Abandon, Stopped
  <2> QED BY <2>1 DEF Serving
<1>5. ASSUME NEW i \in Instances, Sigterm(i)
      PROVE  Serving' = Serving
  <2>1. /\ pc'[i] \in {"serve", "drain"} <=> pc[i] \in {"serve", "drain"}
        /\ \A j \in Instances \ {i} : pc'[j] = pc[j]
    BY <1>1, <1>5 DEF Sigterm, Abandon
  <2> QED BY <2>1 DEF Serving
<1>6. ASSUME NEW i \in Instances, Drain(i) \/ Exit(i) \/ Crash(i)
      PROVE  Serving' = Serving \ {i}
  BY <1>1, <1>6 DEF Drain, Exit, Crash, Vanish, Serving
<1>7. \/ UNCHANGED pc
      \/ \E i \in Instances : Listen(i) \/ Sigterm(i) \/ Drain(i) \/ Exit(i) \/ Crash(i)
      \/ \E i \in Instances :
           \/ Load(i) \/ Connect(i) \/ AcquireLockConn(i) \/ TakeLock(i) \/ CreateTable(i)
           \/ CheckOne(i) \/ ApplyOne(i) \/ Unlock(i)
  BY DEF Next, Step, LoseSession, OpenStream, LeaveStream, Arrive, Borrow, Answer, instance, vars
<1> QED BY <1>2, <1>3, <1>4, <1>5, <1>6, <1>7

(* The deployment implements a rolling upgrade: every step of any instance   *)
(* is the next migration, the opening of an instance that knows the whole    *)
(* schema, the end of one, or of no concern to the schema.                   *)
THEOREM DeploymentRolls == Spec => UpgradesRoll
<1>1. Init => Rolling!Init
  BY DEF Init, Rolling!Init, Serving
<1>2. ASSUME Inv, [Next]_vars
      PROVE  [Rolling!Next]_<<applied, Serving>>
  <2>1. ASSUME NEW i \in Instances, ApplyOne(i), applied' # applied
        PROVE  Rolling!Next
    <3>1. pc[i] = "apply" /\ applied' = applied \cup {next[i]} /\ next[i] \notin applied
      BY <2>1 DEF ApplyOne, Committed
    <3>2. Serving' = Serving
      <4>1. \/ pc' = [pc EXCEPT ![i] = "check"]
            \/ pc' = [pc EXCEPT ![i] = "unlock"]
        BY <2>1 DEF ApplyOne, Fails, Abandon
      <4>2. pc \in [Instances -> Pcs]
        BY <1>2 DEF Inv, Typed
      <4> QED BY <3>1, <4>1, <4>2 DEF Serving
    <3>3. /\ next[i] \in Nat \ {0} /\ next[i] <= Known[i] /\ Known[i] \in Nat
          /\ \A m \in Nat \ {0} : m < next[i] => m \in applied
          /\ applied \subseteq Nat \ {0}
      BY <1>2, <3>1, ServerAssumption DEF Inv, Typed, Progress
    <3>4. \A m \in applied : m < next[i]
      <4> SUFFICES ASSUME NEW m \in applied, m > next[i] PROVE FALSE
        BY <3>1, <3>3
      <4>1. next[i] \in 1 .. m
        BY <3>3
      <4> QED BY <1>2, <3>1, <4>1 DEF Inv, InOrder
    <3> DEFINE n == next[i] - 1
    <3>5. n \in 0 .. Known[i] - 1 /\ next[i] = n + 1
      BY <3>3
    <3>6. applied = 1 .. n
      <4>1. ASSUME NEW m \in applied PROVE m \in 1 .. n
        BY <3>3, <3>4
      <4>2. ASSUME NEW m \in 1 .. n PROVE m \in applied
        BY <3>3
      <4> QED BY <4>1, <4>2
    <3>7. 1 .. n + 1 = (1 .. n) \cup {n + 1}
      BY <3>5
    <3>8. applied' = 1 .. n + 1
      BY <3>1, <3>5, <3>6, <3>7
    <3> QED BY <3>2, <3>5, <3>6, <3>8 DEF Rolling!Next, Rolling!Upgrade
  <2>2. CASE applied' = applied
    BY <1>2, <2>2, ServingStep
       DEF Rolling!Next, Rolling!Open, Rolling!Shut
  <2> QED BY <1>2, <2>1, <2>2, SchemaStays
<1> QED BY <1>1, <1>2, Invariance, PTL DEF Spec, UpgradesRoll, Rolling!Spec

-----------------------------------------------------------------------------
(* The accounts of the pool: what a boot and the handlers have borrowed.     *)
Working(i) == {r \in Requests : at[r] = i /\ stage[r] = "working"}

Lent(i) == IF pc[i] = "apply" THEN 2
           ELSE IF pc[i] \in {"lock", "create", "check", "unlock"} THEN 1 ELSE 0

PoolTyped ==
  /\ pc \in [Instances -> Pcs]
  /\ env \in [Instances -> Settings]
  /\ conns \in [Instances -> Int]
  /\ at \in [Requests -> Instances \cup {None}]
  /\ stage \in [Requests -> {"idle", "waiting", "working"}]
  /\ lock \in Instances \cup {None}

Accounts(i) ==
  /\ IsFiniteSet(Working(i))
  /\ conns[i] = Lent(i) + Cardinality(Working(i))
  /\ pc[i] \notin Up => Working(i) = {}
  /\ pc[i] \notin Stopped => Loads(env[i]) /\ conns[i] <= env[i].maxConns
  /\ lock = i => pc[i] \in Holders

PoolInv == PoolTyped /\ \A i \in Instances : Accounts(i)

LEMMA PoolInit == Init => PoolInv
<1> SUFFICES ASSUME Init PROVE PoolInv
  OBVIOUS
<1>1. PoolTyped
  BY ServerAssumption DEF Init, PoolTyped, Pcs, Stopped
<1>2. ASSUME NEW i \in Instances PROVE Accounts(i)
  <2>1. Working(i) = {}
    BY DEF Init, Working
  <2>2. IsFiniteSet({}) /\ Cardinality({}) = 0
    BY FS_EmptySet
  <2> QED BY <2>1, <2>2, ServerAssumption DEF Init, Accounts, Lent, Stopped
<1> QED BY <1>1, <1>2 DEF PoolInv

(* An instance whose boot and requests do not change keeps its accounts.     *)
LEMMA PoolOthers ==
  ASSUME PoolInv, NEW j \in Instances,
         pc'[j] = pc[j], env'[j] = env[j], conns'[j] = conns[j],
         lock' = j => lock = j,
         \A r \in Requests : at'[r] = j /\ stage'[r] = "working" <=> at[r] = j /\ stage[r] = "working"
  PROVE  Accounts(j)'
<1>1. Working(j)' = Working(j)
  BY DEF Working
<1> QED BY <1>1 DEF PoolInv, Accounts, Lent, Loads

(* The steps of one instance that leave its requests alone. *)
LEMMA PoolSteps ==
  ASSUME PoolInv, NEW i \in Instances,
         \/ Load(i) \/ TakeLock(i) \/ Connect(i) \/ AcquireLockConn(i) \/ CreateTable(i)
         \/ CheckOne(i) \/ ApplyOne(i) \/ Unlock(i) \/ Listen(i) \/ Sigterm(i) \/ Drain(i)
         \/ LoseSession(i) \/ OpenStream(i) \/ LeaveStream(i)
  PROVE  PoolInv'
<1> USE DEF PoolInv, PoolTyped
<1>1. /\ at' = at /\ stage' = stage
      /\ \A j \in Instances : j # i => pc'[j] = pc[j] /\ env'[j] = env[j] /\ conns'[j] = conns[j]
      /\ lock' \in {lock, None} \/ (lock' = i /\ TakeLock(i))
  BY DEF Load, TakeLock, Connect, AcquireLockConn, CreateTable, CheckOne, ApplyOne, Unlock,
         Listen, Sigterm, Drain, LoseSession, OpenStream, LeaveStream, instance, database,
         requests, Abandon, Fails, FreedLock
<1>2. Working(i)' = Working(i)
  BY <1>1 DEF Working
<1>3. /\ Accounts(i) /\ Cardinality(Working(i)) \in Nat
      /\ Working(i) = {} => Cardinality(Working(i)) = 0
  BY FS_CardinalityType, FS_EmptySet DEF Accounts
<1> DEFINE n == Cardinality(Working(i))
<1>4. PoolTyped'
  <2> USE DEF Pcs, Stopped, Booting, Holders, Up
  <2>1. CASE Load(i) \/ Connect(i) \/ TakeLock(i) \/ CreateTable(i) \/ Listen(i) \/ Drain(i)
    BY <2>1, ServerAssumption
       DEF Load, Connect, TakeLock, CreateTable, Listen, Drain, database, requests
  <2>2. CASE AcquireLockConn(i) \/ CheckOne(i)
    BY <2>2 DEF AcquireLockConn, CheckOne, database, requests
  <2>3. CASE ApplyOne(i)
    BY <2>3 DEF ApplyOne, RolledBack, Fails, Abandon, requests
  <2>4. CASE Unlock(i)
    BY <2>4 DEF Unlock, FreedLock, AfterMigrate, requests
  <2>5. CASE Sigterm(i)
    BY <2>5 DEF Sigterm, RolledBack, Abandon, database, requests
  <2>6. CASE LoseSession(i) \/ OpenStream(i) \/ LeaveStream(i)
    BY <2>6 DEF LoseSession, OpenStream, LeaveStream, instance, database, requests
  <2> QED BY <2>1, <2>2, <2>3, <2>4, <2>5, <2>6
<1>5. Accounts(i)'
  <2> USE <1>1, <1>2, <1>3 DEF Accounts, Lent, Loads, Pcs, Stopped, Booting, Holders, Up
  <2> HIDE DEF Working
  <2>1. CASE Load(i)
    BY <2>1 DEF Load, database
  <2>2. CASE TakeLock(i)
    BY <2>2 DEF TakeLock
  <2>3. CASE Connect(i)
    BY <2>3 DEF Connect, database
  <2>4. CASE AcquireLockConn(i)
    BY <2>4 DEF AcquireLockConn, Free, database
  <2>5. CASE CreateTable(i)
    BY <2>5 DEF CreateTable, database
  <2>6. CASE CheckOne(i)
    BY <2>6 DEF CheckOne, Free, database
  <2>7. CASE ApplyOne(i)
    BY <2>7 DEF ApplyOne, RolledBack, Fails, Abandon
  <2>8. CASE Unlock(i)
    BY <2>8, ServerAssumption DEF Unlock, FreedLock, AfterMigrate
  <2>9. CASE Listen(i)
    BY <2>9 DEF Listen, database
  <2>10. CASE Sigterm(i)
    BY <2>10 DEF Sigterm, RolledBack, Abandon, database
  <2>11. CASE Drain(i)
    BY <2>11 DEF Drain, database
  <2>12. CASE LoseSession(i) \/ OpenStream(i) \/ LeaveStream(i)
    BY <2>12, ServerAssumption DEF LoseSession, OpenStream, LeaveStream, instance, database
  <2> QED BY <2>1, <2>2, <2>3, <2>4, <2>5, <2>6, <2>7, <2>8, <2>9, <2>10, <2>11, <2>12
<1>6. ASSUME NEW j \in Instances, j # i PROVE Accounts(j)'
  BY <1>1, <1>6, PoolOthers, ServerAssumption
<1> QED BY <1>4, <1>5, <1>6

(* A request borrows one connection, and gives it back with its answer.      *)
LEMMA PoolRequests ==
  ASSUME PoolInv, NEW i \in Instances, NEW r \in Requests,
         Arrive(r, i) \/ Borrow(r, i) \/ Answer(r, i)
  PROVE  PoolInv'
<1> USE DEF PoolInv, PoolTyped
<1>1. /\ \A j \in Instances : pc'[j] = pc[j] /\ env'[j] = env[j]
      /\ \A j \in Instances : j # i => conns'[j] = conns[j]
      /\ \A q \in Requests : q # r => at'[q] = at[q] /\ stage'[q] = stage[q]
      /\ lock' = lock
  BY DEF Arrive, Borrow, Answer, instance, database
<1>2. PoolTyped'
  BY DEF Arrive, Borrow, Answer, Given, instance, database
<1>3. /\ Accounts(i) /\ Cardinality(Working(i)) \in Nat
      /\ IsFiniteSet(Working(i))
  BY FS_CardinalityType DEF Accounts
<1>4. Accounts(i)'
  <2>1. CASE Arrive(r, i)
    <3>1. conns'[i] = conns[i] /\ Working(i)' = Working(i)
      BY <2>1, ServerAssumption DEF Arrive, instance, Working
    <3> QED BY <1>1, <1>3, <3>1 DEF Accounts, Lent, Loads
  <2>2. CASE Borrow(r, i)
    <3>1. Working(i)' = Working(i) \cup {r} /\ r \notin Working(i)
      BY <2>2, <1>1 DEF Borrow, Working
    <3>2. IsFiniteSet(Working(i)') /\ Cardinality(Working(i)') = Cardinality(Working(i)) + 1
      BY <1>3, <3>1, FS_AddElement
    <3>3. conns'[i] = conns[i] + 1 /\ conns[i] < env[i].maxConns /\ pc[i] \in Up
      BY <2>2 DEF Borrow, Free, Up
    <3>4. env[i].maxConns \in Int /\ conns[i] \in Int
      BY DEF Settings
    <3> HIDE DEF Working
    <3> QED BY <1>1, <1>3, <3>2, <3>3, <3>4 DEF Accounts, Lent, Loads
  <2>3. CASE Answer(r, i) /\ stage[r] = "working"
    <3>1. Working(i)' = Working(i) \ {r} /\ r \in Working(i)
      BY <2>3, <1>1, ServerAssumption DEF Answer, Working
    <3>2. IsFiniteSet(Working(i)') /\ Cardinality(Working(i)') = Cardinality(Working(i)) - 1
      BY <1>3, <3>1, FS_RemoveElement
    <3>3. conns'[i] = conns[i] - 1 /\ conns[i] \in Int /\ env[i].maxConns \in Int
      BY <2>3 DEF Answer, Given, Settings
    <3>4. pc[i] \in Up
      BY <3>1 DEF Accounts
    <3> HIDE DEF Working
    <3> QED BY <1>1, <1>3, <3>2, <3>3, <3>4 DEF Accounts, Lent, Loads
  <2>4. CASE Answer(r, i) /\ stage[r] # "working"
    <3>1. Working(i)' = Working(i) /\ conns'[i] = conns[i]
      BY <2>4, <1>1, ServerAssumption DEF Answer, Given, Working
    <3> QED BY <1>1, <1>3, <3>1 DEF Accounts, Lent, Loads
  <2> QED BY <2>1, <2>2, <2>3, <2>4
<1>5. ASSUME NEW j \in Instances, j # i PROVE Accounts(j)'
  <2>1. \A q \in Requests :
          at'[q] = j /\ stage'[q] = "working" <=> at[q] = j /\ stage[q] = "working"
    BY <1>1, <1>5, ServerAssumption DEF Arrive, Borrow, Answer
  <2> QED BY <1>1, <1>5, <2>1, PoolOthers
<1> QED BY <1>2, <1>4, <1>5

(* A process takes its requests and its pool with it. *)
LEMMA PoolVanish ==
  ASSUME PoolInv, NEW i \in Instances, Exit(i) \/ Crash(i) PROVE PoolInv'
<1> USE DEF PoolInv, PoolTyped
<1>1. /\ pc'[i] \in Stopped /\ conns'[i] = 0
      /\ \A j \in Instances : j # i => pc'[j] = pc[j] /\ conns'[j] = conns[j]
      /\ env' = env /\ lock' \in {lock, None} /\ (lock' = i => pc[i] = "close")
  BY ServerAssumption DEF Exit, Crash, Vanish, FreedLock, Stopped, Accounts, Holders
<1>2. /\ at'    = [r \in Requests |-> IF at[r] = i THEN None ELSE at[r]]
      /\ stage' = [r \in Requests |-> IF at[r] = i THEN "idle" ELSE stage[r]]
  BY DEF Exit, Crash, Vanish
<1>3. PoolTyped'
  BY <1>1, <1>2 DEF Exit, Crash, Vanish, Pcs, Stopped
<1>4. Accounts(i)'
  <2>1. Working(i)' = {}
    BY <1>2, ServerAssumption DEF Working
  <2>2. IsFiniteSet({}) /\ Cardinality({}) = 0
    BY FS_EmptySet
  <2>3. lock' # i
    BY <1>1, ServerAssumption DEF Accounts, Holders
  <2> QED BY <1>1, <2>1, <2>2, <2>3 DEF Accounts, Lent, Stopped
<1>5. ASSUME NEW j \in Instances, j # i PROVE Accounts(j)'
  <2>1. \A r \in Requests :
          at'[r] = j /\ stage'[r] = "working" <=> at[r] = j /\ stage[r] = "working"
    BY <1>2, <1>5, ServerAssumption
  <2> QED BY <1>1, <1>5, <2>1, PoolOthers, ServerAssumption
<1> QED BY <1>3, <1>4, <1>5

LEMMA PoolInvariance == Spec => []PoolInv
<1>1. PoolInv /\ [Next]_vars => PoolInv'
  <2> SUFFICES ASSUME PoolInv, [Next]_vars PROVE PoolInv'
    OBVIOUS
  <2>1. ASSUME NEW i \in Instances,
               \/ Load(i) \/ TakeLock(i) \/ Step(i) \/ Sigterm(i) \/ Crash(i)
               \/ LoseSession(i) \/ OpenStream(i) \/ LeaveStream(i)
        PROVE  PoolInv'
    BY <2>1, PoolSteps, PoolVanish DEF Step
  <2>2. ASSUME NEW r \in Requests, NEW i \in Instances,
               Arrive(r, i) \/ Borrow(r, i) \/ Answer(r, i)
        PROVE  PoolInv'
    BY <2>2, PoolRequests
  <2>3. CASE UNCHANGED vars
    <3>1. PoolTyped'
      BY <2>3 DEF PoolInv, PoolTyped, vars, instance, database, requests
    <3> QED BY <2>3, <3>1, PoolOthers DEF PoolInv, vars, instance, database, requests
  <2> QED BY <2>1, <2>2, <2>3 DEF Next
<1> QED BY PoolInit, <1>1, PTL DEF Spec

(* An orderly exit never cuts a request off the connection it works with: a  *)
(* closing pool has none lent out.                                           *)
THEOREM WorkIsFinished == Spec => NoWorkCut
<1>1. ASSUME PoolInv, [Next]_vars, NEW r \in Requests, NEW i \in Instances,
             at[r] = i, stage[r] = "working"
      PROVE  pc'[i] # "exited"
  <2>1. /\ r \in Working(i) /\ pc[i] \in Up /\ Accounts(i)
    BY <1>1 DEF PoolInv, Accounts, Working
  <2>2. Cardinality(Working(i)) \in Nat /\ Cardinality(Working(i)) # 0
    BY <2>1, FS_CardinalityType, FS_EmptySet DEF Accounts
  <2>3. ~Exit(i)
    BY <2>1, <2>2 DEF Exit, PoolClosed, Accounts, Lent
  <2>4. pc'[i] = "exited" => pc[i] = "exited" \/ Exit(i) \/ pc[i] \in Stopped \cup Booting
    BY <1>1
       DEF Next, Load, TakeLock, Step, Connect, AcquireLockConn, CreateTable, CheckOne,
           ApplyOne, Unlock, Listen, Sigterm, Drain, Exit, Crash, Vanish, LoseSession, OpenStream,
           LeaveStream, Arrive, Borrow, Answer, instance, vars, Abandon, Fails, AfterMigrate,
           PoolInv, PoolTyped, Booting
  <2> QED BY <2>1, <2>3, <2>4 DEF Up, Booting, Stopped, Holders
<1>2. PoolInv /\ [Next]_vars =>
        [\A r \in Requests, i \in Instances :
           at[r] = i /\ stage[r] = "working" => pc'[i] # "exited"]_vars
  BY <1>1
<1> QED BY PoolInvariance, <1>2, PTL DEF Spec, NoWorkCut

(* What an instance or a request waits for is lent to somebody who goes on.  *)
THEOREM WaitsAreFounded == Spec => []NobodyWaitsInVain
<1>1. PoolInv => NobodyWaitsInVain
  <2> SUFFICES ASSUME PoolInv, NEW i \in Instances
      PROVE  LET somebodyWorks == \E r \in Requests : at[r] = i /\ stage[r] = "working"
             IN  /\ pc[i] = "acquire" => Free(i)
                 /\ pc[i] \in {"create", "check"} => Free(i) \/ env[i].maxConns = 1
                 /\ pc[i] = "lock" => lock = None \/ (lock # i /\ pc[lock] \in Holders)
                 /\ pc[i] \in {"serve", "drain"} => Free(i) \/ somebodyWorks
                 /\ pc[i] = "close" => PoolClosed(i) \/ somebodyWorks
    BY DEF NobodyWaitsInVain
  <2> DEFINE n == Cardinality(Working(i))
  <2>1. /\ n \in Nat /\ Accounts(i)
        /\ Working(i) = {} => n = 0
    BY FS_CardinalityType, FS_EmptySet DEF PoolInv, Accounts
  <2>2. Working(i) # {} => \E r \in Requests : at[r] = i /\ stage[r] = "working"
    BY DEF Working
  <2>3. \A j \in Instances : lock = j => pc[j] \in Holders
    BY DEF PoolInv, Accounts
  <2>4. lock = None \/ lock \in Instances
    BY DEF PoolInv, PoolTyped
  <2>5. conns[i] = Lent(i) + n /\ (pc[i] \notin Up => n = 0)
    BY <2>1 DEF Accounts
  <2> HIDE DEF n
  <2>6. pc[i] \notin Stopped => env[i].maxConns \in 1 .. 64
    BY <2>1 DEF Accounts, Loads
  <2> QED BY <2>1, <2>2, <2>3, <2>4, <2>5, <2>6
          DEF Free, PoolClosed, Lent, Stopped, Up, Holders
<1> QED BY PoolInvariance, <1>1, PTL
=============================================================================
