---------------------------- MODULE BoreholeLog -----------------------------
(***************************************************************************)
(* Boreholes are two tables: the header row and its lithology intervals,   *)
(* replaced wholesale with every accepted header (store.go, UpsertBorehole *)
(* and PullBoreholes).  Pushes run as interleaved transactions; a pull is  *)
(* two separate queries with nothing around them.                          *)
(*                                                                         *)
(* PostgreSQL is used under READ COMMITTED: what a transaction wrote is    *)
(* invisible until its commit, a second writer of a header row waits for   *)
(* the first and then judges the committed row, and so does a second       *)
(* writer of an interval id (a primary key).                               *)
(***************************************************************************)
EXTENDS Integers

CONSTANTS
  Boreholes,   \* borehole ids
  Intervals,   \* interval ids
  Projects,    \* project ids
  Versions,    \* what devices may push: borehole versions with their logs
  Pushers,     \* concurrent PushSyncQueue handlers, at one borehole each
  Pullers,     \* concurrent PullProjectData handlers
  Cursors,     \* the since bounds of pulls
  None         \* no row

(* A pushed borehole, as far as it matters: log is the ids of its intervals, *)
(* ordered says that each of them has its depths in order.                   *)
Borehole == [bh : Boreholes, ts : Nat \ {0}, project : Projects,
             log : SUBSET Intervals, ordered : BOOLEAN]

ASSUME BoreholeAssumption ==
  /\ Versions \subseteq Borehole
  /\ Cursors \subseteq Nat
  /\ None \notin Versions

VARIABLES
  header,     \* table boreholes: the committed version of each row
  interval,   \* table borehole_intervals: the version each row was written with
  tx,         \* pusher: the stage of its transaction
  pushing,    \* pusher: the version it writes
  gone,       \* pusher: the interval rows its transaction has deleted
  verdict,    \* pusher: the verdict of its last borehole
  pull,       \* puller: the query it is at
  since,      \* puller: the bound of its queries
  project,    \* puller: the project of its request
  heads,      \* puller: the header rows read
  logs        \* puller: the interval rows attached to each of them

push   == <<tx, pushing, gone, verdict>>
reader == <<pull, since, project, heads, logs>>
vars   == <<header, interval, push, reader>>

Accepted == {"SYNCED", "OVERWROTE"}
Verdicts == Accepted \union {"STALE", "REJECTED"}

NoHeads == [b \in Boreholes |-> None]
NoLogs  == [b \in Boreholes |-> [i \in Intervals |-> None]]

-----------------------------------------------------------------------------
Init ==
  /\ header   = [b \in Boreholes |-> None]
  /\ interval = [i \in Intervals |-> None]
  /\ tx      = [p \in Pushers |-> "idle"]
  /\ pushing = [p \in Pushers |-> None]
  /\ gone    = [p \in Pushers |-> {}]
  /\ verdict = [p \in Pushers |-> "none"]
  /\ pull    = [r \in Pullers |-> "idle"]
  /\ since   = [r \in Pullers |-> 0]
  /\ project = [r \in Pullers |-> None]
  /\ heads   = [r \in Pullers |-> NoHeads]
  /\ logs    = [r \in Pullers |-> NoLogs]

(* The transaction of p ends with verdict w. *)
Finish(p, w) ==
  /\ tx'      = [tx EXCEPT ![p] = "idle"]
  /\ pushing' = [pushing EXCEPT ![p] = None]
  /\ gone'    = [gone EXCEPT ![p] = {}]
  /\ verdict' = [verdict EXCEPT ![p] = w]

Step(p, from, to) == tx[p] = from /\ tx' = [tx EXCEPT ![p] = to]

-----------------------------------------------------------------------------
(* Push. *)

(* validateBorehole: the batch names the version's project, and every depth  *)
(* interval is ordered.                                                      *)
Valid(v, batch) == v.project = batch /\ v.ordered

PushBorehole(p, v, batch) ==
  /\ tx[p] = "idle"
  /\ \/ /\ Valid(v, batch)
        /\ tx'      = [tx EXCEPT ![p] = "begun"]
        /\ pushing' = [pushing EXCEPT ![p] = v]
        /\ verdict' = [verdict EXCEPT ![p] = "none"]
        /\ UNCHANGED gone
     \/ ~Valid(v, batch) /\ Finish(p, "REJECTED")
  /\ UNCHANGED <<header, interval, reader>>

(* The transactions that hold the row of borehole b. *)
Unlocked(b) == {}
Holding(b) == {q \in Pushers : tx[q] \in {"upserted", "cleared", "filled"} /\ pushing[q].bh = b}

WinsNever(stored, v) == stored = None
Wins(stored, v) == stored # None => stored.ts < v.ts

UpsertHeader(p) ==
  LET v == pushing[p]
  IN /\ tx[p] = "begun" /\ Holding(v.bh) = {}
     /\ \/ Wins(header[v.bh], v) /\ Step(p, "begun", "upserted")
           /\ UNCHANGED <<pushing, gone, verdict>>
        \/ ~Wins(header[v.bh], v) /\ Finish(p, "STALE")
     /\ UNCHANGED <<header, interval, reader>>

LogOf(b) == {i \in Intervals : interval[i] # None /\ interval[i].bh = b}
KeptLog(v) == {}
OldLog(v) == LogOf(v.bh)

(* DELETE FROM borehole_intervals: also when the incoming log is empty. *)
ClearLog(p) ==
  /\ Step(p, "upserted", "cleared")
  /\ gone' = [gone EXCEPT ![p] = OldLog(pushing[p])]
  /\ UNCHANGED <<header, interval, pushing, verdict, reader>>

(* Interval ids another open transaction has inserted or deleted. *)
Contended(p) ==
  UNION {gone[q] \union IF tx[q] = "filled" THEN pushing[q].log ELSE {} : q \in Pushers \ {p}}

(* The batch of INSERTs: it waits for the ids in use by another transaction,  *)
(* and an id still held by another borehole is a duplicate key (then only     *)
(* Fail is possible).                                                         *)
InsertLog(p) ==
  LET v == pushing[p]
  IN /\ Step(p, "cleared", "filled")
     /\ v.log \intersect Contended(p) = {}
     /\ \A i \in v.log : interval[i] = None \/ i \in gone[p]
     /\ UNCHANGED <<header, interval, pushing, gone, verdict, reader>>

(* Both tables change in one step, when the transaction commits. *)
Apply(p) ==
  LET v == pushing[p]
  IN /\ header' = [header EXCEPT ![v.bh] = v]
     /\ interval' = [i \in Intervals |->
          IF i \in v.log THEN v ELSE IF i \in gone[p] THEN None ELSE interval[i]]

(* ResolveUpshot for a version that was written. *)
Resolve(stored) == IF stored = None THEN "SYNCED" ELSE "OVERWROTE"

Commit(p) ==
  /\ tx[p] = "filled"
  /\ Apply(p)
  /\ Finish(p, Resolve(header[pushing[p].bh]))
  /\ UNCHANGED reader

(* A statement fails (duplicate code or interval id, deadlock victim, lost    *)
(* connection): the deferred Rollback undoes everything.  When it is the      *)
(* answer to COMMIT that gets lost, the transaction may have gone through.    *)
Fail(p) ==
  /\ tx[p] # "idle"
  /\ \/ UNCHANGED <<header, interval>>
     \/ tx[p] = "filled" /\ Apply(p)
  /\ Finish(p, "REJECTED")
  /\ UNCHANGED reader

-----------------------------------------------------------------------------
(* Pull. *)

(* The filter both queries share. *)
InDelta(r, b) == header[b] # None /\ header[b].project = project[r] /\ header[b].ts >= since[r]
InDeltaStrict(r, b) == header[b] # None /\ header[b].project = project[r] /\ header[b].ts > since[r]
Joined(r, b) == InDelta(r, b)

StartPull(r, pr, c) ==
  /\ pull[r] \in {"idle", "done"}
  /\ pull'    = [pull EXCEPT ![r] = "headers"]
  /\ since'   = [since EXCEPT ![r] = c]
  /\ project' = [project EXCEPT ![r] = pr]
  /\ heads'   = [heads EXCEPT ![r] = NoHeads]
  /\ logs'    = [logs EXCEPT ![r] = NoLogs]
  /\ UNCHANGED <<header, interval, push>>

(* First query; nothing changed means the interval query is skipped. *)
ReadHeaders(r) ==
  LET read == [b \in Boreholes |-> IF InDelta(r, b) THEN header[b] ELSE None]
  IN /\ pull[r] = "headers"
     /\ heads' = [heads EXCEPT ![r] = read]
     /\ pull'  = [pull EXCEPT ![r] = IF read = NoHeads THEN "done" ELSE "intervals"]
     /\ UNCHANGED <<header, interval, push, since, project, logs>>

(* Second query: the intervals of boreholes that are in the delta by now,    *)
(* attached to the headers read before.                                      *)
ReadIntervals(r) ==
  /\ pull[r] = "intervals"
  /\ logs' = [logs EXCEPT ![r] = [b \in Boreholes |-> [i \in Intervals |->
                IF heads[r][b] # None /\ i \in LogOf(b) /\ Joined(r, b)
                  THEN interval[i] ELSE None]]]
  /\ pull' = [pull EXCEPT ![r] = "done"]
  /\ UNCHANGED <<header, interval, push, since, project, heads>>

-----------------------------------------------------------------------------
Next ==
  \/ \E p \in Pushers :
       \/ \E v \in Versions, batch \in Projects : PushBorehole(p, v, batch)
       \/ UpsertHeader(p)
       \/ ClearLog(p)
       \/ InsertLog(p)
       \/ Commit(p)
       \/ Fail(p)
  \/ \E r \in Pullers :
       \/ \E pr \in Projects, c \in Cursors : StartPull(r, pr, c)
       \/ ReadHeaders(r)
       \/ ReadIntervals(r)

Spec == Init /\ [][Next]_vars

-----------------------------------------------------------------------------
TypeOK ==
  /\ header \in [Boreholes -> Versions \union {None}]
  /\ interval \in [Intervals -> Versions \union {None}]
  /\ tx \in [Pushers -> {"idle", "begun", "upserted", "cleared", "filled"}]
  /\ pushing \in [Pushers -> Versions \union {None}]
  /\ gone \in [Pushers -> SUBSET Intervals]
  /\ verdict \in [Pushers -> Verdicts \union {"none"}]
  /\ pull \in [Pullers -> {"idle", "headers", "intervals", "done"}]
  /\ since \in [Pullers -> Nat]
  /\ project \in [Pullers -> Projects \union {None}]
  /\ heads \in [Pullers -> [Boreholes -> Versions \union {None}]]
  /\ logs \in [Pullers -> [Boreholes -> [Intervals -> Versions \union {None}]]]

(* In the tables a borehole never has half its log: the interval rows of a   *)
(* borehole are those of the version in its header, all of them and no       *)
(* others, whatever transactions are under way, refused or rolled back.      *)
LogMatchesHeader ==
  /\ \A i \in Intervals : interval[i] # None =>
       interval[i] = header[interval[i].bh] /\ i \in interval[i].log
  /\ \A b \in Boreholes : header[b] # None => \A i \in header[b].log : interval[i] = header[b]

(* A device may forget its copy on every verdict but a rejection: by the     *)
(* step that says SYNCED, OVERWROTE or STALE the server holds that version   *)
(* or one it lost to, although the verdict was reached statements earlier.   *)
VerdictsAreSafe ==
  [][\A p \in Pushers :
       tx[p] # "idle" /\ verdict'[p] \in Accepted \union {"STALE"} =>
         header'[pushing[p].bh] # None /\ header'[pushing[p].bh].ts >= pushing[p].ts]_vars

(* The headers are last-write-wins registers although a version is judged    *)
(* when its transaction upserts the header and becomes visible only when it  *)
(* commits: two pushes of one borehole never leave the older of them.        *)
Headers == INSTANCE LwwRegisters
  WITH Entities <- Boreholes, Version <- Versions, Absent <- [ts |-> 0],
       rows <- [b \in Boreholes |-> IF header[b] = None THEN [ts |-> 0] ELSE header[b]]
HeadersAreRegisters == Headers!Spec

(* The log a finished pull attaches to a header. *)
Pulled(r, b) == {i \in Intervals : logs[r][b][i] # None}
Whole(r, b)  == Pulled(r, b) = heads[r][b].log
                /\ \A i \in Pulled(r, b) : logs[r][b][i] = heads[r][b]

(* The two queries of a pull are not one snapshot.  What a device gets is    *)
(* nevertheless the log of one version, never older than the header, and if  *)
(* it is not the header's own then the server already holds a later version  *)
(* of that borehole, which a later pull of its project brings.               *)
WholeOrSuperseded ==
  \A r \in Pullers : \A b \in Boreholes :
    pull[r] = "done" /\ heads[r][b] # None =>
      /\ \A i, j \in Pulled(r, b) : logs[r][b][i] = logs[r][b][j]
      /\ \A i \in Pulled(r, b) : logs[r][b][i].ts >= heads[r][b].ts
      /\ Whole(r, b) \/ header[b].ts > heads[r][b].ts

(* What the comment on UpsertBorehole says: a borehole never appears with    *)
(* half its log.  True of the tables, false of what a pull returns.          *)
NeverHalfItsLog ==
  \A r \in Pullers : \A b \in Boreholes :
    pull[r] = "done" /\ heads[r][b] # None => Whole(r, b)
=============================================================================
