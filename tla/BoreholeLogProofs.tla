-------------------------- MODULE BoreholeLogProofs --------------------------
(***************************************************************************)
(* Theorems about BoreholeLog, for any boreholes, interval ids, versions,  *)
(* pushers and pullers.  The argument: the row lock makes a transaction    *)
(* the only writer of its borehole from the upsert of the header to its    *)
(* end, so what it judged and deleted is still true when it commits; and   *)
(* the primary key of the intervals keeps two logs from sharing an id.     *)
(***************************************************************************)
EXTENDS BoreholeLog, TLAPS

(* A transaction that holds the row of its borehole. *)
Open(p) == tx[p] \in {"upserted", "cleared", "filled"}

(* What a transaction knows: its version still wins, what it deleted is all  *)
(* of the old log, and the ids it inserted were free or its own.             *)
TxInv == \A p \in Pushers :
  /\ tx[p] # "idle" => pushing[p] \in Versions /\ verdict[p] = "none"
  /\ Open(p) => Wins(header[pushing[p].bh], pushing[p])
  /\ tx[p] \in {"cleared", "filled"} => gone[p] = LogOf(pushing[p].bh)
  /\ tx[p] = "filled" => \A i \in pushing[p].log : interval[i] = None \/ i \in gone[p]

(* The locks: one open transaction per borehole, and per interval id. *)
LockInv == \A p, q \in Pushers : p # q =>
  /\ Open(p) /\ Open(q) => pushing[p].bh # pushing[q].bh
  /\ tx[p] = "filled" /\ tx[q] = "filled" => pushing[p].log \cap pushing[q].log = {}

OwnHeader == \A b \in Boreholes : header[b] # None => header[b].bh = b

(* A header that was read is in the delta, and still there or superseded. *)
HeadInv == \A r \in Pullers, b \in Boreholes :
  /\ pull[r] \in {"idle", "headers"} => heads[r][b] = None
  /\ heads[r][b] # None =>
       /\ heads[r][b].project = project[r] /\ heads[r][b].ts >= since[r]
       /\ header[b] # None
       /\ header[b] = heads[r][b] \/ header[b].ts > heads[r][b].ts

Inv == TypeOK /\ TxInv /\ LockInv /\ OwnHeader /\ LogMatchesHeader /\ HeadInv

LEMMA VersionFacts == ASSUME NEW v \in Versions
  PROVE  /\ v # None /\ v.bh \in Boreholes /\ v.ts \in Nat /\ v.ts > 0
         /\ v.log \subseteq Intervals
BY BoreholeAssumption DEF Borehole

LEMMA InitInv == Init => Inv /\ WholeOrSuperseded
<1> SUFFICES ASSUME Init PROVE Inv /\ WholeOrSuperseded
  OBVIOUS
<1>1. TypeOK
  BY DEF Init, TypeOK, NoHeads, NoLogs
<1>2. TxInv /\ LockInv /\ OwnHeader /\ LogMatchesHeader
  BY DEF Init, TxInv, LockInv, OwnHeader, LogMatchesHeader, Open
<1>3. HeadInv /\ WholeOrSuperseded
  BY DEF Init, HeadInv, WholeOrSuperseded, NoHeads
<1> QED
  BY <1>1, <1>2, <1>3 DEF Inv

-----------------------------------------------------------------------------
(* The commit of p: the header and its log change together. *)
LEMMA ApplyFacts ==
  ASSUME Inv, NEW p \in Pushers, tx[p] = "filled", Apply(p)
  PROVE  LET v == pushing[p]
         IN  /\ v \in Versions
             /\ header'[v.bh] = v
             /\ \A b \in Boreholes : b # v.bh => header'[b] = header[b]
             /\ \A i \in v.log : interval'[i] = v
             /\ \A i \in Intervals \ v.log :
                  interval'[i] = IF i \in gone[p] THEN None ELSE interval[i]
             /\ \A i \in v.log : interval[i] = None \/ interval[i].bh = v.bh
             /\ header' \in [Boreholes -> Versions \union {None}]
             /\ interval' \in [Intervals -> Versions \union {None}]
<1> DEFINE v == pushing[p]
<1>1. v \in Versions
  BY DEF Inv, TxInv
<1>2. v.bh \in Boreholes /\ v.log \subseteq Intervals
  BY <1>1, VersionFacts
<1>3. \A i \in v.log : interval[i] = None \/ interval[i].bh = v.bh
  BY <1>2 DEF Inv, TxInv, LogOf
<1>4. /\ header' = [header EXCEPT ![v.bh] = v]
      /\ interval' = [i \in Intervals |->
           IF i \in v.log THEN v ELSE IF i \in gone[p] THEN None ELSE interval[i]]
  BY DEF Apply
<1> QED
  BY <1>1, <1>2, <1>3, <1>4 DEF Inv, TypeOK

(* The log of every other borehole stays as it is. *)
LEMMA OtherLogs ==
  ASSUME Inv, NEW p \in Pushers, tx[p] = "filled", Apply(p),
         NEW b \in Boreholes, b # pushing[p].bh
  PROVE  /\ LogOf(b)' = LogOf(b)
         /\ \A i \in LogOf(b) : interval'[i] = interval[i]
<1> DEFINE v == pushing[p]
<1>1. gone[p] = LogOf(v.bh)
  BY DEF Inv, TxInv
<1>2. \A i \in Intervals : i \in LogOf(b)' <=> i \in LogOf(b)
  <2> TAKE i \in Intervals
  <2>1. CASE i \in v.log
    BY <2>1, ApplyFacts DEF LogOf
  <2>2. CASE i \notin v.log
    BY <2>2, <1>1, ApplyFacts DEF LogOf
  <2> QED
    BY <2>1, <2>2
<1>3. \A i \in LogOf(b) : interval'[i] = interval[i]
  BY <1>1, ApplyFacts DEF LogOf
<1> QED
  BY <1>2, <1>3 DEF LogOf

LEMMA ApplyTables ==
  ASSUME Inv, NEW p \in Pushers, tx[p] = "filled", Apply(p)
  PROVE  OwnHeader' /\ LogMatchesHeader'
<1> DEFINE v == pushing[p]
<1>1. v \in Versions /\ v # None /\ v.bh \in Boreholes /\ v.log \subseteq Intervals
  BY ApplyFacts, VersionFacts
<1>2. OwnHeader'
  BY ApplyFacts DEF Inv, OwnHeader
<1>3. ASSUME NEW i \in Intervals, interval'[i] # None
      PROVE  interval'[i] = header'[interval'[i].bh] /\ i \in interval'[i].log
  <2>1. CASE i \in v.log
    BY <2>1, ApplyFacts
  <2>2. CASE i \notin v.log
    <3>1. interval'[i] = interval[i] /\ i \notin LogOf(v.bh)
      BY <2>2, <1>3, ApplyFacts DEF Inv, TxInv
    <3>2. interval[i].bh # v.bh /\ interval[i].bh \in Boreholes
      BY <3>1, <1>3, VersionFacts DEF LogOf, Inv, TypeOK
    <3> QED
      BY <3>1, <3>2, <1>3, ApplyFacts DEF Inv, LogMatchesHeader
  <2> QED
    BY <2>1, <2>2
<1>4. ASSUME NEW b \in Boreholes, header'[b] # None, NEW i \in header'[b].log
      PROVE  interval'[i] = header'[b]
  <2>1. CASE b = v.bh
    BY <2>1, <1>4, ApplyFacts
  <2>2. CASE b # v.bh
    <3>1. header'[b] = header[b] /\ interval[i] = header[b]
      BY <2>2, <1>4, ApplyFacts DEF Inv, LogMatchesHeader
    <3>2. i \in Intervals
      BY <3>1, <1>4, VersionFacts DEF Inv, TypeOK
    <3>3. i \in LogOf(b)
      BY <3>1, <3>2, <1>4 DEF LogOf, Inv, OwnHeader
    <3> QED
      BY <3>1, <3>3, <2>2, OtherLogs
  <2> QED
    BY <2>1, <2>2
<1> QED
  BY <1>2, <1>3, <1>4 DEF LogMatchesHeader

(* What other transactions know outlives the commit of p. *)
LEMMA ApplyOthers ==
  ASSUME Inv, NEW p \in Pushers, tx[p] = "filled", Apply(p), NEW w \in Verdicts, Finish(p, w)
  PROVE  TxInv' /\ LockInv'
<1>1. /\ tx'[p] = "idle"
      /\ \A q \in Pushers : q # p => /\ tx'[q] = tx[q] /\ pushing'[q] = pushing[q]
                                     /\ gone'[q] = gone[q] /\ verdict'[q] = verdict[q]
  BY DEF Finish, Inv, TypeOK
<1>2. LockInv'
  BY <1>1 DEF Inv, LockInv, Open
<1>3. ASSUME NEW q \in Pushers, q # p
      PROVE  /\ tx'[q] # "idle" => pushing'[q] \in Versions /\ verdict'[q] = "none"
             /\ Open(q)' => Wins(header[pushing[q].bh], pushing[q])'
             /\ tx'[q] \in {"cleared", "filled"} => gone'[q] = LogOf(pushing[q].bh)'
             /\ tx'[q] = "filled" =>
                  \A i \in pushing'[q].log : interval'[i] = None \/ i \in gone'[q]
  <2>1. tx'[q] # "idle" => pushing'[q] \in Versions /\ verdict'[q] = "none"
    BY <1>1, <1>3 DEF Inv, TxInv
  <2>2. Open(q) => pushing[q].bh # pushing[p].bh /\ pushing[q].bh \in Boreholes
    BY <1>3, VersionFacts DEF Inv, LockInv, TxInv, Open
  <2>3. Open(q)' => Wins(header[pushing[q].bh], pushing[q])'
    BY <1>1, <1>3, <2>2, ApplyFacts DEF Inv, TxInv, Open, Wins
  <2>4. tx'[q] \in {"cleared", "filled"} => gone'[q] = LogOf(pushing[q].bh)'
    BY <1>1, <1>3, <2>2, OtherLogs DEF Inv, TxInv, Open, LogOf
  <2>5. ASSUME tx'[q] = "filled", NEW i \in pushing'[q].log
        PROVE  interval'[i] = None \/ i \in gone'[q]
    <3>1. tx[q] = "filled" /\ i \in pushing[q].log /\ gone'[q] = gone[q]
      BY <2>5, <1>1, <1>3
    <3>2. interval[i] = None \/ i \in gone[q]
      BY <3>1 DEF Inv, TxInv
    <3>3. i \notin pushing[p].log /\ i \in Intervals
      BY <3>1, <1>3, VersionFacts DEF Inv, LockInv, TxInv
    <3> QED
      BY <3>1, <3>2, <3>3, ApplyFacts
  <2> QED
    BY <2>1, <2>3, <2>4, <2>5
<1>4. TxInv'
  BY <1>1, <1>3 DEF TxInv, Open
<1> QED
  BY <1>2, <1>4

LEMMA ApplyReaders ==
  ASSUME Inv, WholeOrSuperseded, NEW p \in Pushers, tx[p] = "filled", Apply(p), UNCHANGED reader
  PROVE  HeadInv' /\ WholeOrSuperseded'
<1>1. ASSUME NEW b \in Boreholes, header[b] # None
      PROVE  header'[b] # None /\ (header'[b] = header[b] \/ header'[b].ts > header[b].ts)
  <2>1. CASE b = pushing[p].bh
    <3>1. Wins(header[b], pushing[p])
      BY <2>1 DEF Inv, TxInv, Open
    <3>2. header'[b] = pushing[p] /\ pushing[p] # None
      BY <2>1, ApplyFacts, VersionFacts
    <3>3. header[b].ts \in Nat /\ pushing[p].ts \in Nat
      BY <1>1, ApplyFacts, VersionFacts DEF Inv, TypeOK
    <3> QED
      BY <3>1, <3>2, <3>3, <1>1 DEF Wins
  <2>2. CASE b # pushing[p].bh
    BY <2>2, <1>1, ApplyFacts
  <2> QED
    BY <2>1, <2>2
<1>2. \A r \in Pullers, b \in Boreholes : heads[r][b] # None =>
        header[b] # None /\ header[b].ts \in Nat /\ header'[b].ts \in Nat
           /\ heads[r][b].ts \in Nat
  <2> SUFFICES ASSUME NEW r \in Pullers, NEW b \in Boreholes, heads[r][b] # None
               PROVE  header[b] # None /\ header[b].ts \in Nat /\ header'[b].ts \in Nat
                         /\ heads[r][b].ts \in Nat
    OBVIOUS
  <2>1. header[b] # None
    BY DEF Inv, HeadInv
  <2>2. header[b] \in Versions /\ header'[b] \in Versions /\ heads[r][b] \in Versions
    BY <2>1, <1>1, ApplyFacts DEF Inv, TypeOK
  <2> QED
    BY <2>1, <2>2, VersionFacts
<1>3. HeadInv'
  BY <1>1, <1>2 DEF Inv, HeadInv, reader
<1>4. WholeOrSuperseded'
  <2> SUFFICES ASSUME NEW r \in Pullers, NEW b \in Boreholes, pull[r] = "done", heads[r][b] # None
               PROVE  (/\ \A i, j \in Pulled(r, b) : logs[r][b][i] = logs[r][b][j]
                       /\ \A i \in Pulled(r, b) : logs[r][b][i].ts >= heads[r][b].ts
                       /\ Whole(r, b) \/ header[b].ts > heads[r][b].ts)'
    BY DEF WholeOrSuperseded, reader
  <2>1. /\ Pulled(r, b)' = Pulled(r, b)
        /\ Whole(r, b)' = Whole(r, b)
    BY DEF Pulled, Whole, reader
  <2>2. Whole(r, b) \/ header[b].ts > heads[r][b].ts
    BY DEF WholeOrSuperseded
  <2>3. Whole(r, b) \/ header'[b].ts > heads[r][b].ts
    BY <2>2, <1>1, <1>2
  <2> QED
    BY <2>1, <2>3 DEF WholeOrSuperseded, reader
<1> QED
  BY <1>3, <1>4

LEMMA ApplyStep ==
  ASSUME Inv, WholeOrSuperseded, NEW p \in Pushers, tx[p] = "filled", Apply(p),
         NEW w \in Verdicts, Finish(p, w), UNCHANGED reader
  PROVE  Inv' /\ WholeOrSuperseded'
<1>1. TypeOK'
  BY ApplyFacts DEF Inv, TypeOK, Finish, reader, Verdicts
<1> QED
  BY <1>1, ApplyTables, ApplyOthers, ApplyReaders DEF Inv

-----------------------------------------------------------------------------
(* Steps that leave the tables alone. *)

(* What is said of the tables and the pulls stays. *)
LEMMA TablesStay ==
  ASSUME Inv, WholeOrSuperseded, UNCHANGED <<header, interval, reader>>
  PROVE  OwnHeader' /\ LogMatchesHeader' /\ HeadInv' /\ WholeOrSuperseded'
<1>1. OwnHeader' /\ LogMatchesHeader'
  BY DEF Inv, OwnHeader, LogMatchesHeader
<1>2. HeadInv'
  BY DEF Inv, HeadInv, reader
<1>3. WholeOrSuperseded'
  BY DEF WholeOrSuperseded, Pulled, Whole, reader
<1> QED
  BY <1>1, <1>2, <1>3

LEMMA FinishStep ==
  ASSUME Inv, WholeOrSuperseded, NEW p \in Pushers, NEW w \in Verdicts, Finish(p, w),
         UNCHANGED <<header, interval, reader>>
  PROVE  Inv' /\ WholeOrSuperseded'
<1>1. TypeOK'
  BY DEF Inv, TypeOK, Finish, reader, Verdicts
<1>2. /\ tx'[p] = "idle"
      /\ \A q \in Pushers : q # p => /\ tx'[q] = tx[q] /\ pushing'[q] = pushing[q]
                                     /\ gone'[q] = gone[q] /\ verdict'[q] = verdict[q]
  BY DEF Finish, Inv, TypeOK
<1>3. TxInv'
  BY <1>2 DEF Inv, TxInv, Open, LogOf, Wins
<1>4. LockInv'
  BY <1>2 DEF Inv, LockInv, Open
<1> QED
  BY <1>1, <1>3, <1>4, TablesStay DEF Inv

LEMMA BeginStep ==
  ASSUME Inv, WholeOrSuperseded, NEW p \in Pushers, NEW v \in Versions, NEW batch \in Projects,
         PushBorehole(p, v, batch)
  PROVE  Inv' /\ WholeOrSuperseded'
<1>1. CASE Valid(v, batch)
  <2>1. /\ tx'      = [tx EXCEPT ![p] = "begun"]
        /\ pushing' = [pushing EXCEPT ![p] = v]
        /\ verdict' = [verdict EXCEPT ![p] = "none"]
        /\ UNCHANGED <<gone, header, interval, reader>>
    BY <1>1 DEF PushBorehole
  <2>2. TypeOK'
    BY <2>1 DEF Inv, TypeOK, reader
  <2>3. TxInv'
    BY <2>1 DEF Inv, TypeOK, TxInv, Open, LogOf, Wins
  <2>4. LockInv'
    BY <2>1 DEF Inv, TypeOK, LockInv, Open
  <2> QED
    BY <2>1, <2>2, <2>3, <2>4, TablesStay DEF Inv
<1>2. CASE ~Valid(v, batch)
  BY <1>2, FinishStep DEF PushBorehole, Verdicts
<1> QED
  BY <1>1, <1>2

LEMMA UpsertStep ==
  ASSUME Inv, WholeOrSuperseded, NEW p \in Pushers, UpsertHeader(p)
  PROVE  Inv' /\ WholeOrSuperseded'
<1> DEFINE v == pushing[p]
<1>1. CASE Wins(header[v.bh], v) /\ Step(p, "begun", "upserted") /\ UNCHANGED <<pushing, gone, verdict>>
  <2>1. /\ tx[p] = "begun" /\ tx' = [tx EXCEPT ![p] = "upserted"]
        /\ UNCHANGED <<pushing, gone, verdict, header, interval, reader>>
        /\ \A q \in Pushers : Open(q) => pushing[q].bh # v.bh
    BY <1>1 DEF UpsertHeader, Step, Holding, Open
  <2>2. TypeOK'
    BY <2>1 DEF Inv, TypeOK, reader
  <2>3. TxInv'
    BY <2>1, <1>1 DEF Inv, TypeOK, TxInv, Open, LogOf, Wins
  <2>4. LockInv'
    BY <2>1 DEF Inv, TypeOK, LockInv, Open
  <2> QED
    BY <2>1, <2>2, <2>3, <2>4, TablesStay DEF Inv
<1>2. CASE ~Wins(header[v.bh], v) /\ Finish(p, "STALE")
  BY <1>2, FinishStep DEF UpsertHeader, Verdicts
<1> QED
  BY <1>1, <1>2 DEF UpsertHeader

LEMMA ClearStep ==
  ASSUME Inv, WholeOrSuperseded, NEW p \in Pushers, ClearLog(p)
  PROVE  Inv' /\ WholeOrSuperseded'
<1>1. /\ tx[p] = "upserted" /\ tx' = [tx EXCEPT ![p] = "cleared"]
      /\ gone' = [gone EXCEPT ![p] = LogOf(pushing[p].bh)]
      /\ UNCHANGED <<pushing, verdict, header, interval, reader>>
  BY DEF ClearLog, Step, OldLog
<1>2. TypeOK'
  BY <1>1 DEF Inv, TypeOK, reader, LogOf
<1>3. TxInv'
  BY <1>1 DEF Inv, TypeOK, TxInv, Open, LogOf, Wins
<1>4. LockInv'
  BY <1>1 DEF Inv, TypeOK, LockInv, Open
<1> QED
  BY <1>1, <1>2, <1>3, <1>4, TablesStay DEF Inv

LEMMA InsertStep ==
  ASSUME Inv, WholeOrSuperseded, NEW p \in Pushers, InsertLog(p)
  PROVE  Inv' /\ WholeOrSuperseded'
<1>1. /\ tx[p] = "cleared" /\ tx' = [tx EXCEPT ![p] = "filled"]
      /\ UNCHANGED <<pushing, gone, verdict, header, interval, reader>>
      /\ \A i \in pushing[p].log : interval[i] = None \/ i \in gone[p]
      /\ \A q \in Pushers \ {p} : tx[q] = "filled" => pushing[p].log \cap pushing[q].log = {}
  BY DEF InsertLog, Step, Contended
<1>2. TypeOK'
  BY <1>1 DEF Inv, TypeOK, reader
<1>3. TxInv'
  BY <1>1 DEF Inv, TypeOK, TxInv, Open, LogOf, Wins
<1>4. LockInv'
  BY <1>1 DEF Inv, TypeOK, LockInv, Open
<1> QED
  BY <1>1, <1>2, <1>3, <1>4, TablesStay DEF Inv

-----------------------------------------------------------------------------
(* The steps of a pull. *)

LEMMA PullTables ==
  ASSUME Inv, UNCHANGED <<header, interval, push>>
  PROVE  TxInv' /\ LockInv' /\ OwnHeader' /\ LogMatchesHeader'
<1>1. TxInv'
  BY DEF Inv, TxInv, Open, LogOf, Wins, push
<1>2. LockInv'
  BY DEF Inv, LockInv, Open, push
<1>3. OwnHeader' /\ LogMatchesHeader'
  BY DEF Inv, OwnHeader, LogMatchesHeader
<1> QED
  BY <1>1, <1>2, <1>3

LEMMA StartStep ==
  ASSUME Inv, WholeOrSuperseded, NEW r \in Pullers, NEW pr \in Projects, NEW c \in Cursors,
         StartPull(r, pr, c)
  PROVE  Inv' /\ WholeOrSuperseded'
<1>1. TypeOK'
  BY BoreholeAssumption DEF Inv, TypeOK, StartPull, push, NoHeads, NoLogs
<1>2. HeadInv'
  BY DEF Inv, TypeOK, HeadInv, StartPull, NoHeads
<1>3. WholeOrSuperseded'
  BY DEF Inv, TypeOK, WholeOrSuperseded, Pulled, Whole, StartPull, NoHeads
<1> QED
  BY <1>1, <1>2, <1>3, PullTables DEF Inv, StartPull

LEMMA HeadersStep ==
  ASSUME Inv, WholeOrSuperseded, NEW r \in Pullers, ReadHeaders(r)
  PROVE  Inv' /\ WholeOrSuperseded'
<1> DEFINE read == [b \in Boreholes |-> IF InDelta(r, b) THEN header[b] ELSE None]
<1>1. /\ pull[r] = "headers" /\ heads' = [heads EXCEPT ![r] = read]
      /\ pull' = [pull EXCEPT ![r] = IF read = NoHeads THEN "done" ELSE "intervals"]
      /\ UNCHANGED <<header, interval, push, since, project, logs>>
  BY DEF ReadHeaders
<1>2. TypeOK'
  BY <1>1 DEF Inv, TypeOK, push
<1>3. HeadInv'
  BY <1>1 DEF Inv, TypeOK, HeadInv, InDelta
<1>4. WholeOrSuperseded'
  <2>1. pull'[r] = "done" => \A b \in Boreholes : heads'[r][b] = None
    BY <1>1 DEF Inv, TypeOK, NoHeads
  <2>2. \A q \in Pullers : q # r => pull'[q] = pull[q] /\ heads'[q] = heads[q]
    BY <1>1 DEF Inv, TypeOK
  <2> QED
    BY <1>1, <2>1, <2>2 DEF WholeOrSuperseded, Pulled, Whole
<1> QED
  BY <1>1, <1>2, <1>3, <1>4, PullTables DEF Inv

LEMMA IntervalsStep ==
  ASSUME Inv, WholeOrSuperseded, NEW r \in Pullers, ReadIntervals(r)
  PROVE  Inv' /\ WholeOrSuperseded'
<1> DEFINE read == [b \in Boreholes |-> [i \in Intervals |->
                      IF heads[r][b] # None /\ i \in LogOf(b) /\ Joined(r, b)
                        THEN interval[i] ELSE None]]
<1>1. /\ pull[r] = "intervals" /\ logs' = [logs EXCEPT ![r] = read]
      /\ pull' = [pull EXCEPT ![r] = "done"]
      /\ UNCHANGED <<header, interval, push, since, project, heads>>
  BY DEF ReadIntervals
<1>2. TypeOK'
  BY <1>1 DEF Inv, TypeOK, push
<1>3. HeadInv'
  BY <1>1 DEF Inv, TypeOK, HeadInv
<1>4. ASSUME NEW b \in Boreholes, heads[r][b] # None
      PROVE  (/\ \A i, j \in Pulled(r, b) : logs[r][b][i] = logs[r][b][j]
              /\ \A i \in Pulled(r, b) : logs[r][b][i].ts >= heads[r][b].ts
              /\ Whole(r, b) \/ header[b].ts > heads[r][b].ts)'
  <2>1. /\ header[b] \in Versions /\ heads[r][b] \in Versions /\ header[b] # None
        /\ header[b] = heads[r][b] \/ header[b].ts > heads[r][b].ts
    BY <1>4 DEF Inv, TypeOK, HeadInv
  <2>2. header[b].ts \in Nat /\ heads[r][b].ts \in Nat /\ header[b].log \subseteq Intervals
    BY <2>1, VersionFacts
  <2>3. LogOf(b) = header[b].log /\ \A i \in LogOf(b) : interval[i] = header[b]
    BY <2>1, <2>2 DEF LogOf, Inv, LogMatchesHeader, OwnHeader
  <2>4. Pulled(r, b)' = IF Joined(r, b) THEN LogOf(b) ELSE {}
    BY <1>1, <1>4, <2>1, <2>3 DEF Pulled, LogOf, Inv, TypeOK
  <2>5. \A i \in Pulled(r, b)' : logs'[r][b][i] = header[b]
    BY <1>1, <1>4, <2>3, <2>4 DEF LogOf, Inv, TypeOK
  <2>6. header[b] = heads[r][b] => Joined(r, b)
    BY <2>1, <1>4 DEF Joined, InDelta, Inv, HeadInv
  <2>7. Whole(r, b)' \/ header[b].ts > heads[r][b].ts
    BY <1>1, <2>1, <2>3, <2>4, <2>5, <2>6 DEF Whole
  <2> QED
    BY <1>1, <2>1, <2>2, <2>5, <2>7
<1>5. WholeOrSuperseded'
  <2>1. \A q \in Pullers : q # r => pull'[q] = pull[q] /\ logs'[q] = logs[q]
    BY <1>1 DEF Inv, TypeOK
  <2>2. ASSUME NEW q \in Pullers, q # r, NEW b \in Boreholes, pull'[q] = "done", heads'[q][b] # None
        PROVE  (/\ \A i, j \in Pulled(q, b) : logs[q][b][i] = logs[q][b][j]
                /\ \A i \in Pulled(q, b) : logs[q][b][i].ts >= heads[q][b].ts
                /\ Whole(q, b) \/ header[b].ts > heads[q][b].ts)'
    BY <1>1, <2>1, <2>2 DEF WholeOrSuperseded, Pulled, Whole
  <2> QED
    BY <1>1, <1>4, <2>2 DEF WholeOrSuperseded
<1> QED
  BY <1>1, <1>2, <1>3, <1>5, PullTables DEF Inv

-----------------------------------------------------------------------------
LEMMA NextInv == Inv /\ WholeOrSuperseded /\ [Next]_vars => Inv' /\ WholeOrSuperseded'
<1> SUFFICES ASSUME Inv, WholeOrSuperseded, [Next]_vars PROVE Inv' /\ WholeOrSuperseded'
  OBVIOUS
<1>1. ASSUME NEW p \in Pushers, NEW v \in Versions, NEW batch \in Projects,
             PushBorehole(p, v, batch)
      PROVE  Inv' /\ WholeOrSuperseded'
  BY <1>1, BeginStep
<1>2. ASSUME NEW p \in Pushers, UpsertHeader(p) PROVE Inv' /\ WholeOrSuperseded'
  BY <1>2, UpsertStep
<1>3. ASSUME NEW p \in Pushers, ClearLog(p) PROVE Inv' /\ WholeOrSuperseded'
  BY <1>3, ClearStep
<1>4. ASSUME NEW p \in Pushers, InsertLog(p) PROVE Inv' /\ WholeOrSuperseded'
  BY <1>4, InsertStep
<1>5. ASSUME NEW p \in Pushers, Commit(p) PROVE Inv' /\ WholeOrSuperseded'
  <2>1. Resolve(header[pushing[p].bh]) \in Verdicts
    BY DEF Resolve, Verdicts, Accepted
  <2> QED
    BY <1>5, <2>1, ApplyStep DEF Commit
<1>6. ASSUME NEW p \in Pushers, Fail(p) PROVE Inv' /\ WholeOrSuperseded'
  <2>1. "REJECTED" \in Verdicts
    BY DEF Verdicts
  <2> QED
    BY <1>6, <2>1, ApplyStep, FinishStep DEF Fail
<1>7. ASSUME NEW r \in Pullers, NEW pr \in Projects, NEW c \in Cursors, StartPull(r, pr, c)
      PROVE  Inv' /\ WholeOrSuperseded'
  BY <1>7, StartStep
<1>8. ASSUME NEW r \in Pullers, ReadHeaders(r) PROVE Inv' /\ WholeOrSuperseded'
  BY <1>8, HeadersStep
<1>9. ASSUME NEW r \in Pullers, ReadIntervals(r) PROVE Inv' /\ WholeOrSuperseded'
  BY <1>9, IntervalsStep
<1>10. CASE UNCHANGED vars
  <2>1. TypeOK'
    BY <1>10 DEF Inv, TypeOK, vars, push, reader
  <2> QED
    BY <1>10, <2>1, PullTables, TablesStay DEF Inv, vars
<1> QED
  BY <1>1, <1>2, <1>3, <1>4, <1>5, <1>6, <1>7, <1>8, <1>9, <1>10 DEF Next

LEMMA Invariance == Spec => [](Inv /\ WholeOrSuperseded)
BY InitInv, NextInv, PTL DEF Spec

(* The types of the borehole model. *)
THEOREM TypeCorrect == Spec => []TypeOK
BY Invariance, PTL DEF Inv

(* The tables never hold half a log: the interval rows of a borehole are     *)
(* those of the version in its header, for any versions and interleavings.   *)
THEOREM LogsAreWhole == Spec => []LogMatchesHeader
BY Invariance, PTL DEF Inv

(* A finished pull holds the log of one version, the header's own unless the *)
(* server already has a later one.                                           *)
THEOREM PullsAreWholeOrOld == Spec => []WholeOrSuperseded
BY Invariance, PTL

-----------------------------------------------------------------------------
LEMMA VerdictStep ==
  ASSUME Inv, [Next]_vars, NEW p \in Pushers, tx[p] # "idle",
         verdict'[p] \in Accepted \union {"STALE"}
  PROVE  header'[pushing[p].bh] # None /\ header'[pushing[p].bh].ts >= pushing[p].ts
<1> DEFINE v == pushing[p]
<1>1. /\ v \in Versions /\ v # None /\ v.bh \in Boreholes /\ v.ts \in Nat
      /\ verdict[p] = "none"
  BY VersionFacts DEF Inv, TxInv
<1>2. verdict'[p] # verdict[p] /\ verdict'[p] # "REJECTED"
  BY <1>1 DEF Accepted
<1>3. ASSUME NEW q \in Pushers, NEW w, Finish(q, w) PROVE q = p /\ verdict'[p] = w
  BY <1>2, <1>3 DEF Finish, Inv, TypeOK
<1>4. CASE Commit(p)
  <2>1. header'[v.bh] = v
    BY <1>4, ApplyFacts DEF Commit
  <2> QED
    BY <2>1, <1>1
<1>5. CASE UpsertHeader(p)
  <2>1. ~Wins(header[v.bh], v) /\ UNCHANGED header
    BY <1>5, <1>2 DEF UpsertHeader
  <2>2. header[v.bh] # None /\ header[v.bh] \in Versions
    BY <2>1, <1>1 DEF Wins, Inv, TypeOK
  <2> QED
    BY <2>1, <2>2, <1>1, VersionFacts DEF Wins
<1>6. ASSUME NEW q \in Pushers, NEW u \in Versions, NEW batch \in Projects,
             PushBorehole(q, u, batch)
      PROVE  FALSE
  <2>1. CASE Finish(q, "REJECTED")
    BY <2>1, <1>2, <1>3
  <2>2. CASE verdict' = [verdict EXCEPT ![q] = "none"]
    BY <2>2, <1>1, <1>2 DEF Inv, TypeOK
  <2> QED
    BY <1>6, <2>1, <2>2 DEF PushBorehole
<1>7. ASSUME NEW q \in Pushers, UpsertHeader(q) \/ Commit(q) PROVE q = p
  BY <1>2, <1>3, <1>7 DEF UpsertHeader, Commit
<1>8. ASSUME NEW q \in Pushers, Fail(q) PROVE FALSE
  BY <1>2, <1>3, <1>8 DEF Fail
<1>9. ASSUME UNCHANGED verdict PROVE FALSE
  BY <1>2, <1>9
<1> QED
  BY <1>4, <1>5, <1>6, <1>7, <1>8, <1>9
     DEF Next, vars, push, ClearLog, InsertLog, StartPull, ReadHeaders, ReadIntervals

(* By the step that accepts a version or calls it stale, the header holds it *)
(* or one it lost to: the device may forget its copy.                        *)
THEOREM VerdictsCanBeTrusted == Spec => VerdictsAreSafe
<1>1. Inv /\ [Next]_vars =>
        [\A p \in Pushers :
           tx[p] # "idle" /\ verdict'[p] \in Accepted \union {"STALE"} =>
             header'[pushing[p].bh] # None /\ header'[pushing[p].bh].ts >= pushing[p].ts]_vars
  BY VerdictStep
<1> QED
  BY <1>1, Invariance, PTL DEF Spec, VerdictsAreSafe

-----------------------------------------------------------------------------
Stamped(h) == [b \in Boreholes |-> IF h[b] = None THEN [ts |-> 0] ELSE h[b]]

LEMMA RegisterStep ==
  ASSUME Inv, NEW p \in Pushers, tx[p] = "filled", Apply(p),
         NEW b \in Boreholes, b = pushing[p].bh
  PROVE  Headers!Overwrite(b)
<1> DEFINE v == pushing[p]
<1>1. v \in Versions /\ v # None /\ v.bh \in Boreholes /\ v.ts \in Nat /\ v.ts > 0
  BY ApplyFacts, VersionFacts
<1>2. header' = [header EXCEPT ![v.bh] = v] /\ header \in [Boreholes -> Versions \union {None}]
  BY DEF Apply, Inv, TypeOK
<1>3. Stamped(header') = [Stamped(header) EXCEPT ![v.bh] = v]
  BY <1>1, <1>2 DEF Stamped
<1>4. Stamped(header')[v.bh] = v
  BY <1>1, <1>2 DEF Stamped
<1>5. v.ts > Stamped(header)[v.bh].ts
  <2>1. CASE header[v.bh] = None
    BY <2>1, <1>1 DEF Stamped
  <2>2. CASE header[v.bh] # None
    BY <2>2, <1>1, <1>2, VersionFacts DEF Stamped, Inv, TxInv, Open, Wins
  <2> QED
    BY <2>1, <2>2
<1> QED
  BY <1>1, <1>3, <1>4, <1>5 DEF Headers!Overwrite, Headers!Later, Stamped

LEMMA HeadersStay == ASSUME UNCHANGED header PROVE [Headers!Next]_(Stamped(header))
BY DEF Stamped

(* The headers implement last-write-wins registers, although a version is    *)
(* judged when its header is upserted and appears when it commits.           *)
THEOREM HeadersImplementRegisters == Spec => HeadersAreRegisters
<1>1. Init => Headers!Init
  BY DEF Init, Headers!Init
<1>2. Inv /\ [Next]_vars => [Headers!Next]_(Stamped(header))
  <2> SUFFICES ASSUME Inv, [Next]_vars PROVE [Headers!Next]_(Stamped(header))
    OBVIOUS
  <2>1. ASSUME NEW p \in Pushers, tx[p] = "filled", Apply(p)
        PROVE  Headers!Next
    <3>1. PICK b \in Boreholes : b = pushing[p].bh
      BY <2>1, ApplyFacts, VersionFacts
    <3> QED
      BY <2>1, <3>1, RegisterStep DEF Headers!Next
  <2>2. \/ UNCHANGED header
        \/ \E p \in Pushers : tx[p] = "filled" /\ Apply(p)
    BY DEF Next, vars, PushBorehole, UpsertHeader, ClearLog, InsertLog, Commit, Fail,
           StartPull, ReadHeaders, ReadIntervals
  <2> QED
    BY <2>1, <2>2, HeadersStay
<1> QED
  BY <1>1, <1>2, Invariance, PTL DEF Spec, HeadersAreRegisters, Headers!Spec, Stamped
=============================================================================
