--------------------------- MODULE TriggersProofs ---------------------------
(***************************************************************************)
(* Theorems about Triggers for every catalog, every number of instances,    *)
(* requests and runs: a table trigger launches its flow alone, instances do *)
(* not tick together before the lock is contested, an active run has its    *)
(* process, and a mark is covered by a launch.                              *)
(* Each rests on what the session that is writing keeps from the others:    *)
(* flushed marks keep every other writer out, and the lock row names the    *)
(* one instance that ticks until a heartbeat goes stale.                    *)
(***************************************************************************)
EXTENDS Triggers, TLAPS

-----------------------------------------------------------------------------
(* Jobs. *)

InHand == {"check", "mark", "insert", "spawn", "cursor"}

(* What a job at a place carries. *)
JobFits(a) == /\ job[a].stamp <= clock
              /\ job[a].at \in InHand => job[a].sched \in Schedules
              /\ job[a].at = "spawn" => job[a].row \in Runs

Typed == TypeOK /\ \A a \in Actors : JobFits(a)

LEMMA KnownPlaces ==
    /\ "idle" \in Places /\ "lock" \in Places /\ "tick" \in Places /\ "check" \in Places
    /\ "push" \in Places /\ "mark" \in Places /\ "insert" \in Places
    /\ "spawn" \in Places /\ "cursor" \in Places /\ "done" \in Places
BY DEF Places

(* The updates of a job, field by field. *)
LEMMA JobAt ==
    ASSUME NEW x \in Job, NEW p \in Places
    PROVE LET y == [x EXCEPT !.at = p]
          IN  /\ y \in Job /\ y.at = p /\ y.plan = x.plan /\ y.todo = x.todo
              /\ y.sched = x.sched /\ y.stamp = x.stamp /\ y.row = x.row
BY DEF Job

LEMMA JobTodo ==
    ASSUME NEW x \in Job, NEW d \in SUBSET Schedules
    PROVE LET y == [x EXCEPT !.todo = d]
          IN  /\ y \in Job /\ y.at = x.at /\ y.plan = x.plan /\ y.todo = d
              /\ y.sched = x.sched /\ y.stamp = x.stamp /\ y.row = x.row
BY DEF Job

LEMMA JobOnward ==
    ASSUME NEW a \in Actors, job[a] \in Job
    PROVE LET y == Onward(a)
          IN  /\ y \in Job /\ y.at = (IF a \in Instances THEN "tick" ELSE "push")
              /\ y.todo = job[a].todo /\ y.stamp \in {0, job[a].stamp}
              /\ a \in Requests => y.stamp = job[a].stamp
<1> DEFINE p == IF a \in Instances THEN "tick" ELSE "push"
           n == IF a \in Instances THEN 0 ELSE job[a].stamp
<1>1. Onward(a) = [job[a] EXCEPT !.at = p, !.sched = None, !.row = None, !.stamp = n]
  BY DEF Onward
<1>2. p \in Places /\ n \in Nat
  BY KnownPlaces DEF Job
<1> HIDE DEF p, n
<1>3. /\ Onward(a) \in Job /\ Onward(a).at = p /\ Onward(a).todo = job[a].todo
      /\ Onward(a).stamp = n
  BY <1>1, <1>2 DEF Job
<1> QED BY <1>3, NamesAssumption DEF p, n

LEMMA JobIdle ==
    /\ IdleJob \in Job /\ IdleJob.at = "idle" /\ IdleJob.stamp = 0 /\ IdleJob.todo = {}
    /\ IdleJob.row = None
BY KnownPlaces DEF IdleJob, Job

LEMMA JobStart ==
    /\ \A p \in {"add", "refresh", "takeover"} :
         LET y == [IdleJob EXCEPT !.at = "lock", !.plan = p]
         IN  y \in Job /\ y.at = "lock" /\ y.plan = p /\ y.stamp = 0
    /\ LET y == [IdleJob EXCEPT !.at = "tick", !.todo = Schedules]
       IN  y \in Job /\ y.at = "tick" /\ y.stamp = 0
    /\ LET y == [IdleJob EXCEPT !.at = "done"]
       IN  y \in Job /\ y.at = "done" /\ y.stamp = 0
    /\ \A n \in Nat, d \in SUBSET Schedules :
         LET y == [IdleJob EXCEPT !.at = "push", !.stamp = n, !.todo = d]
         IN  y \in Job /\ y.at = "push" /\ y.stamp = n /\ y.todo = d
    /\ \A s \in Schedules :
         LET y == [IdleJob EXCEPT !.at = "insert", !.sched = s]
         IN  y \in Job /\ y.at = "insert" /\ y.stamp = 0 /\ y.sched = s
BY KnownPlaces DEF IdleJob, Job

-----------------------------------------------------------------------------
(* What each action does to the job of the actor that takes it. *)

Moves(a) == job' \in [Actors -> Job] /\ \A b \in Actors \ {a} : job'[b] = job[b]

LEMMA MovesTo ==
    ASSUME job \in [Actors -> Job], NEW a \in Actors, NEW x \in Job, job' = [job EXCEPT ![a] = x]
    PROVE Moves(a) /\ job'[a] = x
BY DEF Moves

LEMMA TypedParts ==
    ASSUME Typed
    PROVE /\ job \in [Actors -> Job] /\ clock \in Nat
          /\ Instances \subseteq Actors /\ Requests \subseteq Actors
          /\ \A a \in Actors : /\ job[a] \in Job /\ job[a].stamp \in Nat /\ job[a].at \in Places
                              /\ job[a].todo \subseteq Schedules /\ JobFits(a)
          /\ setup \in Setups /\ setup.seconds \in Nat
<1>1. setup \in Setups /\ setup.seconds \in Nat
  BY SetupsAssumption DEF Typed, TypeOK
<1>2. clock \in Nat
  BY <1>1 DEF Typed, TypeOK
<1>3. \A a \in Actors : job[a] \in Job
  BY DEF Typed, TypeOK
<1>4. \A x \in Job : x.stamp \in Nat /\ x.at \in Places /\ x.todo \subseteq Schedules
  BY DEF Job
<1> QED BY <1>1, <1>2, <1>3, <1>4 DEF Typed, TypeOK, Actors

LEMMA FitsAgain ==
    ASSUME Typed, NEW a \in Actors, Moves(a), clock' = clock,
           job'[a].stamp <= clock,
           job'[a].at \in InHand => job'[a].sched \in Schedules,
           job'[a].at = "spawn" => job'[a].row \in Runs
    PROVE \A b \in Actors : JobFits(b)'
<1> TAKE b \in Actors
<1>1. CASE b = a
  BY <1>1 DEF JobFits
<1>2. CASE b # a
  <2>1. job'[b] = job[b]
    BY <1>2 DEF Moves
  <2> QED BY <2>1 DEF Typed, JobFits
<1> QED BY <1>1, <1>2

LEMMA ReadLockMoves ==
    ASSUME Typed, NEW i \in Instances, ReadLock(i)
    PROVE /\ Moves(i) /\ job'[i].at = "lock" /\ job'[i].stamp = 0
          /\ job'[i].plan = (IF lock.holder = None THEN "add"
                             ELSE IF lock.holder = i THEN "refresh" ELSE "takeover")
<1> DEFINE p == IF lock.holder = None THEN "add"
                ELSE IF lock.holder = i THEN "refresh" ELSE "takeover"
           x == [IdleJob EXCEPT !.at = "lock", !.plan = p]
<1>1. p \in {"add", "refresh", "takeover"}
  OBVIOUS
<1>2. job' = [job EXCEPT ![i] = x]
  BY DEF ReadLock
<1> HIDE DEF p
<1>3. x \in Job /\ x.at = "lock" /\ x.plan = p /\ x.stamp = 0
  BY <1>1, JobStart
<1> HIDE DEF x
<1>4. Moves(i) /\ job'[i] = x
  BY <1>2, <1>3, MovesTo, TypedParts
<1> QED BY <1>3, <1>4 DEF p

LEMMA CommitLockMoves ==
    ASSUME Typed, NEW i \in Instances, CommitLock(i)
    PROVE /\ Moves(i) /\ job'[i].at \in {"tick", "idle"} /\ job'[i].stamp = 0
          /\ job'[i].at = "tick" <=> ((job[i].plan = "add") <=> (lock.holder = None))
<1> DEFINE x == [IdleJob EXCEPT !.at = "tick", !.todo = Schedules]
<1>0. x \in Job /\ x.at = "tick" /\ x.stamp = 0
  BY JobStart
<1>1. CASE (job[i].plan = "add") <=> (lock.holder = None)
  <2>1. job' = [job EXCEPT ![i] = x]
    BY <1>1 DEF CommitLock
  <2> HIDE DEF x
  <2>2. Moves(i) /\ job'[i] = x
    BY <1>0, <2>1, MovesTo, TypedParts
  <2> QED BY <1>0, <1>1, <2>2
<1>2. CASE ~((job[i].plan = "add") <=> (lock.holder = None))
  <2>1. job' = [job EXCEPT ![i] = IdleJob]
    BY <1>2 DEF CommitLock
  <2>2. Moves(i) /\ job'[i] = IdleJob
    BY <2>1, JobIdle, MovesTo, TypedParts
  <2> QED BY <1>2, <2>2, JobIdle
<1> QED BY <1>1, <1>2

LEMMA StampIsPast ==
    ASSUME Typed, NEW s \in Schedules
    PROVE /\ StampOf(s) \in 0 .. clock
          /\ IsTable(s) => /\ StampOf(s) \in 1 .. clock
                           /\ \E t \in Tables : /\ setup.watched[s] = {t}
                                                /\ StampOf(s) = updated[t]
<1>1. clock \in Nat /\ setup \in Setups /\ updated \in [Tables -> 1 .. clock] /\ clock >= 1
  BY TypedParts DEF Typed, TypeOK
<1>2. CASE IsTable(s)
  <2>1. PICK t \in Tables : setup.watched[s] = {t}
    BY <1>1, <1>2, SetupsAssumption DEF IsTable, Kind
  <2>2. (CHOOSE y \in Tables : Watches(s, y)) = t
    BY <2>1 DEF Watches
  <2>3. StampOf(s) = updated[t]
    BY <1>2, <2>2 DEF StampOf, IsTable
  <2> QED BY <1>1, <2>1, <2>3
<1>3. CASE ~IsTable(s)
  <2>1. StampOf(s) = clock
    BY <1>3 DEF StampOf, IsTable
  <2> QED BY <1>1, <1>3, <2>1
<1> QED BY <1>2, <1>3

LEMMA EvaluateMoves ==
    ASSUME Typed, NEW i \in Instances, NEW s \in Schedules, Evaluate(i, s)
    PROVE /\ Moves(i)
          /\ \/ job'[i].at = "check" /\ job'[i].sched = s /\ job'[i].stamp = StampOf(s)
             \/ job'[i].at = "tick" /\ job'[i].stamp = job[i].stamp
<1> DEFINE d == job[i].todo \ {s}
           x == [job[i] EXCEPT !.at = "check", !.todo = d, !.sched = s, !.stamp = StampOf(s)]
           y == [job[i] EXCEPT !.todo = d]
<1>1. i \in Actors /\ job \in [Actors -> Job] /\ job[i] \in Job /\ d \in SUBSET Schedules
      /\ StampOf(s) \in Nat
  BY TypedParts, StampIsPast
<1>2. job' = [job EXCEPT ![i] = IF Due(s) THEN x ELSE y] /\ job[i].at = "tick"
  BY <1>1 DEF Evaluate
<1>3. x \in Job /\ x.at = "check" /\ x.sched = s /\ x.stamp = StampOf(s)
  BY <1>1, KnownPlaces DEF Job
<1>4. y \in Job /\ y.at = job[i].at /\ y.stamp = job[i].stamp
  BY <1>1, JobTodo
<1> HIDE DEF x, y
<1>5. CASE Due(s)
  <2>1. Moves(i) /\ job'[i] = x
    BY <1>1, <1>2, <1>3, <1>5, MovesTo
  <2> QED BY <1>3, <2>1
<1>6. CASE ~Due(s)
  <2>1. Moves(i) /\ job'[i] = y
    BY <1>1, <1>2, <1>4, <1>6, MovesTo
  <2> QED BY <1>2, <1>4, <2>1
<1> QED BY <1>5, <1>6

LEMMA CheckActiveMoves ==
    ASSUME Typed, NEW i \in Instances, CheckActive(i)
    PROVE /\ Moves(i)
          /\ \/ job'[i].at = "tick" /\ job'[i].stamp \in {0, job[i].stamp}
             \/ /\ job'[i].at = "insert" /\ job'[i].sched = job[i].sched
                /\ job'[i].stamp = job[i].stamp
                /\ ~HasActiveRun(Flow(job[i].sched))
<1> DEFINE x == [job[i] EXCEPT !.at = "insert"]
<1>1. i \in Actors /\ job \in [Actors -> Job] /\ job[i] \in Job
  BY TypedParts
<1>2. x \in Job /\ x.at = "insert" /\ x.stamp = job[i].stamp /\ x.sched = job[i].sched
  BY <1>1, JobAt, KnownPlaces
<1>3. Onward(i) \in Job /\ Onward(i).at = "tick" /\ Onward(i).stamp \in {0, job[i].stamp}
  BY <1>1, JobOnward
<1>4. job' = [job EXCEPT ![i] = IF HasActiveRun(Flow(job[i].sched)) THEN Onward(i) ELSE x]
  BY <1>1 DEF CheckActive
<1> HIDE DEF x
<1>5. CASE HasActiveRun(Flow(job[i].sched))
  BY <1>1, <1>3, <1>4, <1>5, MovesTo
<1>6. CASE ~HasActiveRun(Flow(job[i].sched))
  BY <1>1, <1>2, <1>4, <1>6, MovesTo
<1> QED BY <1>5, <1>6

LEMMA IdleMoves ==
    ASSUME Typed, NEW i \in Actors, job' = [job EXCEPT ![i] = IdleJob]
    PROVE Moves(i) /\ job'[i].at = "idle" /\ job'[i].stamp = 0
<1>1. Moves(i) /\ job'[i] = IdleJob
  BY JobIdle, MovesTo, TypedParts
<1> QED BY <1>1, JobIdle

LEMMA OnwardMoves ==
    ASSUME Typed, NEW a \in Actors, job' = [job EXCEPT ![a] = Onward(a)]
    PROVE /\ Moves(a) /\ job'[a].stamp \in {0, job[a].stamp}
          /\ a \in Instances => job'[a].at = "tick"
          /\ a \in Requests => job'[a].at = "push" /\ job'[a].stamp = job[a].stamp
          /\ job'[a].todo = job[a].todo
<1>1. job[a] \in Job
  BY TypedParts
<1>2. Moves(a) /\ job'[a] = Onward(a)
  BY <1>1, JobOnward, MovesTo, TypedParts
<1> QED BY <1>1, <1>2, JobOnward, NamesAssumption

LEMMA OverwriteMoves ==
    ASSUME Typed, NEW r \in Requests, NEW t \in Tables, Overwrite(r, t)
    PROVE /\ Moves(r) /\ job'[r].at = "push" /\ job'[r].stamp = clock
          /\ \A s \in job'[r].todo : s \in Schedules /\ IsTable(s) /\ Watches(s, t)
<1> DEFINE d == {s \in Schedules : Kind(s) = "table" /\ Watches(s, t)}
           x == [IdleJob EXCEPT !.at = "push", !.stamp = clock, !.todo = d]
<1>1. clock \in Nat /\ d \in SUBSET Schedules
  BY TypedParts
<1>2. x \in Job /\ x.at = "push" /\ x.stamp = clock /\ x.todo = d
  BY <1>1, JobIdle, KnownPlaces DEF Job
<1>3. job' = [job EXCEPT ![r] = x]
  BY DEF Overwrite
<1> HIDE DEF x
<1>4. Moves(r) /\ job'[r] = x
  BY <1>2, <1>3, MovesTo, TypedParts
<1> QED BY <1>2, <1>4 DEF IsTable

LEMMA PushCheckMoves ==
    ASSUME Typed, NEW r \in Requests, NEW s \in Schedules, PushCheck(r, s)
    PROVE /\ Moves(r) /\ job'[r].todo \subseteq job[r].todo /\ job'[r].stamp = job[r].stamp
          /\ \/ job'[r].at = "push"
             \/ job'[r].at = "mark" /\ job'[r].sched = s /\ s \in job[r].todo
<1> DEFINE d == job[r].todo \ {s}
           x == [job[r] EXCEPT !.at = "mark", !.todo = d, !.sched = s]
           y == [job[r] EXCEPT !.todo = d]
<1>1. r \in Actors /\ job \in [Actors -> Job] /\ job[r] \in Job /\ d \in SUBSET Schedules
  BY TypedParts
<1>2. /\ job' = [job EXCEPT ![r] = IF HasActiveRun(Flow(s)) THEN y ELSE x]
      /\ job[r].at = "push" /\ s \in job[r].todo
  BY <1>1 DEF PushCheck
<1>3. x \in Job /\ x.at = "mark" /\ x.sched = s /\ x.stamp = job[r].stamp /\ x.todo = d
  BY <1>1, KnownPlaces DEF Job
<1>4. y \in Job /\ y.at = job[r].at /\ y.stamp = job[r].stamp /\ y.todo = d
  BY <1>1, JobTodo
<1> HIDE DEF x, y
<1>5. CASE HasActiveRun(Flow(s))
  <2>1. Moves(r) /\ job'[r] = y
    BY <1>1, <1>2, <1>4, <1>5, MovesTo
  <2> QED BY <1>2, <1>4, <2>1
<1>6. CASE ~HasActiveRun(Flow(s))
  <2>1. Moves(r) /\ job'[r] = x
    BY <1>1, <1>2, <1>3, <1>6, MovesTo
  <2> QED BY <1>2, <1>3, <2>1
<1> QED BY <1>5, <1>6

LEMMA PushMarkMoves ==
    ASSUME Typed, NEW r \in Requests, PushMark(r)
    PROVE /\ Moves(r) /\ job'[r].at = "insert" /\ job'[r].stamp = job[r].stamp
          /\ job'[r].sched = job[r].sched /\ job'[r].todo = job[r].todo
<1> DEFINE x == [job[r] EXCEPT !.at = "insert"]
<1>1. r \in Actors /\ job \in [Actors -> Job] /\ job[r] \in Job
  BY TypedParts
<1>2. /\ x \in Job /\ x.at = "insert" /\ x.stamp = job[r].stamp
      /\ x.sched = job[r].sched /\ x.todo = job[r].todo
  BY <1>1, KnownPlaces DEF Job
<1>3. job' = [job EXCEPT ![r] = x]
  BY <1>1 DEF PushMark, Go
<1> HIDE DEF x
<1>4. Moves(r) /\ job'[r] = x
  BY <1>1, <1>2, <1>3, MovesTo
<1> QED BY <1>2, <1>4

LEMMA DoneMoves ==
    ASSUME Typed, NEW r \in Actors, job' = [job EXCEPT ![r] = [IdleJob EXCEPT !.at = "done"]]
    PROVE Moves(r) /\ job'[r].at = "done" /\ job'[r].stamp = 0 /\ job'[r].todo = {}
<1> DEFINE x == [IdleJob EXCEPT !.at = "done"]
<1>1. x \in Job /\ x.at = "done" /\ x.stamp = 0 /\ x.todo = {}
  BY JobIdle, KnownPlaces DEF Job
<1> HIDE DEF x
<1>2. Moves(r) /\ job'[r] = x
  BY <1>1, MovesTo, TypedParts DEF x
<1> QED BY <1>1, <1>2

LEMMA RunNowMoves ==
    ASSUME Typed, NEW r \in Requests, NEW s \in Schedules, RunNow(r, s)
    PROVE /\ Moves(r) /\ job'[r].at = "insert" /\ job'[r].sched = s /\ job'[r].stamp = 0
          /\ job'[r].todo = {}
<1> DEFINE x == [IdleJob EXCEPT !.at = "insert", !.sched = s]
<1>1. x \in Job /\ x.at = "insert" /\ x.sched = s /\ x.stamp = 0 /\ x.todo = {}
  BY JobStart, JobIdle DEF IdleJob
<1>2. job' = [job EXCEPT ![r] = x]
  BY DEF RunNow
<1> HIDE DEF x
<1>3. Moves(r) /\ job'[r] = x
  BY <1>1, <1>2, MovesTo, TypedParts
<1> QED BY <1>1, <1>3

LEMMA AddRowMoves ==
    ASSUME Typed, NEW a \in Actors, NEW k \in Runs, AddRow(a, k)
    PROVE /\ Moves(a) /\ job'[a].at = "spawn" /\ job'[a].row = k
          /\ job'[a].sched = job[a].sched /\ job'[a].stamp = job[a].stamp
          /\ job'[a].todo = job[a].todo
<1> DEFINE x == [job[a] EXCEPT !.at = "spawn", !.row = k]
<1>1. job \in [Actors -> Job] /\ job[a] \in Job
  BY TypedParts
<1>2. /\ x \in Job /\ x.at = "spawn" /\ x.row = k /\ x.sched = job[a].sched
      /\ x.stamp = job[a].stamp /\ x.todo = job[a].todo
  BY <1>1, KnownPlaces DEF Job
<1>3. job' = [job EXCEPT ![a] = x]
  BY <1>1 DEF AddRow
<1> HIDE DEF x
<1>4. Moves(a) /\ job'[a] = x
  BY <1>1, <1>2, <1>3, MovesTo
<1> QED BY <1>2, <1>4

LEMMA SpawnMoves ==
    ASSUME Typed, NEW a \in Actors, Spawn(a)
    PROVE /\ Moves(a) /\ job'[a].stamp \in {0, job[a].stamp}
          /\ a \in Requests => /\ job'[a].at = "push" /\ job'[a].stamp = job[a].stamp
                               /\ job'[a].todo = job[a].todo
          /\ a \in Instances => \/ job'[a].at = "tick"
                                \/ job'[a].at = "cursor" /\ job'[a].sched = job[a].sched
<1> DEFINE x == [job[a] EXCEPT !.at = "cursor", !.row = None]
<1>1. job \in [Actors -> Job] /\ job[a] \in Job
  BY TypedParts
<1>2. x \in Job /\ x.at = "cursor" /\ x.sched = job[a].sched /\ x.stamp = job[a].stamp
  BY <1>1, KnownPlaces DEF Job
<1>3. CASE a \in Instances /\ Kind(job[a].sched) = "cron"
  <2>1. job' = [job EXCEPT ![a] = x]
    BY <1>1, <1>3 DEF Spawn
  <2> HIDE DEF x
  <2>2. Moves(a) /\ job'[a] = x
    BY <1>1, <1>2, <2>1, MovesTo
  <2> QED BY <1>2, <1>3, <2>2, NamesAssumption
<1>4. CASE ~(a \in Instances /\ Kind(job[a].sched) = "cron")
  <2>1. job' = [job EXCEPT ![a] = Onward(a)]
    BY <1>1, <1>4 DEF Spawn
  <2> QED BY <2>1, OnwardMoves
<1> QED BY <1>3, <1>4

-----------------------------------------------------------------------------
(* The type invariant. What every step leaves of it when the stamps' bound,   *)
(* the clock, is the same.                                                    *)

Kept(a) == /\ setup' = setup /\ clock' = clock /\ Moves(a)
           /\ job'[a].stamp <= clock
           /\ job'[a].at \in InHand => job'[a].sched \in Schedules
           /\ job'[a].at = "spawn" => job'[a].row \in Runs

RowsTyped == /\ run' \in [Runs -> Flows \cup {None}] /\ open' \subseteq Runs /\ alive' \subseteq Runs
             /\ faults' \in 0 .. setup.faults /\ swept' \subseteq Schedules /\ contested' \in BOOLEAN

StampsTyped == /\ updated' \in [Tables -> 1 .. clock]
               /\ seen' \in [Schedules -> 0 .. clock] /\ triggered' \in [Schedules -> 0 .. clock]
               /\ cursor' \in [Schedules -> 0 .. clock] /\ covered' \in [Schedules -> 0 .. clock]
               /\ marks' \in [Instances -> [Schedules -> 0 .. clock]]

LockTyped == lock' \in [holder : Instances \cup {Dead, None}, fresh : BOOLEAN]

LEMMA TypedAgain ==
    ASSUME Typed, NEW a \in Actors, Kept(a), RowsTyped, StampsTyped, LockTyped
    PROVE Typed'
<1>1. \A b \in Actors : JobFits(b)'
  BY FitsAgain DEF Kept
<1>2. TypeOK'
  BY DEF Typed, TypeOK, Kept, RowsTyped, StampsTyped, LockTyped, Moves
<1> QED BY <1>1, <1>2 DEF Typed

LEMMA RowsStay ==
    ASSUME Typed, UNCHANGED <<rows, faults, swept>>, contested' \in BOOLEAN
    PROVE RowsTyped
BY DEF Typed, TypeOK, RowsTyped, rows

LEMMA StampsStay ==
    ASSUME Typed, UNCHANGED <<updated, seen, triggered, cursor, covered>>,
           marks' \in [Instances -> [Schedules -> 0 .. clock]]
    PROVE StampsTyped
BY DEF Typed, TypeOK, StampsTyped

LEMMA ClearedMarks ==
    ASSUME Typed, NEW i
    PROVE /\ marks \in [Instances -> [Schedules -> 0 .. clock]]
          /\ [marks EXCEPT ![i] = NoMarks] \in [Instances -> [Schedules -> 0 .. clock]]
<1>1. clock \in Nat
  BY TypedParts
<1>2. NoMarks \in [Schedules -> 0 .. clock]
  BY <1>1 DEF NoMarks
<1> QED BY <1>2 DEF Typed, TypeOK

LEMMA ReadLockTyped ==
    ASSUME Typed, NEW i \in Instances, ReadLock(i)
    PROVE Typed'
<1>1. job'[i].at = "lock" /\ job'[i].stamp = 0 /\ Moves(i)
  BY ReadLockMoves
<1>2. i \in Actors /\ clock \in Nat
  BY TypedParts
<1>3. Kept(i)
  BY <1>1, <1>2 DEF Kept, InHand, ReadLock, database
<1>4. RowsTyped
  BY RowsStay DEF ReadLock, history, Typed, TypeOK
<1>5. StampsTyped
  BY StampsStay, ClearedMarks DEF ReadLock, database, history
<1>6. LockTyped
  BY DEF ReadLock, database, LockTyped, Typed, TypeOK
<1> QED BY <1>2, <1>3, <1>4, <1>5, <1>6, TypedAgain

LEMMA CommitLockTyped ==
    ASSUME Typed, NEW i \in Instances, CommitLock(i)
    PROVE Typed'
<1>1. job'[i].at \in {"tick", "idle"} /\ job'[i].stamp = 0 /\ Moves(i)
  BY CommitLockMoves
<1>2. i \in Actors /\ clock \in Nat
  BY TypedParts
<1>3. Kept(i)
  BY <1>1, <1>2 DEF Kept, InHand, CommitLock
<1>4. RowsTyped
  <2>1. contested' \in BOOLEAN
    BY DEF CommitLock, Typed, TypeOK
  <2> QED BY <2>1, RowsStay DEF CommitLock
<1>5. StampsTyped
  BY StampsStay, ClearedMarks DEF CommitLock
<1>6. LockTyped
  <2>1. lock \in [holder : Instances \cup {Dead, None}, fresh : BOOLEAN]
    BY DEF Typed, TypeOK
  <2> DEFINE h == IF job[i].plan = "refresh" THEN lock.holder ELSE i
  <2>2. h \in Instances \cup {Dead, None}
    BY <2>1
  <2>3. lock' = lock \/ lock' = [holder |-> h, fresh |-> TRUE]
    BY DEF CommitLock
  <2> HIDE DEF h
  <2>4. [holder |-> h, fresh |-> TRUE] \in [holder : Instances \cup {Dead, None}, fresh : BOOLEAN]
    BY <2>2
  <2> QED BY <2>1, <2>3, <2>4 DEF LockTyped
<1> QED BY <1>2, <1>3, <1>4, <1>5, <1>6, TypedAgain

LEMMA EvaluateTyped ==
    ASSUME Typed, NEW i \in Instances, NEW s \in Schedules, Evaluate(i, s)
    PROVE Typed'
<1>1. /\ Moves(i)
      /\ \/ job'[i].at = "check" /\ job'[i].sched = s /\ job'[i].stamp = StampOf(s)
         \/ job'[i].at = "tick" /\ job'[i].stamp = job[i].stamp
  BY EvaluateMoves
<1>2. i \in Actors /\ clock \in Nat /\ StampOf(s) <= clock /\ job[i].stamp <= clock
  BY TypedParts, StampIsPast DEF JobFits
<1>3. Kept(i)
  BY <1>1, <1>2 DEF Kept, InHand, Evaluate, database
<1>4. RowsTyped
  BY RowsStay DEF Evaluate, history, Typed, TypeOK
<1>5. StampsTyped
  BY StampsStay, ClearedMarks DEF Evaluate, database, history
<1>6. LockTyped
  BY DEF Evaluate, database, LockTyped, Typed, TypeOK
<1> QED BY <1>2, <1>3, <1>4, <1>5, <1>6, TypedAgain

LEMMA CheckActiveTyped ==
    ASSUME Typed, NEW i \in Instances, CheckActive(i)
    PROVE Typed'
<1>1. /\ Moves(i)
      /\ \/ job'[i].at = "tick" /\ job'[i].stamp \in {0, job[i].stamp}
         \/ /\ job'[i].at = "insert" /\ job'[i].sched = job[i].sched
            /\ job'[i].stamp = job[i].stamp
  BY CheckActiveMoves
<1>2. /\ i \in Actors /\ clock \in Nat /\ job[i].stamp \in Nat /\ job[i].stamp <= clock
      /\ job[i].sched \in Schedules
  BY TypedParts DEF JobFits, InHand, CheckActive
<1>3. Kept(i)
  BY <1>1, <1>2 DEF Kept, InHand, CheckActive, database
<1>4. RowsTyped
  BY RowsStay DEF CheckActive, history, Typed, TypeOK
<1>5. StampsTyped
  <2>1. marks' \in [Instances -> [Schedules -> 0 .. clock]]
    <3>1. CASE UNCHANGED marks
      BY <3>1, ClearedMarks
    <3>2. CASE marks' = [marks EXCEPT ![i][job[i].sched] = job[i].stamp]
      BY <1>2, <3>2, ClearedMarks
    <3> QED BY <3>1, <3>2 DEF CheckActive
  <2> QED BY <2>1, StampsStay DEF CheckActive, database, history
<1>6. LockTyped
  BY DEF CheckActive, database, LockTyped, Typed, TypeOK
<1> QED BY <1>2, <1>3, <1>4, <1>5, <1>6, TypedAgain

LEMMA EndTickTyped ==
    ASSUME Typed, NEW i \in Instances, EndTick(i)
    PROVE Typed'
<1>1. Moves(i) /\ job'[i].at = "idle" /\ job'[i].stamp = 0
  BY IdleMoves, TypedParts DEF EndTick
<1>2. i \in Actors /\ clock \in Nat
  BY TypedParts
<1>3. Kept(i)
  BY <1>1, <1>2 DEF Kept, InHand, EndTick, database
<1>4. RowsTyped
  BY RowsStay DEF EndTick, history, Typed, TypeOK
<1>5. StampsTyped
  BY StampsStay, ClearedMarks DEF EndTick, database, history
<1>6. LockTyped
  BY DEF EndTick, database, LockTyped, Typed, TypeOK
<1> QED BY <1>2, <1>3, <1>4, <1>5, <1>6, TypedAgain

LEMMA AdvanceCursorTyped ==
    ASSUME Typed, NEW i \in Instances, AdvanceCursor(i)
    PROVE Typed'
<1>1. /\ i \in Actors /\ clock \in Nat /\ job[i].stamp \in Nat /\ job[i].stamp <= clock
      /\ job[i].sched \in Schedules
  BY TypedParts DEF JobFits, InHand, AdvanceCursor
<1>2. Moves(i) /\ job'[i].at = "tick" /\ job'[i].stamp \in {0, job[i].stamp}
  BY <1>1, OnwardMoves DEF AdvanceCursor
<1>3. Kept(i)
  BY <1>1, <1>2 DEF Kept, InHand, AdvanceCursor
<1>4. RowsTyped
  BY RowsStay DEF AdvanceCursor, history, Typed, TypeOK
<1>5. StampsTyped
  <2>1. cursor' \in [Schedules -> 0 .. clock]
    BY <1>1 DEF AdvanceCursor, Typed, TypeOK
  <2> QED BY <2>1, ClearedMarks DEF AdvanceCursor, history, StampsTyped, Typed, TypeOK
<1>6. LockTyped
  BY DEF AdvanceCursor, LockTyped, Typed, TypeOK
<1> QED BY <1>1, <1>3, <1>4, <1>5, <1>6, TypedAgain

LEMMA OverwriteTyped ==
    ASSUME Typed, NEW r \in Requests, NEW t \in Tables, Overwrite(r, t)
    PROVE Typed'
<1>1. Moves(r) /\ job'[r].at = "push" /\ job'[r].stamp = clock
  BY OverwriteMoves
<1>2. r \in Actors /\ clock \in Nat /\ clock >= 1
  BY TypedParts DEF Typed, TypeOK
<1>3. Kept(r)
  BY <1>1, <1>2 DEF Kept, InHand, Overwrite
<1>4. RowsTyped
  BY RowsStay DEF Overwrite, history, Typed, TypeOK
<1>5. StampsTyped
  <2>1. updated' \in [Tables -> 1 .. clock]
    BY <1>2 DEF Overwrite, Typed, TypeOK
  <2> QED BY <2>1, ClearedMarks DEF Overwrite, history, StampsTyped, Typed, TypeOK
<1>6. LockTyped
  BY DEF Overwrite, LockTyped, Typed, TypeOK
<1> QED BY <1>2, <1>3, <1>4, <1>5, <1>6, TypedAgain

LEMMA PushCheckTyped ==
    ASSUME Typed, NEW r \in Requests, NEW s \in Schedules, PushCheck(r, s)
    PROVE Typed'
<1>1. /\ Moves(r) /\ job'[r].stamp = job[r].stamp
      /\ job'[r].at = "push" \/ (job'[r].at = "mark" /\ job'[r].sched = s)
  BY PushCheckMoves
<1>2. r \in Actors /\ clock \in Nat /\ job[r].stamp <= clock
  BY TypedParts DEF JobFits
<1>3. Kept(r)
  BY <1>1, <1>2 DEF Kept, InHand, PushCheck, database
<1>4. RowsTyped
  BY RowsStay DEF PushCheck, history, Typed, TypeOK
<1>5. StampsTyped
  BY StampsStay, ClearedMarks DEF PushCheck, database, history
<1>6. LockTyped
  BY DEF PushCheck, database, LockTyped, Typed, TypeOK
<1> QED BY <1>2, <1>3, <1>4, <1>5, <1>6, TypedAgain

LEMMA PushMarkTyped ==
    ASSUME Typed, NEW r \in Requests, PushMark(r)
    PROVE Typed'
<1>1. Moves(r) /\ job'[r].at = "insert" /\ job'[r].stamp = job[r].stamp /\ job'[r].sched = job[r].sched
  BY PushMarkMoves
<1>2. /\ r \in Actors /\ clock \in Nat /\ job[r].stamp \in Nat /\ job[r].stamp <= clock
      /\ job[r].sched \in Schedules
  BY TypedParts DEF JobFits, InHand, PushMark
<1>3. Kept(r)
  BY <1>1, <1>2 DEF Kept, InHand, PushMark
<1>4. RowsTyped
  BY RowsStay DEF PushMark, history, Typed, TypeOK
<1>5. StampsTyped
  <2>1. seen' \in [Schedules -> 0 .. clock]
    BY <1>2 DEF PushMark, Typed, TypeOK
  <2> QED BY <2>1, ClearedMarks DEF PushMark, history, StampsTyped, Typed, TypeOK
<1>6. LockTyped
  BY DEF PushMark, LockTyped, Typed, TypeOK
<1> QED BY <1>2, <1>3, <1>4, <1>5, <1>6, TypedAgain

LEMMA EndPushTyped ==
    ASSUME Typed, NEW r \in Requests, EndPush(r)
    PROVE Typed'
<1>1. Moves(r) /\ job'[r].at = "done" /\ job'[r].stamp = 0
  BY DoneMoves, TypedParts DEF EndPush
<1>2. r \in Actors /\ clock \in Nat
  BY TypedParts
<1>3. Kept(r)
  BY <1>1, <1>2 DEF Kept, InHand, EndPush, database
<1>4. RowsTyped
  BY RowsStay DEF EndPush, history, Typed, TypeOK
<1>5. StampsTyped
  BY StampsStay, ClearedMarks DEF EndPush, database, history
<1>6. LockTyped
  BY DEF EndPush, database, LockTyped, Typed, TypeOK
<1> QED BY <1>2, <1>3, <1>4, <1>5, <1>6, TypedAgain

LEMMA RunNowTyped ==
    ASSUME Typed, NEW r \in Requests, NEW s \in Schedules, RunNow(r, s)
    PROVE Typed'
<1>1. Moves(r) /\ job'[r].at = "insert" /\ job'[r].sched = s /\ job'[r].stamp = 0
  BY RunNowMoves
<1>2. r \in Actors /\ clock \in Nat
  BY TypedParts
<1>3. Kept(r)
  BY <1>1, <1>2 DEF Kept, InHand, RunNow, database
<1>4. RowsTyped
  BY RowsStay DEF RunNow, history, Typed, TypeOK
<1>5. StampsTyped
  BY StampsStay, ClearedMarks DEF RunNow, database, history
<1>6. LockTyped
  BY DEF RunNow, database, LockTyped, Typed, TypeOK
<1> QED BY <1>2, <1>3, <1>4, <1>5, <1>6, TypedAgain

LEMMA TypedStill ==
    ASSUME Typed, UNCHANGED <<setup, clock, job>>, RowsTyped, StampsTyped, LockTyped
    PROVE Typed'
BY DEF Typed, TypeOK, JobFits, RowsTyped, StampsTyped, LockTyped

(* A launch notes the stamps of the table triggers of its flow. *)
LEMMA NoticedStamps ==
    ASSUME Typed, NEW s \in Schedules, AllNoticed(s)
    PROVE covered' \in [Schedules -> 0 .. clock]
<1>1. \A x \in Schedules : StampOf(x) \in 0 .. clock
  BY StampIsPast
<1>2. \A x \in Schedules : covered[x] \in 0 .. clock
  BY DEF Typed, TypeOK
<1> QED BY <1>1, <1>2 DEF AllNoticed

LEMMA PollInsertTyped ==
    ASSUME Typed, NEW i \in Instances, NEW k \in Runs, PollInsert(i, k)
    PROVE Typed'
<1>1. Moves(i) /\ job'[i].at = "spawn" /\ job'[i].row = k /\ job'[i].stamp = job[i].stamp
      /\ job'[i].sched = job[i].sched
  BY AddRowMoves, TypedParts DEF PollInsert
<1>2. /\ i \in Actors /\ clock \in Nat /\ job[i].stamp <= clock /\ job[i].sched \in Schedules
      /\ Flow(job[i].sched) \in Flows
  BY TypedParts, SetupsAssumption DEF JobFits, InHand, PollInsert, AddRow, Flow
<1>3. Kept(i)
  BY <1>1, <1>2 DEF Kept, InHand, PollInsert, AddRow
<1>4. RowsTyped
  <2>1. run' \in [Runs -> Flows \cup {None}] /\ open' \subseteq Runs
    BY <1>2 DEF PollInsert, AddRow, Typed, TypeOK
  <2>2. swept' \subseteq Schedules
    BY DEF PollInsert, Typed, TypeOK
  <2> QED BY <2>1, <2>2 DEF PollInsert, AddRow, RowsTyped, Typed, TypeOK
<1>5. StampsTyped
  <2>1. covered' \in [Schedules -> 0 .. clock]
    BY <1>2, NoticedStamps DEF PollInsert, AddRow
  <2>2. triggered' \in [Schedules -> 0 .. clock]
    <3>1. job[i].stamp \in 0 .. clock
      BY <1>2, TypedParts
    <3>2. triggered \in [Schedules -> 0 .. clock]
      BY DEF Typed, TypeOK
    <3> QED BY <3>1, <3>2 DEF PollInsert
  <2>3. seen' \in [Schedules -> 0 .. clock]
    <3>1. \A x \in Schedules : marks[i][x] \in 0 .. clock /\ seen[x] \in 0 .. clock
      BY DEF Typed, TypeOK
    <3> QED BY <3>1 DEF PollInsert
  <2>4. marks' \in [Instances -> [Schedules -> 0 .. clock]]
    BY ClearedMarks DEF PollInsert
  <2> QED BY <2>1, <2>2, <2>3, <2>4 DEF PollInsert, AddRow, StampsTyped, Typed, TypeOK
<1>6. LockTyped
  BY DEF PollInsert, AddRow, LockTyped, Typed, TypeOK
<1> QED BY <1>2, <1>3, <1>4, <1>5, <1>6, TypedAgain

LEMMA RequestInsertTyped ==
    ASSUME Typed, NEW r \in Requests, NEW k \in Runs, RequestInsert(r, k)
    PROVE Typed'
<1>1. Moves(r) /\ job'[r].at = "spawn" /\ job'[r].row = k /\ job'[r].stamp = job[r].stamp
      /\ job'[r].sched = job[r].sched
  BY AddRowMoves, TypedParts DEF RequestInsert
<1>2. /\ r \in Actors /\ clock \in Nat /\ job[r].stamp <= clock /\ job[r].sched \in Schedules
      /\ Flow(job[r].sched) \in Flows
  BY TypedParts, SetupsAssumption DEF JobFits, InHand, RequestInsert, AddRow, Flow
<1>3. Kept(r)
  BY <1>1, <1>2 DEF Kept, InHand, RequestInsert, AddRow
<1>4. RowsTyped
  <2>1. run' \in [Runs -> Flows \cup {None}] /\ open' \subseteq Runs
    BY <1>2 DEF RequestInsert, AddRow, Typed, TypeOK
  <2>2. swept' \subseteq Schedules
    BY DEF RequestInsert, Typed, TypeOK
  <2> QED BY <2>1, <2>2 DEF RequestInsert, AddRow, RowsTyped, Typed, TypeOK
<1>5. StampsTyped
  <2>1. covered' \in [Schedules -> 0 .. clock]
    BY <1>2, NoticedStamps DEF RequestInsert, AddRow
  <2> QED BY <2>1 DEF RequestInsert, AddRow, StampsTyped, Typed, TypeOK
<1>6. LockTyped
  BY DEF RequestInsert, AddRow, LockTyped, Typed, TypeOK
<1> QED BY <1>2, <1>3, <1>4, <1>5, <1>6, TypedAgain

LEMMA OneMoreFault ==
    ASSUME Typed, Fault
    PROVE faults' \in 0 .. setup.faults
BY TypedParts, SetupsAssumption DEF Fault, Typed, TypeOK

LEMMA SpawnTyped ==
    ASSUME Typed, NEW a \in Actors, Spawn(a)
    PROVE Typed'
<1>0. /\ clock \in Nat /\ job[a].stamp \in Nat /\ job[a].stamp <= clock
      /\ job[a].sched \in Schedules /\ job[a].row \in Runs
  BY TypedParts DEF JobFits, InHand, Spawn
<1>1. /\ Moves(a) /\ job'[a].stamp \in {0, job[a].stamp} /\ job'[a].at # "spawn"
      /\ job'[a].at \in InHand => job'[a].sched = job[a].sched
  BY <1>0, SpawnMoves, NamesAssumption DEF Actors, InHand, Spawn
<1>3. Kept(a)
  BY <1>0, <1>1 DEF Kept, Spawn, database
<1>4. RowsTyped
  <2>1. faults' \in 0 .. setup.faults
    BY DEF Spawn, Typed, TypeOK
  <2> QED BY <1>0, <2>1 DEF Spawn, RowsTyped, history, Typed, TypeOK
<1>5. StampsTyped
  BY StampsStay, ClearedMarks DEF Spawn, database, history
<1>6. LockTyped
  BY DEF Spawn, database, LockTyped, Typed, TypeOK
<1> QED BY <1>3, <1>4, <1>5, <1>6, TypedAgain

LEMMA SpawnFailsTyped ==
    ASSUME Typed, NEW a \in Actors, SpawnFails(a)
    PROVE Typed'
<1>0. /\ clock \in Nat /\ job[a].stamp \in Nat /\ job[a].stamp <= clock
      /\ job[a].sched \in Schedules /\ job[a].row \in Runs
  BY TypedParts DEF JobFits, InHand, SpawnFails
<1>1. /\ Moves(a) /\ job'[a].stamp \in {0, job[a].stamp} /\ job'[a].at # "spawn"
      /\ job'[a].at \in InHand => job'[a].sched = job[a].sched
  BY <1>0, OnwardMoves DEF Actors, InHand, SpawnFails
<1>3. Kept(a)
  BY <1>0, <1>1 DEF Kept, SpawnFails, database
<1>4. RowsTyped
  <2>1. faults' \in 0 .. setup.faults
    BY OneMoreFault DEF SpawnFails
  <2> QED BY <1>0, <2>1 DEF SpawnFails, RowsTyped, history, Typed, TypeOK
<1>5. StampsTyped
  BY StampsStay, ClearedMarks DEF SpawnFails, database, history
<1>6. LockTyped
  BY DEF SpawnFails, database, LockTyped, Typed, TypeOK
<1> QED BY <1>3, <1>4, <1>5, <1>6, TypedAgain

LEMMA TickFailsTyped ==
    ASSUME Typed, NEW i \in Instances, TickFails(i)
    PROVE Typed'
<1>1. Moves(i) /\ job'[i].at = "idle" /\ job'[i].stamp = 0
  BY IdleMoves, TypedParts DEF TickFails
<1>2. i \in Actors /\ clock \in Nat
  BY TypedParts
<1>3. Kept(i)
  BY <1>1, <1>2 DEF Kept, InHand, TickFails, database
<1>4. RowsTyped
  BY OneMoreFault DEF TickFails, RowsTyped, rows, history, Typed, TypeOK
<1>5. StampsTyped
  BY StampsStay, ClearedMarks DEF TickFails, database, history
<1>6. LockTyped
  BY DEF TickFails, database, LockTyped, Typed, TypeOK
<1> QED BY <1>2, <1>3, <1>4, <1>5, <1>6, TypedAgain

LEMMA InstanceDiesTyped ==
    ASSUME Typed, NEW i \in Instances, InstanceDies(i)
    PROVE Typed'
<1>1. Moves(i) /\ job'[i].at = "idle" /\ job'[i].stamp = 0
  BY IdleMoves, TypedParts DEF InstanceDies
<1>2. i \in Actors /\ clock \in Nat
  BY TypedParts
<1>3. Kept(i)
  BY <1>1, <1>2 DEF Kept, InHand, InstanceDies, database
<1>4. RowsTyped
  BY OneMoreFault DEF InstanceDies, RowsTyped, rows, history, Typed, TypeOK
<1>5. StampsTyped
  BY StampsStay, ClearedMarks DEF InstanceDies, database, history
<1>6. LockTyped
  BY DEF InstanceDies, database, LockTyped, Typed, TypeOK
<1> QED BY <1>2, <1>3, <1>4, <1>5, <1>6, TypedAgain

LEMMA RequestStopsTyped ==
    ASSUME Typed, NEW r \in Requests, RequestStops(r)
    PROVE Typed'
<1>1. Moves(r) /\ job'[r].at = "done" /\ job'[r].stamp = 0
  BY DoneMoves, TypedParts DEF RequestStops
<1>2. r \in Actors /\ clock \in Nat /\ (job[r].at = "insert" => job[r].sched \in Schedules)
  BY TypedParts DEF JobFits, InHand
<1>3. Kept(r)
  BY <1>1, <1>2 DEF Kept, InHand, RequestStops, database
<1>4. RowsTyped
  <2>1. swept' \subseteq Schedules
    BY <1>2 DEF RequestStops, Typed, TypeOK
  <2> QED BY <2>1, OneMoreFault DEF RequestStops, RowsTyped, rows, Typed, TypeOK
<1>5. StampsTyped
  BY StampsStay, ClearedMarks DEF RequestStops, database
<1>6. LockTyped
  BY DEF RequestStops, database, LockTyped, Typed, TypeOK
<1> QED BY <1>2, <1>3, <1>4, <1>5, <1>6, TypedAgain

LEMMA ReleaseLockTyped ==
    ASSUME Typed, NEW i \in Instances, ReleaseLock(i)
    PROVE Typed'
<1>1. RowsTyped
  BY DEF ReleaseLock, RowsTyped, rows, history, HasRival, Typed, TypeOK
<1>2. StampsTyped
  BY StampsStay, ClearedMarks DEF ReleaseLock, database, history
<1>3. LockTyped
  BY DEF ReleaseLock, database, LockTyped, Typed, TypeOK
<1> QED BY <1>1, <1>2, <1>3, TypedStill DEF ReleaseLock, database

LEMMA LockAgesTyped ==
    ASSUME Typed, LockAges
    PROVE Typed'
<1>1. RowsTyped
  BY DEF LockAges, RowsTyped, rows, history, HasRival, Typed, TypeOK
<1>2. StampsTyped
  BY StampsStay, ClearedMarks DEF LockAges, database, history
<1>3. LockTyped
  BY DEF LockAges, database, LockTyped, Typed, TypeOK
<1> QED BY <1>1, <1>2, <1>3, TypedStill DEF LockAges, database

LEMMA ChildCompletesTyped ==
    ASSUME Typed, NEW k \in Runs, ChildCompletes(k)
    PROVE Typed'
<1>1. RowsTyped
  BY DEF ChildCompletes, RowsTyped, rows, history, HasRival, Typed, TypeOK
<1>2. StampsTyped
  BY StampsStay, ClearedMarks DEF ChildCompletes, database, history
<1>3. LockTyped
  BY DEF ChildCompletes, database, LockTyped, Typed, TypeOK
<1> QED BY <1>1, <1>2, <1>3, TypedStill DEF ChildCompletes, database

LEMMA ChildDiesTyped ==
    ASSUME Typed, NEW k \in Runs, ChildDies(k)
    PROVE Typed'
<1>1. RowsTyped
  BY OneMoreFault DEF ChildDies, RowsTyped, rows, history, HasRival, Typed, TypeOK
<1>2. StampsTyped
  BY StampsStay, ClearedMarks DEF ChildDies, database, history
<1>3. LockTyped
  BY DEF ChildDies, database, LockTyped, Typed, TypeOK
<1> QED BY <1>1, <1>2, <1>3, TypedStill DEF ChildDies, database

LEMMA CancelRunTyped ==
    ASSUME Typed, NEW k \in Runs, CancelRun(k)
    PROVE Typed'
<1>1. RowsTyped
  BY OneMoreFault DEF CancelRun, RowsTyped, rows, history, HasRival, Typed, TypeOK
<1>2. StampsTyped
  BY StampsStay, ClearedMarks DEF CancelRun, database, history
<1>3. LockTyped
  BY DEF CancelRun, database, LockTyped, Typed, TypeOK
<1> QED BY <1>1, <1>2, <1>3, TypedStill DEF CancelRun, database

LEMMA SecondPassesTyped ==
    ASSUME Typed, SecondPasses
    PROVE Typed'
<1>1. clock \in Nat /\ clock' = clock + 1 /\ clock' \in 1 .. setup.seconds + 1 /\ setup.seconds \in Nat
  BY TypedParts DEF SecondPasses, Typed, TypeOK
<1>2. 0 .. clock \subseteq 0 .. clock' /\ 1 .. clock \subseteq 1 .. clock'
  BY <1>1
<1>3. TypeOK'
  BY <1>1, <1>2 DEF SecondPasses, rows, history, Typed, TypeOK
<1>4. \A a \in Actors : JobFits(a)'
  <2> TAKE a \in Actors
  <2>1. job[a].stamp \in Nat /\ JobFits(a) /\ job' = job
    BY TypedParts DEF SecondPasses
  <2> QED BY <1>1, <2>1 DEF JobFits
<1> QED BY <1>3, <1>4 DEF Typed

LEMMA TypedInit == Init => Typed
<1> SUFFICES ASSUME Init PROVE Typed
  OBVIOUS
<1>1. setup \in Setups /\ setup.seconds \in Nat /\ setup.faults \in Nat
  BY SetupsAssumption DEF Init
<1>2. TypeOK
  <2>1. clock = 1 /\ clock \in 1 .. setup.seconds + 1
    BY <1>1 DEF Init
  <2>2. updated \in [Tables -> 1 .. clock]
    BY <2>1 DEF Init
  <2>3. NoMarks \in [Schedules -> 0 .. clock]
    BY <2>1 DEF NoMarks
  <2>4. job \in [Actors -> Job]
    BY JobIdle DEF Init
  <2>5. lock \in [holder : Instances \cup {Dead, None}, fresh : BOOLEAN]
    BY DEF Init
  <2>6. run \in [Runs -> Flows \cup {None}] /\ faults \in 0 .. setup.faults
    BY <1>1 DEF Init
  <2> QED BY <1>1, <2>1, <2>2, <2>3, <2>4, <2>5, <2>6 DEF Init, TypeOK
<1>3. \A a \in Actors : job[a] = IdleJob /\ clock = 1
  BY DEF Init
<1>4. \A a \in Actors : JobFits(a)
  BY <1>3, JobIdle DEF JobFits, InHand
<1> QED BY <1>2, <1>4 DEF Typed

LEMMA TypedNext == Typed /\ [Next]_vars => Typed'
<1> SUFFICES ASSUME Typed, [Next]_vars PROVE Typed'
  OBVIOUS
<1>1. ASSUME NEW i \in Instances, InstanceStep(i) PROVE Typed'
  BY <1>1, ReadLockTyped, CommitLockTyped, EvaluateTyped, CheckActiveTyped, PollInsertTyped,
     AdvanceCursorTyped, EndTickTyped DEF InstanceStep
<1>2. ASSUME NEW i \in Instances, ReleaseLock(i) \/ TickFails(i) \/ InstanceDies(i) PROVE Typed'
  BY <1>2, ReleaseLockTyped, TickFailsTyped, InstanceDiesTyped
<1>3. ASSUME NEW r \in Requests, RequestStep(r) \/ RequestStops(r) PROVE Typed'
  BY <1>3, PushCheckTyped, PushMarkTyped, RequestInsertTyped, EndPushTyped, RequestStopsTyped
  DEF RequestStep
<1>4. ASSUME NEW r \in Requests, NEW t \in Tables, Overwrite(r, t) PROVE Typed'
  BY <1>4, OverwriteTyped
<1>5. ASSUME NEW r \in Requests, NEW s \in Schedules, RunNow(r, s) PROVE Typed'
  BY <1>5, RunNowTyped
<1>6. ASSUME NEW a \in Actors, Spawn(a) \/ SpawnFails(a) PROVE Typed'
  BY <1>6, SpawnTyped, SpawnFailsTyped
<1>7. ASSUME NEW k \in Runs, ChildCompletes(k) \/ ChildDies(k) \/ CancelRun(k) PROVE Typed'
  BY <1>7, ChildCompletesTyped, ChildDiesTyped, CancelRunTyped
<1>8. CASE LockAges \/ SecondPasses
  BY <1>8, LockAgesTyped, SecondPassesTyped
<1>9. CASE UNCHANGED vars
  BY <1>9 DEF vars, Typed, TypeOK, JobFits
<1> QED BY <1>1, <1>2, <1>3, <1>4, <1>5, <1>6, <1>7, <1>8, <1>9 DEF Next

LEMMA TypedAlways == Spec => []Typed
<1> QED BY TypedInit, TypedNext, PTL DEF Spec

(* Every variable keeps its type, and a time stored with a schedule is never  *)
(* in the future, whatever the catalog and however many processes run.        *)
THEOREM TypeCorrect == Spec => []TypeOK
<1>1. Typed => TypeOK
  BY DEF Typed
<1> QED BY <1>1, TypedAlways, PTL

-----------------------------------------------------------------------------
(* Active runs and their processes. *)

Launching(k) == \E a \in Actors : job[a].at = "spawn" /\ job[a].row = k

(* An actor that moves takes no launch away unless it was launching. *)
LEMMA LaunchesStay ==
    ASSUME Typed, ActiveRunsAreReal, NEW a \in Actors, Moves(a), job[a].at # "spawn",
           UNCHANGED <<open, alive, faults>>
    PROVE ActiveRunsAreReal'
<1> SUFFICES ASSUME faults' = 0, NEW k \in open', k \notin alive'
             PROVE \E b \in Actors : job'[b].at = "spawn" /\ job'[b].row = k
  BY DEF ActiveRunsAreReal
<1>1. PICK b \in Actors : job[b].at = "spawn" /\ job[b].row = k
  BY DEF ActiveRunsAreReal
<1>2. b # a
  BY <1>1
<1> QED BY <1>1, <1>2 DEF Moves

LEMMA RealStill ==
    ASSUME ActiveRunsAreReal, UNCHANGED <<open, alive, faults, job>>
    PROVE ActiveRunsAreReal'
BY DEF ActiveRunsAreReal

LEMMA RealAddRow ==
    ASSUME Typed, ActiveRunsAreReal, NEW a \in Actors, NEW k \in Runs, AddRow(a, k)
    PROVE ActiveRunsAreReal'
<1>1. Moves(a) /\ job'[a].at = "spawn" /\ job'[a].row = k
  BY AddRowMoves
<1>2. job[a].at = "insert" /\ open' = open \cup {k} /\ alive' = alive /\ faults' = faults
  BY DEF AddRow
<1> SUFFICES ASSUME faults' = 0, NEW x \in open', x \notin alive'
             PROVE \E b \in Actors : job'[b].at = "spawn" /\ job'[b].row = x
  BY DEF ActiveRunsAreReal
<1>3. CASE x = k
  BY <1>1, <1>3
<1>4. CASE x # k
  <2>1. PICK b \in Actors : job[b].at = "spawn" /\ job[b].row = x
    BY <1>2, <1>4 DEF ActiveRunsAreReal
  <2>2. b # a
    BY <1>2, <2>1
  <2> QED BY <1>1, <2>1, <2>2 DEF Moves
<1> QED BY <1>3, <1>4

LEMMA RealSpawn ==
    ASSUME Typed, ActiveRunsAreReal, NEW a \in Actors, Spawn(a)
    PROVE ActiveRunsAreReal'
<1>1. Moves(a)
  BY SpawnMoves
<1>2. alive' = alive \cup {job[a].row} /\ open' = open /\ faults' = faults
  BY DEF Spawn
<1> SUFFICES ASSUME faults' = 0, NEW x \in open', x \notin alive'
             PROVE \E b \in Actors : job'[b].at = "spawn" /\ job'[b].row = x
  BY DEF ActiveRunsAreReal
<1>3. PICK b \in Actors : job[b].at = "spawn" /\ job[b].row = x
  BY <1>2 DEF ActiveRunsAreReal
<1>4. b # a
  BY <1>2, <1>3
<1> QED BY <1>1, <1>3, <1>4 DEF Moves

LEMMA RealAfterFault ==
    ASSUME Typed, Fault
    PROVE ActiveRunsAreReal'
<1>1. faults \in Nat
  BY SetupsAssumption DEF Typed, TypeOK
<1> QED BY <1>1 DEF Fault, ActiveRunsAreReal

LEMMA RealNext == Typed /\ ActiveRunsAreReal /\ [Next]_vars => ActiveRunsAreReal'
<1> SUFFICES ASSUME Typed, ActiveRunsAreReal, [Next]_vars PROVE ActiveRunsAreReal'
  OBVIOUS
<1> USE TypedParts
<1>1. ASSUME NEW i \in Instances, InstanceStep(i) PROVE ActiveRunsAreReal'
  <2>1. CASE ReadLock(i)
    BY <2>1, ReadLockMoves, LaunchesStay DEF ReadLock, rows
  <2>2. CASE CommitLock(i)
    BY <2>2, CommitLockMoves, LaunchesStay DEF CommitLock, rows
  <2>3. CASE \E s \in Schedules : Evaluate(i, s)
    BY <2>3, EvaluateMoves, LaunchesStay DEF Evaluate, rows
  <2>4. CASE CheckActive(i)
    BY <2>4, CheckActiveMoves, LaunchesStay DEF CheckActive, rows
  <2>5. CASE \E k \in Runs : PollInsert(i, k)
    BY <2>5, RealAddRow DEF PollInsert
  <2>6. CASE AdvanceCursor(i)
    BY <2>6, OnwardMoves, LaunchesStay DEF AdvanceCursor, rows
  <2>7. CASE EndTick(i)
    BY <2>7, IdleMoves, LaunchesStay DEF EndTick, rows
  <2> QED BY <1>1, <2>1, <2>2, <2>3, <2>4, <2>5, <2>6, <2>7 DEF InstanceStep
<1>2. ASSUME NEW i \in Instances, ReleaseLock(i) \/ TickFails(i) \/ InstanceDies(i)
      PROVE ActiveRunsAreReal'
  BY <1>2, RealStill, RealAfterFault DEF ReleaseLock, TickFails, InstanceDies, rows
<1>3. ASSUME NEW r \in Requests, RequestStep(r) PROVE ActiveRunsAreReal'
  <2>1. CASE \E s \in Schedules : PushCheck(r, s)
    BY <2>1, PushCheckMoves, LaunchesStay DEF PushCheck, rows
  <2>2. CASE PushMark(r)
    BY <2>2, PushMarkMoves, LaunchesStay DEF PushMark, rows
  <2>3. CASE \E k \in Runs : RequestInsert(r, k)
    BY <2>3, RealAddRow DEF RequestInsert
  <2>4. CASE EndPush(r)
    BY <2>4, DoneMoves, LaunchesStay DEF EndPush, rows
  <2> QED BY <1>3, <2>1, <2>2, <2>3, <2>4 DEF RequestStep
<1>4. ASSUME NEW r \in Requests, RequestStops(r) PROVE ActiveRunsAreReal'
  BY <1>4, RealAfterFault DEF RequestStops
<1>5. ASSUME NEW r \in Requests, NEW t \in Tables, Overwrite(r, t) PROVE ActiveRunsAreReal'
  BY <1>5, OverwriteMoves, LaunchesStay DEF Overwrite, rows
<1>6. ASSUME NEW r \in Requests, NEW s \in Schedules, RunNow(r, s) PROVE ActiveRunsAreReal'
  BY <1>6, RunNowMoves, LaunchesStay DEF RunNow, rows
<1>7. ASSUME NEW a \in Actors, Spawn(a) \/ SpawnFails(a) PROVE ActiveRunsAreReal'
  BY <1>7, RealSpawn, RealAfterFault DEF SpawnFails
<1>8. ASSUME NEW k \in Runs, ChildCompletes(k) PROVE ActiveRunsAreReal'
  BY <1>8 DEF ChildCompletes, ActiveRunsAreReal
<1>9. ASSUME NEW k \in Runs, ChildDies(k) \/ CancelRun(k) PROVE ActiveRunsAreReal'
  BY <1>9, RealAfterFault DEF ChildDies, CancelRun
<1>10. CASE LockAges \/ SecondPasses
  BY <1>10, RealStill DEF LockAges, SecondPasses, rows
<1>11. CASE UNCHANGED vars
  BY <1>11, RealStill DEF vars
<1> QED BY <1>1, <1>2, <1>3, <1>4, <1>5, <1>6, <1>7, <1>8, <1>9, <1>10, <1>11 DEF Next

(* Without a crash, a failed launch or a killed child, every active row of    *)
(* flow_runs has its process or a launcher about to start it.                 *)
THEOREM RunsAreReal == Spec => []ActiveRunsAreReal
<1>1. Init => ActiveRunsAreReal
  BY DEF Init, ActiveRunsAreReal
<1>2. Init => Typed
  BY TypedInit
<1>3. Typed /\ ActiveRunsAreReal /\ [Next]_vars => Typed' /\ ActiveRunsAreReal'
  BY TypedNext, RealNext
<1> QED BY <1>1, <1>2, <1>3, PTL DEF Spec

-----------------------------------------------------------------------------
(* A table trigger launches alone. *)

(* From the check to the commit of the launch the mark is flushed, and no     *)
(* other active run of the flow exists.                                       *)
Guarded(i) ==
    job[i].at = "insert" /\ IsTable(job[i].sched) =>
        marks[i][job[i].sched] # 0 /\ ~HasActiveRun(Flow(job[i].sched))

(* A stamp in hand is a table's, never 0. *)
Stamped(i) == job[i].at = "check" /\ IsTable(job[i].sched) => job[i].stamp # 0

Alone(i) == Guarded(i) /\ Stamped(i)
AloneInv == \A i \in Instances : Alone(i)

(* Rows that only close, and marks of the guarded that stay. *)
LEMMA AloneOthers ==
    ASSUME Typed, AloneInv, setup' = setup, run' = run, open' \subseteq open,
           NEW j \in Instances, job'[j] = job[j], marks'[j] = marks[j]
    PROVE Alone(j)'
<1>1. Alone(j)
  BY DEF AloneInv
<1> QED BY <1>1 DEF Alone, Guarded, Stamped, HasActiveRun, IsTable, Kind, Flow

LEMMA AloneElsewhere ==
    ASSUME NEW j \in Instances, setup' = setup, job'[j].at \notin {"insert", "check"}
    PROVE Alone(j)'
BY DEF Alone, Guarded, Stamped

(* The steps of one actor a that add no row. *)
LEMMA AloneMoves ==
    ASSUME Typed, AloneInv, setup' = setup, run' = run, open' \subseteq open,
           NEW a \in Actors, Moves(a), \A j \in Instances \ {a} : marks'[j] = marks[j],
           a \in Instances => Alone(a)'
    PROVE AloneInv'
<1> SUFFICES ASSUME NEW j \in Instances PROVE Alone(j)'
  BY DEF AloneInv
<1>1. CASE j = a
  BY <1>1
<1>2. CASE j # a
  <2>1. job'[j] = job[j] /\ marks'[j] = marks[j]
    BY <1>2, TypedParts DEF Moves
  <2> QED BY <2>1, AloneOthers
<1> QED BY <1>1, <1>2

LEMMA AloneStill ==
    ASSUME Typed, AloneInv, UNCHANGED <<setup, job, marks, run>>, open' \subseteq open
    PROVE AloneInv'
<1> SUFFICES ASSUME NEW j \in Instances PROVE Alone(j)'
  BY DEF AloneInv
<1> QED BY AloneOthers

LEMMA AloneCheck ==
    ASSUME Typed, AloneInv, NEW i \in Instances, CheckActive(i)
    PROVE AloneInv'
<1>0. job[i].sched \in Schedules
  BY TypedParts DEF JobFits, InHand, CheckActive
<1> PICK s \in Schedules : s = job[i].sched
  BY <1>0
<1>1. i \in Actors /\ s \in Schedules
  BY TypedParts
<1>2. /\ Moves(i)
      /\ \/ job'[i].at = "tick" /\ job'[i].stamp \in {0, job[i].stamp}
         \/ /\ job'[i].at = "insert" /\ job'[i].sched = job[i].sched
            /\ job'[i].stamp = job[i].stamp
            /\ ~HasActiveRun(Flow(job[i].sched))
  BY CheckActiveMoves
<1>3. setup' = setup /\ run' = run /\ open' = open
  BY DEF CheckActive, rows
<1>4. \A j \in Instances \ {i} : marks'[j] = marks[j]
  <2>1. marks' = marks \/ marks' = [marks EXCEPT ![i][s] = job[i].stamp]
    BY DEF CheckActive
  <2> QED BY <2>1 DEF Typed, TypeOK
<1>5. Alone(i)'
  <2>1. CASE job'[i].at = "tick"
    BY <1>3, <2>1, AloneElsewhere
  <2>2. CASE job'[i].at = "insert" /\ job'[i].sched = s /\ ~HasActiveRun(Flow(s))
    <3>1. ~HasActiveRun(Flow(s))'
      BY <1>3, <2>2 DEF HasActiveRun, Flow
    <3>2. IsTable(s)' => marks'[i][s] # 0
      <4> SUFFICES ASSUME Kind(s) = "table" PROVE marks'[i][s] # 0
        BY <1>3 DEF IsTable, Kind
      <4>1. job[i].stamp # 0
        BY DEF AloneInv, Alone, Stamped, IsTable, CheckActive
      <4>2. marks' = [marks EXCEPT ![i][s] = job[i].stamp]
        BY DEF CheckActive, IsTable
      <4> QED BY <1>1, <4>1, <4>2 DEF Typed, TypeOK
    <3> QED BY <2>2, <3>1, <3>2 DEF Alone, Guarded, Stamped
  <2> QED BY <1>2, <2>1, <2>2
<1> QED BY <1>1, <1>2, <1>3, <1>4, <1>5, AloneMoves

LEMMA AloneEvaluate ==
    ASSUME Typed, AloneInv, NEW i \in Instances, NEW s \in Schedules, Evaluate(i, s)
    PROVE AloneInv'
<1>1. /\ Moves(i)
      /\ \/ job'[i].at = "check" /\ job'[i].sched = s /\ job'[i].stamp = StampOf(s)
         \/ job'[i].at = "tick" /\ job'[i].stamp = job[i].stamp
  BY EvaluateMoves
<1>2. setup' = setup /\ run' = run /\ open' = open /\ marks' = marks
  BY DEF Evaluate, rows
<1>3. IsTable(s) => StampOf(s) # 0
  BY StampIsPast, TypedParts
<1>4. Alone(i)'
  BY <1>1, <1>2, <1>3 DEF Alone, Guarded, Stamped, IsTable, Kind
<1> QED BY <1>1, <1>2, <1>4, AloneMoves, TypedParts

(* A row is added only when nobody else has flushed marks, and so only when   *)
(* nobody else is guarded.                                                    *)
LEMMA AloneAddRow ==
    ASSUME Typed, AloneInv, NEW a \in Actors, NEW k \in Runs, AddRow(a, k),
           \A j \in Instances \ {a} : marks'[j] = marks[j]
    PROVE AloneInv'
<1> SUFFICES ASSUME NEW j \in Instances PROVE Alone(j)'
  BY DEF AloneInv
<1>1. Moves(a) /\ job'[a].at = "spawn" /\ setup' = setup
  BY AddRowMoves DEF AddRow
<1>2. CASE j = a
  BY <1>1, <1>2, AloneElsewhere
<1>3. CASE j # a
  <2>1. marks[j] = NoMarks
    BY <1>3 DEF AddRow, MayWrite
  <2>2. job'[j] = job[j] /\ j \in Actors
    BY <1>1, <1>3, TypedParts DEF Moves
  <2>3. job[j].at = "insert" => job[j].sched \in Schedules
    BY <2>2, TypedParts DEF JobFits, InHand
  <2>4. job[j].at = "insert" => ~IsTable(job[j].sched)
    BY <2>1, <2>3 DEF AloneInv, Alone, Guarded, NoMarks
  <2>5. Stamped(j)
    BY DEF AloneInv, Alone
  <2> QED BY <1>1, <2>2, <2>4, <2>5 DEF Alone, Guarded, Stamped, IsTable, Kind
<1> QED BY <1>2, <1>3

LEMMA ClearedElsewhere ==
    ASSUME Typed, NEW i \in Instances
    PROVE \A j \in Instances \ {i} : [marks EXCEPT ![i] = NoMarks][j] = marks[j]
BY DEF Typed, TypeOK

LEMMA AloneNext == Typed /\ AloneInv /\ [Next]_vars => AloneInv'
<1> SUFFICES ASSUME Typed, AloneInv, [Next]_vars PROVE AloneInv'
  OBVIOUS
<1>0. Instances \subseteq Actors /\ Requests \subseteq Actors /\ Instances \cap Requests = {}
  BY TypedParts, NamesAssumption
<1>1. ASSUME NEW i \in Instances, InstanceStep(i) PROVE AloneInv'
  <2>1. CASE ReadLock(i)
    BY <1>0, <2>1, ReadLockMoves, AloneMoves, AloneElsewhere DEF ReadLock, rows
  <2>2. CASE CommitLock(i)
    BY <1>0, <2>2, CommitLockMoves, AloneMoves, AloneElsewhere DEF CommitLock, rows
  <2>3. CASE \E s \in Schedules : Evaluate(i, s)
    BY <2>3, AloneEvaluate
  <2>4. CASE CheckActive(i)
    BY <2>4, AloneCheck
  <2>5. CASE \E k \in Runs : PollInsert(i, k)
    BY <1>0, <2>5, AloneAddRow, ClearedElsewhere DEF PollInsert
  <2>6. CASE AdvanceCursor(i)
    BY <1>0, <2>6, OnwardMoves, AloneMoves, AloneElsewhere DEF AdvanceCursor, rows
  <2>7. CASE EndTick(i)
    BY <1>0, <2>7, IdleMoves, AloneMoves, AloneElsewhere, ClearedElsewhere DEF EndTick, rows
  <2> QED BY <1>1, <2>1, <2>2, <2>3, <2>4, <2>5, <2>6, <2>7 DEF InstanceStep
<1>2. ASSUME NEW i \in Instances, ReleaseLock(i) PROVE AloneInv'
  BY <1>2, AloneStill DEF ReleaseLock, rows
<1>3. ASSUME NEW i \in Instances, TickFails(i) \/ InstanceDies(i) PROVE AloneInv'
  <2>1. /\ setup' = setup /\ run' = run /\ open' \subseteq open
        /\ job' = [job EXCEPT ![i] = IdleJob] /\ marks' = [marks EXCEPT ![i] = NoMarks]
    BY <1>3 DEF TickFails, InstanceDies, rows
  <2> QED BY <1>0, <2>1, IdleMoves, AloneMoves, AloneElsewhere, ClearedElsewhere
<1>4. ASSUME NEW r \in Requests, RequestStep(r) PROVE AloneInv'
  <2>1. CASE \E s \in Schedules : PushCheck(r, s)
    BY <1>0, <2>1, PushCheckMoves, AloneMoves DEF PushCheck, rows
  <2>2. CASE PushMark(r)
    BY <1>0, <2>2, PushMarkMoves, AloneMoves DEF PushMark, rows
  <2>3. CASE \E k \in Runs : RequestInsert(r, k)
    BY <1>0, <2>3, AloneAddRow DEF RequestInsert
  <2>4. CASE EndPush(r)
    BY <1>0, <2>4, DoneMoves, AloneMoves DEF EndPush, rows
  <2> QED BY <1>4, <2>1, <2>2, <2>3, <2>4 DEF RequestStep
<1>5. ASSUME NEW r \in Requests, RequestStops(r) PROVE AloneInv'
  BY <1>0, <1>5, DoneMoves, AloneMoves DEF RequestStops, rows
<1>6. ASSUME NEW r \in Requests, NEW t \in Tables, Overwrite(r, t) PROVE AloneInv'
  BY <1>0, <1>6, OverwriteMoves, AloneMoves DEF Overwrite, rows
<1>7. ASSUME NEW r \in Requests, NEW s \in Schedules, RunNow(r, s) PROVE AloneInv'
  BY <1>0, <1>7, RunNowMoves, AloneMoves DEF RunNow, rows
<1>8. ASSUME NEW a \in Actors, Spawn(a) PROVE AloneInv'
  <2>1. a \in Instances => Alone(a)'
    BY <1>8, SpawnMoves, AloneElsewhere DEF Spawn
  <2> QED BY <1>8, <2>1, SpawnMoves, AloneMoves DEF Spawn
<1>9. ASSUME NEW a \in Actors, SpawnFails(a) PROVE AloneInv'
  <2>1. a \in Instances => Alone(a)'
    BY <1>9, OnwardMoves, AloneElsewhere DEF SpawnFails
  <2> QED BY <1>9, <2>1, OnwardMoves, AloneMoves DEF SpawnFails
<1>10. ASSUME NEW k \in Runs, ChildCompletes(k) \/ ChildDies(k) \/ CancelRun(k) PROVE AloneInv'
  BY <1>10, AloneStill DEF ChildCompletes, ChildDies, CancelRun
<1>11. CASE LockAges \/ SecondPasses
  BY <1>11, AloneStill DEF LockAges, SecondPasses, rows
<1>12. CASE UNCHANGED vars
  BY <1>12, AloneStill DEF vars
<1> QED BY <1>1, <1>2, <1>3, <1>4, <1>5, <1>6, <1>7, <1>8, <1>9, <1>10, <1>11, <1>12 DEF Next

(* A flow the poll launches for a table trigger has no other active run when  *)
(* its row is written, whatever the others checked in the meantime.           *)
THEOREM LaunchesAlone == Spec => []TableTriggerLaunchesAlone
<1>1. Init => AloneInv
  <2> SUFFICES ASSUME Init, NEW i \in Instances PROVE Alone(i)
    BY DEF AloneInv
  <2>1. job[i].at = "idle"
    BY JobIdle DEF Init, Actors
  <2> QED BY <2>1 DEF Alone, Guarded, Stamped
<1>2. Init => Typed
  BY TypedInit
<1>3. Typed /\ AloneInv /\ [Next]_vars => Typed' /\ AloneInv'
  BY TypedNext, AloneNext
<1>4. AloneInv => TableTriggerLaunchesAlone
  BY DEF AloneInv, Alone, Guarded, TableTriggerLaunchesAlone
<1> QED BY <1>1, <1>2, <1>3, <1>4, PTL DEF Spec

-----------------------------------------------------------------------------
(* One tick at a time. *)

(* An instance that ticks, or read its own row, holds the lock or is alone.   *)
Owns(i) == InTick(i) \/ (job[i].at = "lock" /\ job[i].plan = "refresh")
               => lock.holder = i \/ ~HasRival(i)

NoTakeover(i) == ~(job[i].at = "lock" /\ job[i].plan = "takeover")

Present == \A i \in Instances : job[i].at # "idle" => i \in setup.actors

Settled == /\ lock.holder # None => lock.fresh
           /\ \A i \in Instances : Owns(i) /\ NoTakeover(i)

LockInv == Present /\ (~contested => Settled)

(* A step of an instance that goes on ticking or ends its tick, or of anybody else. *)
LEMMA LockMoves ==
    ASSUME Typed, LockInv, NEW a \in Actors, Moves(a), UNCHANGED <<setup, lock, contested>>,
           a \in Instances => job'[a].at = "idle" \/ (InTick(a) /\ job'[a].at # "lock")
    PROVE LockInv'
<1>1. Present'
  <2> SUFFICES ASSUME NEW j \in Instances, job'[j].at # "idle" PROVE j \in setup.actors
    BY DEF Present
  <2>1. CASE j = a
    BY <2>1 DEF LockInv, Present, InTick
  <2>2. CASE j # a
    BY <2>2, TypedParts DEF LockInv, Present, Moves
  <2> QED BY <2>1, <2>2
<1>2. ASSUME ~contested' PROVE Settled'
  <2> SUFFICES ASSUME NEW j \in Instances PROVE Owns(j)' /\ NoTakeover(j)'
    BY <1>2 DEF LockInv, Settled
  <2>0. Owns(j) /\ NoTakeover(j)
    BY <1>2 DEF LockInv, Settled
  <2>1. CASE j = a
    BY <2>0, <2>1 DEF Owns, NoTakeover, InTick, HasRival
  <2>2. CASE j # a
    <3>1. job'[j] = job[j]
      BY <2>2, TypedParts DEF Moves
    <3> QED BY <2>0, <3>1 DEF Owns, NoTakeover, InTick, HasRival
  <2> QED BY <2>1, <2>2
<1> QED BY <1>1, <1>2 DEF LockInv

LEMMA LockStill ==
    ASSUME LockInv, UNCHANGED <<setup, lock, contested, job>>
    PROVE LockInv'
BY DEF LockInv, Present, Settled, Owns, NoTakeover, InTick, HasRival

LEMMA LockRead ==
    ASSUME Typed, LockInv, NEW i \in Instances, ReadLock(i)
    PROVE LockInv'
<1>1. /\ Moves(i) /\ job'[i].at = "lock"
      /\ job'[i].plan = (IF lock.holder = None THEN "add"
                         ELSE IF lock.holder = i THEN "refresh" ELSE "takeover")
  BY ReadLockMoves
<1>2. /\ setup' = setup /\ lock' = lock /\ contested' = contested /\ i \in setup.actors
      /\ lock.holder \in {None, i} \/ ~lock.fresh
  BY DEF ReadLock, database, history
<1>3. Present'
  BY <1>1, <1>2, TypedParts DEF LockInv, Present, Moves
<1>4. ASSUME ~contested' PROVE Settled'
  <2> SUFFICES ASSUME NEW j \in Instances PROVE Owns(j)' /\ NoTakeover(j)'
    BY <1>2, <1>4 DEF LockInv, Settled
  <2>0. Owns(j) /\ NoTakeover(j) /\ (lock.holder # None => lock.fresh)
    BY <1>2, <1>4 DEF LockInv, Settled
  <2>1. CASE j = i
    BY <1>1, <1>2, <2>0, <2>1 DEF Owns, NoTakeover, InTick
  <2>2. CASE j # i
    <3>1. job'[j] = job[j]
      BY <1>1, <2>2, TypedParts DEF Moves
    <3> QED BY <1>2, <2>0, <3>1 DEF Owns, NoTakeover, InTick, HasRival
  <2> QED BY <2>1, <2>2
<1> QED BY <1>3, <1>4 DEF LockInv

LEMMA LockCommit ==
    ASSUME Typed, LockInv, NEW i \in Instances, CommitLock(i)
    PROVE LockInv'
<1>1. /\ Moves(i) /\ job'[i].at \in {"tick", "idle"}
      /\ job'[i].at = "tick" <=> ((job[i].plan = "add") <=> (lock.holder = None))
  BY CommitLockMoves
<1>2. setup' = setup /\ job[i].at = "lock" /\ i \in setup.actors
  BY DEF CommitLock, LockInv, Present
<1>3. Present'
  BY <1>1, <1>2, TypedParts DEF LockInv, Present, Moves
<1>4. CASE ~((job[i].plan = "add") <=> (lock.holder = None))
  <2>1. lock' = lock /\ contested' = contested /\ job'[i].at = "idle"
    BY <1>1, <1>4 DEF CommitLock
  <2> QED BY <1>1, <1>2, <2>1, LockMoves, TypedParts
<1>5. CASE (job[i].plan = "add") <=> (lock.holder = None)
  <2>1. /\ lock'.holder = (IF job[i].plan = "refresh" THEN lock.holder ELSE i)
        /\ lock'.fresh = TRUE
        /\ contested' = (contested /\ (lock'.holder # i \/ \E j \in Instances \ {i} : job[j].at # "idle"))
        /\ job'[i].at = "tick"
    BY <1>1, <1>5 DEF CommitLock
  <2>2. ASSUME ~contested' PROVE Settled'
    <3> SUFFICES ASSUME NEW j \in Instances PROVE Owns(j)' /\ NoTakeover(j)'
      BY <2>1 DEF Settled
    <3>1. CASE contested
      <4>1. lock'.holder = i /\ \A x \in Instances \ {i} : job[x].at = "idle"
        BY <2>1, <2>2, <3>1
      <4>2. CASE j = i
        BY <2>1, <4>1, <4>2 DEF Owns, NoTakeover
      <4>3. CASE j # i
        <5>1. job'[j].at = "idle"
          BY <1>1, <4>1, <4>3, TypedParts DEF Moves
        <5> QED BY <5>1 DEF Owns, NoTakeover, InTick
      <4> QED BY <4>2, <4>3
    <3>2. CASE ~contested
      <4>1. Settled
        BY <3>2 DEF LockInv
      <4>2. Owns(j) /\ NoTakeover(j) /\ Owns(i) /\ NoTakeover(i)
        BY <4>1 DEF Settled
      <4>3. CASE j = i
        BY <1>2, <2>1, <4>2, <4>3 DEF Owns, NoTakeover, HasRival
      <4>4. CASE j # i
        <5>1. job'[j] = job[j]
          BY <1>1, <4>4, TypedParts DEF Moves
        <5>2. job[i].plan \in {"add", "refresh"}
          BY <1>2, <4>2, TypedParts DEF NoTakeover, Job
        <5>3. HasRival(j)
          BY <1>2, <4>4 DEF HasRival
        <5>4. CASE job[i].plan = "refresh"
          BY <1>2, <2>1, <4>2, <5>1, <5>4 DEF Owns, NoTakeover, InTick, HasRival
        <5>5. CASE job[i].plan = "add"
          <6>1. lock.holder = None /\ None \notin Instances
            BY <1>5, <5>5, NamesAssumption
          <6>2. ~(InTick(j) \/ (job[j].at = "lock" /\ job[j].plan = "refresh"))
            BY <4>2, <5>3, <6>1 DEF Owns
          <6> QED BY <4>2, <5>1, <6>2 DEF Owns, NoTakeover, InTick
        <5> QED BY <5>2, <5>4, <5>5
      <4> QED BY <4>3, <4>4
    <3> QED BY <3>1, <3>2
  <2> QED BY <1>3, <2>2 DEF LockInv
<1> QED BY <1>4, <1>5

LEMMA LockRelease ==
    ASSUME Typed, LockInv, NEW i \in Instances, ReleaseLock(i)
    PROVE LockInv'
<1>1. /\ setup' = setup /\ job' = job /\ lock.holder = i /\ lock'.holder = None
      /\ contested' = (contested \/ HasRival(i))
  BY DEF ReleaseLock
<1>2. Present'
  BY <1>1 DEF LockInv, Present
<1>3. ASSUME ~contested' PROVE Settled'
  <2>1. ~HasRival(i) /\ Settled
    BY <1>1, <1>3 DEF LockInv
  <2> SUFFICES ASSUME NEW j \in Instances PROVE Owns(j)' /\ NoTakeover(j)'
    BY <1>1 DEF Settled
  <2>2. Owns(j) /\ NoTakeover(j)
    BY <2>1 DEF Settled
  <2> QED BY <1>1, <2>1, <2>2 DEF Owns, NoTakeover, InTick, HasRival
<1> QED BY <1>2, <1>3 DEF LockInv

LEMMA LockDies ==
    ASSUME Typed, LockInv, NEW i \in Instances, InstanceDies(i)
    PROVE LockInv'
<1>1. Moves(i) /\ job'[i].at = "idle"
  BY IdleMoves, TypedParts DEF InstanceDies
<1>2. setup' = setup /\ contested' = contested
  BY DEF InstanceDies, history
<1>3. /\ lock'.fresh = lock.fresh
      /\ lock.holder # i => lock'.holder = lock.holder
      /\ lock.holder = None => lock'.holder = None
  <2>1. lock \in [holder : Instances \cup {Dead, None}, fresh : BOOLEAN]
    BY DEF Typed, TypeOK
  <2> QED BY <2>1, NamesAssumption DEF InstanceDies
<1>4. Present'
  BY <1>1, <1>2, TypedParts DEF LockInv, Present, Moves
<1>5. ASSUME ~contested' PROVE Settled'
  <2>1. Settled
    BY <1>2, <1>5 DEF LockInv
  <2> SUFFICES ASSUME NEW j \in Instances PROVE Owns(j)' /\ NoTakeover(j)'
    BY <1>3, <2>1 DEF Settled
  <2>2. CASE j = i
    BY <1>1, <2>2 DEF Owns, NoTakeover, InTick
  <2>3. CASE j # i
    <3>1. job'[j] = job[j] /\ Owns(j) /\ NoTakeover(j)
      BY <1>1, <2>1, <2>3, TypedParts DEF Moves, Settled
    <3> QED BY <1>2, <1>3, <2>3, <3>1 DEF Owns, NoTakeover, InTick, HasRival
  <2> QED BY <2>2, <2>3
<1> QED BY <1>4, <1>5 DEF LockInv

LEMMA LockNext == Typed /\ LockInv /\ [Next]_vars => LockInv'
<1> SUFFICES ASSUME Typed, LockInv, [Next]_vars PROVE LockInv'
  OBVIOUS
<1>0. Instances \subseteq Actors /\ Requests \subseteq Actors /\ Instances \cap Requests = {}
  BY TypedParts, NamesAssumption
<1>1. ASSUME NEW i \in Instances, InstanceStep(i) PROVE LockInv'
  <2>1. CASE ReadLock(i)
    BY <2>1, LockRead
  <2>2. CASE CommitLock(i)
    BY <2>2, LockCommit
  <2>3. CASE \E s \in Schedules : Evaluate(i, s)
    BY <1>0, <2>3, EvaluateMoves, LockMoves DEF Evaluate, database, history, InTick
  <2>4. CASE CheckActive(i)
    BY <1>0, <2>4, CheckActiveMoves, LockMoves DEF CheckActive, database, history, InTick
  <2>5. CASE \E k \in Runs : PollInsert(i, k)
    BY <1>0, <2>5, AddRowMoves, LockMoves DEF PollInsert, AddRow, InTick
  <2>6. CASE AdvanceCursor(i)
    BY <1>0, <2>6, OnwardMoves, LockMoves DEF AdvanceCursor, history, InTick
  <2>7. CASE EndTick(i)
    BY <1>0, <2>7, IdleMoves, LockMoves DEF EndTick, database, history
  <2> QED BY <1>1, <2>1, <2>2, <2>3, <2>4, <2>5, <2>6, <2>7 DEF InstanceStep
<1>2. ASSUME NEW i \in Instances, ReleaseLock(i) PROVE LockInv'
  BY <1>2, LockRelease
<1>3. ASSUME NEW i \in Instances, TickFails(i) PROVE LockInv'
  BY <1>0, <1>3, IdleMoves, LockMoves DEF TickFails, database, history
<1>4. ASSUME NEW i \in Instances, InstanceDies(i) PROVE LockInv'
  BY <1>4, LockDies
<1>5. ASSUME NEW r \in Requests, RequestStep(r) PROVE LockInv'
  <2>1. CASE \E s \in Schedules : PushCheck(r, s)
    BY <1>0, <2>1, PushCheckMoves, LockMoves DEF PushCheck, database, history
  <2>2. CASE PushMark(r)
    BY <1>0, <2>2, PushMarkMoves, LockMoves DEF PushMark, history
  <2>3. CASE \E k \in Runs : RequestInsert(r, k)
    BY <1>0, <2>3, AddRowMoves, LockMoves DEF RequestInsert, AddRow
  <2>4. CASE EndPush(r)
    BY <1>0, <2>4, DoneMoves, LockMoves DEF EndPush, database, history
  <2> QED BY <1>5, <2>1, <2>2, <2>3, <2>4 DEF RequestStep
<1>6. ASSUME NEW r \in Requests, RequestStops(r) PROVE LockInv'
  BY <1>0, <1>6, DoneMoves, LockMoves DEF RequestStops, database
<1>7. ASSUME NEW r \in Requests, NEW t \in Tables, Overwrite(r, t) PROVE LockInv'
  BY <1>0, <1>7, OverwriteMoves, LockMoves DEF Overwrite, history
<1>8. ASSUME NEW r \in Requests, NEW s \in Schedules, RunNow(r, s) PROVE LockInv'
  BY <1>0, <1>8, RunNowMoves, LockMoves DEF RunNow, database, history
<1>9. ASSUME NEW a \in Actors, Spawn(a) PROVE LockInv'
  BY <1>9, SpawnMoves, LockMoves DEF Spawn, database, history, InTick
<1>10. ASSUME NEW a \in Actors, SpawnFails(a) PROVE LockInv'
  BY <1>10, OnwardMoves, LockMoves DEF SpawnFails, database, history, InTick
<1>11. ASSUME NEW k \in Runs, ChildCompletes(k) \/ ChildDies(k) \/ CancelRun(k) PROVE LockInv'
  BY <1>11, LockStill DEF ChildCompletes, ChildDies, CancelRun, database, history
<1>12. CASE LockAges
  BY <1>12 DEF LockAges, LockInv, Present
<1>13. CASE SecondPasses
  BY <1>13, LockStill DEF SecondPasses, history
<1>14. CASE UNCHANGED vars
  BY <1>14, LockStill DEF vars
<1> QED BY <1>1, <1>2, <1>3, <1>4, <1>5, <1>6, <1>7, <1>8, <1>9, <1>10, <1>11, <1>12, <1>13, <1>14
    DEF Next

(* Two instances never tick at the same time unless a heartbeat went stale or *)
(* the lock row was deleted while another instance was there to take it.      *)
THEOREM OneTick == Spec => []OneTickPerLock
<1>1. Init => LockInv
  <2> SUFFICES ASSUME Init PROVE LockInv
    OBVIOUS
  <2>1. \A i \in Instances : job[i].at = "idle"
    BY JobIdle DEF Init, Actors
  <2>2. lock.holder = None
    BY DEF Init
  <2> QED BY <2>1, <2>2 DEF LockInv, Present, Settled, Owns, NoTakeover, InTick
<1>2. Init => Typed
  BY TypedInit
<1>3. Typed /\ LockInv /\ [Next]_vars => Typed' /\ LockInv'
  BY TypedNext, LockNext
<1>4. LockInv => OneTickPerLock
  <2> SUFFICES ASSUME LockInv, NEW i \in Instances, NEW j \in Instances,
                      i # j, InTick(i), InTick(j), ~contested
               PROVE FALSE
    BY DEF OneTickPerLock
  <2>1. i \in setup.actors /\ j \in setup.actors
    BY DEF LockInv, Present, InTick
  <2>2. HasRival(i) /\ HasRival(j)
    BY <2>1 DEF HasRival
  <2>3. Owns(i) /\ Owns(j)
    BY DEF LockInv, Settled
  <2> QED BY <2>2, <2>3 DEF Owns
<1> QED BY <1>1, <1>2, <1>3, <1>4, PTL DEF Spec

-----------------------------------------------------------------------------
(* Marks are covered by launches.                                             *)
(* No stamp that is stored, flushed or in hand is newer than its table.       *)

MarkedBy(i) ==
    /\ \A s \in Schedules : IsTable(s) => marks[i][s] <= StampOf(s)
    /\ job[i].at = "check" /\ IsTable(job[i].sched) => job[i].stamp <= StampOf(job[i].sched)

Pushes(r, s) == IsTable(s) /\ job[r].stamp # 0 /\ job[r].stamp <= StampOf(s)

PushedBy(r) == /\ \A s \in job[r].todo : Pushes(r, s)
               /\ job[r].at = "mark" => Pushes(r, job[r].sched)

SeenInPast == \A s \in Schedules : IsTable(s) => seen[s] <= StampOf(s)

PastInv == SeenInPast /\ (\A i \in Instances : MarkedBy(i)) /\ (\A r \in Requests : PushedBy(r))

(* A table's stamp only grows. *)
Grows == /\ setup' = setup
         /\ \A s \in Schedules : IsTable(s) => StampOf(s)' \in Nat /\ StampOf(s) <= StampOf(s)'

LEMMA StampGrows ==
    ASSUME Typed, setup' = setup,
           \A t \in Tables : updated'[t] \in Nat /\ updated[t] <= updated'[t]
    PROVE Grows
<1> SUFFICES ASSUME NEW s \in Schedules, IsTable(s)
             PROVE StampOf(s)' \in Nat /\ StampOf(s) <= StampOf(s)'
  BY DEF Grows
<1>1. PICK t \in Tables : setup.watched[s] = {t} /\ StampOf(s) = updated[t]
  BY StampIsPast
<1>2. (CHOOSE y \in Tables : y \in setup.watched[s]) = t
  BY <1>1
<1>3. StampOf(s)' = updated'[t]
  BY <1>2 DEF StampOf, IsTable, Kind, Watches
<1> QED BY <1>1, <1>3

LEMMA StampSame ==
    ASSUME Typed, UNCHANGED <<setup, updated>>
    PROVE Grows
<1>1. \A t \in Tables : updated[t] \in Nat
  BY TypedParts DEF Typed, TypeOK
<1> QED BY <1>1, StampGrows

LEMMA StampBounds ==
    ASSUME Typed
    PROVE /\ \A s \in Schedules : StampOf(s) \in Nat /\ seen[s] \in Nat /\ covered[s] \in Nat
          /\ \A i \in Instances : marks[i] \in [Schedules -> Nat]
<1>1. clock \in Nat
  BY TypedParts
<1>2. \A s \in Schedules : StampOf(s) \in 0 .. clock
  BY StampIsPast
<1> QED BY <1>1, <1>2 DEF Typed, TypeOK

LEMMA MarkedStill ==
    ASSUME Typed, PastInv, Grows, NEW j \in Instances, marks'[j] \in {marks[j], NoMarks},
           job'[j] = job[j] \/ job'[j].at # "check"
    PROVE MarkedBy(j)'
<1>1. \A s \in Schedules : IsTable(s)' => StampOf(s)' \in Nat /\ StampOf(s) <= StampOf(s)' /\ IsTable(s)
  BY DEF Grows, IsTable, Kind
<1>2. /\ MarkedBy(j)
      /\ \A s \in Schedules : marks[j][s] \in Nat /\ StampOf(s) \in Nat /\ NoMarks[s] = 0
      /\ job[j].stamp \in Nat /\ (job[j].at = "check" => job[j].sched \in Schedules)
  BY StampBounds, TypedParts DEF PastInv, NoMarks, JobFits, InHand
<1>3. \A s \in Schedules : IsTable(s)' => marks'[j][s] <= StampOf(s)'
  <2> TAKE s \in Schedules
  <2>1. marks'[j][s] = marks[j][s] \/ marks'[j][s] = 0
    BY <1>2
  <2> QED BY <1>1, <1>2, <2>1 DEF MarkedBy
<1>4. ASSUME job'[j].at = "check", IsTable(job[j].sched)', job'[j] = job[j]
      PROVE job[j].stamp <= StampOf(job[j].sched)'
  <2> PICK s \in Schedules : s = job[j].sched
    BY <1>2, <1>4
  <2>1. IsTable(s)' /\ job'[j].sched = s
    BY <1>4
  <2>2. job[j].stamp <= StampOf(s)
    BY <1>1, <1>2, <1>4, <2>1 DEF MarkedBy
  <2>3. job[j].stamp <= StampOf(s)'
    BY <1>1, <1>2, <2>1, <2>2
  <2> QED BY <2>1, <2>3
<1> QED BY <1>3, <1>4 DEF MarkedBy

LEMMA PushedStill ==
    ASSUME Typed, PastInv, Grows, NEW r \in Requests, job'[r] = job[r]
    PROVE PushedBy(r)'
<1>1. r \in Actors /\ job[r].stamp \in Nat /\ job[r].todo \subseteq Schedules
      /\ (job[r].at = "mark" => job[r].sched \in Schedules)
  BY TypedParts DEF JobFits, InHand
<1>2. \A s \in Schedules : Pushes(r, s) => Pushes(r, s)'
  <2> SUFFICES ASSUME NEW s \in Schedules, Pushes(r, s) PROVE Pushes(r, s)'
    OBVIOUS
  <2>1. StampOf(s) \in Nat /\ StampOf(s) <= StampOf(s)' /\ IsTable(s)' /\ StampOf(s)' \in Nat
    BY StampBounds DEF Pushes, Grows, IsTable, Kind
  <2> QED BY <1>1, <2>1 DEF Pushes
<1>3. PushedBy(r)
  BY DEF PastInv
<1>4. \A s \in job'[r].todo : Pushes(r, s)'
  BY <1>1, <1>2, <1>3 DEF PushedBy
<1>5. job'[r].at = "mark" => Pushes(r, job[r].sched)'
  <2> SUFFICES ASSUME job[r].at = "mark" PROVE Pushes(r, job[r].sched)'
    OBVIOUS
  <2> PICK s \in Schedules : s = job[r].sched
    BY <1>1
  <2>1. Pushes(r, s)' /\ job'[r].sched = s
    BY <1>2, <1>3 DEF PushedBy
  <2> QED BY <2>1
<1> QED BY <1>4, <1>5 DEF PushedBy

LEMMA PastMoves ==
    ASSUME Typed, PastInv, Grows, NEW a \in Actors, Moves(a),
           \A s \in Schedules : IsTable(s) => seen'[s] \in Nat /\ seen'[s] <= StampOf(s),
           \A j \in Instances \ {a} : marks'[j] = marks[j],
           a \in Instances => MarkedBy(a)', a \in Requests => PushedBy(a)'
    PROVE PastInv'
<1>1. SeenInPast'
  <2> SUFFICES ASSUME NEW s \in Schedules, IsTable(s)' PROVE seen'[s] <= StampOf(s)'
    BY DEF SeenInPast
  <2>1. IsTable(s)
    BY DEF Grows, IsTable, Kind
  <2>2. seen'[s] \in Nat /\ seen'[s] <= StampOf(s) /\ StampOf(s) \in Nat
        /\ StampOf(s)' \in Nat /\ StampOf(s) <= StampOf(s)'
    BY <2>1, StampBounds DEF Grows
  <2> QED BY <2>2
<1>2. ASSUME NEW i \in Instances PROVE MarkedBy(i)'
  <2>1. CASE i = a
    BY <2>1
  <2>2. CASE i # a
    BY <2>2, MarkedStill, TypedParts DEF Moves
  <2> QED BY <2>1, <2>2
<1>3. ASSUME NEW r \in Requests PROVE PushedBy(r)'
  <2>1. CASE r = a
    BY <2>1
  <2>2. CASE r # a
    BY <2>2, PushedStill, TypedParts DEF Moves
  <2> QED BY <2>1, <2>2
<1> QED BY <1>1, <1>2, <1>3 DEF PastInv

LEMMA PastStill ==
    ASSUME Typed, PastInv, Grows, UNCHANGED <<job, seen, marks>>
    PROVE PastInv'
<1>1. SeenInPast'
  <2> SUFFICES ASSUME NEW s \in Schedules, IsTable(s)' PROVE seen'[s] <= StampOf(s)'
    BY DEF SeenInPast
  <2>1. IsTable(s)
    BY DEF Grows, IsTable, Kind
  <2>2. seen'[s] \in Nat /\ seen'[s] <= StampOf(s) /\ StampOf(s) \in Nat
        /\ StampOf(s)' \in Nat /\ StampOf(s) <= StampOf(s)'
    BY <2>1, StampBounds DEF Grows, PastInv, SeenInPast
  <2> QED BY <2>2
<1>2. \A i \in Instances : MarkedBy(i)'
  BY MarkedStill
<1>3. \A r \in Requests : PushedBy(r)'
  BY PushedStill
<1> QED BY <1>1, <1>2, <1>3 DEF PastInv

LEMMA SeenSame ==
    ASSUME Typed, PastInv, seen' = seen
    PROVE \A s \in Schedules : IsTable(s) => seen'[s] \in Nat /\ seen'[s] <= StampOf(s)
BY StampBounds DEF PastInv, SeenInPast

(* A request that goes on with the schedules it has left. *)
LEMMA PushedOn ==
    ASSUME Typed, PastInv, Grows, NEW r \in Requests, Moves(r), job'[r].at # "mark",
           \/ job'[r].todo \subseteq job[r].todo /\ job'[r].stamp = job[r].stamp
           \/ job'[r].todo = {}
    PROVE PushedBy(r)'
<1>1. r \in Actors /\ job[r].stamp \in Nat /\ job[r].todo \subseteq Schedules
  BY TypedParts
<1> SUFFICES ASSUME NEW s \in job'[r].todo PROVE Pushes(r, s)'
  BY DEF PushedBy
<1>2. s \in Schedules /\ Pushes(r, s) /\ job'[r].stamp = job[r].stamp
  BY <1>1 DEF PastInv, PushedBy
<1>3. StampOf(s) \in Nat /\ StampOf(s) <= StampOf(s)' /\ IsTable(s)' /\ StampOf(s)' \in Nat
  BY <1>2, StampBounds DEF Pushes, Grows, IsTable, Kind
<1> QED BY <1>1, <1>2, <1>3 DEF Pushes

LEMMA PastEvaluate ==
    ASSUME Typed, PastInv, NEW i \in Instances, NEW s \in Schedules, Evaluate(i, s)
    PROVE PastInv'
<1>1. /\ Moves(i) /\ i \in Actors /\ i \notin Requests
      /\ \/ job'[i].at = "check" /\ job'[i].sched = s /\ job'[i].stamp = StampOf(s)
         \/ job'[i].at = "tick" /\ job'[i].stamp = job[i].stamp
  BY EvaluateMoves, TypedParts, NamesAssumption
<1>2. UNCHANGED <<setup, updated, seen, marks>>
  BY DEF Evaluate, database
<1>3. Grows
  BY <1>2, StampSame
<1>4. MarkedBy(i)'
  <2>1. CASE job'[i].at = "tick"
    BY <1>2, <1>3, <2>1, MarkedStill
  <2>2. CASE job'[i].at = "check" /\ job'[i].sched = s /\ job'[i].stamp = StampOf(s)
    <3>1. \A x \in Schedules : IsTable(x)' => marks'[i][x] <= StampOf(x)'
      <4> SUFFICES ASSUME NEW x \in Schedules, IsTable(x)' PROVE marks'[i][x] <= StampOf(x)'
        OBVIOUS
      <4>1. IsTable(x)
        BY <1>2 DEF IsTable, Kind
      <4>2. marks[i][x] \in Nat /\ StampOf(x) \in Nat /\ marks[i][x] <= StampOf(x)
            /\ StampOf(x)' \in Nat /\ StampOf(x) <= StampOf(x)'
        BY <1>3, <4>1, StampBounds DEF Grows, PastInv, MarkedBy
      <4> QED BY <1>2, <4>2
    <3>2. IsTable(s)' => StampOf(s) <= StampOf(s)'
      BY <1>3 DEF Grows, IsTable, Kind
    <3> QED BY <2>2, <3>1, <3>2 DEF MarkedBy
  <2> QED BY <1>1, <2>1, <2>2
<1> QED BY <1>1, <1>2, <1>3, <1>4, PastMoves, SeenSame

LEMMA PastCheck ==
    ASSUME Typed, PastInv, NEW i \in Instances, CheckActive(i)
    PROVE PastInv'
<1>0. job[i].sched \in Schedules
  BY TypedParts DEF JobFits, InHand, CheckActive
<1> PICK s \in Schedules : s = job[i].sched
  BY <1>0
<1>1. Moves(i) /\ i \in Actors /\ i \notin Requests /\ job'[i].at # "check"
  BY CheckActiveMoves, TypedParts, NamesAssumption
<1>2. /\ UNCHANGED <<setup, updated, seen>> /\ job[i].at = "check"
      /\ \/ marks' = marks
         \/ marks' = [marks EXCEPT ![i][s] = job[i].stamp] /\ IsTable(s)
  BY DEF CheckActive, database, IsTable
<1>3. Grows
  BY <1>2, StampSame
<1>4. marks \in [Instances -> [Schedules -> Nat]] /\ job[i].stamp \in Nat
  BY StampBounds, TypedParts DEF Typed, TypeOK
<1>5. \A j \in Instances \ {i} : marks'[j] = marks[j]
  BY <1>2, <1>4
<1>6. MarkedBy(i)'
  <2> SUFFICES ASSUME NEW x \in Schedules, IsTable(x)' PROVE marks'[i][x] <= StampOf(x)'
    BY <1>1 DEF MarkedBy
  <2>1. IsTable(x)
    BY <1>2 DEF IsTable, Kind
  <2>2. marks[i][x] <= StampOf(x) /\ (IsTable(s) => job[i].stamp <= StampOf(s))
    BY <1>2, <2>1 DEF PastInv, MarkedBy
  <2>3. StampOf(x) \in Nat /\ StampOf(x)' \in Nat /\ StampOf(x) <= StampOf(x)'
    BY <1>3, <2>1, StampBounds DEF Grows
  <2>4. marks'[i][x] = marks[i][x] \/ (marks'[i][x] = job[i].stamp /\ x = s /\ IsTable(s))
    BY <1>2, <1>4
  <2>5. marks[i][x] \in Nat
    BY <1>4
  <2> QED BY <1>4, <2>2, <2>3, <2>4, <2>5
<1> QED BY <1>1, <1>2, <1>3, <1>5, <1>6, PastMoves, SeenSame

LEMMA PastPollInsert ==
    ASSUME Typed, PastInv, NEW i \in Instances, NEW k \in Runs, PollInsert(i, k)
    PROVE PastInv'
<1>1. Moves(i) /\ i \in Actors /\ i \notin Requests /\ job'[i].at # "check"
  BY AddRowMoves, TypedParts, NamesAssumption DEF PollInsert
<1>2. UNCHANGED <<setup, updated>> /\ marks' = [marks EXCEPT ![i] = NoMarks]
  BY DEF PollInsert, AddRow
<1>3. Grows
  BY <1>2, StampSame
<1>4. marks'[i] = NoMarks /\ \A j \in Instances \ {i} : marks'[j] = marks[j]
  BY <1>2 DEF Typed, TypeOK
<1>5. \A s \in Schedules : IsTable(s) => seen'[s] \in Nat /\ seen'[s] <= StampOf(s)
  <2> SUFFICES ASSUME NEW s \in Schedules, IsTable(s)
               PROVE seen'[s] \in Nat /\ seen'[s] <= StampOf(s)
    OBVIOUS
  <2>1. seen[s] <= StampOf(s) /\ marks[i][s] <= StampOf(s) /\ seen[s] \in Nat /\ marks[i][s] \in Nat
    BY StampBounds DEF PastInv, SeenInPast, MarkedBy
  <2>2. seen'[s] \in {seen[s], marks[i][s]}
    BY DEF PollInsert
  <2> QED BY <2>1, <2>2
<1>6. MarkedBy(i)'
  BY <1>1, <1>3, <1>4, MarkedStill
<1> QED BY <1>1, <1>3, <1>4, <1>5, <1>6, PastMoves

LEMMA PastOverwrite ==
    ASSUME Typed, PastInv, NEW r \in Requests, NEW t \in Tables, Overwrite(r, t)
    PROVE PastInv'
<1>1. /\ Moves(r) /\ r \in Actors /\ r \notin Instances /\ job'[r].at = "push" /\ job'[r].stamp = clock
      /\ \A s \in job'[r].todo : s \in Schedules /\ IsTable(s) /\ Watches(s, t)
  BY OverwriteMoves, TypedParts, NamesAssumption
<1>2. /\ UNCHANGED <<setup, seen, marks>> /\ updated' = [updated EXCEPT ![t] = clock]
      /\ clock \in Nat /\ clock # 0 /\ updated \in [Tables -> 1 .. clock]
  BY TypedParts DEF Overwrite, Typed, TypeOK
<1>3. \A x \in Tables : updated'[x] \in Nat /\ updated[x] <= updated'[x]
  BY <1>2
<1>4. Grows
  BY <1>2, <1>3, StampGrows
<1>5. PushedBy(r)'
  <2> SUFFICES ASSUME NEW s \in job'[r].todo PROVE Pushes(r, s)'
    BY <1>1 DEF PushedBy
  <2>1. s \in Schedules /\ IsTable(s) /\ Watches(s, t)
    BY <1>1
  <2>2. PICK y \in Tables : setup.watched[s] = {y}
    BY <2>1, StampIsPast
  <2>3. y = t /\ (CHOOSE x \in Tables : x \in setup.watched[s]) = t
    BY <2>1, <2>2 DEF Watches
  <2>4. StampOf(s)' = updated'[t] /\ IsTable(s)'
    BY <1>2, <2>1, <2>3 DEF StampOf, IsTable, Kind, Watches
  <2>5. updated'[t] = clock
    BY <1>2
  <2> QED BY <1>1, <1>2, <2>4, <2>5 DEF Pushes
<1> QED BY <1>1, <1>2, <1>4, <1>5, PastMoves, SeenSame

LEMMA PastPushCheck ==
    ASSUME Typed, PastInv, NEW r \in Requests, NEW s \in Schedules, PushCheck(r, s)
    PROVE PastInv'
<1>1. /\ Moves(r) /\ r \in Actors /\ r \notin Instances
      /\ job'[r].todo \subseteq job[r].todo /\ job'[r].stamp = job[r].stamp
      /\ \/ job'[r].at = "push"
         \/ job'[r].at = "mark" /\ job'[r].sched = s /\ s \in job[r].todo
  BY PushCheckMoves, TypedParts, NamesAssumption
<1>2. UNCHANGED <<setup, updated, seen, marks>>
  BY DEF PushCheck, database
<1>3. Grows
  BY <1>2, StampSame
<1>4. \A x \in job[r].todo : Pushes(r, x)'
  <2> SUFFICES ASSUME NEW x \in job[r].todo PROVE Pushes(r, x)'
    OBVIOUS
  <2>1. x \in Schedules /\ Pushes(r, x) /\ job[r].stamp \in Nat
    BY <1>1, TypedParts DEF PastInv, PushedBy
  <2>2. StampOf(x) \in Nat /\ StampOf(x) <= StampOf(x)' /\ IsTable(x)' /\ StampOf(x)' \in Nat
    BY <1>3, <2>1, StampBounds DEF Pushes, Grows, IsTable, Kind
  <2> QED BY <1>1, <2>1, <2>2 DEF Pushes
<1>5. PushedBy(r)'
  <2>1. \A x \in job'[r].todo : Pushes(r, x)'
    BY <1>1, <1>4
  <2>2. CASE job'[r].at = "push"
    BY <2>1, <2>2 DEF PushedBy
  <2>3. CASE job'[r].at = "mark" /\ job'[r].sched = s /\ s \in job[r].todo
    <3>1. Pushes(r, s)'
      BY <1>4, <2>3
    <3> QED BY <2>1, <2>3, <3>1 DEF PushedBy
  <2> QED BY <1>1, <2>2, <2>3
<1> QED BY <1>1, <1>2, <1>3, <1>5, PastMoves, SeenSame

LEMMA PastPushMark ==
    ASSUME Typed, PastInv, NEW r \in Requests, PushMark(r)
    PROVE PastInv'
<1>1. /\ Moves(r) /\ r \in Actors /\ r \notin Instances /\ job'[r].at = "insert"
      /\ job'[r].todo = job[r].todo /\ job'[r].stamp = job[r].stamp /\ job[r].stamp \in Nat
  BY PushMarkMoves, TypedParts, NamesAssumption
<1>2. /\ UNCHANGED <<setup, updated, marks>>
      /\ seen' = [seen EXCEPT ![job[r].sched] = job[r].stamp]
  BY DEF PushMark
<1>3. Grows
  BY <1>2, StampSame
<1>4. PushedBy(r)'
  BY <1>1, <1>3, PushedOn
<1>5. \A s \in Schedules : IsTable(s) => seen'[s] \in Nat /\ seen'[s] <= StampOf(s)
  <2> SUFFICES ASSUME NEW s \in Schedules, IsTable(s)
               PROVE seen'[s] \in Nat /\ seen'[s] <= StampOf(s)
    OBVIOUS
  <2>1. seen[s] <= StampOf(s) /\ seen[s] \in Nat
    BY StampBounds DEF PastInv, SeenInPast
  <2>2. s = job[r].sched => job[r].stamp <= StampOf(s)
    BY DEF PushMark, PastInv, PushedBy, Pushes
  <2>3. seen'[s] = (IF s = job[r].sched THEN job[r].stamp ELSE seen[s])
    BY <1>2 DEF Typed, TypeOK
  <2> QED BY <1>1, <2>1, <2>2, <2>3
<1> QED BY <1>1, <1>2, <1>3, <1>4, <1>5, PastMoves

LEMMA PastNext == Typed /\ PastInv /\ [Next]_vars => PastInv'
<1> SUFFICES ASSUME Typed, PastInv, [Next]_vars PROVE PastInv'
  OBVIOUS
<1>0. Instances \subseteq Actors /\ Requests \subseteq Actors /\ Instances \cap Requests = {}
  BY TypedParts, NamesAssumption
(* An instance's step that leaves the tables and their marks alone. *)
<1>A. ASSUME NEW i \in Instances, Moves(i), job'[i].at # "check", UNCHANGED <<setup, updated, seen>>,
             marks' = marks \/ marks' = [marks EXCEPT ![i] = NoMarks]
      PROVE PastInv'
  <2>1. marks'[i] \in {marks[i], NoMarks} /\ \A j \in Instances \ {i} : marks'[j] = marks[j]
    BY <1>A DEF Typed, TypeOK
  <2>2. Grows
    BY <1>A, StampSame
  <2>3. MarkedBy(i)'
    BY <1>A, <2>1, <2>2, MarkedStill
  <2> QED BY <1>0, <1>A, <2>1, <2>2, <2>3, PastMoves, SeenSame
(* A request's. *)
<1>B. ASSUME NEW r \in Requests, Moves(r), job'[r].at # "mark", UNCHANGED <<setup, updated, seen, marks>>,
             \/ job'[r].todo \subseteq job[r].todo /\ job'[r].stamp = job[r].stamp
             \/ job'[r].todo = {}
      PROVE PastInv'
  <2>1. Grows
    BY <1>B, StampSame
  <2>2. PushedBy(r)'
    BY <1>B, <2>1, PushedOn
  <2> QED BY <1>0, <1>B, <2>1, <2>2, PastMoves, SeenSame
<1>1. ASSUME NEW i \in Instances, InstanceStep(i) PROVE PastInv'
  <2>1. CASE ReadLock(i)
    BY <1>A, <2>1, ReadLockMoves DEF ReadLock, database
  <2>2. CASE CommitLock(i)
    BY <1>A, <2>2, CommitLockMoves DEF CommitLock
  <2>3. CASE \E s \in Schedules : Evaluate(i, s)
    BY <2>3, PastEvaluate
  <2>4. CASE CheckActive(i)
    BY <2>4, PastCheck
  <2>5. CASE \E k \in Runs : PollInsert(i, k)
    BY <2>5, PastPollInsert
  <2>6. CASE AdvanceCursor(i)
    BY <1>0, <1>A, <2>6, OnwardMoves DEF AdvanceCursor
  <2>7. CASE EndTick(i)
    BY <1>0, <1>A, <2>7, IdleMoves DEF EndTick, database
  <2> QED BY <1>1, <2>1, <2>2, <2>3, <2>4, <2>5, <2>6, <2>7 DEF InstanceStep
<1>2. ASSUME NEW i \in Instances, ReleaseLock(i) PROVE PastInv'
  BY <1>2, PastStill, StampSame DEF ReleaseLock
<1>3. ASSUME NEW i \in Instances, TickFails(i) \/ InstanceDies(i) PROVE PastInv'
  BY <1>0, <1>A, <1>3, IdleMoves DEF TickFails, InstanceDies, database
<1>4. ASSUME NEW r \in Requests, RequestStep(r) PROVE PastInv'
  <2>1. CASE \E s \in Schedules : PushCheck(r, s)
    BY <2>1, PastPushCheck
  <2>2. CASE PushMark(r)
    BY <2>2, PastPushMark
  <2>3. CASE \E k \in Runs : RequestInsert(r, k)
    BY <1>0, <1>B, <2>3, AddRowMoves DEF RequestInsert, AddRow
  <2>4. CASE EndPush(r)
    BY <1>0, <1>B, <2>4, DoneMoves DEF EndPush, database
  <2> QED BY <1>4, <2>1, <2>2, <2>3, <2>4 DEF RequestStep
<1>5. ASSUME NEW r \in Requests, RequestStops(r) PROVE PastInv'
  BY <1>0, <1>B, <1>5, DoneMoves DEF RequestStops, database
<1>6. ASSUME NEW r \in Requests, NEW t \in Tables, Overwrite(r, t) PROVE PastInv'
  BY <1>6, PastOverwrite
<1>7. ASSUME NEW r \in Requests, NEW s \in Schedules, RunNow(r, s) PROVE PastInv'
  BY <1>B, <1>7, RunNowMoves DEF RunNow, database
<1>8. ASSUME NEW a \in Actors, Spawn(a) PROVE PastInv'
  <2>1. UNCHANGED <<setup, updated, seen, marks>>
    BY <1>8 DEF Spawn, database
  <2>2. CASE a \in Instances
    BY <1>8, <1>A, <2>1, <2>2, SpawnMoves
  <2>3. CASE a \in Requests
    BY <1>8, <1>B, <2>1, <2>3, SpawnMoves
  <2> QED BY <2>2, <2>3 DEF Actors
<1>9. ASSUME NEW a \in Actors, SpawnFails(a) PROVE PastInv'
  <2>1. UNCHANGED <<setup, updated, seen, marks>>
    BY <1>9 DEF SpawnFails, database
  <2>2. CASE a \in Instances
    BY <1>9, <1>A, <2>1, <2>2, OnwardMoves DEF SpawnFails
  <2>3. CASE a \in Requests
    BY <1>9, <1>B, <2>1, <2>3, OnwardMoves DEF SpawnFails
  <2> QED BY <2>2, <2>3 DEF Actors
<1>10. ASSUME NEW k \in Runs, ChildCompletes(k) \/ ChildDies(k) \/ CancelRun(k) PROVE PastInv'
  BY <1>10, PastStill, StampSame DEF ChildCompletes, ChildDies, CancelRun, database
<1>11. CASE LockAges \/ SecondPasses
  BY <1>11, PastStill, StampSame DEF LockAges, SecondPasses
<1>12. CASE UNCHANGED vars
  BY <1>12, PastStill, StampSame DEF vars
<1> QED BY <1>1, <1>2, <1>3, <1>4, <1>5, <1>6, <1>7, <1>8, <1>9, <1>10, <1>11, <1>12 DEF Next

(* A step of an actor that neither notes a mark nor abandons a push. *)
LEMMA CoveredMoves ==
    ASSUME Typed, MarksAreCovered, NEW a \in Actors, Moves(a), UNCHANGED <<setup, seen, covered, swept>>,
           a \in Requests => job[a].at # "insert" \/ job[a].stamp = 0
    PROVE MarksAreCovered'
<1> SUFFICES ASSUME NEW s \in Schedules, IsTable(s)', seen'[s] > covered'[s], s \notin swept'
             PROVE Pushing(s)'
  BY DEF MarksAreCovered
<1>1. Pushing(s)
  BY DEF MarksAreCovered, IsTable, Kind
<1>2. PICK r \in Requests : job[r].at = "insert" /\ job[r].sched = s /\ job[r].stamp # 0
  BY <1>1 DEF Pushing
<1>3. job'[r] = job[r]
  BY <1>2, TypedParts DEF Moves
<1> QED BY <1>2, <1>3 DEF Pushing

LEMMA CoveredStill ==
    ASSUME MarksAreCovered, UNCHANGED <<setup, seen, covered, swept, job>>
    PROVE MarksAreCovered'
BY DEF MarksAreCovered, Pushing, IsTable, Kind

LEMMA CoveredPollInsert ==
    ASSUME Typed, PastInv, MarksAreCovered, NEW i \in Instances, NEW k \in Runs, PollInsert(i, k)
    PROVE MarksAreCovered'
<1>0. i \in Actors /\ i \notin Requests /\ job[i].sched \in Schedules
  BY TypedParts, NamesAssumption DEF JobFits, InHand, PollInsert, AddRow
<1> PICK o \in Schedules : o = job[i].sched
  BY <1>0
<1>1. Moves(i) /\ setup' = setup
  BY <1>0, AddRowMoves DEF PollInsert, AddRow
<1>2. /\ covered' = [x \in Schedules |-> IF x \in SameFlow(o) THEN StampOf(x) ELSE covered[x]]
      /\ seen' = [x \in Schedules |-> IF marks[i][x] # 0 THEN marks[i][x] ELSE seen[x]]
      /\ swept' = (swept \cup {x \in Schedules \ {o} : marks[i][x] # 0}) \ SameFlow(o)
  BY DEF PollInsert, AddRow, AllNoticed
<1> SUFFICES ASSUME NEW s \in Schedules, IsTable(s), seen'[s] > covered'[s], s \notin swept'
             PROVE Pushing(s)'
  BY <1>1 DEF MarksAreCovered, IsTable, Kind
<1>3. /\ seen[s] <= StampOf(s) /\ marks[i][s] <= StampOf(s) /\ seen[s] \in Nat
      /\ marks[i][s] \in Nat /\ StampOf(s) \in Nat
  BY StampBounds DEF PastInv, SeenInPast, MarkedBy
<1>4. s \notin SameFlow(o)
  <2> SUFFICES ASSUME s \in SameFlow(o) PROVE FALSE
    OBVIOUS
  <2>1. covered'[s] = StampOf(s) /\ seen'[s] \in {marks[i][s], seen[s]}
    BY <1>2
  <2> QED BY <1>3, <2>1
<1>5. s # o
  BY <1>4 DEF SameFlow, IsTable
<1>6. marks[i][s] = 0 /\ s \notin swept
  BY <1>2, <1>4, <1>5
<1>7. seen[s] > covered[s]
  BY <1>2, <1>4, <1>6
<1>8. Pushing(s)
  BY <1>6, <1>7 DEF MarksAreCovered
<1>9. PICK r \in Requests : job[r].at = "insert" /\ job[r].sched = s /\ job[r].stamp # 0
  BY <1>8 DEF Pushing
<1>10. job'[r] = job[r]
  BY <1>0, <1>1, <1>9, TypedParts DEF Moves
<1> QED BY <1>9, <1>10 DEF Pushing

LEMMA CoveredRequestInsert ==
    ASSUME Typed, PastInv, MarksAreCovered, NEW a \in Requests, NEW k \in Runs, RequestInsert(a, k)
    PROVE MarksAreCovered'
<1>0. a \in Actors /\ job[a].sched \in Schedules
  BY TypedParts DEF JobFits, InHand, RequestInsert, AddRow
<1> PICK o \in Schedules : o = job[a].sched
  BY <1>0
<1>1. Moves(a) /\ setup' = setup
  BY <1>0, AddRowMoves DEF RequestInsert, AddRow
<1>2. /\ covered' = [x \in Schedules |-> IF x \in SameFlow(o) THEN StampOf(x) ELSE covered[x]]
      /\ seen' = seen /\ swept' = swept \ SameFlow(o)
  BY DEF RequestInsert, AddRow, AllNoticed
<1> SUFFICES ASSUME NEW s \in Schedules, IsTable(s), seen'[s] > covered'[s], s \notin swept'
             PROVE Pushing(s)'
  BY <1>1 DEF MarksAreCovered, IsTable, Kind
<1>3. seen[s] <= StampOf(s) /\ seen[s] \in Nat /\ StampOf(s) \in Nat
  BY StampBounds DEF PastInv, SeenInPast
<1>4. s \notin SameFlow(o)
  BY <1>2, <1>3
<1>5. s # o
  BY <1>4 DEF SameFlow, IsTable
<1>6. seen[s] > covered[s] /\ s \notin swept
  BY <1>2, <1>4
<1>7. PICK r \in Requests : job[r].at = "insert" /\ job[r].sched = s /\ job[r].stamp # 0
  BY <1>6 DEF MarksAreCovered, Pushing
<1>8. job'[r] = job[r]
  BY <1>1, <1>5, <1>7, TypedParts DEF Moves
<1> QED BY <1>7, <1>8 DEF Pushing

LEMMA CoveredPushMark ==
    ASSUME Typed, PastInv, MarksAreCovered, NEW a \in Requests, PushMark(a)
    PROVE MarksAreCovered'
<1>0. /\ a \in Actors /\ job[a].sched \in Schedules /\ job[a].at = "mark" /\ job[a].stamp # 0
  BY TypedParts DEF JobFits, InHand, PushMark, PastInv, PushedBy, Pushes
<1> PICK o \in Schedules : o = job[a].sched
  BY <1>0
<1>1. /\ Moves(a) /\ job'[a].at = "insert" /\ job'[a].sched = o /\ job'[a].stamp = job[a].stamp
  BY PushMarkMoves
<1>2. /\ UNCHANGED <<setup, covered, swept>> /\ seen' = [seen EXCEPT ![o] = job[a].stamp]
  BY DEF PushMark, history
<1> SUFFICES ASSUME NEW s \in Schedules, IsTable(s), seen'[s] > covered'[s], s \notin swept'
             PROVE Pushing(s)'
  BY <1>2 DEF MarksAreCovered, IsTable, Kind
<1>3. CASE s = o
  BY <1>0, <1>1, <1>3 DEF Pushing
<1>4. CASE s # o
  <2>1. seen[s] > covered[s] /\ s \notin swept
    BY <1>2, <1>4 DEF Typed, TypeOK
  <2>2. PICK r \in Requests : job[r].at = "insert" /\ job[r].sched = s /\ job[r].stamp # 0
    BY <2>1 DEF MarksAreCovered, Pushing
  <2>3. job'[r] = job[r]
    BY <1>0, <1>1, <2>2, TypedParts DEF Moves
  <2> QED BY <2>2, <2>3 DEF Pushing
<1> QED BY <1>3, <1>4

LEMMA CoveredStops ==
    ASSUME Typed, MarksAreCovered, NEW a \in Requests, RequestStops(a)
    PROVE MarksAreCovered'
<1>1. Moves(a) /\ a \in Actors /\ UNCHANGED <<setup, seen, covered>>
  BY DoneMoves, TypedParts DEF RequestStops, database
<1>2. /\ swept \subseteq swept'
      /\ job[a].at = "insert" /\ job[a].stamp # 0 => job[a].sched \in swept'
  BY DEF RequestStops
<1> SUFFICES ASSUME NEW s \in Schedules, IsTable(s), seen'[s] > covered'[s], s \notin swept'
             PROVE Pushing(s)'
  BY <1>1 DEF MarksAreCovered, IsTable, Kind
<1>3. PICK r \in Requests : job[r].at = "insert" /\ job[r].sched = s /\ job[r].stamp # 0
  BY <1>1, <1>2 DEF MarksAreCovered, Pushing
<1>4. r # a
  BY <1>2, <1>3
<1>5. job'[r] = job[r]
  BY <1>1, <1>4, TypedParts DEF Moves
<1> QED BY <1>3, <1>5 DEF Pushing

LEMMA CoveredNext == Typed /\ PastInv /\ MarksAreCovered /\ [Next]_vars => MarksAreCovered'
<1> SUFFICES ASSUME Typed, PastInv, MarksAreCovered, [Next]_vars PROVE MarksAreCovered'
  OBVIOUS
<1>0. Instances \subseteq Actors /\ Requests \subseteq Actors /\ Instances \cap Requests = {}
  BY TypedParts, NamesAssumption
<1>1. ASSUME NEW i \in Instances, InstanceStep(i) PROVE MarksAreCovered'
  <2>1. CASE ReadLock(i)
    BY <1>0, <2>1, ReadLockMoves, CoveredMoves DEF ReadLock, database, history
  <2>2. CASE CommitLock(i)
    BY <1>0, <2>2, CommitLockMoves, CoveredMoves DEF CommitLock
  <2>3. CASE \E s \in Schedules : Evaluate(i, s)
    BY <1>0, <2>3, EvaluateMoves, CoveredMoves DEF Evaluate, database, history
  <2>4. CASE CheckActive(i)
    BY <1>0, <2>4, CheckActiveMoves, CoveredMoves DEF CheckActive, database, history
  <2>5. CASE \E k \in Runs : PollInsert(i, k)
    BY <2>5, CoveredPollInsert
  <2>6. CASE AdvanceCursor(i)
    BY <1>0, <2>6, OnwardMoves, CoveredMoves DEF AdvanceCursor, history
  <2>7. CASE EndTick(i)
    BY <1>0, <2>7, IdleMoves, CoveredMoves DEF EndTick, database, history
  <2> QED BY <1>1, <2>1, <2>2, <2>3, <2>4, <2>5, <2>6, <2>7 DEF InstanceStep
<1>2. ASSUME NEW i \in Instances, ReleaseLock(i) PROVE MarksAreCovered'
  BY <1>2, CoveredStill DEF ReleaseLock
<1>3. ASSUME NEW i \in Instances, TickFails(i) \/ InstanceDies(i) PROVE MarksAreCovered'
  BY <1>0, <1>3, IdleMoves, CoveredMoves DEF TickFails, InstanceDies, database, history
<1>4. ASSUME NEW r \in Requests, RequestStep(r) PROVE MarksAreCovered'
  <2>1. CASE \E s \in Schedules : PushCheck(r, s)
    BY <1>0, <2>1, PushCheckMoves, CoveredMoves DEF PushCheck, database, history
  <2>2. CASE PushMark(r)
    BY <2>2, CoveredPushMark
  <2>3. CASE \E k \in Runs : RequestInsert(r, k)
    BY <2>3, CoveredRequestInsert
  <2>4. CASE EndPush(r)
    BY <1>0, <2>4, DoneMoves, CoveredMoves DEF EndPush, database, history
  <2> QED BY <1>4, <2>1, <2>2, <2>3, <2>4 DEF RequestStep
<1>5. ASSUME NEW r \in Requests, RequestStops(r) PROVE MarksAreCovered'
  BY <1>5, CoveredStops
<1>6. ASSUME NEW r \in Requests, NEW t \in Tables, Overwrite(r, t) PROVE MarksAreCovered'
  BY <1>0, <1>6, OverwriteMoves, CoveredMoves DEF Overwrite, history
<1>7. ASSUME NEW r \in Requests, NEW s \in Schedules, RunNow(r, s) PROVE MarksAreCovered'
  BY <1>0, <1>7, RunNowMoves, CoveredMoves DEF RunNow, database, history
<1>8. ASSUME NEW a \in Actors, Spawn(a) PROVE MarksAreCovered'
  BY <1>8, SpawnMoves, CoveredMoves DEF Spawn, database, history
<1>9. ASSUME NEW a \in Actors, SpawnFails(a) PROVE MarksAreCovered'
  BY <1>9, OnwardMoves, CoveredMoves DEF SpawnFails, database, history
<1>10. ASSUME NEW k \in Runs, ChildCompletes(k) \/ ChildDies(k) \/ CancelRun(k)
       PROVE MarksAreCovered'
  BY <1>10, CoveredStill DEF ChildCompletes, ChildDies, CancelRun, database, history
<1>11. CASE LockAges \/ SecondPasses
  BY <1>11, CoveredStill DEF LockAges, SecondPasses, history
<1>12. CASE UNCHANGED vars
  BY <1>12, CoveredStill DEF vars
<1> QED BY <1>1, <1>2, <1>3, <1>4, <1>5, <1>6, <1>7, <1>8, <1>9, <1>10, <1>11, <1>12 DEF Next

(* A stored mark that no launch covers belongs to a push about to launch, or  *)
(* to one of the two losses that swept records: nothing else loses an update. *)
THEOREM MarksCovered == Spec => []MarksAreCovered
<1>1. Init => Typed /\ PastInv /\ MarksAreCovered
  <2> SUFFICES ASSUME Init PROVE Typed /\ PastInv /\ MarksAreCovered
    OBVIOUS
  <2>0. Typed
    BY TypedInit
  <2>1. /\ \A s \in Schedules : seen[s] = 0 /\ covered[s] = 0 /\ StampOf(s) \in Nat
        /\ \A i \in Instances, s \in Schedules : marks[i][s] = 0
        /\ \A a \in Actors : job[a] = IdleJob
    BY <2>0, StampBounds DEF Init, NoMarks
  <2>2. PastInv
    BY <2>0, <2>1, JobIdle, TypedParts DEF PastInv, SeenInPast, MarkedBy, PushedBy
  <2>3. MarksAreCovered
    BY <2>1 DEF MarksAreCovered
  <2> QED BY <2>0, <2>2, <2>3
<1>2. /\ Typed /\ PastInv /\ MarksAreCovered
      /\ [Next]_vars
      => Typed' /\ PastInv' /\ MarksAreCovered'
  BY TypedNext, PastNext, CoveredNext
<1> QED BY <1>1, <1>2, PTL DEF Spec
=============================================================================
