------------------------------ MODULE Triggers ------------------------------
(***************************************************************************)
(* How scheduled flows are launched. Scheduler instances poll the catalog     *)
(* database under an advisory lock; requests of the core overwrite a table    *)
(* and push its triggers, or run a schedule at once; each launch is a row of  *)
(* flow_runs and a child process that closes the row when it is done.         *)
(* All of them share one SQLite database: a session that has flushed an       *)
(* UPDATE keeps every other writer waiting until it commits or closes, while  *)
(* readers go on.                                                             *)
(* Source: flowfile_scheduler/engine.py, catalog/services/schedules.py,       *)
(* runs.py, tables.py, flowfile/__main__.py.                                  *)
(***************************************************************************)
EXTENDS Naturals, FiniteSets

CONSTANTS Tables, Schedules, Flows, Instances, Requests, Runs,
          Setups,     \* catalogs to check: kind, flow and watched tables of each schedule,
                      \* the order their query returns them in, the actors present, and
                      \* bounds: seconds to pass, and disturbances (crashes, failed
                      \* launches, children that die, cancels)
          Dead,       \* a lock holder that no longer exists
          None

ASSUME SetupsAssumption ==
    \A u \in Setups :
        /\ u.kind \in [Schedules -> {"interval", "cron", "table", "set"}]
        /\ u.flow \in [Schedules -> Flows]
        /\ u.watched \in [Schedules -> SUBSET Tables]
        /\ \A s \in Schedules : u.kind[s] = "table" => \E t \in Tables : u.watched[s] = {t}
        /\ u.order \in [Schedules -> Nat]
        /\ u.actors \subseteq Instances \cup Requests
        /\ u.seconds \in Nat
        /\ u.faults \in Nat
ASSUME NamesAssumption ==
    /\ Instances \cap Requests = {}
    /\ Dead \notin Instances /\ None \notin Instances \cup {Dead} \cup Schedules \cup Runs

VARIABLES
    setup,      \* the schedules and the actors of this instance of the system
    clock,      \* the second the database's CURRENT_TIMESTAMP returns
    updated,    \* updated[t]: updated_at of a table
    seen,       \* seen[s]: last_trigger_table_updated_at (0: none)
    triggered,  \* triggered[s]: last_triggered_at (0: none); nothing reads a table trigger's
    cursor,     \* cursor[s]: last_cron_slot (0: none)
    lock,       \* the scheduler_lock row: holder (None: no row), fresh heartbeat
    job,        \* job[a]: what an instance or a request is doing
    marks,      \* marks[i]: seen values flushed by i's session and not committed
    run,        \* run[k]: the flow of a run row (None: unused)
    open,       \* rows whose ended_at is NULL
    alive,      \* rows whose child process runs
    faults,     \* disturbances so far
    covered,    \* covered[s]: stamp of the watched table when a run of its flow was last added (history)
    swept,      \* schedules whose mark another schedule's launch committed, or whose push stopped (history)
    contested   \* the lock row was stale or deleted since an instance last took it alone (history)

database == <<clock, updated, seen, triggered, cursor, lock>>
rows == <<run, open, alive>>
history == <<covered, swept, contested>>
vars == <<setup, clock, updated, seen, triggered, cursor, lock, job, marks,
          run, open, alive, faults, covered, swept, contested>>

Actors == Instances \cup Requests
NoMarks == [s \in Schedules |-> 0]

Kind(s) == setup.kind[s]
Flow(s) == setup.flow[s]
Watches(s, t) == t \in setup.watched[s]

Places == {"idle", "lock", "tick", "check", "push", "mark", "insert", "spawn", "cursor", "done"}

(* at: the schedule in hand; stamp: the time it was read at; run: the row added *)
Job == [at : Places, plan : {"add", "refresh", "takeover"}, todo : SUBSET Schedules,
        sched : Schedules \cup {None}, stamp : Nat, row : Runs \cup {None}]

IdleJob == [at |-> "idle", plan |-> "add", todo |-> {}, sched |-> None, stamp |-> 0, row |-> None]

Init ==
    /\ setup \in Setups
    /\ clock = 1
    /\ updated = [t \in Tables |-> 1]
    /\ seen = NoMarks
    /\ triggered = NoMarks
    /\ cursor = NoMarks
    /\ lock = [holder |-> None, fresh |-> FALSE]
    /\ job = [a \in Actors |-> IdleJob]
    /\ marks = [i \in Instances |-> NoMarks]
    /\ run = [k \in Runs |-> None]
    /\ open = {}
    /\ alive = {}
    /\ faults = 0
    /\ covered = NoMarks
    /\ swept = {}
    /\ contested = FALSE

(* A writer gets the database when no other session holds flushed marks. *)
MayWrite(a) == \A i \in Instances \ {a} : marks[i] = NoMarks

(* _has_active_run, has_active_run *)
HasActiveRun(f) == \E k \in open : run[k] = f

Go(a, p) == job' = [job EXCEPT ![a].at = p]

(* The schedule in hand is finished with. *)
Onward(a) ==
    [job[a] EXCEPT !.at = IF a \in Instances THEN "tick" ELSE "push", !.sched = None, !.row = None,
                   !.stamp = IF a \in Instances THEN 0 ELSE @]

-----------------------------------------------------------------------------
(* The lock. _acquire_lock reads the row and commits what it decided later.   *)
(* Variant: a dead holder's row is respected for ever. *)
ReadLockNoTakeover(i) ==
    /\ i \in setup.actors
    /\ job[i].at = "idle"
    /\ lock.holder \in {None, i}
    /\ job' = [job EXCEPT ![i] = [IdleJob EXCEPT
                 !.at = "lock", !.plan = IF lock.holder = None THEN "add" ELSE "refresh"]]
    /\ UNCHANGED <<setup, database, marks, rows, faults, history>>

ReadLock(i) ==
    /\ i \in setup.actors
    /\ job[i].at = "idle"
    /\ lock.holder \in {None, i} \/ ~lock.fresh
    /\ job' = [job EXCEPT ![i] = [IdleJob EXCEPT
                 !.at = "lock",
                 !.plan = IF lock.holder = None THEN "add"
                          ELSE IF lock.holder = i THEN "refresh" ELSE "takeover"]]
    /\ UNCHANGED <<setup, database, marks, rows, faults, history>>

(* Variant: the row is written whatever is there. *)
CommitLockUpsert(i) ==
    /\ job[i].at = "lock"
    /\ MayWrite(i)
    /\ lock' = [holder |-> i, fresh |-> TRUE]
    /\ job' = [job EXCEPT ![i] = [IdleJob EXCEPT !.at = "tick", !.todo = Schedules]]
    /\ contested' = (contested /\ \E j \in Instances \ {i} : job[j].at # "idle")
    /\ UNCHANGED <<setup, clock, updated, seen, triggered, cursor, marks, rows, faults, covered, swept>>

(* The row is inserted, its heartbeat updated, or its holder replaced. An     *)
(* insert of an existing row and an update of a missing one raise, and the    *)
(* tick ends; an update does not look at the holder again.                    *)
CommitLock(i) ==
    /\ job[i].at = "lock"
    /\ MayWrite(i)
    /\ IF (job[i].plan = "add") <=> (lock.holder = None)
       THEN /\ lock' = [holder |-> IF job[i].plan = "refresh" THEN lock.holder ELSE i,
                        fresh |-> TRUE]
            /\ job' = [job EXCEPT ![i] = [IdleJob EXCEPT !.at = "tick", !.todo = Schedules]]
            /\ contested' = (contested /\ (lock'.holder # i \/ \E j \in Instances \ {i} : job[j].at # "idle"))
       ELSE /\ job' = [job EXCEPT ![i] = IdleJob]
            /\ UNCHANGED <<lock, contested>>
    /\ UNCHANGED <<setup, clock, updated, seen, triggered, cursor, marks, rows, faults, covered, swept>>

(* Another instance runs: without one nobody looks at the heartbeat. *)
HasRival(i) == \E j \in (setup.actors \cap Instances) \ {i} : TRUE

(* _release_lock of stop and run_once; the tick's thread is not waited for.   *)
ReleaseLock(i) ==
    /\ lock.holder = i
    /\ MayWrite(None)
    /\ lock' = [holder |-> None, fresh |-> FALSE]
    /\ contested' = (contested \/ HasRival(i))
    /\ UNCHANGED <<setup, clock, updated, seen, triggered, cursor, job, marks, rows, faults, covered, swept>>

(* More than STALE_THRESHOLD seconds pass since the last heartbeat. *)
LockAges ==
    /\ lock.holder # None
    /\ lock.fresh
    /\ HasRival(lock.holder)
    /\ lock' = [lock EXCEPT !.fresh = FALSE]
    /\ contested' = TRUE
    /\ UNCHANGED <<setup, clock, updated, seen, triggered, cursor, job, marks, rows, faults, covered, swept>>

-----------------------------------------------------------------------------
(* The poll. The four kinds are processed one after the other.                *)
Rank(s) == CASE Kind(s) = "interval" -> 1 [] Kind(s) = "cron" -> 2
             [] Kind(s) = "table" -> 3 [] Kind(s) = "set" -> 4

NotAfter(s, x) == Rank(s) < Rank(x) \/ (Rank(s) = Rank(x) /\ setup.order[s] <= setup.order[x])

(* An interval of one second, a cron slot in every second.                    *)
Due(s) ==
    CASE Kind(s) = "interval" -> triggered[s] < clock
      [] Kind(s) = "cron" -> (IF cursor[s] = 0 THEN triggered[s] ELSE cursor[s]) < clock
      [] Kind(s) = "table" -> \E t \in setup.watched[s] : updated[t] > seen[s]
      [] Kind(s) = "set" -> \A t \in setup.watched[s] : updated[t] > triggered[s]

(* What is kept with a due schedule: its table's stamp, or the time of the    *)
(* decision, its now.                                                         *)
StampOf(s) == IF Kind(s) = "table" THEN updated[CHOOSE t \in Tables : Watches(s, t)] ELSE clock

Evaluate(i, s) ==
    /\ job[i].at = "tick"
    /\ s \in job[i].todo
    /\ \A x \in job[i].todo : NotAfter(s, x)
    /\ job' = [job EXCEPT ![i] =
                 IF Due(s) THEN [job[i] EXCEPT !.at = "check", !.todo = @ \ {s}, !.sched = s,
                                               !.stamp = StampOf(s)]
                 ELSE [job[i] EXCEPT !.todo = @ \ {s}]]
    /\ UNCHANGED <<setup, database, marks, rows, faults, history>>

(* Variant: the query does not flush the mark. *)
CheckActiveNoFlush(i) ==
    /\ job[i].at = "check"
    /\ job' = [job EXCEPT ![i] = IF HasActiveRun(Flow(job[i].sched)) THEN Onward(i)
                                ELSE [@ EXCEPT !.at = "insert"]]
    /\ UNCHANGED <<setup, database, marks, rows, faults, history>>

(* _maybe_launch asks for an active run. A table trigger has set its mark, and *)
(* the query flushes it first: the session becomes the writer.                *)
CheckActive(i) ==
    LET s == job[i].sched IN
    /\ job[i].at = "check"
    /\ IF Kind(s) = "table"
       THEN MayWrite(i) /\ marks' = [marks EXCEPT ![i][s] = job[i].stamp]
       ELSE UNCHANGED marks
    /\ job' = [job EXCEPT ![i] = IF HasActiveRun(Flow(s)) THEN Onward(i) ELSE [@ EXCEPT !.at = "insert"]]
    /\ UNCHANGED <<setup, database, rows, faults, history>>

(* Variant: the end of a tick commits. *)
EndTickCommits(i) ==
    /\ job[i].at = "tick"
    /\ job[i].todo = {}
    /\ job' = [job EXCEPT ![i] = IdleJob]
    /\ seen' = [x \in Schedules |-> IF marks[i][x] # 0 THEN marks[i][x] ELSE seen[x]]
    /\ marks' = [marks EXCEPT ![i] = NoMarks]
    /\ UNCHANGED <<setup, clock, updated, triggered, cursor, lock, rows, faults, history>>

(* The session closes: marks of schedules that were not launched roll back.   *)
EndTick(i) ==
    /\ job[i].at = "tick"
    /\ job[i].todo = {}
    /\ job' = [job EXCEPT ![i] = IdleJob]
    /\ marks' = [marks EXCEPT ![i] = NoMarks]
    /\ UNCHANGED <<setup, database, rows, faults, history>>

(* Variant: the cursor moves to the next slot instead of now. *)
AdvanceCursorAhead(i) ==
    /\ job[i].at = "cursor"
    /\ MayWrite(i)
    /\ cursor' = [cursor EXCEPT ![job[i].sched] = job[i].stamp + 1]
    /\ job' = [job EXCEPT ![i] = Onward(i)]
    /\ UNCHANGED <<setup, clock, updated, seen, triggered, lock, marks, rows, faults, history>>

(* A launched cron schedule's last_cron_slot becomes the tick's now. *)
AdvanceCursor(i) ==
    /\ job[i].at = "cursor"
    /\ MayWrite(i)
    /\ cursor' = [cursor EXCEPT ![job[i].sched] = job[i].stamp]
    /\ job' = [job EXCEPT ![i] = Onward(i)]
    /\ UNCHANGED <<setup, clock, updated, seen, triggered, lock, marks, rows, faults, history>>

-----------------------------------------------------------------------------
(* Requests of the core.                                                      *)
(* overwrite_table_data commits the table's new stamp, then fires its triggers. *)
Overwrite(r, t) ==
    /\ r \in setup.actors
    /\ job[r].at = "idle"
    /\ MayWrite(r)
    /\ \E s \in Schedules : Watches(s, t)
    /\ updated' = [updated EXCEPT ![t] = clock]
    /\ job' = [job EXCEPT ![r] = [IdleJob EXCEPT
                 !.at = "push", !.stamp = clock,
                 !.todo = {s \in Schedules : Kind(s) = "table" /\ Watches(s, t)}]]
    /\ UNCHANGED <<setup, clock, seen, triggered, cursor, lock, marks, rows, faults, history>>

PushCheck(r, s) ==
    /\ job[r].at = "push"
    /\ s \in job[r].todo
    /\ \A x \in job[r].todo : NotAfter(s, x)
    /\ job' = [job EXCEPT ![r] =
                 IF HasActiveRun(Flow(s)) THEN [job[r] EXCEPT !.todo = @ \ {s}]
                 ELSE [job[r] EXCEPT !.at = "mark", !.todo = @ \ {s}, !.sched = s]]
    /\ UNCHANGED <<setup, database, marks, rows, faults, history>>

PushMark(r) ==
    /\ job[r].at = "mark"
    /\ MayWrite(r)
    /\ seen' = [seen EXCEPT ![job[r].sched] = job[r].stamp]
    /\ Go(r, "insert")
    /\ UNCHANGED <<setup, clock, updated, triggered, cursor, lock, marks, rows, faults, history>>

EndPush(r) ==
    /\ job[r].at = "push"
    /\ job[r].todo = {}
    /\ job' = [job EXCEPT ![r] = [IdleJob EXCEPT !.at = "done"]]
    /\ UNCHANGED <<setup, database, marks, rows, faults, history>>

(* trigger_schedule_now, run_flow_now: refused while the flow has an active run. *)
RunNow(r, s) ==
    /\ r \in setup.actors
    /\ job[r].at = "idle"
    /\ ~HasActiveRun(Flow(s))
    /\ job' = [job EXCEPT ![r] = [IdleJob EXCEPT !.at = "insert", !.sched = s]]
    /\ UNCHANGED <<setup, database, marks, rows, faults, history>>

-----------------------------------------------------------------------------
(* The launch, of an instance (_maybe_launch) or a request (spawn_flow_run).  *)
SameFlow(s) == {x \in Schedules : Kind(x) = "table" /\ Flow(x) = Flow(s)}

AllNoticed(s) ==
    covered' = [x \in Schedules |-> IF x \in SameFlow(s) THEN StampOf(x) ELSE covered[x]]

(* A new row; the row of a run that is over is not told apart from one. *)
Unused(k) == k \notin open \cup alive /\ \A a \in Actors : job[a].row # k

AddRow(a, k) ==
    /\ job[a].at = "insert"
    /\ MayWrite(a)
    /\ Unused(k)
    /\ k = CHOOSE x \in Runs : Unused(x)
    /\ run' = [run EXCEPT ![k] = Flow(job[a].sched)]
    /\ open' = open \cup {k}
    /\ job' = [job EXCEPT ![a].at = "spawn", ![a].row = k]
    /\ AllNoticed(job[a].sched)
    /\ UNCHANGED <<setup, clock, updated, cursor, lock, alive, faults, contested>>

(* The commit of an instance also writes every mark its session has flushed.  *)
PollInsert(i, k) ==
    LET Others == {x \in Schedules \ {job[i].sched} : marks[i][x] # 0} IN
    /\ AddRow(i, k)
    /\ triggered' = [triggered EXCEPT ![job[i].sched] = IF Kind(job[i].sched) = "table" THEN @ ELSE job[i].stamp]
    /\ seen' = [x \in Schedules |-> IF marks[i][x] # 0 THEN marks[i][x] ELSE seen[x]]
    /\ marks' = [marks EXCEPT ![i] = NoMarks]
    /\ swept' = (swept \cup Others) \ SameFlow(job[i].sched)

RequestInsert(r, k) ==
    /\ AddRow(r, k)
    /\ swept' = swept \ SameFlow(job[r].sched)
    /\ UNCHANGED <<seen, triggered, marks>>

(* The child starts, and its pid is stored. *)
Spawn(a) ==
    /\ job[a].at = "spawn"
    /\ MayWrite(a)
    /\ alive' = alive \cup {job[a].row}
    /\ job' = [job EXCEPT ![a] =
                 IF a \in Instances /\ Kind(@.sched) = "cron"
                 THEN [@ EXCEPT !.at = "cursor", !.row = None] ELSE Onward(a)]
    /\ UNCHANGED <<setup, database, marks, run, open, faults, history>>

Fault == faults < setup.faults /\ faults' = faults + 1

(* Popen raised: the row is closed as failed, whatever was marked stays marked. *)
SpawnFails(a) ==
    /\ Fault
    /\ job[a].at = "spawn"
    /\ MayWrite(a)
    /\ open' = open \ {job[a].row}
    /\ job' = [job EXCEPT ![a] = Onward(a)]
    /\ UNCHANGED <<setup, database, marks, run, alive, history>>

-----------------------------------------------------------------------------
(* Faults. A tick raises and its session rolls back; a process is killed, and *)
(* when it starts again it has a new holder id.                               *)
TickFails(i) ==
    /\ Fault
    /\ job[i].at # "idle"
    /\ job' = [job EXCEPT ![i] = IdleJob]
    /\ marks' = [marks EXCEPT ![i] = NoMarks]
    /\ UNCHANGED <<setup, database, rows, history>>

InstanceDies(i) ==
    /\ Fault
    /\ job' = [job EXCEPT ![i] = IdleJob]
    /\ marks' = [marks EXCEPT ![i] = NoMarks]
    /\ lock' = IF lock.holder = i THEN [lock EXCEPT !.holder = Dead] ELSE lock
    /\ UNCHANGED <<setup, clock, updated, seen, triggered, cursor, rows, history>>

(* The push raises, which is caught, or the core dies. *)
RequestStops(r) ==
    /\ Fault
    /\ job[r].at \notin {"idle", "done"}
    /\ swept' = IF job[r].at = "insert" /\ job[r].stamp # 0 THEN swept \cup {job[r].sched} ELSE swept
    /\ job' = [job EXCEPT ![r] = [IdleJob EXCEPT !.at = "done"]]
    /\ UNCHANGED <<setup, database, marks, rows, covered, contested>>

-----------------------------------------------------------------------------
(* The child process.                                                         *)
(* Variant: a way out of run_flow that leaves the row. *)
ChildLeavesRow(k) ==
    /\ k \in alive
    /\ alive' = alive \ {k}
    /\ UNCHANGED <<setup, database, job, marks, run, open, faults, history>>

(* run_flow ends and closes its row. *)
ChildCompletes(k) ==
    /\ k \in alive
    /\ MayWrite(None)
    /\ alive' = alive \ {k}
    /\ open' = open \ {k}
    /\ UNCHANGED <<setup, database, job, marks, run, faults, history>>

(* The child is killed, or cannot write its row: the row stays open. *)
ChildDies(k) ==
    /\ Fault
    /\ k \in alive
    /\ alive' = alive \ {k}
    /\ UNCHANGED <<setup, database, job, marks, run, open, history>>

(* cancel_run: a process that is not started yet, and has no pid, is not killed. *)
CancelRun(k) ==
    /\ Fault
    /\ k \in open
    /\ MayWrite(None)
    /\ open' = open \ {k}
    /\ alive' = alive \ {k}
    /\ UNCHANGED <<setup, database, job, marks, run, history>>

SecondPasses ==
    /\ clock <= setup.seconds
    /\ clock' = clock + 1
    /\ UNCHANGED <<setup, updated, seen, triggered, cursor, lock, job, marks, rows, faults, history>>

-----------------------------------------------------------------------------
InstanceStep(i) ==
    \/ ReadLock(i) \/ CommitLock(i)
    \/ (\E s \in Schedules : Evaluate(i, s)) \/ CheckActive(i)
    \/ (\E k \in Runs : PollInsert(i, k))
    \/ AdvanceCursor(i) \/ EndTick(i)

RequestStep(r) ==
    \/ (\E s \in Schedules : PushCheck(r, s)) \/ PushMark(r)
    \/ (\E k \in Runs : RequestInsert(r, k))
    \/ EndPush(r)

Next ==
    \/ \E i \in Instances : InstanceStep(i) \/ ReleaseLock(i) \/ TickFails(i) \/ InstanceDies(i)
    \/ \E r \in Requests :
         \/ RequestStep(r) \/ RequestStops(r)
         \/ (\E t \in Tables : Overwrite(r, t)) \/ (\E s \in Schedules : RunNow(r, s))
    \/ \E a \in Actors : Spawn(a) \/ SpawnFails(a)
    \/ \E k \in Runs : ChildCompletes(k) \/ ChildDies(k) \/ CancelRun(k)
    \/ LockAges \/ SecondPasses

(* A started process goes on, a write is retried while the database is busy,  *)
(* an instance polls for as long as it lives, a child ends, and the heartbeat *)
(* of a dead instance grows old. Nobody has to stop, cancel or overwrite.     *)
Works(a) == Spawn(a) \/ (IF a \in Instances THEN InstanceStep(a) ELSE RequestStep(a))

Fairness ==
    /\ \A a \in Actors : SF_vars(Works(a))
    /\ SF_vars(\E k \in Runs : ChildCompletes(k))
    /\ WF_vars(lock.holder = Dead /\ LockAges)

Spec == Init /\ [][Next]_vars /\ Fairness

-----------------------------------------------------------------------------
TypeOK ==
    /\ setup \in Setups
    /\ clock \in 1 .. setup.seconds + 1
    /\ updated \in [Tables -> 1 .. clock]
    /\ {seen, triggered, cursor, covered} \subseteq [Schedules -> 0 .. clock]
    /\ lock \in [holder : Instances \cup {Dead, None}, fresh : BOOLEAN]
    /\ job \in [Actors -> Job]
    /\ marks \in [Instances -> [Schedules -> 0 .. clock]]
    /\ run \in [Runs -> Flows \cup {None}]
    /\ open \subseteq Runs /\ alive \subseteq Runs
    /\ faults \in 0 .. setup.faults
    /\ swept \subseteq Schedules
    /\ contested \in BOOLEAN

IsTable(s) == Kind(s) = "table"

Pushing(s) == \E r \in Requests : job[r].at = "insert" /\ job[r].sched = s /\ job[r].stamp # 0

(* A table trigger whose stored mark is as new as an update of its table was  *)
(* launched since that update, is being launched by a push, or is one of two  *)
(* named losses: a poll that skipped it had its mark committed by the launch  *)
(* of another schedule, or a push stopped between its two commits.            *)
MarksAreCovered ==
    \A s \in Schedules : IsTable(s) /\ seen[s] > covered[s] => s \in swept \/ Pushing(s)

(* A flow launched by the poll for a table trigger has no other active run,   *)
(* whoever else checks at the same time: the mark is flushed before the check *)
(* and keeps the other writers out until the run row is committed.            *)
TableTriggerLaunchesAlone ==
    \A i \in Instances :
        job[i].at = "insert" /\ IsTable(job[i].sched) => ~HasActiveRun(Flow(job[i].sched))

InTick(i) == job[i].at \notin {"idle", "lock"}

(* Two instances tick at once only after a heartbeat went stale or the lock   *)
(* row was deleted: instances that start together cannot both insert the row. *)
OneTickPerLock ==
    \A i, j \in Instances : i # j /\ InTick(i) /\ InTick(j) => contested

(* Without a crash, a failed launch or a killed child, every active row of    *)
(* flow_runs has its process or a launcher about to start it.                 *)
ActiveRunsAreReal ==
    faults = 0 => \A k \in open :
        k \in alive \/ \E a \in Actors : job[a].at = "spawn" /\ job[a].row = k

Blocked(s) == \E k \in open \ alive : run[k] = Flow(s)

Polled(s) == IsTable(s) /\ setup.actors \cap Instances # {}

(* Every update of a watched table is noticed in the end, by the push or by a *)
(* later tick, unless an active row without a process blocks the flow.        *)
UpdatesNoticed ==
    \A s \in Schedules : []<>(Polled(s) => seen[s] >= StampOf(s) \/ Blocked(s))

(* What engine.py says of the poll as a safety net: a table trigger is marked *)
(* as seen only together with a launch.                                       *)
MarkMeansLaunched ==
    \A s \in Schedules : IsTable(s) /\ seen[s] > covered[s] => Pushing(s)

(* The documentation's "One active run per flow".                             *)
OneActiveRun ==
    \A j, k \in open : run[j] = run[k] => j = k

=============================================================================
