--------------------------- MODULE RunTasksProofs ---------------------------
(***************************************************************************)
(* Theorems about the background tasks of the core and of the worker.         *)
(* RunTasks, for any number of tasks: is_running is released, and the record   *)
(* of a run that met no other task tells what happened to the nodes of that    *)
(* run. The record is three steps away from the nodes: their outcomes go to     *)
(* the latest RunInformation, its success is settled once by whoever asks       *)
(* first, and the row copies what was reported. The inductive invariant        *)
(* follows them.                                                              *)
(* WorkerTask, for any number of fetchers and any disturbances: what an answer *)
(* with data tells of the child, the file and the cancel. One handler at most   *)
(* is busy until an overlap is recorded, so the attempt a fetcher waits for is  *)
(* alone with the child, the entry and the file.                              *)
(***************************************************************************)
EXTENDS RunTasks, WorkerTask, TLAPS

Unstarted == {"idle", "queued", "recorded", "checked", "planning"}

(* The verdict v says no more of the outcomes O than is true. *)
Tells(v, O) ==
    /\ v = "true" => O \subseteq {"ok"}
    /\ v = "false" => "bad" \in O

(* Tasks that are underway together know it. *)
MeetingsKnown ==
    \A t, u \in Tasks : Underway(t) /\ Underway(u) /\ t # u => t \in overlapped

(* A task that has not begun has left no trace. *)
NoTraceBefore ==
    \A t \in Tasks : phase[t] \in Unstarted =>
        latest # t /\ own[t] = {} /\ info[t] = {} /\ settled[t] = "none"

(* A task that executes has made a RunInformation, its own or a later one is the *)
(* latest.                                                                    *)
InfoExists == \A t \in Tasks : phase[t] \in {"executing", "reporting"} => latest \in Tasks

(* A task that is alone controls is_running. *)
FlagIsOwn ==
    \A t \in Tasks \ overlapped :
        /\ phase[t] \in {"planning", "executing"} => isRunning
        /\ phase[t] = "reporting" => ~isRunning

(* The latest RunInformation is the one of the task that is alone, and only its *)
(* own nodes write to the RunInformation of a task that was.                   *)
LatestIsOwn ==
    \A t \in Tasks \ overlapped :
        /\ phase[t] \in {"executing", "reporting", "releasing"} => latest = t
        /\ \A u \in Tasks : latest = t /\ phase[u] \in {"executing", "reporting"} => u = t

(* Its RunInformation is complete, and is not settled before the execution ends. *)
InfoIsOwn ==
    \A t \in Tasks \ overlapped :
        /\ info[t] = own[t]
        /\ phase[t] = "executing" => settled[t] = "none"
        /\ Tells(settled[t], own[t])

ReportIsOwn ==
    \A t \in Tasks :
        /\ phase[t] \in Unstarted \cup {"executing", "reporting"} => reported[t] = "none"
        /\ t \notin overlapped =>
              /\ Tells(reported[t], own[t])
              /\ phase[t] \in {"releasing", "completing"} => reported[t] # "none"

RecordsAreLast ==
    \A t \in Tasks : record[t] \in {"success", "failed", "ended"} => phase[t] = "done"

(* A fetch that found no node has met a flow without it. *)
MissedIsGone ==
    \A t \in Tasks :
        kind[t] = "fetch" /\ phase[t] \in {"checked", "planning"} /\ t \notin found => ~nodePresent

IInv ==
    /\ TypeOK
    /\ MeetingsKnown
    /\ NoTraceBefore
    /\ InfoExists
    /\ FlagIsOwn
    /\ LatestIsOwn
    /\ InfoIsOwn
    /\ ReportIsOwn
    /\ RecordsAreLast
    /\ RecordTellsOwnRun
    /\ MissedIsGone
    /\ FlagReleased

-----------------------------------------------------------------------------
(* The steps of a task before it takes the flow, while it has it, and after; and *)
(* what requests change.                                                      *)
Before(t) == Accept(t) \/ StartRecord(t) \/ Refused(t) \/ FoundIdle(t)

During(t) ==
    \/ Claim(t) \/ Begin(t) \/ PlanFails(t) \/ FetchOfDeleted(t) \/ ExecuteNode(t)
    \/ EndExecution(t) \/ ExecutionRaises(t) \/ Report(t) \/ Release(t)

After(t) == CompleteRecord(t) \/ CancelRecord(t)

Requests == PollStatus \/ CancelFlow \/ DeleteNode \/ UNCHANGED vars

LEMMA StepsOfTasks ==
    [Next]_vars => Requests \/ \E t \in Tasks : Before(t) \/ During(t) \/ After(t)
BY DEF Next, TaskStep, Before, During, After, Requests

LEMMA InitIInv == Init => IInv
<1> SUFFICES ASSUME Init PROVE IInv
  OBVIOUS
<1>1. TypeOK
  BY DEF Init, TypeOK, Phases
<1>2. MeetingsKnown /\ FlagIsOwn /\ LatestIsOwn /\ NoTraceBefore
  BY NoTaskAssumption DEF Init, MeetingsKnown, FlagIsOwn, LatestIsOwn, NoTraceBefore,
       Underway
<1>3. InfoIsOwn /\ ReportIsOwn /\ RecordsAreLast /\ RecordTellsOwnRun
  BY DEF Init, InfoIsOwn, ReportIsOwn, RecordsAreLast, RecordTellsOwnRun, Tells
<1>4. MissedIsGone /\ FlagReleased /\ InfoExists
  BY DEF Init, MissedIsGone, FlagReleased, InfoExists
<1> QED BY <1>1, <1>2, <1>3, <1>4 DEF IInv

(* A success is known, or is still to be settled.                              *)
LEMMA SuccessIsVerdict ==
    ASSUME TypeOK, NEW i \in Tasks
    PROVE SuccessOf(i) \in {"none", "true", "false"}
BY DEF TypeOK, SuccessOf

(* A node's outcome goes to the history of its task and to the latest           *)
(* RunInformation alike.                                                       *)
LEMMA NodesAreRecorded ==
    ASSUME NEW t \in Tasks, ExecuteNode(t) \/ ExecutionRaises(t)
    PROVE \E r \in Outcomes :
             /\ own' = [own EXCEPT ![t] = @ \cup {r}]
             /\ info' = [info EXCEPT ![latest] = @ \cup {r}]
<1>1. CASE ExecuteNode(t)
  <2> PICK o \in Outcomes :
        LET r == IF isCanceled /\ kind[t] = "run" THEN "bad" ELSE o
        IN  /\ own' = [own EXCEPT ![t] = @ \cup {r}]
            /\ info' = [info EXCEPT ![latest] = @ \cup {r}]
    BY <1>1 DEF ExecuteNode
  <2> CASE isCanceled /\ kind[t] = "run"
    BY DEF Outcomes
  <2> CASE ~(isCanceled /\ kind[t] = "run")
    OBVIOUS
  <2> QED OBVIOUS
<1>2. CASE ExecutionRaises(t)
  BY <1>2 DEF ExecutionRaises, Outcomes
<1> QED BY <1>1, <1>2

(* The types.                                                               *)
LEMMA TypesStay ==
    ASSUME IInv, [Next]_vars
    PROVE TypeOK'
<1>1. ASSUME NEW t \in Tasks, Before(t) PROVE TypeOK'
  BY <1>1 DEF IInv, TypeOK, Phases, Before, Accept, StartRecord, Refused, FoundIdle,
       Goto, flags, infos, target
<1>2. ASSUME NEW t \in Tasks,
             Claim(t) \/ Begin(t) \/ PlanFails(t) \/ FetchOfDeleted(t)
      PROVE TypeOK'
  BY <1>2 DEF IInv, TypeOK, Phases, Claim, Begin, PlanFails, FetchOfDeleted, NewInfo,
       Goto, flags, infos, target
<1>3. ASSUME NEW t \in Tasks, ExecuteNode(t) PROVE TypeOK'
  BY <1>3, NodesAreRecorded DEF IInv, TypeOK, InfoExists, Outcomes, ExecuteNode, flags,
       target
<1>4. ASSUME NEW t \in Tasks, EndExecution(t) \/ Release(t) PROVE TypeOK'
  BY <1>4 DEF IInv, TypeOK, Phases, EndExecution, Release, Goto, infos, target
<1>5. ASSUME NEW t \in Tasks, ExecutionRaises(t) PROVE TypeOK'
  BY <1>5, NodesAreRecorded DEF IInv, TypeOK, Phases, Outcomes, ExecutionRaises, Goto,
       target
<1>6. ASSUME NEW t \in Tasks, Report(t) PROVE TypeOK'
  BY <1>6, SuccessIsVerdict DEF IInv, TypeOK, InfoExists, Phases, Report, Goto, flags,
       target
<1>7. ASSUME NEW t \in Tasks, After(t) PROVE TypeOK'
  BY <1>7 DEF IInv, TypeOK, Phases, After, CompleteRecord, CancelRecord, Completed,
       Goto, flags, infos, target
<1>8. CASE Requests
  BY <1>8 DEF IInv, TypeOK, Requests, PollStatus, CancelFlow, DeleteNode, SuccessOf,
       vars, flags, infos, target
<1> QED BY <1>1, <1>2, <1>3, <1>4, <1>5, <1>6, <1>7, <1>8, StepsOfTasks DEF During

(* Only Claim brings a task underway, and it notes every task it meets.     *)
LEMMA MeetingsStayKnown ==
    ASSUME IInv, [Next]_vars
    PROVE MeetingsKnown'
<1>1. ASSUME NEW t \in Tasks, Before(t) PROVE MeetingsKnown'
  BY <1>1 DEF IInv, TypeOK, MeetingsKnown, Underway, Before, Accept, StartRecord,
       Refused, FoundIdle, Goto, infos
<1>2. ASSUME NEW t \in Tasks, Claim(t) PROVE MeetingsKnown'
  BY <1>2 DEF IInv, MeetingsKnown, Underway, Claim, Goto
<1>3. ASSUME NEW t \in Tasks,
             Begin(t) \/ PlanFails(t) \/ FetchOfDeleted(t) \/ ExecuteNode(t) \/
                EndExecution(t) \/ ExecutionRaises(t) \/ Report(t) \/ Release(t)
      PROVE MeetingsKnown'
  BY <1>3 DEF IInv, TypeOK, MeetingsKnown, Underway, Begin, PlanFails, FetchOfDeleted,
       ExecuteNode, EndExecution, ExecutionRaises, Report, Release, Goto, infos
<1>4. ASSUME NEW t \in Tasks, After(t) PROVE MeetingsKnown'
  BY <1>4 DEF IInv, TypeOK, MeetingsKnown, Underway, After, CompleteRecord,
       CancelRecord, Goto, infos
<1>5. CASE Requests
  BY <1>5 DEF IInv, MeetingsKnown, Underway, Requests, PollStatus, CancelFlow,
       DeleteNode, vars, infos
<1> QED BY <1>1, <1>2, <1>3, <1>4, <1>5, StepsOfTasks DEF During

(* A task leaves traces by Begin and afterwards; the others leave theirs    *)
(* with the latest task, which has begun.                                   *)
LEMMA NoTraceStays ==
    ASSUME IInv, [Next]_vars
    PROVE NoTraceBefore'
<1>1. ASSUME NEW t \in Tasks, Before(t) PROVE NoTraceBefore'
  BY <1>1 DEF IInv, TypeOK, NoTraceBefore, Unstarted, Before, Accept, StartRecord,
       Refused, FoundIdle, AboutToRun, Goto, infos
<1>2. ASSUME NEW t \in Tasks, Begin(t) \/ FetchOfDeleted(t) PROVE NoTraceBefore'
  BY <1>2 DEF IInv, TypeOK, NoTraceBefore, Unstarted, Begin, FetchOfDeleted, NewInfo,
       Goto
<1>3. ASSUME NEW t \in Tasks,
             ExecuteNode(t) \/ ExecutionRaises(t) \/ Report(t)
      PROVE NoTraceBefore'
  BY <1>3 DEF IInv, TypeOK, NoTraceBefore, Unstarted, ExecuteNode, ExecutionRaises,
       Report, Goto
<1>4. ASSUME NEW t \in Tasks,
             Claim(t) \/ PlanFails(t) \/ EndExecution(t) \/ Release(t)
      PROVE NoTraceBefore'
  BY <1>4 DEF IInv, TypeOK, NoTraceBefore, Unstarted, Claim, PlanFails, EndExecution,
       Release, Goto, infos
<1>5. ASSUME NEW t \in Tasks, After(t) PROVE NoTraceBefore'
  BY <1>5 DEF IInv, TypeOK, NoTraceBefore, Unstarted, After, CompleteRecord,
       CancelRecord, Goto, infos
<1>6. CASE Requests
  BY <1>6 DEF IInv, TypeOK, NoTraceBefore, Requests, PollStatus, CancelFlow, DeleteNode,
       vars, infos
<1> QED BY <1>1, <1>2, <1>3, <1>4, <1>5, <1>6, StepsOfTasks DEF During

(* There is a latest RunInformation from the first Begin on.                *)
LEMMA InfoStays ==
    ASSUME IInv, [Next]_vars
    PROVE InfoExists'
<1>1. ASSUME NEW t \in Tasks, Before(t) PROVE InfoExists'
  BY <1>1 DEF IInv, TypeOK, InfoExists, Before, Accept, StartRecord, Refused, FoundIdle,
       Goto, infos
<1>2. ASSUME NEW t \in Tasks, Begin(t) \/ FetchOfDeleted(t) PROVE InfoExists'
  BY <1>2 DEF IInv, InfoExists, Begin, FetchOfDeleted, NewInfo
<1>3. ASSUME NEW t \in Tasks,
             Claim(t) \/ PlanFails(t) \/ ExecuteNode(t) \/
                EndExecution(t) \/ ExecutionRaises(t) \/ Report(t) \/ Release(t)
      PROVE InfoExists'
  BY <1>3 DEF IInv, TypeOK, InfoExists, Claim, PlanFails, ExecuteNode, EndExecution,
       ExecutionRaises, Report, Release, Goto, infos
<1>4. ASSUME NEW t \in Tasks, After(t) PROVE InfoExists'
  BY <1>4 DEF IInv, TypeOK, InfoExists, After, CompleteRecord, CancelRecord, Goto, infos
<1>5. CASE Requests
  BY <1>5 DEF IInv, InfoExists, Requests, PollStatus, CancelFlow, DeleteNode, vars,
       infos
<1> QED BY <1>1, <1>2, <1>3, <1>4, <1>5, StepsOfTasks DEF During

(* Whoever sets or clears the flag is underway, so the task is not alone.   *)
LEMMA FlagStaysOwn ==
    ASSUME IInv, [Next]_vars
    PROVE FlagIsOwn'
<1>1. ASSUME NEW t \in Tasks, Before(t) PROVE FlagIsOwn'
  BY <1>1 DEF IInv, TypeOK, FlagIsOwn, Before, Accept, StartRecord, Refused, FoundIdle,
       Goto, flags, infos
<1>2. ASSUME NEW t \in Tasks, Claim(t) PROVE FlagIsOwn'
  BY <1>2 DEF IInv, FlagIsOwn, Underway, Claim, Goto
<1>3. ASSUME NEW t \in Tasks,
             PlanFails(t) \/ EndExecution(t) \/ ExecutionRaises(t) \/ Release(t)
      PROVE FlagIsOwn'
  BY <1>3 DEF IInv, TypeOK, MeetingsKnown, FlagIsOwn, Underway, PlanFails, EndExecution,
       ExecutionRaises, Release, Goto, infos
<1>4. ASSUME NEW t \in Tasks,
             Begin(t) \/ FetchOfDeleted(t) \/ ExecuteNode(t) \/ Report(t)
      PROVE FlagIsOwn'
  BY <1>4 DEF IInv, TypeOK, FlagIsOwn, Begin, FetchOfDeleted, ExecuteNode, Report, Goto,
       flags
<1>5. ASSUME NEW t \in Tasks, After(t) PROVE FlagIsOwn'
  BY <1>5 DEF IInv, TypeOK, FlagIsOwn, After, CompleteRecord, CancelRecord, Goto, flags,
       infos
<1>6. CASE Requests
  BY <1>6 DEF IInv, FlagIsOwn, Requests, PollStatus, CancelFlow, DeleteNode, vars,
       flags, infos
<1> QED BY <1>1, <1>2, <1>3, <1>4, <1>5, <1>6, StepsOfTasks DEF During

(* Begin makes the task the latest; another one that begins meets it.       *)
LEMMA LatestStaysOwn ==
    ASSUME IInv, [Next]_vars
    PROVE LatestIsOwn'
<1>1. ASSUME NEW t \in Tasks, Before(t) PROVE LatestIsOwn'
  BY <1>1 DEF IInv, TypeOK, LatestIsOwn, Before, Accept, StartRecord, Refused,
       FoundIdle, Goto, infos
<1>2. ASSUME NEW t \in Tasks, Claim(t) PROVE LatestIsOwn'
  BY <1>2 DEF IInv, LatestIsOwn, Claim, Goto
<1>3. ASSUME NEW t \in Tasks, Begin(t) \/ FetchOfDeleted(t) PROVE LatestIsOwn'
  BY <1>3 DEF IInv, TypeOK, MeetingsKnown, LatestIsOwn, Underway, Begin, FetchOfDeleted,
       NewInfo, Goto
<1>4. ASSUME NEW t \in Tasks, EndExecution(t) PROVE LatestIsOwn'
  BY <1>4 DEF IInv, LatestIsOwn, EndExecution, Goto, infos
<1>5. ASSUME NEW t \in Tasks,
             PlanFails(t) \/ ExecuteNode(t) \/ ExecutionRaises(t) \/ Report(t) \/ Release(t)
      PROVE LatestIsOwn'
  BY <1>5 DEF IInv, TypeOK, LatestIsOwn, PlanFails, ExecuteNode, ExecutionRaises,
       Report, Release, Goto, infos
<1>6. ASSUME NEW t \in Tasks, After(t) PROVE LatestIsOwn'
  BY <1>6 DEF IInv, TypeOK, LatestIsOwn, After, CompleteRecord, CancelRecord, Goto,
       infos
<1>7. CASE Requests
  BY <1>7 DEF IInv, LatestIsOwn, Requests, PollStatus, CancelFlow, DeleteNode, vars,
       infos
<1> QED BY <1>1, <1>2, <1>3, <1>4, <1>5, <1>6, <1>7, StepsOfTasks DEF During

(* Results go to the task's own RunInformation, which is settled only when the *)
(* flag is clear.                                                           *)
LEMMA InfoStaysOwn ==
    ASSUME IInv, [Next]_vars
    PROVE InfoIsOwn'
<1>1. ASSUME NEW t \in Tasks, Before(t) PROVE InfoIsOwn'
  BY <1>1 DEF IInv, TypeOK, InfoIsOwn, Before, Accept, StartRecord, Refused, FoundIdle,
       Goto, infos
<1>2. ASSUME NEW t \in Tasks, Claim(t) PROVE InfoIsOwn'
  BY <1>2 DEF IInv, InfoIsOwn, Claim, Goto
<1>3. ASSUME NEW t \in Tasks, Begin(t) \/ FetchOfDeleted(t) PROVE InfoIsOwn'
  <2>1. own[t] = {}
    BY <1>3 DEF IInv, NoTraceBefore, Unstarted, Begin, FetchOfDeleted
  <2>2. /\ info' = [info EXCEPT ![t] = {}]
        /\ settled' = [settled EXCEPT ![t] = "none"]
        /\ own' = own /\ overlapped' = overlapped
    BY <1>3 DEF Begin, FetchOfDeleted, NewInfo
  <2>3. \A u \in Tasks : phase'[u] = "executing" => u = t \/ phase[u] = "executing"
    BY <1>3 DEF IInv, TypeOK, Begin, FetchOfDeleted, Goto
  <2> QED BY <2>1, <2>2, <2>3 DEF IInv, TypeOK, InfoIsOwn, Tells
<1>4. ASSUME NEW t \in Tasks, ExecuteNode(t) \/ ExecutionRaises(t) PROVE InfoIsOwn'
  <2>1. PICK r \in Outcomes : /\ own' = [own EXCEPT ![t] = @ \cup {r}]
                              /\ info' = [info EXCEPT ![latest] = @ \cup {r}]
    BY <1>4, NodesAreRecorded
  <2>2. /\ settled' = settled /\ overlapped' = overlapped
        /\ \A u \in Tasks : phase'[u] = "executing" => phase[u] = "executing"
    BY <1>4 DEF IInv, TypeOK, ExecuteNode, ExecutionRaises, Goto, infos
  <2>3. phase[t] = "executing" /\ latest \in Tasks
    BY <1>4 DEF ExecuteNode, ExecutionRaises, IInv, InfoExists
  <2>4. CASE latest = t
    BY <2>1, <2>2, <2>3, <2>4 DEF IInv, TypeOK, InfoIsOwn, Tells
  <2>5. CASE latest # t
    <3>1. t \in overlapped /\ latest \in overlapped
      BY <2>3, <2>5 DEF IInv, LatestIsOwn
    <3> QED BY <2>1, <2>2, <3>1 DEF IInv, TypeOK, InfoIsOwn, Tells
  <2> QED BY <2>4, <2>5
<1>5. ASSUME NEW t \in Tasks, EndExecution(t) PROVE InfoIsOwn'
  BY <1>5 DEF IInv, InfoIsOwn, EndExecution, Goto, infos
<1>6. ASSUME NEW t \in Tasks, Report(t) PROVE InfoIsOwn'
  BY <1>6 DEF IInv, TypeOK, LatestIsOwn, InfoIsOwn, Tells, Outcomes, Report, SuccessOf,
       AllOk, Goto
<1>7. ASSUME NEW t \in Tasks, PlanFails(t) \/ Release(t) PROVE InfoIsOwn'
  BY <1>7 DEF IInv, TypeOK, InfoIsOwn, PlanFails, Release, Goto, infos
<1>8. ASSUME NEW t \in Tasks, After(t) PROVE InfoIsOwn'
  BY <1>8 DEF IInv, TypeOK, InfoIsOwn, After, CompleteRecord, CancelRecord, Goto, infos
<1>9. CASE Requests
  BY <1>9 DEF IInv, TypeOK, FlagIsOwn, InfoIsOwn, Tells, Outcomes, Requests, PollStatus,
       CancelFlow, DeleteNode, SuccessOf, AllOk, vars, infos
<1> QED BY <1>1, <1>2, <1>3, <1>4, <1>5, <1>6, <1>7, <1>8, <1>9, StepsOfTasks
       DEF During

(* Report tells what the task's own RunInformation has settled or settles now. *)
LEMMA ReportStaysOwn ==
    ASSUME IInv, [Next]_vars
    PROVE ReportIsOwn'
<1>1. ASSUME NEW t \in Tasks, Before(t) PROVE ReportIsOwn'
  BY <1>1 DEF IInv, TypeOK, ReportIsOwn, Unstarted, Before, Accept, StartRecord,
       Refused, FoundIdle, AboutToRun, Goto, infos
<1>2. ASSUME NEW t \in Tasks,
             Claim(t) \/ Begin(t) \/ PlanFails(t) \/ FetchOfDeleted(t)
      PROVE ReportIsOwn'
  BY <1>2 DEF IInv, TypeOK, ReportIsOwn, Unstarted, Claim, Begin, PlanFails,
       FetchOfDeleted, Goto, infos
<1>3. ASSUME NEW t \in Tasks,
             ExecuteNode(t) \/ ExecutionRaises(t)
      PROVE ReportIsOwn'
  BY <1>3 DEF IInv, TypeOK, ReportIsOwn, Tells, ExecuteNode, ExecutionRaises, Goto
<1>4. ASSUME NEW t \in Tasks, EndExecution(t) \/ Release(t) PROVE ReportIsOwn'
  BY <1>4 DEF IInv, TypeOK, ReportIsOwn, Unstarted, EndExecution, Release, Goto, infos
<1>5. ASSUME NEW t \in Tasks, Report(t) PROVE ReportIsOwn'
  <2>1. /\ reported' = [reported EXCEPT ![t] = SuccessOf(latest)]
        /\ own' = own /\ overlapped' = overlapped
        /\ phase' = [phase EXCEPT ![t] = "releasing"]
    BY <1>5 DEF Report, Goto
  <2>2. t \notin overlapped => /\ latest = t /\ ~isRunning
                               /\ info[t] = own[t] /\ Tells(settled[t], own[t])
    BY <1>5 DEF IInv, FlagIsOwn, LatestIsOwn, InfoIsOwn, Report
  <2>3. t \notin overlapped => /\ SuccessOf(latest) # "none"
                               /\ Tells(SuccessOf(latest), own[t])
    BY <2>2 DEF IInv, TypeOK, Outcomes, SuccessOf, AllOk, Tells
  <2> QED BY <2>1, <2>2, <2>3 DEF IInv, TypeOK, ReportIsOwn, Unstarted
<1>6. ASSUME NEW t \in Tasks, After(t) PROVE ReportIsOwn'
  BY <1>6 DEF IInv, TypeOK, ReportIsOwn, Unstarted, After, CompleteRecord, CancelRecord,
       Goto, infos
<1>7. CASE Requests
  BY <1>7 DEF IInv, ReportIsOwn, Requests, PollStatus, CancelFlow, DeleteNode, vars,
       infos
<1> QED BY <1>1, <1>2, <1>3, <1>4, <1>5, <1>6, <1>7, StepsOfTasks DEF During

(* Only the last step of a task gives its row a verdict.                    *)
LEMMA RecordsStayLast ==
    ASSUME IInv, [Next]_vars
    PROVE RecordsAreLast'
<1>1. ASSUME NEW t \in Tasks, Before(t) PROVE RecordsAreLast'
  BY <1>1 DEF IInv, TypeOK, RecordsAreLast, Before, Accept, StartRecord, Refused,
       FoundIdle, AboutToRun, Goto
<1>2. ASSUME NEW t \in Tasks, During(t) PROVE RecordsAreLast'
  BY <1>2 DEF IInv, TypeOK, RecordsAreLast, During, Claim, Begin, PlanFails,
       FetchOfDeleted, ExecuteNode, EndExecution, ExecutionRaises, Report, Release, Goto
<1>3. ASSUME NEW t \in Tasks, After(t) PROVE RecordsAreLast'
  BY <1>3 DEF IInv, TypeOK, RecordsAreLast, After, CompleteRecord, CancelRecord,
       Completed, Goto
<1>4. CASE Requests
  BY <1>4 DEF IInv, RecordsAreLast, Requests, PollStatus, CancelFlow, DeleteNode, vars
<1> QED BY <1>1, <1>2, <1>3, <1>4, StepsOfTasks DEF During

(* The row copies the report, and the task executes nothing afterwards.     *)
LEMMA RecordStaysTrue ==
    ASSUME IInv, [Next]_vars
    PROVE RecordTellsOwnRun'
<1>1. ASSUME NEW t \in Tasks, Before(t) PROVE RecordTellsOwnRun'
  BY <1>1 DEF IInv, TypeOK, RecordsAreLast, RecordTellsOwnRun, Before, Accept,
       StartRecord, Refused, FoundIdle, infos
<1>2. ASSUME NEW t \in Tasks, Claim(t) PROVE RecordTellsOwnRun'
  BY <1>2 DEF IInv, RecordsAreLast, RecordTellsOwnRun, Claim
<1>3. ASSUME NEW t \in Tasks,
             ExecuteNode(t) \/ ExecutionRaises(t)
      PROVE RecordTellsOwnRun'
  BY <1>3 DEF IInv, TypeOK, RecordsAreLast, RecordTellsOwnRun, ExecuteNode,
       ExecutionRaises
<1>4. ASSUME NEW t \in Tasks,
             Begin(t) \/ PlanFails(t) \/ FetchOfDeleted(t) \/ EndExecution(t) \/ Report(t) \/ Release(t)
      PROVE RecordTellsOwnRun'
  BY <1>4 DEF IInv, RecordsAreLast, RecordTellsOwnRun, Begin, PlanFails, FetchOfDeleted,
       EndExecution, Report, Release, infos
<1>5. ASSUME NEW t \in Tasks, After(t) PROVE RecordTellsOwnRun'
  BY <1>5 DEF IInv, TypeOK, ReportIsOwn, RecordsAreLast, RecordTellsOwnRun, Tells,
       After, CompleteRecord, CancelRecord, Completed, infos
<1>6. CASE Requests
  BY <1>6 DEF IInv, RecordsAreLast, RecordTellsOwnRun, Requests, PollStatus, CancelFlow,
       DeleteNode, vars, infos
<1> QED BY <1>1, <1>2, <1>3, <1>4, <1>5, <1>6, StepsOfTasks DEF During

(* A deleted node does not come back.                                       *)
LEMMA MissedStaysGone ==
    ASSUME IInv, [Next]_vars
    PROVE MissedIsGone'
<1>1. ASSUME NEW t \in Tasks, Before(t) PROVE MissedIsGone'
  BY <1>1 DEF IInv, TypeOK, MissedIsGone, Before, Accept, StartRecord, Refused,
       FoundIdle, Goto, target
<1>2. ASSUME NEW t \in Tasks, During(t) PROVE MissedIsGone'
  BY <1>2 DEF IInv, TypeOK, MissedIsGone, During, Claim, Begin, PlanFails,
       FetchOfDeleted, ExecuteNode, EndExecution, ExecutionRaises, Report, Release,
       Goto, target
<1>3. ASSUME NEW t \in Tasks, After(t) PROVE MissedIsGone'
  BY <1>3 DEF IInv, TypeOK, MissedIsGone, After, CompleteRecord, CancelRecord, Goto,
       target
<1>4. CASE Requests
  BY <1>4 DEF IInv, MissedIsGone, Requests, PollStatus, CancelFlow, DeleteNode, vars,
       target
<1> QED BY <1>1, <1>2, <1>3, <1>4, StepsOfTasks DEF During

(* What a task does before and after it is underway, and what requests do,      *)
(* concerns neither the flag nor a task that raised.                           *)
LEMMA FlagUntouched ==
    ASSUME TypeOK, Requests \/ \E t \in Tasks : Before(t) \/ After(t)
    PROVE /\ isRunning' = isRunning /\ kind' = kind
          /\ nodePresent' => nodePresent
          /\ \A u \in Tasks : /\ Underway(u) => Underway(u)'
                              /\ phase[u] = "raised" => phase'[u] = "raised"
<1>1. ASSUME NEW t \in Tasks, Before(t)
      PROVE /\ isRunning' = isRunning /\ kind' = kind /\ nodePresent' = nodePresent
            /\ ~Underway(t) /\ phase[t] # "raised"
            /\ \E p \in Phases : Goto(t, p)
  BY <1>1 DEF Before, Accept, StartRecord, Refused, FoundIdle, AboutToRun, Phases,
       Underway, flags, target
<1>2. ASSUME NEW t \in Tasks, After(t)
      PROVE /\ isRunning' = isRunning /\ kind' = kind /\ nodePresent' = nodePresent
            /\ \/ phase' = phase
               \/ ~Underway(t) /\ phase[t] # "raised" /\ \E p \in Phases : Goto(t, p)
  BY <1>2 DEF After, CompleteRecord, CancelRecord, Phases, Underway, flags, target
<1>3. CASE Requests
  BY <1>3 DEF Requests, PollStatus, CancelFlow, DeleteNode, vars, Underway, flags,
       target
<1> QED BY <1>1, <1>2, <1>3 DEF TypeOK, Goto, Underway

(* The task that sets the flag is underway until it clears it, unless it raises  *)
(* for a node that is gone.                                                   *)
LEMMA FlagStaysReleased ==
    ASSUME IInv, [Next]_vars
    PROVE FlagReleased'
<1>1. CASE Requests \/ \E t \in Tasks : Before(t) \/ After(t)
  <2> SUFFICES ASSUME isRunning', \A u \in Tasks : ~Underway(u)'
               PROVE \E u \in Tasks : kind'[u] = "fetch" /\ phase'[u] = "raised" /\ ~nodePresent'
    BY DEF FlagReleased, Underway
  <2>1. isRunning' = isRunning /\ kind' = kind
    BY <1>1, FlagUntouched DEF IInv
  <2>2. nodePresent' => nodePresent
    BY <1>1, FlagUntouched DEF IInv
  <2>3. \A u \in Tasks : phase[u] = "raised" => phase'[u] = "raised"
    BY <1>1, FlagUntouched DEF IInv
  <2>4. \A u \in Tasks : ~Underway(u)
    BY <1>1, FlagUntouched DEF IInv, Underway
  <2>5. PICK u \in Tasks : kind[u] = "fetch" /\ phase[u] = "raised" /\ ~nodePresent
    BY <2>1, <2>4 DEF IInv, FlagReleased
  <2> QED BY <2>1, <2>2, <2>3, <2>5
<1>2. ASSUME NEW t \in Tasks,
             Claim(t) \/ Begin(t) \/ ExecuteNode(t) \/ Report(t)
      PROVE FlagReleased'
  <2>1. Underway(t)'
    BY <1>2 DEF IInv, TypeOK, Claim, Begin, ExecuteNode, Report, Goto, Underway
  <2> QED BY <2>1 DEF FlagReleased
<1>3. ASSUME NEW t \in Tasks, FetchOfDeleted(t) PROVE FlagReleased'
  BY <1>3 DEF IInv, TypeOK, MissedIsGone, FlagReleased, FetchOfDeleted, Goto, target
<1>4. ASSUME NEW t \in Tasks,
             PlanFails(t) \/ EndExecution(t) \/ ExecutionRaises(t) \/ Release(t)
      PROVE FlagReleased'
  BY <1>4 DEF FlagReleased, PlanFails, EndExecution, ExecutionRaises, Release
<1> QED BY <1>1, <1>2, <1>3, <1>4, StepsOfTasks DEF During

-----------------------------------------------------------------------------
LEMMA StepIInv == IInv /\ [Next]_vars => IInv'
BY InfoStays, TypesStay, MeetingsStayKnown, NoTraceStays, FlagStaysOwn,
   LatestStaysOwn, InfoStaysOwn, ReportStaysOwn, RecordsStayLast,
   RecordStaysTrue, MissedStaysGone, FlagStaysReleased DEF IInv

LEMMA AlwaysIInv == Spec => []IInv
BY InitIInv, StepIInv, PTL DEF Spec

(* For any number of tasks of any kind the variables keep their types.          *)
THEOREM TypeCorrect == Spec => []TypeOK
<1>1. IInv => TypeOK
  BY DEF IInv
<1> QED BY <1>1, AlwaysIInv, PTL

(* is_running is not left set by any number of run and fetch tasks, whatever     *)
(* order they start, raise and end in, except by a fetch of a deleted node.     *)
THEOREM FlagIsReleased == Spec => []FlagReleased
<1>1. IInv => FlagReleased
  BY DEF IInv
<1> QED BY <1>1, AlwaysIInv, PTL

(* The catalog row of a run that met no other task agrees with the outcomes of   *)
(* the nodes of that run.                                                     *)
THEOREM RecordsAreTrue == Spec => []RecordTellsOwnRun
<1>1. IInv => RecordTellsOwnRun
  BY DEF IInv
<1> QED BY <1>1, AlwaysIInv, PTL
-----------------------------------------------------------------------------
(* A worker task. *)

(* A handler that is past its registration and not done. *)
Busy(a) == handler[a].at \notin {"none", "accepted", "done"}

(* Before the child is spawned, and while there may be one. *)
Early == {"none", "accepted", "registered", "queued"}
LivePlaces == {"spawned", "monitor", "tick", "sendError", "drain", "joinDone", "joinError", "cleanup",
               "hStart", "hLoop", "hSleep", "hError", "hEnd", "hDrain", "hJoin"}
Going == LivePlaces \cup {"hClean"}

Streams(f) == fetcher[f].at \in {"sending", "receiving"}
Asks(f) == fetcher[f].at \in {"submitted", "polling", "answered"}

(* Without an overlap one handler at most is busy. *)
Lone == ~overlap => \A a, b \in Attempts : Busy(a) /\ Busy(b) => a = b

(* A child belongs to a handler that started it and is not done with it. *)
ChildPlaces ==
    \A a \in Attempts :
        /\ handler[a].at \in Early => child[a] = "none" /\ ~handler[a].got
        /\ handler[a].at \in Going => child[a] # "none"
        /\ Alive(a) => handler[a].at \in LivePlaces

ManagedStarted == managed # None => child[managed] # "none"

(* What the shared progress value tells of the child. *)
ProgressTells ==
    \A a \in Attempts :
        /\ child[a] \in {"none", "running", "writing"} => progress[a] = 0
        /\ child[a] \in {"written", "put"} => progress[a] = 100
        /\ child[a] = "failed" => progress[a] = -1

ResultsAreWhole ==
    \A a \in Attempts :
        handler[a].at \in {"drain", "joinDone", "hDrain"} \/ handler[a].got => progress[a] = 100

OneTurn ==
    \A f, g \in Fetchers : g < f /\ fetcher[f].at # "new" => fetcher[g].at = "returned"

(* What a fetcher has not asked for has no handler. *)
NotYetAsked ==
    \A f \in Fetchers :
        /\ fetcher[f].at = "new" => handler[Ws(f)].at = "none"
        /\ fetcher[f].at \in {"new", "sending", "receiving", "fallback"} => handler[Rest(f)].at = "none"
        /\ handler[Rest(f)].at # "accepted"

NoneAccepted == \A f \in Fetchers : Asks(f) => \A a \in Attempts : handler[a].at # "accepted"

Carries(s) == \E i \in 1 .. Len(s) : s[i] = "result"

(* The messages and the entry carry no result that no child has written. *)
MessagesAreEarned ==
    \A f \in Fetchers : Carries(inbox[f]) => \E a \in Own(f) : progress[a] = 100

EntryIsEarned ==
    /\ entry.has => \E a \in Attempts : progress[a] = 100
    /\ \A f \in Fetchers : ~overlap /\ Asks(f) /\ entry.has => progress[Rest(f)] = 100

(* The attempt a fetcher waits for, once it is registered. *)
Awaits(f, a) ==
    \/ Streams(f) /\ a = Ws(f) /\ (child[a] # "none" \/ handler[a].at \in {"registered", "queued"})
    \/ Asks(f) /\ a = Rest(f)

(* Without an overlap it is the only one, and its progress tells of the file. *)
Sole ==
    ~overlap => \A f \in Fetchers, a \in Attempts : Awaits(f, a) =>
        /\ \A b \in Attempts \ {a} : handler[b].at \in {"none", "done"}
        /\ progress[a] = 100 => file = "complete"

OutcomeIsLast ==
    \A f \in Fetchers : fetcher[f].outcome # "none" => fetcher[f].at \in {"answered", "returned"}

(* Without an overlap, what came before an answer writes no more. *)
Settled ==
    ~overlap => \A f \in Fetchers : fetcher[f].outcome = "data" =>
        \A a \in Attempts : a[1] <= f =>
            /\ handler[a].at \notin {"accepted", "registered", "queued"}
            /\ child[a] \notin {"running", "writing"}

Answers ==
    /\ WorkerTypeOK
    /\ Lone
    /\ ChildPlaces
    /\ ManagedStarted
    /\ LiveChildrenAreManaged
    /\ ProgressTells
    /\ ResultsAreWhole
    /\ OneTurn
    /\ NotYetAsked
    /\ NoneAccepted
    /\ MessagesAreEarned
    /\ EntryIsEarned
    /\ Sole
    /\ OutcomeIsLast
    /\ Settled
    /\ DataIsEarned
    /\ WholeFile

-----------------------------------------------------------------------------
(* An attempt is the web socket's or the REST request's of its fetcher. *)
LEMMA AttemptForm ==
    /\ \A a \in Attempts : a[1] \in Fetchers /\ (a = Ws(a[1]) \/ a = Rest(a[1]))
    /\ \A f \in Fetchers : /\ Ws(f) \in Attempts /\ Rest(f) \in Attempts
                           /\ Ws(f)[1] = f /\ Rest(f)[1] = f /\ Ws(f) # Rest(f)
                           /\ Own(f) = {Ws(f), Rest(f)}
    /\ \A f, g \in Fetchers : f # g => Ws(f) # Ws(g) /\ Rest(f) # Rest(g)
    /\ \A f, g \in Fetchers : Ws(f) # Rest(g)
<1>1. \A a \in Attempts : \E f \in Fetchers, k \in {"ws", "rest"} : a = <<f, k>>
  BY DEF Attempts
<1>2. \A f \in Fetchers : <<f, "ws">> \in Attempts /\ <<f, "rest">> \in Attempts
  BY DEF Attempts
<1> QED BY <1>1, <1>2 DEF Ws, Rest, Own

LEMMA FetcherOrder ==
    \A f, g \in Fetchers : /\ f \in Int
                           /\ f < g \/ f = g \/ g < f
                           /\ ~(f < g /\ g < f) /\ ~(f < f)
                           /\ f <= g <=> f < g \/ f = g
BY WorkerAssumption DEF Fetchers

HandlerType == [Attempts -> [at : Places, last : {-1, 0, 100}, got : BOOLEAN]]

(* What To does to the handlers. *)
LEMMA ToMoves ==
    ASSUME handler \in HandlerType, NEW a \in Attempts, NEW p \in Places, To(a, p)
    PROVE  /\ handler' \in HandlerType
           /\ handler'[a].at = p
           /\ handler'[a].got => handler[a].got
           /\ \A b \in Attempts \ {a} : handler'[b] = handler[b]
<1>1. Finished \in [at : Places, last : {-1, 0, 100}, got : BOOLEAN] /\ Finished.at = "done" /\ ~Finished.got
  BY DEF Finished, NoHandler, Places
<1>2. [handler[a] EXCEPT !.at = p] \in [at : Places, last : {-1, 0, 100}, got : BOOLEAN]
  BY DEF HandlerType
<1> DEFINE h == IF p = "done" THEN Finished ELSE [handler[a] EXCEPT !.at = p]
<1>3. /\ h \in [at : Places, last : {-1, 0, 100}, got : BOOLEAN]
      /\ h.at = p /\ (h.got => handler[a].got)
  BY <1>1, <1>2 DEF HandlerType
<1>4. handler' = [handler EXCEPT ![a] = h]
  BY DEF To
<1> HIDE DEF h
<1> QED BY <1>3, <1>4 DEF HandlerType

LEMMA RecordTypes ==
    ASSUME WorkerTypeOK
    PROVE  /\ handler \in HandlerType
           /\ \A a \in Attempts : /\ handler[a].at \in Places /\ handler[a].last \in {-1, 0, 100}
                                  /\ handler[a].got \in BOOLEAN
                                  /\ progress[a] \in {-1, 0, 100} /\ child[a] \in ChildStates
           /\ setup.faults \in Nat /\ setup.calls \in Fetchers
           /\ \A s \in Statuses : [entry EXCEPT !.st = s] \in [st : Statuses, has : BOOLEAN]
           /\ \A s : [entry EXCEPT !.st = s].has = entry.has
<1>1. entry \in [st : Statuses, has : BOOLEAN]
  BY DEF WorkerTypeOK
<1>2. /\ \A s \in Statuses : [entry EXCEPT !.st = s] \in [st : Statuses, has : BOOLEAN]
      /\ \A s : [entry EXCEPT !.st = s].has = entry.has
  BY ONLY <1>1
<1>3. handler \in HandlerType /\ progress \in [Attempts -> {-1, 0, 100}] /\ child \in [Attempts -> ChildStates]
  BY DEF WorkerTypeOK, HandlerType
<1>4. \A a \in Attempts : /\ handler[a].at \in Places /\ handler[a].last \in {-1, 0, 100}
                          /\ handler[a].got \in BOOLEAN
                          /\ progress[a] \in {-1, 0, 100} /\ child[a] \in ChildStates
  BY ONLY <1>3 DEF HandlerType
<1>5. setup.faults \in Nat /\ setup.calls \in Fetchers
  BY WorkerAssumption DEF WorkerTypeOK
<1> QED BY <1>2, <1>3, <1>4, <1>5

(* A handler that notes the progress it read and goes on. *)
Looks(a, x, p) == handler' = [handler EXCEPT ![a] = [[handler[a] EXCEPT !.last = x] EXCEPT !.at = p]]

LEMMA Looking ==
    ASSUME handler \in HandlerType, NEW a \in Attempts, NEW x \in {-1, 0, 100}, NEW p \in Places,
           Looks(a, x, p)
    PROVE  /\ handler' \in HandlerType
           /\ handler'[a].at = p /\ handler'[a].got = handler[a].got
           /\ \A b \in Attempts \ {a} : handler'[b] = handler[b]
<1> DEFINE h == [[handler[a] EXCEPT !.last = x] EXCEPT !.at = p]
<1>1. handler[a] \in [at : Places, last : {-1, 0, 100}, got : BOOLEAN]
  BY DEF HandlerType
<1>2. h \in [at : Places, last : {-1, 0, 100}, got : BOOLEAN] /\ h.at = p /\ h.got = handler[a].got
  BY ONLY <1>1, x \in {-1, 0, 100}, p \in Places
<1>3. handler' = [handler EXCEPT ![a] = h]
  BY DEF Looks
<1> HIDE DEF h
<1> QED BY <1>2, <1>3 DEF HandlerType

(* A change of the status keeps the result of the entry. *)
LEMMA StatusOnly ==
    ASSUME WorkerTypeOK, NEW s \in Statuses, SetStatus(s) \/ entry' = entry
    PROVE  entry' \in [st : Statuses, has : BOOLEAN] /\ entry'.has = entry.has
<1>1. entry \in [st : Statuses, has : BOOLEAN]
  BY DEF WorkerTypeOK
<1>2. CASE SetStatus(s)
  <2>1. entry' = [entry EXCEPT !.st = s]
    BY <1>2 DEF SetStatus
  <2> QED BY ONLY <1>1, <2>1, s \in Statuses
<1>3. CASE entry' = entry
  BY ONLY <1>1, <1>3
<1> QED BY <1>2, <1>3

LEMMA KnownStatuses ==
    /\ "Starting" \in Statuses /\ "Processing" \in Statuses /\ "Error" \in Statuses
    /\ "Unknown Error" \in Statuses /\ "Cancelled" \in Statuses /\ "Completed" \in Statuses
BY DEF Statuses

FetcherPlaces ==
    {"new", "sending", "receiving", "fallback", "submitted", "polling", "answered", "returned"}
FetcherType == [Fetchers -> [at : FetcherPlaces, sent : BOOLEAN, outcome : FetchOutcomes]]

(* Where a fetcher may go, and with what. *)
Goes(f, p, o) ==
    /\ fetcher' \in FetcherType
    /\ fetcher'[f].at = p /\ fetcher'[f].outcome = o
    /\ \A g \in Fetchers \ {f} : fetcher'[g] = fetcher[g]

(* What a change of one fetcher does. *)
LEMMA FetcherMoves ==
    ASSUME fetcher \in FetcherType, NEW f \in Fetchers, NEW r,
           r \in [at : FetcherPlaces, sent : BOOLEAN, outcome : FetchOutcomes],
           fetcher' = [fetcher EXCEPT ![f] = r]
    PROVE  Goes(f, r.at, r.outcome)
BY DEF FetcherType, Goes

(* The assignments to a fetcher: the place, and with it the outcome or sent. *)
Puts(f, p) == fetcher' = [fetcher EXCEPT ![f] = [fetcher[f] EXCEPT !.at = p]]
PutsOutcome(f, p, o) ==
    fetcher' = [fetcher EXCEPT ![f] = [[fetcher[f] EXCEPT !.at = p] EXCEPT !.outcome = o]]
PutsSent(f, p) == fetcher' = [fetcher EXCEPT ![f] = [[fetcher[f] EXCEPT !.at = p] EXCEPT !.sent = TRUE]]

LEMMA Putting ==
    ASSUME fetcher \in FetcherType, NEW f \in Fetchers, NEW p \in FetcherPlaces, Puts(f, p)
    PROVE  Goes(f, p, fetcher[f].outcome)
<1> DEFINE r == [fetcher[f] EXCEPT !.at = p]
<1>1. /\ r \in [at : FetcherPlaces, sent : BOOLEAN, outcome : FetchOutcomes]
      /\ r.at = p /\ r.outcome = fetcher[f].outcome
  <2>1. fetcher[f] \in [at : FetcherPlaces, sent : BOOLEAN, outcome : FetchOutcomes]
    BY DEF FetcherType
  <2> QED BY ONLY <2>1, p \in FetcherPlaces
<1>2. fetcher' = [fetcher EXCEPT ![f] = r]
  BY DEF Puts
<1> HIDE DEF r
<1>3. Goes(f, r.at, r.outcome)
  BY ONLY <1>1, <1>2, fetcher \in FetcherType, f \in Fetchers, FetcherMoves
<1> QED BY ONLY <1>1, <1>3

LEMMA PuttingOutcome ==
    ASSUME fetcher \in FetcherType, NEW f \in Fetchers, NEW p \in FetcherPlaces, NEW o \in FetchOutcomes,
           PutsOutcome(f, p, o)
    PROVE  Goes(f, p, o)
<1> DEFINE r == [[fetcher[f] EXCEPT !.at = p] EXCEPT !.outcome = o]
<1>1. /\ r \in [at : FetcherPlaces, sent : BOOLEAN, outcome : FetchOutcomes]
      /\ r.at = p /\ r.outcome = o
  <2>1. fetcher[f] \in [at : FetcherPlaces, sent : BOOLEAN, outcome : FetchOutcomes]
    BY DEF FetcherType
  <2> QED BY ONLY <2>1, p \in FetcherPlaces, o \in FetchOutcomes
<1>2. fetcher' = [fetcher EXCEPT ![f] = r]
  BY DEF PutsOutcome
<1> HIDE DEF r
<1>3. Goes(f, r.at, r.outcome)
  BY ONLY <1>1, <1>2, fetcher \in FetcherType, f \in Fetchers, FetcherMoves
<1> QED BY ONLY <1>1, <1>3

LEMMA PuttingSent ==
    ASSUME fetcher \in FetcherType, NEW f \in Fetchers, NEW p \in FetcherPlaces, PutsSent(f, p)
    PROVE  Goes(f, p, fetcher[f].outcome)
<1> DEFINE r == [[fetcher[f] EXCEPT !.at = p] EXCEPT !.sent = TRUE]
<1>1. /\ r \in [at : FetcherPlaces, sent : BOOLEAN, outcome : FetchOutcomes]
      /\ r.at = p /\ r.outcome = fetcher[f].outcome
  <2>1. fetcher[f] \in [at : FetcherPlaces, sent : BOOLEAN, outcome : FetchOutcomes]
    BY DEF FetcherType
  <2> QED BY ONLY <2>1, p \in FetcherPlaces
<1>2. fetcher' = [fetcher EXCEPT ![f] = r]
  BY DEF PutsSent
<1> HIDE DEF r
<1>3. Goes(f, r.at, r.outcome)
  BY ONLY <1>1, <1>2, fetcher \in FetcherType, f \in Fetchers, FetcherMoves
<1> QED BY ONLY <1>1, <1>3

LEMMA Returning ==
    ASSUME fetcher \in FetcherType, NEW f \in Fetchers, NEW o \in FetchOutcomes, Return(f, o)
    PROVE  Goes(f, "returned", o)
<1>1. "returned" \in FetcherPlaces
  BY DEF FetcherPlaces
<1>2. PutsOutcome(f, "returned", o)
  BY DEF Return, PutsOutcome
<1> QED BY ONLY <1>1, <1>2, fetcher \in FetcherType, f \in Fetchers, o \in FetchOutcomes, PuttingOutcome

LEMMA Moving ==
    ASSUME fetcher \in FetcherType, NEW f \in Fetchers, NEW p \in FetcherPlaces,
           fetcher' = [fetcher EXCEPT ![f].at = p]
    PROVE  Goes(f, p, fetcher[f].outcome)
<1>1. Puts(f, p)
  BY DEF Puts
<1> QED BY ONLY <1>1, fetcher \in FetcherType, f \in Fetchers, p \in FetcherPlaces, Putting

(* What a client may be sent. *)
Messages == {"complete", "complete-empty", "result", "error", "error-unknown"}

LEMMA Sending ==
    ASSUME WorkerTypeOK, NEW f \in Fetchers, NEW m \in Seq(Messages), Send(f, m)
    PROVE  /\ inbox' \in [Fetchers -> Seq(Messages)]
           /\ \A g \in Fetchers : Carries(inbox'[g]) => Carries(inbox[g]) \/ (g = f /\ Carries(m))
<1>1. inbox \in [Fetchers -> Seq(Messages)]
  BY DEF WorkerTypeOK, Messages
<1>2. CASE conn[f] = "up"
  <2>1. inbox' = [inbox EXCEPT ![f] = @ \o m]
    BY <1>2 DEF Send
  <2>2. inbox[f] \o m \in Seq(Messages)
    BY <1>1
  <2>3. Carries(inbox[f] \o m) => Carries(inbox[f]) \/ Carries(m)
    <3>1. SUFFICES ASSUME NEW i \in 1 .. Len(inbox[f] \o m), (inbox[f] \o m)[i] = "result"
                   PROVE  Carries(inbox[f]) \/ Carries(m)
      BY DEF Carries
    <3>2. CASE i <= Len(inbox[f])
      BY <1>1, <3>1, <3>2 DEF Carries
    <3>3. CASE i > Len(inbox[f])
      <4>1. i - Len(inbox[f]) \in 1 .. Len(m) /\ m[i - Len(inbox[f])] = "result"
        BY <1>1, <3>1, <3>3
      <4> QED BY <4>1 DEF Carries
    <3> QED BY <1>1, <3>2, <3>3
  <2> QED BY <1>1, <2>1, <2>2, <2>3
<1>3. CASE conn[f] # "up"
  BY <1>1, <1>3 DEF Send
<1> QED BY <1>2, <1>3

-----------------------------------------------------------------------------
(* A handler goes on, with a child that it may end but has not started now. *)
Advances(a) ==
    /\ handler[a].at \in Going
    /\ handler'[a].at \in Going \cup {"done"}
    /\ handler'[a].at \in {"drain", "joinDone", "hDrain"} \/ handler'[a].got => progress[a] = 100
    /\ \A b \in Attempts \ {a} : handler'[b] = handler[b] /\ child'[b] = child[b]
    /\ child'[a] \in {child[a], "gone"}
    /\ child'[a] = "gone" \/ handler'[a].at \in LivePlaces
    /\ managed' = managed \/ (managed' = None /\ child'[a] = "gone")
    /\ entry'.has => entry.has \/ handler[a].got
    /\ \A f \in Fetchers : Carries(inbox'[f]) => Carries(inbox[f]) \/ (f = a[1] /\ handler[a].got)
    /\ UNCHANGED <<progress, file, fetcher, overlap>>

LEMMA WsAdvances ==
    ASSUME Answers, NEW a \in Attempts,
           \/ WsProcessing(a) \/ WsIsAlive(a) \/ WsTick(a) \/ WsSendError(a) \/ WsDrain(a)
           \/ WsComplete(a) \/ WsFinalError(a) \/ WsCleanup(a)
    PROVE  WorkerTypeOK' /\ Advances(a)
<1> USE DEF At, Alive
<1>1. /\ WorkerTypeOK /\ a[1] \in Fetchers
      /\ handler[a].at \in Going => child[a] # "none"
      /\ Alive(a) => handler[a].at \in LivePlaces
      /\ handler[a].at \in {"drain", "joinDone", "hDrain"} \/ handler[a].got => progress[a] = 100
  BY AttemptForm DEF Answers, ChildPlaces, ResultsAreWhole
<1> USE RecordTypes, <1>1
<1>2. CASE WsProcessing(a)
  <2>1. "monitor" \in Places /\ To(a, "monitor") /\ entry' \in [st : Statuses, has : BOOLEAN] /\ entry'.has = entry.has
    <3>1. "monitor" \in Places /\ To(a, "monitor")
      BY <1>2 DEF WsProcessing, Places
    <3>2. SetStatus("Processing")
      BY <1>2 DEF WsProcessing
    <3>3. entry' \in [st : Statuses, has : BOOLEAN] /\ entry'.has = entry.has
      BY ONLY <1>1, <3>2, KnownStatuses, StatusOnly
    <3> QED BY <3>1, <3>3
  <2>2. WorkerTypeOK'
    BY <1>2, <2>1, ToMoves DEF WsProcessing, WorkerTypeOK, processes, client, HandlerType
  <2> QED BY <1>2, <2>1, <2>2, ToMoves DEF WsProcessing, Advances, processes, client, Going, LivePlaces
<1>3. CASE WsIsAlive(a)
  <2> DEFINE p == IF Alive(a) THEN "tick" ELSE AfterMonitor(a)
  <2>1. p \in Places /\ To(a, p) /\ handler[a].at = "monitor"
    BY <1>3 DEF WsIsAlive, AfterMonitor, Places
  <2>2. /\ p \in Going /\ (p \in {"drain", "joinDone", "hDrain"} => progress[a] = 100)
        /\ p \in LivePlaces
    BY DEF AfterMonitor, Going, LivePlaces
  <2> HIDE DEF p
  <2>3. WorkerTypeOK'
    BY <1>3, <2>1, ToMoves DEF WsIsAlive, WorkerTypeOK, worker, processes, client, HandlerType
  <2> QED BY <1>3, <2>1, <2>2, <2>3, ToMoves DEF WsIsAlive, Advances, worker, processes, client, Going, LivePlaces
<1>4. CASE WsTick(a)
  <2> DEFINE gone == progress[a] # handler[a].last /\ conn[a[1]] # "up"
             q == IF gone \/ progress[a] = 100 THEN AfterMonitor(a)
                  ELSE IF progress[a] = -1 THEN "sendError" ELSE "monitor"
  <2>1. /\ q \in Places /\ q \in LivePlaces /\ (q \in {"drain", "joinDone", "hDrain"} => progress[a] = 100)
        /\ Looks(a, progress[a], q)
        /\ entry' \in [st : Statuses, has : BOOLEAN] /\ entry'.has = entry.has
        /\ handler[a].at = "tick"
    <3>1. entry' \in [st : Statuses, has : BOOLEAN] /\ entry'.has = entry.has
      <4>1. SetStatus("Error") \/ entry' = entry
        BY <1>4 DEF WsTick
      <4> QED BY ONLY <1>1, <4>1, KnownStatuses, StatusOnly
    <3>2. handler[a].at = "tick" /\ Looks(a, progress[a], q)
      BY <1>4, ZenonT(30) DEF WsTick, Looks
    <3>3. /\ q \in {"drain", "joinError", "sendError", "monitor"}
          /\ q = "drain" => progress[a] = 100
      BY DEF AfterMonitor
    <3>4. {"drain", "joinError", "sendError", "monitor"} \subseteq Places \cap LivePlaces
      BY ONLY DEF Places, LivePlaces
    <3> HIDE DEF q
    <3>5. q \in Places /\ q \in LivePlaces /\ (q \in {"drain", "joinDone", "hDrain"} => progress[a] = 100)
      BY ONLY <3>3, <3>4
    <3> QED BY <3>1, <3>2, <3>5
  <2> HIDE DEF q
  <2>2. /\ handler' \in HandlerType /\ handler'[a].at = q /\ handler'[a].got = handler[a].got
        /\ \A b \in Attempts \ {a} : handler'[b] = handler[b]
    <3>1. progress[a] \in {-1, 0, 100} /\ handler \in HandlerType
      OBVIOUS
    <3> QED BY ONLY <2>1, <3>1, a \in Attempts, Looking
  <2>3. WorkerTypeOK'
    BY <1>4, <2>1, <2>2 DEF WsTick, WorkerTypeOK, processes, client, HandlerType
  <2>4. UNCHANGED <<managed, file, child, progress, inbox, fetcher, overlap>>
    BY <1>4 DEF WsTick, processes, client
  <2> QED BY <2>1, <2>2, <2>3, <2>4 DEF Advances, Going, LivePlaces
<1>5. CASE WsSendError(a)
  <2> DEFINE p == IF conn[a[1]] # "up" /\ Alive(a) THEN "hStart" ELSE "cleanup"
             m == <<"error">>
  <2>1. /\ p \in Places /\ p \in LivePlaces /\ p \notin {"drain", "joinDone", "hDrain"} /\ To(a, p)
        /\ handler[a].at = "sendError" /\ Send(a[1], m)
    BY <1>5 DEF WsSendError, Places, LivePlaces
  <2>2. m \in Seq(Messages) /\ ~Carries(m)
    BY DEF Messages, Carries
  <2> HIDE DEF p, m
  <2>3. /\ inbox' \in [Fetchers -> Seq(Messages)]
        /\ \A g \in Fetchers : Carries(inbox'[g]) => Carries(inbox[g])
    BY ONLY <1>1, <2>1, <2>2, Sending
  <2>4. WorkerTypeOK'
    BY <1>5, <2>1, <2>3, ToMoves DEF WsSendError, WorkerTypeOK, worker, processes, HandlerType, Messages
  <2> QED BY <1>5, <2>1, <2>3, <2>4, ToMoves DEF WsSendError, Advances, worker, processes, Going, LivePlaces
<1>6. CASE WsDrain(a)
  <2>1. handler[a].at = "drain" /\ progress[a] = 100
    BY <1>6 DEF WsDrain
  <2>2. /\ \/ handler' = [handler EXCEPT ![a].at = "joinDone", ![a].got = TRUE]
           \/ handler' = [handler EXCEPT ![a].at = "joinDone"]
        /\ queued' \subseteq Attempts /\ faults' \in 0 .. setup.faults
    BY <1>6 DEF WsDrain, Drain, Fault, WorkerTypeOK
  <2>3. /\ handler' \in HandlerType /\ handler'[a].at = "joinDone"
        /\ \A b \in Attempts \ {a} : handler'[b] = handler[b]
    BY <2>2 DEF HandlerType, Places
  <2>4. WorkerTypeOK'
    BY <1>6, <2>2, <2>3 DEF WsDrain, WorkerTypeOK, worker, client, HandlerType
  <2> QED BY <1>6, <2>1, <2>3, <2>4 DEF WsDrain, Advances, worker, client, Going, LivePlaces
<1>7. CASE WsComplete(a)
  <2> DEFINE m == IF HasResult(a) THEN <<"complete", "result">> ELSE <<"complete-empty">>
  <2>1. /\ "cleanup" \in Places /\ To(a, "cleanup") /\ handler[a].at = "joinDone" /\ Send(a[1], m)
        /\ entry' = [st |-> "Completed", has |-> entry.has \/ HasResult(a)]
        /\ entry' \in [st : Statuses, has : BOOLEAN]
    BY <1>7 DEF WsComplete, Places, Statuses, WorkerTypeOK, HasResult
  <2>2. m \in Seq(Messages) /\ (Carries(m) => HasResult(a))
    <3>1. <<"complete", "result">> \in Seq(Messages) /\ <<"complete-empty">> \in Seq(Messages)
      BY DEF Messages
    <3>2. ~Carries(<<"complete-empty">>)
      BY DEF Carries
    <3> QED BY <3>1, <3>2
  <2> HIDE DEF m
  <2>3. WorkerTypeOK'
    BY <1>7, <2>1, <2>2, ToMoves, Sending DEF WsComplete, WorkerTypeOK, processes, HandlerType, Messages
  <2> QED BY <1>7, <2>1, <2>2, <2>3, ToMoves, Sending
             DEF WsComplete, Advances, processes, Going, LivePlaces, HasResult
<1>8. CASE WsFinalError(a)
  <2> DEFINE w == IF progress[a] = -1 THEN "error" ELSE "error-unknown"
             m == <<w>>
  <2>1. /\ "cleanup" \in Places /\ To(a, "cleanup") /\ handler[a].at = "joinError" /\ Send(a[1], m)
        /\ entry' \in [st : Statuses, has : BOOLEAN] /\ entry'.has = entry.has
    <3>1. "cleanup" \in Places /\ To(a, "cleanup") /\ handler[a].at = "joinError" /\ Send(a[1], m)
      BY <1>8 DEF WsFinalError, Places
    <3>2. SetStatus("Error") \/ SetStatus("Unknown Error")
      BY <1>8 DEF WsFinalError
    <3>3. entry' \in [st : Statuses, has : BOOLEAN] /\ entry'.has = entry.has
      BY ONLY <1>1, <3>2, KnownStatuses, StatusOnly
    <3> QED BY <3>1, <3>3
  <2>2. m \in Seq(Messages) /\ ~Carries(m)
    <3>1. w \in Messages /\ w # "result"
      BY DEF Messages
    <3> QED BY <3>1 DEF Carries
  <2> HIDE DEF m, w
  <2>3. /\ inbox' \in [Fetchers -> Seq(Messages)]
        /\ \A g \in Fetchers : Carries(inbox'[g]) => Carries(inbox[g])
    BY <2>1, <2>2, Sending
  <2>4. WorkerTypeOK'
    BY <1>8, <2>1, <2>3, ToMoves DEF WsFinalError, WorkerTypeOK, processes, HandlerType, Messages
  <2>5. UNCHANGED <<managed, file, child, progress, fetcher, overlap>>
    BY <1>8 DEF WsFinalError, processes
  <2> QED BY <2>1, <2>3, <2>4, <2>5, ToMoves DEF Advances, Going, LivePlaces
<1>9. CASE WsCleanup(a)
  <2>1. "done" \in Places /\ To(a, "done") /\ handler[a].at = "cleanup" /\ "gone" \in ChildStates
    BY <1>9 DEF WsCleanup, Places, ChildStates
  <2>2. /\ child' \in [Attempts -> ChildStates] /\ child'[a] = "gone"
        /\ \A b \in Attempts \ {a} : child'[b] = child[b]
    BY <1>9, <2>1 DEF WsCleanup, Kill, WorkerTypeOK
  <2>3. conn' \in [Fetchers -> {"none", "up", "closed", "lost"}]
    BY <1>9 DEF WsCleanup, WorkerTypeOK
  <2>4. WorkerTypeOK'
    BY <1>9, <2>1, <2>2, <2>3, ToMoves DEF WsCleanup, WorkerTypeOK, HandlerType
  <2> QED BY <1>9, <2>1, <2>2, <2>4, ToMoves DEF WsCleanup, Advances, Going, LivePlaces
<1> QED BY <1>2, <1>3, <1>4, <1>5, <1>6, <1>7, <1>8, <1>9

LEMMA TaskAdvances ==
    ASSUME Answers, NEW a \in Attempts,
           \/ TaskProcessing(a) \/ TaskIsAlive(a) \/ TaskLooks(a) \/ TaskError(a) \/ TaskEnd(a)
           \/ TaskDrain(a) \/ TaskSettles(a) \/ TaskClean(a)
    PROVE  WorkerTypeOK' /\ Advances(a)
<1> USE DEF At, Alive
<1>1. /\ WorkerTypeOK /\ a[1] \in Fetchers
      /\ handler[a].at \in Going => child[a] # "none"
      /\ Alive(a) => handler[a].at \in LivePlaces
      /\ handler[a].at \in {"drain", "joinDone", "hDrain"} \/ handler[a].got => progress[a] = 100
  BY AttemptForm DEF Answers, ChildPlaces, ResultsAreWhole
<1> USE RecordTypes, <1>1
<1>2. CASE TaskProcessing(a) \/ TaskError(a)
  <2> DEFINE p == IF TaskProcessing(a) THEN "hLoop" ELSE "hEnd"
             s == IF TaskProcessing(a) THEN "Processing" ELSE "Error"
  <2>1. /\ p \in Places /\ p \in LivePlaces /\ p \notin {"drain", "joinDone", "hDrain"} /\ To(a, p)
        /\ handler[a].at \in Going
    BY <1>2 DEF TaskProcessing, TaskError, Places, LivePlaces, Going
  <2>2. s \in Statuses /\ entry' = [entry EXCEPT !.st = s]
    BY <1>2 DEF TaskProcessing, TaskError, SetStatus, Statuses
  <2>3. UNCHANGED <<setup, managed, file, child, progress, queued, conn, inbox, fetcher, cancel, faults, overlap>>
    BY <1>2 DEF TaskProcessing, TaskError, processes, client
  <2> HIDE DEF p, s
  <2>4. WorkerTypeOK'
    BY <2>1, <2>2, <2>3, ToMoves DEF WorkerTypeOK, HandlerType
  <2> QED BY <2>1, <2>2, <2>3, <2>4, ToMoves DEF Advances, Going, LivePlaces
<1>3. CASE TaskIsAlive(a)
  <2> DEFINE p == IF Alive(a) THEN "hSleep" ELSE "hEnd"
  <2>1. /\ p \in Places /\ p \in LivePlaces /\ p \notin {"drain", "joinDone", "hDrain"} /\ To(a, p)
        /\ handler[a].at \in Going
    BY <1>3 DEF TaskIsAlive, Places, LivePlaces, Going
  <2>2. UNCHANGED <<setup, entry, managed, file, child, progress, queued, conn, inbox, fetcher, cancel, faults, overlap>>
    BY <1>3 DEF TaskIsAlive, worker, processes, client
  <2> HIDE DEF p
  <2>3. WorkerTypeOK'
    BY <2>1, <2>2, ToMoves DEF WorkerTypeOK, HandlerType
  <2> QED BY <2>1, <2>2, <2>3, ToMoves DEF Advances, Going, LivePlaces
<1>4. CASE TaskLooks(a)
  <2> DEFINE p == IF entry.st = "Cancelled" \/ progress[a] = 100 THEN "hEnd"
                  ELSE IF progress[a] = -1 THEN "hError" ELSE "hLoop"
  <2>1. /\ p \in Places /\ p \in LivePlaces /\ p \notin {"drain", "joinDone", "hDrain"} /\ To(a, p)
        /\ handler[a].at \in Going
    BY <1>4 DEF TaskLooks, Places, LivePlaces, Going
  <2>2. /\ child' \in [Attempts -> ChildStates] /\ child'[a] \in {child[a], "gone"}
        /\ \A b \in Attempts \ {a} : child'[b] = child[b]
    <3>1. "gone" \in ChildStates /\ (child' = child \/ child' = [child EXCEPT ![a] = "gone"])
      BY <1>4 DEF TaskLooks, Kill, ChildStates
    <3>2. child \in [Attempts -> ChildStates]
      BY DEF WorkerTypeOK
    <3>3. CASE child' = child
      BY <3>2, <3>3
    <3>4. CASE child' = [child EXCEPT ![a] = "gone"]
      BY ONLY <3>1, <3>2, <3>4, a \in Attempts
    <3> QED BY <3>1, <3>3, <3>4
  <2>3. UNCHANGED <<setup, entry, managed, file, progress, queued, conn, inbox, fetcher, cancel, faults, overlap>>
    BY <1>4 DEF TaskLooks, worker, client
  <2> HIDE DEF p
  <2>4. WorkerTypeOK'
    BY <2>1, <2>2, <2>3, ToMoves DEF WorkerTypeOK, HandlerType
  <2> QED BY <2>1, <2>2, <2>3, <2>4, ToMoves DEF Advances, Going, LivePlaces
<1>5. CASE TaskEnd(a)
  <2> DEFINE q == IF entry.st # "Cancelled" /\ progress[a] = 100 THEN "hDrain" ELSE "hJoin"
  <2>1. /\ q \in Places /\ q \in LivePlaces /\ (q \in {"drain", "joinDone", "hDrain"} => progress[a] = 100)
        /\ Looks(a, progress[a], q)
        /\ handler[a].at \in Going
    <3>1. Looks(a, progress[a], q) /\ handler[a].at = "hEnd"
      BY <1>5 DEF TaskEnd, Looks
    <3>2. q \in {"hDrain", "hJoin"} /\ (q = "hDrain" => progress[a] = 100)
      OBVIOUS
    <3>3. {"hDrain", "hJoin"} \subseteq Places \cap LivePlaces /\ "hEnd" \in Going
      BY ONLY DEF Places, LivePlaces, Going
    <3> HIDE DEF q
    <3>4. q \in Places /\ q \in LivePlaces /\ (q \in {"drain", "joinDone", "hDrain"} => progress[a] = 100)
      BY ONLY <3>2, <3>3
    <3> QED BY <3>1, <3>3, <3>4
  <2> HIDE DEF q
  <2>2. progress[a] \in {-1, 0, 100} /\ handler \in HandlerType
    OBVIOUS
  <2>3. /\ handler' \in HandlerType /\ handler'[a].at = q /\ handler'[a].got = handler[a].got
        /\ \A b \in Attempts \ {a} : handler'[b] = handler[b]
    BY ONLY <2>1, <2>2, a \in Attempts, Looking
  <2>4. UNCHANGED <<setup, entry, managed, file, child, progress, queued, conn, inbox, fetcher, cancel, faults, overlap>>
    BY <1>5 DEF TaskEnd, worker, processes, client
  <2>5. WorkerTypeOK'
    BY <2>3, <2>4 DEF WorkerTypeOK, HandlerType
  <2> QED BY <2>1, <2>3, <2>4, <2>5 DEF Advances, Going, LivePlaces
<1>6. CASE TaskDrain(a)
  <2>1. handler[a].at = "hDrain" /\ progress[a] = 100
    BY <1>6 DEF TaskDrain
  <2>2. /\ \/ handler' = [handler EXCEPT ![a].at = "hJoin", ![a].got = TRUE]
           \/ handler' = [handler EXCEPT ![a].at = "hJoin"]
        /\ queued' \subseteq Attempts /\ faults' \in 0 .. setup.faults
    BY <1>6 DEF TaskDrain, Drain, Fault, WorkerTypeOK
  <2>3. /\ handler' \in HandlerType /\ handler'[a].at = "hJoin"
        /\ \A b \in Attempts \ {a} : handler'[b] = handler[b]
    BY <2>2 DEF HandlerType, Places
  <2>4. WorkerTypeOK'
    BY <1>6, <2>2, <2>3 DEF TaskDrain, WorkerTypeOK, worker, client, HandlerType
  <2> QED BY <1>6, <2>1, <2>3, <2>4 DEF TaskDrain, Advances, worker, client, Going, LivePlaces
<1>7. CASE TaskSettles(a)
  <2>1. /\ "hClean" \in Places /\ To(a, "hClean") /\ handler[a].at = "hJoin" /\ child[a] = "gone"
    BY <1>7 DEF TaskSettles, Places, Going, LivePlaces
  <2>2. \/ entry' = entry
        \/ entry' = [st |-> "Completed", has |-> entry.has \/ HasResult(a)]
        \/ entry' = [entry EXCEPT !.st = "Unknown Error"]
    BY <1>7 DEF TaskSettles
  <2>3. entry' \in [st : Statuses, has : BOOLEAN] /\ (entry'.has => entry.has \/ handler[a].got)
    <3>1. entry \in [st : Statuses, has : BOOLEAN] /\ HasResult(a) = handler[a].got /\ handler[a].got \in BOOLEAN
      BY DEF WorkerTypeOK, HasResult
    <3>2. "Completed" \in Statuses /\ "Unknown Error" \in Statuses
      BY DEF Statuses
    <3>3. CASE entry' = [st |-> "Completed", has |-> entry.has \/ HasResult(a)]
      <4>1. (entry.has \/ HasResult(a)) \in BOOLEAN
        BY <3>1
      <4>2. entry' \in [st : Statuses, has : BOOLEAN] /\ entry'.has = (entry.has \/ HasResult(a))
        BY ONLY <3>2, <3>3, <4>1
      <4> QED BY <3>1, <4>2
    <3>4. CASE entry' = [entry EXCEPT !.st = "Unknown Error"]
      BY <3>1, <3>2, <3>4
    <3> QED BY <2>2, <3>1, <3>3, <3>4
  <2>4. UNCHANGED <<setup, managed, file, child, progress, queued, conn, inbox, fetcher, cancel, faults, overlap>>
    BY <1>7 DEF TaskSettles, processes, client
  <2>5. WorkerTypeOK'
    BY <2>1, <2>3, <2>4, ToMoves DEF WorkerTypeOK, HandlerType
  <2> QED BY <2>1, <2>3, <2>4, <2>5, ToMoves DEF Advances, Going, LivePlaces
<1>8. CASE TaskClean(a)
  <2>1. /\ "done" \in Places /\ To(a, "done") /\ handler[a].at = "hClean" /\ child[a] = "gone"
    BY <1>8 DEF TaskClean, Places, Going, LivePlaces
  <2>2. UNCHANGED <<setup, entry, file, child, progress, queued, conn, inbox, fetcher, cancel, faults, overlap>>
    BY <1>8 DEF TaskClean, processes, client
  <2>3. managed' = None
    BY <1>8 DEF TaskClean
  <2>4. WorkerTypeOK'
    BY <2>1, <2>2, <2>3, ToMoves DEF WorkerTypeOK, HandlerType
  <2> QED BY <2>1, <2>2, <2>3, <2>4, ToMoves DEF Advances, Going, LivePlaces
<1> QED BY <1>2, <1>3, <1>4, <1>5, <1>6, <1>7, <1>8

-----------------------------------------------------------------------------
(* A handler starts its child. *)
Spawns(a) ==
    /\ handler[a].at \in {"registered", "queued"}
    /\ handler'[a].at \in LivePlaces \ {"drain", "joinDone", "hDrain"} /\ ~handler'[a].got
    /\ child'[a] = "running" /\ managed' = a
    /\ \A b \in Attempts \ {a} : handler'[b] = handler[b] /\ child'[b] = child[b]
    /\ UNCHANGED <<entry, progress, file, inbox, fetcher, overlap>>

LEMMA SpawnSteps ==
    ASSUME Answers, NEW a \in Attempts, WsSpawn(a) \/ RestSpawn(a)
    PROVE  WorkerTypeOK' /\ Spawns(a)
<1> DEFINE p == IF WsSpawn(a) THEN "spawned" ELSE "hStart"
<1>1. WorkerTypeOK /\ (handler[a].at \in Early => ~handler[a].got)
  BY DEF Answers, ChildPlaces
<1>2. /\ p \in Places /\ p \in LivePlaces \ {"drain", "joinDone", "hDrain"} /\ To(a, p)
      /\ handler[a].at \in {"registered", "queued"} /\ managed' = a
      /\ child' = [child EXCEPT ![a] = "running"]
      /\ UNCHANGED <<setup, entry, file, progress, queued, conn, inbox, fetcher, cancel, faults, overlap>>
  BY DEF WsSpawn, RestSpawn, At, Places, LivePlaces, client
<1> HIDE DEF p
<1>3. "running" \in ChildStates
  BY DEF ChildStates
<1>4. WorkerTypeOK'
  BY <1>1, <1>2, <1>3, ToMoves, RecordTypes DEF WorkerTypeOK, HandlerType
<1>5. child'[a] = "running" /\ \A b \in Attempts \ {a} : child'[b] = child[b]
  BY <1>1, <1>2 DEF WorkerTypeOK
<1> QED BY <1>1, <1>2, <1>4, <1>5, ToMoves, RecordTypes DEF Spawns, Early

(* A submission, over the web socket or by REST, takes the task's entry. *)
Enters(a) ==
    /\ \/ handler[a].at = "accepted" /\ handler'[a].at = "registered"
       \/ handler'[a].at = "queued"
    /\ child[a] = "none" /\ ~handler'[a].got
    /\ \A b \in Attempts \ {a} : handler'[b] = handler[b]
    /\ \A b \in Attempts : b[1] < a[1] => handler[b].at # "accepted"
    /\ Registers(a)
    /\ entry'.has = FALSE
    /\ UNCHANGED <<managed, child, progress, file, inbox>>

LEMMA WsEnters ==
    ASSUME Answers, NEW a \in Attempts, WsRegister(a)
    PROVE  WorkerTypeOK' /\ Enters(a) /\ UNCHANGED fetcher /\ a = Ws(a[1])
<1>1. /\ WorkerTypeOK /\ (handler[a].at \in Early => child[a] = "none" /\ ~handler[a].got)
      /\ a[1] \in Fetchers /\ (a = Ws(a[1]) \/ a = Rest(a[1])) /\ handler[Rest(a[1])].at # "accepted"
  BY AttemptForm DEF Answers, ChildPlaces, NotYetAsked
<1>2. /\ "registered" \in Places /\ To(a, "registered") /\ handler[a].at = "accepted"
      /\ \A b \in Attempts : b[1] < a[1] => handler[b].at # "accepted"
      /\ Registers(a) /\ entry' = [st |-> "Starting", has |-> FALSE]
      /\ UNCHANGED <<setup, managed, file, child, progress, queued, conn, inbox, fetcher, cancel, faults>>
  BY DEF WsRegister, At, Places, processes, client
<1>3. entry' \in [st : Statuses, has : BOOLEAN] /\ entry'.has = FALSE /\ overlap' \in BOOLEAN
  BY <1>1, <1>2 DEF Statuses, Registers, WorkerTypeOK
<1>4. WorkerTypeOK'
  BY <1>1, <1>2, <1>3, ToMoves, RecordTypes DEF WorkerTypeOK, HandlerType
<1> QED BY <1>1, <1>2, <1>3, <1>4, ToMoves, RecordTypes DEF Enters, Early

LEMMA RestEnters ==
    ASSUME Answers, NEW f \in Fetchers, Submit(f)
    PROVE  /\ WorkerTypeOK' /\ Enters(Rest(f)) /\ handler'[Rest(f)].at = "queued"
           /\ fetcher[f].at = "fallback" /\ Asks(f)' /\ fetcher'[f].outcome = fetcher[f].outcome
           /\ \A g \in Fetchers \ {f} : fetcher'[g] = fetcher[g]
           /\ handler[Ws(f)].at # "accepted"
<1> DEFINE a == Rest(f)
           p == IF Blocking(f) THEN "polling" ELSE "submitted"
<1>1. /\ WorkerTypeOK /\ a \in Attempts /\ a[1] = f
      /\ fetcher[f].at = "fallback" => handler[a].at = "none"
      /\ handler[a].at \in Early => child[a] = "none" /\ ~handler[a].got
      /\ \A g \in Fetchers : handler[Rest(g)].at # "accepted"
  BY AttemptForm DEF Answers, ChildPlaces, NotYetAsked
<1>2. /\ "queued" \in Places /\ To(a, "queued") /\ fetcher[f].at = "fallback"
      /\ \A g \in 1 .. f : handler[Ws(g)].at # "accepted"
      /\ Registers(a) /\ entry' = [st |-> "Starting", has |-> FALSE]
      /\ fetcher' = [fetcher EXCEPT ![f].at = p]
      /\ UNCHANGED <<setup, managed, file, child, progress, queued, conn, inbox, cancel, faults>>
  BY DEF Submit, At, Places, processes
<1>3. entry' \in [st : Statuses, has : BOOLEAN] /\ entry'.has = FALSE /\ overlap' \in BOOLEAN
  BY <1>1, <1>2 DEF Statuses, Registers, WorkerTypeOK
<1>4. /\ fetcher' \in [Fetchers -> [at : {"new", "sending", "receiving", "fallback", "submitted",
                                          "polling", "answered", "returned"},
                                    sent : BOOLEAN, outcome : FetchOutcomes]]
      /\ fetcher'[f].at = p /\ fetcher'[f].outcome = fetcher[f].outcome
      /\ \A g \in Fetchers \ {f} : fetcher'[g] = fetcher[g]
  <2>1. fetcher \in FetcherType /\ p \in FetcherPlaces
    BY <1>1 DEF WorkerTypeOK, FetcherType, FetcherPlaces
  <2>2. Goes(f, p, fetcher[f].outcome)
    BY ONLY <1>2, <2>1, f \in Fetchers, Moving
  <2> QED BY <2>2 DEF Goes, FetcherType, FetcherPlaces
<1>5. \A b \in Attempts : b[1] <= f => handler[b].at # "accepted"
  <2>1. \A g \in Fetchers : g <= f => g \in 1 .. f
    BY FetcherOrder, WorkerAssumption DEF Fetchers
  <2> QED BY <1>1, <1>2, <2>1, AttemptForm
<1>6. \A b \in Attempts : b[1] < f => handler[b].at # "accepted"
  BY <1>5, FetcherOrder, AttemptForm
<1>7. handler[Ws(f)].at # "accepted"
  BY <1>5, FetcherOrder, AttemptForm
<1> HIDE DEF a
<1>8. WorkerTypeOK'
  BY <1>1, <1>2, <1>3, <1>4, ToMoves, RecordTypes DEF WorkerTypeOK, HandlerType
<1>9. Enters(a) /\ handler'[a].at = "queued"
  BY <1>1, <1>2, <1>3, <1>6, ToMoves, RecordTypes DEF Enters, Early
<1> QED BY <1>2, <1>4, <1>7, <1>8, <1>9 DEF a, Asks

(* A web socket that never gets a plan is given up. *)
GivesUp(a) ==
    /\ handler[a].at \in {"accepted", "registered"} /\ handler'[a].at = "done" /\ ~handler'[a].got
    /\ \A b \in Attempts \ {a} : handler'[b] = handler[b]
    /\ UNCHANGED <<entry, managed, file, child, progress, inbox, fetcher, overlap>>

LEMMA NoPlanStep ==
    ASSUME Answers, NEW a \in Attempts, WsNoPlan(a)
    PROVE  WorkerTypeOK' /\ GivesUp(a)
<1>1. WorkerTypeOK /\ (handler[a].at \in Early => ~handler[a].got)
  BY DEF Answers, ChildPlaces
<1>2. /\ "done" \in Places /\ To(a, "done") /\ handler[a].at \in {"accepted", "registered"}
      /\ UNCHANGED <<setup, entry, managed, file, child, progress, queued, conn, inbox, fetcher, cancel,
                     faults, overlap>>
  BY DEF WsNoPlan, Places, worker, processes, client
<1>3. WorkerTypeOK'
  BY <1>1, <1>2, ToMoves, RecordTypes DEF WorkerTypeOK, HandlerType
<1> QED BY <1>1, <1>2, <1>3, ToMoves, RecordTypes DEF GivesUp, Early

(* A fetcher in its turn opens the web socket. *)
Opens(f) ==
    /\ Turn(f)
    /\ Streams(f)' /\ fetcher'[f].outcome = fetcher[f].outcome
    /\ \A g \in Fetchers \ {f} : fetcher'[g] = fetcher[g]
    /\ handler[Ws(f)].at = "none" /\ handler'[Ws(f)].at = "accepted" /\ ~handler'[Ws(f)].got
    /\ \A b \in Attempts \ {Ws(f)} : handler'[b] = handler[b]
    /\ UNCHANGED <<entry, managed, file, child, progress, inbox, overlap>>

LEMMA ConnectStep ==
    ASSUME Answers, NEW f \in Fetchers, Connect(f)
    PROVE  WorkerTypeOK' /\ Opens(f)
<1> DEFINE a == Ws(f)
<1>1. /\ WorkerTypeOK /\ a \in Attempts
      /\ handler[a].at \in Early => ~handler[a].got
      /\ fetcher[f].at = "new" => handler[a].at = "none"
  BY AttemptForm DEF Answers, ChildPlaces, NotYetAsked
<1>2. /\ "accepted" \in Places /\ To(a, "accepted") /\ Turn(f) /\ fetcher[f].at = "new"
      /\ fetcher' = [fetcher EXCEPT ![f].at = "sending"]
      /\ conn' = [conn EXCEPT ![f] = "up"]
      /\ UNCHANGED <<setup, entry, managed, file, child, progress, queued, inbox, cancel, faults, overlap>>
  BY DEF Connect, Turn, Places, worker, processes
<1>3. /\ fetcher' \in [Fetchers -> [at : {"new", "sending", "receiving", "fallback", "submitted",
                                          "polling", "answered", "returned"},
                                    sent : BOOLEAN, outcome : FetchOutcomes]]
      /\ fetcher'[f].at = "sending" /\ fetcher'[f].outcome = fetcher[f].outcome
      /\ \A g \in Fetchers \ {f} : fetcher'[g] = fetcher[g]
      /\ conn' \in [Fetchers -> {"none", "up", "closed", "lost"}]
  <2>1. fetcher \in FetcherType /\ "sending" \in FetcherPlaces
        /\ conn \in [Fetchers -> {"none", "up", "closed", "lost"}]
    BY <1>1 DEF WorkerTypeOK, FetcherType, FetcherPlaces
  <2>2. Goes(f, "sending", fetcher[f].outcome)
    BY ONLY <1>2, <2>1, f \in Fetchers, Moving
  <2>3. conn' \in [Fetchers -> {"none", "up", "closed", "lost"}]
    BY ONLY <1>2, <2>1
  <2> QED BY <2>2, <2>3 DEF Goes, FetcherType, FetcherPlaces
<1> HIDE DEF a
<1>4. WorkerTypeOK'
  BY <1>1, <1>2, <1>3, ToMoves, RecordTypes DEF WorkerTypeOK, HandlerType
<1>5. /\ handler[a].at = "none" /\ handler'[a].at = "accepted" /\ ~handler'[a].got
      /\ \A b \in Attempts \ {a} : handler'[b] = handler[b]
  BY <1>1, <1>2, ToMoves, RecordTypes DEF Early
<1> QED BY <1>2, <1>3, <1>4, <1>5 DEF Opens, Streams, a

-----------------------------------------------------------------------------
(* A child goes on, or ends. *)
Works(a) ==
    /\ Alive(a) /\ child'[a] # "none"
    /\ child'[a] \in {"running", "writing"} => child[a] \in {"running", "writing"} /\ progress'[a] = 0
    /\ child'[a] \in {"written", "put"} => progress'[a] = 100
    /\ child'[a] = "failed" => progress'[a] = -1
    /\ progress[a] = 100 => progress'[a] = 100
    /\ \A b \in Attempts \ {a} : child'[b] = child[b] /\ progress'[b] = progress[b]
    /\ file' # file => child[a] \in {"running", "writing"}
    /\ progress'[a] = 100 /\ progress[a] # 100 /\ (\A b \in Attempts \ {a} : child[b] # "writing") =>
         file' = "complete"
    /\ UNCHANGED <<entry, managed, handler, inbox, fetcher, overlap>>

LEMMA ChildSteps ==
    ASSUME Answers, NEW a \in Attempts, ChildStep(a) \/ ChildDies(a)
    PROVE  WorkerTypeOK' /\ Works(a)
<1>1. /\ WorkerTypeOK /\ child[a] \in ChildStates /\ progress[a] \in {-1, 0, 100}
      /\ child[a] \in {"none", "running", "writing"} => progress[a] = 0
      /\ child[a] \in {"written", "put"} => progress[a] = 100
      /\ child[a] = "failed" => progress[a] = -1
  BY RecordTypes DEF Answers, ProgressTells
<1>2. \A s \in ChildStates : child' = [child EXCEPT ![a] = s] =>
        /\ child' \in [Attempts -> ChildStates] /\ child'[a] = s
        /\ \A b \in Attempts \ {a} : child'[b] = child[b]
  BY <1>1 DEF WorkerTypeOK
<1>3. \A n \in {-1, 0, 100} : progress' = [progress EXCEPT ![a] = n] =>
        /\ progress' \in [Attempts -> {-1, 0, 100}] /\ progress'[a] = n
        /\ \A b \in Attempts \ {a} : progress'[b] = progress[b]
  BY <1>1 DEF WorkerTypeOK
<1>4. CASE ChildWrites(a)
  <2>1. /\ child[a] = "running" /\ child' = [child EXCEPT ![a] = "writing"] /\ file' = "partial"
        /\ UNCHANGED <<setup, entry, managed, progress, queued, handler, conn, inbox, fetcher, cancel, faults, overlap>>
    BY <1>4 DEF ChildWrites, client
  <2>2. /\ child' \in [Attempts -> ChildStates] /\ child'[a] = "writing"
        /\ \A b \in Attempts \ {a} : child'[b] = child[b]
    BY <1>2, <2>1 DEF ChildStates
  <2>3. WorkerTypeOK'
    BY <1>1, <2>1, <2>2 DEF WorkerTypeOK
  <2> QED BY <1>1, <2>1, <2>2, <2>3 DEF Works, Alive
<1>5. CASE ChildSignals(a)
  <2>1. /\ child[a] = "writing" /\ child' = [child EXCEPT ![a] = "written"]
        /\ progress' = [progress EXCEPT ![a] = 100]
        /\ file' = IF \E b \in Attempts \ {a} : child[b] = "writing" THEN "partial" ELSE "complete"
        /\ UNCHANGED <<setup, entry, managed, queued, handler, conn, inbox, fetcher, cancel, faults, overlap>>
    BY <1>5 DEF ChildSignals, client
  <2>2. /\ child' \in [Attempts -> ChildStates] /\ child'[a] = "written"
        /\ \A b \in Attempts \ {a} : child'[b] = child[b]
    BY <1>2, <2>1 DEF ChildStates
  <2>3. /\ progress' \in [Attempts -> {-1, 0, 100}] /\ progress'[a] = 100
        /\ \A b \in Attempts \ {a} : progress'[b] = progress[b]
    BY <1>3, <2>1
  <2>4. WorkerTypeOK'
    BY <1>1, <2>1, <2>2, <2>3 DEF WorkerTypeOK
  <2> QED BY <1>1, <2>1, <2>2, <2>3, <2>4 DEF Works, Alive
<1>6. CASE ChildFails(a)
  <2>1. /\ child[a] = "running" /\ child' = [child EXCEPT ![a] = "failed"]
        /\ progress' = [progress EXCEPT ![a] = -1] /\ queued' \in {queued, queued \cup {a}}
        /\ UNCHANGED <<setup, entry, managed, file, handler, conn, inbox, fetcher, cancel, faults, overlap>>
    BY <1>6 DEF ChildFails, worker, client
  <2>2. /\ child' \in [Attempts -> ChildStates] /\ child'[a] = "failed"
        /\ \A b \in Attempts \ {a} : child'[b] = child[b]
    BY <1>2, <2>1 DEF ChildStates
  <2>3. /\ progress' \in [Attempts -> {-1, 0, 100}] /\ progress'[a] = -1
        /\ \A b \in Attempts \ {a} : progress'[b] = progress[b]
    BY <1>3, <2>1
  <2>4. WorkerTypeOK'
    BY <1>1, <2>1, <2>2, <2>3 DEF WorkerTypeOK
  <2> QED BY <1>1, <2>1, <2>2, <2>3, <2>4 DEF Works, Alive
<1>7. CASE ChildPuts(a) \/ ChildExits(a) \/ ChildDies(a)
  <2> DEFINE s == IF ChildPuts(a) THEN "put" ELSE "gone"
  <2>1. /\ Alive(a) /\ (s = "put" => child[a] = "written") /\ s \in {"put", "gone"}
        /\ child' = [child EXCEPT ![a] = s]
    BY <1>7 DEF ChildPuts, ChildExits, ChildDies, Alive
  <2>2. UNCHANGED <<setup, entry, managed, file, progress, handler, conn, inbox, fetcher, cancel, overlap>>
    BY <1>7 DEF ChildPuts, ChildExits, ChildDies, worker, client
  <2>3. queued' \subseteq Attempts /\ faults' \in 0 .. setup.faults
    BY <1>1, <1>7, RecordTypes DEF ChildPuts, ChildExits, ChildDies, Fault, WorkerTypeOK
  <2> HIDE DEF s
  <2>4. /\ child' \in [Attempts -> ChildStates] /\ child'[a] = s
        /\ \A b \in Attempts \ {a} : child'[b] = child[b]
    BY <1>2, <2>1 DEF ChildStates
  <2>5. WorkerTypeOK'
    BY <1>1, <2>2, <2>3, <2>4 DEF WorkerTypeOK
  <2> QED BY <1>1, <2>1, <2>2, <2>4, <2>5 DEF Works
<1> QED BY <1>4, <1>5, <1>6, <1>7 DEF ChildStep

-----------------------------------------------------------------------------
(* A cancel ends the managed child, and nothing is managed. *)
Ends ==
    /\ managed' = None /\ managed # None
    /\ child'[managed] = "gone"
    /\ \A b \in Attempts \ {managed} : child'[b] = child[b]
    /\ UNCHANGED <<entry, progress, file, handler, inbox, fetcher, overlap>>

LEMMA CancelEnds ==
    ASSUME Answers, NEW f \in Fetchers, CancelPost(f), managed # None
    PROVE  WorkerTypeOK' /\ Ends
<1>1. WorkerTypeOK /\ managed \in Attempts /\ "gone" \in ChildStates
  BY DEF Answers, WorkerTypeOK, ChildStates
<1>2. /\ child' = [child EXCEPT ![managed] = "gone"] /\ managed' = None
      /\ cancel' = [cancel EXCEPT ![f] = "mark"]
      /\ UNCHANGED <<setup, entry, file, progress, queued, handler, conn, inbox, fetcher, faults, overlap>>
  BY DEF CancelPost, Kill
<1>3. /\ child' \in [Attempts -> ChildStates] /\ child'[managed] = "gone"
      /\ \A b \in Attempts \ {managed} : child'[b] = child[b]
  BY <1>1, <1>2 DEF WorkerTypeOK
<1>4. WorkerTypeOK'
  BY <1>1, <1>2, <1>3 DEF WorkerTypeOK
<1> QED BY <1>2, <1>3, <1>4 DEF Ends

-----------------------------------------------------------------------------
(* A fetcher, or the cancel of one, goes on by itself. *)
Fetches(f) ==
    /\ \A g \in Fetchers \ {f} : fetcher'[g] = fetcher[g]
    /\ fetcher[f].at = "new" /\ fetcher'[f].at # "new" => Turn(f)
    /\ fetcher[f].at = "returned" \/ fetcher'[f].at = "new" => fetcher'[f] = fetcher[f]
    /\ fetcher'[f].at \in {"sending", "receiving", "fallback"} =>
         fetcher[f].at \in {"new", "sending", "receiving", "fallback"}
    /\ Streams(f)' => Streams(f)
    /\ Asks(f)' => Asks(f)
    /\ fetcher'[f].outcome # "none" => fetcher'[f].at \in {"answered", "returned"}
    /\ fetcher'[f].outcome = "data" =>
         \/ fetcher[f].outcome = "data"
         \/ Streams(f) /\ Carries(inbox[f])
         \/ Asks(f) /\ entry.has
    /\ \A g \in Fetchers : Carries(inbox'[g]) => Carries(inbox[g])
    /\ entry'.has = entry.has
    /\ UNCHANGED <<managed, file, child, progress, handler, overlap>>

LEMMA Raising ==
    ASSUME fetcher \in FetcherType, NEW f \in Fetchers, ReceiveRaises(f)
    PROVE  Goes(f, "fallback", fetcher[f].outcome) \/ Goes(f, "returned", "code-1")
BY Moving, Returning DEF ReceiveRaises, FetcherPlaces, FetchOutcomes

LEMMA FetchTypes ==
    ASSUME Answers
    PROVE  /\ WorkerTypeOK /\ fetcher \in FetcherType
           /\ \A f \in Fetchers : /\ fetcher[f].outcome # "none" => fetcher[f].at \in {"answered", "returned"}
                                  /\ fetcher[f].at \in FetcherPlaces
           /\ inbox \in [Fetchers -> Seq(Messages)]
BY DEF Answers, OutcomeIsLast, WorkerTypeOK, FetcherType, FetcherPlaces, Messages

LEMMA EmptyInbox ==
    ASSUME inbox \in [Fetchers -> Seq(Messages)], NEW f \in Fetchers, inbox' = [inbox EXCEPT ![f] = <<>>]
    PROVE  /\ inbox' \in [Fetchers -> Seq(Messages)]
           /\ \A g \in Fetchers : Carries(inbox'[g]) => Carries(inbox[g])
<1>1. <<>> \in Seq(Messages) /\ ~Carries(<<>>)
  BY DEF Carries
<1> QED BY <1>1

LEMMA NextMessage ==
    ASSUME inbox \in [Fetchers -> Seq(Messages)], NEW f \in Fetchers, inbox[f] # <<>>
    PROVE  /\ Head(inbox[f]) = "result" => Carries(inbox[f])
           /\ inbox' = [inbox EXCEPT ![f] = Tail(@)] =>
                /\ inbox' \in [Fetchers -> Seq(Messages)]
                /\ \A g \in Fetchers : Carries(inbox'[g]) => Carries(inbox[g])
<1>1. inbox[f] \in Seq(Messages) /\ Len(inbox[f]) \in Nat /\ Len(inbox[f]) > 0
  OBVIOUS
<1>2. Head(inbox[f]) = "result" => Carries(inbox[f])
  BY <1>1 DEF Carries
<1>3. /\ Tail(inbox[f]) \in Seq(Messages) /\ Len(Tail(inbox[f])) = Len(inbox[f]) - 1
      /\ \A i \in 1 .. Len(Tail(inbox[f])) : i + 1 \in 1 .. Len(inbox[f]) /\ Tail(inbox[f])[i] = inbox[f][i + 1]
  BY <1>1
<1>4. Carries(Tail(inbox[f])) => Carries(inbox[f])
  BY <1>3 DEF Carries
<1> QED BY <1>2, <1>3, <1>4

LEMMA SocketSteps ==
    ASSUME Answers, NEW f \in Fetchers,
           ConnectFails(f) \/ SendPlan(f) \/ SendFails(f) \/ ConnectionLost(f) \/ SubmitFails(f)
    PROVE  WorkerTypeOK' /\ Fetches(f)
<1> USE FetchTypes
<1>1. "fallback" \in FetcherPlaces /\ "receiving" \in FetcherPlaces /\ "raised" \in FetchOutcomes
  BY DEF FetcherPlaces, FetchOutcomes
<1>2. CASE ConnectFails(f)
  <2>1. /\ Turn(f) /\ fetcher[f].at = "new" /\ fetcher' = [fetcher EXCEPT ![f].at = "fallback"]
        /\ UNCHANGED <<setup, entry, managed, file, child, progress, queued, handler, conn, inbox, cancel,
                       faults, overlap>>
    BY <1>2 DEF ConnectFails, Turn, worker, processes
  <2>2. Goes(f, "fallback", fetcher[f].outcome)
    BY <1>1, <2>1, Moving
  <2>3. WorkerTypeOK'
    BY <2>1, <2>2 DEF WorkerTypeOK, Goes, FetcherType, FetcherPlaces
  <2> QED BY <2>1, <2>2, <2>3 DEF Fetches, Goes, Streams, Asks
<1>3. CASE SendPlan(f)
  <2>1. /\ fetcher[f].at = "sending" /\ PutsSent(f, "receiving")
        /\ UNCHANGED <<setup, entry, managed, file, child, progress, queued, handler, conn, inbox, cancel,
                       faults, overlap>>
    BY <1>3 DEF SendPlan, PutsSent, worker, processes
  <2>2. fetcher \in FetcherType
    OBVIOUS
  <2>3. Goes(f, "receiving", fetcher[f].outcome)
    BY ONLY <1>1, <2>1, <2>2, f \in Fetchers, PuttingSent
  <2>4. WorkerTypeOK'
    BY <2>1, <2>3 DEF WorkerTypeOK, Goes, FetcherType, FetcherPlaces
  <2> QED BY <2>1, <2>3, <2>4 DEF Fetches, Goes, Streams, Asks
<1>4. CASE SendFails(f)
  <2>1. /\ fetcher[f].at = "sending" /\ fetcher' = [fetcher EXCEPT ![f].at = "fallback"]
        /\ UNCHANGED <<setup, entry, managed, file, child, progress, queued, handler, inbox, cancel, overlap>>
    BY <1>4 DEF SendFails, worker, processes
  <2>2. /\ conn' \in [Fetchers -> {"none", "up", "closed", "lost"}]
        /\ faults' \in 0 .. setup.faults
    BY <1>4, RecordTypes DEF SendFails, Fault, WorkerTypeOK
  <2>3. Goes(f, "fallback", fetcher[f].outcome)
    BY <1>1, <2>1, Moving
  <2>4. WorkerTypeOK'
    BY <2>1, <2>2, <2>3 DEF WorkerTypeOK, Goes, FetcherType, FetcherPlaces
  <2> QED BY <2>1, <2>3, <2>4 DEF Fetches, Goes, Streams, Asks
<1>5. CASE ConnectionLost(f)
  <2>1. UNCHANGED <<setup, entry, managed, file, child, progress, queued, handler, inbox, fetcher, cancel, overlap>>
    BY <1>5 DEF ConnectionLost, worker, processes
  <2>2. /\ conn' \in [Fetchers -> {"none", "up", "closed", "lost"}]
        /\ faults' \in 0 .. setup.faults
    BY <1>5, RecordTypes DEF ConnectionLost, Fault, WorkerTypeOK
  <2>3. WorkerTypeOK'
    BY <2>1, <2>2 DEF WorkerTypeOK
  <2> QED BY <2>1, <2>3 DEF Fetches, Streams, Asks
<1>6. CASE SubmitFails(f)
  <2>1. /\ fetcher[f].at = "fallback" /\ Return(f, "raised")
        /\ UNCHANGED <<setup, entry, managed, file, child, progress, queued, handler, conn, inbox, cancel, overlap>>
    BY <1>6 DEF SubmitFails, worker, processes
  <2>2. faults' \in 0 .. setup.faults
    BY <1>6, RecordTypes DEF SubmitFails, Fault, WorkerTypeOK
  <2>3. Goes(f, "returned", "raised")
    BY <1>1, <2>1, Returning
  <2>4. WorkerTypeOK'
    BY <2>1, <2>2, <2>3 DEF WorkerTypeOK, Goes, FetcherType, FetcherPlaces
  <2> QED BY <2>1, <2>3, <2>4 DEF Fetches, Goes, Streams, Asks
<1> QED BY <1>2, <1>3, <1>4, <1>5, <1>6

LEMMA ReceiveSteps ==
    ASSUME Answers, NEW f \in Fetchers, Receive(f) \/ ConnectionClosed(f)
    PROVE  WorkerTypeOK' /\ Fetches(f)
<1> USE FetchTypes
<1>1. "nothing" \in FetchOutcomes /\ "data" \in FetchOutcomes
  BY DEF FetchOutcomes
<1>2. /\ fetcher[f].at = "receiving" /\ fetcher[f].outcome = "none"
      /\ UNCHANGED <<setup, entry, managed, file, child, progress, queued, handler, cancel, faults, overlap>>
  BY DEF Receive, ConnectionClosed, worker, processes
<1>3. /\ inbox' \in [Fetchers -> Seq(Messages)]
      /\ \A g \in Fetchers : Carries(inbox'[g]) => Carries(inbox[g])
  <2>1. \/ inbox' = [inbox EXCEPT ![f] = <<>>]
        \/ inbox[f] # <<>> /\ inbox' = [inbox EXCEPT ![f] = Tail(@)]
    BY DEF Receive, ConnectionClosed
  <2> QED BY <2>1, EmptyInbox, NextMessage
<1>4. conn' \in [Fetchers -> {"none", "up", "closed", "lost"}]
  <2>1. conn' = conn \/ conn' = [conn EXCEPT ![f] = "lost"]
    BY DEF Receive, ConnectionClosed
  <2> QED BY <2>1 DEF WorkerTypeOK
<1>5. \/ fetcher' = fetcher
      \/ Goes(f, "returned", "nothing")
      \/ Goes(f, "returned", "data") /\ Carries(inbox[f])
      \/ Goes(f, "fallback", "none")
      \/ Goes(f, "returned", "code-1")
  <2>1. CASE ConnectionClosed(f)
    BY <1>2, <2>1, Raising DEF ConnectionClosed
  <2>2. CASE Receive(f)
    <3>1. inbox[f] # <<>>
      BY <2>2 DEF Receive
    <3>2. \/ fetcher' = fetcher
          \/ Return(f, "nothing")
          \/ Head(inbox[f]) = "result" /\ Return(f, "data")
          \/ ReceiveRaises(f)
      <4>1. CASE Head(inbox[f]) = "complete"
        BY <2>2, <4>1 DEF Receive
      <4>2. CASE Head(inbox[f]) = "complete-empty"
        BY <2>2, <4>2 DEF Receive
      <4>3. CASE Head(inbox[f]) = "result"
        BY <2>2, <4>3 DEF Receive
      <4>4. CASE Head(inbox[f]) \notin {"complete", "complete-empty", "result"}
        BY <2>2, <4>4 DEF Receive
      <4> QED BY <4>1, <4>2, <4>3, <4>4
    <3> QED BY <1>1, <1>2, <3>1, <3>2, NextMessage, Returning, Raising
  <2> QED BY <2>1, <2>2
<1>6. WorkerTypeOK'
  <2>1. fetcher' \in FetcherType
    BY <1>5 DEF Goes
  <2> QED BY <1>2, <1>3, <1>4, <2>1 DEF WorkerTypeOK, FetcherType, FetcherPlaces, Messages
<1> QED BY <1>2, <1>3, <1>5, <1>6 DEF Fetches, Goes, Streams, Asks

LEMMA AskSteps ==
    ASSUME Answers, NEW f \in Fetchers, ReadStatus(f) \/ Poll(f) \/ PollStops(f)
    PROVE  WorkerTypeOK' /\ Fetches(f)
<1> USE FetchTypes
<1>1. /\ Asks(f) /\ (fetcher[f].at = "answered" \/ fetcher[f].outcome = "none")
      /\ UNCHANGED <<setup, entry, managed, file, child, progress, queued, handler, conn, inbox, cancel, faults, overlap>>
  BY DEF ReadStatus, Poll, PollStops, worker, processes, Asks
<1>2. \/ fetcher[f].at = "submitted" /\ Goes(f, "polling", fetcher[f].outcome)
      \/ Goes(f, "returned", fetcher[f].outcome)
      \/ Goes(f, "answered", "data") /\ entry.has
      \/ \E o \in FetchOutcomes : Goes(f, "returned", o) /\ (o = "data" => entry.has)
  <2>1. CASE ReadStatus(f)
    <3>1. PICK ok \in Readable :
            IF ~ok THEN Return(f, "raised")
            ELSE fetcher' = [fetcher EXCEPT ![f].at = IF @ = "submitted" THEN "polling" ELSE "returned"]
      BY <2>1 DEF ReadStatus
    <3>2. CASE ~ok
      BY <3>1, <3>2, Returning DEF FetchOutcomes
    <3>3. CASE ok
      <4> DEFINE p == IF fetcher[f].at = "submitted" THEN "polling" ELSE "returned"
      <4>1. fetcher' = [fetcher EXCEPT ![f].at = p] /\ p \in FetcherPlaces
        BY <3>1, <3>3 DEF FetcherPlaces
      <4>2. Goes(f, p, fetcher[f].outcome)
        BY <4>1, Moving
      <4> QED BY <4>2
    <3> QED BY <3>2, <3>3
  <2>2. CASE Poll(f)
    <3>1. PICK ok \in Readable :
            IF Blocking(f) /\ Answer(ok) = "data"
            THEN fetcher' = [fetcher EXCEPT ![f].at = "answered", ![f].outcome = "data"]
            ELSE Return(f, Answer(ok))
      BY <2>2 DEF Poll
    <3>2. Answer(ok) \in FetchOutcomes /\ (Answer(ok) = "data" => entry.has)
      BY <2>2 DEF Poll, Answer, FetchOutcomes
    <3>3. CASE Blocking(f) /\ Answer(ok) = "data"
      <4>1. PutsOutcome(f, "answered", "data") /\ fetcher \in FetcherType
        BY <3>1, <3>3 DEF PutsOutcome
      <4>2. "answered" \in FetcherPlaces /\ "data" \in FetchOutcomes
        BY DEF FetcherPlaces, FetchOutcomes
      <4>3. Goes(f, "answered", "data")
        BY ONLY <4>1, <4>2, f \in Fetchers, PuttingOutcome
      <4> QED BY ONLY <3>2, <3>3, <4>3
    <3>4. CASE ~(Blocking(f) /\ Answer(ok) = "data")
      BY <3>1, <3>2, <3>4, Returning
    <3> QED BY <3>3, <3>4
  <2>3. CASE PollStops(f)
    BY <2>3, Returning DEF PollStops, FetchOutcomes
  <2> QED BY <2>1, <2>2, <2>3
<1>3. fetcher' \in FetcherType
  BY <1>2 DEF Goes
<1>4. WorkerTypeOK'
  BY <1>1, <1>3 DEF WorkerTypeOK, FetcherType, FetcherPlaces
<1> QED BY <1>1, <1>2, <1>4 DEF Fetches, Goes, Streams, Asks

LEMMA CancelSteps ==
    ASSUME Answers, NEW f \in Fetchers,
           Cancel(f) \/ (CancelPost(f) /\ managed = None) \/ CancelMark(f) \/ CancelStop(f)
    PROVE  WorkerTypeOK' /\ Fetches(f)
<1> USE FetchTypes
<1>1. UNCHANGED <<setup, managed, file, child, progress, queued, handler, inbox, fetcher, faults, overlap>>
  BY DEF Cancel, CancelPost, CancelMark, CancelStop, worker, processes
<1>2. conn' \in [Fetchers -> {"none", "up", "closed", "lost"}]
  <2>1. conn' = conn \/ conn' = [conn EXCEPT ![f] = "lost"] \/ conn' = [conn EXCEPT ![f] = conn[f]]
    BY DEF Cancel, CancelPost, CancelMark, CancelStop
  <2>2. conn \in [Fetchers -> {"none", "up", "closed", "lost"}]
    BY DEF WorkerTypeOK
  <2> QED BY ONLY <2>1, <2>2, f \in Fetchers
<1>3. \E c \in {"post", "mark", "stop", "done"} : cancel' = [cancel EXCEPT ![f] = c]
  BY DEF Cancel, CancelPost, CancelMark, CancelStop
<1>4. WorkerTypeOK /\ (SetStatus("Cancelled") \/ entry' = entry)
  BY DEF Cancel, CancelPost, CancelMark, CancelStop, worker
<1>5. entry' \in [st : Statuses, has : BOOLEAN] /\ entry'.has = entry.has
  BY ONLY <1>4, KnownStatuses, StatusOnly
<1>6. WorkerTypeOK'
  BY <1>1, <1>2, <1>3, <1>5 DEF WorkerTypeOK
<1> QED BY <1>1, <1>5, <1>6 DEF Fetches, Streams, Asks

-----------------------------------------------------------------------------
(* The invariant without the types: it is about who is where. *)
LEMMA AnswersParts ==
    Answers <=>
      /\ WorkerTypeOK /\ Lone /\ ChildPlaces /\ ManagedStarted /\ LiveChildrenAreManaged
      /\ ProgressTells /\ ResultsAreWhole /\ OneTurn /\ NotYetAsked /\ NoneAccepted
      /\ MessagesAreEarned /\ EntryIsEarned /\ Sole /\ OutcomeIsLast /\ Settled
      /\ DataIsEarned /\ WholeFile
BY DEF Answers

(* Every part of what follows is about the places of one handler or fetcher.  *)
LEMMA AdvanceKeeps ==
    ASSUME Answers, NEW a \in Attempts, Advances(a), WorkerTypeOK'
    PROVE  Answers'
<1> USE AnswersParts
<1>1. /\ handler[a].at \in Going /\ handler'[a].at \in Going \cup {"done"}
      /\ \A b \in Attempts \ {a} : handler'[b] = handler[b] /\ child'[b] = child[b]
      /\ child'[a] \in {child[a], "gone"} /\ child[a] # "none"
      /\ child'[a] = "gone" \/ handler'[a].at \in LivePlaces
      /\ UNCHANGED <<progress, file, fetcher, overlap>>
  BY DEF Advances, ChildPlaces
<1>2. \A b \in Attempts : /\ Busy(b)' => Busy(b)
                          /\ Alive(b)' => Alive(b)
                          /\ (child'[b] = "none") <=> (child[b] = "none")
                          /\ child'[b] # child[b] => child'[b] = "gone"
                          /\ handler'[b].at \in Early <=> handler[b].at \in Early
                          /\ handler'[b].at \in Early => handler'[b] = handler[b]
                          /\ handler[b].at = "done" => handler'[b].at = "done"
  BY <1>1 DEF Busy, Alive, Going, LivePlaces, Early
<1>3. Lone'
  BY <1>1, <1>2 DEF Lone
<1>4. ChildPlaces'
  BY <1>1, <1>2 DEF ChildPlaces, Alive, Early, Going, LivePlaces
<1>5. ManagedStarted'
  BY <1>1, <1>2 DEF ManagedStarted, Advances, WorkerTypeOK
<1>6. LiveChildrenAreManaged'
  <2>1. SUFFICES ASSUME ~overlap, NEW b \in Attempts, Alive(b)'
                 PROVE  managed' = b
    BY <1>1 DEF LiveChildrenAreManaged
  <2>2. Alive(b) /\ managed = b
    BY <1>2, <2>1 DEF LiveChildrenAreManaged
  <2>3. Busy(a) /\ Busy(b)
    BY <1>1, <2>2 DEF ChildPlaces, Busy, Going, LivePlaces
  <2>4. a = b
    BY <2>1, <2>3 DEF Lone
  <2> QED BY <2>1, <2>2, <2>4 DEF Advances, Alive
<1>7. ProgressTells'
  BY <1>1, <1>2 DEF ProgressTells
<1>8. ResultsAreWhole'
  BY <1>1 DEF ResultsAreWhole, Advances
<1>9. OneTurn' /\ OutcomeIsLast' /\ DataIsEarned'
  BY <1>1 DEF OneTurn, OutcomeIsLast, DataIsEarned, Own
<1>10. NotYetAsked'
  BY <1>1, <1>2, AttemptForm DEF NotYetAsked, Early
<1>11. NoneAccepted'
  BY <1>1, <1>2 DEF NoneAccepted, Asks, Early
<1>12. handler[a].got => progress[a] = 100
  BY DEF ResultsAreWhole
<1>13. MessagesAreEarned'
  <2>1. \A f \in Fetchers : Carries(inbox'[f]) => Carries(inbox[f]) \/ (f = a[1] /\ handler[a].got)
    BY DEF Advances
  <2>2. a \in Own(a[1])
    BY AttemptForm
  <2> QED BY <1>1, <1>12, <2>1, <2>2 DEF MessagesAreEarned, Own
<1>14. EntryIsEarned'
  <2>1. entry'.has => entry.has \/ handler[a].got
    BY DEF Advances
  <2>2. \A f \in Fetchers : ~overlap /\ Asks(f) => a = Rest(f)
    BY <1>1, AttemptForm DEF Sole, Awaits, Going, LivePlaces
  <2> QED BY <1>1, <1>12, <2>1, <2>2 DEF EntryIsEarned, Asks
<1>15. Sole'
  <2>1. \A f \in Fetchers, b \in Attempts : Awaits(f, b)' => Awaits(f, b)
    BY <1>1, <1>2 DEF Awaits, Streams, Asks, Early
  <2> QED BY <1>1, <1>2, <2>1 DEF Sole, Early
<1>16. Settled'
  BY <1>1, <1>2 DEF Settled, Early
<1>17. WholeFile'
  BY <1>1, <1>2 DEF WholeFile
<1> QED BY <1>3, <1>4, <1>5, <1>6, <1>7, <1>8, <1>9, <1>10, <1>11, <1>13, <1>14, <1>15, <1>16, <1>17 DEF Answers

(* Two fetchers are never on their way together, and the later ones wait. *)
LEMMA OneActive ==
    ASSUME Answers, NEW f \in Fetchers
    PROVE  /\ fetcher[f].at \notin {"new", "returned"} =>
                \A g \in Fetchers : f < g => fetcher[g].at = "new"
           /\ \A g \in Fetchers :
                fetcher[f].at \notin {"new", "returned"} /\ fetcher[g].at \notin {"new", "returned"} => f = g
           /\ Turn(f) => \A g \in Fetchers : fetcher[g].at \in {"new", "returned"} /\
                            (fetcher[g].at = "returned" => g < f)
<1>1. \A g, h \in Fetchers : h < g /\ fetcher[g].at # "new" => fetcher[h].at = "returned"
  BY DEF Answers, OneTurn
<1> QED BY <1>1, FetcherOrder DEF Turn

LEMMA NewHasNoHandler ==
    ASSUME Answers, NEW a \in Attempts, fetcher[a[1]].at = "new"
    PROVE  handler[a].at = "none"
BY AttemptForm DEF Answers, NotYetAsked

LEMMA SpawnKeeps ==
    ASSUME Answers, NEW a \in Attempts, Spawns(a), WorkerTypeOK'
    PROVE  Answers'
<1> USE AnswersParts
<1>1. /\ handler[a].at \in {"registered", "queued"}
      /\ handler'[a].at \in LivePlaces \ {"drain", "joinDone", "hDrain"} /\ ~handler'[a].got
      /\ child'[a] = "running" /\ managed' = a
      /\ \A b \in Attempts \ {a} : handler'[b] = handler[b] /\ child'[b] = child[b]
      /\ UNCHANGED <<entry, progress, file, inbox, fetcher, overlap>>
      /\ child[a] = "none" /\ progress[a] = 0
  BY DEF Spawns, ChildPlaces, Early, ProgressTells
<1>2. Busy(a) /\ \A b \in Attempts : Busy(b)' <=> Busy(b)
  BY <1>1 DEF Busy, LivePlaces
<1>3. Lone'
  BY <1>1, <1>2 DEF Lone
<1>4. ChildPlaces'
  BY <1>1 DEF ChildPlaces, Alive, Early, Going, LivePlaces
<1>5. ManagedStarted'
  BY <1>1 DEF ManagedStarted
<1>6. LiveChildrenAreManaged'
  <2>1. \A b \in Attempts \ {a} : Alive(b)' => Busy(b)
    BY <1>1 DEF ChildPlaces, Alive, Busy, LivePlaces
  <2> QED BY <1>1, <1>2, <2>1 DEF LiveChildrenAreManaged, Lone
<1>7. ProgressTells'
  BY <1>1 DEF ProgressTells
<1>8. ResultsAreWhole'
  BY <1>1 DEF ResultsAreWhole
<1>9. OneTurn' /\ OutcomeIsLast' /\ DataIsEarned' /\ MessagesAreEarned' /\ EntryIsEarned'
  BY <1>1 DEF OneTurn, OutcomeIsLast, DataIsEarned, Own, MessagesAreEarned, EntryIsEarned, Asks
<1>10. NotYetAsked'
  BY <1>1, AttemptForm DEF NotYetAsked, LivePlaces
<1>11. NoneAccepted'
  BY <1>1 DEF NoneAccepted, Asks, LivePlaces
<1>12. Sole'
  <2>1. \A f \in Fetchers, b \in Attempts : Awaits(f, b)' => Awaits(f, b)
    BY <1>1 DEF Awaits, Streams, Asks, LivePlaces
  <2>2. \A f \in Fetchers, b \in Attempts \ {a} : ~overlap => ~Awaits(f, b)
    BY <1>1 DEF Sole
  <2> QED BY <1>1, <2>1, <2>2 DEF Sole
<1>13. Settled'
  BY <1>1 DEF Settled
<1>14. WholeFile'
  BY <1>1 DEF WholeFile
<1> QED BY <1>3, <1>4, <1>5, <1>6, <1>7, <1>8, <1>9, <1>10, <1>11, <1>12, <1>13, <1>14 DEF Answers

(* A submission that finds no other attempt busy, or records an overlap. *)
LEMMA EnterKeeps ==
    ASSUME Answers, NEW a \in Attempts, Enters(a)
    PROVE  /\ overlap' \in BOOLEAN => (overlap => overlap')
           /\ ~overlap' => ~overlap /\ \A b \in Attempts \ {a} : ~Busy(b)
           /\ Lone' /\ ChildPlaces' /\ ManagedStarted' /\ LiveChildrenAreManaged'
           /\ ProgressTells' /\ ResultsAreWhole' /\ MessagesAreEarned' /\ EntryIsEarned'
<1> USE AnswersParts
<1>1. /\ handler'[a].at \in {"registered", "queued"} /\ child[a] = "none" /\ ~handler'[a].got
      /\ \A b \in Attempts \ {a} : handler'[b] = handler[b]
      /\ overlap' = (overlap \/ \E b \in Attempts \ {a} : Busy(b))
      /\ entry'.has = FALSE
      /\ UNCHANGED <<managed, child, progress, file, inbox>>
  BY DEF Enters, Registers, Busy
<1>2. ~overlap' => ~overlap /\ \A b \in Attempts \ {a} : ~Busy(b)
  BY <1>1
<1>3. \A b \in Attempts \ {a} : Busy(b)' <=> Busy(b)
  BY <1>1 DEF Busy
<1>4. Lone'
  BY <1>2, <1>3 DEF Lone
<1>5. ChildPlaces'
  BY <1>1 DEF ChildPlaces, Alive, Early, Going, LivePlaces
<1>6. ManagedStarted' /\ ProgressTells'
  BY <1>1 DEF ManagedStarted, ProgressTells
<1>7. LiveChildrenAreManaged'
  BY <1>1, <1>2 DEF LiveChildrenAreManaged, Alive
<1>8. ResultsAreWhole'
  BY <1>1 DEF ResultsAreWhole
<1>9. MessagesAreEarned' /\ EntryIsEarned'
  BY <1>1 DEF MessagesAreEarned, EntryIsEarned, Own
<1> QED BY <1>1, <1>2, <1>4, <1>5, <1>6, <1>7, <1>8, <1>9

LEMMA WsEnterKeeps ==
    ASSUME Answers, NEW a \in Attempts, Enters(a), UNCHANGED fetcher, a = Ws(a[1]),
           handler[a].at = "accepted", WorkerTypeOK'
    PROVE  Answers'
<1> USE AnswersParts
<1>1. /\ handler'[a].at \in {"registered", "queued"} /\ child[a] = "none" /\ progress[a] = 0
      /\ \A b \in Attempts \ {a} : handler'[b] = handler[b]
      /\ \A b \in Attempts : b[1] < a[1] => handler[b].at # "accepted"
      /\ UNCHANGED <<child, progress, file, fetcher>>
      /\ ~overlap' => ~overlap /\ \A b \in Attempts \ {a} : ~Busy(b)
  BY EnterKeeps DEF Enters, ProgressTells
<1>2. OneTurn' /\ OutcomeIsLast'
  BY <1>1 DEF OneTurn, OutcomeIsLast
<1>3. NotYetAsked'
  BY <1>1, AttemptForm DEF NotYetAsked
<1>4. NoneAccepted'
  BY <1>1 DEF NoneAccepted, Asks
<1>5. Sole'
  <2>1. SUFFICES ASSUME ~overlap', NEW f \in Fetchers, NEW b \in Attempts, Awaits(f, b)'
                 PROVE  /\ \A c \in Attempts \ {b} : handler'[c].at \in {"none", "done"}
                        /\ progress[b] = 100 => file = "complete"
    BY <1>1 DEF Sole
  <2>2. CASE b # a
    <3>1. Awaits(f, b)
      BY <1>1, <2>1, <2>2 DEF Awaits, Streams, Asks
    <3> QED BY <1>1, <2>1, <2>2, <3>1 DEF Sole
  <2>3. CASE b = a
    <3>1. f = a[1] /\ Streams(f)
      BY <1>1, <2>1, <2>3, AttemptForm DEF Awaits, Streams, Asks
    <3>2. SUFFICES ASSUME NEW c \in Attempts \ {a}
                   PROVE  handler[c].at # "accepted"
      BY <1>1, <2>1, <2>3, <3>2 DEF Busy
    <3>3. c[1] \in Fetchers /\ (c[1] < f \/ c[1] = f \/ f < c[1])
      BY AttemptForm, FetcherOrder
    <3>4. CASE c[1] < f
      BY <1>1, <3>1, <3>4
    <3>5. CASE c[1] = f
      BY <3>1, <3>5, AttemptForm DEF NotYetAsked
    <3>6. CASE f < c[1]
      BY <3>1, <3>3, <3>6, OneActive, NewHasNoHandler DEF Streams
    <3> QED BY <3>3, <3>4, <3>5, <3>6
  <2> QED BY <2>2, <2>3
<1>6. Settled'
  BY <1>1 DEF Settled
<1>7. WholeFile'
  BY <1>1 DEF WholeFile
<1>8. DataIsEarned'
  <2>1. overlap => overlap'
    BY EnterKeeps DEF WorkerTypeOK
  <2> QED BY <1>1, <2>1 DEF DataIsEarned, Own
<1> QED BY <1>2, <1>3, <1>4, <1>5, <1>6, <1>7, <1>8, EnterKeeps DEF Answers

LEMMA RestEnterKeeps ==
    ASSUME Answers, NEW f \in Fetchers, Enters(Rest(f)), WorkerTypeOK',
           handler'[Rest(f)].at = "queued", handler[Ws(f)].at # "accepted",
           fetcher[f].at = "fallback", Asks(f)', fetcher'[f].outcome = fetcher[f].outcome,
           \A g \in Fetchers \ {f} : fetcher'[g] = fetcher[g]
    PROVE  Answers'
<1> USE AnswersParts
<1> DEFINE a == Rest(f)
<1>1. /\ a \in Attempts /\ a[1] = f /\ Ws(f) \in Attempts /\ Ws(f)[1] = f /\ a # Ws(f)
      /\ \A b \in Attempts : b[1] = f => b = a \/ b = Ws(f)
  BY AttemptForm
<1>2. /\ handler'[a].at = "queued" /\ child[a] = "none" /\ progress[a] = 0
      /\ \A b \in Attempts \ {a} : handler'[b] = handler[b]
      /\ \A b \in Attempts : b[1] < f => handler[b].at # "accepted"
      /\ UNCHANGED <<child, progress, file>>
      /\ ~overlap' => ~overlap /\ \A b \in Attempts \ {a} : ~Busy(b)
      /\ overlap' \in BOOLEAN => (overlap => overlap')
  BY <1>1, EnterKeeps DEF Enters, ProgressTells
<1>3. /\ \A g \in Fetchers : f < g => fetcher[g].at = "new"
      /\ \A g \in Fetchers \ {f} : ~Streams(g) /\ ~Asks(g)
      /\ fetcher[f].outcome = "none" /\ fetcher'[f].at \notin {"new", "sending", "receiving", "fallback", "returned"}
  BY OneActive DEF Streams, Asks, OutcomeIsLast
<1>4. \A b \in Attempts \ {a} : handler[b].at # "accepted"
  <2>1. SUFFICES ASSUME NEW b \in Attempts \ {a} PROVE handler[b].at # "accepted"
    OBVIOUS
  <2>2. b[1] \in Fetchers /\ (b[1] < f \/ b[1] = f \/ f < b[1])
    BY AttemptForm, FetcherOrder
  <2>3. CASE f < b[1]
    BY <1>3, <2>2, <2>3, NewHasNoHandler
  <2> QED BY <1>1, <1>2, <2>2, <2>3
<1> HIDE DEF a
<1>5. OneTurn'
  BY <1>3 DEF OneTurn
<1>6. OutcomeIsLast'
  BY <1>3 DEF OutcomeIsLast
<1>7. NotYetAsked'
  <2>1. \A g \in Fetchers : Ws(g) # a /\ (g # f => Rest(g) # a)
    BY AttemptForm DEF a
  <2>2. handler'[a].at # "accepted"
    BY <1>2
  <2> QED BY <1>2, <1>3, <2>1, <2>2, AttemptForm DEF NotYetAsked, a
<1>8. NoneAccepted'
  BY <1>1, <1>2, <1>4 DEF NoneAccepted
<1>9. Sole'
  <2>1. SUFFICES ASSUME ~overlap', NEW g \in Fetchers, NEW b \in Attempts, Awaits(g, b)'
                 PROVE  /\ \A c \in Attempts \ {b} : handler'[c].at \in {"none", "done"}
                        /\ progress[b] = 100 => file = "complete"
    BY <1>2 DEF Sole
  <2>2. g = f /\ b = a
    BY <1>3, <2>1 DEF Awaits, Streams, Asks, a
  <2> QED BY <1>2, <1>4, <2>1, <2>2 DEF Busy
<1>10. Settled'
  <2>1. SUFFICES ASSUME ~overlap', NEW g \in Fetchers, fetcher'[g].outcome = "data",
                        NEW b \in Attempts, b[1] <= g
                 PROVE  /\ handler'[b].at \notin {"accepted", "registered", "queued"}
                        /\ child[b] \notin {"running", "writing"}
    BY <1>2 DEF Settled
  <2>2. g # f /\ fetcher[g].outcome = "data" /\ fetcher[g].at # "new"
    BY <1>3, <2>1 DEF OutcomeIsLast
  <2>3. g < f
    BY <1>3, <2>2, FetcherOrder
  <2>4. b # a
    BY <1>1, <2>1, <2>3, FetcherOrder
  <2> QED BY <1>2, <2>1, <2>2, <2>4 DEF Settled
<1>11. WholeFile'
  BY <1>2, <1>3 DEF WholeFile
<1>12. DataIsEarned'
  <2>1. overlap => overlap'
    BY <1>2 DEF WorkerTypeOK
  <2> QED BY <1>2, <1>3, <2>1 DEF DataIsEarned, Own
<1> QED BY <1>1, <1>5, <1>6, <1>7, <1>8, <1>9, <1>10, <1>11, <1>12, EnterKeeps DEF Answers, a

LEMMA GiveUpKeeps ==
    ASSUME Answers, NEW a \in Attempts, GivesUp(a), WorkerTypeOK'
    PROVE  Answers'
<1> USE AnswersParts
<1>1. /\ handler[a].at \in {"accepted", "registered"} /\ handler'[a].at = "done" /\ ~handler'[a].got
      /\ \A b \in Attempts \ {a} : handler'[b] = handler[b]
      /\ UNCHANGED <<entry, managed, file, child, progress, inbox, fetcher, overlap>>
      /\ child[a] = "none"
  BY DEF GivesUp, ChildPlaces, Early
<1>2. Lone'
  BY <1>1 DEF Lone, Busy
<1>3. ChildPlaces' /\ ManagedStarted' /\ LiveChildrenAreManaged' /\ ProgressTells'
  BY <1>1 DEF ChildPlaces, ManagedStarted, LiveChildrenAreManaged, ProgressTells, Alive, Early, Going, LivePlaces
<1>4. ResultsAreWhole'
  BY <1>1 DEF ResultsAreWhole
<1>5. OneTurn' /\ OutcomeIsLast' /\ DataIsEarned' /\ MessagesAreEarned' /\ EntryIsEarned' /\ WholeFile'
  BY <1>1 DEF OneTurn, OutcomeIsLast, DataIsEarned, Own, MessagesAreEarned, EntryIsEarned, Asks, WholeFile
<1>6. NotYetAsked'
  BY <1>1, AttemptForm DEF NotYetAsked
<1>7. NoneAccepted'
  BY <1>1 DEF NoneAccepted, Asks
<1>8. Sole'
  <2>1. \A f \in Fetchers, b \in Attempts : Awaits(f, b)' => Awaits(f, b)
    BY <1>1 DEF Awaits, Streams, Asks
  <2> QED BY <1>1, <2>1 DEF Sole
<1>9. Settled'
  BY <1>1 DEF Settled
<1> QED BY <1>2, <1>3, <1>4, <1>5, <1>6, <1>7, <1>8, <1>9 DEF Answers

LEMMA OpenKeeps ==
    ASSUME Answers, NEW f \in Fetchers, Opens(f), WorkerTypeOK'
    PROVE  Answers'
<1> USE AnswersParts
<1> DEFINE a == Ws(f)
<1>1. /\ Turn(f) /\ fetcher[f].at = "new" /\ fetcher'[f].at \in {"sending", "receiving"}
      /\ fetcher'[f].outcome = fetcher[f].outcome
      /\ \A g \in Fetchers \ {f} : fetcher'[g] = fetcher[g]
      /\ handler[a].at = "none" /\ handler'[a].at = "accepted" /\ ~handler'[a].got
      /\ \A b \in Attempts \ {a} : handler'[b] = handler[b]
      /\ UNCHANGED <<entry, managed, file, child, progress, inbox, overlap>>
  BY DEF Opens, Turn, Streams
<1>2. /\ a \in Attempts /\ a[1] = f /\ child[a] = "none"
      /\ \A g \in Fetchers : Rest(g) # a /\ (g # f => Ws(g) # a)
  BY <1>1, AttemptForm DEF ChildPlaces, Early
<1>3. /\ \A g \in Fetchers : fetcher[g].at \in {"new", "returned"} /\ (fetcher[g].at = "returned" => g < f)
      /\ \A g \in Fetchers : g < f => fetcher[g].at = "returned"
  BY <1>1, OneActive DEF Turn
<1>4. fetcher[f].outcome = "none"
  BY <1>1 DEF OutcomeIsLast
<1> HIDE DEF a
<1>5. Lone'
  BY <1>1 DEF Lone, Busy
<1>6. ChildPlaces' /\ ManagedStarted' /\ LiveChildrenAreManaged' /\ ProgressTells'
  BY <1>1, <1>2 DEF ChildPlaces, ManagedStarted, LiveChildrenAreManaged, ProgressTells, Alive, Early, Going, LivePlaces
<1>7. ResultsAreWhole'
  BY <1>1 DEF ResultsAreWhole
<1>8. OneTurn'
  BY <1>1, <1>3 DEF OneTurn
<1>9. NotYetAsked'
  BY <1>1, <1>2, AttemptForm DEF NotYetAsked, a
<1>10. \A g \in Fetchers : ~Asks(g)' /\ (Streams(g)' => g = f)
  BY <1>1, <1>3 DEF Asks, Streams
<1>11. NoneAccepted' /\ EntryIsEarned' /\ MessagesAreEarned'
  BY <1>1, <1>10 DEF NoneAccepted, EntryIsEarned, MessagesAreEarned, Own
<1>12. Sole'
  <2>1. \A g \in Fetchers, b \in Attempts : ~Awaits(g, b)'
    BY <1>1, <1>2, <1>10 DEF Awaits, a
  <2> QED BY <2>1 DEF Sole
<1>13. OutcomeIsLast' /\ DataIsEarned' /\ WholeFile'
  BY <1>1, <1>4 DEF OutcomeIsLast, DataIsEarned, WholeFile, Own
<1>14. Settled'
  <2>1. SUFFICES ASSUME ~overlap, NEW g \in Fetchers, fetcher'[g].outcome = "data",
                        NEW b \in Attempts, b[1] <= g
                 PROVE  /\ handler'[b].at \notin {"accepted", "registered", "queued"}
                        /\ child[b] \notin {"running", "writing"}
    BY <1>1 DEF Settled
  <2>2. g # f /\ fetcher[g].outcome = "data" /\ g < f
    BY <1>1, <1>3, <1>4, <2>1 DEF OutcomeIsLast
  <2>3. b # a
    BY <1>2, <2>1, <2>2, FetcherOrder
  <2> QED BY <1>1, <2>1, <2>2, <2>3 DEF Settled
<1> QED BY <1>5, <1>6, <1>7, <1>8, <1>9, <1>11, <1>12, <1>13, <1>14 DEF Answers

LEMMA WorkKeeps ==
    ASSUME Answers, NEW a \in Attempts, Works(a), WorkerTypeOK'
    PROVE  Answers'
<1> USE AnswersParts
<1>1. /\ Alive(a) /\ child'[a] # "none" /\ handler[a].at \in LivePlaces
      /\ \A b \in Attempts \ {a} : child'[b] = child[b] /\ progress'[b] = progress[b]
      /\ UNCHANGED <<entry, managed, handler, inbox, fetcher, overlap>>
      /\ child'[a] \in {"running", "writing"} => child[a] \in {"running", "writing"} /\ progress'[a] = 0
      /\ child'[a] \in {"written", "put"} => progress'[a] = 100
      /\ child'[a] = "failed" => progress'[a] = -1
      /\ progress[a] = 100 => progress'[a] = 100
  BY DEF Works, ChildPlaces
<1>2. \A b \in Attempts : /\ (child'[b] = "none") <=> (child[b] = "none")
                          /\ Alive(b)' => Alive(b)
                          /\ progress[b] = 100 => progress'[b] = 100
  BY <1>1 DEF Alive
<1>3. Lone' /\ OneTurn' /\ NotYetAsked' /\ NoneAccepted' /\ OutcomeIsLast'
  BY <1>1 DEF Lone, Busy, OneTurn, NotYetAsked, NoneAccepted, Asks, OutcomeIsLast
<1>4. ChildPlaces'
  BY <1>1, <1>2 DEF ChildPlaces
<1>5. ManagedStarted'
  BY <1>1, <1>2 DEF ManagedStarted, WorkerTypeOK
<1>6. LiveChildrenAreManaged'
  BY <1>1, <1>2 DEF LiveChildrenAreManaged
<1>7. ProgressTells'
  BY <1>1 DEF ProgressTells
<1>8. ResultsAreWhole'
  BY <1>1, <1>2 DEF ResultsAreWhole
<1>9. MessagesAreEarned' /\ DataIsEarned'
  BY <1>1, <1>2, AttemptForm DEF MessagesAreEarned, DataIsEarned
<1>10. EntryIsEarned'
  BY <1>1, <1>2, AttemptForm DEF EntryIsEarned, Asks
<1>11. Sole'
  <2>1. SUFFICES ASSUME ~overlap, NEW f \in Fetchers, NEW b \in Attempts, Awaits(f, b)
                 PROVE  /\ \A c \in Attempts \ {b} : handler[c].at \in {"none", "done"}
                        /\ progress'[b] = 100 => file' = "complete"
    <3>1. \A f \in Fetchers, b \in Attempts : Awaits(f, b)' => Awaits(f, b)
      BY <1>1, <1>2 DEF Awaits, Streams, Asks
    <3> QED BY <1>1, <2>1, <3>1 DEF Sole
  <2>2. /\ \A c \in Attempts \ {b} : handler[c].at \in {"none", "done"}
        /\ progress[b] = 100 => file = "complete"
    BY <2>1 DEF Sole
  <2>3. b = a
    BY <1>1, <2>2 DEF LivePlaces
  <2>4. \A c \in Attempts \ {a} : child[c] # "writing"
    BY <2>2, <2>3 DEF ChildPlaces, Alive, LivePlaces
  <2>5. progress[a] = 100 => child[a] \notin {"running", "writing"}
    BY DEF ProgressTells
  <2> QED BY <2>2, <2>3, <2>4, <2>5 DEF Works
<1>12. Settled'
  BY <1>1 DEF Settled
<1>13. WholeFile'
  <2>1. SUFFICES ASSUME ~overlap, NEW f \in Fetchers, fetcher[f].outcome = "data", file' # "complete"
                 PROVE  \E b \in Attempts : b[1] > f /\ child'[b] # "none"
    BY <1>1 DEF WholeFile
  <2>2. CASE file = "complete"
    <3>1. child[a] \in {"running", "writing"}
      BY <2>1, <2>2 DEF Works
    <3>2. ~(a[1] <= f)
      BY <2>1, <3>1 DEF Settled
    <3>3. a[1] > f
      BY <3>2, AttemptForm, FetcherOrder
    <3> QED BY <1>1, <3>3
  <2>3. CASE file # "complete"
    BY <1>2, <2>1, <2>3 DEF WholeFile
  <2> QED BY <2>2, <2>3
<1> QED BY <1>3, <1>4, <1>5, <1>6, <1>7, <1>8, <1>9, <1>10, <1>11, <1>12, <1>13 DEF Answers

LEMMA EndKeeps ==
    ASSUME Answers, Ends, WorkerTypeOK'
    PROVE  Answers'
<1> USE AnswersParts
<1> DEFINE a == managed
<1>1. /\ managed' = None /\ child'[a] = "gone" /\ child[a] # "none" /\ a \in Attempts
      /\ \A b \in Attempts \ {a} : child'[b] = child[b]
      /\ UNCHANGED <<entry, progress, file, handler, inbox, fetcher, overlap>>
  BY DEF Ends, ManagedStarted, WorkerTypeOK
<1>2. \A b \in Attempts : /\ (child'[b] = "none") <=> (child[b] = "none")
                          /\ Alive(b)' => Alive(b) /\ b # a
                          /\ child'[b] # child[b] => child'[b] = "gone"
  BY <1>1 DEF Alive
<1> HIDE DEF a
<1>3. Lone' /\ OneTurn' /\ NotYetAsked' /\ NoneAccepted' /\ OutcomeIsLast' /\ ResultsAreWhole'
  BY <1>1 DEF Lone, Busy, OneTurn, NotYetAsked, NoneAccepted, Asks, OutcomeIsLast, ResultsAreWhole
<1>4. ChildPlaces'
  BY <1>1, <1>2 DEF ChildPlaces
<1>5. ManagedStarted'
  BY <1>1 DEF ManagedStarted
<1>6. LiveChildrenAreManaged'
  BY <1>1, <1>2 DEF LiveChildrenAreManaged, a
<1>7. ProgressTells'
  BY <1>1, <1>2 DEF ProgressTells
<1>8. MessagesAreEarned' /\ DataIsEarned' /\ EntryIsEarned'
  BY <1>1 DEF MessagesAreEarned, DataIsEarned, EntryIsEarned, Asks, Own
<1>9. Sole'
  <2>1. \A f \in Fetchers, b \in Attempts : Awaits(f, b)' => Awaits(f, b)
    BY <1>1, <1>2 DEF Awaits, Streams, Asks
  <2> QED BY <1>1, <2>1 DEF Sole
<1>10. Settled' /\ WholeFile'
  BY <1>1, <1>2 DEF Settled, WholeFile
<1> QED BY <1>3, <1>4, <1>5, <1>6, <1>7, <1>8, <1>9, <1>10 DEF Answers

(* What a fetcher finds when it takes an answer. *)
LEMMA AnswerIsWhole ==
    ASSUME Answers, ~overlap, NEW f \in Fetchers,
           (Streams(f) /\ Carries(inbox[f])) \/ (Asks(f) /\ entry.has)
    PROVE  /\ file = "complete"
           /\ \E a \in Own(f) : a \in Attempts /\ progress[a] = 100
           /\ \A b \in Attempts : /\ handler[b].at \notin {"accepted", "registered", "queued"}
                                  /\ child[b] \notin {"running", "writing"}
<1> USE AnswersParts
<1>1. PICK a \in Attempts : a \in Own(f) /\ progress[a] = 100 /\ Awaits(f, a)
  <2>1. CASE Streams(f) /\ Carries(inbox[f])
    <3>1. PICK a \in Own(f) : progress[a] = 100
      BY <2>1 DEF MessagesAreEarned
    <3>2. a \in Attempts /\ (a = Ws(f) \/ a = Rest(f))
      BY <3>1, AttemptForm
    <3>3. child[a] # "none"
      BY <3>1, <3>2 DEF ProgressTells
    <3>4. handler[Rest(f)].at = "none"
      BY <2>1 DEF NotYetAsked, Streams
    <3>5. a = Ws(f)
      BY <3>2, <3>3, <3>4 DEF ChildPlaces, Early
    <3> QED BY <2>1, <3>1, <3>2, <3>3, <3>5 DEF Awaits
  <2>2. CASE Asks(f) /\ entry.has
    BY <2>2, AttemptForm DEF EntryIsEarned, Awaits
  <2> QED BY <2>1, <2>2
<1>2. \A b \in Attempts \ {a} : handler[b].at \in {"none", "done"} /\ ~Alive(b)
  BY <1>1 DEF Sole, ChildPlaces, LivePlaces
<1>3. child[a] \notin {"none", "running", "writing"}
  BY <1>1 DEF ProgressTells
<1>4. handler[a].at \notin Early
  BY <1>3 DEF ChildPlaces
<1> QED BY <1>1, <1>2, <1>3, <1>4 DEF Sole, Alive, Early

LEMMA FetchKeeps ==
    ASSUME Answers, NEW f \in Fetchers, Fetches(f), WorkerTypeOK'
    PROVE  Answers'
<1> USE AnswersParts
<1>1. /\ \A g \in Fetchers \ {f} : fetcher'[g] = fetcher[g]
      /\ fetcher[f].at = "new" /\ fetcher'[f].at # "new" => Turn(f)
      /\ fetcher[f].at = "returned" \/ fetcher'[f].at = "new" => fetcher'[f] = fetcher[f]
      /\ fetcher'[f].at \in {"sending", "receiving", "fallback"} =>
           fetcher[f].at \in {"new", "sending", "receiving", "fallback"}
      /\ fetcher'[f].outcome # "none" => fetcher'[f].at \in {"answered", "returned"}
      /\ UNCHANGED <<managed, file, child, progress, handler, overlap>>
      /\ entry'.has = entry.has
  BY DEF Fetches
<1>2. \A g \in Fetchers : (Streams(g)' => Streams(g)) /\ (Asks(g)' => Asks(g))
  BY <1>1 DEF Fetches, Streams, Asks
<1>3. Lone' /\ ChildPlaces' /\ ManagedStarted' /\ LiveChildrenAreManaged' /\ ProgressTells' /\ ResultsAreWhole'
  BY <1>1 DEF Lone, Busy, ChildPlaces, Alive, ManagedStarted, LiveChildrenAreManaged, ProgressTells, ResultsAreWhole
<1>4. OneTurn'
  BY <1>1 DEF OneTurn, Turn
<1>5. NotYetAsked'
  BY <1>1 DEF NotYetAsked
<1>6. NoneAccepted' /\ EntryIsEarned'
  BY <1>1, <1>2 DEF NoneAccepted, EntryIsEarned
<1>7. MessagesAreEarned'
  BY <1>1 DEF MessagesAreEarned, Fetches, Own
<1>8. Sole'
  <2>1. \A g \in Fetchers, b \in Attempts : Awaits(g, b)' => Awaits(g, b)
    BY <1>1, <1>2 DEF Awaits
  <2> QED BY <1>1, <2>1 DEF Sole
<1>9. OutcomeIsLast'
  BY <1>1 DEF OutcomeIsLast
<1>10. \A g \in Fetchers : fetcher'[g].outcome = "data" =>
         \/ fetcher[g].outcome = "data"
         \/ g = f /\ ((Streams(f) /\ Carries(inbox[f])) \/ (Asks(f) /\ entry.has))
  <2>1. fetcher'[f].outcome = "data" =>
          \/ fetcher[f].outcome = "data"
          \/ (Streams(f) /\ Carries(inbox[f])) \/ (Asks(f) /\ entry.has)
    BY DEF Fetches, Streams, Asks
  <2> QED BY <1>1, <2>1
<1>11. Settled' /\ WholeFile'
  <2>1. ~overlap /\ ((Streams(f) /\ Carries(inbox[f])) \/ (Asks(f) /\ entry.has)) =>
          /\ file = "complete"
          /\ \A b \in Attempts : /\ handler[b].at \notin {"accepted", "registered", "queued"}
                                 /\ child[b] \notin {"running", "writing"}
    BY AnswerIsWhole
  <2> QED BY <1>1, <1>10, <2>1 DEF Settled, WholeFile
<1>12. DataIsEarned'
  <2>1. SUFFICES ASSUME (Streams(f) /\ Carries(inbox[f])) \/ (Asks(f) /\ entry.has)
                 PROVE  \E a \in Attempts : a[1] <= f /\ progress[a] = 100 /\ (a \in Own(f) \/ overlap)
    BY <1>1, <1>10 DEF DataIsEarned, Own
  <2>2. \A a \in Own(f) : a \in Attempts /\ a[1] <= f
    BY AttemptForm, FetcherOrder
  <2>3. CASE ~overlap
    BY <2>1, <2>2, <2>3, AnswerIsWhole
  <2>4. CASE Streams(f) /\ Carries(inbox[f])
    BY <2>2, <2>4 DEF MessagesAreEarned
  <2>5. CASE overlap /\ Asks(f) /\ entry.has
    <3>1. PICK a \in Attempts : progress[a] = 100
      BY <2>5 DEF EntryIsEarned
    <3>2. handler[a].at # "none"
      BY <3>1 DEF ChildPlaces, ProgressTells, Early
    <3>3. fetcher[a[1]].at # "new"
      BY <3>2, NewHasNoHandler
    <3>4. ~(f < a[1])
      BY <2>5, <3>3, OneActive, AttemptForm DEF Asks
    <3>5. a[1] <= f
      BY <3>4, AttemptForm, FetcherOrder
    <3> QED BY <2>5, <3>1, <3>5
  <2> QED BY <2>1, <2>3, <2>4, <2>5 DEF WorkerTypeOK
<1> QED BY <1>3, <1>4, <1>5, <1>6, <1>7, <1>8, <1>9, <1>11, <1>12 DEF Answers

-----------------------------------------------------------------------------
LEMMA AnswersInit == WorkerInit => Answers
<1> SUFFICES ASSUME WorkerInit PROVE Answers
  OBVIOUS
<1>1. /\ \A a \in Attempts : handler[a] = NoHandler /\ child[a] = "none" /\ progress[a] = 0
      /\ \A f \in Fetchers : inbox[f] = <<>> /\ fetcher[f] = NewFetcher
      /\ managed = None /\ entry.has = FALSE /\ overlap = FALSE
  BY DEF WorkerInit
<1>2. WorkerTypeOK
  <2>1. NoHandler \in [at : Places, last : {-1, 0, 100}, got : BOOLEAN]
    BY DEF NoHandler, Places
  <2>2. NewFetcher \in [at : FetcherPlaces, sent : BOOLEAN, outcome : FetchOutcomes]
    BY DEF NewFetcher, FetcherPlaces, FetchOutcomes
  <2>3. handler \in HandlerType /\ fetcher \in FetcherType
    BY <2>1, <2>2 DEF WorkerInit, HandlerType, FetcherType
  <2>4. inbox \in [Fetchers -> Seq(Messages)]
    <3>1. <<>> \in Seq(Messages)
      OBVIOUS
    <3> QED BY <3>1 DEF WorkerInit
  <2>5. /\ setup \in Setups /\ entry \in [st : Statuses, has : BOOLEAN] /\ managed \in Attempts \cup {None}
        /\ file \in {"absent", "partial", "complete"}
        /\ child \in [Attempts -> ChildStates] /\ progress \in [Attempts -> {-1, 0, 100}]
        /\ queued \subseteq Attempts
    BY DEF WorkerInit, Statuses, ChildStates
  <2>6. /\ conn \in [Fetchers -> {"none", "up", "closed", "lost"}]
        /\ cancel \in [Fetchers -> {"none", "post", "mark", "stop", "done"}]
        /\ overlap \in BOOLEAN
    BY DEF WorkerInit
  <2>7. faults \in 0 .. setup.faults
    BY WorkerAssumption DEF WorkerInit
  <2> QED BY <2>3, <2>4, <2>5, <2>6, <2>7 DEF WorkerTypeOK, HandlerType, FetcherType, FetcherPlaces, Messages
<1>3. /\ \A a \in Attempts : handler[a].at = "none" /\ ~handler[a].got
      /\ \A f \in Fetchers : fetcher[f].at = "new" /\ fetcher[f].outcome = "none" /\ ~Carries(inbox[f])
  BY <1>1 DEF NoHandler, NewFetcher, Carries
<1> HIDE DEF WorkerInit
<1>4. Lone /\ ChildPlaces /\ ManagedStarted /\ LiveChildrenAreManaged /\ ProgressTells /\ ResultsAreWhole
  BY <1>1, <1>3 DEF Lone, Busy, ChildPlaces, ManagedStarted, LiveChildrenAreManaged, ProgressTells,
                    ResultsAreWhole, Alive, Early, Going, LivePlaces
<1>5. OneTurn /\ NotYetAsked /\ NoneAccepted /\ OutcomeIsLast
  BY <1>1, <1>3, AttemptForm DEF OneTurn, NotYetAsked, NoneAccepted, OutcomeIsLast, Asks
<1>6. MessagesAreEarned /\ EntryIsEarned /\ Settled /\ DataIsEarned /\ WholeFile
  BY <1>1, <1>3 DEF MessagesAreEarned, EntryIsEarned, Settled, DataIsEarned, WholeFile
<1>7. Sole
  BY <1>3 DEF Sole, Awaits, Streams, Asks
<1> QED BY <1>2, <1>4, <1>5, <1>6, <1>7 DEF Answers

LEMMA AnswersNext == Answers /\ [WorkerNext]_workerVars => Answers'
<1> SUFFICES ASSUME Answers, [WorkerNext]_workerVars PROVE Answers'
  OBVIOUS
<1>1. ASSUME NEW a \in Attempts, ChildStep(a) \/ ChildDies(a) PROVE Answers'
  BY <1>1, ChildSteps, WorkKeeps
<1>2. ASSUME NEW a \in Attempts, WsStep(a) PROVE Answers'
  <2>1. CASE \/ WsProcessing(a) \/ WsIsAlive(a) \/ WsTick(a) \/ WsSendError(a) \/ WsDrain(a)
             \/ WsComplete(a) \/ WsFinalError(a) \/ WsCleanup(a)
    BY <2>1, WsAdvances, AdvanceKeeps
  <2>2. CASE WsSpawn(a)
    BY <2>2, SpawnSteps, SpawnKeeps
  <2>3. CASE WsRegister(a)
    <3>1. handler[a].at = "accepted"
      BY <2>3 DEF WsRegister, At
    <3> QED BY <2>3, <3>1, WsEnters, WsEnterKeeps
  <2>4. CASE WsNoPlan(a)
    BY <2>4, NoPlanStep, GiveUpKeeps
  <2> QED BY <1>2, <2>1, <2>2, <2>3, <2>4 DEF WsStep
<1>3. ASSUME NEW a \in Attempts, HandleTask(a) PROVE Answers'
  <2>1. CASE \/ TaskProcessing(a) \/ TaskIsAlive(a) \/ TaskLooks(a) \/ TaskError(a) \/ TaskEnd(a)
             \/ TaskDrain(a) \/ TaskSettles(a) \/ TaskClean(a)
    BY <2>1, TaskAdvances, AdvanceKeeps
  <2>2. CASE RestSpawn(a)
    BY <2>2, SpawnSteps, SpawnKeeps
  <2> QED BY <1>3, <2>1, <2>2 DEF HandleTask
<1>4. ASSUME NEW f \in Fetchers, Connect(f) PROVE Answers'
  BY <1>4, ConnectStep, OpenKeeps
<1>5. ASSUME NEW f \in Fetchers,
             ConnectFails(f) \/ SendPlan(f) \/ SendFails(f) \/ ConnectionLost(f) \/ SubmitFails(f)
      PROVE  Answers'
  BY <1>5, SocketSteps, FetchKeeps
<1>6. ASSUME NEW f \in Fetchers, Receive(f) \/ ConnectionClosed(f) PROVE Answers'
  BY <1>6, ReceiveSteps, FetchKeeps
<1>7. ASSUME NEW f \in Fetchers, ReadStatus(f) \/ Poll(f) \/ PollStops(f) PROVE Answers'
  BY <1>7, AskSteps, FetchKeeps
<1>8. ASSUME NEW f \in Fetchers, Submit(f) PROVE Answers'
  BY <1>8, RestEnters, RestEnterKeeps
<1>9. ASSUME NEW f \in Fetchers, Cancel(f) \/ CancelStep(f) PROVE Answers'
  <2>1. CASE CancelPost(f) /\ managed # None
    BY <2>1, CancelEnds, EndKeeps
  <2>2. CASE Cancel(f) \/ (CancelPost(f) /\ managed = None) \/ CancelMark(f) \/ CancelStop(f)
    BY <2>2, CancelSteps, FetchKeeps
  <2> QED BY <1>9, <2>1, <2>2 DEF CancelStep
<1>10. CASE UNCHANGED workerVars
  <2>1. WorkerTypeOK'
    BY <1>10 DEF Answers, WorkerTypeOK, workerVars
  <2>2. UNCHANGED <<entry, managed, file, child, progress, handler, inbox, fetcher, overlap>>
    BY <1>10 DEF workerVars
  <2>3. Lone' /\ ChildPlaces' /\ ManagedStarted' /\ LiveChildrenAreManaged' /\ ProgressTells' /\ ResultsAreWhole'
    BY <2>2 DEF Answers, Lone, Busy, ChildPlaces, Alive, ManagedStarted, LiveChildrenAreManaged, ProgressTells,
                ResultsAreWhole
  <2>4. OneTurn' /\ NotYetAsked' /\ NoneAccepted' /\ OutcomeIsLast' /\ MessagesAreEarned' /\ EntryIsEarned'
    BY <2>2 DEF Answers, OneTurn, NotYetAsked, NoneAccepted, OutcomeIsLast, Asks, MessagesAreEarned, EntryIsEarned, Own
  <2>5. Sole' /\ Settled' /\ DataIsEarned' /\ WholeFile'
    BY <2>2 DEF Answers, Sole, Awaits, Streams, Asks, Settled, DataIsEarned, Own, WholeFile
  <2> QED BY <2>1, <2>3, <2>4, <2>5 DEF Answers
<1> QED BY <1>1, <1>2, <1>3, <1>4, <1>5, <1>6, <1>7, <1>8, <1>9, <1>10 DEF WorkerNext, FetchStep

LEMMA AnswersAlways == WorkerSpec => []Answers
BY AnswersInit, AnswersNext, PTL DEF WorkerSpec

(* Type correctness of a worker task, for any number of fetchers and any setups. *)
THEOREM WorkerTypeCorrect == WorkerSpec => []WorkerTypeOK
<1>1. Answers => WorkerTypeOK
  BY DEF Answers
<1> QED BY <1>1, AnswersAlways, PTL

(* Whatever is lost, killed, cancelled or retried, an answer with data comes    *)
(* from a child that wrote the whole file: the fetcher's own, or after an       *)
(* overlap that of an earlier fetcher.                                         *)
THEOREM AnswersAreEarned == WorkerSpec => []DataIsEarned
<1>1. Answers => DataIsEarned
  BY DEF Answers
<1> QED BY <1>1, AnswersAlways, PTL

(* Without an overlap the file behind an answer stays whole until a later       *)
(* fetcher's child starts.                                                    *)
THEOREM AnsweredFilesStayWhole == WorkerSpec => []WholeFile
<1>1. Answers => WholeFile
  BY DEF Answers
<1> QED BY <1>1, AnswersAlways, PTL

(* Without an overlap a cancel reaches every live child. *)
THEOREM CancelReachesTheChild == WorkerSpec => []LiveChildrenAreManaged
<1>1. Answers => LiveChildrenAreManaged
  BY DEF Answers
<1> QED BY <1>1, AnswersAlways, PTL
=============================================================================
