----------------------------- MODULE WorkerTask -----------------------------
(***************************************************************************)
(* One worker task, from its submission by the core to the answer a fetcher   *)
(* returns. A fetcher opens a web socket, and falls back to a REST request    *)
(* and polling; either attempt makes the worker start a child process under   *)
(* the same task id, so attempts share the status entry, the managed process  *)
(* and the cache file. Fetchers of one node follow each other with the same   *)
(* task id (the node's hash); a cancel may still be on its way when the next  *)
(* one starts. The web socket handlers run on the worker's event loop, which  *)
(* a join of a live child blocks together with every request.                 *)
(* Source: flowfile_worker spawner.py, streaming.py, process_manager.py,      *)
(* routes.py, funcs.py; flowfile_core subprocess_operations.py, streaming.py. *)
(***************************************************************************)
EXTENDS Integers, Sequences

CONSTANTS NumFetchers,   \* fetchers with this task id, one after the other
          Setups,        \* what the task and its callers are like, and a bound on disturbances
          None

Fetchers == 1 .. NumFetchers
Attempts == Fetchers \X {"ws", "rest"}

ASSUME WorkerAssumption ==
    /\ NumFetchers \in Nat
    /\ None \notin Attempts
    /\ Setups \subseteq [calls : Fetchers,             \* the fetchers that are started
                         blocking : SUBSET Fetchers,  \* fetchers with wait_on_completion
                         refused : SUBSET Fetchers,   \* fetchers that cannot open a web socket
                         cancels : SUBSET Fetchers,   \* fetchers their node may cancel
                         raises : BOOLEAN,            \* the plan may fail
                         large : BOOLEAN,             \* the result does not fit the pipe
                         faults : Nat]

VARIABLES
    setup,
    entry,      \* status_dict[task]: its status, and whether it holds results
    managed,    \* process_dict[task]: the attempt whose child it holds
    file,       \* the cache file
    child,      \* child[a]: the child process of an attempt
    progress,   \* progress[a]: the shared progress value
    queued,     \* attempts with a result in their queue
    handler,    \* handler[a]: ws_submit, or handle_task, of an attempt
    conn,       \* conn[f]: the web socket of a fetcher
    inbox,      \* inbox[f]: messages on their way to it
    fetcher,    \* fetcher[f]: where a fetcher is, what it returned
    cancel,     \* cancel[f]: how far a cancel of it is
    faults,     \* disturbances so far: failed connections, killed children
    overlap     \* an attempt was registered before another was done with (history)

worker == <<entry, managed, file>>
processes == <<child, progress, queued>>
client == <<conn, inbox, fetcher, cancel>>
workerVars == <<setup, entry, managed, file, child, progress, queued, handler,
          conn, inbox, fetcher, cancel, faults, overlap>>

Statuses == {"absent", "Starting", "Processing", "Completed", "Error", "Unknown Error", "Cancelled"}
ChildStates == {"none", "running", "writing", "written", "put", "failed", "gone"}

(* handle_task's places begin with an h; final is the progress it read last.  *)
Places == {"none", "accepted", "registered", "spawned", "monitor", "tick", "sendError", "drain",
           "joinDone", "joinError", "cleanup",
           "queued", "hStart", "hLoop", "hSleep", "hError", "hEnd", "hDrain", "hJoin", "hClean", "done"}

NoHandler == [at |-> "none", last |-> -1, got |-> FALSE]
Finished == [NoHandler EXCEPT !.at = "done"]

NewFetcher == [at |-> "new", sent |-> FALSE, outcome |-> "none"]

(* Outcomes: the result, no result, an error code, a cancel, or an exception. *)
FetchOutcomes == {"none", "data", "nothing", "code1", "code2", "code-1", "cancelled", "raised"}

WorkerInit ==
    /\ setup \in Setups
    /\ entry = [st |-> "absent", has |-> FALSE]
    /\ managed = None
    /\ file = "absent"
    /\ child = [a \in Attempts |-> "none"]
    /\ progress = [a \in Attempts |-> 0]
    /\ queued = {}
    /\ handler = [a \in Attempts |-> NoHandler]
    /\ conn = [f \in Fetchers |-> "none"]
    /\ inbox = [f \in Fetchers |-> <<>>]
    /\ fetcher = [f \in Fetchers |-> NewFetcher]
    /\ cancel = [f \in Fetchers |-> "none"]
    /\ faults = 0
    /\ overlap = FALSE

Alive(a) == child[a] \notin {"none", "gone"}

(* A coroutine gives the event loop away only where it awaits something: a     *)
(* handler in p.join() holds up every other one, and every request.           *)
OnLoop(a) == handler[a].at \in {"spawned", "joinDone", "joinError"}

LoopFree == \A a \in Attempts : ~OnLoop(a)

Fault == faults < setup.faults /\ faults' = faults + 1

At(a, p) == handler[a].at = p
To(a, p) == handler' = [handler EXCEPT ![a] = IF p = "done" THEN Finished ELSE [@ EXCEPT !.at = p]]
SetStatus(s) == entry' = [entry EXCEPT !.st = s]

-----------------------------------------------------------------------------
(* The child: it computes, writes the file, signals, and puts its result.     *)
ChildWrites(a) ==
    /\ child[a] = "running"
    /\ child' = [child EXCEPT ![a] = "writing"]
    /\ file' = "partial"
    /\ UNCHANGED <<setup, entry, managed, progress, queued, handler, client, faults, overlap>>

(* Variant: the signal comes before the file is closed. *)
ChildSignalsEarly(a) ==
    /\ child[a] = "writing"
    /\ child' = [child EXCEPT ![a] = "written"]
    /\ progress' = [progress EXCEPT ![a] = 100]
    /\ UNCHANGED <<setup, entry, file, managed, queued, handler, client, faults, overlap>>

ChildSignals(a) ==
    /\ child[a] = "writing"
    /\ child' = [child EXCEPT ![a] = "written"]
    /\ progress' = [progress EXCEPT ![a] = 100]
    /\ file' = IF \E b \in Attempts \ {a} : child[b] = "writing" THEN "partial" ELSE "complete"
    /\ UNCHANGED <<setup, entry, managed, queued, handler, client, faults, overlap>>

ChildPuts(a) ==
    /\ child[a] = "written"
    /\ child' = [child EXCEPT ![a] = "put"]
    /\ queued' = queued \cup {a}
    /\ UNCHANGED <<setup, worker, progress, handler, client, faults, overlap>>

(* After an error store goes on to read the file: one of an earlier attempt    *)
(* puts a result nobody asks for.                                             *)
ChildFails(a) ==
    /\ child[a] = "running"
    /\ setup.raises
    /\ child' = [child EXCEPT ![a] = "failed"]
    /\ progress' = [progress EXCEPT ![a] = -1]
    /\ queued' = IF file = "complete" THEN queued \cup {a} ELSE queued
    /\ UNCHANGED <<setup, worker, handler, client, faults, overlap>>

(* A child whose large result nobody reads stays in its feeder thread.        *)
ChildExits(a) ==
    /\ child[a] \in {"put", "failed"}
    /\ ~(setup.large /\ a \in queued)
    /\ child' = [child EXCEPT ![a] = "gone"]
    /\ UNCHANGED <<setup, worker, progress, queued, handler, client, faults, overlap>>

(* The child is killed, for its memory.                                       *)
ChildDies(a) ==
    /\ Fault
    /\ child[a] \in {"running", "writing"}
    /\ child' = [child EXCEPT ![a] = "gone"]
    /\ UNCHANGED <<setup, worker, progress, queued, handler, client, overlap>>

Kill(a) == [child EXCEPT ![a] = "gone"]

ChildStep(a) == ChildWrites(a) \/ ChildSignals(a) \/ ChildPuts(a) \/ ChildFails(a) \/ ChildExits(a)

-----------------------------------------------------------------------------
(* ws_submit. The loop deals with what it receives in turn.                   *)
Registers(a) == overlap' = (overlap \/ \E b \in Attempts \ {a} : handler[b].at \notin {"none", "accepted", "done"})

WsRegister(a) ==
    /\ LoopFree
    /\ At(a, "accepted")
    /\ \A b \in Attempts : b[1] < a[1] => ~At(b, "accepted")
    /\ entry' = [st |-> "Starting", has |-> FALSE]
    /\ Registers(a)
    /\ To(a, "registered")
    /\ UNCHANGED <<setup, managed, file, processes, client, faults>>

(* The plan follows, or the client is gone and receive_bytes raises.          *)
WsSpawn(a) ==
    /\ LoopFree
    /\ At(a, "registered")
    /\ fetcher[a[1]].sent
    /\ child' = [child EXCEPT ![a] = "running"]
    /\ managed' = a
    /\ To(a, "spawned")
    /\ UNCHANGED <<setup, entry, file, progress, queued, client, faults, overlap>>

WsNoPlan(a) ==
    /\ LoopFree
    /\ handler[a].at \in {"accepted", "registered"}
    /\ ~fetcher[a[1]].sent /\ conn[a[1]] = "lost"
    /\ To(a, "done")
    /\ UNCHANGED <<setup, worker, processes, client, faults, overlap>>

WsProcessing(a) ==
    /\ At(a, "spawned")
    /\ SetStatus("Processing")
    /\ To(a, "monitor")
    /\ UNCHANGED <<setup, managed, file, processes, client, faults, overlap>>

AfterMonitor(a) == IF progress[a] = 100 THEN "drain" ELSE "joinError"

WsIsAlive(a) ==
    /\ LoopFree
    /\ At(a, "monitor")
    /\ To(a, IF Alive(a) THEN "tick" ELSE AfterMonitor(a))
    /\ UNCHANGED <<setup, worker, processes, client, faults, overlap>>

(* A changed progress is sent; when that fails the monitor gives up.          *)
WsTick(a) ==
    LET p == progress[a]
        gone == p # handler[a].last /\ conn[a[1]] # "up" IN
    /\ LoopFree
    /\ At(a, "tick")
    /\ handler' = [handler EXCEPT ![a].last = p,
                     ![a].at = IF gone \/ p = 100 THEN AfterMonitor(a)
                               ELSE IF p = -1 THEN "sendError" ELSE "monitor"]
    /\ IF p = -1 /\ ~gone THEN SetStatus("Error") ELSE UNCHANGED entry
    /\ UNCHANGED <<setup, managed, file, processes, client, faults, overlap>>

(* What a client that is gone would have been sent is lost. *)
Send(f, m) == IF conn[f] = "up" THEN inbox' = [inbox EXCEPT ![f] = @ \o m] ELSE UNCHANGED inbox

(* An error that cannot be sent is a disconnect: while the child is still     *)
(* there handle_task takes over and the clean-up is left to it.               *)
WsSendError(a) ==
    /\ LoopFree
    /\ At(a, "sendError")
    /\ Send(a[1], <<"error">>)
    /\ To(a, IF conn[a[1]] # "up" /\ Alive(a) THEN "hStart" ELSE "cleanup")
    /\ UNCHANGED <<setup, worker, processes, conn, fetcher, cancel, faults, overlap>>

(* drain_result_queue, in a thread of its own: it ends with the result, with a *)
(* dead child that left none, or at its deadline.                             *)
Drain(a, next) ==
    \/ /\ a \in queued
       /\ queued' = queued \ {a}
       /\ handler' = [handler EXCEPT ![a].at = next, ![a].got = TRUE]
       /\ UNCHANGED faults
    \/ /\ a \notin queued
       /\ \/ child[a] = "gone" /\ UNCHANGED faults
          \/ child[a] = "written" /\ Fault
       /\ handler' = [handler EXCEPT ![a].at = next]
       /\ UNCHANGED queued

WsDrain(a) ==
    /\ LoopFree
    /\ At(a, "drain")
    /\ Drain(a, "joinDone")
    /\ UNCHANGED <<setup, worker, child, progress, client, overlap>>

HasResult(a) == handler[a].got

WsComplete(a) ==
    /\ ~Alive(a)
    /\ At(a, "joinDone")
    /\ entry' = [st |-> "Completed", has |-> entry.has \/ HasResult(a)]
    /\ Send(a[1], IF HasResult(a) THEN <<"complete", "result">> ELSE <<"complete-empty">>)
    /\ To(a, "cleanup")
    /\ UNCHANGED <<setup, managed, file, processes, conn, fetcher, cancel, faults, overlap>>

(* _send_final_error, when the child is gone and its last progress was not 100. *)
WsFinalError(a) ==
    /\ ~Alive(a)
    /\ At(a, "joinError")
    /\ SetStatus(IF progress[a] = -1 THEN "Error" ELSE "Unknown Error")
    /\ Send(a[1], <<IF progress[a] = -1 THEN "error" ELSE "error-unknown">>)
    /\ To(a, "cleanup")
    /\ UNCHANGED <<setup, managed, file, processes, conn, fetcher, cancel, faults, overlap>>

(* Variant: a child still there is let go. *)
WsCleanupLeavesChild(a) ==
    /\ LoopFree
    /\ At(a, "cleanup")
    /\ managed' = None
    /\ conn' = [conn EXCEPT ![a[1]] = IF @ = "up" THEN "closed" ELSE @]
    /\ To(a, "done")
    /\ UNCHANGED <<setup, entry, file, child, progress, queued, inbox, fetcher, cancel, faults, overlap>>

(* A child still there is ended; whatever is managed under the id is dropped,  *)
(* and the socket is closed.                                                  *)
WsCleanup(a) ==
    /\ LoopFree
    /\ At(a, "cleanup")
    /\ child' = Kill(a)
    /\ managed' = None
    /\ conn' = [conn EXCEPT ![a[1]] = IF @ = "up" THEN "closed" ELSE @]
    /\ To(a, "done")
    /\ UNCHANGED <<setup, entry, file, progress, queued, inbox, fetcher, cancel, faults, overlap>>

WsStep(a) ==
    \/ WsRegister(a) \/ WsSpawn(a) \/ WsNoPlan(a) \/ WsProcessing(a) \/ WsIsAlive(a) \/ WsTick(a)
    \/ WsSendError(a) \/ WsDrain(a) \/ WsComplete(a) \/ WsFinalError(a) \/ WsCleanup(a)

-----------------------------------------------------------------------------
(* start_process and handle_task, in a thread of the worker.                  *)
RestSpawn(a) ==
    /\ At(a, "queued")
    /\ child' = [child EXCEPT ![a] = "running"]
    /\ managed' = a
    /\ To(a, "hStart")
    /\ UNCHANGED <<setup, entry, file, progress, queued, client, faults, overlap>>

TaskProcessing(a) ==
    /\ At(a, "hStart")
    /\ SetStatus("Processing")
    /\ To(a, "hLoop")
    /\ UNCHANGED <<setup, managed, file, processes, client, faults, overlap>>

TaskIsAlive(a) ==
    /\ At(a, "hLoop")
    /\ To(a, IF Alive(a) THEN "hSleep" ELSE "hEnd")
    /\ UNCHANGED <<setup, worker, processes, client, faults, overlap>>

TaskLooks(a) ==
    LET cancelled == entry.st = "Cancelled" IN
    /\ At(a, "hSleep")
    /\ child' = IF cancelled THEN Kill(a) ELSE child
    /\ To(a, IF cancelled \/ progress[a] = 100 THEN "hEnd"
             ELSE IF progress[a] = -1 THEN "hError" ELSE "hLoop")
    /\ UNCHANGED <<setup, worker, progress, queued, client, faults, overlap>>

TaskError(a) ==
    /\ At(a, "hError")
    /\ SetStatus("Error")
    /\ To(a, "hEnd")
    /\ UNCHANGED <<setup, managed, file, processes, client, faults, overlap>>

TaskEnd(a) ==
    /\ At(a, "hEnd")
    /\ handler' = [handler EXCEPT ![a].last = progress[a],
                     ![a].at = IF entry.st # "Cancelled" /\ progress[a] = 100 THEN "hDrain" ELSE "hJoin"]
    /\ UNCHANGED <<setup, worker, processes, client, faults, overlap>>

TaskDrain(a) ==
    /\ At(a, "hDrain")
    /\ Drain(a, "hJoin")
    /\ UNCHANGED <<setup, worker, child, progress, client, overlap>>

(* Variant: a process that ended without a word leaves the status alone. *)
TaskSettlesCompletedOnly(a) ==
    /\ At(a, "hJoin")
    /\ ~Alive(a)
    /\ entry' = IF entry.st # "Cancelled" /\ handler[a].last = 100
                THEN [st |-> "Completed", has |-> entry.has \/ HasResult(a)] ELSE entry
    /\ To(a, "hClean")
    /\ UNCHANGED <<setup, managed, file, processes, client, faults, overlap>>

(* The last word on a task that nobody cancelled: an error was reported in the *)
(* loop, or not at all.                                                       *)
TaskSettles(a) ==
    /\ At(a, "hJoin")
    /\ ~Alive(a)
    /\ entry' = IF entry.st = "Cancelled" \/ handler[a].last = -1 THEN entry
                ELSE IF handler[a].last = 100
                     THEN [st |-> "Completed", has |-> entry.has \/ HasResult(a)]
                     ELSE [entry EXCEPT !.st = "Unknown Error"]
    /\ To(a, "hClean")
    /\ UNCHANGED <<setup, managed, file, processes, client, faults, overlap>>

TaskClean(a) ==
    /\ At(a, "hClean")
    /\ managed' = None
    /\ To(a, "done")
    /\ UNCHANGED <<setup, entry, file, processes, client, faults, overlap>>

HandleTask(a) ==
    \/ RestSpawn(a) \/ TaskProcessing(a) \/ TaskIsAlive(a) \/ TaskLooks(a) \/ TaskError(a)
    \/ TaskEnd(a) \/ TaskDrain(a) \/ TaskSettles(a) \/ TaskClean(a)

-----------------------------------------------------------------------------
(* The fetcher. _execute_streaming connects, sends, and receives.             *)
Blocking(f) == f \in setup.blocking
Ws(f) == <<f, "ws">>
Rest(f) == <<f, "rest">>

Turn(f) ==
    /\ fetcher[f].at = "new" /\ f <= setup.calls
    /\ \A g \in Fetchers : g < f => fetcher[g].at = "returned"

Connect(f) ==
    /\ LoopFree
    /\ Turn(f) /\ f \notin setup.refused
    /\ fetcher' = [fetcher EXCEPT ![f].at = "sending"]
    /\ conn' = [conn EXCEPT ![f] = "up"]
    /\ To(Ws(f), "accepted")
    /\ UNCHANGED <<setup, worker, processes, inbox, cancel, faults, overlap>>

ConnectFails(f) ==
    /\ Turn(f) /\ f \in setup.refused
    /\ fetcher' = [fetcher EXCEPT ![f].at = "fallback"]
    /\ UNCHANGED <<setup, worker, processes, handler, conn, inbox, cancel, faults, overlap>>

SendPlan(f) ==
    /\ fetcher[f].at = "sending"
    /\ fetcher' = [fetcher EXCEPT ![f].at = "receiving", ![f].sent = TRUE]
    /\ UNCHANGED <<setup, worker, processes, handler, conn, inbox, cancel, faults, overlap>>

SendFails(f) ==
    /\ Fault
    /\ fetcher[f].at = "sending"
    /\ fetcher' = [fetcher EXCEPT ![f].at = "fallback"]
    /\ conn' = [conn EXCEPT ![f] = "lost"]
    /\ UNCHANGED <<setup, worker, processes, handler, inbox, cancel, overlap>>

ConnectionLost(f) ==
    /\ Fault
    /\ fetcher[f].at = "receiving"
    /\ conn[f] = "up"
    /\ conn' = [conn EXCEPT ![f] = "lost"]
    /\ UNCHANGED <<setup, worker, processes, handler, inbox, fetcher, cancel, overlap>>

Return(f, outcome) == fetcher' = [fetcher EXCEPT ![f].at = "returned", ![f].outcome = outcome]

(* Any exception: a blocking fetcher falls back to REST, the receive thread of *)
(* the other kind reports error code -1.                                      *)
ReceiveRaises(f) ==
    IF Blocking(f) THEN fetcher' = [fetcher EXCEPT ![f].at = "fallback"] ELSE Return(f, "code-1")

Receive(f) ==
    /\ fetcher[f].at = "receiving"
    /\ inbox[f] # <<>>
    /\ CASE Head(inbox[f]) = "complete" -> UNCHANGED fetcher
         [] Head(inbox[f]) = "complete-empty" -> Return(f, "nothing")
         [] Head(inbox[f]) = "result" -> Return(f, "data")
         [] OTHER -> ReceiveRaises(f)
    /\ IF fetcher' = fetcher
       THEN inbox' = [inbox EXCEPT ![f] = Tail(@)] /\ UNCHANGED conn
       ELSE inbox' = [inbox EXCEPT ![f] = <<>>] /\ conn' = [conn EXCEPT ![f] = "lost"]
    /\ UNCHANGED <<setup, worker, processes, handler, cancel, faults, overlap>>

ConnectionClosed(f) ==
    /\ fetcher[f].at = "receiving"
    /\ conn[f] = "lost" \/ (conn[f] = "closed" /\ inbox[f] = <<>>)
    /\ ReceiveRaises(f)
    /\ inbox' = [inbox EXCEPT ![f] = <<>>]
    /\ UNCHANGED <<setup, worker, processes, handler, conn, cancel, faults, overlap>>

(* Variant: the entry of an earlier submission is kept. *)
SubmitKeepsEntry(f) ==
    /\ LoopFree
    /\ \A g \in 1 .. f : ~At(Ws(g), "accepted")
    /\ fetcher[f].at = "fallback"
    /\ entry' = IF entry.st = "absent" THEN [st |-> "Starting", has |-> FALSE] ELSE entry
    /\ Registers(Rest(f))
    /\ To(Rest(f), "queued")
    /\ fetcher' = [fetcher EXCEPT ![f].at = IF Blocking(f) THEN "polling" ELSE "submitted"]
    /\ UNCHANGED <<setup, managed, file, processes, conn, inbox, cancel, faults>>

(* trigger_df_operation; the answer says Starting, so nothing polls yet. The   *)
(* loop has dealt with the metadata that came before.                         *)
Submit(f) ==
    /\ LoopFree
    /\ \A g \in 1 .. f : ~At(Ws(g), "accepted")
    /\ fetcher[f].at = "fallback"
    /\ entry' = [st |-> "Starting", has |-> FALSE]
    /\ Registers(Rest(f))
    /\ To(Rest(f), "queued")
    /\ fetcher' = [fetcher EXCEPT ![f].at = IF Blocking(f) THEN "polling" ELSE "submitted"]
    /\ UNCHANGED <<setup, managed, file, processes, conn, inbox, cancel, faults>>

SubmitFails(f) ==
    /\ Fault
    /\ fetcher[f].at = "fallback"
    /\ Return(f, "raised")
    /\ UNCHANGED <<setup, worker, processes, handler, conn, inbox, cancel, overlap>>

(* The worker validates the file of a completed task: it may refuse one that   *)
(* is not complete.                                                           *)
Readable == IF entry.st = "Completed" /\ file # "complete" THEN BOOLEAN ELSE {TRUE}

ReadStatus(f) ==
    /\ LoopFree
    /\ fetcher[f].at \in {"submitted", "answered"}
    /\ \E ok \in Readable :
         IF ~ok THEN Return(f, "raised")
         ELSE fetcher' = [fetcher EXCEPT ![f].at = IF @ = "submitted" THEN "polling" ELSE "returned"]
    /\ UNCHANGED <<setup, worker, processes, handler, conn, inbox, cancel, faults, overlap>>

(* The polling thread knows three final statuses, and Cancelled is not one.   *)
Answer(ok) ==
    CASE entry.st = "Completed" -> IF ~ok THEN "code2" ELSE IF entry.has THEN "data" ELSE "code-1"
      [] entry.st = "Error" -> "code1"
      [] entry.st = "Unknown Error" -> "code-1"

Stopped(f) == cancel[f] = "done"

Poll(f) ==
    /\ LoopFree
    /\ fetcher[f].at = "polling"
    /\ entry.st \in {"Completed", "Error", "Unknown Error"}
    /\ \E ok \in Readable :
         IF Blocking(f) /\ Answer(ok) = "data"
         THEN fetcher' = [fetcher EXCEPT ![f].at = "answered", ![f].outcome = "data"]
         ELSE Return(f, Answer(ok))
    /\ UNCHANGED <<setup, worker, processes, handler, conn, inbox, cancel, faults, overlap>>

PollStops(f) ==
    /\ fetcher[f].at = "polling"
    /\ Stopped(f)
    /\ Return(f, "cancelled")
    /\ UNCHANGED <<setup, worker, processes, handler, conn, inbox, cancel, faults, overlap>>

(* cancel: a node can cancel the fetcher it has been given, from another thread. *)
Cancel(f) ==
    /\ f \in setup.cancels /\ ~Blocking(f)
    /\ fetcher[f].at \in {"receiving", "polling"}
    /\ cancel[f] = "none"
    /\ conn' = [conn EXCEPT ![f] = IF fetcher[f].at = "receiving" THEN "lost" ELSE @]
    /\ cancel' = [cancel EXCEPT ![f] = "post"]
    /\ UNCHANGED <<setup, worker, processes, handler, inbox, fetcher, faults, overlap>>

(* cancel_process, then the status, then the stop event.                      *)
CancelPost(f) ==
    /\ LoopFree
    /\ cancel[f] = "post"
    /\ IF managed = None
       THEN cancel' = [cancel EXCEPT ![f] = "stop"] /\ UNCHANGED <<child, managed>>
       ELSE /\ cancel' = [cancel EXCEPT ![f] = "mark"]
            /\ child' = Kill(managed)
            /\ managed' = None
    /\ UNCHANGED <<setup, entry, file, progress, queued, handler, conn, inbox, fetcher, faults, overlap>>

(* Variant: the status the core's own word is spelled with. *)
CancelMarkSpelled(f) ==
    /\ cancel[f] = "mark"
    /\ SetStatus("Canceled")
    /\ cancel' = [cancel EXCEPT ![f] = "stop"]
    /\ UNCHANGED <<setup, managed, file, processes, handler, conn, inbox, fetcher, faults, overlap>>

CancelMark(f) ==
    /\ cancel[f] = "mark"
    /\ SetStatus("Cancelled")
    /\ cancel' = [cancel EXCEPT ![f] = "stop"]
    /\ UNCHANGED <<setup, managed, file, processes, handler, conn, inbox, fetcher, faults, overlap>>

CancelStop(f) ==
    /\ cancel[f] = "stop"
    /\ cancel' = [cancel EXCEPT ![f] = "done"]
    /\ UNCHANGED <<setup, worker, processes, handler, conn, inbox, fetcher, faults, overlap>>

CancelStep(f) == CancelPost(f) \/ CancelMark(f) \/ CancelStop(f)

FetchStep(f) ==
    \/ SendPlan(f) \/ Receive(f) \/ ConnectionClosed(f) \/ Submit(f) \/ ReadStatus(f)
    \/ Poll(f) \/ PollStops(f)

-----------------------------------------------------------------------------
WorkerNext ==
    \/ \E a \in Attempts : ChildStep(a) \/ ChildDies(a) \/ WsStep(a) \/ HandleTask(a)
    \/ \E f \in Fetchers :
         \/ Connect(f) \/ ConnectFails(f) \/ SendFails(f) \/ ConnectionLost(f) \/ SubmitFails(f)
         \/ FetchStep(f) \/ Cancel(f) \/ CancelStep(f)

(* Threads and coroutines are scheduled, children run to their end, and a     *)
(* started fetcher goes on; nobody has to start or cancel one.                *)
WorkerFairness ==
    /\ \A a \in Attempts : WF_workerVars(ChildStep(a)) /\ WF_workerVars(WsStep(a)) /\ WF_workerVars(HandleTask(a))
    /\ \A f \in Fetchers : WF_workerVars(FetchStep(f)) /\ WF_workerVars(CancelStep(f))

WorkerSpec == WorkerInit /\ [][WorkerNext]_workerVars /\ WorkerFairness

-----------------------------------------------------------------------------
WorkerTypeOK ==
    /\ setup \in Setups
    /\ entry \in [st : Statuses, has : BOOLEAN]
    /\ managed \in Attempts \cup {None}
    /\ file \in {"absent", "partial", "complete"}
    /\ child \in [Attempts -> ChildStates]
    /\ progress \in [Attempts -> {-1, 0, 100}]
    /\ queued \subseteq Attempts
    /\ handler \in [Attempts -> [at : Places, last : {-1, 0, 100}, got : BOOLEAN]]
    /\ conn \in [Fetchers -> {"none", "up", "closed", "lost"}]
    /\ inbox \in [Fetchers -> Seq({"complete", "complete-empty", "result", "error", "error-unknown"})]
    /\ fetcher \in [Fetchers -> [at : {"new", "sending", "receiving", "fallback", "submitted",
                                       "polling", "answered", "returned"},
                                 sent : BOOLEAN, outcome : FetchOutcomes]]
    /\ cancel \in [Fetchers -> {"none", "post", "mark", "stop", "done"}]
    /\ faults \in 0 .. setup.faults
    /\ overlap \in BOOLEAN

Own(f) == {Ws(f), Rest(f)}

(* A fetcher that answers with data has had a child of its own write the      *)
(* whole file; only if attempts overlapped may it have been one of an earlier  *)
(* fetcher.                                                                   *)
DataIsEarned ==
    \A f \in Fetchers : fetcher[f].outcome = "data" =>
        \E a \in Attempts : a[1] <= f /\ progress[a] = 100 /\ (a \in Own(f) \/ overlap)

(* As long as no attempt was registered before another was done with, the     *)
(* file behind an answer stays whole until a later fetcher's child starts.    *)
WholeFile ==
    ~overlap => \A f \in Fetchers : fetcher[f].outcome = "data" =>
        file = "complete" \/ \E a \in Attempts : a[1] > f /\ child[a] # "none"

(* Without such an overlap every live child is the managed one, which a cancel *)
(* can reach.                                                                 *)
LiveChildrenAreManaged ==
    ~overlap => \A a \in Attempts : Alive(a) => managed = a

(* handle_task left a failed task Processing: the child set -1 and ended       *)
(* between two looks at it.                                                   *)
MissedError == entry.st = "Processing" /\ \E a \in Attempts : At(a, "done") /\ progress[a] = -1

(* The cancel of an earlier fetcher was served after the next one submitted.  *)
CancelledByAnother(f) == entry.st = "Cancelled" /\ \E g \in Fetchers \ {f} : cancel[g] # "none"

(* A child with a large result is joined by a handler that does not read it.  *)
Frozen ==
    \E a \in Attempts : handler[a].at \in {"joinDone", "joinError", "hJoin"} /\ Alive(a) /\ a \in queued

(* Every fetcher that was started returns in the end, but for three causes:   *)
(* the missed error, the late cancel, and the join that waits for ever.       *)
EveryFetchReturns ==
    \A f \in Fetchers :
        []<>(\/ fetcher[f].at \in {"new", "returned"}
             \/ MissedError \/ CancelledByAnother(f) \/ Frozen)

(* What api_runner.py and the node's warning say of error code -1: the worker  *)
(* process died. A child that reported its error has not.                     *)
MinusOneMeansDied ==
    \A f \in Fetchers : fetcher[f].outcome = "code-1" => \A a \in Own(f) : progress[a] # -1

=============================================================================
