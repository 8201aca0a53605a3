------------------------------ MODULE Kernels ------------------------------
(***************************************************************************)
(* The kernel manager of the core and the containers it runs. Requests start, *)
(* stop, create, delete and interrupt kernels and execute code on them, which *)
(* restarts a kernel that is down. Most requests are coroutines: one at a     *)
(* time holds the event loop, from one await to the next. Nodes of a flow     *)
(* execute on threads of their own and interleave with everything. A kernel's *)
(* container has a name of its own, so at most one exists, running or not;    *)
(* the manager knows it by the container_id it keeps. The core may be shut    *)
(* down, or crash, and start again: kernels are then restored from the        *)
(* database and running containers are taken back by their name.             *)
(* Kernels are reached by a port of the host (the local mode).                *)
(* Source: flowfile_core kernel/manager.py, kernel/routes.py,                 *)
(* flowfile/flow_node/flow_node.py; kernel_runtime main.py.                   *)
(***************************************************************************)
EXTENDS Integers

CONSTANTS Kernels,    \* kernel ids
          Requests,   \* requests and executions of flow nodes
          Ports,
          Setups,     \* what the requests are, and a bound on failures
          None

Ops == {"create", "start", "stop", "delete", "interrupt", "cell", "node"}

ASSUME KernelsAssumption ==
    /\ Ports \subseteq Nat
    /\ Kernels \cap Requests = {}
    /\ None \notin Kernels \cup Requests \cup Ports
    /\ Setups \subseteq [calls : SUBSET Requests,      \* the requests that come
                         op : [Requests -> Ops], on : [Requests -> Kernels],
                         known : SUBSET Kernels,     \* kernels in the database
                         up : SUBSET Kernels,        \* known ones with a running container
                         packaged : SUBSET Kernels,  \* kernels whose image is built with extra packages
                         cancels : SUBSET Requests,  \* node executions that may be canceled
                         ports : (SUBSET Ports) \ {{}}, \* ports of the host nothing else uses
                         faults : Nat]

(* Only kernels of the database are taken back at start-up; None is no container. *)
ASSUME ReclaimAssumption ==
    /\ \A u \in Setups : u.up \subseteq u.known
    /\ None \notin [id : Kernels \cup Requests, port : Ports,
                    status : {"created", "running", "exited", "oom"}, thread : Requests \cup {None}]

VARIABLES
    setup,
    reg,      \* _kernels: the object of each kernel id
    obj,      \* the KernelInfo objects, named after the request that created them
    saved,    \* kernels in the database
    box,      \* box[k]: the container named flowfile-kernel-k
    cell,     \* cell[r]: the container in which the code of r executes
    req,      \* requests: how far they are, and their local variables
    loop,     \* the coroutine that holds the event loop
    cancel,   \* cancel[r]: the cancel event of a node's execution
    faults,   \* failures so far
    marred    \* kernels on which requests overlapped, Docker or the database failed, a cancel hid a
              \* failure, or code went to the container of another kernel (history)

vars == <<setup, reg, obj, saved, box, cell, req, loop, cancel, faults, marred>>
registry == <<reg, saved>>

Objects == Kernels \cup Requests    \* restored from the database, or created
Boxes == Objects                    \* container ids: found at start-up, or run by a request

States == {"stopped", "starting", "idle", "executing", "error"}
Outcomes == {"none", "ok", "failed", "down", "oom", "timeout", "cancelled"}

(* Where a coroutine is suspended, a client closing its connection included;   *)
(* between any two other places it holds the event loop.                      *)
Awaiting == {"new", "baking", "build", "health", "ready", "await", "awake",
             "post", "posted", "answered", "broken", "done"}
Holding == {"commit", "recycle", "forget", "prepare", "launch", "run", "record", "failed", "tidy",
            "mark", "oom", "down", "cut", "final", "halt", "halted", "drop"}
Places == Awaiting \cup Holding

(* The parts of a request that start a kernel, and those of an execution that  *)
(* has marked it as executing.                                                *)
Launching == {"run", "record", "health", "ready", "failed"}
Marked == {"post", "posted", "answered", "broken", "oom", "down", "cut", "final"}

Stopped == [state |-> "stopped", cid |-> None, port |-> None]
Fresh == [at |-> "new", o |-> None, s |-> None, port |-> None, out |-> "none"]
BoxOf(k, c, p, st) == [id |-> c, port |-> p, status |-> st, thread |-> None]

Running(k) == box[k] # None /\ box[k].status = "running"

(* Restored and reclaimed kernels: _restore_kernels_from_db and                *)
(* _reclaim_running_containers.                                               *)
Reclaimed(k, b) == IF b = None THEN Stopped ELSE [state |-> "idle", cid |-> b.id, port |-> b.port]

Init ==
    /\ setup \in Setups
    /\ saved = setup.known
    /\ reg = [k \in Kernels |-> IF k \in saved THEN k ELSE None]
    /\ \E port \in [Kernels -> setup.ports] :
         /\ \A j, k \in setup.up : j # k => port[j] # port[k]
         /\ \A k \in Kernels \ setup.up : port[k] = CHOOSE p \in setup.ports : TRUE
         /\ box = [k \in Kernels |-> IF k \in setup.up THEN BoxOf(k, k, port[k], "running") ELSE None]
    /\ obj = [x \in Objects |-> IF x \in Kernels THEN Reclaimed(x, box[x]) ELSE Stopped]
    /\ cell = [r \in Requests |-> None]
    /\ req = [r \in Requests |-> Fresh]
    /\ loop = None
    /\ cancel = [r \in Requests |-> "none"]
    /\ faults = 0
    /\ marred = {}

-----------------------------------------------------------------------------
Op(r) == setup.op[r]
K(r) == setup.on[r]
Executes(r) == Op(r) \in {"cell", "node"}
Coroutine(r) == Op(r) # "node"
Active(r) == req[r].at \notin {"new", "done"}

Fault == faults < setup.faults /\ faults' = faults + 1
NoFault == faults' = faults

(* A request at one of the places goes on, if it is its turn.                 *)
At(r, places) == req[r].at \in places /\ (Coroutine(r) => loop \in {None, r})

Move(r, new) ==
    /\ req' = [req EXCEPT ![r] = new]
    /\ loop' = IF ~Coroutine(r) THEN loop ELSE IF new.at \in Holding THEN r ELSE None

Goto(r, p) == Move(r, [req[r] EXCEPT !.at = p])
End(r, out) == Move(r, [req[r] EXCEPT !.at = "done", !.out = out])

(* An object that is gone from the registry is still the request's kernel.    *)
SetState(o, st) == obj' = [obj EXCEPT ![o] = [@ EXCEPT !.state = st]]
SetId(o, c) == obj' = [obj EXCEPT ![o] = [@ EXCEPT !.cid = c]]

(* The container that answers at a port of the host.                          *)
Answering(p) == {k \in Kernels : Running(k) /\ box[k].port = p}

(* Code in a container that stops or is removed ends with it.                 *)
Empty(k) == cell' = [r \in Requests |-> IF box[k] # None /\ cell[r] = box[k].id THEN None ELSE cell[r]]

(* _cleanup_container: only the container whose id is known, and a failure of  *)
(* Docker leaves it, stopped or not.                                          *)
KnownBox(k) == reg[k] # None /\ box[k] # None /\ obj[reg[k]].cid = box[k].id

Cleanup(k) ==
    \/ /\ IF KnownBox(k) THEN box' = [box EXCEPT ![k] = None] /\ Empty(k) ELSE UNCHANGED <<box, cell>>
       /\ NoFault /\ UNCHANGED marred
    \/ /\ KnownBox(k) /\ Fault
       /\ \/ UNCHANGED <<box, cell>>
          \/ box' = [box EXCEPT ![k] = [@ EXCEPT !.status = "exited", !.thread = None]] /\ Empty(k)
       /\ marred' = marred \cup {k}

(* _allocate_port: the first port no registered kernel has and nobody listens on. *)
FreePorts == {p \in setup.ports : Answering(p) = {} /\ \A k \in Kernels : reg[k] # None => obj[reg[k]].port # p}
FirstFree(p) == p \in FreePorts /\ \A q \in FreePorts : p <= q

(* _persist_kernel, _remove_kernel_from_db: an error of the database is logged,  *)
(* and the request goes on as if the row were written.                        *)
Store(k, rows) ==
    \/ saved' = rows /\ NoFault /\ UNCHANGED marred
    \/ Fault /\ UNCHANGED saved /\ marred' = marred \cup {k}

-----------------------------------------------------------------------------
(* A request begins: the route looks the kernel up.                           *)
FirstPlace(r) ==
    LET st == obj[reg[K(r)]].state IN
    CASE Op(r) = "start" -> "prepare"
      [] Op(r) = "stop" -> "halt"
      [] Op(r) = "delete" -> IF st \in {"idle", "executing"} THEN "halt" ELSE "drop"
      [] Op(r) = "interrupt" -> "cut"
      [] Executes(r) -> IF st \in {"idle", "executing"} THEN "mark"
                        ELSE IF st = "starting" THEN "await" ELSE "recycle"

(* Executions on a running kernel, and interrupts, do not get in each other's  *)
(* way as far as the container is concerned; other requests do.               *)
Meets(r) == \E q \in Requests \ {r} :
    /\ K(q) = K(r) /\ Active(q)
    /\ Op(r) # "interrupt" /\ Op(q) # "interrupt"
    /\ ~(Executes(r) /\ Executes(q) /\ reg[K(r)] # None /\ obj[reg[K(r)]].state \in {"idle", "executing"})

Begin(r) ==
    /\ r \in setup.calls
    /\ At(r, {"new"})
    /\ \/ /\ Op(r) = "create" /\ reg[K(r)] = None
          /\ \E p \in Ports :
               /\ FirstFree(p)
               /\ Move(r, [req[r] EXCEPT !.at = IF K(r) \in setup.packaged THEN "baking" ELSE "commit", !.port = p])
       \/ /\ IF Op(r) = "create" THEN reg[K(r)] # None \/ FreePorts = {} ELSE reg[K(r)] = None
          /\ End(r, "failed")
       \/ /\ Op(r) # "create" /\ reg[K(r)] # None
          /\ Move(r, [req[r] EXCEPT !.at = FirstPlace(r), !.o = reg[K(r)]])
    /\ marred' = IF Meets(r) THEN marred \cup {K(r)} ELSE marred
    /\ UNCHANGED <<setup, registry, obj, box, cell, cancel, faults>>

-----------------------------------------------------------------------------
(* create_kernel: the image is built outside the lock, so the registry is      *)
(* looked at again.                                                           *)
BakeFails(r) ==
    /\ At(r, {"baking"}) /\ Fault
    /\ End(r, "failed")
    /\ UNCHANGED <<setup, registry, obj, box, cell, cancel, marred>>

(* Variant: only the first look. *)
CommitUnseen(r) ==
    /\ At(r, {"baking", "commit"})
    /\ obj' = [obj EXCEPT ![r] = [Stopped EXCEPT !.port = req[r].port]]
    /\ reg' = [reg EXCEPT ![K(r)] = r]
    /\ Store(K(r), saved \cup {K(r)})
    /\ End(r, "ok")
    /\ UNCHANGED <<setup, box, cell, cancel>>

Commit(r) ==
    /\ At(r, {"baking", "commit"})
    /\ IF reg[K(r)] # None
       THEN End(r, "failed") /\ UNCHANGED <<registry, obj, faults, marred>>
       ELSE /\ obj' = [obj EXCEPT ![r] = [Stopped EXCEPT !.port = req[r].port]]
            /\ reg' = [reg EXCEPT ![K(r)] = r]
            /\ Store(K(r), saved \cup {K(r)})
            /\ End(r, "ok")
    /\ UNCHANGED <<setup, box, cell, cancel>>

-----------------------------------------------------------------------------
(* _ensure_running: a kernel that is down is cleaned up and started.           *)
Recycle(r) ==
    /\ At(r, {"recycle"})
    /\ Cleanup(K(r))
    /\ Goto(r, "forget")
    /\ UNCHANGED <<setup, registry, obj, cancel>>

Forget(r) ==
    /\ At(r, {"forget"})
    /\ SetId(req[r].o, None)
    /\ Goto(r, "prepare")
    /\ UNCHANGED <<setup, registry, box, cell, cancel, faults, marred>>

(* start_kernel, start_kernel_sync. A start that is done returns to the        *)
(* execution that asked for it.                                               *)
Started(r) == IF Executes(r) THEN Goto(r, "mark") ELSE End(r, "ok")

Prepare(r) ==
    LET s == reg[K(r)] IN
    /\ At(r, {"prepare"})
    /\ \/ /\ s = None
          /\ End(r, "failed") /\ UNCHANGED obj /\ NoFault
       \/ /\ s # None /\ obj[s].state = "idle"
          /\ Started(r) /\ UNCHANGED obj /\ NoFault
       \/ /\ s # None /\ obj[s].state # "idle"
          /\ Move(r, [req[r] EXCEPT !.s = s, !.at = IF K(r) \in setup.packaged THEN "build" ELSE "launch"])
          /\ UNCHANGED obj /\ NoFault
       \/ /\ s # None /\ obj[s].state # "idle" /\ Fault
          /\ SetState(s, "error")
          /\ End(r, "failed")
    /\ UNCHANGED <<setup, registry, box, cell, cancel, marred>>

BuildFails(r) ==
    /\ At(r, {"build"}) /\ Fault
    /\ SetState(req[r].s, "error")
    /\ End(r, "failed")
    /\ UNCHANGED <<setup, registry, box, cell, cancel, marred>>

Launch(r) ==
    LET s == req[r].s IN
    /\ At(r, {"build", "launch"})
    /\ \/ /\ obj[s].port = None /\ FreePorts = {}
          /\ End(r, "failed") /\ UNCHANGED obj
       \/ \E p \in Ports :
            /\ IF obj[s].port = None THEN FirstFree(p) ELSE p = obj[s].port
            /\ obj' = [obj EXCEPT ![s] = [@ EXCEPT !.state = "starting", !.port = p]]
            /\ Goto(r, "run")
    /\ UNCHANGED <<setup, registry, box, cell, cancel, faults, marred>>

(* containers.run: it refuses a name that is taken, and leaves a container     *)
(* that cannot have its port as created but not started.                      *)
RunBox(r) ==
    LET k == K(r) p == obj[req[r].s].port IN
    /\ At(r, {"run"})
    /\ \/ /\ box[k] # None
          /\ Goto(r, "failed") /\ UNCHANGED box /\ NoFault
       \/ /\ box[k] = None /\ Answering(p) # {}
          /\ box' = [box EXCEPT ![k] = BoxOf(k, r, p, "created")]
          /\ Goto(r, "failed") /\ NoFault
       \/ /\ box[k] = None /\ Answering(p) = {}
          /\ box' = [box EXCEPT ![k] = BoxOf(k, r, p, "running")]
          /\ Goto(r, "record") /\ NoFault
       \/ Fault /\ Goto(r, "failed") /\ UNCHANGED box
    /\ UNCHANGED <<setup, registry, obj, cell, cancel, marred>>

(* The wait begins with a look at the registry, outside the start's except.    *)
Record(r) ==
    /\ At(r, {"record"})
    /\ SetId(req[r].s, r)
    /\ IF reg[K(r)] = None THEN End(r, "failed") ELSE Goto(r, "health")
    /\ UNCHANGED <<setup, registry, box, cell, cancel, faults, marred>>

(* _wait_for_healthy, of a start and of an execution that waits for one: the    *)
(* kernel answers, or the deadline passes.                                    *)
Awaited(r) == IF req[r].at = "health" THEN req[r].s ELSE req[r].o

Healthy(r) ==
    /\ At(r, {"health", "await"})
    /\ Answering(obj[Awaited(r)].port) # {}
    /\ Goto(r, IF req[r].at = "health" THEN "ready" ELSE "awake")
    /\ UNCHANGED <<setup, registry, obj, box, cell, cancel, faults, marred>>

(* Variant: an execution waits without a deadline. *)
UnhealthyStart(r) ==
    /\ At(r, {"health"})
    /\ IF Answering(obj[req[r].s].port) = {} THEN NoFault ELSE Fault
    /\ Goto(r, "failed")
    /\ UNCHANGED <<setup, registry, obj, box, cell, cancel, marred>>

Unhealthy(r) ==
    /\ At(r, {"health", "await"})
    /\ IF Answering(obj[Awaited(r)].port) = {} THEN NoFault ELSE Fault
    /\ IF req[r].at = "health" THEN Goto(r, "failed") ELSE End(r, "failed")
    /\ UNCHANGED <<setup, registry, obj, box, cell, cancel, marred>>

Ready(r) ==
    /\ At(r, {"ready", "awake"})
    /\ SetState(IF req[r].at = "ready" THEN req[r].s ELSE req[r].o, "idle")
    /\ Started(r)
    /\ UNCHANGED <<setup, registry, box, cell, cancel, faults, marred>>

(* Variant: a deadline is not among the exceptions of the start. *)
FailedUnseen(r) ==
    /\ At(r, {"failed"})
    /\ End(r, "failed")
    /\ UNCHANGED <<setup, registry, obj, box, cell, cancel, faults, marred>>

Failed(r) ==
    /\ At(r, {"failed"})
    /\ SetState(req[r].s, "error")
    /\ Goto(r, "tidy")
    /\ UNCHANGED <<setup, registry, box, cell, cancel, faults, marred>>

(* Variant: the container of a failed start is kept. *)
TidyNothing(r) ==
    /\ At(r, {"tidy"})
    /\ End(r, "failed")
    /\ UNCHANGED <<setup, registry, obj, box, cell, cancel, faults, marred>>

Tidy(r) ==
    /\ At(r, {"tidy"})
    /\ Cleanup(K(r))
    /\ End(r, "failed")
    /\ UNCHANGED <<setup, registry, obj, cancel>>

-----------------------------------------------------------------------------
(* execute, execute_sync. *)
Mark(r) ==
    /\ At(r, {"mark"})
    /\ SetState(req[r].o, "executing")
    /\ Goto(r, "post")
    /\ UNCHANGED <<setup, registry, box, cell, cancel, faults, marred>>

(* The runtime executes each request on a thread, and remembers the last one.   *)
(* A port that two kernels were given is answered by whichever of them runs.   *)
Post(r) ==
    LET there == Answering(obj[req[r].o].port) IN
    /\ At(r, {"post"})
    /\ IF there = {}
       THEN Goto(r, "broken") /\ UNCHANGED <<box, cell, marred>>
       ELSE \E k \in there :
              /\ box' = [box EXCEPT ![k] = [@ EXCEPT !.thread = r]]
              /\ cell' = [cell EXCEPT ![r] = box[k].id]
              /\ marred' = IF k = K(r) THEN marred ELSE marred \cup {K(r)}
              /\ Goto(r, "posted")
    /\ UNCHANGED <<setup, registry, obj, cancel, faults>>

(* The code ends, by itself or interrupted; a request that waits is answered.  *)
CellOver(r, out) ==
    /\ cell' = [cell EXCEPT ![r] = None]
    /\ box' = [k \in Kernels |-> IF box[k] # None /\ box[k].id = cell[r] THEN [box[k] EXCEPT !.thread = None]
                                 ELSE box[k]]
    /\ req' = [req EXCEPT ![r] = IF @.at = "posted" THEN [@ EXCEPT !.at = "answered", !.out = out] ELSE @]

CodeEnds(r) ==
    /\ cell[r] # None
    /\ CellOver(r, "ok")
    /\ UNCHANGED <<setup, registry, obj, loop, cancel, faults, marred>>

(* The connection breaks, or 300 seconds pass while the code goes on.          *)
Lose(r) ==
    /\ At(r, {"posted"}) /\ cell[r] = None
    /\ Goto(r, "broken")
    /\ UNCHANGED <<setup, registry, obj, box, cell, cancel, faults, marred>>

TimeOut(r) ==
    /\ At(r, {"posted"})
    /\ Move(r, [req[r] EXCEPT !.at = "broken", !.out = "timeout"])
    /\ UNCHANGED <<setup, registry, obj, box, cell, cancel, faults, marred>>

(* The handler of HTTP errors: _check_oom_killed, _is_container_running (which *)
(* falls back to the name, and takes an error of Docker for a running one).    *)
OutOfMemory(k) == KnownBox(k) /\ box[k].status = "oom"
SeemsRunning(k) == Running(k) /\ (reg[k] # None => obj[reg[k]].cid \in {None, box[k].id})

Broken(r) ==
    LET k == K(r)
        raised == IF req[r].out = "timeout" /\ Op(r) = "cell" THEN Goto(r, "cut")
                  ELSE Move(r, [req[r] EXCEPT !.at = "final", !.out = "failed"])
    IN
    /\ At(r, {"broken"})
    /\ \/ /\ NoFault /\ UNCHANGED marred
          /\ CASE OutOfMemory(k) -> Goto(r, "oom")
               [] ~OutOfMemory(k) /\ SeemsRunning(k) -> raised
               [] OTHER -> Goto(r, "down")
       \/ Fault /\ marred' = marred \cup {k} /\ raised
    /\ UNCHANGED <<setup, registry, obj, box, cell, cancel>>

Oom(r) ==
    /\ At(r, {"oom"})
    /\ SetState(req[r].o, "error")
    /\ Move(r, [req[r] EXCEPT !.at = "final", !.out = "oom"])
    /\ UNCHANGED <<setup, registry, box, cell, cancel, faults, marred>>

(* Variant: the word Docker has for it. *)
DownExited(r) ==
    /\ At(r, {"down"})
    /\ obj' = [obj EXCEPT ![req[r].o] = [@ EXCEPT !.state = "exited", !.cid = None]]
    /\ Move(r, [req[r] EXCEPT !.at = "final", !.out = "down"])
    /\ UNCHANGED <<setup, registry, box, cell, cancel, faults, marred>>

Down(r) ==
    /\ At(r, {"down"})
    /\ obj' = [obj EXCEPT ![req[r].o] = [@ EXCEPT !.state = "stopped", !.cid = None]]
    /\ Move(r, [req[r] EXCEPT !.at = "final", !.out = "down"])
    /\ UNCHANGED <<setup, registry, box, cell, cancel, faults, marred>>

(* Variant: only an answer puts the kernel back to idle. *)
FinallyAnswered(r) ==
    /\ At(r, {"answered", "final"})
    /\ obj' = [obj EXCEPT ![req[r].o].state = IF @ = "executing" /\ req[r].at = "answered" THEN "idle" ELSE @]
    /\ End(r, req[r].out)
    /\ UNCHANGED <<setup, registry, box, cell, cancel, faults, marred>>

(* The finally. *)
Finally(r) ==
    /\ At(r, {"answered", "final"})
    /\ obj' = [obj EXCEPT ![req[r].o].state = IF @ = "executing" THEN "idle" ELSE @]
    /\ End(r, req[r].out)
    /\ UNCHANGED <<setup, registry, box, cell, cancel, faults, marred>>

(* interrupt_execution_sync reaches the code the runtime started last, and     *)
(* does nothing unless the kernel is marked as executing.                     *)
Hit(k) == {r \in Requests : /\ reg[k] # None /\ obj[reg[k]].cid # None /\ obj[reg[k]].state = "executing"
                            /\ \E j \in Answering(obj[reg[k]].port) : box[j].thread = r}

Answered(hit) == [q \in Requests |-> IF q \in hit /\ req[q].at = "posted"
                                    THEN [req[q] EXCEPT !.at = "answered", !.out = "cancelled"] ELSE req[q]]

Interrupts(hit) ==
    /\ cell' = [r \in Requests |-> IF r \in hit THEN None ELSE cell[r]]
    /\ box' = [k \in Kernels |-> IF box[k] # None /\ box[k].thread \in hit
                                 THEN [box[k] EXCEPT !.thread = None] ELSE box[k]]

Cut(r) ==
    LET last == IF Op(r) = "interrupt" THEN "done" ELSE "final" IN
    /\ At(r, {"cut"})
    /\ Interrupts(Hit(K(r)))
    /\ req' = [Answered(Hit(K(r))) EXCEPT ![r] = [@ EXCEPT !.at = last]]
    /\ loop' = IF ~Coroutine(r) THEN loop ELSE IF last = "done" THEN None ELSE r
    /\ UNCHANGED <<setup, registry, obj, cancel, faults, marred>>

(* FlowNode.cancel sets the event and interrupts; execute_sync sees the event   *)
(* and interrupts again. It then does not look why the request broke: that the  *)
(* container is gone stays unseen.                                            *)
Cancel(r) ==
    /\ r \in setup.cancels /\ Op(r) = "node" /\ Active(r) /\ cancel[r] = "none"
    /\ cancel' = [cancel EXCEPT ![r] = "set"]
    /\ UNCHANGED <<setup, registry, obj, box, cell, req, loop, faults, marred>>

CancelCuts(r) ==
    /\ cancel[r] = "set"
    /\ cancel' = [cancel EXCEPT ![r] = "done"]
    /\ Interrupts(Hit(K(r)))
    /\ req' = Answered(Hit(K(r)))
    /\ UNCHANGED <<setup, registry, obj, loop, faults, marred>>

SeeCancel(r) ==
    /\ At(r, {"posted", "answered", "broken"}) /\ cancel[r] # "none"
    /\ Move(r, [req[r] EXCEPT !.at = "cut", !.out = "cancelled"])
    /\ marred' = IF Running(K(r)) THEN marred ELSE marred \cup {K(r)}
    /\ UNCHANGED <<setup, registry, obj, box, cell, cancel, faults>>

-----------------------------------------------------------------------------
(* stop_kernel, and delete_kernel, which stops a kernel that is ready first.    *)
Halt(r) ==
    /\ At(r, {"halt"})
    /\ Cleanup(K(r))
    /\ Goto(r, "halted")
    /\ UNCHANGED <<setup, registry, obj, cancel>>

Halted(r) ==
    /\ At(r, {"halted"})
    /\ obj' = [obj EXCEPT ![req[r].o] = [@ EXCEPT !.state = "stopped", !.cid = None]]
    /\ IF Op(r) = "delete" THEN Goto(r, "drop") ELSE End(r, "ok")
    /\ UNCHANGED <<setup, registry, box, cell, cancel, faults, marred>>

Drop(r) ==
    /\ At(r, {"drop"})
    /\ reg' = [reg EXCEPT ![K(r)] = None]
    /\ Store(K(r), saved \ {K(r)})
    /\ End(r, "ok")
    /\ UNCHANGED <<setup, obj, box, cell, cancel>>

-----------------------------------------------------------------------------
(* A container ends by itself: its process exits, or it is out of memory.      *)
BoxEnds(k) ==
    /\ Running(k) /\ Fault
    /\ \E st \in {"exited", "oom"} :
         box' = [box EXCEPT ![k] = [@ EXCEPT !.status = st, !.thread = None]]
    /\ Empty(k)
    /\ UNCHANGED <<setup, registry, obj, req, loop, cancel, marred>>

(* The core ends - shutdown_all has removed what it knows to run, as far as      *)
(* Docker let it, or had no time - and starts again. Kernels are restored if    *)
(* the database can be read. Running containers are taken back, or removed when *)
(* their kernel is not restored, unless Docker cannot list them or remove one.  *)
Shut(k) == KnownBox(k) /\ obj[reg[k]].state \in {"idle", "executing", "starting"}

Reboot ==
    /\ Fault
    /\ \E rows \in {saved, {}}, gone \in SUBSET {k \in Kernels : Shut(k)} :
         LET running == {k \in Kernels \ gone : Running(k)} IN
         \E left \in {running} \cup SUBSET (running \ rows) :
           /\ box' = [k \in Kernels |-> IF k \in gone \cup (running \ (rows \cup left)) THEN None ELSE box[k]]
           /\ reg' = [k \in Kernels |-> IF k \in rows THEN k ELSE None]
           /\ obj' = [x \in Objects |-> IF x \in (running \cap rows) \ left THEN Reclaimed(x, box[x]) ELSE Stopped]
           /\ marred' = left
    /\ req' = [r \in Requests |-> IF Active(r) THEN [Fresh EXCEPT !.at = "done", !.out = "failed"] ELSE req[r]]
    /\ cell' = [r \in Requests |-> IF \E k \in Kernels : box'[k] # None /\ box'[k].id = cell[r] THEN cell[r] ELSE None]
    /\ loop' = None
    /\ cancel' = [r \in Requests |-> "none"]
    /\ UNCHANGED <<setup, saved>>

-----------------------------------------------------------------------------
StartStep(r) == Recycle(r) \/ Forget(r) \/ Prepare(r) \/ BuildFails(r) \/ Launch(r) \/ RunBox(r) \/ Record(r)
                  \/ Healthy(r) \/ Unhealthy(r) \/ Ready(r) \/ Failed(r) \/ Tidy(r)

ExecuteStep(r) == Mark(r) \/ Post(r) \/ Lose(r) \/ TimeOut(r) \/ Broken(r) \/ Oom(r) \/ Down(r)
                    \/ Finally(r) \/ Cut(r) \/ SeeCancel(r)

RequestStep(r) == BakeFails(r) \/ Commit(r) \/ StartStep(r) \/ ExecuteStep(r) \/ Halt(r) \/ Halted(r) \/ Drop(r)

Next ==
    \/ \E r \in Requests : Begin(r) \/ RequestStep(r) \/ CodeEnds(r) \/ Cancel(r) \/ CancelCuts(r)
    \/ \E k \in Kernels : BoxEnds(k)
    \/ Reboot

(* Coroutines and threads that can go on do; containers and users owe nothing. *)
Spec == Init /\ [][Next]_vars /\ \A r \in Requests : WF_vars(RequestStep(r))

-----------------------------------------------------------------------------
TypeOK ==
    /\ setup \in Setups
    /\ reg \in [Kernels -> Objects \cup {None}]
    /\ obj \in [Objects -> [state : States, cid : Boxes \cup {None}, port : Ports \cup {None}]]
    /\ saved \subseteq Kernels
    /\ box \in [Kernels -> {None} \cup [id : Boxes, port : Ports, status : {"created", "running", "exited", "oom"},
                                       thread : Requests \cup {None}]]
    /\ cell \in [Requests -> Boxes \cup {None}]
    /\ req \in [Requests -> [at : Places, o : Objects \cup {None}, s : Objects \cup {None},
                              port : Ports \cup {None}, out : Outcomes]]
    /\ loop \in Requests \cup {None}
    /\ cancel \in [Requests -> {"none", "set", "done"}]
    /\ faults \in 0 .. setup.faults
    /\ marred \subseteq Kernels

(* A kernel is shown as starting or executing only while a request is at it:   *)
(* whatever fails, and however requests overlap, the one that set the state is *)
(* still to set it again.                                                     *)
BusyHasWorker == \A k \in Kernels : reg[k] # None =>
    /\ obj[reg[k]].state = "starting" => \E r \in Requests : req[r].at \in Launching /\ req[r].s = reg[k]
    /\ obj[reg[k]].state = "executing" => \E r \in Requests : Executes(r) /\ req[r].at \in Marked /\ req[r].o = reg[k]

(* When the requests on a kernel have ended, did not overlap with a start, a   *)
(* stop or a delete, none of them went to another kernel that was given the   *)
(* same port, Docker did what it was told, and the database took the kernel's  *)
(* row or its removal, the record of the kernel is true: a running container   *)
(* is the one it knows, of an idle kernel, at its port, and a registered       *)
(* kernel is in the database. A restart of the core makes up for whatever went *)
(* wrong before it, except for the containers it could not list or remove.     *)
QuietRecordIsTrue == \A k \in Kernels :
    k \notin marred /\ (\A r \in Requests : K(r) = k => ~Active(r)) =>
        /\ Running(k) => reg[k] # None /\ obj[reg[k]] = Reclaimed(k, box[k])
        /\ reg[k] # None => /\ obj[reg[k]].state = "idle" => KnownBox(k)
                            /\ k \in saved

(* A kernel that was created stays the registered one until it is deleted or   *)
(* the core restarts.                                                         *)
CreatedStays ==
    [][\A k \in Kernels : reg[k] # None /\ reg'[k] # reg[k] => reg'[k] = None \/ reg'[k] = k]_vars

(* Every request ends. *)
RequestsEnd == \A r \in Requests : Active(r) ~> ~Active(r)

-----------------------------------------------------------------------------
(* "Run the cell again to restart it.": once an execution has been told that    *)
(* the kernel is down, the next one can start it.                             *)
DownCanRestart == \A r, q \in Requests :
    K(q) = K(r) /\ K(r) \notin marred /\ req[r].out = "down" /\ req[q].at = "run" => box[K(q)] = None

(* "Each kernel gets a unique host port": of two registered kernels.           *)
PortsUnique == \A j, k \in Kernels : j # k /\ reg[j] # None /\ reg[k] # None
                 => obj[reg[j]].port = None \/ obj[reg[j]].port # obj[reg[k]].port

(* A cell that exceeded its time does not go on ("otherwise it keeps mutating   *)
(* the namespace and the next cell runs concurrently").                       *)
TimedOutEnds == \A r \in Requests : Op(r) = "cell" /\ req[r].at = "done" /\ req[r].out = "timeout" => cell[r] = None

(* An execution starts the kernel it needs, unless Docker fails or somebody     *)
(* stops it ("Restart the kernel if it is STOPPED or ERROR").                 *)
StartsOnDemand == \A r \in Requests : Executes(r) /\ req[r].out = "failed" =>
    faults > 0 \/ \E q \in Requests : Op(q) \in {"stop", "delete"} /\ req[q].at # "new"

=============================================================================
