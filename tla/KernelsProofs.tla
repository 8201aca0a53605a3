---------------------------- MODULE KernelsProofs ----------------------------
(***************************************************************************)
(* Theorems about Kernels for every set of kernels, requests and ports and    *)
(* every set-up: a kernel is shown as starting or executing only while some   *)
(* request is at it, and a kernel that was created is not replaced.  Both     *)
(* rest on every object being of one kernel: a request and the registry       *)
(* never name an object of another kernel, so a request whose kernel is gone  *)
(* from the registry can be the worker of no registered one.  The record of a *)
(* kernel whose requests have ended is true, for which an invariant says what *)
(* a kernel and the requests at work on it owe each other.                    *)
(***************************************************************************)
EXTENDS Kernels, TLAPS

-----------------------------------------------------------------------------
(* Types. *)

Object == [state : States, cid : Boxes \cup {None}, port : Ports \cup {None}]
Box == [id : Boxes, port : Ports, status : {"created", "running", "exited", "oom"},
        thread : Requests \cup {None}]
Request == [at : Places, o : Objects \cup {None}, s : Objects \cup {None},
            port : Ports \cup {None}, out : Outcomes]

(* What is known at some places: the port of a create when it commits, the      *)
(* object of a start, its port when its container is run, and that only        *)
(* executions mark a kernel as executing.                                     *)
Placed == \A r \in Requests :
    /\ req[r].at \in {"baking", "commit"} => req[r].port \in Ports
    /\ req[r].at \in {"build", "launch", "run"} => req[r].s \in Objects
    /\ req[r].at = "run" => obj[req[r].s].port \in Ports
    /\ req[r].at = "mark" => Executes(r)

Typed == TypeOK /\ Placed

LEMMA SetupType ==
  ASSUME TypeOK
  PROVE /\ setup.op \in [Requests -> Ops] /\ setup.on \in [Requests -> Kernels]
        /\ setup.known \subseteq Kernels /\ setup.up \subseteq Kernels
        /\ setup.ports \subseteq Ports /\ setup.ports # {} /\ setup.faults \in Nat
        /\ \A r \in Requests : K(r) \in Kernels
BY KernelsAssumption DEF TypeOK, K

LEMMA Parts ==
  ASSUME TypeOK, NEW r \in Requests
  PROVE /\ req[r] \in Request
        /\ req[r].at \in Places /\ req[r].o \in Objects \cup {None}
        /\ req[r].s \in Objects \cup {None} /\ req[r].port \in Ports \cup {None}
        /\ req[r].out \in Outcomes
        /\ K(r) \in Kernels
<1>1. req[r] \in Request
  BY DEF TypeOK, Request
<1> QED BY <1>1, SetupType DEF Request

LEMMA KnownPlaces == \A p \in Awaiting \cup Holding : p \in Places
BY DEF Places

(* A request that moves. *)
LEMMA MoveType ==
  ASSUME TypeOK, NEW r \in Requests, NEW new \in Request, Move(r, new)
  PROVE /\ req' \in [Requests -> Request]
        /\ loop' \in Requests \cup {None}
        /\ req'[r] = new
        /\ \A q \in Requests \ {r} : req'[q] = req[q]
BY DEF TypeOK, Move, Request

LEMMA GotoType ==
  ASSUME TypeOK, NEW r \in Requests, NEW p \in Places, Goto(r, p)
  PROVE /\ req' \in [Requests -> Request]
        /\ loop' \in Requests \cup {None}
        /\ req'[r].at = p /\ req'[r].o = req[r].o /\ req'[r].s = req[r].s
        /\ req'[r].port = req[r].port
        /\ \A q \in Requests \ {r} : req'[q] = req[q]
<1> DEFINE new == [req[r] EXCEPT !.at = p]
<1>1. new \in Request /\ new.at = p /\ new.o = req[r].o /\ new.s = req[r].s /\ new.port = req[r].port
  BY Parts DEF Request
<1>2. Move(r, new)
  BY DEF Goto
<1> HIDE DEF new
<1> QED BY <1>1, <1>2, MoveType

LEMMA EndType ==
  ASSUME TypeOK, NEW r \in Requests, NEW out \in Outcomes, End(r, out)
  PROVE /\ req' \in [Requests -> Request]
        /\ loop' \in Requests \cup {None}
        /\ req'[r].at = "done" /\ req'[r].o = req[r].o /\ req'[r].s = req[r].s
        /\ \A q \in Requests \ {r} : req'[q] = req[q]
<1> DEFINE new == [req[r] EXCEPT !.at = "done", !.out = out]
<1>1. new \in Request /\ new.at = "done" /\ new.o = req[r].o /\ new.s = req[r].s
  BY Parts DEF Request, Places, Awaiting
<1>2. Move(r, new)
  BY DEF End
<1> HIDE DEF new
<1> QED BY <1>1, <1>2, MoveType

(* The places a request leaves to with an outcome. *)
LEMMA LeaveType ==
  ASSUME TypeOK, NEW r \in Requests, NEW p \in Places, NEW out \in Outcomes,
         Move(r, [req[r] EXCEPT !.at = p, !.out = out])
  PROVE /\ req' \in [Requests -> Request]
        /\ loop' \in Requests \cup {None}
        /\ req'[r].at = p /\ req'[r].o = req[r].o /\ req'[r].s = req[r].s
        /\ \A q \in Requests \ {r} : req'[q] = req[q]
<1> DEFINE new == [req[r] EXCEPT !.at = p, !.out = out]
<1>1. new \in Request /\ new.at = p /\ new.o = req[r].o /\ new.s = req[r].s
  BY Parts DEF Request
<1>2. Move(r, new)
  OBVIOUS
<1> HIDE DEF new
<1> QED BY <1>1, <1>2, MoveType

LEMMA StartedType ==
  ASSUME TypeOK, NEW r \in Requests, Started(r)
  PROVE /\ req' \in [Requests -> Request]
        /\ loop' \in Requests \cup {None}
        /\ req'[r].at \in {"mark", "done"} /\ (req'[r].at = "mark" => Executes(r))
        /\ req'[r].o = req[r].o /\ req'[r].s = req[r].s
        /\ \A q \in Requests \ {r} : req'[q] = req[q]
BY GotoType, EndType DEF Started, Places, Holding, Outcomes

(* An object whose state or id is set. *)
LEMMA SetStateType ==
  ASSUME TypeOK, NEW o, NEW st \in States, SetState(o, st)
  PROVE /\ obj' \in [Objects -> Object]
        /\ \A x \in Objects : /\ x # o => obj'[x] = obj[x]
                              /\ x = o => obj'[x].state = st
                              /\ obj'[x].port = obj[x].port
<1>1. obj \in [Objects -> Object]
  BY DEF TypeOK, Object
<1>2. \A y \in Object : LET z == [y EXCEPT !.state = st] IN z \in Object /\ z.state = st /\ z.port = y.port
  BY DEF Object
<1>3. obj' = [x \in Objects |-> IF x = o THEN [obj[x] EXCEPT !.state = st] ELSE obj[x]]
  BY <1>1 DEF SetState
<1> QED BY <1>1, <1>2, <1>3

LEMMA SetIdType ==
  ASSUME TypeOK, NEW o, NEW c \in Boxes \cup {None}, SetId(o, c)
  PROVE /\ obj' \in [Objects -> Object]
        /\ \A x \in Objects : obj'[x].state = obj[x].state /\ obj'[x].port = obj[x].port
<1>1. obj \in [Objects -> Object]
  BY DEF TypeOK, Object
<1>2. \A y \in Object : LET z == [y EXCEPT !.cid = c] IN z \in Object /\ z.state = y.state /\ z.port = y.port
  BY DEF Object
<1>3. obj' = [x \in Objects |-> IF x = o THEN [obj[x] EXCEPT !.cid = c] ELSE obj[x]]
  BY <1>1 DEF SetId
<1> QED BY <1>1, <1>2, <1>3

LEMMA FaultType ==
  ASSUME TypeOK, UNCHANGED setup, Fault \/ NoFault
  PROVE faults' \in 0 .. setup'.faults
BY SetupType DEF TypeOK, Fault, NoFault

LEMMA StoreType ==
  ASSUME TypeOK, UNCHANGED setup, NEW k \in Kernels, NEW rows \in SUBSET Kernels, Store(k, rows)
  PROVE saved' \subseteq Kernels /\ marred' \subseteq Kernels /\ faults' \in 0 .. setup'.faults
<1>1. saved' \subseteq Kernels /\ marred' \subseteq Kernels
  BY DEF Store, TypeOK
<1>2. faults' \in 0 .. setup'.faults
  BY FaultType DEF Store, NoFault, TypeOK
<1> QED BY <1>1, <1>2

LEMMA EmptyType ==
  ASSUME TypeOK, NEW k \in Kernels, Empty(k)
  PROVE cell' \in [Requests -> Boxes \cup {None}]
BY DEF TypeOK, Empty

LEMMA CleanupType ==
  ASSUME TypeOK, UNCHANGED setup, NEW k \in Kernels, Cleanup(k)
  PROVE /\ box' \in [Kernels -> {None} \cup Box]
        /\ cell' \in [Requests -> Boxes \cup {None}]
        /\ faults' \in 0 .. setup'.faults
        /\ marred' \subseteq Kernels
<1>1. faults' \in 0 .. setup'.faults
  BY FaultType DEF Cleanup
<1>2. marred' \subseteq Kernels
  BY DEF Cleanup, TypeOK
<1>3. cell' \in [Requests -> Boxes \cup {None}]
  BY EmptyType DEF Cleanup, TypeOK
<1>4. box' \in [Kernels -> {None} \cup Box]
  <2>1. box \in [Kernels -> {None} \cup Box]
    BY DEF TypeOK, Box
  <2>2. CASE UNCHANGED box
    BY <2>1, <2>2
  <2>3. CASE box' = [box EXCEPT ![k] = None]
    BY <2>1, <2>3
  <2>4. CASE KnownBox(k) /\ box' = [box EXCEPT ![k] = [@ EXCEPT !.status = "exited", !.thread = None]]
    <3>1. box[k] \in Box
      BY <2>1, <2>4 DEF KnownBox
    <3>2. [box[k] EXCEPT !.status = "exited", !.thread = None] \in Box
      BY <3>1 DEF Box
    <3> QED BY <2>1, <2>4, <3>2
  <2> QED BY <2>2, <2>3, <2>4 DEF Cleanup
<1> QED BY <1>1, <1>2, <1>3, <1>4

LEMMA InterruptsType ==
  ASSUME TypeOK, NEW hit, Interrupts(hit)
  PROVE /\ box' \in [Kernels -> {None} \cup Box]
        /\ cell' \in [Requests -> Boxes \cup {None}]
<1>1. box \in [Kernels -> {None} \cup Box] /\ cell \in [Requests -> Boxes \cup {None}]
  BY DEF TypeOK, Box
<1>2. \A b \in Box : [b EXCEPT !.thread = None] \in Box
  BY DEF Box
<1>3. cell' = [r \in Requests |-> IF r \in hit THEN None ELSE cell[r]]
  BY DEF Interrupts
<1>4. box' = [k \in Kernels |-> IF box[k] # None /\ box[k].thread \in hit
                               THEN [box[k] EXCEPT !.thread = None] ELSE box[k]]
  BY DEF Interrupts
<1>5. cell' \in [Requests -> Boxes \cup {None}]
  BY ONLY <1>1, <1>3
<1>6. box' \in [Kernels -> {None} \cup Box]
  BY ONLY <1>1, <1>2, <1>4
<1> QED BY <1>5, <1>6

(* What Cut and CancelCuts make of the requests whose code they interrupt. *)
LEMMA AnsweredType ==
  ASSUME TypeOK, NEW hit
  PROVE /\ Answered(hit) \in [Requests -> Request]
        /\ \A q \in Requests :
             /\ Answered(hit)[q].o = req[q].o /\ Answered(hit)[q].s = req[q].s
             /\ Answered(hit)[q].port = req[q].port
             /\ \/ Answered(hit)[q].at = req[q].at
                \/ req[q].at = "posted" /\ Answered(hit)[q].at = "answered"
<1>1. req \in [Requests -> Request]
  BY DEF TypeOK, Request
<1>2. "answered" \in Places /\ "cancelled" \in Outcomes
  BY DEF Places, Awaiting, Outcomes
<1>3. \A y \in Request : LET z == [y EXCEPT !.at = "answered", !.out = "cancelled"] IN
        z \in Request /\ z.at = "answered" /\ z.o = y.o /\ z.s = y.s /\ z.port = y.port
  BY <1>2 DEF Request
<1> QED BY <1>1, <1>3 DEF Answered

LEMMA AnsweredPlaces ==
  ASSUME TypeOK, NEW hit, NEW q \in Requests
  PROVE /\ Answered(hit)[q].at \notin {"baking", "commit", "build", "launch", "run", "mark"} \/ Answered(hit)[q].at = req[q].at
        /\ Answered(hit)[q].at \in Launching <=> req[q].at \in Launching
        /\ Answered(hit)[q].at \in Marked <=> req[q].at \in Marked
BY AnsweredType DEF Launching, Marked

-----------------------------------------------------------------------------
(* The step of a request r, in the parts its type needs. *)
Restful == /\ saved' \subseteq Kernels
           /\ box' \in [Kernels -> {None} \cup Box]
           /\ cell' \in [Requests -> Boxes \cup {None}]
           /\ cancel' \in [Requests -> {"none", "set", "done"}]
           /\ faults' \in 0 .. setup'.faults
           /\ marred' \subseteq Kernels

LEMMA StepFrame ==
  ASSUME Typed, UNCHANGED setup, NEW r \in Requests, Restful,
         reg' \in [Kernels -> Objects \cup {None}],
         obj' \in [Objects -> Object],
         \A x \in Objects : obj[x].port \in Ports => obj'[x].port \in Ports,
         req' \in [Requests -> Request], loop' \in Requests \cup {None},
         \A q \in Requests \ {r} : req'[q] = req[q],
         req'[r].at \in {"baking", "commit"} => req'[r].port \in Ports,
         req'[r].at \in {"build", "launch", "run"} => req'[r].s \in Objects,
         req'[r].at = "run" => obj'[req'[r].s].port \in Ports,
         req'[r].at = "mark" => Executes(r)
  PROVE Typed'
<1>1. TypeOK'
  BY DEF Typed, TypeOK, Restful, Object, Box, Request
<1>2. Placed'
  BY DEF Typed, Placed, Executes, Op
<1> QED BY <1>1, <1>2 DEF Typed

(* Most steps leave the registry, the containers and the history alone. *)
LEMMA RestIsRestful ==
  ASSUME TypeOK, UNCHANGED <<setup, saved>>, UNCHANGED <<box, cell, cancel, marred>>,
         faults' \in 0 .. setup'.faults
  PROVE Restful
BY DEF TypeOK, Restful, Box

LEMMA NoFaultAtAll ==
  ASSUME TypeOK, UNCHANGED <<setup, faults>>
  PROVE faults' \in 0 .. setup'.faults
BY DEF TypeOK

LEMMA SameObjects ==
  ASSUME TypeOK, UNCHANGED obj
  PROVE /\ obj' \in [Objects -> Object]
        /\ \A x \in Objects : obj[x].port \in Ports => obj'[x].port \in Ports
BY DEF TypeOK, Object

LEMMA SameRegistry ==
  ASSUME TypeOK, UNCHANGED registry
  PROVE reg' \in [Kernels -> Objects \cup {None}] /\ UNCHANGED saved
BY DEF TypeOK, registry

(* A step to a place of which nothing is known. *)
MovesOff(r) ==
  /\ req' \in [Requests -> Request] /\ loop' \in Requests \cup {None}
  /\ \A q \in Requests \ {r} : req'[q] = req[q]
  /\ req'[r].at \notin {"baking", "commit", "build", "launch", "run", "mark"}

KeepsPorts ==
  /\ obj' \in [Objects -> Object]
  /\ \A x \in Objects : obj[x].port \in Ports => obj'[x].port \in Ports

Leaves(r, p, out) == Move(r, [req[r] EXCEPT !.at = p, !.out = out])

LEMMA PlainStep ==
  ASSUME Typed, UNCHANGED setup, UNCHANGED registry, NEW r \in Requests, Restful, KeepsPorts, MovesOff(r)
  PROVE Typed'
<1>1. TypeOK /\ reg' \in [Kernels -> Objects \cup {None}]
  BY SameRegistry DEF Typed
<1> QED BY <1>1, StepFrame DEF MovesOff, KeepsPorts

LEMMA GoesOff ==
  ASSUME TypeOK, NEW r \in Requests, NEW p \in Places, Goto(r, p),
         p \notin {"baking", "commit", "build", "launch", "run", "mark"}
  PROVE MovesOff(r)
BY GotoType DEF MovesOff

LEMMA EndsOff ==
  ASSUME TypeOK, NEW r \in Requests, NEW out \in Outcomes, End(r, out)
  PROVE MovesOff(r)
BY EndType DEF MovesOff

LEMMA LeavesOff ==
  ASSUME TypeOK, NEW r \in Requests, NEW p \in Places, NEW out \in Outcomes, Leaves(r, p, out),
         p \notin {"baking", "commit", "build", "launch", "run", "mark"}
  PROVE MovesOff(r)
<1>1. Move(r, [req[r] EXCEPT !.at = p, !.out = out])
  BY DEF Leaves
<1> QED BY <1>1, LeaveType DEF MovesOff

LEMMA FirstPlaceType ==
  ASSUME TypeOK, NEW r \in Requests, Op(r) # "create"
  PROVE /\ FirstPlace(r) \in {"prepare", "halt", "drop", "cut", "mark", "await", "recycle"}
        /\ FirstPlace(r) = "mark" => Executes(r)
<1>1. Op(r) \in Ops
  BY SetupType DEF Op
<1> QED BY <1>1 DEF FirstPlace, Ops, Executes

LEMMA BeginTyped ==
  ASSUME Typed, NEW r \in Requests, Begin(r)
  PROVE Typed'
<1> USE DEF Typed
<1>1. reg' \in [Kernels -> Objects \cup {None}] /\ UNCHANGED saved /\ UNCHANGED setup
  BY SameRegistry DEF Begin
<1>2. Restful
  <2>1. marred' \subseteq Kernels
    BY Parts DEF Begin, TypeOK
  <2> QED BY <1>1, <2>1, NoFaultAtAll DEF Begin, TypeOK, Restful, Box
<1>3. /\ obj' \in [Objects -> Object]
      /\ \A x \in Objects : obj[x].port \in Ports => obj'[x].port \in Ports
  BY SameObjects DEF Begin
<1>4. CASE End(r, "failed")
  <2>1. "failed" \in Outcomes
    BY DEF Outcomes
  <2> QED BY <1>1, <1>2, <1>3, <1>4, <2>1, EndType, StepFrame
<1>5. ASSUME NEW p \in Ports,
             Move(r, [req[r] EXCEPT !.at = IF K(r) \in setup.packaged THEN "baking" ELSE "commit", !.port = p])
      PROVE Typed'
  <2> DEFINE new == [req[r] EXCEPT !.at = IF K(r) \in setup.packaged THEN "baking" ELSE "commit", !.port = p]
  <2>1. new \in Request /\ new.port = p /\ new.at \in {"baking", "commit"}
    BY Parts DEF Request, Places, Awaiting, Holding
  <2>2. Move(r, new)
    BY <1>5
  <2> HIDE DEF new
  <2> QED BY <1>1, <1>2, <1>3, <2>1, <2>2, MoveType, StepFrame
<1>6. CASE Op(r) # "create" /\ reg[K(r)] # None /\ Move(r, [req[r] EXCEPT !.at = FirstPlace(r), !.o = reg[K(r)]])
  <2> DEFINE new == [req[r] EXCEPT !.at = FirstPlace(r), !.o = reg[K(r)]]
  <2>0. reg[K(r)] \in Objects
    BY <1>6, Parts DEF TypeOK
  <2>1. new \in Request /\ new.at \notin {"baking", "commit", "build", "launch", "run"} /\ (new.at = "mark" => Executes(r))
    BY <1>6, <2>0, Parts, FirstPlaceType, ZenonT(30) DEF Request, Places, Holding, Awaiting
  <2>2. Move(r, new)
    BY <1>6
  <2> HIDE DEF new
  <2> QED BY <1>1, <1>2, <1>3, <2>1, <2>2, MoveType, StepFrame
<1> QED BY <1>4, <1>5, <1>6 DEF Begin

LEMMA CreateTyped ==
  ASSUME Typed, NEW r \in Requests, BakeFails(r) \/ Commit(r)
  PROVE Typed'
<1> USE DEF Typed
<1>1. "failed" \in Outcomes /\ "ok" \in Outcomes
  BY DEF Outcomes
<1>2. CASE BakeFails(r)
  <2>1. Restful
    BY <1>2, FaultType, RestIsRestful DEF BakeFails, registry
  <2> QED BY <1>1, <1>2, <2>1, EndType, SameObjects, SameRegistry, StepFrame DEF BakeFails
<1>3. CASE Commit(r)
  <2>0. K(r) \in Kernels /\ r \in Objects
    BY Parts DEF Objects
  <2>1. Restful
    <3>1. saved' \subseteq Kernels /\ marred' \subseteq Kernels /\ faults' \in 0 .. setup'.faults
      <4>1. CASE UNCHANGED <<registry, obj, faults, marred>>
        BY <1>3, <4>1, NoFaultAtAll DEF Commit, registry, TypeOK
      <4>2. CASE Store(K(r), saved \cup {K(r)})
        <5>1. saved \cup {K(r)} \in SUBSET Kernels
          BY <2>0 DEF TypeOK
        <5> QED BY <1>3, <2>0, <4>2, <5>1, StoreType DEF Commit
      <4> QED BY <1>3, <4>1, <4>2 DEF Commit
    <3> QED BY <1>3, <3>1 DEF Commit, TypeOK, Restful, Box
  <2>2. reg' \in [Kernels -> Objects \cup {None}]
    BY <1>3, <2>0 DEF Commit, registry, TypeOK
  <2>3. req[r].port \in Ports
    BY <1>3 DEF Commit, At, Placed
  <2>4. [Stopped EXCEPT !.port = req[r].port] \in Object /\ [Stopped EXCEPT !.port = req[r].port].port \in Ports
    BY <2>3 DEF Stopped, Object, States
  <2>5. /\ obj' \in [Objects -> Object]
        /\ \A x \in Objects : obj[x].port \in Ports => obj'[x].port \in Ports
    <3>1. CASE UNCHANGED obj
      BY <3>1, SameObjects
    <3>2. CASE obj' = [obj EXCEPT ![r] = [Stopped EXCEPT !.port = req[r].port]]
      <4>1. obj \in [Objects -> Object]
        BY DEF TypeOK, Object
      <4> QED BY <2>4, <3>2, <4>1
    <3> QED BY <1>3, <3>1, <3>2 DEF Commit
  <2>6. End(r, "failed") \/ End(r, "ok")
    BY <1>3 DEF Commit
  <2> QED BY <1>1, <1>3, <2>1, <2>2, <2>5, <2>6, EndType, StepFrame DEF Commit
<1> QED BY <1>2, <1>3

LEMMA RecycleTyped ==
  ASSUME Typed, NEW r \in Requests, Recycle(r) \/ Tidy(r) \/ Halt(r)
  PROVE Typed'
<1> USE DEF Typed
<1>1. Cleanup(K(r)) /\ UNCHANGED <<setup, registry, obj, cancel>>
  BY DEF Recycle, Tidy, Halt
<1>2. Restful
  BY <1>1, CleanupType, Parts, SameRegistry DEF Restful, TypeOK
<1>3. "forget" \in Places /\ "halted" \in Places /\ "failed" \in Outcomes
  BY DEF Places, Holding, Outcomes
<1>4. Goto(r, "forget") \/ Goto(r, "halted") \/ End(r, "failed")
  BY DEF Recycle, Tidy, Halt
<1> QED BY <1>1, <1>2, <1>3, <1>4, GotoType, EndType, SameObjects, SameRegistry, StepFrame

LEMMA PrepareTyped ==
  ASSUME Typed, NEW r \in Requests, Prepare(r)
  PROVE Typed'
<1> USE DEF Typed
<1>1. /\ UNCHANGED <<setup, registry, box, cell, cancel, marred>>
      /\ Fault \/ NoFault
  BY DEF Prepare
<1>2. Restful
  BY <1>1, FaultType, RestIsRestful DEF registry
<1>3. "failed" \in Outcomes
  BY DEF Outcomes
<1>4. CASE End(r, "failed") /\ UNCHANGED obj
  BY <1>1, <1>2, <1>3, <1>4, EndType, SameObjects, SameRegistry, StepFrame
<1>5. CASE Started(r) /\ UNCHANGED obj
  BY <1>1, <1>2, <1>5, StartedType, SameObjects, SameRegistry, StepFrame
<1>6. CASE End(r, "failed") /\ SetState(reg[K(r)], "error")
  <2>1. "error" \in States
    BY DEF States
  <2> QED BY <1>1, <1>2, <1>3, <1>6, <2>1, EndType, SetStateType, SameRegistry, StepFrame
<1>7. CASE /\ reg[K(r)] # None
           /\ Move(r, [req[r] EXCEPT !.s = reg[K(r)], !.at = IF K(r) \in setup.packaged THEN "build" ELSE "launch"])
           /\ UNCHANGED obj
  <2> DEFINE new == [req[r] EXCEPT !.s = reg[K(r)], !.at = IF K(r) \in setup.packaged THEN "build" ELSE "launch"]
  <2>0. reg[K(r)] \in Objects
    BY <1>7, Parts DEF TypeOK
  <2>1. new \in Request /\ new.at \in {"build", "launch"} /\ new.s \in Objects
    BY <2>0, Parts DEF Request, Places, Holding, Awaiting
  <2>2. Move(r, new)
    BY <1>7
  <2> HIDE DEF new
  <2> QED BY <1>1, <1>2, <1>7, <2>1, <2>2, MoveType, SameObjects, SameRegistry, StepFrame
<1> QED BY <1>4, <1>5, <1>6, <1>7 DEF Prepare

LEMMA LaunchTyped ==
  ASSUME Typed, NEW r \in Requests, Launch(r)
  PROVE Typed'
<1> USE DEF Typed
<1>1. UNCHANGED <<setup, registry, box, cell, cancel, faults, marred>>
  BY DEF Launch
<1>2. Restful
  BY <1>1, NoFaultAtAll, RestIsRestful DEF registry
<1>3. CASE End(r, "failed") /\ UNCHANGED obj
  <2>1. "failed" \in Outcomes
    BY DEF Outcomes
  <2> QED BY <1>1, <1>2, <1>3, <2>1, EndType, SameObjects, SameRegistry, StepFrame
<1>4. ASSUME NEW p \in Ports, Goto(r, "run"),
             obj' = [obj EXCEPT ![req[r].s] = [@ EXCEPT !.state = "starting", !.port = p]]
      PROVE Typed'
  <2>1. obj \in [Objects -> Object]
    BY DEF TypeOK, Object
  <2>2. \A y \in Object : LET z == [y EXCEPT !.state = "starting", !.port = p] IN z \in Object /\ z.port = p
    BY DEF Object, States
  <2>3. obj' = [x \in Objects |-> IF x = req[r].s THEN [obj[x] EXCEPT !.state = "starting", !.port = p] ELSE obj[x]]
    BY <1>4, <2>1
  <2>4. /\ obj' \in [Objects -> Object]
        /\ \A x \in Objects : obj[x].port \in Ports => obj'[x].port \in Ports
        /\ req[r].s \in Objects => obj'[req[r].s].port \in Ports
    BY <2>1, <2>2, <2>3
  <2>5. req[r].s \in Objects
    BY DEF Launch, At, Placed
  <2>6. "run" \in Places
    BY DEF Places, Holding
  <2> QED BY <1>1, <1>2, <1>4, <2>4, <2>5, <2>6, GotoType, SameRegistry, StepFrame
<1> QED BY <1>3, <1>4 DEF Launch

(* Steps that change nothing but the object, and steps that change nothing but  *)
(* how far the request is.                                                    *)
LEMMA SetsTyped ==
  ASSUME Typed, NEW r \in Requests, NEW p \in Places, NEW o, NEW st \in States, NEW c \in Boxes \cup {None},
         SetState(o, st) \/ SetId(o, c),
         Goto(r, p), p \notin {"baking", "commit", "build", "launch", "run", "mark"},
         UNCHANGED <<setup, registry, box, cell, cancel, marred>>, faults' \in 0 .. setup'.faults
  PROVE Typed'
<1> USE DEF Typed
<1>1. Restful
  BY RestIsRestful DEF registry
<1> QED BY <1>1, GotoType, SetStateType, SetIdType, SameRegistry, StepFrame

LEMMA SetsAndEnds ==
  ASSUME Typed, NEW r \in Requests, NEW out \in Outcomes, NEW o, NEW st \in States, NEW c \in Boxes \cup {None},
         SetState(o, st) \/ SetId(o, c), End(r, out),
         UNCHANGED <<setup, registry, box, cell, cancel, marred>>, faults' \in 0 .. setup'.faults
  PROVE Typed'
<1> USE DEF Typed
<1>1. Restful
  BY RestIsRestful DEF registry
<1> QED BY <1>1, EndType, SetStateType, SetIdType, SameRegistry, StepFrame

LEMMA MovesTyped ==
  ASSUME Typed, NEW r \in Requests, NEW p \in Places, NEW out \in Outcomes,
         Goto(r, p) \/ End(r, out) \/ Move(r, [req[r] EXCEPT !.at = p, !.out = out]),
         p \notin {"baking", "commit", "build", "launch", "run", "mark"},
         UNCHANGED <<setup, registry, obj>>, Restful
  PROVE Typed'
<1>1. TypeOK
  BY DEF Typed
<1>2. Goto(r, p) \/ End(r, out) \/ Leaves(r, p, out)
  BY DEF Leaves
<1>3. MovesOff(r)
  BY <1>1, <1>2, GoesOff, EndsOff, LeavesOff
<1>4. KeepsPorts
  BY <1>1, SameObjects DEF KeepsPorts
<1> QED BY <1>3, <1>4, PlainStep

LEMMA StartTyped ==
  ASSUME Typed, NEW r \in Requests,
         Forget(r) \/ BuildFails(r) \/ RunBox(r) \/ Record(r) \/ Healthy(r) \/ Unhealthy(r) \/ Ready(r) \/ Failed(r)
  PROVE Typed'
<1> USE DEF Typed
<1>0. /\ "prepare" \in Places /\ "failed" \in Places /\ "record" \in Places /\ "health" \in Places
      /\ "ready" \in Places /\ "awake" \in Places /\ "tidy" \in Places
      /\ "failed" \in Outcomes /\ "error" \in States /\ "idle" \in States
      /\ None \in Boxes \cup {None} /\ r \in Boxes \cup {None}
  BY DEF Places, Awaiting, Holding, Outcomes, States, Boxes, Objects
<1>1. CASE Forget(r)
  BY <1>0, <1>1, NoFaultAtAll, SetsTyped DEF Forget
<1>2. CASE BuildFails(r)
  BY <1>0, <1>2, FaultType, SetsAndEnds DEF BuildFails
<1>3. CASE RunBox(r)
  <2>1. UNCHANGED <<setup, registry, obj, cell, cancel, marred>> /\ (Fault \/ NoFault)
    BY <1>3 DEF RunBox
  <2>2. K(r) \in Kernels /\ obj[req[r].s].port \in Ports
    BY <1>3, Parts DEF RunBox, At, Placed
  <2>3. \A st \in {"created", "running"} : BoxOf(K(r), r, obj[req[r].s].port, st) \in Box
    BY <2>2 DEF BoxOf, Box, Boxes, Objects
  <2>4. box' \in [Kernels -> {None} \cup Box]
    <3>1. box \in [Kernels -> {None} \cup Box]
      BY DEF TypeOK, Box
    <3> QED BY <1>3, <2>2, <2>3, <3>1 DEF RunBox
  <2>5. Restful
    BY <2>1, <2>4, FaultType DEF Restful, TypeOK, registry
  <2> QED BY <1>0, <1>3, <2>1, <2>5, MovesTyped DEF RunBox
<1>4. CASE Record(r)
  BY <1>0, <1>4, NoFaultAtAll, SetsTyped, SetsAndEnds DEF Record
<1>5. CASE Healthy(r)
  <2>1. Restful
    BY <1>5, NoFaultAtAll, RestIsRestful DEF Healthy, registry
  <2> QED BY <1>0, <1>5, <2>1, MovesTyped DEF Healthy
<1>6. CASE Unhealthy(r)
  <2>1. Restful
    BY <1>6, FaultType, RestIsRestful DEF Unhealthy, registry
  <2> QED BY <1>0, <1>6, <2>1, MovesTyped DEF Unhealthy
<1>7. CASE Ready(r)
  <2>1. Restful
    BY <1>7, NoFaultAtAll, RestIsRestful DEF Ready, registry
  <2> QED BY <1>0, <1>7, <2>1, StartedType, SetStateType, SameRegistry, StepFrame DEF Ready
<1>8. CASE Failed(r)
  BY <1>0, <1>8, NoFaultAtAll, SetsTyped DEF Failed
<1> QED BY <1>1, <1>2, <1>3, <1>4, <1>5, <1>6, <1>7, <1>8

(* An object that is set to stopped without an id, or back to idle. *)
LEMMA ResetType ==
  ASSUME TypeOK, NEW o,
         \/ obj' = [obj EXCEPT ![o] = [@ EXCEPT !.state = "stopped", !.cid = None]]
         \/ obj' = [obj EXCEPT ![o].state = IF @ = "executing" THEN "idle" ELSE @]
  PROVE /\ obj' \in [Objects -> Object]
        /\ \A x \in Objects : /\ obj'[x].port = obj[x].port
                              /\ obj'[x].state \in {obj[x].state, "stopped", "idle"}
                              /\ x = o => obj'[x].state # "executing"
                              /\ x # o => obj'[x] = obj[x]
<1>1. obj \in [Objects -> Object]
  BY DEF TypeOK, Object
<1>2. \A y \in Object : LET z == [y EXCEPT !.state = "stopped", !.cid = None] IN
        z \in Object /\ z.state = "stopped" /\ z.port = y.port
  BY DEF Object, States
<1>3. \A y \in Object : LET z == [y EXCEPT !.state = IF y.state = "executing" THEN "idle" ELSE y.state] IN
        z \in Object /\ z.state \in {y.state, "idle"} /\ z.state # "executing" /\ z.port = y.port
  BY DEF Object, States
<1>4. CASE obj' = [obj EXCEPT ![o] = [@ EXCEPT !.state = "stopped", !.cid = None]]
  <2>1. obj' = [x \in Objects |-> IF x = o THEN [obj[x] EXCEPT !.state = "stopped", !.cid = None] ELSE obj[x]]
    BY <1>1, <1>4
  <2> QED BY <1>1, <1>2, <2>1
<1>5. CASE obj' = [obj EXCEPT ![o].state = IF @ = "executing" THEN "idle" ELSE @]
  <2>1. obj' = [x \in Objects |->
                  IF x = o THEN [obj[x] EXCEPT !.state = IF obj[x].state = "executing" THEN "idle" ELSE obj[x].state]
                           ELSE obj[x]]
    BY <1>1, <1>5
  <2> QED BY <1>1, <1>3, <2>1
<1> QED BY <1>4, <1>5

Forgets(o) == obj' = [obj EXCEPT ![o] = [@ EXCEPT !.state = "stopped", !.cid = None]]
Idles(o) == obj' = [obj EXCEPT ![o].state = IF @ = "executing" THEN "idle" ELSE @]

LEMMA ResetKeeps ==
  ASSUME TypeOK, NEW o, Forgets(o) \/ Idles(o)
  PROVE KeepsPorts
<1>1. \/ obj' = [obj EXCEPT ![o] = [@ EXCEPT !.state = "stopped", !.cid = None]]
      \/ obj' = [obj EXCEPT ![o].state = IF @ = "executing" THEN "idle" ELSE @]
  BY DEF Forgets, Idles
<1> QED BY <1>1, ResetType DEF KeepsPorts

LEMMA ResetSpares ==
  ASSUME TypeOK, NEW o, Forgets(o) \/ Idles(o)
  PROVE \A x \in Objects : /\ x # o => obj'[x] = obj[x]
                           /\ x = o => obj'[x].state # "executing"
                           /\ obj'[x].state = "starting" => obj[x].state = "starting"
<1>1. \/ obj' = [obj EXCEPT ![o] = [@ EXCEPT !.state = "stopped", !.cid = None]]
      \/ obj' = [obj EXCEPT ![o].state = IF @ = "executing" THEN "idle" ELSE @]
  BY DEF Forgets, Idles
<1> QED BY <1>1, ResetType

LEMMA ExecuteTyped ==
  ASSUME Typed, NEW r \in Requests,
         Mark(r) \/ Post(r) \/ Lose(r) \/ TimeOut(r) \/ Broken(r) \/ Oom(r) \/ Down(r) \/ Finally(r) \/ SeeCancel(r)
  PROVE Typed'
<1> USE DEF Typed
<1>0. /\ "post" \in Places /\ "posted" \in Places /\ "broken" \in Places /\ "cut" \in Places
      /\ "final" \in Places /\ "oom" \in Places /\ "down" \in Places
      /\ {"timeout", "failed", "cancelled", "oom", "down"} \subseteq Outcomes
      /\ {"error", "executing"} \subseteq States /\ None \in Boxes \cup {None}
  BY DEF Places, Awaiting, Holding, Outcomes, States
<1>1. CASE Mark(r)
  BY <1>0, <1>1, NoFaultAtAll, SetsTyped DEF Mark
<1>2. CASE Post(r)
  <2>1. box \in [Kernels -> {None} \cup Box] /\ cell \in [Requests -> Boxes \cup {None}]
    BY DEF TypeOK, Box
  <2>2. \A k \in Answering(obj[req[r].o].port) :
          /\ k \in Kernels /\ box[k] \in Box /\ box[k].id \in Boxes
          /\ [box[k] EXCEPT !.thread = r] \in Box
    BY <2>1 DEF Answering, Running, Box
  <2>3. box' \in [Kernels -> {None} \cup Box] /\ cell' \in [Requests -> Boxes \cup {None}]
    <3>1. CASE UNCHANGED <<box, cell>>
      BY ONLY <2>1, <3>1
    <3>2. CASE \E k \in Answering(obj[req[r].o].port) : /\ box' = [box EXCEPT ![k] = [@ EXCEPT !.thread = r]]
                                                       /\ cell' = [cell EXCEPT ![r] = box[k].id]
      <4>1. PICK k \in Answering(obj[req[r].o].port) : /\ box' = [box EXCEPT ![k] = [@ EXCEPT !.thread = r]]
                                                      /\ cell' = [cell EXCEPT ![r] = box[k].id]
        BY <3>2
      <4> DEFINE b == [box[k] EXCEPT !.thread = r]
      <4>2. b \in Box /\ box[k].id \in Boxes
        BY <2>2
      <4>3. box' = [box EXCEPT ![k] = b] /\ cell' = [cell EXCEPT ![r] = box[k].id]
        BY <4>1
      <4> HIDE DEF b
      <4> QED BY ONLY <2>1, <4>2, <4>3
    <3> QED BY <1>2, <3>1, <3>2 DEF Post
  <2>4. Restful
    <3>1. marred' \subseteq Kernels
      BY <1>2, Parts DEF Post, TypeOK
    <3> QED BY <1>2, <2>3, <3>1, NoFaultAtAll DEF Post, Restful, TypeOK, registry
  <2> QED BY <1>0, <1>2, <2>4, MovesTyped DEF Post
<1>3. CASE Lose(r) \/ TimeOut(r)
  <2>1. Restful
    BY <1>3, NoFaultAtAll, RestIsRestful DEF Lose, TimeOut, registry
  <2> QED BY <1>0, <1>3, <2>1, MovesTyped DEF Lose, TimeOut
<1>4. CASE Broken(r)
  <2>1. Restful
    <3>1. marred' \subseteq Kernels
      BY <1>4, Parts DEF Broken, TypeOK
    <3>2. faults' \in 0 .. setup'.faults
      BY <1>4, FaultType DEF Broken
    <3> QED BY <1>4, <3>1, <3>2 DEF Broken, Restful, TypeOK, Box, registry
  <2> QED BY <1>0, <1>4, <2>1, MovesTyped DEF Broken
<1>5. CASE Oom(r)
  <2>1. Restful
    BY <1>5, NoFaultAtAll, RestIsRestful DEF Oom, registry
  <2>2. SetState(req[r].o, "error") /\ Leaves(r, "final", "oom") /\ UNCHANGED setup /\ UNCHANGED registry
    BY <1>5 DEF Oom, Leaves
  <2>3. TypeOK /\ "final" \in Places /\ "oom" \in Outcomes /\ "error" \in States
    BY <1>0
  <2>4. KeepsPorts
    BY ONLY <2>2, <2>3, SetStateType DEF KeepsPorts
  <2>5. MovesOff(r)
    BY ONLY <2>2, <2>3, r \in Requests, LeavesOff
  <2> QED BY ONLY Typed, <2>1, <2>2, <2>4, <2>5, r \in Requests, PlainStep
<1>6. CASE Down(r)
  <2>1. Restful
    BY <1>6, NoFaultAtAll, RestIsRestful DEF Down, registry
  <2>2. Forgets(req[r].o) /\ Leaves(r, "final", "down") /\ UNCHANGED setup /\ UNCHANGED registry
    BY <1>6 DEF Down, Leaves, Forgets
  <2>3. TypeOK /\ "final" \in Places /\ "down" \in Outcomes
    BY <1>0
  <2>4. KeepsPorts
    BY ONLY <2>2, <2>3, ResetKeeps
  <2>5. MovesOff(r)
    BY ONLY <2>2, <2>3, r \in Requests, LeavesOff
  <2> QED BY ONLY Typed, <2>1, <2>2, <2>4, <2>5, r \in Requests, PlainStep
<1>7. CASE Finally(r)
  <2>1. Restful
    BY <1>7, NoFaultAtAll, RestIsRestful DEF Finally, registry
  <2>2. Idles(req[r].o) /\ End(r, req[r].out) /\ UNCHANGED setup /\ UNCHANGED registry
    BY <1>7 DEF Finally, Idles
  <2>3. TypeOK /\ req[r].out \in Outcomes
    BY Parts
  <2>4. KeepsPorts
    BY ONLY <2>2, <2>3, ResetKeeps
  <2>5. MovesOff(r)
    BY ONLY <2>2, <2>3, r \in Requests, EndsOff
  <2> QED BY ONLY Typed, <2>1, <2>2, <2>4, <2>5, r \in Requests, PlainStep
<1>8. CASE SeeCancel(r)
  <2>1. Restful
    <3>1. marred' \subseteq Kernels
      BY <1>8, Parts DEF SeeCancel, TypeOK
    <3> QED BY <1>8, <3>1, NoFaultAtAll DEF SeeCancel, Restful, TypeOK, Box, registry
  <2> QED BY <1>0, <1>8, <2>1, MovesTyped DEF SeeCancel
<1> QED BY <1>1, <1>2, <1>3, <1>4, <1>5, <1>6, <1>7, <1>8

(* Code that ends or is interrupted moves other requests too, which are then    *)
(* answered: none of them is creating or starting.                            *)
LEMMA AnsweringFrame ==
  ASSUME Typed, UNCHANGED <<setup, registry, obj>>, Restful, loop' \in Requests \cup {None},
         req' \in [Requests -> Request],
         \A q \in Requests :
            \/ req'[q].at \notin {"baking", "commit", "build", "launch", "run", "mark"}
            \/ req'[q] = req[q]
  PROVE Typed'
<1> USE DEF Typed
<1>1. TypeOK'
  BY SameObjects, SameRegistry DEF TypeOK, Restful, Object, Box, Request
<1>2. Placed'
  BY DEF Placed, Executes, Op
<1> QED BY <1>1, <1>2

LEMMA CodeEndsTyped ==
  ASSUME Typed, NEW r \in Requests, CodeEnds(r)
  PROVE Typed'
<1> USE DEF Typed
<1>1. CellOver(r, "ok") /\ UNCHANGED <<setup, registry, obj, loop, cancel, faults, marred>>
  BY DEF CodeEnds
<1>2. Restful
  <2>1. box' \in [Kernels -> {None} \cup Box] /\ cell' \in [Requests -> Boxes \cup {None}]
    <3>1. box \in [Kernels -> {None} \cup Box] /\ cell \in [Requests -> Boxes \cup {None}]
      BY DEF TypeOK, Box
    <3>2. \A b \in Box : [b EXCEPT !.thread = None] \in Box
      BY DEF Box
    <3>3. /\ cell' = [cell EXCEPT ![r] = None]
          /\ box' = [k \in Kernels |-> IF box[k] # None /\ box[k].id = cell[r]
                                       THEN [box[k] EXCEPT !.thread = None] ELSE box[k]]
      BY <1>1 DEF CellOver
    <3>4. cell' \in [Requests -> Boxes \cup {None}]
      BY ONLY <3>1, <3>3
    <3>5. box' \in [Kernels -> {None} \cup Box]
      BY ONLY <3>1, <3>2, <3>3
    <3> QED BY <3>4, <3>5
  <2> QED BY <1>1, <2>1, NoFaultAtAll DEF Restful, TypeOK, registry
<1>3. [req[r] EXCEPT !.at = "answered", !.out = "ok"] \in Request
      /\ [req[r] EXCEPT !.at = "answered", !.out = "ok"].at = "answered"
  BY Parts DEF Request, Places, Awaiting, Outcomes
<1>4. req' = [req EXCEPT ![r] = IF req[r].at = "posted" THEN [req[r] EXCEPT !.at = "answered", !.out = "ok"]
                                ELSE req[r]]
  BY <1>1 DEF CellOver
<1>5. /\ req' \in [Requests -> Request]
      /\ \A q \in Requests : req'[q].at = "answered" \/ req'[q] = req[q]
  BY <1>3, <1>4, Parts DEF TypeOK, Request
<1>6. loop' \in Requests \cup {None}
  BY <1>1 DEF TypeOK
<1> QED BY <1>1, <1>2, <1>5, <1>6, AnsweringFrame

LEMMA SameUnlessAnswered ==
  ASSUME TypeOK, NEW hit, NEW q \in Requests
  PROVE Answered(hit)[q].at = "answered" \/ Answered(hit)[q] = req[q]
<1>1. CASE q \in hit /\ req[q].at = "posted"
  <2>1. Answered(hit)[q] = [req[q] EXCEPT !.at = "answered", !.out = "cancelled"]
    BY <1>1 DEF Answered
  <2> QED BY <2>1, Parts DEF Request
<1>2. CASE ~(q \in hit /\ req[q].at = "posted")
  BY <1>2 DEF Answered
<1> QED BY <1>1, <1>2

LEMMA CutTyped ==
  ASSUME Typed, NEW r \in Requests, Cut(r)
  PROVE /\ Typed'
        /\ req'[r].at \in {"done", "final"}
        /\ Op(r) # "interrupt" => req'[r].at = "final"
        /\ req'[r].o = req[r].o /\ req'[r].s = req[r].s
        /\ \A q \in Requests \ {r} : req'[q] = Answered(Hit(K(r)))[q]
<1> USE DEF Typed
<1> DEFINE hit == Hit(K(r))
           last == IF Op(r) = "interrupt" THEN "done" ELSE "final"
           mine == [Answered(hit)[r] EXCEPT !.at = last]
<1>1. /\ Interrupts(hit) /\ UNCHANGED <<setup, registry, obj, cancel, faults, marred>>
      /\ req' = [Answered(hit) EXCEPT ![r] = mine]
      /\ loop' \in {loop, None, r}
  BY DEF Cut
<1>2. Restful
  BY <1>1, InterruptsType, NoFaultAtAll DEF Restful, TypeOK, registry
<1>3. loop' \in Requests \cup {None}
  BY <1>1 DEF TypeOK
<1> HIDE DEF hit
<1>4. Answered(hit) \in [Requests -> Request] /\ Answered(hit)[r] \in Request
      /\ Answered(hit)[r].o = req[r].o /\ Answered(hit)[r].s = req[r].s
  BY AnsweredType
<1>5. mine \in Request /\ mine.at = last /\ mine.o = req[r].o /\ mine.s = req[r].s
  BY <1>4 DEF Request, Places, Awaiting, Holding
<1> HIDE DEF mine
<1>6. req' \in [Requests -> Request] /\ req'[r] = mine /\ \A q \in Requests \ {r} : req'[q] = Answered(hit)[q]
  BY <1>1, <1>4, <1>5
<1>7. \A q \in Requests : req'[q].at \in {"answered", "done", "final"} \/ req'[q] = req[q]
  BY <1>5, <1>6, SameUnlessAnswered
<1>8. Typed'
  BY <1>1, <1>2, <1>3, <1>6, <1>7, AnsweringFrame
<1> QED BY <1>5, <1>6, <1>8 DEF hit

LEMMA CancelTyped ==
  ASSUME Typed, NEW r \in Requests, Cancel(r) \/ CancelCuts(r)
  PROVE Typed'
<1> USE DEF Typed
<1>1. CASE Cancel(r)
  <2>1. cancel' \in [Requests -> {"none", "set", "done"}]
    BY <1>1 DEF Cancel, TypeOK
  <2>2. Restful
    BY <1>1, <2>1, NoFaultAtAll DEF Cancel, Restful, TypeOK, Box, registry
  <2> QED BY <1>1, <2>2, AnsweringFrame DEF Cancel, TypeOK, Request
<1>2. CASE CancelCuts(r)
  <2>1. cancel' \in [Requests -> {"none", "set", "done"}]
    BY <1>2 DEF CancelCuts, TypeOK
  <2>2. Restful
    BY <1>2, <2>1, NoFaultAtAll, InterruptsType DEF CancelCuts, Restful, TypeOK, registry
  <2>3. req' \in [Requests -> Request] /\ \A q \in Requests : req'[q].at = "answered" \/ req'[q] = req[q]
    BY <1>2, AnsweredType, SameUnlessAnswered DEF CancelCuts
  <2> QED BY <1>2, <2>2, <2>3, AnsweringFrame DEF CancelCuts, TypeOK
<1> QED BY <1>1, <1>2

LEMMA StopTyped ==
  ASSUME Typed, NEW r \in Requests, Halted(r) \/ Drop(r)
  PROVE Typed'
<1> USE DEF Typed
<1>0. "drop" \in Places /\ "ok" \in Outcomes
  BY DEF Places, Holding, Outcomes
<1>1. CASE Halted(r)
  <2>1. Restful
    BY <1>1, NoFaultAtAll, RestIsRestful DEF Halted, registry
  <2>2. Forgets(req[r].o) /\ (Goto(r, "drop") \/ End(r, "ok")) /\ UNCHANGED setup /\ UNCHANGED registry
    BY <1>1 DEF Halted, Forgets
  <2>3. TypeOK
    OBVIOUS
  <2>4. KeepsPorts
    BY ONLY <2>2, <2>3, ResetKeeps
  <2>5. MovesOff(r)
    BY ONLY <1>0, <2>2, <2>3, r \in Requests, GoesOff, EndsOff
  <2> QED BY ONLY Typed, <2>1, <2>2, <2>4, <2>5, r \in Requests, PlainStep
<1>2. CASE Drop(r)
  <2>1. reg' \in [Kernels -> Objects \cup {None}]
    BY <1>2 DEF Drop, TypeOK
  <2>2. Restful
    <3>1. K(r) \in Kernels /\ saved \ {K(r)} \in SUBSET Kernels
      BY Parts DEF TypeOK
    <3>2. saved' \subseteq Kernels /\ marred' \subseteq Kernels /\ faults' \in 0 .. setup'.faults
      BY <1>2, <3>1, StoreType DEF Drop
    <3> QED BY <1>2, <3>2 DEF Drop, Restful, TypeOK, Box
  <2> QED BY <1>0, <1>2, <2>1, <2>2, EndType, SameObjects, StepFrame DEF Drop
<1> QED BY <1>1, <1>2

LEMMA BoxEndsTyped ==
  ASSUME Typed, NEW k \in Kernels, BoxEnds(k)
  PROVE Typed'
<1> USE DEF Typed
<1>1. box \in [Kernels -> {None} \cup Box] /\ box[k] \in Box
  BY DEF TypeOK, Box, BoxEnds, Running
<1>2. \A st \in {"exited", "oom"} : [box[k] EXCEPT !.status = st, !.thread = None] \in Box
  BY <1>1 DEF Box
<1>3. box' \in [Kernels -> {None} \cup Box]
  BY <1>1, <1>2 DEF BoxEnds
<1>4. Restful
  BY <1>3, EmptyType, FaultType DEF BoxEnds, Restful, TypeOK, registry
<1> QED BY <1>4, AnsweringFrame DEF BoxEnds, TypeOK, Request

LEMMA RebootTyped ==
  ASSUME Typed, Reboot
  PROVE Typed'
<1> USE DEF Typed
<1>1. box \in [Kernels -> {None} \cup Box]
  BY DEF TypeOK, Box
<1>2. box' \in [Kernels -> {None} \cup Box]
  BY <1>1 DEF Reboot
<1>3. obj' \in [Objects -> Object]
  <2>1. Stopped \in Object
    BY DEF Stopped, Object, States
  <2>2. \A x \in Kernels : box[x] # None => Reclaimed(x, box[x]) \in Object
    BY <1>1 DEF Reclaimed, Object, States, Box
  <2>3. \A x \in Kernels : Running(x) => Reclaimed(x, box[x]) \in Object
    BY <2>2 DEF Running
  <2> QED BY <2>1, <2>3 DEF Reboot
<1>4. [Fresh EXCEPT !.at = "done", !.out = "failed"] \in Request
      /\ [Fresh EXCEPT !.at = "done", !.out = "failed"].at = "done"
  BY DEF Fresh, Request, Places, Awaiting, Outcomes
<1>5. /\ req' \in [Requests -> Request]
      /\ \A q \in Requests : req'[q].at \in {"new", "done"}
  <2>1. req' = [r \in Requests |-> IF Active(r) THEN [Fresh EXCEPT !.at = "done", !.out = "failed"] ELSE req[r]]
    BY DEF Reboot
  <2> QED BY <1>4, <2>1, Parts DEF Active
<1>6. /\ reg' \in [Kernels -> Objects \cup {None}] /\ saved' \subseteq Kernels
      /\ cell' \in [Requests -> Boxes \cup {None}] /\ loop' \in Requests \cup {None}
      /\ cancel' \in [Requests -> {"none", "set", "done"}] /\ marred' \subseteq Kernels
      /\ UNCHANGED setup
  BY DEF Reboot, TypeOK, Objects
<1>7. faults' \in 0 .. setup'.faults
  BY <1>6, FaultType DEF Reboot
<1>8. TypeOK'
  BY <1>2, <1>3, <1>5, <1>6, <1>7 DEF TypeOK, Object, Box, Request
<1>9. Placed'
  BY <1>5 DEF Placed, Executes, Op
<1> QED BY <1>8, <1>9

LEMMA InitTyped == Init => Typed
<1> SUFFICES ASSUME Init PROVE Typed
  OBVIOUS
<1>1. /\ setup \in Setups /\ setup.known \subseteq Kernels /\ setup.up \subseteq Kernels
      /\ setup.ports \subseteq Ports /\ setup.faults \in Nat
  BY KernelsAssumption DEF Init
<1>2. box \in [Kernels -> {None} \cup Box]
  <2>1. PICK port \in [Kernels -> setup.ports] :
          box = [k \in Kernels |-> IF k \in setup.up THEN BoxOf(k, k, port[k], "running") ELSE None]
    BY DEF Init
  <2>2. \A k \in Kernels : BoxOf(k, k, port[k], "running") \in Box
    BY <1>1 DEF BoxOf, Box, Boxes, Objects
  <2> QED BY <2>1, <2>2
<1>3. obj \in [Objects -> Object]
  <2>1. Stopped \in Object
    BY DEF Stopped, Object, States
  <2>2. \A b \in {None} \cup Box : \A k \in Kernels : Reclaimed(k, b) \in Object
    BY <2>1 DEF Reclaimed, Object, States, Box
  <2> QED BY <1>2, <2>1, <2>2 DEF Init
<1>4. Fresh \in Request /\ Fresh.at = "new"
  BY DEF Fresh, Request, Places, Awaiting, Outcomes
<1>5. req \in [Requests -> Request] /\ \A r \in Requests : req[r].at = "new"
  BY <1>4 DEF Init
<1>6. TypeOK
  BY <1>1, <1>2, <1>3, <1>5 DEF Init, TypeOK, Objects, Object, Box, Request
<1>7. Placed
  BY <1>5 DEF Placed, Executes, Op
<1> QED BY <1>6, <1>7 DEF Typed

LEMMA NextTyped == Typed /\ [Next]_vars => Typed'
<1> SUFFICES ASSUME Typed, [Next]_vars PROVE Typed'
  OBVIOUS
<1>1. CASE UNCHANGED vars
  BY <1>1 DEF vars, Typed, TypeOK, Placed, Executes, Op
<1>2. ASSUME NEW r \in Requests, Begin(r) \/ RequestStep(r) \/ CodeEnds(r) \/ Cancel(r) \/ CancelCuts(r)
      PROVE Typed'
  BY <1>2, BeginTyped, CreateTyped, RecycleTyped, PrepareTyped, LaunchTyped, StartTyped, ExecuteTyped,
     CodeEndsTyped, CutTyped, CancelTyped, StopTyped
  DEF RequestStep, StartStep, ExecuteStep
<1>3. ASSUME NEW k \in Kernels, BoxEnds(k) PROVE Typed'
  BY <1>3, BoxEndsTyped
<1>4. CASE Reboot
  BY <1>4, RebootTyped
<1> QED BY <1>1, <1>2, <1>3, <1>4 DEF Next

LEMMA AlwaysTyped == Spec => []Typed
BY InitTyped, NextTyped, PTL DEF Spec

(* Every variable keeps its type: no request is at a place, and no kernel in a  *)
(* state, that the manager does not know.                                     *)
THEOREM TypeCorrect == Spec => []TypeOK
<1>1. Typed => TypeOK
  BY DEF Typed
<1> QED BY <1>1, AlwaysTyped, PTL

-----------------------------------------------------------------------------
(* Busy kernels. *)

Of(k) == {k} \cup {r \in Requests : K(r) = k}

(* Objects are of one kernel, and so are the requests that hold them.          *)
Owned == /\ \A k \in Kernels : reg[k] # None => reg[k] \in Of(k)
         /\ \A r \in Requests : /\ req[r].o # None => req[r].o \in Of(K(r))
                                /\ req[r].s # None => req[r].s \in Of(K(r))

IInv == Typed /\ Owned /\ BusyHasWorker

LEMMA OfIsDisjoint ==
  ASSUME TypeOK, NEW j \in Kernels, NEW k \in Kernels, NEW x \in Of(j), x \in Of(k)
  PROVE j = k
BY KernelsAssumption, SetupType DEF Of

Busy == {"starting", "executing"}
Starts(r, x) == req[r].at \in Launching /\ req[r].s = x
Runs(r, x) == Executes(r) /\ req[r].at \in Marked /\ req[r].o = x

(* What a step of r owes a kernel: a registered object that becomes busy has the request of   *)
(* the step at work, and one that stays busy does not lose it.                 *)
Minds(r, k) ==
    LET x == reg[k]
        starts == req'[r].at \in Launching /\ req'[r].s = x
        runs == Executes(r) /\ req'[r].at \in Marked /\ req'[r].o = x
    IN /\ obj'[x].state = "starting" => starts \/ (obj[x].state = "starting" /\ ~Starts(r, x))
       /\ obj'[x].state = "executing" => runs \/ (obj[x].state = "executing" /\ ~Runs(r, x))

LEMMA BusyFrame ==
  ASSUME BusyHasWorker, UNCHANGED setup, NEW r \in Requests,
         \A q \in Requests \ {r} :
            /\ req'[q].o = req[q].o /\ req'[q].s = req[q].s
            /\ req[q].at \in Launching => req'[q].at \in Launching
            /\ req[q].at \in Marked => req'[q].at \in Marked,
         \A k \in Kernels : reg'[k] # None => reg'[k] = reg[k] \/ obj'[reg'[k]].state \notin Busy,
         \A k \in Kernels : reg'[k] # None /\ reg'[k] = reg[k] => Minds(r, k)
  PROVE BusyHasWorker'
<1> SUFFICES ASSUME NEW k \in Kernels, reg'[k] # None, obj'[reg'[k]].state \in Busy
             PROVE /\ obj'[reg'[k]].state = "starting" =>
                        \E q \in Requests : req'[q].at \in Launching /\ req'[q].s = reg'[k]
                   /\ obj'[reg'[k]].state = "executing" =>
                        \E q \in Requests : Executes(q)' /\ req'[q].at \in Marked /\ req'[q].o = reg'[k]
  BY DEF BusyHasWorker, Busy
<1>1. reg'[k] = reg[k]
  OBVIOUS
<1>2. \A q \in Requests : Executes(q)' <=> Executes(q)
  BY DEF Executes, Op
<1>3. ASSUME obj'[reg[k]].state = "starting"
      PROVE \E q \in Requests : req'[q].at \in Launching /\ req'[q].s = reg[k]
  <2>1. CASE req'[r].at \in Launching /\ req'[r].s = reg[k]
    BY <2>1
  <2>2. CASE obj[reg[k]].state = "starting" /\ ~Starts(r, reg[k])
    <3>1. PICK q \in Requests : req[q].at \in Launching /\ req[q].s = reg[k]
      BY <1>1, <2>2 DEF BusyHasWorker
    <3> QED BY <2>2, <3>1 DEF Starts
  <2> QED BY <1>1, <1>3, <2>1, <2>2 DEF Minds
<1>4. ASSUME obj'[reg[k]].state = "executing"
      PROVE \E q \in Requests : Executes(q)' /\ req'[q].at \in Marked /\ req'[q].o = reg[k]
  <2>1. CASE Executes(r) /\ req'[r].at \in Marked /\ req'[r].o = reg[k]
    BY <1>2, <2>1
  <2>2. CASE obj[reg[k]].state = "executing" /\ ~Runs(r, reg[k])
    <3>1. PICK q \in Requests : Executes(q) /\ req[q].at \in Marked /\ req[q].o = reg[k]
      BY <1>1, <2>2 DEF BusyHasWorker
    <3> QED BY <1>2, <2>2, <3>1 DEF Runs
  <2> QED BY <1>1, <1>4, <2>1, <2>2 DEF Minds
<1> QED BY <1>1, <1>3, <1>4

(* The frame of a step of one request that leaves the registry alone. *)
LEMMA MoveFrame ==
  ASSUME IInv, UNCHANGED <<setup, registry>>, NEW r \in Requests,
         \A q \in Requests \ {r} : req'[q] = req[q],
         req'[r].o = None \/ req'[r].o \in Of(K(r)),
         req'[r].s = None \/ req'[r].s \in Of(K(r)),
         \A k \in Kernels : reg[k] # None => Minds(r, k)
  PROVE Owned' /\ BusyHasWorker'
<1>1. BusyHasWorker'
  BY BusyFrame DEF IInv, registry
<1>2. Owned'
  BY DEF IInv, Owned, registry, Of, K
<1> QED BY <1>1, <1>2

(* What a request holds. *)
LEMMA Holds ==
  ASSUME IInv, NEW r \in Requests
  PROVE /\ req[r].o = None \/ req[r].o \in Of(K(r))
        /\ req[r].s = None \/ req[r].s \in Of(K(r))
BY DEF IInv, Owned

(* A step of a request that is neither launching nor executing, and makes no    *)
(* object busy.                                                               *)
LEMMA IdleStep ==
  ASSUME IInv, UNCHANGED <<setup, registry>>, NEW r \in Requests,
         \A q \in Requests \ {r} : req'[q] = req[q],
         req'[r].o = req[r].o, req'[r].s = req[r].s,
         req[r].at \notin Launching, ~(Executes(r) /\ req[r].at \in Marked),
         \A x \in Objects : obj'[x].state \in Busy => obj'[x].state = obj[x].state
  PROVE Owned' /\ BusyHasWorker'
<1>1. \A k \in Kernels : reg[k] # None => reg[k] \in Objects
  BY DEF IInv, Typed, TypeOK
<1>2. \A k \in Kernels : reg[k] # None => Minds(r, k)
  BY <1>1 DEF Minds, Busy, Starts, Runs
<1> QED BY <1>2, Holds, MoveFrame

LEMMA BeginBusy ==
  ASSUME IInv, NEW r \in Requests, Begin(r)
  PROVE Owned' /\ BusyHasWorker'
<1>0. TypeOK /\ req[r].at = "new" /\ UNCHANGED <<setup, registry, obj>>
  BY DEF IInv, Typed, Begin, At
<1>1. CASE End(r, "failed")
  <2>1. "failed" \in Outcomes
    BY DEF Outcomes
  <2> QED BY <1>0, <1>1, <2>1, EndType, IdleStep DEF Launching, Marked
<1>2. ASSUME NEW p \in Ports,
             Move(r, [req[r] EXCEPT !.at = IF K(r) \in setup.packaged THEN "baking" ELSE "commit", !.port = p])
      PROVE Owned' /\ BusyHasWorker'
  <2> DEFINE new == [req[r] EXCEPT !.at = IF K(r) \in setup.packaged THEN "baking" ELSE "commit", !.port = p]
  <2>1. new \in Request /\ new.o = req[r].o /\ new.s = req[r].s
    BY <1>0, Parts, ZenonT(30) DEF Request, Places, Awaiting, Holding
  <2>2. Move(r, new)
    BY <1>2
  <2> HIDE DEF new
  <2> QED BY <1>0, <2>1, <2>2, MoveType, IdleStep DEF Launching, Marked
<1>3. CASE Op(r) # "create" /\ reg[K(r)] # None /\ Move(r, [req[r] EXCEPT !.at = FirstPlace(r), !.o = reg[K(r)]])
  <2> DEFINE new == [req[r] EXCEPT !.at = FirstPlace(r), !.o = reg[K(r)]]
  <2>0. K(r) \in Kernels /\ reg[K(r)] \in Objects /\ reg[K(r)] \in Of(K(r))
    BY <1>0, <1>3, Parts DEF TypeOK, IInv, Owned
  <2>1. new \in Request /\ new.o = reg[K(r)] /\ new.s = req[r].s
    BY <1>0, <1>3, <2>0, Parts, FirstPlaceType DEF Request, Places, Holding, Awaiting
  <2>2. Move(r, new)
    BY <1>3
  <2> HIDE DEF new
  <2>3. req'[r] = new /\ \A q \in Requests \ {r} : req'[q] = req[q]
    BY <1>0, <2>1, <2>2, MoveType
  <2>9. \A k \in Kernels : reg[k] # None => Minds(r, k)
    BY <1>0, <2>0, <2>1, <2>3 DEF Minds, Launching, Marked, Starts, Runs
  <2> QED BY <1>0, <2>0, <2>1, <2>3, <2>9, Holds, MoveFrame
<1> QED BY <1>1, <1>2, <1>3 DEF Begin

LEMMA CreateBusy ==
  ASSUME IInv, NEW r \in Requests, BakeFails(r) \/ Commit(r)
  PROVE Owned' /\ BusyHasWorker'
<1>0. /\ TypeOK /\ req[r].at \in {"baking", "commit"}
      /\ UNCHANGED setup
      /\ End(r, "failed") \/ End(r, "ok")
      /\ "failed" \in Outcomes /\ "ok" \in Outcomes
  BY DEF IInv, Typed, BakeFails, Commit, At, Outcomes
<1>1. req'[r].o = req[r].o /\ req'[r].s = req[r].s /\ \A q \in Requests \ {r} : req'[q] = req[q]
  BY <1>0, EndType
<1>2. CASE UNCHANGED <<registry, obj>>
  BY <1>0, <1>1, <1>2, IdleStep DEF Launching, Marked
<1>3. CASE /\ reg[K(r)] = None
           /\ obj' = [obj EXCEPT ![r] = [Stopped EXCEPT !.port = req[r].port]]
           /\ reg' = [reg EXCEPT ![K(r)] = r]
  <2>0. K(r) \in Kernels /\ r \in Objects /\ r # None
    BY <1>0, Parts, KernelsAssumption DEF Objects
  <2>1. reg'[K(r)] = r /\ \A k \in Kernels \ {K(r)} : reg'[k] = reg[k]
    BY <1>0, <1>3, <2>0 DEF TypeOK
  <2>2. [Stopped EXCEPT !.port = req[r].port].state = "stopped"
    BY DEF Stopped
  <2>3. obj'[r].state = "stopped" /\ \A x \in Objects \ {r} : obj'[x] = obj[x]
    BY <1>0, <1>3, <2>0, <2>2 DEF TypeOK
  <2>4. \A k \in Kernels : reg[k] # None => reg[k] \in Objects
    BY <1>0 DEF TypeOK
  <2>5. BusyHasWorker'
    <3>1. \A k \in Kernels : reg'[k] # None /\ reg'[k] = reg[k] => Minds(r, k)
      BY <1>0, <2>3, <2>4 DEF Minds, Starts, Runs, Launching, Marked
    <3> QED BY <1>0, <1>1, <2>1, <2>3, <3>1, BusyFrame DEF IInv, Busy
  <2>6. r \in Of(K(r))
    BY DEF Of
  <2>7. Owned'
    BY <1>0, <1>1, <2>1, <2>6 DEF IInv, Owned, Of, K
  <2> QED BY <2>5, <2>7
<1> QED BY <1>2, <1>3 DEF BakeFails, Commit

LEMMA CleaningBusy ==
  ASSUME IInv, NEW r \in Requests, Recycle(r) \/ Tidy(r) \/ Halt(r) \/ Forget(r)
  PROVE Owned' /\ BusyHasWorker'
<1>0. /\ TypeOK /\ req[r].at \in {"recycle", "tidy", "halt", "forget"}
      /\ UNCHANGED <<setup, registry>>
      /\ obj' = obj \/ SetId(req[r].o, None)
      /\ Goto(r, "forget") \/ Goto(r, "halted") \/ Goto(r, "prepare") \/ End(r, "failed")
      /\ "failed" \in Outcomes /\ {"forget", "halted", "prepare"} \subseteq Places
  BY DEF IInv, Typed, Recycle, Tidy, Halt, Forget, At, Outcomes, Places, Holding
<1>1. req'[r].o = req[r].o /\ req'[r].s = req[r].s /\ \A q \in Requests \ {r} : req'[q] = req[q]
  BY <1>0, GotoType, EndType
<1>2. \A x \in Objects : obj'[x].state = obj[x].state
  BY <1>0, SetIdType
<1> QED BY <1>0, <1>1, <1>2, IdleStep DEF Launching, Marked

LEMMA PrepareBusy ==
  ASSUME IInv, NEW r \in Requests, Prepare(r)
  PROVE Owned' /\ BusyHasWorker'
<1>0. /\ TypeOK /\ req[r].at = "prepare" /\ UNCHANGED <<setup, registry>>
      /\ "failed" \in Outcomes /\ "error" \in States
  BY DEF IInv, Typed, Prepare, At, Outcomes, States
<1>1. CASE End(r, "failed") /\ UNCHANGED obj
  BY <1>0, <1>1, EndType, IdleStep DEF Launching, Marked
<1>2. CASE Started(r) /\ UNCHANGED obj
  BY <1>0, <1>2, StartedType, IdleStep DEF Launching, Marked
<1>3. CASE End(r, "failed") /\ SetState(reg[K(r)], "error")
  BY <1>0, <1>3, EndType, SetStateType, IdleStep DEF Launching, Marked, Busy
<1>4. CASE /\ reg[K(r)] # None
           /\ Move(r, [req[r] EXCEPT !.s = reg[K(r)], !.at = IF K(r) \in setup.packaged THEN "build" ELSE "launch"])
           /\ UNCHANGED obj
  <2> DEFINE new == [req[r] EXCEPT !.s = reg[K(r)], !.at = IF K(r) \in setup.packaged THEN "build" ELSE "launch"]
  <2>0. K(r) \in Kernels /\ reg[K(r)] \in Objects /\ reg[K(r)] \in Of(K(r))
    BY <1>0, <1>4, Parts DEF TypeOK, IInv, Owned
  <2>1. new \in Request /\ new.s = reg[K(r)] /\ new.o = req[r].o
    BY <1>0, <2>0, Parts DEF Request, Places, Holding, Awaiting
  <2>2. Move(r, new)
    BY <1>4
  <2> HIDE DEF new
  <2>3. req'[r] = new /\ \A q \in Requests \ {r} : req'[q] = req[q]
    BY <1>0, <2>1, <2>2, MoveType
  <2>9. \A k \in Kernels : reg[k] # None => Minds(r, k)
    BY <1>0, <1>4, <2>0, <2>1, <2>3 DEF Minds, Launching, Marked, Starts, Runs
  <2> QED BY <1>0, <1>4, <2>0, <2>1, <2>3, <2>9, Holds, MoveFrame
<1> QED BY <1>1, <1>2, <1>3, <1>4 DEF Prepare

LEMMA LaunchBusy ==
  ASSUME IInv, NEW r \in Requests, Launch(r) \/ BuildFails(r)
  PROVE Owned' /\ BusyHasWorker'
<1>0. /\ TypeOK /\ req[r].at \in {"build", "launch"} /\ UNCHANGED <<setup, registry>>
      /\ "failed" \in Outcomes /\ "error" \in States /\ "run" \in Places
      /\ req[r].s \in Objects
  BY DEF IInv, Typed, Placed, Launch, BuildFails, At, Outcomes, States, Places, Holding
<1>1. CASE End(r, "failed") /\ (UNCHANGED obj \/ SetState(req[r].s, "error"))
  BY <1>0, <1>1, EndType, SetStateType, IdleStep DEF Launching, Marked, Busy
<1>2. ASSUME NEW p \in Ports, Goto(r, "run"),
             obj' = [obj EXCEPT ![req[r].s] = [@ EXCEPT !.state = "starting", !.port = p]]
      PROVE Owned' /\ BusyHasWorker'
  <2>1. \A x \in Objects : x # req[r].s => obj'[x] = obj[x]
    BY <1>0, <1>2 DEF TypeOK
  <2>2. obj'[req[r].s].state = "starting"
    <3>1. obj'[req[r].s] = [obj[req[r].s] EXCEPT !.state = "starting", !.port = p] /\ obj[req[r].s] \in Object
      BY <1>0, <1>2 DEF TypeOK, Object
    <3> QED BY <3>1 DEF Object
  <2>3. /\ req'[r].at = "run" /\ req'[r].s = req[r].s /\ req'[r].o = req[r].o
        /\ \A q \in Requests \ {r} : req'[q] = req[q]
    BY <1>0, <1>2, GotoType
  <2>4. \A k \in Kernels : reg[k] # None => reg[k] \in Objects
    BY <1>0 DEF TypeOK
  <2>9. \A k \in Kernels : reg[k] # None => Minds(r, k)
    BY <1>0, <2>1, <2>2, <2>3, <2>4 DEF Minds, Launching, Marked, Starts, Runs
  <2> QED BY <1>0, <2>1, <2>2, <2>3, <2>4, <2>9, Holds, MoveFrame
<1> QED BY <1>1, <1>2 DEF Launch, BuildFails

LEMMA StartBusy ==
  ASSUME IInv, NEW r \in Requests,
         RunBox(r) \/ Record(r) \/ Healthy(r) \/ Unhealthy(r) \/ Ready(r) \/ Failed(r)
  PROVE Owned' /\ BusyHasWorker'
<1>0. /\ TypeOK /\ UNCHANGED <<setup, registry>>
      /\ {"record", "failed", "health", "ready", "awake", "tidy"} \subseteq Places
      /\ "failed" \in Outcomes /\ {"error", "idle"} \subseteq States
      /\ r \in Boxes \cup {None}
      /\ \A k \in Kernels : reg[k] # None => reg[k] \in Objects
  BY DEF IInv, Typed, TypeOK, RunBox, Record, Healthy, Unhealthy, Ready, Failed, Outcomes, States,
         Places, Awaiting, Holding, Boxes, Objects
<1>1. CASE RunBox(r)
  <2>1. /\ req[r].at = "run" /\ UNCHANGED obj
        /\ Goto(r, "record") \/ Goto(r, "failed")
    BY <1>1 DEF RunBox, At
  <2>2. /\ req'[r].at \in {"record", "failed"} /\ req'[r].s = req[r].s /\ req'[r].o = req[r].o
        /\ \A q \in Requests \ {r} : req'[q] = req[q]
    BY <1>0, <2>1, GotoType
  <2>9. \A k \in Kernels : reg[k] # None => Minds(r, k)
    BY <1>0, <2>1, <2>2 DEF Minds, Launching, Marked, Starts, Runs
  <2> QED BY <1>0, <2>1, <2>2, <2>9, Holds, MoveFrame
<1>2. CASE Record(r)
  <2>1. /\ req[r].at = "record"
        /\ \A x \in Objects : obj'[x].state = obj[x].state
    BY <1>0, <1>2, SetIdType DEF Record, At
  <2>2. CASE reg[K(r)] = None /\ End(r, "failed")
    <3>1. /\ req'[r].at = "done" /\ req'[r].s = req[r].s /\ req'[r].o = req[r].o
          /\ \A q \in Requests \ {r} : req'[q] = req[q]
      BY <1>0, <2>2, EndType
    <3>2. \A k \in Kernels : reg[k] # None => reg[k] # req[r].s
      <4>1. SUFFICES ASSUME NEW k \in Kernels, reg[k] # None, reg[k] = req[r].s
                     PROVE FALSE
        OBVIOUS
      <4>2. reg[k] \in Of(k) /\ reg[k] \in Of(K(r)) /\ K(r) \in Kernels
        BY <1>0, <4>1, Holds, Parts DEF IInv, Owned
      <4>3. k = K(r)
        BY <1>0, <4>2, OfIsDisjoint
      <4> QED BY <2>2, <4>1, <4>3
    <3>9. \A k \in Kernels : reg[k] # None => Minds(r, k)
      BY <1>0, <2>1, <3>1, <3>2 DEF Minds, Launching, Marked, Starts, Runs
    <3> QED BY <1>0, <2>1, <3>1, <3>2, <3>9, Holds, MoveFrame
  <2>3. CASE Goto(r, "health")
    <3>1. /\ req'[r].at = "health" /\ req'[r].s = req[r].s /\ req'[r].o = req[r].o
          /\ \A q \in Requests \ {r} : req'[q] = req[q]
      BY <1>0, <2>3, GotoType
    <3>9. \A k \in Kernels : reg[k] # None => Minds(r, k)
      BY <1>0, <2>1, <3>1 DEF Minds, Launching, Marked, Starts, Runs
    <3> QED BY <1>0, <2>1, <3>1, <3>9, Holds, MoveFrame
  <2> QED BY <1>2, <2>2, <2>3 DEF Record
<1>3. CASE Healthy(r) \/ Unhealthy(r)
  <2>1. /\ UNCHANGED obj /\ req[r].at \in {"health", "await"}
        /\ \/ req[r].at = "health" /\ (Goto(r, "ready") \/ Goto(r, "failed"))
           \/ req[r].at = "await" /\ (Goto(r, "awake") \/ End(r, "failed"))
    BY <1>3 DEF Healthy, Unhealthy, At
  <2>2. /\ req[r].at = "health" => req'[r].at \in {"ready", "failed"}
        /\ req'[r].s = req[r].s /\ req'[r].o = req[r].o
        /\ \A q \in Requests \ {r} : req'[q] = req[q]
    BY <1>0, <2>1, GotoType, EndType
  <2>9. \A k \in Kernels : reg[k] # None => Minds(r, k)
    BY <1>0, <2>1, <2>2 DEF Minds, Launching, Marked, Starts, Runs
  <2> QED BY <1>0, <2>1, <2>2, <2>9, Holds, MoveFrame
<1>4. CASE Ready(r) \/ Failed(r)
  <2> DEFINE x == IF req[r].at = "awake" THEN req[r].o ELSE req[r].s
  <2>1. /\ req[r].at \in {"ready", "awake", "failed"}
        /\ SetState(x, "idle") \/ SetState(x, "error")
        /\ Started(r) \/ Goto(r, "tidy")
    BY <1>4 DEF Ready, Failed, At
  <2>2. /\ req'[r].s = req[r].s /\ req'[r].o = req[r].o
        /\ \A q \in Requests \ {r} : req'[q] = req[q]
    BY <1>0, <2>1, GotoType, StartedType
  <2>3. \A y \in Objects : IF y = x THEN obj'[y].state \notin Busy ELSE obj'[y] = obj[y]
    BY <1>0, <2>1, SetStateType DEF Busy
  <2>4. \A y : (Starts(r, y) => y = x) /\ ~Runs(r, y)
    BY <2>1 DEF Starts, Runs, Launching, Marked
  <2> HIDE DEF x
  <2>9. \A k \in Kernels : reg[k] # None => Minds(r, k)
    BY <1>0, <2>2, <2>3, <2>4 DEF Minds, Busy
  <2> QED BY <1>0, <2>2, <2>3, <2>4, <2>9, Holds, MoveFrame
<1> QED BY <1>1, <1>2, <1>3, <1>4

LEMMA ExecuteBusy ==
  ASSUME IInv, NEW r \in Requests,
         Mark(r) \/ Post(r) \/ Lose(r) \/ TimeOut(r) \/ Broken(r) \/ SeeCancel(r)
         \/ Oom(r) \/ Down(r) \/ Finally(r)
  PROVE Owned' /\ BusyHasWorker'
<1>0. /\ TypeOK /\ UNCHANGED <<setup, registry>>
      /\ {"post", "posted", "broken", "cut", "final", "oom", "down"} \subseteq Places
      /\ {"timeout", "failed", "cancelled", "oom", "down", req[r].out} \subseteq Outcomes
      /\ {"error", "executing"} \subseteq States
      /\ \A k \in Kernels : reg[k] # None => reg[k] \in Objects
  BY Parts DEF IInv, Typed, TypeOK, Mark, Post, Lose, TimeOut, Broken, SeeCancel, Oom, Down, Finally,
         Outcomes, States, Places, Awaiting, Holding
<1>1. CASE Mark(r)
  <2>1. req[r].at = "mark" /\ SetState(req[r].o, "executing") /\ Goto(r, "post")
    BY <1>1 DEF Mark, At
  <2>2. Executes(r)
    BY <2>1 DEF IInv, Typed, Placed
  <2>3. /\ req'[r].at = "post" /\ req'[r].s = req[r].s /\ req'[r].o = req[r].o
        /\ \A q \in Requests \ {r} : req'[q] = req[q]
    BY <1>0, <2>1, GotoType
  <2>4. \A x \in Objects : IF x = req[r].o THEN obj'[x].state = "executing" ELSE obj'[x] = obj[x]
    BY <1>0, <2>1, SetStateType
  <2>9. \A k \in Kernels : reg[k] # None => Minds(r, k)
    BY <1>0, <2>1, <2>2, <2>3, <2>4 DEF Minds, Launching, Marked, Starts, Runs, Executes, Op
  <2> QED BY <1>0, <2>1, <2>2, <2>3, <2>4, <2>9, Holds, MoveFrame
<1>2. CASE Post(r) \/ Lose(r) \/ TimeOut(r) \/ Broken(r) \/ SeeCancel(r)
  <2>1. /\ req[r].at \in Marked /\ req[r].at \notin Launching /\ UNCHANGED obj
        /\ \E p \in Marked \cap Places, out \in Outcomes :
              Goto(r, p) \/ Move(r, [req[r] EXCEPT !.at = p, !.out = out])
    BY <1>0, <1>2 DEF Post, Lose, TimeOut, Broken, SeeCancel, At, Marked, Launching
  <2>2. /\ req'[r].at \in Marked /\ req'[r].s = req[r].s /\ req'[r].o = req[r].o
        /\ \A q \in Requests \ {r} : req'[q] = req[q]
    <3>1. PICK p \in Marked \cap Places, out \in Outcomes :
             Goto(r, p) \/ Move(r, [req[r] EXCEPT !.at = p, !.out = out])
      BY <2>1
    <3>2. CASE Goto(r, p)
      BY <1>0, <3>1, <3>2, GotoType
    <3>3. CASE Move(r, [req[r] EXCEPT !.at = p, !.out = out])
      BY <1>0, <3>1, <3>3, LeaveType
    <3> QED BY <3>1, <3>2, <3>3
  <2>9. \A k \in Kernels : reg[k] # None => Minds(r, k)
    BY <1>0, <2>1, <2>2 DEF Minds, Starts, Runs, Executes, Op
  <2> QED BY <1>0, <2>1, <2>2, <2>9, Holds, MoveFrame
<1>3. CASE Oom(r) \/ Down(r) \/ Finally(r)
  <2>1. /\ req[r].at \in {"oom", "down", "answered", "final"}
        /\ Move(r, [req[r] EXCEPT !.at = "final", !.out = "oom"])
           \/ Move(r, [req[r] EXCEPT !.at = "final", !.out = "down"]) \/ End(r, req[r].out)
    BY <1>3 DEF Oom, Down, Finally, At
  <2>2. /\ req'[r].s = req[r].s /\ req'[r].o = req[r].o
        /\ \A q \in Requests \ {r} : req'[q] = req[q]
    BY <1>0, <2>1, LeaveType, EndType
  <2>3. \A x \in Objects : /\ x # req[r].o => obj'[x] = obj[x]
                           /\ x = req[r].o => obj'[x].state # "executing"
                           /\ obj'[x].state = "starting" => obj[x].state = "starting"
    <3>1. CASE Oom(r)
      <4>1. SetState(req[r].o, "error")
        BY <3>1 DEF Oom
      <4>2. TypeOK /\ "error" \in States
        BY <1>0
      <4> QED BY ONLY <4>1, <4>2, SetStateType
    <3>2. CASE Down(r) \/ Finally(r)
      <4>1. Forgets(req[r].o) \/ Idles(req[r].o)
        BY <3>2 DEF Down, Finally, Forgets, Idles
      <4>2. TypeOK
        BY <1>0
      <4> QED BY ONLY <4>1, <4>2, ResetSpares
    <3> QED BY <1>3, <3>1, <3>2
  <2>9. \A k \in Kernels : reg[k] # None => Minds(r, k)
    BY <1>0, <2>1, <2>2, <2>3 DEF Minds, Launching, Starts, Runs
  <2> QED BY <1>0, <2>1, <2>2, <2>3, <2>9, Holds, MoveFrame
<1> QED BY <1>1, <1>2, <1>3

(* Steps that answer requests and leave registry and objects alone. *)
LEMMA AnsweringBusy ==
  ASSUME IInv, UNCHANGED <<setup, registry, obj>>, NEW r \in Requests,
         \A q \in Requests :
            /\ req'[q].o = req[q].o /\ req'[q].s = req[q].s
            /\ req[q].at \in Launching => req'[q].at \in Launching
            /\ Executes(q) \/ q # r => (req[q].at \in Marked => req'[q].at \in Marked)
  PROVE Owned' /\ BusyHasWorker'
<1>1. \A k \in Kernels : reg[k] # None => Minds(r, k)
  BY DEF Minds, Starts, Runs
<1>2. BusyHasWorker'
  BY <1>1, BusyFrame DEF IInv, registry
<1>3. Owned'
  BY DEF IInv, Owned, registry, Of, K
<1> QED BY <1>2, <1>3

LEMMA InterruptBusy ==
  ASSUME IInv, NEW r \in Requests, CodeEnds(r) \/ Cancel(r) \/ CancelCuts(r) \/ Cut(r)
  PROVE Owned' /\ BusyHasWorker'
<1>0. Typed /\ TypeOK /\ UNCHANGED <<setup, registry, obj>>
  BY DEF IInv, Typed, CodeEnds, Cancel, CancelCuts, Cut
<1>1. CASE CodeEnds(r)
  <2>1. req' = [req EXCEPT ![r] = IF req[r].at = "posted" THEN [req[r] EXCEPT !.at = "answered", !.out = "ok"]
                                  ELSE req[r]]
    BY <1>1 DEF CodeEnds, CellOver
  <2>2. LET new == [req[r] EXCEPT !.at = "answered", !.out = "ok"] IN
        new.at = "answered" /\ new.o = req[r].o /\ new.s = req[r].s
    BY <1>0, Parts DEF Request
  <2>3. \A q \in Requests :
          /\ req'[q].o = req[q].o /\ req'[q].s = req[q].s
          /\ \/ req'[q].at = req[q].at
             \/ req[q].at = "posted" /\ req'[q].at = "answered"
    BY <1>0, <2>1, <2>2 DEF TypeOK
  <2> QED BY <1>0, <2>3, AnsweringBusy DEF Launching, Marked
<1>2. CASE Cancel(r)
  BY <1>0, <1>2, AnsweringBusy DEF Cancel
<1>3. CASE CancelCuts(r)
  <2>1. req' = Answered(Hit(K(r)))
    BY <1>3 DEF CancelCuts
  <2> QED BY <1>0, <2>1, AnsweredType, AnsweredPlaces, AnsweringBusy
<1>4. CASE Cut(r)
  <2>1. /\ req[r].at = "cut" /\ req'[r].at \in {"done", "final"}
        /\ Op(r) # "interrupt" => req'[r].at = "final"
        /\ req'[r].o = req[r].o /\ req'[r].s = req[r].s
        /\ \A q \in Requests \ {r} : req'[q] = Answered(Hit(K(r)))[q]
    BY <1>0, <1>4, CutTyped DEF Cut, At
  <2>2. \A q \in Requests \ {r} :
          /\ req'[q].o = req[q].o /\ req'[q].s = req[q].s
          /\ req[q].at \in Launching => req'[q].at \in Launching
          /\ req[q].at \in Marked => req'[q].at \in Marked
    BY <1>0, <2>1, AnsweredType, AnsweredPlaces
  <2>3. /\ req[r].at \notin Launching
        /\ Executes(r) => req'[r].at \in Marked
    BY <2>1 DEF Launching, Marked, Executes
  <2> QED BY <1>0, <2>1, <2>2, <2>3, AnsweringBusy
<1> QED BY <1>1, <1>2, <1>3, <1>4

LEMMA StopBusy ==
  ASSUME IInv, NEW r \in Requests, Halted(r) \/ Drop(r)
  PROVE Owned' /\ BusyHasWorker'
<1>0. TypeOK /\ UNCHANGED setup /\ "drop" \in Places /\ "ok" \in Outcomes
  BY DEF IInv, Typed, Halted, Drop, Places, Holding, Outcomes
<1>1. CASE Halted(r)
  <2>1. /\ req[r].at = "halted" /\ UNCHANGED registry
        /\ Goto(r, "drop") \/ End(r, "ok")
    BY <1>1 DEF Halted, At
  <2>2. /\ req'[r].s = req[r].s /\ req'[r].o = req[r].o
        /\ \A q \in Requests \ {r} : req'[q] = req[q]
    BY <1>0, <2>1, GotoType, EndType
  <2>3. \A x \in Objects : obj'[x].state \in Busy => obj'[x].state = obj[x].state
    BY <1>0, <1>1, ResetType DEF Halted, Busy
  <2> QED BY <1>0, <2>1, <2>2, <2>3, IdleStep DEF Launching, Marked
<1>2. CASE Drop(r)
  <2>1. /\ req[r].at = "drop" /\ UNCHANGED obj /\ End(r, "ok")
        /\ reg' = [reg EXCEPT ![K(r)] = None]
    BY <1>2 DEF Drop, At
  <2>2. /\ req'[r].s = req[r].s /\ req'[r].o = req[r].o
        /\ \A q \in Requests \ {r} : req'[q] = req[q]
    BY <1>0, <2>1, EndType
  <2>3. \A k \in Kernels : reg'[k] = None \/ reg'[k] = reg[k]
    BY <1>0, <2>1 DEF TypeOK
  <2>4. \A k \in Kernels : Minds(r, k)
    BY <2>1 DEF Minds, Starts, Runs, Launching, Marked
  <2>5. BusyHasWorker'
    BY <1>0, <2>2, <2>3, <2>4, BusyFrame DEF IInv
  <2>6. Owned'
    BY <1>0, <2>2, <2>3 DEF IInv, Owned, Of, K
  <2> QED BY <2>5, <2>6
<1> QED BY <1>1, <1>2

LEMMA RebootBusy ==
  ASSUME IInv, Reboot
  PROVE Owned' /\ BusyHasWorker'
<1>0. TypeOK /\ UNCHANGED setup
  BY DEF IInv, Typed, Reboot
<1>1. \A k \in Kernels : reg'[k] = None \/ reg'[k] = k
  BY DEF Reboot
<1>2. \A x \in Objects : obj'[x].state \in {"stopped", "idle"}
  BY DEF Reboot, Reclaimed, Stopped
<1>3. \A k \in Kernels : k \in Objects
  BY DEF Objects
<1>4. BusyHasWorker'
  BY <1>1, <1>2, <1>3 DEF BusyHasWorker
<1>5. LET new == [Fresh EXCEPT !.at = "done", !.out = "failed"] IN new.o = None /\ new.s = None
  BY DEF Fresh
<1>6. \A r \in Requests : req'[r] = req[r] \/ (req'[r].o = None /\ req'[r].s = None)
  BY <1>5 DEF Reboot
<1>7. Owned'
  BY <1>0, <1>1, <1>6 DEF IInv, Owned, Of, K
<1> QED BY <1>4, <1>7

LEMMA InitBusy == Init => IInv
<1> SUFFICES ASSUME Init PROVE IInv
  OBVIOUS
<1>1. \A k \in Kernels : reg[k] = None \/ reg[k] = k
  BY DEF Init
<1>2. \A k \in Kernels : obj[k].state \in {"stopped", "idle"}
  BY DEF Init, Objects, Reclaimed, Stopped
<1>3. BusyHasWorker
  BY <1>1, <1>2 DEF BusyHasWorker
<1>4. \A r \in Requests : req[r].o = None /\ req[r].s = None
  BY DEF Init, Fresh
<1>5. Owned
  BY <1>1, <1>4 DEF Owned, Of
<1> QED BY <1>3, <1>5, InitTyped DEF IInv

LEMMA NextBusy == IInv /\ [Next]_vars => IInv'
<1> SUFFICES ASSUME IInv, [Next]_vars PROVE IInv'
  OBVIOUS
<1>0. Typed'
  BY NextTyped DEF IInv
<1>1. CASE UNCHANGED vars
  <2>1. Owned' /\ BusyHasWorker'
    BY <1>1 DEF vars, IInv, Owned, Of, K, BusyHasWorker, Executes, Op
  <2> QED BY <1>0, <2>1 DEF IInv
<1>2. ASSUME NEW r \in Requests, Begin(r) \/ RequestStep(r) \/ CodeEnds(r) \/ Cancel(r) \/ CancelCuts(r)
      PROVE Owned' /\ BusyHasWorker'
  BY <1>2, BeginBusy, CreateBusy, CleaningBusy, PrepareBusy, LaunchBusy, StartBusy, ExecuteBusy,
     InterruptBusy, StopBusy
  DEF RequestStep, StartStep, ExecuteStep
<1>3. ASSUME NEW k \in Kernels, BoxEnds(k) PROVE Owned' /\ BusyHasWorker'
  <2>1. UNCHANGED <<setup, reg, obj, req>>
    BY <1>3 DEF BoxEnds, registry
  <2>2. Owned'
    BY <2>1 DEF IInv, Owned, Of, K
  <2>3. BusyHasWorker'
    BY <2>1 DEF IInv, BusyHasWorker, Executes, Op
  <2> QED BY <2>2, <2>3
<1>4. CASE Reboot
  BY <1>0, <1>4, RebootBusy DEF IInv
<1> QED BY <1>0, <1>1, <1>2, <1>3, <1>4 DEF Next, IInv

LEMMA AlwaysIInv == Spec => []IInv
BY InitBusy, NextBusy, PTL DEF Spec

(* However many requests start, stop, delete, execute and interrupt at once,   *)
(* and whatever fails, a kernel is shown as starting or executing only while a  *)
(* request that will set its state again is at it.                            *)
THEOREM BusyKernelsAreWorkedOn == Spec => []BusyHasWorker
<1>1. IInv => BusyHasWorker
  BY DEF IInv
<1> QED BY <1>1, AlwaysIInv, PTL

(* A kernel is not replaced by another create of the same id, however long the *)
(* image of the first one takes to build.                                     *)
THEOREM CreatedKernelsStay == Spec => CreatedStays
<1> DEFINE Stays == \A k \in Kernels : reg[k] # None /\ reg'[k] # reg[k] => reg'[k] = None \/ reg'[k] = k
<1>1. Typed /\ [Next]_vars => Stays
  <2> SUFFICES ASSUME Typed, [Next]_vars PROVE Stays
    OBVIOUS
  <2>0. TypeOK
    BY DEF Typed
  <2>1. CASE UNCHANGED vars
    BY <2>1 DEF vars
  <2>2. ASSUME NEW r \in Requests, Commit(r) PROVE Stays
    BY <2>0, <2>2, Parts DEF Commit, registry, TypeOK
  <2>3. ASSUME NEW r \in Requests, Drop(r) PROVE Stays
    BY <2>0, <2>3, Parts DEF Drop, TypeOK
  <2>4. ASSUME NEW r \in Requests,
               Begin(r) \/ RequestStep(r) \/ CodeEnds(r) \/ Cancel(r) \/ CancelCuts(r), ~Commit(r), ~Drop(r)
        PROVE Stays
    <3>1. UNCHANGED registry
      BY <2>4 DEF Begin, CodeEnds, Cancel, CancelCuts, RequestStep, StartStep, ExecuteStep, BakeFails,
                  Recycle, Forget, Prepare, BuildFails, Launch, RunBox, Record, Healthy, Unhealthy, Ready,
                  Failed, Tidy, Mark, Post, Lose, TimeOut, Broken, Oom, Down, Finally, Cut, SeeCancel,
                  Halt, Halted
    <3> QED BY <3>1 DEF registry
  <2>5. ASSUME NEW k \in Kernels, BoxEnds(k) PROVE Stays
    BY <2>5 DEF BoxEnds, registry
  <2>6. CASE Reboot
    BY <2>6 DEF Reboot
  <2> QED BY <2>1, <2>2, <2>3, <2>4, <2>5, <2>6 DEF Next
<1> QED BY <1>1, AlwaysTyped, PTL DEF Spec, CreatedStays

-----------------------------------------------------------------------------
(* The record of a kernel on which nothing went wrong (marred): what is so of   *)
(* it while requests are at work, place by place.  Requests other than         *)
(* executions are alone on it; executions that found it running share it, and  *)
(* while they do the container is the one its record knows, or some of them is  *)
(* still to find that it is gone.                                             *)

(* What an unmarred kernel and the requests on it owe each other.              *)
WorksOn(r, k) == K(r) = k /\ Active(r) /\ Op(r) # "interrupt"

Joined == {"mark"} \cup Marked

(* Two requests on a kernel are executions that found it running.              *)
Apart(k) == \A r, q \in Requests : WorksOn(r, k) /\ WorksOn(q, k) /\ r # q => req[r].at \in Joined /\ req[q].at \in Joined

(* A container that runs is the one the record knows, at its port.            *)
Known(k) == Running(k) => reg[k] # None /\ KnownBox(k) /\ obj[reg[k]].port = box[k].port

(* While a start has not ended, its object does not show the kernel as running. *)
Unsettled == {"record", "health", "ready", "failed", "tidy"}
Settled(k) ==
    (\A r \in Requests : WorksOn(r, k) => req[r].at \notin Unsettled)
      => Known(k) /\ (Running(k) => obj[reg[k]].state \in {"idle", "executing"})

(* A kernel shown as running has a container, or an execution will find that    *)
(* it has not, or a stop is about to show it as stopped.                       *)
Doomed(r, k) == WorksOn(r, k) /\ req[r].at \in {"post", "broken", "down", "halted"}
Held(k) == reg[k] # None /\ obj[reg[k]].state \in {"idle", "executing"}
             => KnownBox(k) \/ \E r \in Requests : Doomed(r, k)

Shows(k, states) == reg[k] # None /\ obj[reg[k]].state \in states

(* What is so of its kernel while a request is at a place.                     *)
Stands(r, k) ==
    LET at == req[r].at IN
    /\ Executes(r) => req[r].o = reg[k] /\ reg[k] # None
    /\ at \in {"baking", "commit"} => reg[k] = None /\ ~Executes(r)
    /\ at \in {"recycle", "forget"} => req[r].o = reg[k] /\ Shows(k, {"stopped", "error"})
    /\ at = "prepare" => reg[k] # None /\ (Executes(r) => Shows(k, {"stopped", "error"}))
    /\ at \in {"build", "launch"} => req[r].s = reg[k] /\ Shows(k, {"stopped", "error"})
    /\ at \in Launching => req[r].s = reg[k] /\ Shows(k, {"starting"})
    /\ at \in {"build", "launch", "run", "forget"} => ~Running(k)
    /\ at = "record" => box[k] # None /\ box[k].id = r /\ obj[reg[k]].port = box[k].port
    /\ at \in {"health", "ready"} => KnownBox(k) /\ obj[reg[k]].port = box[k].port
    /\ at \in {"failed", "tidy"} => (Running(k) => KnownBox(k))
    /\ at = "tidy" => Shows(k, {"error"})
    /\ at \notin {"await", "awake"}
    /\ at \in {"halt", "halted", "drop"} => ~Executes(r)
    /\ at \in {"halt", "halted"} => req[r].o = reg[k] /\ reg[k] # None
    /\ at \in {"halted", "drop"} => ~Running(k)
    /\ at \in Joined => req[r].o = reg[k] /\ reg[k] # None
    /\ at \in {"oom", "down"} => ~Running(k)

Good(k) == Apart(k) /\ Settled(k) /\ Held(k) /\ \A r \in Requests : WorksOn(r, k) => Stands(r, k)

(* What is registered is in the database, and an interrupt does nothing         *)
(* but cut.                                                                   *)
SavedAll == \A k \in Kernels \ marred : reg[k] # None => k \in saved
InterruptsCut == \A r \in Requests : Op(r) = "interrupt" => req[r].at \in {"new", "cut", "done"}

Truth == SavedAll /\ InterruptsCut /\ \A k \in Kernels \ marred : Good(k)

QInv == IInv /\ Truth

(* What a step of another kernel, of a user or of code that ends changes of a    *)
(* kernel and of the requests on it.                                          *)
SameBox(k) == /\ box'[k] = None <=> box[k] = None
              /\ box[k] # None => /\ box'[k].id = box[k].id /\ box'[k].port = box[k].port
                                  /\ box'[k].status = box[k].status
SameRecord(k) == reg'[k] = reg[k] /\ (reg[k] # None => obj'[reg[k]] = obj[reg[k]])
SamePlace(r) == /\ req'[r].o = req[r].o /\ req'[r].s = req[r].s
                /\ req'[r].at = req[r].at \/ (req[r].at = "posted" /\ req'[r].at = "answered")

LEMMA PlacesApart ==
  /\ Launching = {"run", "record", "health", "ready", "failed"}
  /\ Joined = {"mark", "post", "posted", "answered", "broken", "oom", "down", "cut", "final"}
BY DEF Launching, Joined, Marked

LEMMA SameBoxFacts ==
  ASSUME NEW k \in Kernels, SameBox(k), SameRecord(k)
  PROVE Running(k)' = Running(k) /\ KnownBox(k)' = KnownBox(k)
BY DEF SameBox, SameRecord, Running, KnownBox

LEMMA SamePlaceFacts ==
  ASSUME NEW r \in Requests, NEW k \in Kernels, UNCHANGED setup, SamePlace(r)
  PROVE /\ WorksOn(r, k)' = WorksOn(r, k)
        /\ req'[r].at \in Joined <=> req[r].at \in Joined
        /\ req'[r].at \in Unsettled <=> req[r].at \in Unsettled
        /\ Doomed(r, k)' = Doomed(r, k)
<1>1. WorksOn(r, k)' = WorksOn(r, k)
  BY DEF WorksOn, K, Op, Active, SamePlace
<1>2. /\ req'[r].at \in Joined <=> req[r].at \in Joined
      /\ req'[r].at \in Unsettled <=> req[r].at \in Unsettled
      /\ req'[r].at \in {"post", "broken", "down", "halted"} <=> req[r].at \in {"post", "broken", "down", "halted"}
  BY PlacesApart DEF SamePlace, Unsettled
<1> QED BY <1>1, <1>2 DEF Doomed

LEMMA SameStands ==
  ASSUME NEW r \in Requests, NEW k \in Kernels, UNCHANGED setup, SamePlace(r), SameBox(k), SameRecord(k),
         Stands(r, k)
  PROVE Stands(r, k)'
<1>1. Running(k)' = Running(k) /\ KnownBox(k)' = KnownBox(k) /\ Executes(r)' = Executes(r)
  BY SameBoxFacts DEF Executes, Op
<1>2. /\ Shows(k, {"stopped", "error"})' = Shows(k, {"stopped", "error"})
      /\ Shows(k, {"starting"})' = Shows(k, {"starting"})
      /\ Shows(k, {"error"})' = Shows(k, {"error"})
  BY DEF Shows, SameRecord
<1>5. CASE req'[r].at = req[r].at
  BY <1>1, <1>2, <1>5, PlacesApart DEF Stands, SamePlace, SameRecord, SameBox, KnownBox, Shows
<1>6. CASE req[r].at = "posted" /\ req'[r].at = "answered"
  BY <1>1, <1>6, PlacesApart DEF Stands, SamePlace, SameRecord
<1> QED BY <1>5, <1>6 DEF SamePlace

LEMMA SameGood ==
  ASSUME NEW k \in Kernels, UNCHANGED setup, SameBox(k), SameRecord(k), Good(k),
         \A r \in Requests : K(r) = k => SamePlace(r) \/ (~WorksOn(r, k) /\ ~WorksOn(r, k)')
  PROVE Good(k)'
<1>1. Running(k)' = Running(k) /\ KnownBox(k)' = KnownBox(k)
  BY SameBoxFacts
<1>2. \A r \in Requests : /\ WorksOn(r, k)' <=> WorksOn(r, k)
                          /\ Doomed(r, k)' <=> Doomed(r, k)
                          /\ WorksOn(r, k) => SamePlace(r)
                                           /\ (req'[r].at \in Joined <=> req[r].at \in Joined)
                                           /\ (req'[r].at \in Unsettled <=> req[r].at \in Unsettled)
  <2> TAKE r \in Requests
  <2>1. CASE SamePlace(r)
    BY <2>1, SamePlaceFacts
  <2>2. CASE K(r) # k
    BY <2>2 DEF WorksOn, K, Doomed
  <2>3. CASE ~WorksOn(r, k) /\ ~WorksOn(r, k)'
    BY <2>3 DEF Doomed
  <2> QED BY <2>1, <2>2, <2>3
<1>3. Apart(k)'
  BY <1>2 DEF Good, Apart
<1>4. Settled(k)'
  <2>1. Known(k)' = Known(k)
    BY <1>1 DEF Known, SameRecord, SameBox, KnownBox
  <2> QED BY <1>1, <1>2, <2>1 DEF Good, Settled, SameRecord, Known
<1>5. Held(k)'
  BY <1>1, <1>2 DEF Good, Held, SameRecord
<1>6. \A r \in Requests : WorksOn(r, k)' => Stands(r, k)'
  BY <1>2, SameStands DEF Good
<1> QED BY <1>3, <1>4, <1>5, <1>6 DEF Good

(* A request that is the only one at work on its kernel. *)
Lone(r, k) == \A q \in Requests \ {r} : ~WorksOn(q, k)

Fine(r, k) ==
    /\ \/ WorksOn(r, k) /\ req[r].at \in Unsettled
       \/ Known(k) /\ (Running(k) => obj[reg[k]].state \in {"idle", "executing"})
    /\ Shows(k, {"idle", "executing"}) => KnownBox(k) \/ Doomed(r, k)
    /\ WorksOn(r, k) => Stands(r, k)

LEMMA LoneNow ==
  ASSUME NEW r \in Requests, NEW k \in Kernels, Good(k), Lone(r, k)
  PROVE Fine(r, k)
BY DEF Good, Lone, Fine, Settled, Held, Shows, Doomed

LEMMA LoneNext ==
  ASSUME NEW r \in Requests, NEW k \in Kernels, Lone(r, k)', Fine(r, k)'
  PROVE Good(k)'
BY DEF Good, Lone, Fine, Settled, Held, Shows, Doomed, Apart

(* Before it has marked the kernel a request is alone on it. *)
LEMMA LoneBefore ==
  ASSUME NEW r \in Requests, NEW k \in Kernels, Good(k), WorksOn(r, k), req[r].at \notin Joined
  PROVE Lone(r, k)
BY DEF Good, Apart, Lone

LEMMA LoneStays ==
  ASSUME NEW r \in Requests, NEW k \in Kernels, Lone(r, k), UNCHANGED setup,
         \A q \in Requests \ {r} : req'[q] = req[q]
  PROVE Lone(r, k)'
BY DEF Lone, WorksOn, K, Op, Active

(* A step of a request whose kernel is another one's. *)
LEMMA OtherKernel ==
  ASSUME TypeOK, NEW r \in Requests, NEW j \in Kernels, K(r) # j,
         UNCHANGED setup, SameBox(j), SameRecord(j), Good(j),
         \A q \in Requests \ {r} : SamePlace(q)
  PROVE Good(j)'
BY SameGood

LEMMA BoxStays ==
  ASSUME NEW k \in Kernels, box'[k] = box[k] PROVE SameBox(k)
BY DEF SameBox

LEMMA PlaceStays ==
  ASSUME NEW r \in Requests, req'[r] = req[r] PROVE SamePlace(r)
BY DEF SamePlace

(* The frame of a step of one request on its kernel. *)
LEMMA StepGood ==
  ASSUME QInv, NEW r \in Requests, NEW k \in Kernels, k = K(r), UNCHANGED setup,
         \A q \in Requests \ {r} : SamePlace(q),
         \A j \in Kernels \ {k} : SameRecord(j) /\ SameBox(j),
         marred' \in {marred, marred \cup {k}},
         k \notin marred' => Good(k)'
  PROVE \A j \in Kernels \ marred' : Good(j)'
<1> SUFFICES ASSUME NEW j \in Kernels \ marred' PROVE Good(j)'
  OBVIOUS
<1>1. CASE j = k
  BY <1>1
<1>2. CASE j # k
  BY <1>2, OtherKernel DEF QInv, Truth, IInv, Typed
<1> QED BY <1>1, <1>2

(* A request that is on its way, before it has marked its kernel. *)
LEMMA LoneSetting ==
  ASSUME QInv, NEW r \in Requests, NEW k \in Kernels, k = K(r), k \notin marred,
         req[r].at \notin {"new", "done"} \cup Joined
  PROVE /\ TypeOK /\ Op(r) # "interrupt" /\ WorksOn(r, k) /\ Lone(r, k)
        /\ Good(k) /\ Fine(r, k) /\ Stands(r, k)
<1>1. Good(k) /\ TypeOK
  BY DEF QInv, Truth, IInv, Typed
<1>2. Op(r) # "interrupt"
  BY PlacesApart DEF QInv, Truth, InterruptsCut
<1>3. WorksOn(r, k)
  BY <1>2 DEF WorksOn, Active
<1>4. Lone(r, k)
  BY <1>1, <1>3, LoneBefore
<1> QED BY <1>1, <1>2, <1>3, <1>4, LoneNow DEF Fine

LEMMA LoneStep ==
  ASSUME QInv, NEW r \in Requests, NEW k \in Kernels, k = K(r),
         req[r].at \notin {"new", "done"} \cup Joined, UNCHANGED setup,
         \A q \in Requests \ {r} : req'[q] = req[q],
         \A j \in Kernels \ {k} : SameRecord(j) /\ SameBox(j),
         marred' \in {marred, marred \cup {k}},
         k \notin marred' => Fine(r, k)'
  PROVE \A j \in Kernels \ marred' : Good(j)'
<1>1. \A q \in Requests \ {r} : SamePlace(q)
  BY PlaceStays
<1>2. ASSUME k \notin marred' PROVE Good(k)'
  <2>1. k \notin marred
    BY <1>2
  <2>2. Lone(r, k)
    BY <2>1, LoneSetting
  <2>3. Lone(r, k)'
    BY <2>2, LoneStays
  <2> QED BY <1>2, <2>3, LoneNext
<1> QED BY <1>1, <1>2, StepGood

(* An object that is set. *)
LEMMA StateSet ==
  ASSUME TypeOK, NEW x \in Objects, NEW st \in States, SetState(x, st)
  PROVE /\ obj'[x].state = st /\ obj'[x].cid = obj[x].cid /\ obj'[x].port = obj[x].port
        /\ \A y \in Objects : y # x => obj'[y] = obj[y]
<1>1. obj \in [Objects -> Object]
  BY DEF TypeOK, Object
<1>2. obj'[x] = [obj[x] EXCEPT !.state = st] /\ \A y \in Objects : y # x => obj'[y] = obj[y]
  BY <1>1 DEF SetState
<1> QED BY <1>1, <1>2 DEF Object

LEMMA IdSet ==
  ASSUME TypeOK, NEW x \in Objects, NEW c, SetId(x, c)
  PROVE /\ obj'[x].state = obj[x].state /\ obj'[x].cid = c /\ obj'[x].port = obj[x].port
        /\ \A y \in Objects : y # x => obj'[y] = obj[y]
<1>1. obj \in [Objects -> Object]
  BY DEF TypeOK, Object
<1>2. obj'[x] = [obj[x] EXCEPT !.cid = c] /\ \A y \in Objects : y # x => obj'[y] = obj[y]
  BY <1>1 DEF SetId
<1> QED BY <1>1, <1>2 DEF Object

LEMMA ResetSet ==
  ASSUME TypeOK, NEW x \in Objects,
         obj' = [obj EXCEPT ![x] = [@ EXCEPT !.state = "stopped", !.cid = None]]
  PROVE /\ obj'[x].state = "stopped" /\ obj'[x].cid = None /\ obj'[x].port = obj[x].port
        /\ \A y \in Objects : y # x => obj'[y] = obj[y]
<1>1. obj \in [Objects -> Object]
  BY DEF TypeOK, Object
<1>2. obj'[x] = [obj[x] EXCEPT !.state = "stopped", !.cid = None] /\ \A y \in Objects : y # x => obj'[y] = obj[y]
  BY <1>1
<1> QED BY <1>1, <1>2 DEF Object

LEMMA FinallySet ==
  ASSUME TypeOK, NEW x \in Objects, obj' = [obj EXCEPT ![x].state = IF @ = "executing" THEN "idle" ELSE @]
  PROVE /\ obj'[x].state = IF obj[x].state = "executing" THEN "idle" ELSE obj[x].state
        /\ obj'[x].cid = obj[x].cid /\ obj'[x].port = obj[x].port
        /\ \A y \in Objects : y # x => obj'[y] = obj[y]
<1>1. obj \in [Objects -> Object]
  BY DEF TypeOK, Object
<1>2. /\ obj'[x] = [obj[x] EXCEPT !.state = IF obj[x].state = "executing" THEN "idle" ELSE obj[x].state]
      /\ \A y \in Objects : y # x => obj'[y] = obj[y]
  BY <1>1
<1> QED BY <1>1, <1>2 DEF Object

LEMMA LaunchSet ==
  ASSUME TypeOK, NEW x \in Objects, NEW p,
         obj' = [obj EXCEPT ![x] = [@ EXCEPT !.state = "starting", !.port = p]]
  PROVE /\ obj'[x].state = "starting" /\ obj'[x].cid = obj[x].cid /\ obj'[x].port = p
        /\ \A y \in Objects : y # x => obj'[y] = obj[y]
<1>1. obj \in [Objects -> Object]
  BY DEF TypeOK, Object
<1>2. obj'[x] = [obj[x] EXCEPT !.state = "starting", !.port = p] /\ \A y \in Objects : y # x => obj'[y] = obj[y]
  BY <1>1
<1> QED BY <1>1, <1>2 DEF Object

(* The objects a request holds are of its kernel, and so is the registered one. *)
LEMMA OwnObjects ==
  ASSUME QInv, NEW k \in Kernels
  PROVE /\ \A x \in Of(k) : x \in Objects
        /\ reg[k] # None => reg[k] \in Of(k)
        /\ \A x \in Objects : x \in Of(k) => \A j \in Kernels \ {k} : reg[j] # x
        /\ None \notin Objects
<1>1. IInv /\ TypeOK
  BY DEF QInv, IInv, Typed
<1>2. None \notin Objects
  BY KernelsAssumption DEF Objects
<1> QED BY <1>1, <1>2, OfIsDisjoint DEF IInv, Owned, Of, Objects

LEMMA OthersKept ==
  ASSUME QInv, NEW k \in Kernels, \A j \in Kernels \ {k} : reg'[j] = reg[j],
         \A x \in Objects : x \notin Of(k) => obj'[x] = obj[x]
  PROVE \A j \in Kernels \ {k} : SameRecord(j)
<1> TAKE j \in Kernels \ {k}
<1>1. reg[j] # None => reg[j] \in Objects /\ reg[j] \notin Of(k)
  BY OwnObjects
<1> QED BY <1>1 DEF SameRecord

LEMMA CleanupQuiet ==
  ASSUME TypeOK, NEW k \in Kernels, Cleanup(k)
  PROVE /\ \A j \in Kernels \ {k} : SameBox(j)
        /\ marred' \in {marred, marred \cup {k}}
        /\ k \notin marred' => box'[k] = IF KnownBox(k) THEN None ELSE box[k]
<1>1. \A j \in Kernels \ {k} : box'[j] = box[j]
  BY DEF Cleanup, TypeOK
<1>2. marred' \in {marred, marred \cup {k}}
  BY DEF Cleanup
<1>3. k \notin marred' => box'[k] = IF KnownBox(k) THEN None ELSE box[k]
  BY DEF Cleanup, TypeOK
<1> QED BY <1>1, <1>2, <1>3, BoxStays

LEMMA RecordsStay ==
  ASSUME UNCHANGED <<registry, obj>>
  PROVE \A j \in Kernels : SameRecord(j)
BY DEF registry, SameRecord

LEMMA RecycleTrue ==
  ASSUME QInv, NEW r \in Requests, Recycle(r)
  PROVE \A j \in Kernels \ marred' : Good(j)'
<1>0. /\ TypeOK /\ UNCHANGED setup /\ UNCHANGED <<registry, obj>>
      /\ req[r].at = "recycle" /\ req[r].at \notin {"new", "done"} \cup Joined
  BY PlacesApart DEF QInv, IInv, Typed, Recycle, At
<1>1. PICK k \in Kernels : k = K(r)
  BY <1>0, Parts
<1>2. /\ req'[r].at = "forget" /\ req'[r].o = req[r].o
      /\ \A q \in Requests \ {r} : req'[q] = req[q]
  <2>1. "forget" \in Places
    BY DEF Places, Holding
  <2> QED BY <1>0, <2>1, GotoType DEF Recycle
<1>3. /\ \A j \in Kernels \ {k} : SameBox(j)
      /\ marred' \in {marred, marred \cup {k}}
      /\ k \notin marred' => box'[k] = IF KnownBox(k) THEN None ELSE box[k]
  BY <1>0, <1>1, CleanupQuiet DEF Recycle
<1>4. ASSUME k \notin marred' PROVE Fine(r, k)'
  <2>1. Fine(r, k) /\ Stands(r, k) /\ WorksOn(r, k)
    BY <1>0, <1>1, <1>3, <1>4, LoneSetting
  <2>2. req[r].o = reg[k] /\ Shows(k, {"stopped", "error"})
    BY <1>0, <2>1 DEF Stands
  <2>3. ~Running(k)'
    BY <1>0, <1>3, <1>4, <2>1 DEF Fine, Known, Unsettled, Running, KnownBox
  <2>4. Shows(k, {"stopped", "error"})' /\ ~Shows(k, {"idle", "executing"})'
    BY <1>0, <2>2 DEF Shows, registry
  <2>5. Stands(r, k)'
    BY <1>0, <1>2, <2>2, <2>3, <2>4, PlacesApart DEF Stands, registry, Shows
  <2> QED BY <2>3, <2>4, <2>5 DEF Fine, Known
<1>5. \A j \in Kernels : SameRecord(j)
  BY <1>0, RecordsStay
<1> QED BY <1>0, <1>1, <1>2, <1>3, <1>4, <1>5, LoneStep

(* A step that leaves a kernel and its record as they are. *)
LEMMA QuietMove ==
  ASSUME NEW r \in Requests, NEW k \in Kernels, UNCHANGED setup, SameBox(k), SameRecord(k), Fine(r, k),
         req[r].at \notin Unsettled \cup {"post", "broken", "down", "halted"},
         WorksOn(r, k)' => Stands(r, k)'
  PROVE Fine(r, k)'
<1>1. Running(k)' = Running(k) /\ KnownBox(k)' = KnownBox(k)
  BY SameBoxFacts
<1>2. Known(k)' = Known(k) /\ Shows(k, {"idle", "executing"})' = Shows(k, {"idle", "executing"})
  BY <1>1 DEF Known, Shows, SameRecord, SameBox, KnownBox
<1>3. ~(WorksOn(r, k) /\ req[r].at \in Unsettled) /\ ~Doomed(r, k)
  BY DEF Doomed
<1> QED BY <1>1, <1>2, <1>3 DEF Fine, SameRecord, Known

(* Who starts a kernel or executes on it is at work on it. *)
LEMMA NobodyBusy ==
  ASSUME QInv, NEW r \in Requests, NEW k \in Kernels, Lone(r, k), reg[k] # None,
         req[r].at \notin Launching \cup Marked
  PROVE Shows(k, {"stopped", "idle", "error"})
<1>1. TypeOK /\ Owned /\ BusyHasWorker /\ InterruptsCut
  BY DEF QInv, IInv, Typed, Truth
<1>2. reg[k] \in Objects /\ reg[k] \in Of(k) /\ obj[reg[k]].state \in States
  BY <1>1 DEF TypeOK, Owned
<1>3. ASSUME NEW q \in Requests, q # r, req[q].at \in Launching \cup Marked, reg[k] \in Of(K(q)), Op(q) # "interrupt"
      PROVE FALSE
  <2>1. K(q) \in Kernels /\ K(q) = k
    BY <1>1, <1>2, <1>3, Parts, OfIsDisjoint
  <2>2. WorksOn(q, k)
    BY <1>3, <2>1 DEF WorksOn, Active, Launching, Marked
  <2> QED BY <1>3, <2>2 DEF Lone
<1>4. obj[reg[k]].state # "starting"
  <2> SUFFICES ASSUME obj[reg[k]].state = "starting" PROVE FALSE
    OBVIOUS
  <2>1. PICK q \in Requests : req[q].at \in Launching /\ req[q].s = reg[k]
    BY <1>1 DEF BusyHasWorker
  <2>2. Op(q) # "interrupt"
    BY <1>1, <2>1 DEF InterruptsCut, Launching
  <2>3. reg[k] \in Of(K(q))
    BY <1>1, <2>1 DEF Owned
  <2> QED BY <1>3, <2>1, <2>2, <2>3
<1>5. obj[reg[k]].state # "executing"
  <2> SUFFICES ASSUME obj[reg[k]].state = "executing" PROVE FALSE
    OBVIOUS
  <2>1. PICK q \in Requests : Executes(q) /\ req[q].at \in Marked /\ req[q].o = reg[k]
    BY <1>1 DEF BusyHasWorker
  <2>2. Op(q) # "interrupt"
    BY <2>1 DEF Executes
  <2>3. reg[k] \in Of(K(q))
    BY <1>1, <2>1 DEF Owned
  <2> QED BY <1>3, <2>1, <2>2, <2>3
<1> QED BY <1>2, <1>4, <1>5 DEF Shows, States

LEMMA CreateTrue ==
  ASSUME QInv, NEW r \in Requests, BakeFails(r) \/ Commit(r)
  PROVE \A j \in Kernels \ marred' : Good(j)'
<1>0. /\ TypeOK /\ UNCHANGED setup /\ UNCHANGED box /\ marred' \in {marred, marred \cup {K(r)}}
      /\ req[r].at \in {"baking", "commit"} /\ req[r].at \notin {"new", "done"} \cup Joined
  BY PlacesApart DEF QInv, IInv, Typed, BakeFails, Commit, Store, At
<1>1. PICK k \in Kernels : k = K(r)
  BY <1>0, Parts
<1>2. /\ req'[r].at = "done"
      /\ \A q \in Requests \ {r} : req'[q] = req[q]
  <2>1. "failed" \in Outcomes /\ "ok" \in Outcomes
    BY DEF Outcomes
  <2> QED BY <1>0, <2>1, EndType DEF BakeFails, Commit
<1>3. \A j \in Kernels : SameBox(j)
  BY <1>0, BoxStays
<1>4. ASSUME k \notin marred PROVE Fine(r, k) /\ Stands(r, k) /\ WorksOn(r, k) /\ ~WorksOn(r, k)'
  BY <1>0, <1>1, <1>2, <1>4, LoneSetting DEF WorksOn, Active
<1>5. CASE UNCHANGED <<registry, obj>>
  <2>1. \A j \in Kernels : SameRecord(j)
    BY <1>5, RecordsStay
  <2>2. k \notin marred' => Fine(r, k)'
    BY <1>0, <1>1, <1>3, <1>4, <2>1, QuietMove DEF Unsettled
  <2> QED BY <1>0, <1>1, <1>2, <1>3, <2>1, <2>2, LoneStep
<1>6. CASE /\ obj' = [obj EXCEPT ![r] = [Stopped EXCEPT !.port = req[r].port]]
           /\ reg' = [reg EXCEPT ![k] = r]
  <2>1. /\ r \in Objects /\ r \in Of(k) /\ r # None
        /\ \A x \in Objects : x # r => obj'[x] = obj[x]
        /\ obj'[r].state = "stopped"
    BY <1>0, <1>1, <1>6, KernelsAssumption DEF Objects, Of, TypeOK, Stopped
  <2>2. reg'[k] = r /\ \A j \in Kernels \ {k} : reg'[j] = reg[j]
    BY <1>0, <1>6 DEF TypeOK
  <2>3. \A j \in Kernels \ {k} : SameRecord(j)
    BY <2>1, <2>2, OthersKept
  <2>4. ASSUME k \notin marred PROVE Fine(r, k)'
    <3>1. ~Running(k)'
      BY <1>0, <1>4, <2>4 DEF Fine, Stands, Known, Running, Unsettled
    <3> QED BY <1>4, <2>1, <2>2, <2>4, <3>1 DEF Fine, Known, Shows
  <2> QED BY <1>0, <1>1, <1>2, <1>3, <2>3, <2>4, LoneStep
<1> QED BY <1>1, <1>5, <1>6 DEF BakeFails, Commit

LEMMA ForgetTrue ==
  ASSUME QInv, NEW r \in Requests, Forget(r)
  PROVE \A j \in Kernels \ marred' : Good(j)'
<1>0. /\ TypeOK /\ UNCHANGED setup /\ UNCHANGED <<registry, box, marred>>
      /\ req[r].at = "forget" /\ req[r].at \notin {"new", "done"} \cup Joined
  BY PlacesApart DEF QInv, IInv, Typed, Forget, At
<1>1. PICK k \in Kernels : k = K(r)
  BY <1>0, Parts
<1>2. /\ req'[r].at = "prepare" /\ req'[r].o = req[r].o
      /\ \A q \in Requests \ {r} : req'[q] = req[q]
  <2>1. "prepare" \in Places
    BY DEF Places, Holding
  <2> QED BY <1>0, <2>1, GotoType DEF Forget
<1>3. \A j \in Kernels : SameBox(j)
  BY <1>0, BoxStays
<1>4. /\ \A x \in Objects : x # req[r].o => obj'[x] = obj[x]
      /\ req[r].o \in Objects => obj'[req[r].o].state = obj[req[r].o].state
  <2>1. SetId(req[r].o, None)
    BY DEF Forget
  <2> QED BY <1>0, <2>1, IdSet DEF SetId, TypeOK
<1>5. \A j \in Kernels \ {k} : SameRecord(j)
  <2>1. req[r].o # None => req[r].o \in Of(k)
    BY <1>1 DEF QInv, IInv, Owned
  <2>2. None \notin Objects
    BY OwnObjects
  <2>3. \A x \in Objects : x \notin Of(k) => obj'[x] = obj[x]
    BY <1>4, <2>1, <2>2
  <2> QED BY <1>0, <2>3, OthersKept DEF registry
<1>6. ASSUME k \notin marred PROVE Fine(r, k)'
  <2>1. Stands(r, k)
    BY <1>0, <1>1, <1>6, LoneSetting
  <2>2. req[r].o = reg[k] /\ Shows(k, {"stopped", "error"}) /\ ~Running(k)
    BY <1>0, <2>1 DEF Stands
  <2>3. Shows(k, {"stopped", "error"})' /\ ~Shows(k, {"idle", "executing"})' /\ ~Running(k)'
    <3>1. reg[k] \in Objects
      BY <1>0, <2>2 DEF TypeOK, Shows
    <3> QED BY <1>0, <1>4, <2>2, <3>1 DEF Shows, registry, Running
  <2>4. Stands(r, k)'
    BY <1>0, <1>2, <2>2, <2>3, PlacesApart DEF Stands, registry, Shows
  <2> QED BY <2>3, <2>4 DEF Fine, Known
<1> QED BY <1>0, <1>1, <1>2, <1>3, <1>5, <1>6, LoneStep

(* The places of a start. *)
LEMMA PrepareTrue ==
  ASSUME QInv, NEW r \in Requests, Prepare(r)
  PROVE \A j \in Kernels \ marred' : Good(j)'
<1>0. /\ TypeOK /\ UNCHANGED setup /\ UNCHANGED <<registry, box, marred>>
      /\ req[r].at = "prepare" /\ req[r].at \notin {"new", "done"} \cup Joined
  BY PlacesApart DEF QInv, IInv, Typed, Prepare, At
<1>1. PICK k \in Kernels : k = K(r)
  BY <1>0, Parts
<1>2. \A j \in Kernels : SameBox(j)
  BY <1>0, BoxStays
<1>3. ASSUME k \notin marred
      PROVE /\ Fine(r, k) /\ Stands(r, k) /\ WorksOn(r, k)
            /\ Shows(k, {"stopped", "idle", "error"}) /\ (Executes(r) => Shows(k, {"stopped", "error"}))
  <2>1. Fine(r, k) /\ Stands(r, k) /\ WorksOn(r, k) /\ Lone(r, k)
    BY <1>0, <1>1, <1>3, LoneSetting
  <2>2. reg[k] # None /\ (Executes(r) => Shows(k, {"stopped", "error"}))
    BY <1>0, <2>1 DEF Stands
  <2> QED BY <1>0, <2>1, <2>2, NobodyBusy DEF Launching, Marked
<1>4. "failed" \in Outcomes /\ "ok" \in Outcomes
  BY DEF Outcomes
<1>5. CASE UNCHANGED obj /\ End(r, "failed")
  <2>1. /\ req'[r].at = "done"
        /\ \A q \in Requests \ {r} : req'[q] = req[q]
    BY <1>0, <1>4, <1>5, EndType
  <2>2. \A j \in Kernels : SameRecord(j)
    BY <1>0, <1>5, RecordsStay
  <2>3. k \notin marred => Fine(r, k)'
    BY <1>0, <1>2, <1>3, <2>1, <2>2, QuietMove DEF Unsettled, WorksOn, Active
  <2> QED BY <1>0, <1>1, <1>2, <2>1, <2>2, <2>3, LoneStep
<1>6. CASE UNCHANGED obj /\ reg[k] # None /\ obj[reg[k]].state = "idle" /\ Started(r)
  <2>1. /\ req'[r].at \in {"mark", "done"} /\ (req'[r].at = "mark" => Executes(r))
        /\ \A q \in Requests \ {r} : req'[q] = req[q]
    BY <1>0, <1>6, StartedType
  <2>2. \A j \in Kernels : SameRecord(j)
    BY <1>0, <1>6, RecordsStay
  <2>3. ASSUME k \notin marred PROVE Fine(r, k)'
    <3>1. req'[r].at = "done"
      BY <1>3, <1>6, <2>1, <2>3 DEF Shows
    <3> QED BY <1>0, <1>2, <1>3, <2>2, <2>3, <3>1, QuietMove DEF Unsettled, WorksOn, Active
  <2> QED BY <1>0, <1>1, <1>2, <2>1, <2>2, <2>3, LoneStep
<1>7. CASE /\ UNCHANGED obj /\ reg[k] # None /\ obj[reg[k]].state # "idle"
           /\ Move(r, [req[r] EXCEPT !.s = reg[k], !.at = IF K(r) \in setup.packaged THEN "build" ELSE "launch"])
  <2> DEFINE new == [req[r] EXCEPT !.s = reg[k], !.at = IF K(r) \in setup.packaged THEN "build" ELSE "launch"]
  <2>1. new \in Request /\ new.at \in {"build", "launch"} /\ new.s = reg[k] /\ new.o = req[r].o
    <3>1. reg[k] \in Objects
      BY <1>0, <1>7 DEF TypeOK
    <3> QED BY <1>0, <3>1, Parts DEF Request, Places, Awaiting, Holding
  <2>2. Move(r, new)
    BY <1>7
  <2> HIDE DEF new
  <2>3. /\ req'[r].at \in {"build", "launch"} /\ req'[r].s = reg[k] /\ req'[r].o = req[r].o
        /\ \A q \in Requests \ {r} : req'[q] = req[q]
    BY <1>0, <2>1, <2>2, MoveType
  <2>4. \A j \in Kernels : SameRecord(j)
    BY <1>0, <1>7, RecordsStay
  <2>5. ASSUME k \notin marred PROVE Fine(r, k)'
    <3>1. Shows(k, {"stopped", "error"}) /\ ~Running(k)
      BY <1>0, <1>3, <1>7, <2>5 DEF Shows, Fine, Unsettled, Known
    <3>2. Executes(r) => req[r].o = reg[k]
      BY <1>3, <2>5 DEF Stands
    <3>3. Shows(k, {"stopped", "error"})' /\ ~Running(k)'
      BY <1>0, <1>7, <3>1 DEF Shows, Running, registry
    <3>4. Stands(r, k)'
      BY <1>0, <2>3, <3>2, <3>3, PlacesApart DEF Stands, Shows, Executes, Op, registry
    <3> QED BY <1>0, <1>2, <1>3, <2>4, <2>5, <3>4, QuietMove DEF Unsettled
  <2> QED BY <1>0, <1>1, <1>2, <2>3, <2>4, <2>5, LoneStep
<1>8. CASE reg[k] # None /\ obj[reg[k]].state # "idle" /\ SetState(reg[k], "error") /\ End(r, "failed")
  <2>1. /\ req'[r].at = "done"
        /\ \A q \in Requests \ {r} : req'[q] = req[q]
    BY <1>0, <1>4, <1>8, EndType
  <2>2. /\ reg[k] \in Objects /\ reg[k] \in Of(k) /\ "error" \in States
    BY <1>0, <1>8, OwnObjects DEF TypeOK, States
  <2>3. /\ obj'[reg[k]].state = "error"
        /\ \A x \in Objects : x # reg[k] => obj'[x] = obj[x]
    BY <1>0, <1>8, <2>2, StateSet
  <2>4. \A j \in Kernels \ {k} : SameRecord(j)
    BY <1>0, <2>2, <2>3, OthersKept DEF registry
  <2>5. ASSUME k \notin marred PROVE Fine(r, k)'
    <3>1. ~Running(k)
      BY <1>0, <1>3, <1>8, <2>5 DEF Shows, Fine, Unsettled, Known
    <3>2. ~Running(k)' /\ ~Shows(k, {"idle", "executing"})' /\ ~WorksOn(r, k)'
      BY <1>0, <2>1, <2>3, <3>1 DEF Running, Shows, registry, WorksOn, Active
    <3> QED BY <3>2 DEF Fine, Known
  <2> QED BY <1>0, <1>1, <1>2, <2>1, <2>4, <2>5, LoneStep
<1> QED BY <1>1, <1>5, <1>6, <1>7, <1>8 DEF Prepare

LEMMA BuildFailsTrue ==
  ASSUME QInv, NEW r \in Requests, BuildFails(r)
  PROVE \A j \in Kernels \ marred' : Good(j)'
<1>0. /\ TypeOK /\ Placed /\ UNCHANGED setup /\ UNCHANGED <<registry, box, marred>>
      /\ req[r].at = "build" /\ req[r].at \notin {"new", "done"} \cup Joined
  BY PlacesApart DEF QInv, IInv, Typed, BuildFails, At
<1>1. PICK k \in Kernels : k = K(r)
  BY <1>0, Parts
<1>2. /\ req'[r].at = "done"
      /\ \A q \in Requests \ {r} : req'[q] = req[q]
  <2>1. "failed" \in Outcomes
    BY DEF Outcomes
  <2> QED BY <1>0, <2>1, EndType DEF BuildFails
<1>3. \A j \in Kernels : SameBox(j)
  BY <1>0, BoxStays
<1>4. /\ req[r].s \in Objects /\ req[r].s \in Of(k) /\ req[r].s # None
      /\ obj'[req[r].s].state = "error"
      /\ \A x \in Objects : x # req[r].s => obj'[x] = obj[x]
  <2>1. req[r].s \in Objects /\ "error" \in States /\ None \notin Objects
    BY <1>0, OwnObjects DEF Placed, States
  <2>2. req[r].s \in Of(k)
    BY <1>1, <2>1 DEF QInv, IInv, Owned
  <2> QED BY <1>0, <2>1, <2>2, StateSet DEF BuildFails
<1>5. \A j \in Kernels \ {k} : SameRecord(j)
  BY <1>0, <1>4, OthersKept DEF registry
<1>6. ASSUME k \notin marred PROVE Fine(r, k)'
  <2>1. Stands(r, k)
    BY <1>0, <1>1, <1>6, LoneSetting
  <2>2. req[r].s = reg[k] /\ ~Running(k)
    BY <1>0, <2>1 DEF Stands
  <2>3. ~Running(k)' /\ ~Shows(k, {"idle", "executing"})' /\ ~WorksOn(r, k)'
    BY <1>0, <1>2, <1>4, <2>2 DEF Running, Shows, registry, WorksOn, Active
  <2> QED BY <2>3 DEF Fine, Known
<1> QED BY <1>0, <1>1, <1>2, <1>3, <1>5, <1>6, LoneStep

LEMMA LaunchTrue ==
  ASSUME QInv, NEW r \in Requests, Launch(r)
  PROVE \A j \in Kernels \ marred' : Good(j)'
<1>0. /\ TypeOK /\ Placed /\ UNCHANGED setup /\ UNCHANGED <<registry, box, marred>>
      /\ req[r].at \in {"build", "launch"} /\ req[r].at \notin {"new", "done"} \cup Joined
  BY PlacesApart DEF QInv, IInv, Typed, Launch, At
<1>1. PICK k \in Kernels : k = K(r)
  BY <1>0, Parts
<1>2. \A j \in Kernels : SameBox(j)
  BY <1>0, BoxStays
<1>3. ASSUME k \notin marred PROVE /\ Fine(r, k) /\ WorksOn(r, k) /\ req[r].s = reg[k] /\ ~Running(k)
                                   /\ Executes(r) => req[r].o = reg[k]
  <2>1. Fine(r, k) /\ Stands(r, k) /\ WorksOn(r, k)
    BY <1>0, <1>1, <1>3, LoneSetting
  <2> QED BY <1>0, <2>1 DEF Stands
<1>4. CASE UNCHANGED obj /\ End(r, "failed")
  <2>0. "failed" \in Outcomes
    BY DEF Outcomes
  <2>1. /\ req'[r].at = "done"
        /\ \A q \in Requests \ {r} : req'[q] = req[q]
    BY <1>0, <1>4, <2>0, EndType
  <2>2. \A j \in Kernels : SameRecord(j)
    BY <1>0, <1>4, RecordsStay
  <2>3. k \notin marred => Fine(r, k)'
    BY <1>0, <1>2, <1>3, <2>1, <2>2, QuietMove DEF Unsettled, WorksOn, Active
  <2> QED BY <1>0, <1>1, <1>2, <2>1, <2>2, <2>3, LoneStep
<1>5. ASSUME NEW p \in Ports, obj' = [obj EXCEPT ![req[r].s] = [@ EXCEPT !.state = "starting", !.port = p]],
             Goto(r, "run")
      PROVE \A j \in Kernels \ marred' : Good(j)'
  <2>1. /\ req'[r].at = "run" /\ req'[r].o = req[r].o /\ req'[r].s = req[r].s
        /\ \A q \in Requests \ {r} : req'[q] = req[q]
    <3>1. "run" \in Places
      BY DEF Places, Holding
    <3> QED BY <1>0, <1>5, <3>1, GotoType
  <2>2. /\ req[r].s \in Objects /\ req[r].s \in Of(k) /\ req[r].s # None
    BY <1>0, <1>1, OwnObjects DEF Placed, QInv, IInv, Owned
  <2>3. /\ obj'[req[r].s].state = "starting"
        /\ \A x \in Objects : x # req[r].s => obj'[x] = obj[x]
    BY <1>0, <1>5, <2>2, LaunchSet
  <2>4. \A j \in Kernels \ {k} : SameRecord(j)
    BY <1>0, <2>2, <2>3, OthersKept DEF registry
  <2>5. ASSUME k \notin marred PROVE Fine(r, k)'
    <3>1. ~Running(k)' /\ Shows(k, {"starting"})' /\ ~Shows(k, {"idle", "executing"})'
      BY <1>0, <1>3, <2>2, <2>3, <2>5 DEF Running, Shows, registry
    <3>2. Stands(r, k)'
      BY <1>0, <1>3, <2>1, <2>5, <3>1, PlacesApart DEF Stands, registry, Executes, Op, Shows
    <3> QED BY <3>1, <3>2 DEF Fine, Known
  <2> QED BY <1>0, <1>1, <1>2, <2>1, <2>4, <2>5, LoneStep
<1> QED BY <1>4, <1>5 DEF Launch

(* A request sets an object that it holds. *)
LEMMA OwnSet ==
  ASSUME QInv, NEW r \in Requests, NEW k \in Kernels, k = K(r), NEW o \in {req[r].o, req[r].s},
         UNCHANGED reg, \A x \in Objects : x # o => obj'[x] = obj[x]
  PROVE \A j \in Kernels \ {k} : SameRecord(j)
<1>1. o # None => o \in Of(k)
  BY DEF QInv, IInv, Owned
<1>2. \A x \in Objects : x \notin Of(k) => obj'[x] = obj[x]
  BY <1>1, OwnObjects
<1> QED BY <1>2, OthersKept

(* What a start that has launched knows. *)
LEMMA Launched ==
  ASSUME QInv, NEW r \in Requests, NEW k \in Kernels, k = K(r), k \notin marred, req[r].at \in Launching
  PROVE /\ WorksOn(r, k) /\ req[r].s = reg[k] /\ Shows(k, {"starting"}) /\ reg[k] \in Objects
        /\ Executes(r) => req[r].o = reg[k]
        /\ Stands(r, k) /\ Fine(r, k)
<1>1. req[r].at \notin {"new", "done"} \cup Joined
  BY PlacesApart
<1>2. Stands(r, k) /\ Fine(r, k) /\ WorksOn(r, k) /\ TypeOK
  BY <1>1, LoneSetting
<1> QED BY <1>2 DEF Stands, Shows, TypeOK

LEMMA RunBoxTrue ==
  ASSUME QInv, NEW r \in Requests, RunBox(r)
  PROVE \A j \in Kernels \ marred' : Good(j)'
<1>0. /\ TypeOK /\ Placed /\ UNCHANGED setup /\ UNCHANGED <<registry, obj, marred>>
      /\ req[r].at = "run" /\ req[r].at \notin {"new", "done"} \cup Joined /\ req[r].at \in Launching
  BY PlacesApart DEF QInv, IInv, Typed, RunBox, At
<1>1. PICK k \in Kernels : k = K(r)
  BY <1>0, Parts
<1> DEFINE p == obj[req[r].s].port
<1>2. "failed" \in Places /\ "record" \in Places
  BY DEF Places, Holding
<1>3. \A j \in Kernels : SameRecord(j)
  BY <1>0, RecordsStay
<1>4. \/ Goto(r, "failed") /\ UNCHANGED box
      \/ box' = [box EXCEPT ![k] = BoxOf(k, r, p, "created")] /\ Goto(r, "failed")
      \/ box' = [box EXCEPT ![k] = BoxOf(k, r, p, "running")] /\ Goto(r, "record")
  BY <1>1 DEF RunBox
<1> HIDE DEF p
<1>5. /\ req'[r].at \in {"failed", "record"} /\ req'[r].o = req[r].o /\ req'[r].s = req[r].s
      /\ \A q \in Requests \ {r} : req'[q] = req[q]
      /\ req'[r].at = "failed" => UNCHANGED box \/ box' = [box EXCEPT ![k] = BoxOf(k, r, p, "created")]
      /\ req'[r].at = "record" => box' = [box EXCEPT ![k] = BoxOf(k, r, p, "running")]
  <2>1. CASE Goto(r, "failed") /\ (UNCHANGED box \/ box' = [box EXCEPT ![k] = BoxOf(k, r, p, "created")])
    BY <1>0, <1>2, <2>1, GotoType
  <2>2. CASE box' = [box EXCEPT ![k] = BoxOf(k, r, p, "running")] /\ Goto(r, "record")
    BY <1>0, <1>2, <2>2, GotoType
  <2> QED BY <1>4, <2>1, <2>2
<1>6. /\ \A j \in Kernels \ {k} : box'[j] = box[j]
      /\ req'[r].at = "failed" => box'[k] = box[k] \/ box'[k] = BoxOf(k, r, p, "created")
      /\ req'[r].at = "record" => box'[k] = BoxOf(k, r, p, "running")
  BY <1>0, <1>5 DEF TypeOK
<1>7. \A j \in Kernels \ {k} : SameBox(j)
  BY <1>6, BoxStays
<1>8. ASSUME k \notin marred PROVE Fine(r, k)'
  <2>1. /\ WorksOn(r, k) /\ req[r].s = reg[k] /\ Shows(k, {"starting"}) /\ ~Running(k)
        /\ Executes(r) => req[r].o = reg[k]
    BY <1>0, <1>1, <1>8, Launched DEF Stands
  <2>2. WorksOn(r, k)' /\ Shows(k, {"starting"})' /\ ~Shows(k, {"idle", "executing"})'
    BY <1>0, <1>5, <2>1 DEF WorksOn, Active, K, Op, Shows, registry
  <2>3. req'[r].at = "failed" => ~Running(k)'
    BY <1>6, <2>1 DEF Running, BoxOf
  <2>4. req'[r].at = "record" => /\ box'[k] # None /\ box'[k].id = r /\ obj'[reg'[k]].port = box'[k].port
    <3>1. /\ BoxOf(k, r, p, "running").id = r /\ BoxOf(k, r, p, "running").port = p
          /\ BoxOf(k, r, p, "running").status = "running"
      BY DEF BoxOf
    <3>2. ASSUME req'[r].at = "record" PROVE box'[k] # None
      <4>1. p \in Ports
        BY <1>0 DEF Placed, p
      <4>2. BoxOf(k, r, p, "running") \in Box /\ None \notin Box
        BY <4>1, ReclaimAssumption DEF Box, BoxOf, Boxes, Objects
      <4> QED BY <1>6, <3>2, <4>2
    <3> QED BY <1>0, <1>6, <2>1, <3>1, <3>2 DEF registry, p
  <2>5. Stands(r, k)'
    BY <1>0, <1>5, <2>1, <2>2, <2>3, <2>4, PlacesApart DEF Stands, Shows, registry, Executes, Op
  <2> QED BY <1>5, <2>2, <2>5 DEF Fine, Unsettled
<1> QED BY <1>0, <1>1, <1>3, <1>5, <1>7, <1>8, LoneStep

LEMMA RecordTrue ==
  ASSUME QInv, NEW r \in Requests, Record(r)
  PROVE \A j \in Kernels \ marred' : Good(j)'
<1>0. /\ TypeOK /\ UNCHANGED setup /\ UNCHANGED <<registry, box, marred>>
      /\ req[r].at = "record" /\ req[r].at \notin {"new", "done"} \cup Joined /\ req[r].at \in Launching
  BY PlacesApart DEF QInv, IInv, Typed, Record, At
<1>1. PICK k \in Kernels : k = K(r)
  BY <1>0, Parts
<1>2. /\ req'[r].at \in {"health", "done"} /\ (reg[k] # None => req'[r].at = "health")
      /\ req'[r].o = req[r].o /\ req'[r].s = req[r].s
      /\ \A q \in Requests \ {r} : req'[q] = req[q]
  <2>1. "health" \in Places /\ "failed" \in Outcomes
    BY DEF Places, Awaiting, Outcomes
  <2>2. CASE reg[k] = None
    BY <1>0, <1>1, <2>1, <2>2, EndType DEF Record
  <2>3. CASE reg[k] # None
    BY <1>0, <1>1, <2>1, <2>3, GotoType DEF Record
  <2> QED BY <2>2, <2>3
<1>3. \A j \in Kernels : SameBox(j)
  BY <1>0, BoxStays
<1>4. SetId(req[r].s, r)
  BY DEF Record
<1>5. \A j \in Kernels \ {k} : SameRecord(j)
  <2>1. \A x \in Objects : x # req[r].s => obj'[x] = obj[x]
    BY <1>0, <1>4 DEF SetId, TypeOK
  <2> QED BY <1>0, <1>1, <2>1, OwnSet DEF registry
<1>6. ASSUME k \notin marred PROVE Fine(r, k)'
  <2>1. /\ WorksOn(r, k) /\ req[r].s = reg[k] /\ Shows(k, {"starting"}) /\ reg[k] \in Objects
        /\ Executes(r) => req[r].o = reg[k]
        /\ box[k] # None /\ box[k].id = r /\ obj[reg[k]].port = box[k].port
    BY <1>0, <1>1, <1>6, Launched DEF Stands
  <2>2. obj'[reg[k]].state = obj[reg[k]].state /\ obj'[reg[k]].cid = r /\ obj'[reg[k]].port = obj[reg[k]].port
    BY <1>0, <1>4, <2>1, IdSet
  <2>3. WorksOn(r, k)' /\ Shows(k, {"starting"})' /\ ~Shows(k, {"idle", "executing"})' /\ req'[r].at = "health"
    BY <1>0, <1>2, <2>1, <2>2 DEF WorksOn, Active, K, Op, Shows, registry
  <2>4. KnownBox(k)' /\ obj'[reg'[k]].port = box'[k].port
    BY <1>0, <2>1, <2>2, <2>3 DEF KnownBox, Shows, registry
  <2>5. Stands(r, k)'
    BY <1>0, <1>2, <2>1, <2>3, <2>4, PlacesApart DEF Stands, Shows, registry, Executes, Op
  <2> QED BY <2>3, <2>5 DEF Fine, Unsettled
<1> QED BY <1>0, <1>1, <1>2, <1>3, <1>5, <1>6, LoneStep

LEMMA HealthTrue ==
  ASSUME QInv, NEW r \in Requests, Healthy(r) \/ Unhealthy(r)
  PROVE \A j \in Kernels \ marred' : Good(j)'
<1>0. /\ TypeOK /\ UNCHANGED setup /\ UNCHANGED <<registry, obj, box, marred>>
      /\ req[r].at \in {"health", "await"} /\ req[r].at \notin {"new", "done"} \cup Joined
  BY PlacesApart DEF QInv, IInv, Typed, Healthy, Unhealthy, At
<1>1. PICK k \in Kernels : k = K(r)
  BY <1>0, Parts
<1>2. /\ req[r].at = "health" => req'[r].at \in {"ready", "failed"}
      /\ req'[r].o = req[r].o /\ req'[r].s = req[r].s
      /\ \A q \in Requests \ {r} : req'[q] = req[q]
  <2>1. "ready" \in Places /\ "failed" \in Places /\ "awake" \in Places /\ "failed" \in Outcomes
    BY DEF Places, Awaiting, Holding, Outcomes
  <2>2. CASE req[r].at = "health"
    <3>1. Goto(r, "ready") \/ Goto(r, "failed")
      BY <2>2 DEF Healthy, Unhealthy
    <3> QED BY <1>0, <2>1, <2>2, <3>1, GotoType
  <2>3. CASE req[r].at = "await"
    <3>1. Goto(r, "awake") \/ End(r, "failed")
      BY <2>3 DEF Healthy, Unhealthy
    <3> QED BY <1>0, <2>1, <2>3, <3>1, GotoType, EndType
  <2> QED BY <1>0, <2>2, <2>3
<1>3. \A j \in Kernels : SameBox(j)
  BY <1>0, BoxStays
<1>4. \A j \in Kernels : SameRecord(j)
  BY <1>0, RecordsStay
<1>5. ASSUME k \notin marred PROVE Fine(r, k)'
  <2>1. req[r].at = "health" /\ req[r].at \in Launching
    <3>1. Stands(r, k)
      BY <1>0, <1>1, <1>5, LoneSetting
    <3> QED BY <1>0, <3>1, PlacesApart DEF Stands
  <2>2. /\ WorksOn(r, k) /\ req[r].s = reg[k] /\ Shows(k, {"starting"}) /\ reg[k] \in Objects
        /\ Executes(r) => req[r].o = reg[k]
        /\ KnownBox(k) /\ obj[reg[k]].port = box[k].port
    BY <1>1, <1>5, <2>1, Launched DEF Stands
  <2>3. WorksOn(r, k)' /\ Shows(k, {"starting"})' /\ ~Shows(k, {"idle", "executing"})'
    BY <1>0, <1>2, <2>1, <2>2 DEF WorksOn, Active, K, Op, Shows, registry
  <2>4. KnownBox(k)' /\ obj'[reg'[k]].port = box'[k].port
    BY <1>0, <2>2 DEF KnownBox, registry
  <2>5. Stands(r, k)'
    BY <1>0, <1>2, <2>1, <2>2, <2>3, <2>4, PlacesApart DEF Stands, Shows, registry, Executes, Op
  <2> QED BY <1>2, <2>1, <2>3, <2>5 DEF Fine, Unsettled
<1> QED BY <1>0, <1>1, <1>2, <1>3, <1>4, <1>5, LoneStep

LEMMA ReadyTrue ==
  ASSUME QInv, NEW r \in Requests, Ready(r)
  PROVE \A j \in Kernels \ marred' : Good(j)'
<1>0. /\ TypeOK /\ UNCHANGED setup /\ UNCHANGED <<registry, box, marred>>
      /\ req[r].at \in {"ready", "awake"} /\ req[r].at \notin {"new", "done"} \cup Joined
  BY PlacesApart DEF QInv, IInv, Typed, Ready, At
<1>1. PICK k \in Kernels : k = K(r)
  BY <1>0, Parts
<1>2. /\ req'[r].at \in {"mark", "done"} /\ (req'[r].at = "mark" => Executes(r))
      /\ req'[r].o = req[r].o /\ req'[r].s = req[r].s
      /\ \A q \in Requests \ {r} : req'[q] = req[q]
  BY <1>0, StartedType DEF Ready
<1>3. \A j \in Kernels : SameBox(j)
  BY <1>0, BoxStays
<1> DEFINE o == IF req[r].at = "ready" THEN req[r].s ELSE req[r].o
<1>4. SetState(o, "idle") /\ "idle" \in States /\ o \in {req[r].o, req[r].s}
  BY DEF Ready, States
<1>5. o = IF req[r].at = "ready" THEN req[r].s ELSE req[r].o
  OBVIOUS
<1> HIDE DEF o
<1>6. \A j \in Kernels \ {k} : SameRecord(j)
  <2>1. \A x \in Objects : x # o => obj'[x] = obj[x]
    BY <1>0, <1>4, SetStateType
  <2> QED BY <1>0, <1>1, <1>4, <2>1, OwnSet DEF registry
<1>7. ASSUME k \notin marred PROVE Fine(r, k)'
  <2>1. req[r].at = "ready" /\ req[r].at \in Launching
    <3>1. Stands(r, k)
      BY <1>0, <1>1, <1>7, LoneSetting
    <3> QED BY <1>0, <3>1, PlacesApart DEF Stands
  <2>2. /\ WorksOn(r, k) /\ req[r].s = reg[k] /\ Shows(k, {"starting"}) /\ reg[k] \in Objects
        /\ Executes(r) => req[r].o = reg[k]
        /\ KnownBox(k) /\ obj[reg[k]].port = box[k].port
    BY <1>1, <1>7, <2>1, Launched DEF Stands
  <2>3. obj'[reg[k]].state = "idle" /\ obj'[reg[k]].cid = obj[reg[k]].cid /\ obj'[reg[k]].port = obj[reg[k]].port
    BY <1>0, <1>4, <1>5, <2>1, <2>2, StateSet
  <2>4. KnownBox(k)' /\ obj'[reg'[k]].port = box'[k].port /\ reg'[k] # None /\ obj'[reg'[k]].state = "idle"
    BY <1>0, <2>2, <2>3 DEF KnownBox, registry
  <2>5. WorksOn(r, k)' => Stands(r, k)'
    <3>1. WorksOn(r, k)' => req'[r].at = "mark" /\ req'[r].o = reg'[k] /\ reg'[k] # None
      BY <1>0, <1>2, <2>2, <2>4 DEF WorksOn, Active, registry
    <3> QED BY <3>1, PlacesApart DEF Stands
  <2> QED BY <2>4, <2>5 DEF Fine, Known
<1> QED BY <1>0, <1>1, <1>2, <1>3, <1>6, <1>7, LoneStep

LEMMA FailedTrue ==
  ASSUME QInv, NEW r \in Requests, Failed(r)
  PROVE \A j \in Kernels \ marred' : Good(j)'
<1>0. /\ TypeOK /\ UNCHANGED setup /\ UNCHANGED <<registry, box, marred>>
      /\ req[r].at = "failed" /\ req[r].at \notin {"new", "done"} \cup Joined /\ req[r].at \in Launching
  BY PlacesApart DEF QInv, IInv, Typed, Failed, At
<1>1. PICK k \in Kernels : k = K(r)
  BY <1>0, Parts
<1>2. /\ req'[r].at = "tidy" /\ req'[r].o = req[r].o /\ req'[r].s = req[r].s
      /\ \A q \in Requests \ {r} : req'[q] = req[q]
  <2>1. "tidy" \in Places
    BY DEF Places, Holding
  <2> QED BY <1>0, <2>1, GotoType DEF Failed
<1>3. \A j \in Kernels : SameBox(j)
  BY <1>0, BoxStays
<1>4. SetState(req[r].s, "error") /\ "error" \in States
  BY DEF Failed, States
<1>5. \A j \in Kernels \ {k} : SameRecord(j)
  <2>1. \A x \in Objects : x # req[r].s => obj'[x] = obj[x]
    BY <1>0, <1>4, SetStateType
  <2> QED BY <1>0, <1>1, <2>1, OwnSet DEF registry
<1>6. ASSUME k \notin marred PROVE Fine(r, k)'
  <2>1. /\ WorksOn(r, k) /\ req[r].s = reg[k] /\ Shows(k, {"starting"}) /\ reg[k] \in Objects
        /\ Executes(r) => req[r].o = reg[k]
        /\ Running(k) => KnownBox(k)
    BY <1>0, <1>1, <1>6, Launched DEF Stands
  <2>2. obj'[reg[k]].state = "error" /\ obj'[reg[k]].cid = obj[reg[k]].cid
    BY <1>0, <1>4, <2>1, StateSet
  <2>3. WorksOn(r, k)' /\ Shows(k, {"error"})' /\ ~Shows(k, {"idle", "executing"})'
    BY <1>0, <1>2, <2>1, <2>2 DEF WorksOn, Active, K, Op, Shows, registry
  <2>4. Running(k)' => KnownBox(k)'
    BY <1>0, <2>1, <2>2 DEF KnownBox, Running, registry
  <2>5. Stands(r, k)'
    BY <1>0, <1>2, <2>1, <2>3, <2>4, PlacesApart DEF Stands, Shows, registry, Executes, Op
  <2> QED BY <1>2, <2>3, <2>5 DEF Fine, Unsettled
<1> QED BY <1>0, <1>1, <1>2, <1>3, <1>5, <1>6, LoneStep

LEMMA TidyTrue ==
  ASSUME QInv, NEW r \in Requests, Tidy(r)
  PROVE \A j \in Kernels \ marred' : Good(j)'
<1>0. /\ TypeOK /\ UNCHANGED setup /\ UNCHANGED <<registry, obj>>
      /\ req[r].at = "tidy" /\ req[r].at \notin {"new", "done"} \cup Joined
  BY PlacesApart DEF QInv, IInv, Typed, Tidy, At
<1>1. PICK k \in Kernels : k = K(r)
  BY <1>0, Parts
<1>2. /\ req'[r].at = "done"
      /\ \A q \in Requests \ {r} : req'[q] = req[q]
  <2>1. "failed" \in Outcomes
    BY DEF Outcomes
  <2> QED BY <1>0, <2>1, EndType DEF Tidy
<1>3. /\ \A j \in Kernels \ {k} : SameBox(j)
      /\ marred' \in {marred, marred \cup {k}}
      /\ k \notin marred' => box'[k] = IF KnownBox(k) THEN None ELSE box[k]
  BY <1>0, <1>1, CleanupQuiet DEF Tidy
<1>4. ASSUME k \notin marred' PROVE Fine(r, k)'
  <2>1. Stands(r, k)
    BY <1>0, <1>1, <1>3, <1>4, LoneSetting
  <2>2. Shows(k, {"error"}) /\ (Running(k) => KnownBox(k))
    BY <1>0, <2>1 DEF Stands
  <2>3. ~Running(k)'
    BY <1>3, <1>4, <2>2 DEF Running
  <2>4. ~Shows(k, {"idle", "executing"})' /\ ~WorksOn(r, k)'
    BY <1>0, <1>2, <2>2 DEF Shows, registry, WorksOn, Active
  <2> QED BY <2>3, <2>4 DEF Fine, Known
<1>5. \A j \in Kernels : SameRecord(j)
  BY <1>0, RecordsStay
<1> QED BY <1>0, <1>1, <1>2, <1>3, <1>4, <1>5, LoneStep

-----------------------------------------------------------------------------
(* Stops and deletes. *)
LEMMA HaltTrue ==
  ASSUME QInv, NEW r \in Requests, Halt(r)
  PROVE \A j \in Kernels \ marred' : Good(j)'
<1>0. /\ TypeOK /\ UNCHANGED setup /\ UNCHANGED <<registry, obj>>
      /\ req[r].at = "halt" /\ req[r].at \notin {"new", "done"} \cup Joined
  BY PlacesApart DEF QInv, IInv, Typed, Halt, At
<1>1. PICK k \in Kernels : k = K(r)
  BY <1>0, Parts
<1>2. /\ req'[r].at = "halted" /\ req'[r].o = req[r].o
      /\ \A q \in Requests \ {r} : req'[q] = req[q]
  <2>1. "halted" \in Places
    BY DEF Places, Holding
  <2> QED BY <1>0, <2>1, GotoType DEF Halt
<1>3. /\ \A j \in Kernels \ {k} : SameBox(j)
      /\ marred' \in {marred, marred \cup {k}}
      /\ k \notin marred' => box'[k] = IF KnownBox(k) THEN None ELSE box[k]
  BY <1>0, <1>1, CleanupQuiet DEF Halt
<1>4. ASSUME k \notin marred' PROVE Fine(r, k)'
  <2>1. Fine(r, k) /\ Stands(r, k) /\ WorksOn(r, k)
    BY <1>0, <1>1, <1>3, <1>4, LoneSetting
  <2>2. req[r].o = reg[k] /\ reg[k] # None /\ ~Executes(r)
    BY <1>0, <2>1 DEF Stands
  <2>3. ~Running(k)'
    BY <1>0, <1>3, <1>4, <2>1 DEF Fine, Known, Unsettled, Running, KnownBox
  <2>4. WorksOn(r, k)' /\ Doomed(r, k)'
    BY <1>0, <1>2, <2>1 DEF WorksOn, Active, K, Op, Doomed
  <2>5. Stands(r, k)'
    BY <1>0, <1>2, <2>2, <2>3, PlacesApart DEF Stands, registry, Executes, Op
  <2> QED BY <2>3, <2>4, <2>5 DEF Fine, Known
<1>5. \A j \in Kernels : SameRecord(j)
  BY <1>0, RecordsStay
<1> QED BY <1>0, <1>1, <1>2, <1>3, <1>4, <1>5, LoneStep

LEMMA HaltedTrue ==
  ASSUME QInv, NEW r \in Requests, Halted(r)
  PROVE \A j \in Kernels \ marred' : Good(j)'
<1>0. /\ TypeOK /\ UNCHANGED setup /\ UNCHANGED <<registry, box, marred>>
      /\ req[r].at = "halted" /\ req[r].at \notin {"new", "done"} \cup Joined
  BY PlacesApart DEF QInv, IInv, Typed, Halted, At
<1>1. PICK k \in Kernels : k = K(r)
  BY <1>0, Parts
<1>2. /\ req'[r].at \in {"drop", "done"}
      /\ \A q \in Requests \ {r} : req'[q] = req[q]
  <2>1. "drop" \in Places /\ "ok" \in Outcomes
    BY DEF Places, Holding, Outcomes
  <2>2. Goto(r, "drop") \/ End(r, "ok")
    BY DEF Halted
  <2> QED BY <1>0, <2>1, <2>2, GotoType, EndType
<1>3. \A j \in Kernels : SameBox(j)
  BY <1>0, BoxStays
<1>4. obj' = [obj EXCEPT ![req[r].o] = [@ EXCEPT !.state = "stopped", !.cid = None]]
  BY DEF Halted
<1>5. \A j \in Kernels \ {k} : SameRecord(j)
  <2>1. \A x \in Objects : x # req[r].o => obj'[x] = obj[x]
    BY <1>0, <1>4 DEF TypeOK
  <2> QED BY <1>0, <1>1, <2>1, OwnSet DEF registry
<1>6. ASSUME k \notin marred PROVE Fine(r, k)'
  <2>1. Stands(r, k) /\ WorksOn(r, k)
    BY <1>0, <1>1, <1>6, LoneSetting
  <2>2. req[r].o = reg[k] /\ reg[k] # None /\ reg[k] \in Objects /\ ~Running(k) /\ ~Executes(r)
    BY <1>0, <2>1 DEF Stands, TypeOK
  <2>3. obj'[reg[k]].state = "stopped"
    BY <1>0, <1>4, <2>2, ResetSet
  <2>4. ~Running(k)' /\ ~Shows(k, {"idle", "executing"})'
    BY <1>0, <2>2, <2>3 DEF Running, Shows, registry
  <2>5. WorksOn(r, k)' => Stands(r, k)'
    <3>1. WorksOn(r, k)' => req'[r].at = "drop"
      BY <1>2 DEF WorksOn, Active
    <3> QED BY <1>0, <2>2, <2>4, <3>1, PlacesApart DEF Stands, Executes, Op
  <2> QED BY <2>4, <2>5 DEF Fine, Known
<1> QED BY <1>0, <1>1, <1>2, <1>3, <1>5, <1>6, LoneStep

LEMMA DropTrue ==
  ASSUME QInv, NEW r \in Requests, Drop(r)
  PROVE \A j \in Kernels \ marred' : Good(j)'
<1>0. /\ TypeOK /\ UNCHANGED setup /\ UNCHANGED <<obj, box>> /\ marred' \in {marred, marred \cup {K(r)}}
      /\ req[r].at = "drop" /\ req[r].at \notin {"new", "done"} \cup Joined
  BY PlacesApart DEF QInv, IInv, Typed, Drop, Store, At
<1>1. PICK k \in Kernels : k = K(r)
  BY <1>0, Parts
<1>2. /\ req'[r].at = "done"
      /\ \A q \in Requests \ {r} : req'[q] = req[q]
  <2>1. "ok" \in Outcomes
    BY DEF Outcomes
  <2> QED BY <1>0, <2>1, EndType DEF Drop
<1>3. \A j \in Kernels : SameBox(j)
  BY <1>0, BoxStays
<1>4. reg'[k] = None /\ \A j \in Kernels \ {k} : reg'[j] = reg[j]
  BY <1>0, <1>1 DEF Drop, TypeOK
<1>5. \A j \in Kernels \ {k} : SameRecord(j)
  BY <1>0, <1>4 DEF SameRecord
<1>6. ASSUME k \notin marred PROVE Fine(r, k)'
  <2>1. ~Running(k)
    <3>1. Stands(r, k)
      BY <1>0, <1>1, <1>6, LoneSetting
    <3> QED BY <1>0, <3>1 DEF Stands
  <2>2. ~Running(k)' /\ ~Shows(k, {"idle", "executing"})' /\ ~WorksOn(r, k)'
    BY <1>0, <1>2, <1>4, <2>1 DEF Running, Shows, WorksOn, Active
  <2> QED BY <2>2 DEF Fine, Known
<1> QED BY <1>0, <1>1, <1>2, <1>3, <1>5, <1>6, LoneStep

(* A request begins. *)
LEMMA LoneBegin ==
  ASSUME QInv, NEW r \in Requests, NEW k \in Kernels, k = K(r), r \notin {q \in Requests : Active(q)},
         ~Meets(r), Op(r) # "interrupt",
         ~(Executes(r) /\ Shows(k, {"idle", "executing"}))
  PROVE Lone(r, k)
BY DEF Lone, WorksOn, Meets, Shows

LEMMA JoinedBegin ==
  ASSUME QInv, NEW r \in Requests, NEW k \in Kernels, k = K(r), ~Meets(r), Good(k),
         Executes(r), Shows(k, {"idle", "executing"}),
         NEW q \in Requests \ {r}, WorksOn(q, k)
  PROVE req[q].at \in Joined
<1>1. Executes(q) /\ Stands(q, k) /\ Active(q)
  BY DEF WorksOn, Meets, Good, Executes
<1>2. req[q].at \in Places
  BY Parts DEF QInv, IInv, Typed
<1>3. ~Shows(k, {"stopped", "error"}) /\ ~Shows(k, {"starting"}) /\ ~Shows(k, {"error"})
  BY DEF Shows
<1> QED BY <1>1, <1>2, <1>3, PlacesApart DEF Stands, Places, Awaiting, Holding, Active

LEMMA JoinedNext ==
  ASSUME NEW k \in Kernels, Held(k)',
         Known(k)' /\ (Running(k)' => obj'[reg'[k]].state \in {"idle", "executing"}),
         \A q \in Requests : WorksOn(q, k)' => req'[q].at \in Joined /\ Stands(q, k)'
  PROVE Good(k)'
<1>1. Apart(k)'
  BY DEF Apart
<1>2. Settled(k)'
  BY DEF Settled
<1> QED BY <1>1, <1>2 DEF Good

LEMMA BeginTrue ==
  ASSUME QInv, NEW r \in Requests, Begin(r)
  PROVE \A j \in Kernels \ marred' : Good(j)'
<1>0. /\ TypeOK /\ UNCHANGED setup /\ UNCHANGED <<registry, obj, box>>
      /\ req[r].at = "new"
  BY DEF QInv, IInv, Typed, Begin, At
<1>1. PICK k \in Kernels : k = K(r)
  BY <1>0, Parts
<1>2. \A j \in Kernels : SameBox(j) /\ SameRecord(j)
  BY <1>0, BoxStays, RecordsStay
<1>3. marred' \in {marred, marred \cup {k}} /\ (k \notin marred' => k \notin marred /\ ~Meets(r) /\ Good(k))
  BY <1>1 DEF Begin, QInv, Truth
<1>4. ~WorksOn(r, k) /\ ~Active(r)
  BY <1>0 DEF WorksOn, Active
<1>5. CASE End(r, "failed")
  <2>0. "failed" \in Outcomes
    BY DEF Outcomes
  <2>1. /\ req'[r].at = "done"
        /\ \A q \in Requests \ {r} : req'[q] = req[q]
    BY <1>0, <1>5, <2>0, EndType
  <2>2. \A q \in Requests \ {r} : SamePlace(q)
    BY <2>1, PlaceStays
  <2>3. ~WorksOn(r, k)'
    BY <2>1 DEF WorksOn, Active
  <2>4. k \notin marred' => Good(k)'
    BY <1>0, <1>2, <1>3, <1>4, <2>2, <2>3, SameGood
  <2> QED BY <1>0, <1>1, <1>2, <1>3, <2>2, <2>4, StepGood
<1>6. ASSUME NEW p \in Ports, Op(r) = "create", reg[k] = None,
             Move(r, [req[r] EXCEPT !.at = IF K(r) \in setup.packaged THEN "baking" ELSE "commit", !.port = p])
      PROVE \A j \in Kernels \ marred' : Good(j)'
  <2> DEFINE new == [req[r] EXCEPT !.at = IF K(r) \in setup.packaged THEN "baking" ELSE "commit", !.port = p]
  <2>1. new \in Request /\ new.at \in {"baking", "commit"}
    <3> DEFINE w == IF K(r) \in setup.packaged THEN "baking" ELSE "commit"
    <3>1. w \in {"baking", "commit"} /\ w \in Places
      BY DEF Places, Awaiting, Holding
    <3>2. req[r] \in [at : Places, o : Objects \cup {None}, s : Objects \cup {None},
                     port : Ports \cup {None}, out : Outcomes]
      BY <1>0, Parts DEF Request
    <3> HIDE DEF w
    <3>3. [req[r] EXCEPT !.at = w, !.port = p].at = w
      BY ONLY <3>2
    <3>4. [req[r] EXCEPT !.at = w, !.port = p] \in
             [at : Places, o : Objects \cup {None}, s : Objects \cup {None},
              port : Ports \cup {None}, out : Outcomes]
      BY ONLY <3>1, <3>2, p \in Ports
    <3> QED BY <3>1, <3>3, <3>4 DEF w, Request
  <2>2. Move(r, new)
    BY <1>6
  <2> HIDE DEF new
  <2>3. /\ req'[r].at \in {"baking", "commit"}
        /\ \A q \in Requests \ {r} : req'[q] = req[q]
    BY <1>0, <2>1, <2>2, MoveType
  <2>4. \A q \in Requests \ {r} : SamePlace(q)
    BY <2>3, PlaceStays
  <2>5. ASSUME k \notin marred' PROVE Good(k)'
    <3>1. Lone(r, k) /\ Good(k)
      BY <1>0, <1>1, <1>3, <1>4, <1>6, <2>5, LoneBegin DEF Executes
    <3>2. Fine(r, k) /\ Lone(r, k)'
      BY <1>0, <2>3, <3>1, LoneNow, LoneStays
    <3>3. Stands(r, k)'
      BY <1>0, <1>6, <2>3, PlacesApart DEF Stands, registry, Executes, Op
    <3>4. Fine(r, k)'
      BY <1>0, <1>2, <3>2, <3>3, QuietMove DEF Unsettled
    <3> QED BY <3>2, <3>4, LoneNext
  <2> QED BY <1>0, <1>1, <1>2, <1>3, <2>4, <2>5, StepGood
<1>7. CASE Op(r) # "create" /\ reg[k] # None /\ Move(r, [req[r] EXCEPT !.at = FirstPlace(r), !.o = reg[k]])
  <2> DEFINE new == [req[r] EXCEPT !.at = FirstPlace(r), !.o = reg[k]]
  <2>0. reg[k] \in Objects /\ FirstPlace(r) \in {"prepare", "halt", "drop", "cut", "mark", "await", "recycle"}
    BY <1>0, <1>7, FirstPlaceType DEF TypeOK
  <2>1. new \in Request /\ new.at = FirstPlace(r) /\ new.o = reg[k] /\ new.s = req[r].s
    BY <1>0, <2>0, Parts DEF Request, Places, Holding, Awaiting
  <2>2. Move(r, new)
    BY <1>7
  <2> HIDE DEF new
  <2>3. /\ req'[r].at = FirstPlace(r) /\ req'[r].o = reg[k]
        /\ \A q \in Requests \ {r} : req'[q] = req[q]
    BY <1>0, <2>1, <2>2, MoveType
  <2>4. \A q \in Requests \ {r} : SamePlace(q)
    BY <2>3, PlaceStays
  <2>5. ASSUME k \notin marred' PROVE Good(k)'
    <3>0. Good(k) /\ ~Meets(r) /\ k \notin marred /\ Op(r) \in Ops
      BY <1>0, <1>3, <2>5, SetupType DEF Op
    <3>1. CASE Op(r) = "interrupt"
      <4>1. ~WorksOn(r, k)'
        BY <1>0, <3>1 DEF WorksOn, Op
      <4> QED BY <1>0, <1>2, <1>4, <2>4, <3>0, <4>1, SameGood
    <3>2. CASE Op(r) # "interrupt" /\ ~(Executes(r) /\ Shows(k, {"idle", "executing"}))
      <4>1. Lone(r, k)
        BY <1>1, <1>4, <3>0, <3>2, LoneBegin
      <4>2. Fine(r, k) /\ Lone(r, k)'
        BY <1>0, <2>3, <3>0, <4>1, LoneNow, LoneStays
      <4>3. Shows(k, {"stopped", "idle", "error"})
        BY <1>0, <1>7, <4>1, NobodyBusy DEF Launching, Marked
      <4>4. /\ FirstPlace(r) \in {"prepare", "halt", "drop", "recycle"}
            /\ FirstPlace(r) = "drop" => ~Executes(r) /\ Shows(k, {"stopped", "error"})
            /\ FirstPlace(r) = "prepare" => ~Executes(r)
            /\ FirstPlace(r) = "halt" => ~Executes(r)
            /\ FirstPlace(r) = "recycle" => Shows(k, {"stopped", "error"})
        BY <1>1, <1>7, <3>0, <3>2, <4>3 DEF FirstPlace, Ops, Executes, Shows
      <4>5. FirstPlace(r) = "drop" => ~Running(k)
        BY <1>4, <4>2, <4>4 DEF Fine, Shows, Known
      <4>6. Stands(r, k)'
        BY <1>0, <1>7, <2>3, <4>4, <4>5, PlacesApart DEF Stands, registry, Executes, Op, Shows, Running
      <4>7. Fine(r, k)'
        BY <1>0, <1>2, <4>2, <4>6, QuietMove DEF Unsettled
      <4> QED BY <4>2, <4>7, LoneNext
    <3>3. CASE Executes(r) /\ Shows(k, {"idle", "executing"})
      <4>1. req'[r].at = "mark"
        BY <1>1, <2>3, <3>3 DEF FirstPlace, Executes, Shows
      <4>2. \A q \in Requests \ {r} : WorksOn(q, k) => req[q].at \in Joined
        BY <1>1, <3>0, <3>3, JoinedBegin
      <4>3. \A q \in Requests : WorksOn(q, k)' => req'[q].at \in Joined /\ Stands(q, k)'
        <5> TAKE q \in Requests
        <5>1. CASE q = r
          BY <1>0, <1>7, <2>3, <4>1, <5>1, PlacesApart DEF Stands, registry
        <5>2. CASE q # r
          BY <1>0, <1>2, <2>4, <3>0, <4>2, <5>2, SamePlaceFacts, SameStands DEF Good
        <5> QED BY <5>1, <5>2
      <4>4. Known(k)' /\ (Running(k)' => obj'[reg'[k]].state \in {"idle", "executing"})
        <5>1. \A q \in Requests : WorksOn(q, k) => req[q].at \notin Unsettled
          BY <1>4, <4>2, PlacesApart DEF Unsettled
        <5> QED BY <1>0, <3>0, <5>1 DEF Good, Settled, Known, Running, KnownBox, registry
      <4>5. Held(k)'
        <5>1. KnownBox(k) \/ \E q \in Requests \ {r} : Doomed(q, k)
          BY <1>4, <3>0, <3>3 DEF Good, Held, Shows, Doomed
        <5>2. KnownBox(k)' = KnownBox(k)
          BY <1>2, SameBoxFacts
        <5>3. \A q \in Requests \ {r} : Doomed(q, k)' = Doomed(q, k)
          BY <1>0, <2>4, SamePlaceFacts
        <5> QED BY <5>1, <5>2, <5>3 DEF Held
      <4> QED BY <4>3, <4>4, <4>5, JoinedNext
    <3> QED BY <3>1, <3>2, <3>3 DEF Executes
  <2> QED BY <1>0, <1>1, <1>2, <1>3, <2>4, <2>5, StepGood
<1> QED BY <1>1, <1>5, <1>6, <1>7 DEF Begin

-----------------------------------------------------------------------------
(* Executions that may share their kernel with others. *)
LEMMA JoinedSetting ==
  ASSUME QInv, NEW r \in Requests, NEW k \in Kernels, k = K(r), k \notin marred,
         req[r].at \in Joined, Op(r) # "interrupt"
  PROVE /\ WorksOn(r, k) /\ Good(k) /\ reg[k] # None /\ reg[k] \in Objects /\ req[r].o = reg[k]
        /\ \A q \in Requests : WorksOn(q, k) => req[q].at \in Joined /\ Stands(q, k)
        /\ Known(k) /\ (Running(k) => obj[reg[k]].state \in {"idle", "executing"})
        /\ req[r].at \in {"oom", "down"} => ~Running(k)
<1>1. WorksOn(r, k) /\ Good(k)
  BY PlacesApart DEF WorksOn, Active, QInv, Truth
<1>2. reg[k] # None /\ req[r].o = reg[k] /\ (req[r].at \in {"oom", "down"} => ~Running(k))
  BY <1>1 DEF Good, Stands
<1>3. reg[k] \in Objects
  BY <1>2 DEF QInv, IInv, Typed, TypeOK
<1>4. \A q \in Requests : WorksOn(q, k) => req[q].at \in Joined /\ Stands(q, k)
  BY <1>1 DEF Good, Apart
<1>5. \A q \in Requests : WorksOn(q, k) => req[q].at \notin Unsettled
  BY <1>4, PlacesApart DEF Unsettled
<1> QED BY <1>1, <1>2, <1>3, <1>4, <1>5 DEF Good, Settled

LEMMA JoinedStep ==
  ASSUME QInv, NEW r \in Requests, NEW k \in Kernels, k = K(r), k \notin marred,
         req[r].at \in Joined, Op(r) # "interrupt",
         UNCHANGED <<setup, registry>>, SameBox(k), \A q \in Requests \ {r} : SamePlace(q),
         req'[r].o = req[r].o, req'[r].at \in Joined \cup {"done"},
         req'[r].at \in {"oom", "down"} => ~Running(k),
         Running(k) => /\ obj'[reg[k]].cid = obj[reg[k]].cid /\ obj'[reg[k]].port = obj[reg[k]].port
                       /\ obj'[reg[k]].state \in {"idle", "executing"},
         Held(k)'
  PROVE Good(k)'
<1>1. /\ WorksOn(r, k) /\ reg[k] # None /\ req[r].o = reg[k] /\ Known(k)
      /\ \A q \in Requests : WorksOn(q, k) => req[q].at \in Joined /\ Stands(q, k)
  BY JoinedSetting
<1>2. Running(k)' = Running(k)
  BY DEF SameBox, Running
<1>3. Known(k)' /\ (Running(k)' => obj'[reg'[k]].state \in {"idle", "executing"})
  BY <1>1, <1>2 DEF Known, KnownBox, SameBox, registry
<1>4. \A q \in Requests : WorksOn(q, k)' => req'[q].at \in Joined /\ Stands(q, k)'
  <2> TAKE q \in Requests
  <2>1. CASE q = r
    <3>1. WorksOn(q, k)' => req'[q].at \in Joined
      BY <2>1 DEF WorksOn, Active
    <3>2. req'[q].at \in Joined => Stands(q, k)'
      BY <1>1, <1>2, <2>1, PlacesApart DEF Stands, registry
    <3> QED BY <3>1, <3>2
  <2>2. CASE q # r
    <3>1. SamePlace(q)
      BY <2>2
    <3>2. WorksOn(q, k)' => WorksOn(q, k) /\ req'[q].at \in Joined
      BY <1>1, <3>1, SamePlaceFacts
    <3>3. WorksOn(q, k) /\ req'[q].at \in Joined => Stands(q, k)'
      BY <1>1, <1>2, <3>1, PlacesApart DEF Stands, registry, SamePlace, Executes, Op
    <3> QED BY <3>2, <3>3
  <2> QED BY <2>1, <2>2
<1> QED BY <1>3, <1>4, JoinedNext

(* A kernel shown as running is known, or an execution is still to look. *)
LEMMA HeldByOthers ==
  ASSUME QInv, NEW r \in Requests, NEW k \in Kernels, Good(k), UNCHANGED <<setup, registry>>, SameBox(k),
         \A q \in Requests \ {r} : SamePlace(q), ~Doomed(r, k),
         reg[k] # None => /\ obj'[reg[k]].cid = obj[reg[k]].cid
                          /\ obj'[reg[k]].state \in {"idle", "executing"} => obj[reg[k]].state \in {"idle", "executing"}
  PROVE Held(k)'
<1> SUFFICES ASSUME reg[k] # None, obj'[reg[k]].state \in {"idle", "executing"}
             PROVE KnownBox(k)' \/ \E q \in Requests : Doomed(q, k)'
  BY DEF Held, registry
<1>1. KnownBox(k) \/ \E q \in Requests \ {r} : Doomed(q, k)
  BY DEF Good, Held
<1>2. KnownBox(k) => KnownBox(k)'
  BY DEF KnownBox, SameBox, registry
<1>3. \A q \in Requests \ {r} : Doomed(q, k)' = Doomed(q, k)
  BY SamePlaceFacts
<1> QED BY <1>1, <1>2, <1>3

LEMMA HeldByItself ==
  ASSUME NEW r \in Requests, NEW k \in Kernels, WorksOn(r, k), UNCHANGED setup,
         req'[r].at \in {"post", "broken", "down"}
  PROVE Held(k)'
<1>1. Doomed(r, k)'
  BY DEF Doomed, WorksOn, K, Op, Active
<1> QED BY <1>1 DEF Held

LEMMA HeldByBox ==
  ASSUME NEW k \in Kernels, KnownBox(k), SameBox(k), UNCHANGED registry,
         obj'[reg[k]].cid = obj[reg[k]].cid
  PROVE Held(k)'
BY DEF Held, KnownBox, SameBox, registry

(* An execution moves on and leaves the record as it is. *)
LEMMA JoinedMove ==
  ASSUME QInv, NEW r \in Requests, NEW k \in Kernels, k = K(r),
         req[r].at \in Joined, Op(r) # "interrupt",
         UNCHANGED <<setup, registry, obj>>, \A j \in Kernels : SameBox(j),
         \A q \in Requests \ {r} : SamePlace(q),
         req'[r].o = req[r].o, req'[r].at \in Joined \cup {"done"},
         marred' \in {marred, marred \cup {k}},
         k \notin marred' => /\ req'[r].at \in {"oom", "down"} => ~Running(k)
                             /\ Held(k)'
  PROVE \A j \in Kernels \ marred' : Good(j)'
<1>1. \A j \in Kernels : SameRecord(j)
  BY RecordsStay
<1>2. ASSUME k \notin marred' PROVE Good(k)'
  <2>1. k \notin marred
    BY <1>2
  <2>2. Running(k) => obj[reg[k]].state \in {"idle", "executing"}
    BY <2>1, JoinedSetting
  <2> QED BY <1>2, <2>1, <2>2, JoinedStep
<1> QED BY <1>1, <1>2, StepGood

LEMMA NoInterrupt ==
  ASSUME QInv, NEW r \in Requests, req[r].at \notin {"new", "cut", "done"}
  PROVE Op(r) # "interrupt"
BY DEF QInv, Truth, InterruptsCut

LEMMA MarkTrue ==
  ASSUME QInv, NEW r \in Requests, Mark(r)
  PROVE \A j \in Kernels \ marred' : Good(j)'
<1>0. /\ TypeOK /\ UNCHANGED setup /\ UNCHANGED <<registry, box, marred>>
      /\ req[r].at = "mark" /\ req[r].at \in Joined /\ Op(r) # "interrupt"
  BY PlacesApart, NoInterrupt DEF QInv, IInv, Typed, Mark, At
<1>1. PICK k \in Kernels : k = K(r)
  BY <1>0, Parts
<1>2. /\ req'[r].at = "post" /\ req'[r].o = req[r].o
      /\ \A q \in Requests \ {r} : req'[q] = req[q]
  <2>1. "post" \in Places
    BY DEF Places, Awaiting
  <2> QED BY <1>0, <2>1, GotoType DEF Mark
<1>3. /\ \A j \in Kernels : SameBox(j)
      /\ \A q \in Requests \ {r} : SamePlace(q)
  BY <1>0, <1>2, BoxStays, PlaceStays
<1>4. SetState(req[r].o, "executing") /\ "executing" \in States
  BY DEF Mark, States
<1>5. \A j \in Kernels \ {k} : SameRecord(j)
  <2>1. \A x \in Objects : x # req[r].o => obj'[x] = obj[x]
    BY <1>0, <1>4, SetStateType
  <2> QED BY <1>0, <1>1, <2>1, OwnSet DEF registry
<1>6. ASSUME k \notin marred PROVE Good(k)'
  <2>1. WorksOn(r, k) /\ reg[k] \in Objects /\ req[r].o = reg[k]
    BY <1>0, <1>1, <1>6, JoinedSetting
  <2>2. obj'[reg[k]].state = "executing" /\ obj'[reg[k]].cid = obj[reg[k]].cid /\ obj'[reg[k]].port = obj[reg[k]].port
    BY <1>0, <1>4, <2>1, StateSet
  <2>3. Held(k)'
    BY <1>0, <1>2, <2>1, HeldByItself
  <2>4. req'[r].at \in Joined /\ req'[r].at \notin {"oom", "down"}
    BY <1>2, PlacesApart
  <2> QED BY <1>0, <1>1, <1>2, <1>3, <1>6, <2>2, <2>3, <2>4, JoinedStep
<1> QED BY <1>0, <1>1, <1>3, <1>5, <1>6, StepGood

LEMMA PostTrue ==
  ASSUME QInv, NEW r \in Requests, Post(r)
  PROVE \A j \in Kernels \ marred' : Good(j)'
<1>0. /\ TypeOK /\ UNCHANGED setup /\ UNCHANGED <<registry, obj>>
      /\ req[r].at = "post" /\ req[r].at \in Joined /\ Op(r) # "interrupt"
      /\ "broken" \in Places /\ "posted" \in Places
  BY PlacesApart, NoInterrupt DEF QInv, IInv, Typed, Post, At, Places, Awaiting
<1>1. PICK k \in Kernels : k = K(r)
  BY <1>0, Parts
<1>2. CASE Goto(r, "broken") /\ UNCHANGED <<box, cell, marred>>
  <2>1. /\ req'[r].at = "broken" /\ req'[r].o = req[r].o
        /\ \A q \in Requests \ {r} : req'[q] = req[q]
    BY <1>0, <1>2, GotoType
  <2>2. /\ \A j \in Kernels : SameBox(j)
        /\ \A q \in Requests \ {r} : SamePlace(q)
    BY <1>2, <2>1, BoxStays, PlaceStays
  <2>3. k \notin marred' => Held(k)'
    BY <1>0, <1>1, <1>2, <2>1, JoinedSetting, HeldByItself
  <2>4. req'[r].at \in Joined /\ req'[r].at \notin {"oom", "down"}
    BY <2>1, PlacesApart
  <2> QED BY <1>0, <1>1, <1>2, <2>1, <2>2, <2>3, <2>4, JoinedMove
<1>3. ASSUME NEW j \in Answering(obj[req[r].o].port),
             box' = [box EXCEPT ![j] = [@ EXCEPT !.thread = r]],
             marred' = (IF j = k THEN marred ELSE marred \cup {k}), Goto(r, "posted")
      PROVE \A i \in Kernels \ marred' : Good(i)'
  <2>1. /\ req'[r].at = "posted" /\ req'[r].o = req[r].o
        /\ \A q \in Requests \ {r} : req'[q] = req[q]
    BY <1>0, <1>3, GotoType
  <2>2. j \in Kernels /\ box[j] \in Box /\ Running(j)
    <3>1. box \in [Kernels -> {None} \cup Box]
      BY <1>0 DEF TypeOK, Box
    <3> QED BY <3>1 DEF Answering, Running
  <2>3. \A i \in Kernels : SameBox(i)
    <3>1. /\ box'[j] = [box[j] EXCEPT !.thread = r]
          /\ \A i \in Kernels \ {j} : box'[i] = box[i]
      BY <1>0, <1>3, <2>2 DEF TypeOK
    <3>2. /\ box'[j] \in Box /\ box'[j].id = box[j].id /\ box'[j].port = box[j].port
          /\ box'[j].status = box[j].status
      BY <2>2, <3>1 DEF Box
    <3>3. None \notin Box
      BY ReclaimAssumption DEF Box, Boxes, Objects
    <3>4. SameBox(j)
      BY <2>2, <3>2, <3>3 DEF SameBox
    <3> QED BY <3>1, <3>4, BoxStays
  <2>4. \A q \in Requests \ {r} : SamePlace(q)
    BY <2>1, PlaceStays
  <2>5. k \notin marred' => Held(k)'
    <3> SUFFICES ASSUME k \notin marred' PROVE Held(k)'
      OBVIOUS
    <3>1. j = k /\ k \notin marred
      BY <1>3
    <3>2. KnownBox(k)
      BY <1>0, <1>1, <2>2, <3>1, JoinedSetting DEF Known
    <3> QED BY <1>0, <2>3, <3>2, HeldByBox
  <2>6. req'[r].at \in Joined /\ req'[r].at \notin {"oom", "down"}
    BY <2>1, PlacesApart
  <2> QED BY <1>0, <1>1, <1>3, <2>1, <2>3, <2>4, <2>5, <2>6, JoinedMove
<1> QED BY <1>1, <1>2, <1>3 DEF Post

LEMMA LoseTrue ==
  ASSUME QInv, NEW r \in Requests, Lose(r) \/ TimeOut(r)
  PROVE \A j \in Kernels \ marred' : Good(j)'
<1>0. /\ TypeOK /\ UNCHANGED setup /\ UNCHANGED <<registry, obj, box, marred>>
      /\ req[r].at = "posted" /\ req[r].at \in Joined /\ Op(r) # "interrupt"
      /\ "broken" \in Places /\ "timeout" \in Outcomes
  BY PlacesApart, NoInterrupt DEF QInv, IInv, Typed, Lose, TimeOut, At, Places, Awaiting, Outcomes
<1>1. PICK k \in Kernels : k = K(r)
  BY <1>0, Parts
<1>2. /\ req'[r].at = "broken" /\ req'[r].o = req[r].o
      /\ \A q \in Requests \ {r} : req'[q] = req[q]
  BY <1>0, GotoType, LeaveType DEF Lose, TimeOut
<1>3. /\ \A j \in Kernels : SameBox(j)
      /\ \A q \in Requests \ {r} : SamePlace(q)
  BY <1>0, <1>2, BoxStays, PlaceStays
<1>4. k \notin marred' => Held(k)'
  BY <1>0, <1>1, <1>2, JoinedSetting, HeldByItself
<1>5. req'[r].at \in Joined /\ req'[r].at \notin {"oom", "down"}
  BY <1>2, PlacesApart
<1> QED BY <1>0, <1>1, <1>2, <1>3, <1>4, <1>5, JoinedMove

LEMMA BrokenTrue ==
  ASSUME QInv, NEW r \in Requests, Broken(r)
  PROVE \A j \in Kernels \ marred' : Good(j)'
<1>0. /\ TypeOK /\ UNCHANGED setup /\ UNCHANGED <<registry, obj, box>>
      /\ req[r].at = "broken" /\ req[r].at \in Joined /\ Op(r) # "interrupt"
      /\ {"cut", "final", "oom", "down"} \subseteq Places /\ "failed" \in Outcomes
  BY PlacesApart, NoInterrupt DEF QInv, IInv, Typed, Broken, At, Places, Holding, Outcomes
<1>1. PICK k \in Kernels : k = K(r)
  BY <1>0, Parts
<1> DEFINE Raised == Goto(r, "cut") \/ Move(r, [req[r] EXCEPT !.at = "final", !.out = "failed"])
<1>2. \/ /\ UNCHANGED marred
         /\ \/ OutOfMemory(k) /\ Goto(r, "oom")
            \/ SeemsRunning(k) /\ Raised
            \/ ~SeemsRunning(k) /\ Goto(r, "down")
      \/ marred' = marred \cup {k} /\ Raised
  BY <1>1 DEF Broken
<1>3. Raised => /\ req'[r].at \in {"cut", "final"} /\ req'[r].o = req[r].o
                /\ \A q \in Requests \ {r} : req'[q] = req[q]
  BY <1>0, GotoType, LeaveType
<1> HIDE DEF Raised
<1>4. /\ req'[r].at \in {"oom", "cut", "final", "down"} /\ req'[r].o = req[r].o
      /\ \A q \in Requests \ {r} : req'[q] = req[q]
      /\ marred' \in {marred, marred \cup {k}}
      /\ k \notin marred' => /\ req'[r].at = "oom" => OutOfMemory(k)
                             /\ req'[r].at \in {"cut", "final"} => SeemsRunning(k)
                             /\ req'[r].at = "down" => ~SeemsRunning(k)
  <2>1. CASE UNCHANGED marred /\ OutOfMemory(k) /\ Goto(r, "oom")
    BY <1>0, <2>1, GotoType
  <2>2. CASE UNCHANGED marred /\ SeemsRunning(k) /\ Raised
    BY <1>3, <2>2
  <2>3. CASE UNCHANGED marred /\ ~SeemsRunning(k) /\ Goto(r, "down")
    BY <1>0, <2>3, GotoType
  <2>4. CASE marred' = marred \cup {k} /\ Raised
    BY <1>3, <2>4
  <2> QED BY <1>2, <2>1, <2>2, <2>3, <2>4
<1>5. /\ \A j \in Kernels : SameBox(j)
      /\ \A q \in Requests \ {r} : SamePlace(q)
  BY <1>0, <1>4, BoxStays, PlaceStays
<1>6. ASSUME k \notin marred' PROVE (req'[r].at \in {"oom", "down"} => ~Running(k)) /\ Held(k)'
  <2>1. k \notin marred
    BY <1>4, <1>6
  <2>2. Known(k) /\ WorksOn(r, k)
    BY <1>0, <1>1, <2>1, JoinedSetting
  <2>3. SeemsRunning(k) <=> Running(k)
    BY <2>2 DEF Known, KnownBox, SeemsRunning
  <2>4. OutOfMemory(k) => ~Running(k) /\ KnownBox(k)
    BY DEF OutOfMemory, Running
  <2>5. CASE req'[r].at = "down"
    BY <1>0, <1>4, <1>6, <2>2, <2>3, <2>5, HeldByItself
  <2>6. CASE req'[r].at # "down"
    BY <1>0, <1>4, <1>5, <1>6, <2>2, <2>3, <2>4, <2>6, HeldByBox DEF Known
  <2> QED BY <2>5, <2>6
<1>7. req'[r].at \in Joined
  BY <1>4, PlacesApart
<1> QED BY <1>0, <1>1, <1>4, <1>5, <1>6, <1>7, JoinedMove

LEMMA FallenTrue ==
  ASSUME QInv, NEW r \in Requests, Oom(r) \/ Down(r)
  PROVE \A j \in Kernels \ marred' : Good(j)'
<1>0. /\ TypeOK /\ UNCHANGED setup /\ UNCHANGED <<registry, box, marred>>
      /\ req[r].at \in {"oom", "down"} /\ req[r].at \in Joined /\ Op(r) # "interrupt"
      /\ "final" \in Places /\ {"oom", "down"} \subseteq Outcomes /\ "error" \in States
  BY PlacesApart, NoInterrupt DEF QInv, IInv, Typed, Oom, Down, At, Places, Holding, Outcomes, States
<1>1. PICK k \in Kernels : k = K(r)
  BY <1>0, Parts
<1>2. /\ req'[r].at = "final" /\ req'[r].o = req[r].o
      /\ \A q \in Requests \ {r} : req'[q] = req[q]
  BY <1>0, LeaveType DEF Oom, Down
<1>3. /\ \A j \in Kernels : SameBox(j)
      /\ \A q \in Requests \ {r} : SamePlace(q)
  BY <1>0, <1>2, BoxStays, PlaceStays
<1>4. \/ SetState(req[r].o, "error")
      \/ obj' = [obj EXCEPT ![req[r].o] = [@ EXCEPT !.state = "stopped", !.cid = None]]
  BY DEF Oom, Down
<1>5. \A j \in Kernels \ {k} : SameRecord(j)
  <2>1. \A x \in Objects : x # req[r].o => obj'[x] = obj[x]
    BY <1>0, <1>4, SetStateType DEF TypeOK
  <2> QED BY <1>0, <1>1, <2>1, OwnSet DEF registry
<1>6. ASSUME k \notin marred PROVE Good(k)'
  <2>1. ~Running(k) /\ reg[k] \in Objects /\ req[r].o = reg[k]
    BY <1>0, <1>1, <1>6, JoinedSetting
  <2>2. obj'[reg[k]].state \in {"error", "stopped"}
    BY <1>0, <1>4, <2>1, StateSet, ResetSet
  <2>3. Held(k)'
    BY <1>0, <2>2 DEF Held, registry
  <2>4. req'[r].at \in Joined /\ req'[r].at \notin {"oom", "down"}
    BY <1>2, PlacesApart
  <2> QED BY <1>0, <1>1, <1>2, <1>3, <1>6, <2>1, <2>3, <2>4, JoinedStep
<1> QED BY <1>0, <1>1, <1>3, <1>5, <1>6, StepGood

LEMMA FinallyTrue ==
  ASSUME QInv, NEW r \in Requests, Finally(r)
  PROVE \A j \in Kernels \ marred' : Good(j)'
<1>0. /\ TypeOK /\ UNCHANGED setup /\ UNCHANGED <<registry, box, marred>>
      /\ req[r].at \in {"answered", "final"} /\ req[r].at \in Joined /\ Op(r) # "interrupt"
  BY PlacesApart, NoInterrupt DEF QInv, IInv, Typed, Finally, At
<1>1. PICK k \in Kernels : k = K(r)
  BY <1>0, Parts
<1>2. /\ req'[r].at = "done" /\ req'[r].o = req[r].o
      /\ \A q \in Requests \ {r} : req'[q] = req[q]
  BY <1>0, Parts, EndType DEF Finally
<1>3. /\ \A j \in Kernels : SameBox(j)
      /\ \A q \in Requests \ {r} : SamePlace(q)
  BY <1>0, <1>2, BoxStays, PlaceStays
<1>4. obj' = [obj EXCEPT ![req[r].o].state = IF @ = "executing" THEN "idle" ELSE @]
  BY DEF Finally
<1>5. \A j \in Kernels \ {k} : SameRecord(j)
  <2>1. \A x \in Objects : x # req[r].o => obj'[x] = obj[x]
    BY <1>0, <1>4 DEF TypeOK
  <2> QED BY <1>0, <1>1, <2>1, OwnSet DEF registry
<1>6. ASSUME k \notin marred PROVE Good(k)'
  <2>1. /\ reg[k] \in Objects /\ req[r].o = reg[k] /\ Good(k)
        /\ Running(k) => obj[reg[k]].state \in {"idle", "executing"}
    BY <1>0, <1>1, <1>6, JoinedSetting
  <2>2. /\ obj'[reg[k]].state = IF obj[reg[k]].state = "executing" THEN "idle" ELSE obj[reg[k]].state
        /\ obj'[reg[k]].cid = obj[reg[k]].cid /\ obj'[reg[k]].port = obj[reg[k]].port
    BY <1>0, <1>4, <2>1, FinallySet
  <2>3. Held(k)'
    BY <1>0, <1>3, <2>1, <2>2, HeldByOthers DEF Doomed
  <2> QED BY <1>0, <1>1, <1>2, <1>3, <1>6, <2>1, <2>2, <2>3, JoinedStep
<1> QED BY <1>0, <1>1, <1>3, <1>5, <1>6, StepGood

(* Code that is interrupted. *)
LEMMA InterruptsKeep ==
  ASSUME TypeOK, NEW hit, Interrupts(hit)
  PROVE \A j \in Kernels : SameBox(j)
<1> TAKE j \in Kernels
<1>1. CASE box[j] # None /\ box[j].thread \in hit
  <2>1. box[j] \in Box /\ box'[j] = [box[j] EXCEPT !.thread = None]
    BY <1>1 DEF TypeOK, Box, Interrupts
  <2>2. /\ box'[j] \in Box /\ box'[j].id = box[j].id /\ box'[j].port = box[j].port
        /\ box'[j].status = box[j].status
    BY <2>1 DEF Box
  <2>3. None \notin Box
    BY ReclaimAssumption DEF Box, Boxes, Objects
  <2> QED BY <1>1, <2>2, <2>3 DEF SameBox
<1>2. CASE ~(box[j] # None /\ box[j].thread \in hit)
  BY <1>2, BoxStays DEF Interrupts
<1> QED BY <1>1, <1>2

LEMMA AnsweredKeeps ==
  ASSUME TypeOK, NEW hit, NEW q \in Requests, req'[q] = Answered(hit)[q]
  PROVE SamePlace(q)
BY AnsweredType DEF SamePlace

LEMMA CutTrue ==
  ASSUME QInv, NEW r \in Requests, Cut(r)
  PROVE \A j \in Kernels \ marred' : Good(j)'
<1>0. /\ TypeOK /\ Typed /\ UNCHANGED setup /\ UNCHANGED <<registry, obj, marred>>
      /\ req[r].at = "cut" /\ req[r].at \in Joined
  BY PlacesApart DEF QInv, IInv, Typed, Cut, At
<1>1. PICK k \in Kernels : k = K(r)
  BY <1>0, Parts
<1>2. /\ req'[r].at \in {"done", "final"} /\ req'[r].o = req[r].o
      /\ \A q \in Requests \ {r} : req'[q] = Answered(Hit(K(r)))[q]
  BY <1>0, CutTyped
<1>3. \A j \in Kernels : SameBox(j)
  BY <1>0, InterruptsKeep DEF Cut
<1>4. \A q \in Requests \ {r} : SamePlace(q)
  BY <1>0, <1>2, AnsweredKeeps
<1>5. CASE Op(r) = "interrupt"
  <2>1. \A j \in Kernels : SameRecord(j)
    BY <1>0, RecordsStay
  <2>2. ASSUME NEW j \in Kernels, Good(j) PROVE Good(j)'
    <3>1. ~WorksOn(r, j) /\ ~WorksOn(r, j)'
      BY <1>0, <1>5 DEF WorksOn, Op
    <3> QED BY <1>0, <1>3, <1>4, <2>1, <2>2, <3>1, SameGood
  <2> QED BY <1>0, <2>2 DEF QInv, Truth
<1>6. CASE Op(r) # "interrupt"
  <2>1. ASSUME k \notin marred PROVE Held(k)'
    <3>1. Good(k)
      BY <1>0, <1>1, <1>6, <2>1, JoinedSetting
    <3> QED BY <1>0, <1>3, <1>4, <3>1, HeldByOthers DEF Doomed
  <2>2. req'[r].at \in Joined \cup {"done"} /\ req'[r].at \notin {"oom", "down"}
    BY <1>2, PlacesApart
  <2> QED BY <1>0, <1>1, <1>2, <1>3, <1>4, <1>6, <2>1, <2>2, JoinedMove
<1> QED BY <1>5, <1>6

LEMMA SeeCancelTrue ==
  ASSUME QInv, NEW r \in Requests, SeeCancel(r)
  PROVE \A j \in Kernels \ marred' : Good(j)'
<1>0. /\ TypeOK /\ UNCHANGED setup /\ UNCHANGED <<registry, obj, box>>
      /\ req[r].at \in {"posted", "answered", "broken"} /\ req[r].at \in Joined /\ Op(r) # "interrupt"
      /\ "cut" \in Places /\ "cancelled" \in Outcomes
  BY PlacesApart, NoInterrupt DEF QInv, IInv, Typed, SeeCancel, At, Places, Holding, Outcomes
<1>1. PICK k \in Kernels : k = K(r)
  BY <1>0, Parts
<1>2. /\ req'[r].at = "cut" /\ req'[r].o = req[r].o
      /\ \A q \in Requests \ {r} : req'[q] = req[q]
  BY <1>0, LeaveType DEF SeeCancel
<1>3. /\ \A j \in Kernels : SameBox(j)
      /\ \A q \in Requests \ {r} : SamePlace(q)
  BY <1>0, <1>2, BoxStays, PlaceStays
<1>4. marred' = IF Running(k) THEN marred ELSE marred \cup {k}
  BY <1>1 DEF SeeCancel
<1>5. ASSUME k \notin marred' PROVE Held(k)'
  <2>1. KnownBox(k)
    BY <1>0, <1>1, <1>4, <1>5, JoinedSetting DEF Known
  <2> QED BY <1>0, <1>3, <2>1, HeldByBox
<1>6. req'[r].at \in Joined /\ req'[r].at \notin {"oom", "down"}
  BY <1>2, PlacesApart
<1> QED BY <1>0, <1>1, <1>2, <1>3, <1>4, <1>5, <1>6, JoinedMove

(* Steps that are of no kernel in particular. *)
LEMMA EverywhereSame ==
  ASSUME QInv, UNCHANGED <<setup, registry, obj, marred>>, \A j \in Kernels : SameBox(j),
         \A q \in Requests : SamePlace(q)
  PROVE \A j \in Kernels \ marred' : Good(j)'
<1>1. \A j \in Kernels : SameRecord(j)
  BY RecordsStay
<1>2. \A j \in Kernels \ marred : Good(j)
  BY DEF QInv, Truth
<1>3. ASSUME NEW j \in Kernels, Good(j) PROVE Good(j)'
  BY <1>1, <1>3, SameGood
<1> QED BY <1>2, <1>3

LEMMA CodePlaces ==
  ASSUME QInv, NEW r \in Requests, CodeEnds(r) \/ Cancel(r) \/ CancelCuts(r)
  PROVE /\ UNCHANGED <<setup, registry, obj, marred>>
        /\ \A j \in Kernels : SameBox(j)
        /\ \A q \in Requests : SamePlace(q)
<1>0. TypeOK
  BY DEF QInv, IInv, Typed
<1>1. CASE CodeEnds(r)
  <2>1. req' = [req EXCEPT ![r] = IF req[r].at = "posted" THEN [req[r] EXCEPT !.at = "answered", !.out = "ok"]
                                  ELSE req[r]]
    BY <1>1 DEF CodeEnds, CellOver
  <2>2. LET new == [req[r] EXCEPT !.at = "answered", !.out = "ok"] IN
        new.at = "answered" /\ new.o = req[r].o /\ new.s = req[r].s
    BY <1>0, Parts DEF Request
  <2>3. \A q \in Requests : SamePlace(q)
    BY <1>0, <2>1, <2>2 DEF TypeOK, SamePlace
  <2>4. ASSUME NEW j \in Kernels PROVE SameBox(j)
    <3>1. CASE box[j] # None /\ box[j].id = cell[r]
      <4>1. box[j] \in Box /\ box'[j] = [box[j] EXCEPT !.thread = None]
        BY <1>0, <1>1, <3>1 DEF TypeOK, Box, CodeEnds, CellOver
      <4>2. /\ box'[j] \in Box /\ box'[j].id = box[j].id /\ box'[j].port = box[j].port
            /\ box'[j].status = box[j].status
        BY <4>1 DEF Box
      <4>3. None \notin Box
        BY ReclaimAssumption DEF Box, Boxes, Objects
      <4> QED BY <3>1, <4>2, <4>3 DEF SameBox
    <3>2. CASE ~(box[j] # None /\ box[j].id = cell[r])
      BY <1>1, <3>2, BoxStays DEF CodeEnds, CellOver
    <3> QED BY <3>1, <3>2
  <2> QED BY <1>1, <2>3, <2>4 DEF CodeEnds
<1>2. CASE Cancel(r)
  BY <1>2, BoxStays, PlaceStays DEF Cancel
<1>3. CASE CancelCuts(r)
  BY <1>0, <1>3, InterruptsKeep, AnsweredKeeps DEF CancelCuts
<1> QED BY <1>1, <1>2, <1>3

LEMMA BoxEndsTrue ==
  ASSUME QInv, NEW k \in Kernels, BoxEnds(k)
  PROVE \A j \in Kernels \ marred' : Good(j)'
<1>0. /\ TypeOK /\ UNCHANGED <<setup, registry, obj, req, marred>>
  BY DEF QInv, IInv, Typed, BoxEnds
<1>1. \A j \in Kernels \ {k} : SameBox(j)
  <2>1. \A j \in Kernels \ {k} : box'[j] = box[j]
    BY <1>0 DEF BoxEnds, TypeOK
  <2> QED BY <2>1, BoxStays
<1>2. box'[k].id = box[k].id /\ box'[k].port = box[k].port /\ box'[k].status \in {"exited", "oom"} /\ box[k] # None
      /\ box'[k] # None
  <2>1. box[k] \in Box /\ box[k] # None
    BY <1>0 DEF BoxEnds, Running, TypeOK, Box
  <2>2. PICK st \in {"exited", "oom"} : box'[k] = [box[k] EXCEPT !.status = st, !.thread = None]
    BY <1>0 DEF BoxEnds, TypeOK
  <2>3. box'[k] \in Box /\ box'[k].id = box[k].id /\ box'[k].port = box[k].port /\ box'[k].status = st
    BY <2>1, <2>2 DEF Box
  <2>4. None \notin Box
    BY ReclaimAssumption DEF Box, Boxes, Objects
  <2> QED BY <2>1, <2>3, <2>4
<1>3. ~Running(k)' /\ KnownBox(k)' = KnownBox(k)
  BY <1>0, <1>2 DEF Running, KnownBox, registry
<1>4. ASSUME Good(k) PROVE Good(k)'
  <2>1. \A q \in Requests : /\ WorksOn(q, k)' = WorksOn(q, k)
                            /\ Doomed(q, k)' = Doomed(q, k)
    BY <1>0 DEF WorksOn, Doomed, K, Op, Active
  <2>2. Apart(k)' /\ Settled(k)'
    BY <1>0, <1>3, <1>4, <2>1 DEF Good, Apart, Settled, Known
  <2>3. Held(k)'
    BY <1>0, <1>3, <1>4, <2>1 DEF Good, Held, registry
  <2>4. ASSUME NEW q \in Requests, Stands(q, k) PROVE Stands(q, k)'
    BY <1>0, <1>2, <1>3, <2>4 DEF Stands, Shows, registry, Executes, Op
  <2>5. \A q \in Requests : WorksOn(q, k)' => Stands(q, k)'
    BY <1>4, <2>1, <2>4 DEF Good
  <2> QED BY <2>2, <2>3, <2>5 DEF Good
<1>5. ASSUME NEW j \in Kernels \ {k}, Good(j) PROVE Good(j)'
  <2>1. SameRecord(j)
    BY <1>0, RecordsStay
  <2>2. \A q \in Requests : SamePlace(q)
    BY <1>0, PlaceStays
  <2> QED BY <1>0, <1>1, <1>5, <2>1, <2>2, SameGood
<1>6. \A j \in Kernels \ marred : Good(j)
  BY DEF QInv, Truth
<1> QED BY <1>0, <1>4, <1>5, <1>6

(* Kernels that are restored. *)
LEMMA RestoredNext ==
  ASSUME NEW k \in Kernels, \A r \in Requests : ~WorksOn(r, k)',
         reg'[k] \in {None, k}, k # None,
         Running(k)' => reg'[k] = k /\ obj'[k] = Reclaimed(k, box'[k]),
         obj'[k] = Stopped \/ (box'[k] # None /\ obj'[k] = Reclaimed(k, box'[k]))
  PROVE Good(k)'
<1>2. Known(k)' /\ (Running(k)' => obj'[reg'[k]].state \in {"idle", "executing"})
  <2>1. ASSUME Running(k)'
        PROVE /\ reg'[k] = k /\ reg'[k] # None /\ box'[k] # None
              /\ obj'[k].state = "idle" /\ obj'[k].cid = box'[k].id /\ obj'[k].port = box'[k].port
    BY <2>1 DEF Running, Reclaimed
  <2> QED BY <2>1 DEF Known, KnownBox
<1>3. Held(k)'
  <2>1. obj'[k].state \in {"idle", "executing"} => box'[k] # None /\ obj'[k].cid = box'[k].id
    BY DEF Stopped, Reclaimed
  <2> QED BY <2>1 DEF Held, KnownBox
<1> QED BY <1>2, <1>3, JoinedNext

LEMMA RebootTrue ==
  ASSUME QInv, Reboot
  PROVE SavedAll' /\ InterruptsCut' /\ \A j \in Kernels \ marred' : Good(j)'
<1>0. TypeOK /\ UNCHANGED <<setup, saved>>
  BY DEF QInv, IInv, Typed, Reboot
<1>1. SavedAll'
  BY <1>0 DEF SavedAll, Reboot
<1>2. \A r \in Requests : req'[r].at \in {"new", "done"}
  <2>1. [Fresh EXCEPT !.at = "done", !.out = "failed"].at = "done"
    BY DEF Fresh
  <2> QED BY <2>1 DEF Reboot, Active
<1>3. InterruptsCut' /\ \A r \in Requests, k \in Kernels : ~WorksOn(r, k)'
  BY <1>2 DEF InterruptsCut, WorksOn, Active
<1>4. ASSUME NEW k \in Kernels, k \notin marred'
      PROVE /\ reg'[k] \in {None, k}
            /\ Running(k)' => reg'[k] = k /\ obj'[k] = Reclaimed(k, box'[k])
            /\ obj'[k] = Stopped \/ (box'[k] # None /\ obj'[k] = Reclaimed(k, box'[k]))
  <2>1. PICK rows \in {saved, {}}, gone \in SUBSET {j \in Kernels : Shut(j)} :
          LET running == {j \in Kernels \ gone : Running(j)} IN
          \E left \in {running} \cup SUBSET (running \ rows) :
            /\ box' = [j \in Kernels |-> IF j \in gone \cup (running \ (rows \cup left)) THEN None ELSE box[j]]
            /\ reg' = [j \in Kernels |-> IF j \in rows THEN j ELSE None]
            /\ obj' = [x \in Objects |-> IF x \in (running \cap rows) \ left THEN Reclaimed(x, box[x]) ELSE Stopped]
            /\ marred' = left
    BY DEF Reboot
  <2> DEFINE running == {j \in Kernels \ gone : Running(j)}
  <2>2. /\ box'[k] = IF k \in gone \cup (running \ rows) THEN None ELSE box[k]
        /\ reg'[k] = IF k \in rows THEN k ELSE None
        /\ obj'[k] = IF k \in running \cap rows THEN Reclaimed(k, box[k]) ELSE Stopped
    BY <1>4, <2>1 DEF Objects
  <2>3. k \in running => Running(k) /\ k \notin gone
    OBVIOUS
  <2>4. Running(k)' => k \in running \cap rows
    BY <2>2 DEF Running
  <2>5. k \in running \cap rows => box'[k] = box[k] /\ box[k] # None
    BY <2>2, <2>3 DEF Running
  <2> HIDE DEF running
  <2> QED BY <2>2, <2>4, <2>5
<1>5. ASSUME NEW k \in Kernels, k \notin marred' PROVE Good(k)'
  BY <1>3, <1>4, <1>5, RestoredNext, KernelsAssumption
<1> QED BY <1>1, <1>3, <1>5

LEMMA InitTrue == Init => QInv
<1> SUFFICES ASSUME Init PROVE QInv
  OBVIOUS
<1>0. IInv /\ TypeOK
  BY InitBusy DEF IInv, Typed
<1>1. \A k \in Kernels : reg[k] = IF k \in saved THEN k ELSE None
  BY DEF Init
<1>2. SavedAll
  BY <1>1, KernelsAssumption DEF SavedAll
<1>3. \A r \in Requests : req[r].at = "new"
  BY DEF Init, Fresh
<1>4. InterruptsCut /\ \A r \in Requests, k \in Kernels : ~WorksOn(r, k)
  BY <1>3 DEF InterruptsCut, WorksOn, Active
<1>5. setup.up \subseteq saved
  BY <1>0, ReclaimAssumption DEF Init
<1>6. ASSUME NEW k \in Kernels PROVE Good(k)
  <2>1. k \in Objects /\ obj[k] = Reclaimed(k, box[k])
    BY DEF Init, Objects
  <2>2. k \in setup.up \/ box[k] = None
    BY DEF Init
  <2>3. box[k] # None => reg[k] = k /\ reg[k] # None
    BY <1>1, <1>5, <2>2, KernelsAssumption
  <2>4. box[k] # None => obj[k].state = "idle" /\ obj[k].cid = box[k].id /\ obj[k].port = box[k].port
    BY <2>1 DEF Reclaimed
  <2>5. box[k] = None => obj[k].state = "stopped"
    BY <2>1 DEF Reclaimed, Stopped
  <2>6. Known(k) /\ (Running(k) => obj[reg[k]].state \in {"idle", "executing"})
    BY <2>3, <2>4 DEF Known, Running, KnownBox
  <2>7. Held(k)
    BY <1>1, <2>3, <2>4, <2>5 DEF Held, KnownBox
  <2> QED BY <1>4, <2>6, <2>7 DEF Good, Apart, Settled
<1> QED BY <1>0, <1>2, <1>4, <1>6 DEF QInv, Truth

(* The registry and the database change together, unless the database fails.   *)
LEMMA SavedStep ==
  ASSUME QInv, NEW r \in Requests, Begin(r) \/ RequestStep(r)
  PROVE SavedAll'
<1>0. TypeOK /\ SavedAll
  BY DEF QInv, IInv, Typed, Truth
<1>1. K(r) \in Kernels /\ r # None
  BY <1>0, Parts, KernelsAssumption
<1>2. CASE UNCHANGED registry /\ marred \subseteq marred'
  BY <1>0, <1>2 DEF SavedAll, registry
<1>3. CASE Commit(r)
  <2>1. \/ UNCHANGED registry /\ UNCHANGED marred
        \/ reg' = [reg EXCEPT ![K(r)] = r] /\ Store(K(r), saved \cup {K(r)})
    BY <1>3 DEF Commit
  <2> QED BY <1>0, <1>1, <1>2, <2>1 DEF SavedAll, Store, TypeOK
<1>4. CASE Drop(r)
  BY <1>0, <1>1, <1>4 DEF Drop, Store, SavedAll, TypeOK
<1>5. Begin(r) \/ BakeFails(r) \/ StartStep(r) \/ ExecuteStep(r) \/ Halt(r) \/ Halted(r) => UNCHANGED registry
  BY DEF Begin, StartStep, ExecuteStep, BakeFails, Recycle, Forget, Prepare, BuildFails, Launch, RunBox, Record,
         Healthy, Unhealthy, Ready, Failed, Tidy, Mark, Post, Lose, TimeOut, Broken, Oom, Down, Finally, Cut,
         SeeCancel, Halt, Halted
<1>6. Begin(r) \/ BakeFails(r) \/ StartStep(r) \/ ExecuteStep(r) \/ Halt(r) \/ Halted(r) => marred \subseteq marred'
  <2>1. Cleanup(K(r)) => marred \subseteq marred'
    BY DEF Cleanup
  <2> QED BY <2>1
    DEF Begin, StartStep, ExecuteStep, BakeFails, Recycle, Forget, Prepare, BuildFails, Launch, RunBox, Record,
        Healthy, Unhealthy, Ready, Failed, Tidy, Mark, Post, Lose, TimeOut, Broken, Oom, Down, Finally, Cut,
        SeeCancel, Halt, Halted
<1> QED BY <1>2, <1>3, <1>4, <1>5, <1>6 DEF RequestStep

(* An interrupt only cuts. *)
LEMMA CutEnds ==
  ASSUME TypeOK, NEW r \in Requests, Cut(r), Op(r) = "interrupt"
  PROVE req'[r].at = "done"
<1> DEFINE hit == Hit(K(r))
           mine == [Answered(hit)[r] EXCEPT !.at = "done"]
<1>1. req' = [Answered(hit) EXCEPT ![r] = mine]
  BY DEF Cut
<1> HIDE DEF hit
<1>2. Answered(hit) \in [Requests -> Request] /\ Answered(hit)[r] \in Request
  BY AnsweredType
<1>3. mine.at = "done"
  BY <1>2 DEF Request
<1> HIDE DEF mine
<1> QED BY <1>1, <1>2, <1>3

LEMMA InterruptsStep ==
  ASSUME QInv, NEW r \in Requests, Begin(r) \/ RequestStep(r)
  PROVE InterruptsCut'
<1>0. TypeOK /\ Typed /\ InterruptsCut /\ UNCHANGED setup
  BY DEF QInv, IInv, Typed, Truth, Begin, RequestStep, StartStep, ExecuteStep, BakeFails, Commit, Recycle, Forget,
         Prepare, BuildFails, Launch, RunBox, Record, Healthy, Unhealthy, Ready, Failed, Tidy, Mark, Post, Lose,
         TimeOut, Broken, Oom, Down, Finally, Cut, SeeCancel, Halt, Halted, Drop
<1>1. CASE Cut(r)
  <2>1. /\ req'[r].at \in {"done", "final"}
        /\ Op(r) # "interrupt" => req'[r].at = "final"
        /\ Op(r) = "interrupt" => req'[r].at = "done"
        /\ \A q \in Requests \ {r} : SamePlace(q)
    BY <1>0, <1>1, CutTyped, AnsweredKeeps, CutEnds
  <2> QED BY <1>0, <2>1 DEF InterruptsCut, SamePlace, Op
<1>2. CASE ~Cut(r)
  <2>1. \A q \in Requests \ {r} : req'[q] = req[q]
    <3>1. \E new : req' = [req EXCEPT ![r] = new]
      BY <1>2 DEF Begin, RequestStep, StartStep, ExecuteStep, BakeFails, Commit, Recycle, Forget,
         Prepare, BuildFails, Launch, RunBox, Record, Healthy, Unhealthy, Ready, Failed, Tidy, Mark, Post, Lose,
         TimeOut, Broken, Oom, Down, Finally, SeeCancel, Halt, Halted, Drop, Move, Goto, End, Started
    <3> QED BY <1>0, <3>1 DEF TypeOK
  <2>2. RequestStep(r) => req[r].at \notin {"new", "cut", "done"}
    BY <1>2 DEF RequestStep, StartStep, ExecuteStep, BakeFails, Commit, Recycle, Forget,
         Prepare, BuildFails, Launch, RunBox, Record, Healthy, Unhealthy, Ready, Failed, Tidy, Mark, Post, Lose,
         TimeOut, Broken, Oom, Down, Finally, SeeCancel, Halt, Halted, Drop, At
  <2>3. Op(r) = "interrupt" => req'[r].at \in {"new", "cut", "done"}
    <3>1. ASSUME Op(r) = "interrupt", Begin(r) PROVE req'[r].at \in {"cut", "done"}
      <4>0. "failed" \in Outcomes /\ "cut" \in Places
        BY DEF Outcomes, Places, Holding
      <4>1. CASE End(r, "failed")
        BY <1>0, <4>0, <4>1, EndType
      <4>2. CASE Move(r, [req[r] EXCEPT !.at = FirstPlace(r), !.o = reg[K(r)]])
        <5>1. FirstPlace(r) = "cut"
          BY <3>1 DEF FirstPlace, Executes
        <5>2. [req[r] EXCEPT !.at = FirstPlace(r), !.o = reg[K(r)]].at = "cut"
          BY <1>0, <5>1, Parts DEF Request
        <5> QED BY <1>0, <4>2, <5>2 DEF Move, TypeOK
      <4> QED BY <3>1, <4>1, <4>2 DEF Begin
    <3> QED BY <1>0, <2>2, <3>1 DEF InterruptsCut
  <2> QED BY <1>0, <2>1, <2>3 DEF InterruptsCut, Op
<1> QED BY <1>1, <1>2

LEMMA NextTrue == QInv /\ [Next]_vars => QInv'
<1> SUFFICES ASSUME QInv, [Next]_vars PROVE QInv'
  OBVIOUS
<1>0. IInv'
  BY NextBusy DEF QInv
<1>1. CASE UNCHANGED vars
  <2>1. UNCHANGED <<setup, registry, obj, marred>> /\ UNCHANGED <<saved, box, req>>
    BY <1>1 DEF vars, registry
  <2>2. \A j \in Kernels \ marred' : Good(j)'
    BY <2>1, BoxStays, PlaceStays, EverywhereSame
  <2>3. SavedAll' /\ InterruptsCut'
    BY <2>1 DEF QInv, Truth, SavedAll, InterruptsCut, registry, Op
  <2> QED BY <1>0, <2>2, <2>3 DEF QInv, Truth
<1>2. ASSUME NEW r \in Requests, Begin(r) \/ RequestStep(r) PROVE QInv'
  <2>1. \A j \in Kernels \ marred' : Good(j)'
    BY <1>2, BeginTrue, CreateTrue, RecycleTrue, ForgetTrue, PrepareTrue, BuildFailsTrue, LaunchTrue, RunBoxTrue,
       RecordTrue, HealthTrue, ReadyTrue, FailedTrue, TidyTrue, MarkTrue, PostTrue, LoseTrue, BrokenTrue, FallenTrue,
       FinallyTrue, CutTrue, SeeCancelTrue, HaltTrue, HaltedTrue, DropTrue
    DEF RequestStep, StartStep, ExecuteStep
  <2> QED BY <1>0, <1>2, <2>1, SavedStep, InterruptsStep DEF QInv, Truth
<1>3. ASSUME NEW r \in Requests, CodeEnds(r) \/ Cancel(r) \/ CancelCuts(r) PROVE QInv'
  <2>1. UNCHANGED <<setup, registry, obj, marred>> /\ \A q \in Requests : SamePlace(q)
    BY <1>3, CodePlaces
  <2>2. \A j \in Kernels \ marred' : Good(j)'
    BY <1>3, CodePlaces, EverywhereSame
  <2>3. SavedAll' /\ InterruptsCut'
    BY <2>1 DEF QInv, Truth, SavedAll, InterruptsCut, registry, Op, SamePlace
  <2> QED BY <1>0, <2>2, <2>3 DEF QInv, Truth
<1>4. ASSUME NEW k \in Kernels, BoxEnds(k) PROVE QInv'
  <2>1. UNCHANGED <<setup, registry, req, marred>>
    BY <1>4 DEF BoxEnds
  <2>2. SavedAll' /\ InterruptsCut'
    BY <2>1 DEF QInv, Truth, SavedAll, InterruptsCut, registry, Op
  <2> QED BY <1>0, <1>4, <2>2, BoxEndsTrue DEF QInv, Truth
<1>5. CASE Reboot
  BY <1>0, <1>5, RebootTrue DEF QInv, Truth
<1> QED BY <1>1, <1>2, <1>3, <1>4, <1>5 DEF Next

LEMMA QuietIsTrue ==
  ASSUME QInv PROVE QuietRecordIsTrue
<1> SUFFICES ASSUME NEW k \in Kernels, k \notin marred, \A r \in Requests : K(r) = k => ~Active(r)
             PROVE /\ Running(k) => reg[k] # None /\ obj[reg[k]] = Reclaimed(k, box[k])
                   /\ reg[k] # None => /\ obj[reg[k]].state = "idle" => KnownBox(k)
                                       /\ k \in saved
  BY DEF QuietRecordIsTrue
<1>0. TypeOK /\ Good(k) /\ SavedAll
  BY DEF QInv, IInv, Typed, Truth
<1>1. \A r \in Requests : ~WorksOn(r, k)
  BY DEF WorksOn
<1>2. Running(k) => reg[k] # None /\ obj[reg[k]] = Reclaimed(k, box[k])
  <2> SUFFICES ASSUME Running(k) PROVE reg[k] # None /\ obj[reg[k]] = Reclaimed(k, box[k])
    OBVIOUS
  <2>1. KnownBox(k) /\ reg[k] # None /\ obj[reg[k]].port = box[k].port /\ Shows(k, {"idle", "executing"})
    BY <1>0, <1>1 DEF Good, Settled, Known, Shows
  <2>2. obj[reg[k]].state # "executing"
    <3> SUFFICES ASSUME obj[reg[k]].state = "executing" PROVE FALSE
      OBVIOUS
    <3>1. PICK r \in Requests : Executes(r) /\ req[r].at \in Marked /\ req[r].o = reg[k]
      BY <2>1 DEF QInv, IInv, BusyHasWorker
    <3>2. reg[k] \in Of(k) /\ reg[k] \in Of(K(r)) /\ reg[k] \in Objects
      BY <1>0, <2>1, <3>1 DEF QInv, IInv, Owned, TypeOK
    <3>3. K(r) = k
      BY <1>0, <3>2, Parts, OfIsDisjoint
    <3> QED BY <3>1, <3>3 DEF Active, Marked
  <2>3. /\ obj[reg[k]] \in Object /\ obj[reg[k]].state = "idle" /\ obj[reg[k]].cid = box[k].id
        /\ obj[reg[k]].port = box[k].port /\ box[k] # None
    BY <1>0, <2>1, <2>2 DEF TypeOK, Object, Shows, KnownBox
  <2> QED BY <2>1, <2>3 DEF Object, Reclaimed
<1>3. reg[k] # None /\ obj[reg[k]].state = "idle" => KnownBox(k)
  BY <1>0, <1>1 DEF Good, Held, Doomed
<1> QED BY <1>0, <1>2, <1>3 DEF SavedAll

(* Whatever requests come to a kernel one after the other, and executions at    *)
(* once, and however its container ends or the core restarts, once they have   *)
(* ended the record of the kernel is true of its container and in the          *)
(* database, unless Docker or the database failed it (marred).                 *)
THEOREM QuietKernelsAreKnown == Spec => []QuietRecordIsTrue
<1>1. Spec => []QInv
  BY InitTrue, NextTrue, PTL DEF Spec
<1>2. QInv => QuietRecordIsTrue
  BY QuietIsTrue
<1> QED BY <1>1, <1>2, PTL

=============================================================================
