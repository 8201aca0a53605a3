--------------------------- MODULE ArtifactsProofs ---------------------------
(***************************************************************************)
(* Theorems about Artifacts for every set of names and of flows, however long  *)
(* they are run and edited.                                                   *)
(***************************************************************************)
EXTENDS Artifacts, SequenceTheorems, FiniteSetTheorems, WellFoundedInduction, TLAPS

-----------------------------------------------------------------------------
(* Types. *)

Places == {"idle", "called", "script", "answered", "published", "recorded"}

Answers == [gained : SUBSET Names, lost : SUBSET Names]

Typed ==
    /\ setup \in Setups
    /\ hasRun \in [Nodes -> BOOLEAN] /\ stored \subseteq Nodes
    /\ published \in [Nodes -> SUBSET Names]
    /\ deleted \in [Nodes -> SUBSET Names]
    /\ available \in [Nodes -> SUBSET Names]
    /\ kernelMap \in [Names -> Nodes \cup {None}]
    /\ store \in [Names -> Nodes \cup {None}]
    /\ publishers \in [Names -> SUBSET Nodes]
    /\ origins \in [Nodes -> SUBSET [name : Names, by : Nodes]]
    /\ running \in {"no", "run", "fetch"} /\ canceled \in BOOLEAN /\ marred \in BOOLEAN
    /\ stage \in 0 .. Len(setup.stages) /\ pending \subseteq Nodes
    /\ outcome \in [Nodes -> {"none", "ok", "failed", "lacking"}]
    /\ at \in [Nodes -> Places]
    /\ step \in [Nodes -> Nat \ {0}] /\ before \in [Nodes -> SUBSET Names]
    /\ answer \in [Nodes -> Answers]
    /\ left \in [Happenings -> Nat]

LEMMA TypedIsTypeOK == Typed <=> TypeOK
BY DEF Typed, TypeOK, Places, Answers

(* What the assumption on the flows says of the one that is run. *)
LEMMA SetupType ==
  ASSUME setup \in Setups
  PROVE /\ setup.script \in Seq(Seq(Ops))
        /\ Nodes = 1 .. Len(setup.script)
        /\ Len(setup.script) \in Nat
        /\ \A n \in Nodes : n \in Nat /\ n # None
        /\ \A n \in Nodes : Script(n) \in Seq(Ops)
        /\ setup.stages \in Seq(SUBSET Nodes)
        /\ Len(setup.stages) \in Nat
        /\ \A i \in 1 .. Len(setup.stages) : setup.stages[i] \subseteq Nodes
        /\ setup.cached \subseteq Nodes
        /\ setup.bounds \in [Happenings -> Nat]
<1>1. /\ setup.script \in Seq(Seq(Ops))
      /\ setup.stages \in Seq(SUBSET Nodes)
      /\ setup.cached \subseteq Nodes
      /\ setup.bounds \in [Happenings -> Nat]
  BY SetupsAssumption DEF Nodes
<1>2. Nodes = 1 .. Len(setup.script) /\ Len(setup.script) \in Nat
  BY <1>1, LenProperties DEF Nodes
<1>3. \A n \in Nodes : Script(n) \in Seq(Ops)
  BY <1>1, <1>2, ElementOfSeq DEF Script
<1>4. Len(setup.stages) \in Nat
  BY <1>1, LenProperties
<1>5. \A i \in 1 .. Len(setup.stages) : setup.stages[i] \in SUBSET Nodes
  BY <1>1, ElementOfSeq
<1> QED BY <1>1, <1>2, <1>3, <1>4, <1>5 DEF None

(* The operation a script is at. *)
LEMMA NowType ==
  ASSUME Typed, NEW n \in Nodes, InScript(n)
  PROVE /\ step[n] \in 1 .. Len(Script(n))
        /\ Now(n) \in Ops
        /\ Now(n).name \in Names
        /\ Now(n).op \in {"publish", "read", "delete"}
        /\ Now(n).name \in Does(n, Now(n).op)
<1>1. Script(n) \in Seq(Ops) /\ step[n] \in Nat \ {0}
  BY SetupType DEF Typed
<1>2. Len(Script(n)) \in Nat
  BY <1>1, LenProperties
<1>3. step[n] \in 1 .. Len(Script(n))
  BY <1>1, <1>2 DEF InScript
<1>4. Now(n) \in Ops
  BY <1>1, <1>3, ElementOfSeq DEF Now
<1>5. Now(n).name \in Names /\ Now(n).op \in {"publish", "read", "delete"}
  BY <1>4 DEF Ops
<1>6. Now(n).name \in Does(n, Now(n).op)
  BY <1>3 DEF Does, Now
<1> QED BY <1>3, <1>4, <1>5, <1>6

LEMMA ClearedType ==
  ASSUME NEW T, NEW S, NEW f \in [Nodes -> SUBSET T]
  PROVE Cleared(f, S) \in [Nodes -> SUBSET T]
BY DEF Cleared

LEMMA ClearNodesType ==
  ASSUME Typed, NEW S, ClearNodes(S)
  PROVE /\ published' \in [Nodes -> SUBSET Names]
        /\ deleted' \in [Nodes -> SUBSET Names]
        /\ origins' \in [Nodes -> SUBSET [name : Names, by : Nodes]]
        /\ kernelMap' \in [Names -> Nodes \cup {None}]
        /\ publishers' \in [Names -> SUBSET Nodes]
<1>1. /\ published \in [Nodes -> SUBSET Names]
      /\ deleted \in [Nodes -> SUBSET Names]
      /\ origins \in [Nodes -> SUBSET [name : Names, by : Nodes]]
      /\ kernelMap \in [Names -> Nodes \cup {None}]
      /\ publishers \in [Names -> SUBSET Nodes]
  BY DEF Typed
<1>2. /\ published' \in [Nodes -> SUBSET Names]
      /\ deleted' \in [Nodes -> SUBSET Names]
      /\ origins' \in [Nodes -> SUBSET [name : Names, by : Nodes]]
  BY <1>1, ClearedType DEF ClearNodes
<1>3. kernelMap' \in [Names -> Nodes \cup {None}]
  BY <1>1 DEF ClearNodes
<1>4. publishers' \in [Names -> SUBSET Nodes]
  BY <1>1 DEF ClearNodes
<1> QED BY <1>2, <1>3, <1>4

LEMMA StoreWithoutType ==
  ASSUME Typed, NEW S
  PROVE StoreWithout(S) \in [Names -> Nodes \cup {None}]
BY DEF Typed, StoreWithout

LEMMA AvailableToType == \A n : AvailableTo(n) \subseteq Names
BY DEF AvailableTo

LEMMA UsesType ==
  ASSUME Typed, NEW what \in Happenings, May(what), Uses(what)
  PROVE left' \in [Happenings -> Nat]
<1>1. left \in [Happenings -> Nat] /\ left[what] \in Nat /\ left[what] > 0
  BY DEF Typed, May
<1>2. left[what] - 1 \in Nat
  BY <1>1
<1> QED BY <1>1, <1>2 DEF Uses

LEMMA SameFlow ==
  ASSUME Next
  PROVE setup' = setup /\ Nodes' = Nodes
<1>1. StartRun \/ NextStage \/ EndRun \/ RequestCancel \/ RestartKernel => setup' = setup
  BY DEF StartRun, NextStage, EndRun, RequestCancel, RestartKernel
<1>2. ASSUME NEW n \in Nodes, \/ SkipNode(n) \/ RunElsewhere(n) \/ CallKernel(n) \/ CallFails(n)
                            \/ BeginScript(n)
      PROVE setup' = setup
  BY <1>2 DEF SkipNode, RunElsewhere, CallKernel, CallFails, BeginScript
<1>3. ASSUME NEW n \in Nodes, ScriptStep(n) \/ ScriptLacks(n) \/ ScriptRaises(n) \/ EndScript(n)
      PROVE setup' = setup
  BY <1>3 DEF ScriptStep, ScriptLacks, ScriptRaises, EndScript
<1>4. ASSUME NEW n \in Nodes, RecordPublished(n) \/ RecordDeleted(n) \/ FinishNode(n)
                                  \/ EditSettings(n) \/ StartFetch(n)
      PROVE setup' = setup
  BY <1>4 DEF RecordPublished, RecordDeleted, FinishNode, EditSettings, StartFetch
<1>5. setup' = setup
  BY <1>1, <1>2, <1>3, <1>4 DEF Next
<1> QED BY <1>5 DEF Nodes

LEMMA TypedInit == Init => Typed
<1> SUFFICES ASSUME Init PROVE Typed
  OBVIOUS
<1>1. setup \in Setups /\ setup.bounds \in [Happenings -> Nat] /\ Len(setup.stages) \in Nat
  BY SetupType DEF Init
<1>2. Nothing \in Answers /\ "idle" \in Places /\ 0 \in 0 .. Len(setup.stages)
  BY <1>1 DEF Answers, Nothing, Places
<1>3. /\ at \in [Nodes -> Places] /\ answer \in [Nodes -> Answers]
      /\ step \in [Nodes -> Nat \ {0}] /\ before \in [Nodes -> SUBSET Names]
      /\ outcome \in [Nodes -> {"none", "ok", "failed", "lacking"}]
  BY <1>2 DEF Init
<1>4. /\ hasRun \in [Nodes -> BOOLEAN] /\ published \in [Nodes -> SUBSET Names]
      /\ deleted \in [Nodes -> SUBSET Names] /\ available \in [Nodes -> SUBSET Names]
      /\ origins \in [Nodes -> SUBSET [name : Names, by : Nodes]]
      /\ kernelMap \in [Names -> Nodes \cup {None}] /\ store \in [Names -> Nodes \cup {None}]
      /\ publishers \in [Names -> SUBSET Nodes]
  BY DEF Init
<1> QED BY <1>1, <1>2, <1>3, <1>4 DEF Init, Typed

(* One lemma for the run, one for the scripts, one for the rest.               *)
LEMMA TypedRun ==
  ASSUME Typed, setup' = setup, Nodes' = Nodes,
         \/ StartRun \/ NextStage \/ EndRun \/ RequestCancel
         \/ \E n \in Nodes : SkipNode(n) \/ RunElsewhere(n) \/ CallKernel(n)
  PROVE Typed'
<1> USE DEF context, runState, scripts
<1>1. CASE StartRun
  <2>1. left' \in [Happenings -> Nat]
    BY <1>1, UsesType DEF StartRun, Happenings
  <2>2. store' \in [Names -> Nodes \cup {None}]
    BY <1>1, StoreWithoutType DEF StartRun, Typed
  <2>3. available' \in [Nodes -> SUBSET Names]
    BY <1>1, ClearedType DEF StartRun, Typed
  <2>4. 0 \in 0 .. Len(setup.stages)
    BY SetupType DEF Typed
  <2>5. ClearNodes(Rerun)
    BY <1>1 DEF StartRun
  <2>6. /\ published' \in [Nodes -> SUBSET Names]
        /\ deleted' \in [Nodes -> SUBSET Names]
        /\ origins' \in [Nodes -> SUBSET [name : Names, by : Nodes]]
        /\ kernelMap' \in [Names -> Nodes \cup {None}]
        /\ publishers' \in [Names -> SUBSET Nodes]
    BY <2>5, ClearNodesType
  <2>7. /\ hasRun' \in [Nodes -> BOOLEAN] /\ outcome' \in [Nodes -> {"none", "ok", "failed", "lacking"}]
        /\ running' \in {"no", "run", "fetch"} /\ canceled' \in BOOLEAN /\ stage' = 0
    BY <1>1 DEF Typed, StartRun
  <2>8. UNCHANGED <<setup, stored, pending, at, step, before, answer, marred>>
    BY <1>1 DEF StartRun
  <2> QED BY <2>1, <2>2, <2>3, <2>4, <2>6, <2>7, <2>8, SMTT(30) DEF Typed
<1>2. CASE NextStage
  <2>1. stage + 1 \in 1 .. Len(setup.stages) /\ setup.stages[stage + 1] \subseteq Nodes
    BY <1>2, SetupType DEF Typed, NextStage
  <2> QED BY <1>2, <2>1, SetupType DEF Typed, NextStage
<1>3. CASE EndRun
  BY <1>3 DEF Typed, EndRun
<1>4. CASE RequestCancel
  <2>1. left' \in [Happenings -> Nat]
    BY <1>4, UsesType DEF RequestCancel, Happenings
  <2> QED BY <1>4, <2>1 DEF Typed, RequestCancel
<1>5. ASSUME NEW n \in Nodes, SkipNode(n) PROVE Typed'
  BY <1>5 DEF Typed, SkipNode
<1>6. ASSUME NEW n \in Nodes, RunElsewhere(n) PROVE Typed'
  <2>1. left' \in [Happenings -> Nat]
    BY <1>6, UsesType DEF RunElsewhere, Succeeds, Fails, Happenings, Typed
  <2> QED BY <1>6, <2>1 DEF Typed, RunElsewhere, Succeeds, Fails, FailsAs
<1>7. ASSUME NEW n \in Nodes, CallKernel(n) PROVE Typed'
  <2>1. available' \in [Nodes -> SUBSET Names] /\ at' \in [Nodes -> Places]
    BY <1>7, AvailableToType DEF CallKernel, Calls, Typed, Places
  <2>2. ClearNodes({n})
    BY <1>7 DEF CallKernel, Calls
  <2>3. /\ published' \in [Nodes -> SUBSET Names]
        /\ deleted' \in [Nodes -> SUBSET Names]
        /\ origins' \in [Nodes -> SUBSET [name : Names, by : Nodes]]
        /\ kernelMap' \in [Names -> Nodes \cup {None}]
        /\ publishers' \in [Names -> SUBSET Nodes]
    BY <2>2, ClearNodesType
  <2> QED BY <1>7, <2>1, <2>3 DEF Typed, CallKernel
<1> QED BY <1>1, <1>2, <1>3, <1>4, <1>5, <1>6, <1>7

LEMMA ReturnsType ==
  ASSUME Typed, NEW n \in Nodes, Returns(n)
  PROVE /\ at' \in [Nodes -> Places]
        /\ step' \in [Nodes -> Nat \ {0}]
        /\ before' \in [Nodes -> SUBSET Names]
        /\ answer' \in [Nodes -> Answers]
BY DEF Typed, Returns, Places, Answers, Nothing

LEMMA TypedScript ==
  ASSUME Typed, setup' = setup, Nodes' = Nodes, NEW n \in Nodes,
         \/ BeginScript(n) \/ ScriptStep(n) \/ ScriptLacks(n) \/ ScriptRaises(n) \/ EndScript(n)
         \/ RecordPublished(n) \/ RecordDeleted(n) \/ FinishNode(n) \/ CallFails(n)
  PROVE Typed'
<1> USE DEF context, runState, scripts
<1>1. CASE BeginScript(n)
  <2>1. store' \in [Names -> Nodes \cup {None}]
    BY <1>1, StoreWithoutType DEF BeginScript
  <2>2. before' \in [Nodes -> SUBSET Names] /\ at' \in [Nodes -> Places] /\ step' \in [Nodes -> Nat \ {0}]
    BY <1>1 DEF BeginScript, Typed, Places
  <2>3. marred' \in BOOLEAN
    BY <1>1 DEF BeginScript, Typed
  <2> QED BY <1>1, <2>1, <2>2, <2>3 DEF Typed, BeginScript
<1>2. CASE ScriptStep(n)
  <2>1. Now(n).name \in Names
    BY <1>2, NowType DEF ScriptStep
  <2>2. store' \in [Names -> Nodes \cup {None}]
    BY <1>2, <2>1 DEF ScriptStep, Typed
  <2>3. step' \in [Nodes -> Nat \ {0}]
    BY <1>2 DEF ScriptStep, Typed
  <2> QED BY <1>2, <2>2, <2>3 DEF Typed, ScriptStep
<1>3. CASE ScriptLacks(n)
  <2>1. /\ at' \in [Nodes -> Places] /\ step' \in [Nodes -> Nat \ {0}]
        /\ before' \in [Nodes -> SUBSET Names] /\ answer' \in [Nodes -> Answers]
    BY <1>3, ReturnsType DEF ScriptLacks, Drops
  <2>2. marred' \in BOOLEAN
    BY <1>3 DEF ScriptLacks, Drops, Typed
  <2> QED BY <1>3, <2>1, <2>2 DEF Typed, ScriptLacks, FailsAs
<1>4. CASE ScriptRaises(n)
  <2>1. /\ at' \in [Nodes -> Places] /\ step' \in [Nodes -> Nat \ {0}]
        /\ before' \in [Nodes -> SUBSET Names] /\ answer' \in [Nodes -> Answers]
    BY <1>4, ReturnsType DEF ScriptRaises, Drops
  <2>2. marred' \in BOOLEAN
    BY <1>4 DEF ScriptRaises, Drops, Typed
  <2>3. left' \in [Happenings -> Nat]
    BY <1>4, UsesType DEF ScriptRaises, Fails, Happenings
  <2> QED BY <1>4, <2>1, <2>2, <2>3 DEF Typed, ScriptRaises, Fails, FailsAs
<1>5. CASE EndScript(n)
  <2>1. Held \subseteq Names
    BY DEF Held
  <2>2. [gained |-> Held \ before[n], lost |-> before[n] \ Held] \in Answers
    BY <2>1 DEF Typed, Answers
  <2>3. answer' \in [Nodes -> Answers] /\ at' \in [Nodes -> Places]
    BY <1>5, <2>2 DEF EndScript, Typed, Places
  <2> QED BY <1>5, <2>3 DEF Typed, EndScript
<1>6. CASE RecordPublished(n)
  <2>1. answer[n].gained \subseteq Names
    BY DEF Typed, Answers
  <2> HIDE DEF Answers
  <2>2. /\ published' \in [Nodes -> SUBSET Names]
        /\ kernelMap' \in [Names -> Nodes \cup {None}]
        /\ publishers' \in [Names -> SUBSET Nodes]
        /\ at' \in [Nodes -> Places]
    BY <1>6, <2>1 DEF RecordPublished, Typed, Places
  <2> QED BY <1>6, <2>2 DEF Typed, RecordPublished
<1>7. CASE RecordDeleted(n)
  <2>1. answer[n].lost \subseteq Names
    BY DEF Typed, Answers
  <2>2. /\ deleted' \in [Nodes -> SUBSET Names]
        /\ kernelMap' \in [Names -> Nodes \cup {None}]
        /\ publishers' \in [Names -> SUBSET Nodes]
        /\ at' \in [Nodes -> Places]
    BY <1>7, <2>1 DEF RecordDeleted, Typed, Places
  <2>3. UNION {{[name |-> x, by |-> p] : p \in publishers[x]} : x \in answer[n].lost}
            \subseteq [name : Names, by : Nodes]
    BY <2>1 DEF Typed
  <2>4. origins' \in [Nodes -> SUBSET [name : Names, by : Nodes]]
    BY <1>7, <2>3 DEF RecordDeleted, Typed
  <2> QED BY <1>7, <2>2, <2>4 DEF Typed, RecordDeleted
<1>8. CASE FinishNode(n)
  <2>1. /\ at' \in [Nodes -> Places] /\ step' \in [Nodes -> Nat \ {0}]
        /\ before' \in [Nodes -> SUBSET Names] /\ answer' \in [Nodes -> Answers]
    BY <1>8, ReturnsType DEF FinishNode
  <2>2. left' \in [Happenings -> Nat]
    BY <1>8, UsesType DEF FinishNode, Succeeds, Fails, Happenings, Typed
  <2> QED BY <1>8, <2>1, <2>2 DEF Typed, FinishNode, Succeeds, Fails, FailsAs
<1>9. CASE CallFails(n)
  <2>1. at' \in [Nodes -> Places]
    BY <1>9 DEF CallFails, Typed, Places
  <2>2. left' \in [Happenings -> Nat]
    BY <1>9, UsesType DEF CallFails, Fails, Happenings
  <2> QED BY <1>9, <2>1, <2>2 DEF Typed, CallFails, Fails, FailsAs
<1> QED BY <1>1, <1>2, <1>3, <1>4, <1>5, <1>6, <1>7, <1>8, <1>9

LEMMA TypedBetween ==
  ASSUME Typed, setup' = setup, Nodes' = Nodes,
         RestartKernel \/ \E n \in Nodes : EditSettings(n) \/ StartFetch(n)
  PROVE Typed'
<1> USE DEF context, runState, scripts
<1>1. CASE RestartKernel
  <2>1. left' \in [Happenings -> Nat]
    BY <1>1, UsesType DEF RestartKernel, Happenings
  <2>2. store' \in [Names -> Nodes \cup {None}] /\ marred' \in BOOLEAN
    BY <1>1 DEF RestartKernel, Typed
  <2> QED BY <1>1, <2>1, <2>2 DEF Typed, RestartKernel
<1>2. ASSUME NEW n \in Nodes, EditSettings(n) PROVE Typed'
  <2>1. left' \in [Happenings -> Nat]
    BY <1>2, UsesType DEF EditSettings, Happenings
  <2> QED BY <1>2, <2>1 DEF Typed, EditSettings
<1>3. ASSUME NEW n \in Nodes, StartFetch(n) PROVE Typed'
  <2>1. left' \in [Happenings -> Nat]
    BY <1>3, UsesType DEF StartFetch, Happenings
  <2>2. available' \in [Nodes -> SUBSET Names] /\ at' \in [Nodes -> Places]
    BY <1>3, AvailableToType DEF StartFetch, Calls, Typed, Places
  <2>3. ClearNodes({n})
    BY <1>3 DEF StartFetch, Calls
  <2>4. /\ published' \in [Nodes -> SUBSET Names]
        /\ deleted' \in [Nodes -> SUBSET Names]
        /\ origins' \in [Nodes -> SUBSET [name : Names, by : Nodes]]
        /\ kernelMap' \in [Names -> Nodes \cup {None}]
        /\ publishers' \in [Names -> SUBSET Nodes]
    BY <2>3, ClearNodesType
  <2> QED BY <1>3, <2>1, <2>2, <2>4 DEF Typed, StartFetch
<1> QED BY <1>1, <1>2, <1>3

LEMMA TypedStep == Typed /\ [Next]_vars => Typed'
<1>1. ASSUME Typed, Next PROVE Typed'
  <2>1. setup' = setup /\ Nodes' = Nodes
    BY <1>1, SameFlow
  <2> QED BY <1>1, <2>1, TypedRun, TypedScript, TypedBetween DEF Next
<1>2. ASSUME Typed, UNCHANGED vars PROVE Typed'
  BY <1>2 DEF Typed, vars, Nodes
<1> QED BY <1>1, <1>2

(* Type correctness of the record, the store and the run, for every flow.       *)
THEOREM TypeCorrect == Spec => []TypeOK
<1>1. Spec => []Typed
  BY TypedInit, TypedStep, PTL DEF Spec
<1> QED BY <1>1, TypedIsTypeOK, PTL
-----------------------------------------------------------------------------
(* The record tells the store.                                               *)

(* What runs at one time is of one stage, and did not count as run.            *)
OneStage ==
    /\ running = "no" => Busy = {} /\ pending = {}
    /\ running = "fetch" => marred
    /\ running = "run" /\ pending \cup Busy # {} =>
          stage \in 1 .. Len(setup.stages) /\ pending \cup Busy \subseteq setup.stages[stage]
    /\ pending \cap Busy = {}
    /\ Busy \subseteq OnKernel

BusyIsStale ==
    /\ \A n \in Nodes : hasRun[n] => n \in stored
    /\ \A n \in Busy : ~hasRun[n]

(* Record and store name nodes that publish what is theirs.                    *)
Attributed ==
    /\ \A x \in Names : kernelMap[x] # None => x \in published[kernelMap[x]]
    /\ \A n \in Nodes : published[n] \subseteq Does(n, "publish")
    /\ \A x \in Names : store[x] # None => x \in Does(store[x], "publish")

(* Nothing of a node is on the record until it answers.                        *)
NotYetShown ==
    \A n \in Nodes : at[n] \in {"called", "script", "answered"} => \A x \in Names : kernelMap[x] # n

OneScript == \A m, n \in Nodes : at[m] = "script" /\ at[n] = "script" => m = n

HasDeleted(n, x) ==
    \E i \in 1 .. Len(Script(n)) :
        i < step[n] /\ Script(n)[i].op = "delete" /\ Script(n)[i].name = x

(* How the store differs from the listing a script began with.                 *)
ScriptDiffers(n) ==
    \A x \in Names :
        /\ x \in before[n] => x \notin Does(n, "publish")
        /\ x \in before[n] /\ store[x] = None => HasDeleted(n, x)
        /\ x \notin before[n] /\ store[x] # None => store[x] = n

LostIsGone(n) == \A x \in answer[n].lost : store[x] = None /\ x \in Does(n, "delete")

GainedIsHeld(n) ==
    \A x \in Names : (x \in answer[n].gained) <=> (store[x] = n)

OwnIsShown(n) == \A x \in Names : store[x] = n => kernelMap[x] = n

Answered ==
    \A n \in Nodes :
        /\ at[n] = "script" => ScriptDiffers(n)
        /\ at[n] = "answered" => GainedIsHeld(n)
        /\ at[n] \in {"answered", "published"} => LostIsGone(n)
        /\ at[n] \in {"published", "recorded"} => OwnIsShown(n)

(* An execution that has taken x away and is still to be recorded.             *)
Took(n, x) ==
    \/ at[n] = "script" /\ x \in before[n]
    \/ at[n] \in {"answered", "published"} /\ x \in answer[n].lost

ShownIsHeld ==
    \A x \in Names : kernelMap[x] # None =>
        \/ store[x] = kernelMap[x]
        \/ store[x] = None /\ \E n \in Nodes : Took(n, x)

HeldIsShown ==
    \A x \in Names : store[x] # None /\ hasRun[store[x]] => kernelMap[x] = store[x]

Agree ==
    /\ Attributed /\ NotYetShown /\ OneScript /\ Answered
    /\ ShownIsHeld /\ HeldIsShown

IInv == Typed /\ OneStage /\ BusyIsStale /\ (~marred /\ Ordered => Agree)

LEMMA SameScripts ==
  ASSUME setup' = setup
  PROVE /\ Nodes' = Nodes /\ OnKernel' = OnKernel
        /\ \A n, op : Does(n, op)' = Does(n, op)
        /\ \A n : Script(n)' = Script(n)
        /\ Ordered' = Ordered
BY DEF Nodes, OnKernel, Does, Script, Ordered, Users, Upstream

-----------------------------------------------------------------------------
(* What runs at one time.                                                    *)

LEMMA OneStageInit == Init => OneStage /\ BusyIsStale
BY DEF Init, OneStage, BusyIsStale, Busy

LEMMA OneStageRun ==
  ASSUME Typed, OneStage, BusyIsStale, setup' = setup, Nodes' = Nodes, OnKernel' = OnKernel,
         \/ StartRun \/ NextStage \/ EndRun \/ RequestCancel
         \/ \E n \in Nodes : SkipNode(n) \/ RunElsewhere(n) \/ CallKernel(n)
  PROVE OneStage' /\ BusyIsStale'
<1> USE DEF context, runState, scripts
<1>1. CASE StartRun
  <2>1. Busy = {} /\ pending = {} /\ Busy' = {} /\ pending' = {}
    BY <1>1 DEF StartRun, OneStage, Busy
  <2>2. \A n \in Nodes : hasRun'[n] => hasRun[n]
    BY <1>1 DEF StartRun
  <2> QED BY <1>1, <2>1, <2>2 DEF StartRun, OneStage, BusyIsStale
<1>2. CASE NextStage
  <2>1. stage' \in 1 .. Len(setup.stages) /\ pending' \subseteq setup.stages[stage'] /\ Busy = {} /\ Busy' = {}
    BY <1>2, SetupType DEF NextStage, Busy, Typed
  <2> QED BY <1>2, <2>1 DEF NextStage, OneStage, BusyIsStale
<1>3. CASE EndRun
  <2>1. Busy = {} /\ Busy' = {} /\ pending' = {}
    BY <1>3 DEF EndRun, Busy
  <2> QED BY <1>3, <2>1 DEF EndRun, OneStage, BusyIsStale
<1>4. CASE RequestCancel
  <2>1. Busy' = Busy
    BY <1>4 DEF RequestCancel, Busy
  <2> QED BY <1>4, <2>1 DEF RequestCancel, OneStage, BusyIsStale
<1>5. ASSUME NEW n \in Nodes, SkipNode(n) PROVE OneStage' /\ BusyIsStale'
  <2>1. Busy' = Busy /\ pending' \subseteq pending
    BY <1>5 DEF SkipNode, Busy
  <2> QED BY <1>5, <2>1 DEF SkipNode, OneStage, BusyIsStale
<1>6. ASSUME NEW n \in Nodes, RunElsewhere(n) PROVE OneStage' /\ BusyIsStale'
  <2>1. Busy' = Busy /\ pending' \subseteq pending /\ n \notin Busy
    BY <1>6 DEF RunElsewhere, Busy, OneStage
  <2>2. OneStage'
    BY <1>6, <2>1 DEF RunElsewhere, OneStage
  <2>3. /\ \A m \in Nodes \ {n} : hasRun'[m] = hasRun[m]
        /\ stored \subseteq stored'
        /\ hasRun'[n] => n \in stored'
    BY <1>6 DEF RunElsewhere, Succeeds, Fails, FailsAs, Typed
  <2>4. BusyIsStale'
    <3>1. Busy \subseteq Nodes
      BY DEF Busy
    <3> QED BY <2>1, <2>3, <3>1 DEF BusyIsStale
  <2> QED BY <2>2, <2>4
<1>7. ASSUME NEW n \in Nodes, CallKernel(n) PROVE OneStage' /\ BusyIsStale'
  <2>1. Busy' = Busy \cup {n} /\ pending' = pending \ {n} /\ n \in pending /\ n \in OnKernel
    BY <1>7 DEF CallKernel, Calls, CanStart, Busy, Typed
  <2>2. OneStage'
    BY <1>7, <2>1 DEF CallKernel, OneStage
  <2>3. ~hasRun[n]
    BY <1>7 DEF CallKernel, Runs, BusyIsStale
  <2>4. BusyIsStale'
    BY <1>7, <2>1, <2>3 DEF CallKernel, BusyIsStale
  <2> QED BY <2>2, <2>4
<1> QED BY <1>1, <1>2, <1>3, <1>4, <1>5, <1>6, <1>7

LEMMA OneStageScript ==
  ASSUME Typed, OneStage, BusyIsStale, setup' = setup, Nodes' = Nodes, OnKernel' = OnKernel,
         NEW n \in Nodes,
         \/ BeginScript(n) \/ ScriptStep(n) \/ ScriptLacks(n) \/ ScriptRaises(n) \/ EndScript(n)
         \/ RecordPublished(n) \/ RecordDeleted(n) \/ FinishNode(n) \/ CallFails(n)
  PROVE OneStage' /\ BusyIsStale'
<1> USE DEF context, runState, scripts
<1>1. CASE BeginScript(n) \/ ScriptStep(n) \/ EndScript(n) \/ RecordPublished(n) \/ RecordDeleted(n)
  <2>1. Busy' = Busy
    BY <1>1 DEF BeginScript, ScriptStep, EndScript, RecordPublished, RecordDeleted, Busy, Typed
  <2>2. /\ hasRun' = hasRun /\ stored' = stored /\ running' = running /\ stage' = stage
        /\ pending' = pending
    BY <1>1 DEF BeginScript, ScriptStep, EndScript, RecordPublished, RecordDeleted
  <2>3. marred => marred'
    BY <1>1 DEF BeginScript, ScriptStep, EndScript, RecordPublished, RecordDeleted
  <2> QED BY <2>1, <2>2, <2>3 DEF OneStage, BusyIsStale
<1>2. CASE ScriptLacks(n) \/ ScriptRaises(n) \/ FinishNode(n) \/ CallFails(n)
  <2>1. Busy' = Busy \ {n} /\ n \in Busy
    BY <1>2 DEF ScriptLacks, ScriptRaises, FinishNode, CallFails, Drops, Returns, InScript, Busy, Typed
  <2>2. running' = running /\ stage' = stage /\ pending' = pending
    BY <1>2 DEF ScriptLacks, ScriptRaises, FinishNode, CallFails
  <2>6. marred => marred'
    BY <1>2 DEF ScriptLacks, ScriptRaises, FinishNode, CallFails, Drops
  <2>3. /\ \A m \in Nodes \ {n} : hasRun'[m] = hasRun[m]
        /\ stored \subseteq stored'
        /\ hasRun'[n] => n \in stored'
    BY <1>2 DEF ScriptLacks, ScriptRaises, FinishNode, CallFails, Succeeds, Fails, FailsAs, Typed
  <2>4. OneStage'
    BY <2>1, <2>2, <2>6 DEF OneStage
  <2>5. BusyIsStale'
    <3>1. Busy \subseteq Nodes
      BY DEF Busy
    <3> QED BY <2>1, <2>3, <3>1 DEF BusyIsStale
  <2> QED BY <2>4, <2>5
<1> QED BY <1>1, <1>2

LEMMA OneStageBetween ==
  ASSUME Typed, OneStage, BusyIsStale, setup' = setup, Nodes' = Nodes, OnKernel' = OnKernel,
         RestartKernel \/ \E n \in Nodes : EditSettings(n) \/ StartFetch(n)
  PROVE OneStage' /\ BusyIsStale'
<1> USE DEF context, runState, scripts
<1>1. CASE RestartKernel
  <2>1. Busy' = Busy /\ (marred => marred')
    BY <1>1 DEF RestartKernel, Busy
  <2> QED BY <1>1, <2>1 DEF RestartKernel, OneStage, BusyIsStale
<1>2. ASSUME NEW n \in Nodes, EditSettings(n) PROVE OneStage' /\ BusyIsStale'
  <2>1. Busy' = Busy /\ Busy = {}
    BY <1>2 DEF EditSettings, OneStage, Busy
  <2> QED BY <1>2, <2>1 DEF EditSettings, OneStage, BusyIsStale
<1>3. ASSUME NEW n \in Nodes, StartFetch(n) PROVE OneStage' /\ BusyIsStale'
  <2>1. Busy = {} /\ Busy' = {n} /\ pending = {} /\ pending' = {} /\ n \in OnKernel
    BY <1>3 DEF StartFetch, Calls, OneStage, Busy, Typed
  <2>2. running' = "fetch" /\ marred'
    BY <1>3 DEF StartFetch
  <2>3. \A m \in Nodes : hasRun'[m] = (IF m = n THEN FALSE ELSE hasRun[m])
    BY <1>3 DEF StartFetch, Typed
  <2>4. stored' = stored \ {n}
    BY <1>3 DEF StartFetch
  <2>5. OneStage'
    BY <2>1, <2>2 DEF OneStage
  <2>6. BusyIsStale'
    BY <2>1, <2>3, <2>4 DEF BusyIsStale
  <2> QED BY <2>5, <2>6
<1> QED BY <1>1, <1>2, <1>3

(* Nodes that are at work together are independent.                            *)
LEMMA Together ==
  ASSUME Typed, OneStage, ~marred, NEW m \in Busy, NEW n \in Busy
  PROVE m \notin Upstream(n)
<1>1. running = "run"
  BY DEF OneStage, Typed
<1>2. stage \in 1 .. Len(setup.stages) /\ m \in setup.stages[stage] /\ n \in setup.stages[stage]
  BY <1>1 DEF OneStage
<1>3. DOMAIN setup.stages = 1 .. Len(setup.stages)
  BY SetupType, LenProperties DEF Typed
<1> QED BY <1>2, <1>3, StagesAssumption DEF Typed, Upstream

(* None of them takes away what another one publishes.                         *)
LEMMA NoQuarrel ==
  ASSUME Typed, OneStage, ~marred, Ordered, NEW m \in Busy, NEW n \in Busy, NEW x \in Names,
         x \in Does(m, "publish"), x \in Does(n, "delete")
  PROVE FALSE
<1>1. m \in Nodes /\ n \in Nodes
  BY DEF Busy
<1>2. m \in Upstream(n)
  BY <1>1 DEF Ordered, Users
<1> QED BY <1>2, Together
-----------------------------------------------------------------------------
(* What is held, and what is shown.                                          *)

LEMMA AgreeInit == Init => Agree
<1> SUFFICES ASSUME Init PROVE Agree
  OBVIOUS
<1>1. \A x \in Names : kernelMap[x] = None /\ store[x] = None
  BY DEF Init
<1>2. \A n \in Nodes : at[n] = "idle" /\ published[n] = {}
  BY DEF Init
<1> QED BY <1>1, <1>2 DEF Agree, Attributed, NotYetShown, OneScript, Answered, ShownIsHeld, HeldIsShown

(* Steps that touch neither.                                                  *)
LEMMA AgreeFrame ==
  ASSUME Typed, Agree, setup' = setup, \A m \in Nodes : hasRun'[m] => hasRun[m],
         published' = published, kernelMap' = kernelMap, store' = store,
         at' = at, step' = step, before' = before, answer' = answer
  PROVE Agree'
<1>1. Nodes' = Nodes /\ (\A n, op : Does(n, op)' = Does(n, op)) /\ (\A n : Script(n)' = Script(n))
  BY SameScripts
<1>2. Attributed'
  BY <1>1 DEF Agree, Attributed
<1>3. NotYetShown' /\ OneScript'
  BY <1>1 DEF Agree, NotYetShown, OneScript
<1>4. Answered'
  BY <1>1 DEF Agree, Answered, ScriptDiffers, HasDeleted, GainedIsHeld, LostIsGone, OwnIsShown
<1>5. ShownIsHeld'
  BY <1>1 DEF Agree, ShownIsHeld, Took
<1>6. HeldIsShown'
  <2>1. \A x \in Names : store[x] \in Nodes \cup {None}
    BY DEF Typed
  <2> QED BY <2>1 DEF Agree, HeldIsShown
<1> QED BY <1>2, <1>3, <1>4, <1>5, <1>6 DEF Agree

(* What clear_nodes does to the record.                                       *)
LEMMA ClearNodesShows ==
  ASSUME Typed, Agree, NEW S, ClearNodes(S)
  PROVE /\ \A x \in Names : kernelMap'[x] = IF kernelMap[x] \in S THEN None ELSE kernelMap[x]
        /\ \A n \in Nodes : published'[n] = IF n \in S THEN {} ELSE published[n]
<1>1. \A n \in Nodes : published'[n] = IF n \in S THEN {} ELSE published[n]
  BY DEF ClearNodes, Cleared
<1>2. ASSUME NEW x \in Names
      PROVE kernelMap'[x] = IF kernelMap[x] \in S THEN None ELSE kernelMap[x]
  <2>1. kernelMap'[x] = IF kernelMap[x] \in S /\ x \in published[kernelMap[x]] THEN None ELSE kernelMap[x]
    BY DEF ClearNodes
  <2>2. kernelMap[x] # None => x \in published[kernelMap[x]]
    BY DEF Agree, Attributed
  <2> QED BY <2>1, <2>2
<1> QED BY <1>1, <1>2

LEMMA AgreeStartRun ==
  ASSUME Typed, OneStage, Agree, StartRun
  PROVE Agree'
<1> USE DEF scripts
<1>1. /\ setup' = setup /\ at' = at /\ step' = step /\ before' = before /\ answer' = answer
      /\ ClearNodes(Rerun) /\ store' \in {StoreWithout(Rerun), store}
  BY DEF StartRun
<1>2. Nodes' = Nodes /\ (\A n, op : Does(n, op)' = Does(n, op))
  BY <1>1, SameScripts
<1>3. \A n \in Nodes : at[n] = "idle"
  BY DEF StartRun, OneStage, Busy
<1>4. /\ \A x \in Names : kernelMap'[x] = IF kernelMap[x] \in Rerun THEN None ELSE kernelMap[x]
      /\ \A n \in Nodes : published'[n] = IF n \in Rerun THEN {} ELSE published[n]
  BY <1>1, ClearNodesShows
<1>5. \A n \in Nodes : hasRun'[n] = (hasRun[n] /\ n \notin Rerun)
  BY DEF StartRun
<1>6. \A x \in Names : store'[x] = store[x] \/ (store[x] \in Rerun /\ store'[x] = None)
  BY <1>1 DEF StoreWithout
<1>7. \A x \in Names : kernelMap[x] \in Nodes \cup {None} /\ store[x] \in Nodes \cup {None}
  BY DEF Typed
<1>8. Attributed'
  BY <1>2, <1>4, <1>6, <1>7 DEF Agree, Attributed
<1>9. NotYetShown' /\ OneScript' /\ Answered'
  BY <1>1, <1>2, <1>3 DEF NotYetShown, OneScript, Answered
<1>10. \A x \in Names : kernelMap[x] # None => store[x] = kernelMap[x]
  BY <1>3 DEF Agree, ShownIsHeld, Took
<1>11. ShownIsHeld'
  BY <1>4, <1>6, <1>10 DEF ShownIsHeld
<1>12. HeldIsShown'
  BY <1>4, <1>5, <1>6, <1>7 DEF Agree, HeldIsShown
<1> QED BY <1>8, <1>9, <1>11, <1>12 DEF Agree

LEMMA AgreeRunElsewhere ==
  ASSUME Typed, Agree, NEW n \in Nodes, RunElsewhere(n)
  PROVE Agree'
<1> USE DEF context, scripts
<1>1. /\ setup' = setup /\ published' = published /\ kernelMap' = kernelMap /\ store' = store
      /\ at' = at /\ step' = step /\ before' = before /\ answer' = answer /\ n \notin OnKernel
  BY DEF RunElsewhere
<1>2. Nodes' = Nodes /\ (\A m, op : Does(m, op)' = Does(m, op)) /\ (\A m : Script(m)' = Script(m))
  BY <1>1, SameScripts
<1>3. \A m \in Nodes \ {n} : hasRun'[m] = hasRun[m]
  BY DEF RunElsewhere, Succeeds, Fails, FailsAs, Typed
<1>4. Attributed'
  BY <1>1, <1>2 DEF Agree, Attributed
<1>5. NotYetShown' /\ OneScript'
  BY <1>1, <1>2 DEF Agree, NotYetShown, OneScript
<1>6. Answered'
  BY <1>1, <1>2 DEF Agree, Answered, ScriptDiffers, HasDeleted, GainedIsHeld, LostIsGone, OwnIsShown
<1>7. ShownIsHeld'
  BY <1>1, <1>2 DEF Agree, ShownIsHeld, Took
<1>8. Does(n, "publish") = {}
  <2>1. Script(n) = <<>>
    BY <1>1 DEF OnKernel
  <2> QED BY <2>1 DEF Does
<1>9. \A x \in Names : store[x] # n
  BY <1>8, SetupType DEF Agree, Attributed, Typed
<1>10. HeldIsShown'
  <2>1. \A x \in Names : store[x] \in Nodes \cup {None}
    BY DEF Typed
  <2> QED BY <1>1, <1>3, <1>9, <2>1 DEF Agree, HeldIsShown
<1> QED BY <1>4, <1>5, <1>6, <1>7, <1>10 DEF Agree

LEMMA AgreeCallKernel ==
  ASSUME Typed, OneStage, BusyIsStale, Agree, NEW n \in Nodes, CallKernel(n)
  PROVE Agree'
<1> USE DEF scripts
<1>1. /\ setup' = setup /\ hasRun' = hasRun /\ store' = store /\ step' = step
      /\ before' = before /\ answer' = answer /\ ClearNodes({n})
      /\ at' = [at EXCEPT ![n] = "called"]
  BY DEF CallKernel, Calls
<1>2. Nodes' = Nodes /\ (\A m, op : Does(m, op)' = Does(m, op)) /\ (\A m : Script(m)' = Script(m))
  BY <1>1, SameScripts
<1>3. at[n] = "idle" /\ ~hasRun[n]
  BY DEF CallKernel, CanStart, OneStage, Busy, Runs, BusyIsStale
<1>4. /\ \A x \in Names : kernelMap'[x] = IF kernelMap[x] = n THEN None ELSE kernelMap[x]
      /\ \A m \in Nodes : published'[m] = IF m = n THEN {} ELSE published[m]
  BY <1>1, ClearNodesShows
<1>5. \A m \in Nodes : at'[m] = IF m = n THEN "called" ELSE at[m]
  BY <1>1 DEF Typed
<1>6. \A x \in Names : kernelMap[x] \in Nodes \cup {None} /\ store[x] \in Nodes \cup {None}
  BY DEF Typed
<1>7. \A m \in Nodes : m # None
  BY SetupType DEF Typed
<1>8. Attributed'
  BY <1>1, <1>2, <1>4, <1>6 DEF Agree, Attributed
<1>9. NotYetShown'
  BY <1>2, <1>4, <1>5, <1>7 DEF Agree, NotYetShown
<1>10. OneScript'
  BY <1>2, <1>5 DEF Agree, OneScript
<1>11. Answered'
  <2>1. ASSUME NEW m \in Nodes \ {n}, OwnIsShown(m) PROVE OwnIsShown(m)'
    BY <1>1, <1>4, <2>1 DEF OwnIsShown
  <2>2. \A m : /\ ScriptDiffers(m)' = ScriptDiffers(m)
               /\ GainedIsHeld(m)' = GainedIsHeld(m)
               /\ LostIsGone(m)' = LostIsGone(m)
    BY <1>1, <1>2 DEF ScriptDiffers, HasDeleted, GainedIsHeld, LostIsGone
  <2> QED BY <1>2, <1>5, <2>1, <2>2 DEF Agree, Answered
<1>12. ShownIsHeld'
  <2>1. ASSUME NEW x \in Names, kernelMap'[x] # None
        PROVE store'[x] = kernelMap'[x] \/ (store'[x] = None /\ \E m \in Nodes' : Took(m, x)')
    <3>1. kernelMap'[x] = kernelMap[x]
      BY <1>4, <2>1
    <3>2. CASE store[x] = kernelMap[x]
      BY <1>1, <3>1, <3>2
    <3>3. CASE store[x] = None /\ \E m \in Nodes : Took(m, x)
      <4>1. PICK m \in Nodes : Took(m, x)
        BY <3>3
      <4>2. m # n
        BY <1>3, <4>1 DEF Took
      <4>3. Took(m, x)'
        BY <1>1, <1>5, <4>1, <4>2 DEF Took
      <4> QED BY <1>1, <1>2, <3>3, <4>3
    <3> QED BY <2>1, <3>1, <3>2, <3>3 DEF Agree, ShownIsHeld
  <2> QED BY <2>1 DEF ShownIsHeld
<1>13. HeldIsShown'
  BY <1>1, <1>3, <1>4 DEF Agree, HeldIsShown
<1> QED BY <1>8, <1>9, <1>10, <1>11, <1>12, <1>13 DEF Agree

(* Ordered, for scripts at work together.                                     *)
LEMMA OnePublisher ==
  ASSUME Ordered, NEW m \in Nodes, NEW n \in Nodes, NEW x \in Names,
         x \in Does(m, "publish"), x \in Does(n, "publish")
  PROVE m = n
BY DEF Ordered

LEMMA AgreeBeginScript ==
  ASSUME Typed, OneStage, Agree, Ordered, NEW n \in Nodes, BeginScript(n), ~marred'
  PROVE Agree'
<1> USE DEF context
<1>1. /\ setup' = setup /\ hasRun' = hasRun /\ published' = published /\ kernelMap' = kernelMap
      /\ answer' = answer /\ at[n] = "called"
      /\ store' = StoreWithout({n}) /\ at' = [at EXCEPT ![n] = "script"]
      /\ before' = [before EXCEPT ![n] = {x \in Names : store'[x] # None}]
      /\ step' = [step EXCEPT ![n] = 1]
  BY DEF BeginScript
<1>2. Nodes' = Nodes /\ (\A m, op : Does(m, op)' = Does(m, op)) /\ (\A m : Script(m)' = Script(m))
  BY <1>1, SameScripts
<1>3. \A m \in Nodes : at[m] # "script"
  BY DEF BeginScript
<1>4. /\ \A m \in Nodes : at'[m] = IF m = n THEN "script" ELSE at[m]
      /\ \A x \in Names : store'[x] = IF store[x] = n THEN None ELSE store[x]
      /\ \A x \in Names : x \in before'[n] <=> store'[x] # None
  BY <1>1 DEF Typed, StoreWithout
<1>5. /\ \A m \in Nodes : m # None
      /\ \A x \in Names : kernelMap[x] \in Nodes \cup {None} /\ store[x] \in Nodes \cup {None}
  BY SetupType DEF Typed
<1>6. Attributed'
  BY <1>1, <1>2, <1>4 DEF Agree, Attributed
<1>7. NotYetShown'
  BY <1>1, <1>2, <1>4 DEF Agree, NotYetShown
<1>8. OneScript'
  BY <1>2, <1>3, <1>4 DEF OneScript
<1>9. Answered'
  <2>1. ScriptDiffers(n)'
    <3>1. ASSUME NEW x \in Names, x \in before'[n] PROVE x \notin Does(n, "publish")
      <4>1. store[x] \in Nodes /\ store[x] # n
        BY <1>4, <1>5, <3>1
      <4>2. x \in Does(store[x], "publish")
        BY <4>1, <1>5 DEF Agree, Attributed
      <4> QED BY <4>1, <4>2, OnePublisher
    <3> QED BY <1>2, <1>4, <3>1 DEF ScriptDiffers
  <2>2. ASSUME NEW m \in Nodes \ {n} PROVE
          /\ GainedIsHeld(m) => GainedIsHeld(m)'
          /\ LostIsGone(m) => LostIsGone(m)'
          /\ OwnIsShown(m) => OwnIsShown(m)'
    <3>1. GainedIsHeld(m) => GainedIsHeld(m)'
      BY <1>1, <1>4, <1>5 DEF GainedIsHeld
    <3>2. LostIsGone(m) => LostIsGone(m)'
      <4>1. answer[m].lost \subseteq Names
        BY DEF Typed, Answers
      <4> QED BY <1>1, <1>2, <1>4, <4>1 DEF LostIsGone
    <3>3. OwnIsShown(m) => OwnIsShown(m)'
      BY <1>1, <1>4, <1>5 DEF OwnIsShown
    <3> QED BY <3>1, <3>2, <3>3
  <2> QED BY <1>2, <1>3, <1>4, <2>1, <2>2 DEF Agree, Answered
<1>10. ShownIsHeld'
  <2>1. ASSUME NEW x \in Names, kernelMap[x] # None
        PROVE store'[x] = kernelMap[x] \/ (store'[x] = None /\ \E m \in Nodes : Took(m, x)')
    <3>1. kernelMap[x] # n
      BY <1>1 DEF Agree, NotYetShown
    <3>2. CASE store[x] = kernelMap[x]
      BY <1>4, <3>1, <3>2
    <3>3. CASE store[x] = None /\ \E m \in Nodes : Took(m, x)
      <4>1. PICK m \in Nodes : Took(m, x)
        BY <3>3
      <4>2. m # n
        BY <1>1, <4>1 DEF Took
      <4>3. Took(m, x)'
        BY <1>1, <1>3, <1>4, <4>1, <4>2 DEF Took
      <4> QED BY <1>4, <1>5, <3>3, <4>3
    <3> QED BY <2>1, <3>2, <3>3 DEF Agree, ShownIsHeld
  <2> QED BY <1>1, <1>2, <2>1 DEF ShownIsHeld
<1>11. HeldIsShown'
  BY <1>1, <1>4, <1>5 DEF Agree, HeldIsShown
<1> QED BY <1>6, <1>7, <1>8, <1>9, <1>10, <1>11 DEF Agree

(* What an operation of a script does to the store.                            *)
LEMMA StepStores ==
  ASSUME Typed, NEW n \in Nodes, ScriptStep(n)
  PROVE \E y \in Names :
          /\ \A x \in Names \ {y} : store'[x] = store[x]
          /\ \/ /\ store[y] = None /\ store'[y] = n /\ y \in Does(n, "publish")
             \/ /\ store'[y] = store[y]
             \/ /\ store[y] # None /\ store'[y] = None /\ y \in Does(n, "delete")
                /\ step[n] \in 1 .. Len(Script(n))
                /\ Script(n)[step[n]].op = "delete" /\ Script(n)[step[n]].name = y
<1> DEFINE y == Now(n).name
<1>1. InScript(n) /\ Works(n)
  BY DEF ScriptStep
<1>2. /\ y \in Names /\ Now(n).op \in {"publish", "read", "delete"} /\ y \in Does(n, Now(n).op)
      /\ step[n] \in 1 .. Len(Script(n))
  BY <1>1, NowType
<1>3. /\ \A x \in Names \ {y} : store'[x] = store[x]
      /\ store'[y] = CASE Now(n).op = "publish" -> n [] Now(n).op = "read" -> store[y] [] OTHER -> None
  BY <1>2 DEF ScriptStep, Typed
<1>4. (Now(n).op = "publish") = (store[y] = None)
  BY <1>1 DEF Works
<1>5. Now(n) = Script(n)[step[n]]
  BY DEF Now
<1> HIDE DEF y
<1>6. CASE Now(n).op = "publish"
  BY <1>2, <1>3, <1>4, <1>6
<1>7. CASE Now(n).op = "read"
  BY <1>2, <1>3, <1>7
<1>8. CASE Now(n).op = "delete"
  <2>1. store'[y] = None /\ store[y] # None
    BY <1>3, <1>4, <1>8
  <2>2. Script(n)[step[n]].op = "delete" /\ Script(n)[step[n]].name = y
    BY <1>5, <1>8 DEF y
  <2> QED BY <1>2, <1>3, <1>8, <2>1, <2>2
<1> QED BY <1>2, <1>6, <1>7, <1>8

LEMMA AgreeScriptStep ==
  ASSUME Typed, OneStage, BusyIsStale, Agree, Ordered, NEW n \in Nodes, ScriptStep(n), ~marred
  PROVE Agree'
<1> USE DEF context
<1>1. /\ setup' = setup /\ hasRun' = hasRun /\ published' = published /\ kernelMap' = kernelMap
      /\ answer' = answer /\ at' = at /\ before' = before /\ at[n] = "script"
      /\ step' = [step EXCEPT ![n] = @ + 1]
  BY DEF ScriptStep, InScript
<1>2. Nodes' = Nodes /\ (\A m, op : Does(m, op)' = Does(m, op)) /\ (\A m : Script(m)' = Script(m))
  BY <1>1, SameScripts
<1>3. step'[n] = step[n] + 1 /\ step[n] \in Nat /\ \A m \in Nodes \ {n} : step'[m] = step[m]
  BY <1>1 DEF Typed
<1>4. /\ \A m \in Nodes : m # None
      /\ \A x \in Names : kernelMap[x] \in Nodes \cup {None} /\ store[x] \in Nodes \cup {None}
  BY SetupType DEF Typed
<1>5. PICK y \in Names :
          /\ \A x \in Names \ {y} : store'[x] = store[x]
          /\ \/ /\ store[y] = None /\ store'[y] = n /\ y \in Does(n, "publish")
             \/ /\ store'[y] = store[y]
             \/ /\ store[y] # None /\ store'[y] = None /\ y \in Does(n, "delete")
                /\ step[n] \in 1 .. Len(Script(n))
                /\ Script(n)[step[n]].op = "delete" /\ Script(n)[step[n]].name = y
  BY StepStores
<1>6. n \in Busy /\ ~hasRun[n]
  BY <1>1 DEF Busy, BusyIsStale
<1>7. \A m \in Nodes : at[m] = "script" => m = n
  BY <1>1 DEF Agree, OneScript
<1>8. ScriptDiffers(n) /\ \A x \in Names : kernelMap[x] # n
  BY <1>1 DEF Agree, Answered, NotYetShown
<1>9. Attributed'
  BY <1>1, <1>2, <1>4, <1>5 DEF Agree, Attributed
<1>10. NotYetShown' /\ OneScript'
  BY <1>1, <1>2 DEF Agree, NotYetShown, OneScript
<1>11. \A x \in Names : HasDeleted(n, x) => HasDeleted(n, x)'
  BY <1>2, <1>3 DEF HasDeleted
<1>12. ScriptDiffers(n)'
  <2>1. ASSUME NEW x \in Names
        PROVE /\ x \in before[n] => x \notin Does(n, "publish")
              /\ x \in before[n] /\ store'[x] = None => HasDeleted(n, x)'
              /\ x \notin before[n] /\ store'[x] # None => store'[x] = n
    <3>1. CASE store'[x] = store[x]
      BY <1>8, <1>11, <3>1 DEF ScriptDiffers
    <3>2. CASE store[x] = None /\ store'[x] = n
      BY <1>4, <1>8, <3>2 DEF ScriptDiffers
    <3>3. CASE x = y /\ store'[y] = None /\ step[n] \in 1 .. Len(Script(n))
                /\ Script(n)[step[n]].op = "delete" /\ Script(n)[step[n]].name = y
      <4>1. HasDeleted(n, x)'
        BY <1>2, <1>3, <3>3 DEF HasDeleted
      <4> QED BY <1>8, <3>3, <4>1 DEF ScriptDiffers
    <3> QED BY <1>5, <3>1, <3>2, <3>3
  <2> QED BY <1>1, <1>2, <2>1 DEF ScriptDiffers
<1>13. ASSUME NEW m \in Nodes \ {n}
       PROVE /\ at[m] = "answered" => GainedIsHeld(m)'
             /\ at[m] \in {"answered", "published"} => LostIsGone(m)'
             /\ at[m] \in {"published", "recorded"} => OwnIsShown(m)'
  <2>1. at[m] = "answered" => GainedIsHeld(m)'
    <3> SUFFICES ASSUME at[m] = "answered", NEW x \in Names
                 PROVE (x \in answer[m].gained) <=> (store'[x] = m)
      BY <1>1 DEF GainedIsHeld
    <3>1. (x \in answer[m].gained) <=> (store[x] = m)
      BY DEF Agree, Answered, GainedIsHeld
    <3>2. CASE store'[x] = store[x]
      BY <3>1, <3>2
    <3>3. CASE store[x] = None /\ store'[x] = n
      BY <1>4, <3>1, <3>3
    <3>4. CASE store[x] # None /\ store'[x] = None /\ x \in Does(n, "delete")
      <4>1. store[x] # m
        <5> SUFFICES ASSUME store[x] = m PROVE FALSE
          OBVIOUS
        <5>1. x \in Does(m, "publish") /\ m \in Busy
          BY <3>4 DEF Agree, Attributed, Busy
        <5> QED BY <1>6, <3>4, <5>1, NoQuarrel
      <4> QED BY <1>4, <3>1, <3>4, <4>1
    <3> QED BY <1>5, <3>2, <3>3, <3>4
  <2>2. at[m] \in {"answered", "published"} => LostIsGone(m)'
    <3> SUFFICES ASSUME at[m] \in {"answered", "published"}, NEW x \in answer[m].lost
                 PROVE store'[x] = None /\ x \in Does(m, "delete")
      BY <1>1, <1>2 DEF LostIsGone
    <3>1. x \in Names /\ store[x] = None /\ x \in Does(m, "delete") /\ m \in Busy
      BY DEF Agree, Answered, LostIsGone, Typed, Answers, Busy
    <3>2. x \notin Does(n, "publish")
      BY <1>6, <3>1, NoQuarrel
    <3> QED BY <1>5, <3>1, <3>2
  <2>3. at[m] \in {"published", "recorded"} => OwnIsShown(m)'
    BY <1>1, <1>4, <1>5 DEF Agree, Answered, OwnIsShown
  <2> QED BY <2>1, <2>2, <2>3
<1>14. Answered'
  BY <1>1, <1>2, <1>7, <1>12, <1>13 DEF Answered
<1>15. \A m \in Nodes, x \in Names : Took(m, x)' = Took(m, x)
  BY <1>1 DEF Took
<1>16. ShownIsHeld'
  <2>1. ASSUME NEW x \in Names, kernelMap[x] # None
        PROVE store'[x] = kernelMap[x] \/ (store'[x] = None /\ \E m \in Nodes : Took(m, x))
    <3>1. CASE store'[x] = store[x]
      BY <2>1, <3>1 DEF Agree, ShownIsHeld
    <3>2. CASE store[x] = None /\ store'[x] = n /\ x \in Does(n, "publish")
      <4>1. PICK m \in Nodes : Took(m, x)
        BY <2>1, <3>2 DEF Agree, ShownIsHeld
      <4>2. CASE at[m] = "script" /\ x \in before[m]
        BY <1>7, <1>8, <3>2, <4>2 DEF ScriptDiffers
      <4>3. CASE at[m] \in {"answered", "published"} /\ x \in answer[m].lost
        <5>1. x \in Does(m, "delete") /\ m \in Busy
          BY <4>3 DEF Agree, Answered, LostIsGone, Busy
        <5> QED BY <1>6, <3>2, <5>1, NoQuarrel
      <4> QED BY <4>1, <4>2, <4>3 DEF Took
    <3>3. CASE store[x] # None /\ store'[x] = None
      <4>1. store[x] = kernelMap[x]
        BY <2>1, <3>3 DEF Agree, ShownIsHeld
      <4>2. x \in before[n]
        BY <1>8, <3>3, <4>1 DEF ScriptDiffers
      <4> QED BY <1>1, <3>3, <4>2 DEF Took
    <3> QED BY <1>5, <3>1, <3>2, <3>3
  <2> QED BY <1>1, <1>2, <1>15, <2>1 DEF ShownIsHeld
<1>17. HeldIsShown'
  BY <1>1, <1>5, <1>6 DEF Agree, HeldIsShown
<1> QED BY <1>9, <1>10, <1>14, <1>16, <1>17 DEF Agree

(* The kernel is not reached: the script has not begun.                        *)
LEMMA AgreeCallFails ==
  ASSUME Typed, Agree, NEW n \in Nodes, CallFails(n)
  PROVE Agree'
<1> USE DEF context, scripts
<1>1. /\ setup' = setup /\ published' = published /\ kernelMap' = kernelMap /\ store' = store
      /\ step' = step /\ before' = before /\ answer' = answer /\ at[n] = "called"
  BY DEF CallFails
<1>2. Nodes' = Nodes /\ (\A m, op : Does(m, op)' = Does(m, op)) /\ (\A m : Script(m)' = Script(m))
  BY <1>1, SameScripts
<1>3. /\ \A m \in Nodes : at'[m] = IF m = n THEN "idle" ELSE at[m]
      /\ \A m \in Nodes : hasRun'[m] => hasRun[m]
  BY DEF CallFails, Fails, FailsAs, Typed
<1>4. Attributed'
  BY <1>1, <1>2 DEF Agree, Attributed
<1>5. NotYetShown' /\ OneScript'
  BY <1>1, <1>2, <1>3 DEF Agree, NotYetShown, OneScript
<1>6. Answered'
  BY <1>1, <1>2, <1>3 DEF Agree, Answered, ScriptDiffers, HasDeleted, GainedIsHeld, LostIsGone, OwnIsShown
<1>7. ShownIsHeld'
  <2>1. ASSUME NEW x \in Names, NEW m \in Nodes, Took(m, x) PROVE Took(m, x)'
    <3>1. m # n
      BY <1>1, <2>1 DEF Took
    <3> QED BY <1>1, <1>3, <2>1, <3>1 DEF Took
  <2> QED BY <1>1, <1>2, <2>1 DEF Agree, ShownIsHeld
<1>8. HeldIsShown'
  <2>1. \A x \in Names : store[x] \in Nodes \cup {None}
    BY DEF Typed
  <2> QED BY <1>1, <1>3, <2>1 DEF Agree, HeldIsShown
<1> QED BY <1>4, <1>5, <1>6, <1>7, <1>8 DEF Agree

(* A script ends without an answer and has deleted nothing.                     *)
LEMMA AgreeDrops ==
  ASSUME Typed, Agree, NEW n \in Nodes, at[n] = "script", Drops(n), ~marred',
         setup' = setup, published' = published, kernelMap' = kernelMap, store' = store,
         \A m \in Nodes : hasRun'[m] => hasRun[m]
  PROVE Agree'
<1>1. /\ \A m \in Nodes : at'[m] = IF m = n THEN "idle" ELSE at[m]
      /\ \A m \in Nodes \ {n} : step'[m] = step[m] /\ before'[m] = before[m] /\ answer'[m] = answer[m]
  BY DEF Drops, Returns, Typed
<1>2. Nodes' = Nodes /\ (\A m, op : Does(m, op)' = Does(m, op)) /\ (\A m : Script(m)' = Script(m))
  BY SameScripts
<1>3. \A x \in Names : ~HasDeleted(n, x)
  <2>1. step[n] \in Nat \ {0} /\ Len(Script(n)) \in Nat
    BY SetupType, LenProperties DEF Typed
  <2>2. ~ \E i \in 1 .. step[n] - 1 : Script(n)[i].op = "delete"
    BY DEF Drops
  <2>3. \A i \in 1 .. Len(Script(n)) : i < step[n] => i \in 1 .. step[n] - 1
    BY <2>1
  <2> QED BY <2>2, <2>3 DEF HasDeleted
<1>4. \A x \in Names : x \in before[n] => store[x] # None
  BY <1>3 DEF Agree, Answered, ScriptDiffers
<1>5. Attributed'
  BY <1>2 DEF Agree, Attributed
<1>6. NotYetShown' /\ OneScript'
  BY <1>1, <1>2 DEF Agree, NotYetShown, OneScript
<1>7. Answered'
  <2>1. ASSUME NEW m \in Nodes \ {n}
        PROVE /\ ScriptDiffers(m) => ScriptDiffers(m)'
              /\ GainedIsHeld(m) => GainedIsHeld(m)'
              /\ LostIsGone(m) => LostIsGone(m)'
              /\ OwnIsShown(m) => OwnIsShown(m)'
    BY <1>1, <1>2 DEF ScriptDiffers, HasDeleted, GainedIsHeld, LostIsGone, OwnIsShown
  <2> QED BY <1>1, <1>2, <2>1 DEF Agree, Answered
<1>8. ShownIsHeld'
  <2>1. ASSUME NEW x \in Names, kernelMap[x] # None
        PROVE store[x] = kernelMap[x] \/ (store[x] = None /\ \E m \in Nodes : Took(m, x)')
    <3>1. CASE store[x] = None /\ \E m \in Nodes : Took(m, x)
      <4>1. PICK m \in Nodes : Took(m, x)
        BY <3>1
      <4>2. m # n
        BY <1>4, <3>1, <4>1 DEF Took
      <4>3. Took(m, x)'
        BY <1>1, <4>1, <4>2 DEF Took
      <4> QED BY <3>1, <4>3
    <3> QED BY <2>1, <3>1 DEF Agree, ShownIsHeld
  <2> QED BY <1>2, <2>1 DEF ShownIsHeld
<1>9. HeldIsShown'
  <2>1. \A x \in Names : store[x] \in Nodes \cup {None}
    BY DEF Typed
  <2> QED BY <2>1 DEF Agree, HeldIsShown
<1> QED BY <1>5, <1>6, <1>7, <1>8, <1>9 DEF Agree

LEMMA AgreeEndScript ==
  ASSUME Typed, Agree, NEW n \in Nodes, EndScript(n)
  PROVE Agree'
<1> USE DEF context
<1>1. /\ setup' = setup /\ hasRun' = hasRun /\ published' = published /\ kernelMap' = kernelMap
      /\ store' = store /\ step' = step /\ before' = before /\ at[n] = "script"
      /\ answer' = [answer EXCEPT ![n] = [gained |-> Held \ before[n], lost |-> before[n] \ Held]]
      /\ at' = [at EXCEPT ![n] = "answered"]
  BY DEF EndScript
<1>2. Nodes' = Nodes /\ (\A m, op : Does(m, op)' = Does(m, op)) /\ (\A m : Script(m)' = Script(m))
  BY <1>1, SameScripts
<1>3. /\ \A m \in Nodes : at'[m] = IF m = n THEN "answered" ELSE at[m]
      /\ \A m \in Nodes \ {n} : answer'[m] = answer[m]
      /\ answer'[n].gained = Held \ before[n] /\ answer'[n].lost = before[n] \ Held
  BY <1>1 DEF Typed
<1>4. /\ \A m \in Nodes : m # None
      /\ before[n] \subseteq Names
  BY SetupType DEF Typed
<1>5. ScriptDiffers(n)
  BY <1>1 DEF Agree, Answered
<1>6. \A x \in Names : x \in Held <=> store[x] # None
  BY DEF Held
<1>7. Attributed'
  BY <1>1, <1>2 DEF Agree, Attributed
<1>8. NotYetShown' /\ OneScript'
  BY <1>1, <1>2, <1>3 DEF Agree, NotYetShown, OneScript
<1>9. GainedIsHeld(n)'
  <2>1. ASSUME NEW x \in Names, store[x] = n PROVE x \in Held /\ x \notin before[n]
    <3>1. x \in Does(n, "publish")
      BY <1>4, <2>1 DEF Agree, Attributed
    <3> QED BY <1>4, <1>5, <1>6, <2>1, <3>1 DEF ScriptDiffers
  <2>2. ASSUME NEW x \in Names, x \in Held, x \notin before[n] PROVE store[x] = n
    BY <1>5, <1>6, <2>2 DEF ScriptDiffers
  <2> QED BY <1>1, <1>3, <2>1, <2>2 DEF GainedIsHeld
<1>10. LostIsGone(n)'
  <2>1. ASSUME NEW x \in before[n], x \notin Held PROVE store[x] = None /\ x \in Does(n, "delete")
    <3>1. x \in Names /\ store[x] = None
      BY <1>4, <1>6, <2>1
    <3>2. HasDeleted(n, x)
      BY <1>5, <2>1, <3>1 DEF ScriptDiffers
    <3> QED BY <3>1, <3>2 DEF HasDeleted, Does
  <2> QED BY <1>1, <1>2, <1>3, <2>1 DEF LostIsGone
<1>11. Answered'
  <2>1. ASSUME NEW m \in Nodes \ {n}
        PROVE /\ ScriptDiffers(m) => ScriptDiffers(m)'
              /\ GainedIsHeld(m) => GainedIsHeld(m)'
              /\ LostIsGone(m) => LostIsGone(m)'
              /\ OwnIsShown(m) => OwnIsShown(m)'
    BY <1>1, <1>2, <1>3 DEF ScriptDiffers, HasDeleted, GainedIsHeld, LostIsGone, OwnIsShown
  <2> QED BY <1>2, <1>3, <1>9, <1>10, <2>1 DEF Agree, Answered
<1>12. ShownIsHeld'
  <2>1. ASSUME NEW x \in Names, NEW m \in Nodes, Took(m, x), store[x] = None PROVE Took(m, x)'
    <3>1. CASE m = n
      BY <1>1, <1>3, <1>6, <2>1, <3>1 DEF Took
    <3>2. CASE m # n
      BY <1>1, <1>3, <2>1, <3>2 DEF Took
    <3> QED BY <3>1, <3>2
  <2> QED BY <1>1, <1>2, <2>1 DEF Agree, ShownIsHeld
<1>13. HeldIsShown'
  BY <1>1 DEF Agree, HeldIsShown
<1> QED BY <1>7, <1>8, <1>11, <1>12, <1>13 DEF Agree

LEMMA AgreeRecordPublished ==
  ASSUME Typed, Agree, NEW n \in Nodes, RecordPublished(n)
  PROVE Agree'
<1> USE DEF context, scripts
<1> DEFINE new == answer[n].gained
<1>1. /\ setup' = setup /\ hasRun' = hasRun /\ store' = store /\ step' = step
      /\ before' = before /\ answer' = answer /\ at[n] = "answered"
      /\ at' = [at EXCEPT ![n] = "published"]
      /\ published' = [published EXCEPT ![n] = @ \cup new]
      /\ kernelMap' = [x \in Names |-> IF x \in new THEN n ELSE kernelMap[x]]
  BY DEF RecordPublished
<1>2. Nodes' = Nodes /\ (\A m, op : Does(m, op)' = Does(m, op)) /\ (\A m : Script(m)' = Script(m))
  BY <1>1, SameScripts
<1>3. GainedIsHeld(n) /\ LostIsGone(n) /\ new \subseteq Names
  BY <1>1 DEF Agree, Answered, Typed, Answers
<1>4. \A x \in Names : x \in new <=> store[x] = n
  BY <1>3 DEF GainedIsHeld
<1> HIDE DEF new
<1>5. /\ \A m \in Nodes : at'[m] = IF m = n THEN "published" ELSE at[m]
      /\ \A m \in Nodes : published'[m] = IF m = n THEN published[n] \cup new ELSE published[m]
      /\ \A x \in Names : kernelMap'[x] = IF x \in new THEN n ELSE kernelMap[x]
  BY <1>1 DEF Typed
<1>6. /\ \A m \in Nodes : m # None
      /\ \A x \in Names : kernelMap[x] \in Nodes \cup {None} /\ store[x] \in Nodes \cup {None}
  BY SetupType DEF Typed
<1>7. Attributed'
  <2>1. \A x \in new : x \in Does(n, "publish")
    BY <1>3, <1>4, <1>6 DEF Agree, Attributed
  <2>2. \A x \in Names : kernelMap'[x] # None => x \in published'[kernelMap'[x]]
    BY <1>5, <1>6 DEF Agree, Attributed
  <2>3. \A m \in Nodes : published'[m] \subseteq Does(m, "publish")
    BY <1>5, <2>1 DEF Agree, Attributed
  <2> QED BY <1>1, <1>2, <2>2, <2>3 DEF Agree, Attributed
<1>8. NotYetShown' /\ OneScript'
  BY <1>2, <1>5 DEF Agree, NotYetShown, OneScript
<1>9. Answered'
  <2>1. ASSUME NEW m \in Nodes
        PROVE /\ ScriptDiffers(m) => ScriptDiffers(m)'
              /\ GainedIsHeld(m) => GainedIsHeld(m)'
              /\ LostIsGone(m) => LostIsGone(m)'
    BY <1>1, <1>2 DEF ScriptDiffers, HasDeleted, GainedIsHeld, LostIsGone
  <2>2. ASSUME NEW m \in Nodes \ {n}, OwnIsShown(m) PROVE OwnIsShown(m)'
    BY <1>1, <1>4, <1>5, <2>2 DEF OwnIsShown
  <2>3. OwnIsShown(n)'
    BY <1>1, <1>4, <1>5 DEF OwnIsShown
  <2> QED BY <1>2, <1>3, <1>5, <2>1, <2>2, <2>3 DEF Agree, Answered
<1>10. ShownIsHeld'
  <2>1. ASSUME NEW x \in Names, NEW m \in Nodes, Took(m, x) PROVE Took(m, x)'
    BY <1>1, <1>5, <2>1 DEF Took
  <2>2. ASSUME NEW x \in Names, kernelMap'[x] # None
        PROVE store[x] = kernelMap'[x] \/ (store[x] = None /\ \E m \in Nodes : Took(m, x))
    BY <1>4, <1>5, <2>2 DEF Agree, ShownIsHeld
  <2> QED BY <1>1, <1>2, <2>1, <2>2 DEF ShownIsHeld
<1>11. HeldIsShown'
  BY <1>1, <1>4, <1>5 DEF Agree, HeldIsShown
<1> QED BY <1>7, <1>8, <1>9, <1>10, <1>11 DEF Agree

LEMMA AgreeRecordDeleted ==
  ASSUME Typed, Agree, NEW n \in Nodes, RecordDeleted(n)
  PROVE Agree'
<1> USE DEF context, scripts
<1> DEFINE gone == answer[n].lost
<1>1. /\ setup' = setup /\ hasRun' = hasRun /\ store' = store /\ step' = step
      /\ before' = before /\ answer' = answer /\ at[n] = "published" /\ published' = published
      /\ at' = [at EXCEPT ![n] = "recorded"]
      /\ kernelMap' = [x \in Names |-> IF x \in gone THEN None ELSE kernelMap[x]]
  BY DEF RecordDeleted
<1>2. Nodes' = Nodes /\ (\A m, op : Does(m, op)' = Does(m, op)) /\ (\A m : Script(m)' = Script(m))
  BY <1>1, SameScripts
<1>3. OwnIsShown(n) /\ \A x \in gone : store[x] = None
  BY <1>1 DEF Agree, Answered, LostIsGone
<1>4. /\ \A m \in Nodes : at'[m] = IF m = n THEN "recorded" ELSE at[m]
      /\ \A x \in Names : kernelMap'[x] = IF x \in gone THEN None ELSE kernelMap[x]
  BY <1>1 DEF Typed
<1>5. /\ \A m \in Nodes : m # None
      /\ \A x \in Names : store[x] \in Nodes \cup {None}
  BY SetupType DEF Typed
<1>6. Attributed'
  BY <1>1, <1>2, <1>4 DEF Agree, Attributed
<1>7. NotYetShown' /\ OneScript'
  BY <1>2, <1>4, <1>5 DEF Agree, NotYetShown, OneScript
<1>8. Answered'
  <2>1. ASSUME NEW m \in Nodes
        PROVE /\ ScriptDiffers(m) => ScriptDiffers(m)'
              /\ GainedIsHeld(m) => GainedIsHeld(m)'
              /\ LostIsGone(m) => LostIsGone(m)'
    BY <1>1, <1>2 DEF ScriptDiffers, HasDeleted, GainedIsHeld, LostIsGone
  <2>2. ASSUME NEW m \in Nodes, OwnIsShown(m) PROVE OwnIsShown(m)'
    BY <1>1, <1>3, <1>4, <1>5, <2>2 DEF OwnIsShown
  <2> QED BY <1>2, <1>3, <1>4, <2>1, <2>2 DEF Agree, Answered
<1>9. ShownIsHeld'
  <2>1. ASSUME NEW x \in Names, kernelMap'[x] # None
        PROVE store[x] = kernelMap'[x] \/ (store[x] = None /\ \E m \in Nodes : Took(m, x)')
    <3>1. x \notin gone /\ kernelMap'[x] = kernelMap[x]
      BY <1>4, <2>1
    <3>2. CASE store[x] = None /\ \E m \in Nodes : Took(m, x)
      <4>1. PICK m \in Nodes : Took(m, x)
        BY <3>2
      <4>2. m # n
        BY <1>1, <3>1, <4>1 DEF Took
      <4>3. Took(m, x)'
        BY <1>1, <1>4, <4>1, <4>2 DEF Took
      <4> QED BY <3>2, <4>3
    <3> QED BY <2>1, <3>1, <3>2 DEF Agree, ShownIsHeld
  <2> QED BY <1>1, <1>2, <2>1 DEF ShownIsHeld
<1>10. HeldIsShown'
  BY <1>1, <1>3, <1>4, <1>5 DEF Agree, HeldIsShown
<1> QED BY <1>6, <1>7, <1>8, <1>9, <1>10 DEF Agree

LEMMA AgreeFinishNode ==
  ASSUME Typed, Agree, NEW n \in Nodes, FinishNode(n)
  PROVE Agree'
<1> USE DEF context
<1>1. /\ setup' = setup /\ published' = published /\ kernelMap' = kernelMap /\ store' = store
      /\ at[n] = "recorded" /\ Returns(n)
  BY DEF FinishNode
<1>2. Nodes' = Nodes /\ (\A m, op : Does(m, op)' = Does(m, op)) /\ (\A m : Script(m)' = Script(m))
  BY <1>1, SameScripts
<1>3. /\ \A m \in Nodes : at'[m] = IF m = n THEN "idle" ELSE at[m]
      /\ \A m \in Nodes \ {n} : step'[m] = step[m] /\ before'[m] = before[m] /\ answer'[m] = answer[m]
      /\ \A m \in Nodes \ {n} : hasRun'[m] = hasRun[m]
  BY <1>1 DEF FinishNode, Returns, Succeeds, Fails, FailsAs, Typed
<1>4. OwnIsShown(n) /\ \A x \in Names : store[x] \in Nodes \cup {None}
  BY <1>1 DEF Agree, Answered, Typed
<1>5. Attributed'
  BY <1>1, <1>2 DEF Agree, Attributed
<1>6. NotYetShown' /\ OneScript'
  BY <1>1, <1>2, <1>3 DEF Agree, NotYetShown, OneScript
<1>7. Answered'
  <2>1. ASSUME NEW m \in Nodes \ {n}
        PROVE /\ ScriptDiffers(m) => ScriptDiffers(m)'
              /\ GainedIsHeld(m) => GainedIsHeld(m)'
              /\ LostIsGone(m) => LostIsGone(m)'
              /\ OwnIsShown(m) => OwnIsShown(m)'
    BY <1>1, <1>2, <1>3 DEF ScriptDiffers, HasDeleted, GainedIsHeld, LostIsGone, OwnIsShown
  <2> QED BY <1>2, <1>3, <2>1 DEF Agree, Answered
<1>8. ShownIsHeld'
  <2>1. ASSUME NEW x \in Names, NEW m \in Nodes, Took(m, x) PROVE Took(m, x)'
    <3>1. m # n
      BY <1>1, <2>1 DEF Took
    <3> QED BY <1>3, <2>1, <3>1 DEF Took
  <2> QED BY <1>1, <1>2, <2>1 DEF Agree, ShownIsHeld
<1>9. HeldIsShown'
  BY <1>1, <1>3, <1>4 DEF Agree, HeldIsShown, OwnIsShown
<1> QED BY <1>5, <1>6, <1>7, <1>8, <1>9 DEF Agree

LEMMA AgreeRestartKernel ==
  ASSUME Typed, Agree, RestartKernel, ~marred'
  PROVE Agree'
<1> USE DEF context, scripts
<1>1. PICK kept \in SUBSET Held :
          /\ store' = [x \in Names |-> IF x \in kept THEN store[x] ELSE None]
          /\ marred' = (marred \/ kept # Held)
  BY DEF RestartKernel
<1>2. store' = [x \in Names |-> store[x]]
  BY <1>1 DEF Held
<1>3. store' = store
  BY <1>2 DEF Typed
<1> QED BY <1>3, AgreeFrame DEF RestartKernel

-----------------------------------------------------------------------------
(* Together. *)

LEMMA AgreeStep ==
  ASSUME Typed, OneStage, BusyIsStale, Agree, Ordered, ~marred, Next, ~marred'
  PROVE Agree'
<1> USE DEF context, runState, scripts
<1>1. CASE StartRun
  BY <1>1, AgreeStartRun
<1>2. CASE NextStage \/ EndRun \/ RequestCancel
  BY <1>2, AgreeFrame DEF NextStage, EndRun, RequestCancel
<1>3. CASE RestartKernel
  BY <1>3, AgreeRestartKernel
<1>4. ASSUME NEW n \in Nodes, SkipNode(n) PROVE Agree'
  BY <1>4, AgreeFrame DEF SkipNode
<1>5. ASSUME NEW n \in Nodes, RunElsewhere(n) \/ CallKernel(n) PROVE Agree'
  BY <1>5, AgreeRunElsewhere, AgreeCallKernel
<1>6. ASSUME NEW n \in Nodes, BeginScript(n) \/ ScriptStep(n) \/ EndScript(n) PROVE Agree'
  BY <1>6, AgreeBeginScript, AgreeScriptStep, AgreeEndScript
<1>7. ASSUME NEW n \in Nodes, ScriptLacks(n) \/ ScriptRaises(n) PROVE Agree'
  <2>1. \A m \in Nodes : hasRun'[m] => hasRun[m]
    BY <1>7 DEF ScriptLacks, ScriptRaises, Fails, FailsAs, Typed
  <2> QED BY <1>7, <2>1, AgreeDrops DEF ScriptLacks, ScriptRaises, InScript
<1>8. ASSUME NEW n \in Nodes, RecordPublished(n) \/ RecordDeleted(n) \/ FinishNode(n) PROVE Agree'
  BY <1>8, AgreeRecordPublished, AgreeRecordDeleted, AgreeFinishNode
<1>11. ASSUME NEW n \in Nodes, CallFails(n) PROVE Agree'
  BY <1>11, AgreeCallFails
<1>9. ASSUME NEW n \in Nodes, EditSettings(n) PROVE Agree'
  <2>1. \A m \in Nodes : hasRun'[m] => hasRun[m]
    BY <1>9 DEF EditSettings
  <2> QED BY <1>9, <2>1, AgreeFrame DEF EditSettings
<1>10. ASSUME NEW n \in Nodes, StartFetch(n) PROVE Agree'
  BY <1>10 DEF StartFetch
<1> QED BY <1>1, <1>2, <1>3, <1>4, <1>5, <1>6, <1>7, <1>8, <1>9, <1>10, <1>11 DEF Next

(* What has marred the record once is remembered.                              *)
LEMMA MarredStays ==
  ASSUME Next, marred
  PROVE marred'
<1>1. StartRun \/ NextStage \/ EndRun \/ RequestCancel \/ RestartKernel => marred'
  BY DEF StartRun, NextStage, EndRun, RequestCancel, RestartKernel
<1>2. ASSUME NEW n \in Nodes, SkipNode(n) \/ RunElsewhere(n) \/ CallKernel(n) \/ CallFails(n)
                                  \/ BeginScript(n) \/ ScriptStep(n) \/ ScriptLacks(n) \/ ScriptRaises(n) \/ EndScript(n)
      PROVE marred'
  BY <1>2 DEF SkipNode, RunElsewhere, CallKernel, CallFails, BeginScript, ScriptStep, ScriptLacks,
              ScriptRaises, EndScript, Drops
<1>3. ASSUME NEW n \in Nodes, RecordPublished(n) \/ RecordDeleted(n) \/ FinishNode(n)
                                  \/ EditSettings(n) \/ StartFetch(n)
      PROVE marred'
  BY <1>3 DEF RecordPublished, RecordDeleted, FinishNode, EditSettings, StartFetch
<1> QED BY <1>1, <1>2, <1>3 DEF Next

LEMMA IInvInit == Init => IInv
BY TypedInit, OneStageInit, AgreeInit DEF IInv

LEMMA IInvStep == IInv /\ [Next]_vars => IInv'
<1>1. ASSUME IInv, Next PROVE IInv'
  <2>1. setup' = setup /\ Nodes' = Nodes /\ OnKernel' = OnKernel /\ Ordered' = Ordered
    BY <1>1, SameFlow, SameScripts
  <2>2. Typed'
    BY <1>1, TypedStep DEF IInv
  <2>3. OneStage' /\ BusyIsStale'
    BY <1>1, <2>1, OneStageRun, OneStageScript, OneStageBetween DEF IInv, Next
  <2>4. ASSUME ~marred', Ordered' PROVE Agree'
    BY <1>1, <2>1, <2>4, AgreeStep, MarredStays DEF IInv
  <2> QED BY <2>2, <2>3, <2>4 DEF IInv
<1>2. ASSUME IInv, UNCHANGED vars PROVE IInv'
  <2>1. setup' = setup
    BY <1>2 DEF vars
  <2>2. Ordered' = Ordered /\ OnKernel' = OnKernel
    BY <2>1, SameScripts
  <2>3. Typed'
    BY <1>2, TypedStep DEF IInv
  <2>4. OneStage' /\ BusyIsStale' /\ marred' = marred
    BY <1>2, <2>2 DEF IInv, OneStage, BusyIsStale, Busy, vars, Nodes
  <2>5. ASSUME Agree PROVE Agree'
    BY <1>2, <2>1, <2>5, AgreeFrame DEF IInv, vars
  <2> QED BY <1>2, <2>2, <2>3, <2>4, <2>5 DEF IInv
<1> QED BY <1>1, <1>2

(* MapTellsStore for every flow: while nothing executes, the core's map of the  *)
(* kernel and the kernel's store agree, as long as no fetch, no script that      *)
(* failed after a deletion, no scripts side by side and no loss at a restart      *)
(* came between.                                                              *)
THEOREM RecordTellsStore == Spec => []MapTellsStore
<1>1. IInv => MapTellsStore
  <2> SUFFICES ASSUME IInv, ~marred, Busy = {}, Ordered, NEW x \in Names
               PROVE /\ kernelMap[x] # None => store[x] = kernelMap[x]
                     /\ store[x] # None /\ hasRun[store[x]] => kernelMap[x] = store[x]
    BY DEF MapTellsStore
  <2>1. ShownIsHeld /\ HeldIsShown
    BY DEF IInv, Agree
  <2>2. \A n \in Nodes : ~Took(n, x)
    BY DEF Busy, Took
  <2> QED BY <2>1, <2>2 DEF ShownIsHeld, HeldIsShown
<1>2. Spec => []IInv
  BY IInvInit, IInvStep, PTL DEF Spec
<1> QED BY <1>1, <1>2, PTL

-----------------------------------------------------------------------------
(* Sets that grow step by step. *)

LEMMA LeastNatural ==
  ASSUME NEW T \in SUBSET Nat, T # {}
  PROVE \E m \in T : \A k \in T : m <= k
<1> DEFINE R == {ss \in Nat \X Nat : ss[1] < ss[2]}
<1>1. IsWellFoundedOn(R, Nat)
  BY NatLessThanWellFounded DEF OpToRel
<1> HIDE DEF R
<1>2. PICK m \in T : \A k \in T : <<k, m>> \notin R
  BY <1>1, WFMin
<1>3. \A k \in T : ~(k < m)
  BY <1>2 DEF R
<1> QED BY <1>3

LEMMA SetInduction ==
  ASSUME NEW S, 0 \in S, \A n \in Nat : n \in S => n + 1 \in S
  PROVE Nat \subseteq S
<1> SUFFICES ASSUME Nat \ S # {} PROVE FALSE
  OBVIOUS
<1>1. PICK m \in Nat \ S : \A k \in Nat \ S : m <= k
  <2>1. Nat \ S \in SUBSET Nat
    OBVIOUS
  <2> QED BY <2>1, LeastNatural
<1>2. m # 0 /\ m - 1 \in Nat
  BY <1>1
<1>3. m - 1 \in S
  BY <1>1, <1>2
<1> QED BY <1>1, <1>2, <1>3

(* A chain f[0], g[f[0]], g[g[f[0]]], ... of any length. *)
IsChain(f, g, A, K) == f[0] = A /\ \A k \in 1 .. K : f[k] = g[f[k - 1]]

LEMMA ChainExists ==
  ASSUME NEW T, NEW g \in [T -> T], NEW A \in T, NEW N \in Nat
  PROVE \E f \in [0 .. N -> T] : IsChain(f, g, A, N)
<1> DEFINE L == {K \in Nat : \E f \in [0 .. K -> T] : IsChain(f, g, A, K)}
<1>1. 0 \in L
  <2>1. [k \in 0 .. 0 |-> A] \in [0 .. 0 -> T] /\ IsChain([k \in 0 .. 0 |-> A], g, A, 0)
    BY DEF IsChain
  <2> QED BY <2>1
<1>2. ASSUME NEW K \in Nat, K \in L PROVE K + 1 \in L
  <2>1. PICK f \in [0 .. K -> T] : IsChain(f, g, A, K)
    BY <1>2
  <2> DEFINE h == [k \in 0 .. K + 1 |-> IF k = K + 1 THEN g[f[K]] ELSE f[k]]
  <2>2. h \in [0 .. K + 1 -> T]
    BY <2>1
  <2>3. h[0] = A
    BY <2>1 DEF IsChain
  <2>4. ASSUME NEW k \in 1 .. K + 1 PROVE h[k] = g[h[k - 1]]
    <3>1. CASE k = K + 1
      BY <3>1
    <3>2. CASE k # K + 1
      <4>1. k \in 1 .. K /\ k - 1 \in 0 .. K /\ k - 1 # K + 1
        BY <3>2
      <4> QED BY <2>1, <4>1 DEF IsChain
    <3> QED BY <3>1, <3>2
  <2>5. IsChain(h, g, A, K + 1)
    BY <2>3, <2>4 DEF IsChain
  <2> QED BY <2>2, <2>5
<1> HIDE DEF L
<1>3. Nat \subseteq L
  BY <1>1, <1>2, SetInduction
<1> QED BY <1>3 DEF L

(* A chain of sets that only grow, within a set of as many elements as it has    *)
(* steps.                                                                    *)
GrowingChain(f, g, T, N) ==
    /\ N \in Nat /\ IsFiniteSet(T) /\ Cardinality(T) = N
    /\ g \in [SUBSET T -> SUBSET T] /\ f \in [0 .. N -> SUBSET T]
    /\ \A S \in SUBSET T : S \subseteq g[S]

(* It stops growing. *)
Closes(f, g, N) == g[f[N]] = f[N]

LEMMA ChainCloses ==
  ASSUME NEW T, NEW N, NEW g, NEW f, NEW A, GrowingChain(f, g, T, N), IsChain(f, g, A, N)
  PROVE Closes(f, g, N)
<1> SUFFICES ASSUME g[f[N]] # f[N] PROVE FALSE
  BY DEF Closes
<1>1. /\ N \in Nat /\ IsFiniteSet(T) /\ Cardinality(T) = N
      /\ g \in [SUBSET T -> SUBSET T] /\ f \in [0 .. N -> SUBSET T]
      /\ \A S \in SUBSET T : S \subseteq g[S]
  BY DEF GrowingChain
<1> USE <1>1
<1>2. ASSUME NEW S \in SUBSET T
      PROVE IsFiniteSet(S) /\ Cardinality(S) \in Nat /\ Cardinality(S) <= N
  <2>1. IsFiniteSet(S) /\ Cardinality(S) <= N
    BY FS_Subset
  <2> QED BY <2>1, FS_CardinalityType
<1> DEFINE Stopped == {j \in Nat : j <= N /\ g[f[N - j]] = f[N - j] => g[f[N]] = f[N]}
<1>3. Nat \subseteq Stopped
  <2>1. 0 \in Stopped
    OBVIOUS
  <2>2. ASSUME NEW j \in Nat, j \in Stopped PROVE j + 1 \in Stopped
    <3> SUFFICES ASSUME j + 1 <= N, g[f[N - (j + 1)]] = f[N - (j + 1)] PROVE g[f[N]] = f[N]
      OBVIOUS
    <3>1. N - j \in 1 .. N /\ (N - j) - 1 = N - (j + 1)
      OBVIOUS
    <3>2. f[N - j] = g[f[N - (j + 1)]]
      BY <3>1 DEF IsChain
    <3> QED BY <2>2, <3>2
  <2> HIDE DEF Stopped
  <2> QED BY <2>1, <2>2, SetInduction
<1>4. ASSUME NEW k \in 0 .. N PROVE g[f[k]] # f[k]
  <2>1. N - k \in Nat /\ N - k <= N /\ N - (N - k) = k
    OBVIOUS
  <2>2. N - k \in Stopped
    BY <1>3, <2>1
  <2> QED BY <2>1, <2>2
<1> DEFINE Large == {k \in Nat : k <= N => Cardinality(f[k]) >= k}
<1>5. Nat \subseteq Large
  <2>1. 0 \in Large
    BY <1>2
  <2>2. ASSUME NEW k \in Nat, k \in Large PROVE k + 1 \in Large
    <3> SUFFICES ASSUME k + 1 <= N PROVE Cardinality(f[k + 1]) >= k + 1
      OBVIOUS
    <3>1. k \in 0 .. N /\ k + 1 \in 1 .. N /\ (k + 1) - 1 = k /\ f[k] \in SUBSET T
      OBVIOUS
    <3>2. f[k + 1] = g[f[k]] /\ f[k + 1] \in SUBSET T /\ f[k] \subseteq f[k + 1] /\ f[k] # f[k + 1]
      BY <1>4, <3>1 DEF IsChain
    <3>3. Cardinality(f[k]) < Cardinality(f[k + 1])
      <4>1. IsFiniteSet(f[k + 1]) /\ f[k] \in SUBSET f[k + 1]
        BY <1>2, <3>2
      <4>2. /\ Cardinality(f[k]) <= Cardinality(f[k + 1])
            /\ Cardinality(f[k + 1]) = Cardinality(f[k]) => f[k + 1] = f[k]
        BY <4>1, FS_Subset
      <4> QED BY <1>2, <3>1, <3>2, <4>2
    <3>4. Cardinality(f[k]) >= k
      BY <2>2
    <3>5. Cardinality(f[k]) \in Nat /\ Cardinality(f[k + 1]) \in Nat
      BY <1>2, <3>1, <3>2
    <3> QED BY <3>3, <3>4, <3>5
  <2> HIDE DEF Large
  <2> QED BY <2>1, <2>2, SetInduction
<1>6. f[N] \in SUBSET T /\ Cardinality(f[N]) >= N /\ Cardinality(f[N]) <= N /\ Cardinality(f[N]) \in Nat
  BY <1>2, <1>5
<1>7. f[N] = T
  <2>1. Cardinality(f[N]) = N
    BY <1>6
  <2> QED BY <1>6, <2>1, FS_Subset
<1>8. g[f[N]] \in SUBSET T /\ f[N] \subseteq g[f[N]]
  BY <1>6
<1> QED BY <1>7, <1>8

(* A set that holds the start and is closed under the step holds the chain. *)
LEMMA ChainStaysIn ==
  ASSUME NEW N \in Nat, NEW f, NEW g, NEW A, IsChain(f, g, A, N),
         NEW S, A \in SUBSET S, \A B \in SUBSET S : g[B] \in SUBSET S
  PROVE f[N] \in SUBSET S
<1> DEFINE L == {k \in Nat : k <= N => f[k] \in SUBSET S}
<1>1. 0 \in L
  BY DEF IsChain
<1>2. ASSUME NEW k \in Nat, k \in L PROVE k + 1 \in L
  <2> SUFFICES ASSUME k + 1 <= N PROVE f[k + 1] \in SUBSET S
    OBVIOUS
  <2>1. k + 1 \in 1 .. N /\ (k + 1) - 1 = k /\ k <= N
    OBVIOUS
  <2>2. f[k + 1] = g[f[k]]
    BY <2>1 DEF IsChain
  <2>3. f[k] \in SUBSET S
    BY <1>2, <2>1
  <2> QED BY <2>2, <2>3
<1> HIDE DEF L
<1>3. Nat \subseteq L
  BY <1>1, <1>2, SetInduction
<1>4. N \in L
  BY <1>3
<1> QED BY <1>4 DEF L

(* A set that contains the first of the chain, which only grows. *)
LEMMA ChainGrows ==
  ASSUME NEW T, NEW N \in Nat, NEW g \in [SUBSET T -> SUBSET T], NEW f \in [0 .. N -> SUBSET T], NEW A \in SUBSET T,
         IsChain(f, g, A, N), \A B \in SUBSET T : B \subseteq g[B]
  PROVE A \subseteq f[N]
<1> DEFINE L == {k \in Nat : k <= N => A \subseteq f[k]}
<1>1. 0 \in L
  BY DEF IsChain
<1>2. ASSUME NEW k \in Nat, k \in L PROVE k + 1 \in L
  <2> SUFFICES ASSUME k + 1 <= N PROVE A \subseteq f[k + 1]
    OBVIOUS
  <2>1. k \in 0 .. N /\ k + 1 \in 1 .. N /\ (k + 1) - 1 = k
    OBVIOUS
  <2>2. f[k + 1] = g[f[k]] /\ f[k] \in SUBSET T
    BY <2>1 DEF IsChain
  <2>3. A \subseteq f[k]
    BY <1>2
  <2> QED BY <2>2, <2>3
<1> HIDE DEF L
<1>3. Nat \subseteq L
  BY <1>1, <1>2, SetInduction
<1>4. N \in L
  BY <1>3
<1> QED BY <1>4 DEF L

-----------------------------------------------------------------------------
(* The flow, and the loop over what was deleted. *)

LEMMA FlowShape ==
  ASSUME setup \in Setups
  PROVE /\ Len(setup.script) \in Nat /\ Nodes = 1 .. Len(setup.script)
        /\ IsFiniteSet(Nodes) /\ Cardinality(Nodes) = Len(setup.script)
        /\ setup.inputs \in [Nodes -> SUBSET Nodes]
        /\ setup.stages \in Seq(SUBSET Nodes)
<1>1. Nodes = 1 .. Len(setup.script) /\ Len(setup.script) \in Nat
  BY SetupsAssumption, LenProperties DEF Nodes
<1>2. IsFiniteSet(Nodes) /\ Cardinality(Nodes) = Len(setup.script)
  <2>1. 1 \in Int /\ Len(setup.script) \in Int
    BY <1>1
  <2> QED BY <1>1, <2>1, FS_Interval
<1>3. setup.inputs \in [DOMAIN setup.inputs -> SUBSET Nodes] /\ DOMAIN setup.inputs = Nodes
  <2>1. DOMAIN setup.inputs = Nodes /\ setup.inputs \in Seq(SUBSET Nodes)
    BY SetupsAssumption DEF Nodes
  <2>2. setup.inputs \in [1 .. Len(setup.inputs) -> SUBSET Nodes] /\ DOMAIN setup.inputs = 1 .. Len(setup.inputs)
    BY <2>1, LenProperties
  <2> QED BY <2>1, <2>2
<1>4. setup.stages \in Seq(SUBSET Nodes)
  BY SetupsAssumption DEF Nodes
<1> QED BY <1>1, <1>2, <1>3, <1>4

(* Upstream is the end of a chain. *)
Inward == [S \in SUBSET Nodes |-> S \cup UNION {setup.inputs[m] : m \in S}]

LEMMA InwardType ==
  ASSUME setup \in Setups
  PROVE Inward \in [SUBSET Nodes -> SUBSET Nodes]
<1> SUFFICES ASSUME NEW S \in SUBSET Nodes
             PROVE S \cup UNION {setup.inputs[m] : m \in S} \in SUBSET Nodes
  BY DEF Inward
<1>1. \A m \in S : setup.inputs[m] \subseteq Nodes
  BY FlowShape
<1> QED BY <1>1

LEMMA UpstreamIsChain ==
  ASSUME setup \in Setups, NEW n \in Nodes
  PROVE \E f \in [0 .. Len(setup.script) -> SUBSET Nodes] :
            IsChain(f, Inward, setup.inputs[n], Len(setup.script)) /\ Upstream(n) = f[Len(setup.script)]
<1> DEFINE N == Len(setup.script)
<1> DEFINE Up[k \in 0 .. Len(setup.script)] ==
            IF k = 0 THEN setup.inputs[n] ELSE Up[k - 1] \cup UNION {setup.inputs[m] : m \in Up[k - 1]}
<1>1. N \in Nat /\ setup.inputs[n] \in SUBSET Nodes /\ Inward \in [SUBSET Nodes -> SUBSET Nodes]
  BY FlowShape, InwardType
<1>2. PICK f \in [0 .. N -> SUBSET Nodes] : IsChain(f, Inward, setup.inputs[n], N)
  <2> HIDE DEF N
  <2> QED BY <1>1, ChainExists
<1>3. f = [k \in 0 .. N |-> IF k = 0 THEN setup.inputs[n]
                            ELSE f[k - 1] \cup UNION {setup.inputs[m] : m \in f[k - 1]}]
  <2>1. ASSUME NEW k \in 0 .. N
        PROVE f[k] = IF k = 0 THEN setup.inputs[n]
                            ELSE f[k - 1] \cup UNION {setup.inputs[m] : m \in f[k - 1]}
    <3>1. CASE k = 0
      BY <1>2, <3>1 DEF IsChain
    <3>2. CASE k # 0
      <4>1. k \in 1 .. N /\ k - 1 \in 0 .. N
        BY <1>1, <3>2
      <4>2. f[k] = Inward[f[k - 1]] /\ f[k - 1] \in SUBSET Nodes
        BY <1>2, <4>1 DEF IsChain
      <4> QED BY <3>2, <4>2 DEF Inward
    <3> QED BY <3>1, <3>2
  <2> QED BY <1>2, <2>1
<1>4. Up = [k \in 0 .. N |-> IF k = 0 THEN setup.inputs[n]
                            ELSE Up[k - 1] \cup UNION {setup.inputs[m] : m \in Up[k - 1]}]
  BY <1>3
<1>5. Upstream(n) = Up[N]
  BY DEF Upstream, UpstreamIn
<1> HIDE DEF Up
<1>6. ASSUME NEW k \in 0 .. N PROVE Up[k] \in SUBSET Nodes
  <2> DEFINE L == {j \in Nat : j <= N => Up[j] \in SUBSET Nodes}
  <2>1. 0 \in L
    BY <1>1, <1>4
  <2>2. ASSUME NEW j \in Nat, j \in L PROVE j + 1 \in L
    <3> SUFFICES ASSUME j + 1 <= N PROVE Up[j + 1] \in SUBSET Nodes
      OBVIOUS
    <3>1. j + 1 \in 0 .. N /\ j + 1 # 0 /\ (j + 1) - 1 = j
      BY <1>1
    <3>2. Up[j + 1] = Up[j] \cup UNION {setup.inputs[m] : m \in Up[j]}
      BY <1>4, <3>1
    <3>3. Up[j] \in SUBSET Nodes
      BY <1>1, <2>2
    <3> QED BY <3>2, <3>3, FlowShape
  <2> HIDE DEF L
  <2>3. k \in L
    BY <1>1, <2>1, <2>2, SetInduction
  <2> QED BY <1>1, <2>3 DEF L
<1>7. Up \in [0 .. N -> SUBSET Nodes]
  BY <1>4, <1>6
<1>8. IsChain(Up, Inward, setup.inputs[n], N)
  <2>1. Up[0] = setup.inputs[n]
    BY <1>1, <1>4
  <2>2. ASSUME NEW k \in 1 .. N PROVE Up[k] = Inward[Up[k - 1]]
    <3>1. k \in 0 .. N /\ k # 0 /\ k - 1 \in 0 .. N
      BY <1>1
    <3>2. Up[k] = Up[k - 1] \cup UNION {setup.inputs[m] : m \in Up[k - 1]}
      BY <1>4, <3>1
    <3> QED BY <1>6, <3>1, <3>2 DEF Inward
  <2> QED BY <2>1, <2>2 DEF IsChain
<1> QED BY <1>5, <1>7, <1>8

(* What feeds a node, and what feeds that. *)
LEMMA UpstreamCloses ==
  ASSUME setup \in Setups, NEW n \in Nodes
  PROVE /\ Upstream(n) \subseteq Nodes
        /\ setup.inputs[n] \subseteq Upstream(n)
        /\ \A m \in Upstream(n) : setup.inputs[m] \subseteq Upstream(n)
<1> DEFINE N == Len(setup.script)
<1>1. PICK f \in [0 .. N -> SUBSET Nodes] : IsChain(f, Inward, setup.inputs[n], N) /\ Upstream(n) = f[N]
  BY UpstreamIsChain
<1>2. /\ N \in Nat /\ IsFiniteSet(Nodes) /\ Cardinality(Nodes) = N
      /\ Inward \in [SUBSET Nodes -> SUBSET Nodes]
      /\ \A S \in SUBSET Nodes : S \subseteq Inward[S]
  BY FlowShape, InwardType DEF Inward
<1> DEFINE A == setup.inputs[n]
<1>8. IsChain(f, Inward, A, N) /\ A \in SUBSET Nodes
  BY <1>1, FlowShape
<1> HIDE DEF N, A
<1>3. Inward[f[N]] = f[N]
  <2>1. GrowingChain(f, Inward, Nodes, N)
    BY <1>2 DEF GrowingChain
  <2>2. Closes(f, Inward, N)
    BY ONLY <1>8, <2>1, ChainCloses
  <2> QED BY <2>2 DEF Closes
<1>4. setup.inputs[n] \subseteq f[N]
  <2>1. A \subseteq f[N]
    BY ONLY <1>2, <1>8, ChainGrows
  <2> QED BY <2>1 DEF A
<1>5. f[N] \in SUBSET Nodes
  BY <1>1, <1>2
<1>6. \A m \in f[N] : setup.inputs[m] \subseteq Inward[f[N]]
  BY <1>5 DEF Inward
<1> QED BY <1>1, <1>3, <1>4, <1>5, <1>6

LEMMA UpstreamTransitive ==
  ASSUME setup \in Setups, NEW n \in Nodes, NEW m \in Upstream(n)
  PROVE m \in Nodes /\ Upstream(m) \subseteq Upstream(n)
<1> DEFINE N == Len(setup.script)
<1>1. m \in Nodes
  BY UpstreamCloses
<1>2. PICK f \in [0 .. N -> SUBSET Nodes] : IsChain(f, Inward, setup.inputs[m], N) /\ Upstream(m) = f[N]
  BY <1>1, UpstreamIsChain
<1>3. N \in Nat /\ Inward \in [SUBSET Nodes -> SUBSET Nodes]
  BY FlowShape, InwardType
<1>4. setup.inputs[m] \subseteq Upstream(n) /\ \A k \in Upstream(n) : setup.inputs[k] \subseteq Upstream(n)
  BY UpstreamCloses
<1>5. \A B \in SUBSET Upstream(n) : Inward[B] \in SUBSET Upstream(n)
  BY <1>4, UpstreamCloses DEF Inward
<1> HIDE DEF N
<1>6. f[N] \subseteq Upstream(n)
  <2> DEFINE A == setup.inputs[m]
  <2> DEFINE S == Upstream(n)
  <2>1. IsChain(f, Inward, A, N) /\ A \subseteq S /\ A \in SUBSET Nodes /\ S \in SUBSET Nodes /\ \A B \in SUBSET S : Inward[B] \in SUBSET S
    BY <1>1, <1>2, <1>4, <1>5, FlowShape, UpstreamCloses
  <2> HIDE DEF A, S
  <2>2. f[N] \in SUBSET S
    BY <1>2, <1>3, <2>1, ChainStaysIn
  <2> QED BY <2>2 DEF S
<1> QED BY <1>1, <1>2, <1>6

(* The nodes made to run again are closed under the loop that finds them.       *)
Remade == [S \in SUBSET Nodes |-> S \cup Producers(S)]

(* Those on record as the publishers of something that was deleted.             *)
Makers == {n \in Nodes : \E d \in Nodes : \E o \in origins[d] : o.by = n}

LEMMA ProducersAreMakers ==
  ASSUME origins \in [Nodes -> SUBSET [name : Names, by : Nodes]], NEW S \in SUBSET Nodes
  PROVE Producers(S) \in SUBSET Makers
<1> SUFFICES ASSUME NEW d \in S, NEW o \in origins[d] PROVE o.by \in Makers
  BY DEF Producers
<1>1. d \in Nodes /\ o \in [name : Names, by : Nodes]
  OBVIOUS
<1> QED BY <1>1 DEF Makers

LEMMA RerunIsChain ==
  ASSUME setup \in Setups, origins \in [Nodes -> SUBSET [name : Names, by : Nodes]]
  PROVE \E f \in [0 .. Len(setup.script) -> SUBSET Nodes] :
            IsChain(f, Remade, NotYetRun, Len(setup.script)) /\ Rerun = f[Len(setup.script)]
<1> DEFINE N == Len(setup.script)
<1> DEFINE Grown[k \in 0 .. Len(setup.script)] ==
            IF k = 0 THEN NotYetRun ELSE Grown[k - 1] \cup Producers(Grown[k - 1])
<1>1. N \in Nat /\ NotYetRun \in SUBSET Nodes
  BY FlowShape DEF NotYetRun, OnKernel
<1>2. Makers \in SUBSET Nodes
  BY DEF Makers
<1>3. Remade \in [SUBSET Nodes -> SUBSET Nodes]
  BY <1>2, ProducersAreMakers DEF Remade
<1>4. PICK f \in [0 .. N -> SUBSET Nodes] : IsChain(f, Remade, NotYetRun, N)
  <2> HIDE DEF N
  <2> QED BY <1>1, <1>3, ChainExists
<1>5. f = [k \in 0 .. N |-> IF k = 0 THEN NotYetRun ELSE f[k - 1] \cup Producers(f[k - 1])]
  <2>1. ASSUME NEW k \in 0 .. N
        PROVE f[k] = IF k = 0 THEN NotYetRun ELSE f[k - 1] \cup Producers(f[k - 1])
    <3>1. CASE k = 0
      BY <1>4, <3>1 DEF IsChain
    <3>2. CASE k # 0
      <4>1. k \in 1 .. N /\ k - 1 \in 0 .. N
        BY <1>1, <3>2
      <4>2. f[k] = Remade[f[k - 1]] /\ f[k - 1] \in SUBSET Nodes
        BY <1>4, <4>1 DEF IsChain
      <4> QED BY <3>2, <4>2 DEF Remade
    <3> QED BY <3>1, <3>2
  <2> QED BY <1>4, <2>1
<1>6. Grown = [k \in 0 .. N |-> IF k = 0 THEN NotYetRun ELSE Grown[k - 1] \cup Producers(Grown[k - 1])]
  BY <1>5
<1>7. Rerun = Grown[N]
  BY DEF Rerun
<1> HIDE DEF Grown
<1>8. ASSUME NEW k \in 0 .. N PROVE Grown[k] \in SUBSET Nodes
  <2> DEFINE L == {j \in Nat : j <= N => Grown[j] \in SUBSET Nodes}
  <2>1. 0 \in L
    BY <1>1, <1>6
  <2>2. ASSUME NEW j \in Nat, j \in L PROVE j + 1 \in L
    <3> SUFFICES ASSUME j + 1 <= N PROVE Grown[j + 1] \in SUBSET Nodes
      OBVIOUS
    <3>1. j + 1 \in 0 .. N /\ j + 1 # 0 /\ (j + 1) - 1 = j
      BY <1>1
    <3>2. Grown[j + 1] = Grown[j] \cup Producers(Grown[j])
      BY <1>6, <3>1
    <3>3. Grown[j] \in SUBSET Nodes
      BY <1>1, <2>2
    <3>4. Producers(Grown[j]) \in SUBSET Makers
      BY <3>3, ProducersAreMakers
    <3> QED BY <1>2, <3>2, <3>3, <3>4
  <2> HIDE DEF L
  <2>3. k \in L
    BY <1>1, <2>1, <2>2, SetInduction
  <2> QED BY <1>1, <2>3 DEF L
<1>9. Grown \in [0 .. N -> SUBSET Nodes]
  BY <1>6, <1>8
<1>10. IsChain(Grown, Remade, NotYetRun, N)
  <2>1. Grown[0] = NotYetRun
    BY <1>1, <1>6
  <2>2. ASSUME NEW k \in 1 .. N PROVE Grown[k] = Remade[Grown[k - 1]]
    <3>1. k \in 0 .. N /\ k # 0 /\ k - 1 \in 0 .. N
      BY <1>1
    <3>2. Grown[k] = Grown[k - 1] \cup Producers(Grown[k - 1])
      BY <1>6, <3>1
    <3> QED BY <1>8, <3>1, <3>2 DEF Remade
  <2> QED BY <2>1, <2>2 DEF IsChain
<1> QED BY <1>7, <1>9, <1>10

(* The loop has gone far enough: who had published what a node that runs again   *)
(* had deleted runs again, and nobody else does.                              *)
LEMMA RerunCloses ==
  ASSUME setup \in Setups, origins \in [Nodes -> SUBSET [name : Names, by : Nodes]]
  PROVE /\ Rerun \subseteq NotYetRun \cup Makers
        /\ NotYetRun \subseteq Rerun
        /\ Producers(Rerun) \subseteq Rerun
<1> DEFINE N == Len(setup.script)
<1>1. PICK f \in [0 .. N -> SUBSET Nodes] : IsChain(f, Remade, NotYetRun, N) /\ Rerun = f[N]
  BY RerunIsChain
<1>2. Makers \in SUBSET Nodes /\ NotYetRun \in SUBSET Nodes
  BY DEF Makers, NotYetRun, OnKernel
<1>3. /\ N \in Nat /\ IsFiniteSet(Nodes) /\ Cardinality(Nodes) = N
      /\ Remade \in [SUBSET Nodes -> SUBSET Nodes]
      /\ \A S \in SUBSET Nodes : S \subseteq Remade[S]
  BY <1>2, FlowShape, ProducersAreMakers DEF Remade
<1> DEFINE A == NotYetRun
<1> HIDE DEF N
<1>8. IsChain(f, Remade, A, N) /\ A \in SUBSET Nodes
  BY <1>1, <1>2
<1> HIDE DEF A
<1>4. Remade[f[N]] = f[N]
  <2>1. GrowingChain(f, Remade, Nodes, N)
    BY <1>3 DEF GrowingChain
  <2>2. Closes(f, Remade, N)
    BY ONLY <1>8, <2>1, ChainCloses
  <2> QED BY <2>2 DEF Closes
<1>5. A \subseteq f[N]
  BY ONLY <1>3, <1>8, ChainGrows
<1>6. f[N] \in SUBSET (NotYetRun \cup Makers)
  <2> DEFINE S == NotYetRun \cup Makers
  <2>1. NotYetRun \in SUBSET S
    OBVIOUS
  <2>2. \A B \in SUBSET S : Remade[B] \in SUBSET S
    BY <1>2, ProducersAreMakers DEF Remade
  <2> HIDE DEF S
  <2>3. f[N] \in SUBSET S
    BY <1>1, <1>3, <2>1, <2>2, ChainStaysIn
  <2> QED BY <2>3 DEF S
<1>7. Producers(f[N]) \subseteq Remade[f[N]]
  BY <1>1, <1>3 DEF Remade
<1> QED BY <1>1, <1>4, <1>5, <1>6, <1>7 DEF A

-----------------------------------------------------------------------------
(* Scripts that run again. *)

(* What a node that has run published is held and shown, or on its way out, or   *)
(* deleted by somebody whose record says whose it was.                        *)
Origin(x, n) == [name |-> x, by |-> n]

Held1(n, x) == store[x] = n /\ kernelMap[x] = n

BeingTaken(n, x) == store[x] = None /\ kernelMap[x] = n /\ \E d \in Nodes : Took(d, x)

Traced(n, x) == store[x] = None /\ \E d \in Nodes : Origin(x, n) \in origins[d]

KeptOrTraced ==
    \A n \in Nodes : \A x \in Does(n, "publish") :
        hasRun[n] => Held1(n, x) \/ BeingTaken(n, x) \/ Traced(n, x)

Recorded ==
    /\ \A x \in Names : kernelMap[x] # None => kernelMap[x] \in publishers[x]
    /\ \A x \in Names : \A n \in publishers[x] : x \in Does(n, "publish")
    /\ \A d \in Nodes : deleted[d] \subseteq Does(d, "delete")
    /\ \A d \in Nodes : \A o \in origins[d] : o.name \in deleted[d] /\ o.name \in Does(o.by, "publish")

(* A node that is to run again has nothing on record any more.                  *)
Pristine ==
    running = "run" => \A d \in OnKernel :
        ~hasRun[d] /\ outcome[d] = "none" /\ at[d] # "recorded" => origins[d] = {}

(* What a script has published stays while its node is at work, and all that is  *)
(* held in its name it has published just now.                                 *)
HasPublished(n, x) ==
    \E i \in 1 .. Len(Script(n)) :
        i < step[n] /\ Script(n)[i].op = "publish" /\ Script(n)[i].name = x

StillPublished ==
    \A n \in Nodes :
        /\ at[n] = "script" => \A x \in Names : HasPublished(n, x) <=> store[x] = n
        /\ at[n] \in {"answered", "published", "recorded"} =>
              \A x \in Does(n, "publish") : store[x] = n

CachedHasRun == \A n \in setup.cached : n \in stored => hasRun[n]

ReadersFirst ==
    \A x \in Names, r, d \in Nodes :
        r # d /\ x \in Does(r, "read") /\ x \in Does(d, "delete") /\ hasRun[d] => hasRun[r]

InputsHaveRun ==
    running = "run" => \A n \in pending \cup Busy : \A u \in Upstream(n) : hasRun[u]

(* What is planned up to this stage and is not at work has run, or something it  *)
(* needs has failed.                                                         *)
Settled(n) == hasRun[n] \/ \E f \in Failed : n \in Below(f)

Progress ==
    running = "run" => \A j \in 1 .. stage : \A n \in setup.stages[j] :
        n \in pending \cup Busy \/ Settled(n)

Untouched ==
    running = "run" =>
        /\ \A n \in pending \cup Busy : outcome[n] = "none"
        /\ \A n \in Nodes : outcome[n] # "none" => \E j \in 1 .. stage : n \in setup.stages[j]

AvailableNow == \A n \in Nodes : at[n] = "called" => available[n] = AvailableTo(n)

NoLack == \A n \in Nodes : outcome[n] # "lacking"

Tracked == KeptOrTraced /\ Recorded /\ StillPublished /\ AvailableNow
Staged == Pristine /\ CachedHasRun /\ ReadersFirst /\ InputsHaveRun /\ Progress /\ Untouched

Repeats == Tracked /\ Staged /\ NoLack

-----------------------------------------------------------------------------
LEMMA SameFlows ==
  ASSUME setup' = setup
  PROVE /\ Complete' = Complete /\ Planned' = Planned /\ Remakable' = Remakable
        /\ \A n : Upstream(n)' = Upstream(n)
        /\ \A n : Below(n)' = Below(n)
BY DEF Complete, Planned, Remakable, Remakes, Users, Does, Script, Nodes, Upstream, Below

LEMMA DoesNames ==
  ASSUME Typed, NEW n \in Nodes, NEW op
  PROVE Does(n, op) \subseteq Names
<1>1. Script(n) \in Seq(Ops)
  BY SetupType DEF Typed
<1>2. \A j \in 1 .. Len(Script(n)) : Script(n)[j] \in Ops
  BY <1>1, ElementOfSeq
<1> QED BY <1>2 DEF Does, Ops

(* Nodes at work, pending or planned later do not feed each other.              *)
LEMMA StageIsFlat ==
  ASSUME Typed, OneStage, ~marred, NEW m \in pending \cup Busy, NEW n \in pending \cup Busy
  PROVE m \notin Upstream(n)
<1>1. running = "run"
  BY DEF OneStage, Typed
<1>2. stage \in 1 .. Len(setup.stages) /\ m \in setup.stages[stage] /\ n \in setup.stages[stage]
  BY <1>1 DEF OneStage
<1>3. DOMAIN setup.stages = 1 .. Len(setup.stages)
  BY SetupType, LenProperties DEF Typed
<1> QED BY <1>2, <1>3, StagesAssumption DEF Typed, Upstream

(* A node that feeds one at work was planned before it, and one that it feeds     *)
(* has not been touched.                                                     *)
LEMMA LaterUntouched ==
  ASSUME Typed, OneStage, ~marred, Planned, Untouched, NEW n \in pending \cup Busy,
         NEW d \in Nodes, n \in Upstream(d)
  PROVE outcome[d] = "none"
<1> SUFFICES ASSUME outcome[d] # "none" PROVE FALSE
  OBVIOUS
<1>1. running = "run"
  BY DEF OneStage, Typed
<1>2. stage \in 1 .. Len(setup.stages) /\ n \in setup.stages[stage]
  BY <1>1 DEF OneStage
<1>3. DOMAIN setup.stages = 1 .. Len(setup.stages) /\ Len(setup.stages) \in Nat
  BY SetupType, LenProperties DEF Typed
<1>4. PICK j \in 1 .. stage : d \in setup.stages[j]
  BY <1>1 DEF Untouched
<1>5. PICK i \in 1 .. j - 1 : n \in setup.stages[i]
  <2>1. j \in DOMAIN setup.stages
    BY <1>2, <1>3
  <2> QED BY <1>4, <2>1 DEF Planned
<1>6. i \in DOMAIN setup.stages /\ stage \in DOMAIN setup.stages /\ i # stage
  BY <1>2, <1>3, <1>4, <1>5
<1> QED BY <1>2, <1>5, <1>6 DEF Planned

LEMMA RepeatsInit == Init => Repeats
<1> SUFFICES ASSUME Init PROVE Repeats
  OBVIOUS
<1>1. \A n \in Nodes : at[n] = "idle" /\ hasRun[n] = FALSE /\ outcome[n] = "none"
  BY DEF Init
<1>2. KeptOrTraced /\ StillPublished /\ AvailableNow /\ NoLack
  BY <1>1 DEF KeptOrTraced, StillPublished, AvailableNow, NoLack
<1>3. Recorded
  BY DEF Init, Recorded
<1>4. CachedHasRun /\ ReadersFirst
  BY <1>1 DEF Init, CachedHasRun, ReadersFirst
<1>5. Pristine /\ InputsHaveRun /\ Progress /\ Untouched
  BY DEF Init, Pristine, InputsHaveRun, Progress, Untouched
<1> QED BY <1>2, <1>3, <1>4, <1>5 DEF Repeats, Tracked, Staged
-----------------------------------------------------------------------------
(* No operation of a script fails.                                            *)

(* What a script uses has been published by a node that has run.               *)
LEMMA UsedHasRun ==
  ASSUME Typed, OneStage, ~marred, WorksOnce, InputsHaveRun, NEW n \in Busy,
         NEW x \in Names, n \in Users(x)
  PROVE \E p \in Nodes : hasRun[p] /\ x \in Does(p, "publish") /\ p \in Upstream(n)
<1>1. PICK p \in Nodes : x \in Does(p, "publish")
  BY DEF WorksOnce, Complete
<1>2. n \in Nodes
  BY DEF Busy
<1>3. p \in Upstream(n)
  BY <1>1, <1>2 DEF WorksOnce, Ordered
<1>4. running = "run"
  BY DEF OneStage, Typed
<1>5. hasRun[p]
  BY <1>3, <1>4 DEF InputsHaveRun
<1> QED BY <1>1, <1>3, <1>5

(* A script that is at its operation has done nothing but read the name before.  *)
LEMMA OnlyReadBefore ==
  ASSUME Typed, Complete, NEW n \in Nodes, InScript(n), NEW x, x = Now(n).name
  PROVE ~HasPublished(n, x) /\ ~HasDeleted(n, x)
<1>1. step[n] \in 1 .. Len(Script(n)) /\ Now(n) = Script(n)[step[n]]
  BY NowType DEF Now
<1>2. DOMAIN Script(n) = 1 .. Len(Script(n)) /\ Len(Script(n)) \in Nat
  BY SetupType, LenProperties DEF Typed
<1>3. ASSUME NEW i \in 1 .. Len(Script(n)), i < step[n], Script(n)[i].name = x
      PROVE Script(n)[i].op = "read"
  BY <1>1, <1>2, <1>3 DEF Complete
<1> QED BY <1>3 DEF HasPublished, HasDeleted

(* What a script at work uses, none of the others takes away, none has taken     *)
(* away.                                                                     *)
LEMMA NotTraced ==
  ASSUME Typed, OneStage, BusyIsStale, ~marred, WorksOnce, Repeats, NEW n \in Busy,
         at[n] # "recorded", NEW x \in Names, n \in Users(x), NEW d \in Nodes, NEW p,
         Origin(x, p) \in origins[d]
  PROVE FALSE
<1>1. running = "run" /\ n \in Nodes /\ ~hasRun[n]
  BY DEF OneStage, Typed, BusyIsStale, Busy
<1>2. x \in Does(d, "delete")
  BY DEF Repeats, Tracked, Recorded, Origin
<1>3. n \in OnKernel /\ d \in OnKernel
  <2>1. Script(d) # <<>>
    BY <1>2 DEF Does
  <2> QED BY <2>1 DEF OneStage, OnKernel
<1>4. n = d \/ n \in Upstream(d)
  BY <1>1, <1>2 DEF WorksOnce, Ordered
<1>5. CASE n = d
  <2>1. outcome[n] = "none"
    BY <1>1 DEF Repeats, Staged, Untouched
  <2> QED BY <1>1, <1>3, <1>5, <2>1 DEF Repeats, Staged, Pristine
<1>6. CASE n # d
  <2>1. n \in Upstream(d)
    BY <1>4, <1>6
  <2>2. outcome[d] = "none"
    BY <2>1, LaterUntouched DEF Repeats, Staged, WorksOnce
  <2>3. at[d] # "recorded"
    BY <2>1, StageIsFlat DEF Busy
  <2>4. x \notin Does(n, "delete")
    <3> SUFFICES ASSUME x \in Does(n, "delete") PROVE FALSE
      OBVIOUS
    <3>1. d \in Users(x)
      BY <1>2 DEF Users
    <3>2. d \in Upstream(n)
      BY <1>1, <1>6, <3>1 DEF WorksOnce, Ordered
    <3>3. d \in Upstream(d)
      BY <2>1, <3>2, UpstreamTransitive DEF Typed
    <3> QED BY <3>3 DEF WorksOnce, Planned
  <2>5. x \in Does(n, "read")
    BY <2>4 DEF Users
  <2>6. ~hasRun[d]
    BY <1>1, <1>2, <1>6, <2>5 DEF Repeats, Staged, ReadersFirst
  <2> QED BY <1>1, <1>3, <2>2, <2>3, <2>6 DEF Repeats, Staged, Pristine
<1> QED BY <1>5, <1>6

LEMMA ScriptWorks ==
  ASSUME Typed, OneStage, BusyIsStale, Agree, ~marred, WorksOnce, Repeats,
         NEW n \in Nodes, InScript(n)
  PROVE Works(n)
<1> DEFINE x == Now(n).name
<1>1. /\ x \in Names /\ Now(n).op \in {"publish", "read", "delete"} /\ x \in Does(n, Now(n).op)
      /\ at[n] = "script" /\ n \in Busy
  BY NowType DEF InScript, Busy
<1>2. ~HasPublished(n, x) /\ ~HasDeleted(n, x)
  BY OnlyReadBefore DEF WorksOnce
<1> HIDE DEF x
<1>3. CASE Now(n).op = "publish"
  <2> SUFFICES ASSUME store[x] # None PROVE FALSE
    BY <1>3 DEF Works, x
  <2>1. store[x] \in Nodes /\ x \in Does(store[x], "publish")
    BY <1>1 DEF Typed, Agree, Attributed
  <2>2. store[x] = n
    BY <1>1, <1>3, <2>1, OnePublisher DEF WorksOnce
  <2> QED BY <1>1, <1>2, <2>2 DEF Repeats, Tracked, StillPublished
<1>4. CASE Now(n).op \in {"read", "delete"}
  <2> SUFFICES ASSUME store[x] = None PROVE FALSE
    BY <1>4 DEF Works, x
  <2>1. n \in Users(x)
    BY <1>1, <1>4 DEF Users
  <2>2. PICK p \in Nodes : hasRun[p] /\ x \in Does(p, "publish") /\ p \in Upstream(n)
    BY <1>1, <2>1, UsedHasRun DEF Repeats, Staged
  <2>3. p # None
    BY SetupType DEF Typed
  <2>4. BeingTaken(p, x) \/ Traced(p, x)
    BY <2>2, <2>3 DEF Repeats, Tracked, KeptOrTraced, Held1
  <2>5. ~Traced(p, x)
    BY <1>1, <2>1, NotTraced DEF Traced
  <2>6. PICK d \in Nodes : Took(d, x)
    BY <2>4, <2>5 DEF BeingTaken
  <2>7. CASE at[d] = "script" /\ x \in before[d]
    <3>1. d = n
      BY <1>1, <2>7 DEF Agree, OneScript
    <3>2. ScriptDiffers(n)
      BY <1>1 DEF Agree, Answered
    <3> QED BY <1>1, <1>2, <2>7, <3>1, <3>2 DEF ScriptDiffers
  <2>8. CASE at[d] \in {"answered", "published"} /\ x \in answer[d].lost
    <3>1. x \in Does(d, "delete") /\ d # n /\ d \in Busy
      BY <1>1, <2>8 DEF Agree, Answered, LostIsGone, Busy
    <3>2. n \in Upstream(d)
      BY <1>1, <2>1, <3>1 DEF WorksOnce, Ordered
    <3> QED BY <1>1, <3>1, <3>2, StageIsFlat
  <2> QED BY <2>6, <2>7, <2>8 DEF Took
<1> QED BY <1>1, <1>3, <1>4
-----------------------------------------------------------------------------
(* Every step keeps it: the run.                                              *)

(* Steps that leave the record and the scripts alone.                          *)
LEMMA TrackedFrame ==
  ASSUME Typed, Repeats, setup' = setup, \A m \in Nodes : hasRun'[m] => hasRun[m],
         published' = published, deleted' = deleted, available' = available,
         kernelMap' = kernelMap, publishers' = publishers,
         origins' = origins, store' = store, at' = at, step' = step, before' = before, answer' = answer
  PROVE Tracked'
<1>1. /\ Nodes' = Nodes /\ (\A n, op : Does(n, op)' = Does(n, op)) /\ (\A n : Script(n)' = Script(n))
      /\ \A n : Upstream(n)' = Upstream(n)
  BY SameScripts, SameFlows
<1>2. KeptOrTraced'
  BY <1>1 DEF Repeats, Tracked, KeptOrTraced, Held1, BeingTaken, Traced, Took
<1>3. Recorded'
  BY <1>1 DEF Repeats, Tracked, Recorded
<1>4. StillPublished'
  BY <1>1 DEF Repeats, Tracked, StillPublished, HasPublished
<1>5. AvailableNow'
  BY <1>1 DEF Repeats, Tracked, AvailableNow, AvailableTo
<1> QED BY <1>2, <1>3, <1>4, <1>5 DEF Tracked

LEMMA StagedFrame ==
  ASSUME Repeats, setup' = setup, hasRun' = hasRun, stored' = stored, origins' = origins,
         running' = running, stage' = stage, pending' = pending, outcome' = outcome, at' = at
  PROVE Staged' /\ NoLack'
<1>1. /\ Nodes' = Nodes /\ (\A n, op : Does(n, op)' = Does(n, op)) /\ OnKernel' = OnKernel
      /\ (\A n : Upstream(n)' = Upstream(n)) /\ (\A n : Below(n)' = Below(n))
  BY SameScripts, SameFlows
<1>2. Busy' = Busy /\ Failed' = Failed
  BY <1>1 DEF Busy, Failed
<1> QED BY <1>1, <1>2 DEF Repeats, Staged, Pristine, CachedHasRun, ReadersFirst, InputsHaveRun, Progress,
           Settled, Untouched, NoLack

(* What clear_nodes leaves on the record.                                      *)
LEMMA RecordedClears ==
  ASSUME Typed, Repeats, setup' = setup, NEW S, ClearNodes(S)
  PROVE /\ Recorded'
        /\ \A d \in Nodes : origins'[d] = IF d \in S THEN {} ELSE origins[d]
        /\ \A d \in Nodes : deleted'[d] = IF d \in S THEN {} ELSE deleted[d]
<1>1. Nodes' = Nodes /\ (\A n, op : Does(n, op)' = Does(n, op))
  BY SameScripts
<1>2. /\ \A d \in Nodes : origins'[d] = IF d \in S THEN {} ELSE origins[d]
      /\ \A d \in Nodes : deleted'[d] = IF d \in S THEN {} ELSE deleted[d]
      /\ \A x \in Names : kernelMap'[x] = IF kernelMap[x] \in S /\ x \in published[kernelMap[x]]
                                          THEN None ELSE kernelMap[x]
      /\ \A x \in Names : publishers'[x] = {n \in publishers[x] : n \notin S \/ x \notin published[n]}
  BY DEF ClearNodes, Cleared
<1>3. Recorded'
  <2>1. \A x \in Names : kernelMap'[x] # None => kernelMap'[x] \in publishers'[x]
    BY <1>2 DEF Repeats, Tracked, Recorded
  <2>2. \A x \in Names : \A n \in publishers'[x] : x \in Does(n, "publish")
    BY <1>2 DEF Repeats, Tracked, Recorded
  <2>3. \A d \in Nodes : deleted'[d] \subseteq Does(d, "delete")
    BY <1>2 DEF Repeats, Tracked, Recorded
  <2>4. ASSUME NEW d \in Nodes, NEW o \in origins'[d]
        PROVE o.name \in deleted'[d] /\ o.name \in Does(o.by, "publish")
    BY <1>2, <2>4 DEF Repeats, Tracked, Recorded
  <2> QED BY <1>1, <2>1, <2>2, <2>3, <2>4 DEF Recorded
<1> QED BY <1>2, <1>3

LEMMA RepeatsStartRun ==
  ASSUME Typed, OneStage, BusyIsStale, Agree, ~marred, WorksOnce, Remakable, Repeats, StartRun
  PROVE Repeats'
<1> USE DEF scripts
<1>1. /\ setup' = setup /\ at' = at /\ stored' = stored /\ pending' = pending
      /\ ClearNodes(Rerun) /\ store' \in {StoreWithout(Rerun), store}
      /\ running' = "run" /\ stage' = 0 /\ outcome' = [n \in Nodes |-> "none"]
  BY DEF StartRun
<1>2. /\ Nodes' = Nodes /\ (\A n, op : Does(n, op)' = Does(n, op)) /\ OnKernel' = OnKernel
      /\ (\A n : Upstream(n)' = Upstream(n))
  BY <1>1, SameScripts, SameFlows
<1>3. /\ \A n \in Nodes : at[n] = "idle"
      /\ pending = {} /\ Busy' = {}
  BY <1>1, <1>2 DEF StartRun, OneStage, Busy
<1>4. \A n \in Nodes : hasRun'[n] = (hasRun[n] /\ n \notin Rerun)
  BY DEF StartRun
<1>5. /\ Rerun \subseteq NotYetRun \cup Makers /\ NotYetRun \subseteq Rerun /\ Producers(Rerun) \subseteq Rerun
  BY RerunCloses DEF Typed
<1>6. /\ \A x \in Names : kernelMap'[x] = IF kernelMap[x] \in Rerun THEN None ELSE kernelMap[x]
      /\ \A n \in Nodes : published'[n] = IF n \in Rerun THEN {} ELSE published[n]
  BY <1>1, ClearNodesShows
<1>7. /\ Recorded'
      /\ \A d \in Nodes : origins'[d] = IF d \in Rerun THEN {} ELSE origins[d]
  BY <1>1, RecordedClears
<1>8. \A x \in Names : store'[x] = store[x] \/ (store[x] \in Rerun /\ store'[x] = None)
  BY <1>1 DEF StoreWithout
<1>9. ASSUME NEW n \in Nodes, n \in Rerun, hasRun[n]
      PROVE n \notin setup.cached /\ \A m \in Nodes \ {n} : Does(n, "read") \cap Does(m, "delete") = {}
  <2>1. n \in Makers
    BY <1>5, <1>9 DEF NotYetRun
  <2>2. PICK d \in Nodes : \E o \in origins[d] : o.by = n
    BY <2>1 DEF Makers
  <2>5. PICK o \in origins[d] : o.by = n
    BY <2>2
  <2>3. o.name \in Does(d, "delete") /\ o.name \in Does(n, "publish")
    BY <2>5 DEF Repeats, Tracked, Recorded
  <2>4. Remakes(n)
    BY <2>3 DEF Remakes
  <2> QED BY <2>4 DEF Remakable
<1>10. KeptOrTraced'
  <2>1. ASSUME NEW n \in Nodes, NEW x \in Does(n, "publish"), hasRun'[n]
        PROVE Held1(n, x)' \/ Traced(n, x)'
    <3>1. hasRun[n] /\ n \notin Rerun /\ x \in Names
      BY <1>4, <2>1, DoesNames
    <3>2. Held1(n, x) \/ Traced(n, x)
      BY <1>3, <3>1 DEF Repeats, Tracked, KeptOrTraced, BeingTaken, Took
    <3>3. CASE Held1(n, x)
      BY <1>6, <1>8, <3>1, <3>3 DEF Held1
    <3>4. CASE Traced(n, x)
      <4>1. PICK d \in Nodes : Origin(x, n) \in origins[d]
        BY <3>4 DEF Traced
      <4>2. d \notin Rerun
        <5>1. Origin(x, n).by = n
          BY DEF Origin
        <5>2. d \in Rerun => n \in Producers(Rerun)
          BY <4>1, <5>1 DEF Producers
        <5> QED BY <1>5, <3>1, <5>2
      <4>3. store'[x] = None
        BY <1>8, <3>1, <3>4 DEF Traced
      <4> QED BY <1>2, <1>7, <4>1, <4>2, <4>3 DEF Traced, Origin
    <3> QED BY <3>2, <3>3, <3>4
  <2> QED BY <1>2, <2>1 DEF KeptOrTraced
<1>11. StillPublished' /\ AvailableNow'
  BY <1>1, <1>2, <1>3 DEF StillPublished, AvailableNow
<1>12. Pristine'
  <2>1. ASSUME NEW d \in OnKernel, ~hasRun'[d] PROVE origins'[d] = {}
    <3>1. d \in Nodes
      BY DEF OnKernel
    <3>2. d \in Rerun
      BY <1>4, <1>5, <2>1, <3>1 DEF NotYetRun
    <3> QED BY <1>7, <3>1, <3>2
  <2> QED BY <1>2, <2>1 DEF Pristine
<1>13. CachedHasRun'
  <2>1. setup.cached \subseteq Nodes
    BY SetupType DEF Typed
  <2> QED BY <1>1, <1>4, <1>9, <2>1 DEF Repeats, Staged, CachedHasRun
<1>14. ReadersFirst'
  <2>1. ASSUME NEW x \in Names, NEW r \in Nodes, NEW d \in Nodes, r # d,
               x \in Does(r, "read"), x \in Does(d, "delete"), hasRun'[d]
        PROVE hasRun'[r]
    <3>1. hasRun[r]
      BY <1>4, <2>1 DEF Repeats, Staged, ReadersFirst
    <3> QED BY <1>4, <1>9, <2>1, <3>1
  <2> QED BY <1>2, <2>1 DEF ReadersFirst
<1>15. InputsHaveRun' /\ Progress' /\ Untouched' /\ NoLack'
  BY <1>1, <1>2, <1>3 DEF InputsHaveRun, Progress, Untouched, NoLack
<1> QED BY <1>7, <1>10, <1>11, <1>12, <1>13, <1>14, <1>15 DEF Repeats, Tracked, Staged

LEMMA RepeatsNextStage ==
  ASSUME Typed, OneStage, ~marred, WorksOnce, Repeats, NextStage
  PROVE Repeats'
<1> USE DEF context, scripts
<1>1. /\ setup' = setup /\ hasRun' = hasRun /\ stored' = stored /\ at' = at /\ outcome' = outcome
      /\ origins' = origins /\ running = "run" /\ running' = running
      /\ pending = {} /\ Busy = {} /\ stage' = stage + 1 /\ stage < Len(setup.stages)
      /\ pending' = setup.stages[stage + 1] \ UNION {Below(f) : f \in Failed}
  BY DEF NextStage
<1>2. /\ Nodes' = Nodes /\ (\A n, op : Does(n, op)' = Does(n, op)) /\ OnKernel' = OnKernel
      /\ (\A n : Upstream(n)' = Upstream(n)) /\ (\A n : Below(n)' = Below(n))
  BY <1>1, SameScripts, SameFlows
<1>3. Busy' = {} /\ Failed' = Failed
  BY <1>1, <1>2 DEF Busy, Failed
<1>4. /\ stage \in Nat /\ stage + 1 \in 1 .. Len(setup.stages) /\ DOMAIN setup.stages = 1 .. Len(setup.stages)
      /\ setup.stages[stage + 1] \subseteq Nodes
  <2>1. /\ Len(setup.stages) \in Nat /\ stage \in 0 .. Len(setup.stages)
        /\ DOMAIN setup.stages = 1 .. Len(setup.stages)
    BY SetupType, LenProperties DEF Typed
  <2>2. stage \in Nat /\ stage + 1 \in 1 .. Len(setup.stages)
    BY <1>1, <2>1
  <2> QED BY <2>1, <2>2, SetupType DEF Typed
<1>5. Tracked'
  BY <1>1, TrackedFrame DEF NextStage
<1>6. Pristine' /\ CachedHasRun' /\ ReadersFirst' /\ NoLack'
  BY <1>1, <1>2 DEF Repeats, Staged, Pristine, CachedHasRun, ReadersFirst, NoLack
<1>7. InputsHaveRun'
  <2>1. ASSUME NEW n \in pending', NEW u \in Upstream(n) PROVE hasRun[u]
    <3>1. n \in setup.stages[stage + 1] /\ n \in Nodes /\ \A f \in Failed : n \notin Below(f)
      BY <1>1, <1>4
    <3>2. PICK j \in 1 .. (stage + 1) - 1 : u \in setup.stages[j]
      BY <1>4, <3>1 DEF WorksOnce, Planned
    <3>3. Settled(u)
      BY <1>1, <1>4, <3>2 DEF Repeats, Staged, Progress
    <3>4. ASSUME NEW f \in Failed, u \in Below(f) PROVE FALSE
      <4>1. u = f \/ f \in Upstream(u)
        BY <3>4 DEF Below
      <4>2. f \in Upstream(n)
        BY <3>1, <4>1, UpstreamTransitive DEF Typed
      <4> QED BY <3>1, <4>2 DEF Below
    <3> QED BY <3>3, <3>4 DEF Settled
  <2> QED BY <1>1, <1>2, <1>3, <2>1 DEF InputsHaveRun
<1>8. Progress'
  <2>1. ASSUME NEW j \in 1 .. stage + 1, NEW n \in setup.stages[j]
        PROVE n \in pending' \/ Settled(n)
    <3>1. CASE j = stage + 1
      BY <1>1, <3>1, <2>1 DEF Settled
    <3>2. CASE j # stage + 1
      <4>1. j \in 1 .. stage
        BY <1>4, <3>2
      <4> QED BY <1>1, <2>1, <4>1 DEF Repeats, Staged, Progress
    <3> QED BY <3>1, <3>2
  <2>2. \A n : Settled(n)' = Settled(n)
    BY <1>1, <1>2, <1>3 DEF Settled
  <2> QED BY <1>1, <1>2, <2>1, <2>2 DEF Progress
<1>9. Untouched'
  <2>1. ASSUME NEW n \in Nodes, outcome[n] # "none"
        PROVE \E j \in 1 .. stage : n \in setup.stages[j]
    BY <1>1, <2>1 DEF Repeats, Staged, Untouched
  <2>2. ASSUME NEW n \in pending' PROVE outcome[n] = "none"
    <3> SUFFICES ASSUME outcome[n] # "none" PROVE FALSE
      OBVIOUS
    <3>1. n \in setup.stages[stage + 1] /\ n \in Nodes
      BY <1>1, <1>4
    <3>2. PICK j \in 1 .. stage : n \in setup.stages[j]
      BY <2>1, <3>1
    <3>3. j \in DOMAIN setup.stages /\ stage + 1 \in DOMAIN setup.stages /\ j # stage + 1
      BY <1>4
    <3> QED BY <3>1, <3>2, <3>3 DEF WorksOnce, Planned
  <2>3. \A j \in 1 .. stage : j \in 1 .. stage + 1
    BY <1>4
  <2> QED BY <1>1, <1>2, <1>3, <2>1, <2>2, <2>3 DEF Untouched
<1> QED BY <1>5, <1>6, <1>7, <1>8, <1>9 DEF Repeats, Staged

LEMMA RepeatsEndRun ==
  ASSUME Typed, Repeats, EndRun
  PROVE Repeats'
<1> USE DEF context, scripts
<1>1. /\ setup' = setup /\ hasRun' = hasRun /\ stored' = stored /\ outcome' = outcome /\ running' = "no"
  BY DEF EndRun
<1>2. Nodes' = Nodes /\ (\A n, op : Does(n, op)' = Does(n, op))
  BY <1>1, SameScripts
<1>3. Tracked'
  BY <1>1, TrackedFrame DEF EndRun
<1>4. CachedHasRun' /\ ReadersFirst' /\ NoLack'
  BY <1>1, <1>2 DEF Repeats, Staged, CachedHasRun, ReadersFirst, NoLack
<1>5. Pristine' /\ InputsHaveRun' /\ Progress' /\ Untouched'
  BY <1>1 DEF Pristine, InputsHaveRun, Progress, Untouched
<1> QED BY <1>3, <1>4, <1>5 DEF Repeats, Staged

(* A node of the stage is done with.                                          *)
LEMMA StagedLeaves ==
  ASSUME Typed, OneStage, ~marred, Repeats, setup' = setup, running' = running, stage' = stage,
         NEW n \in Nodes, n \in pending \cup Busy,
         \A m \in Nodes : m \in pending' \cup Busy' <=> (m \in pending \cup Busy /\ m # n),
         pending' \cup Busy' \subseteq Nodes,
         \A m \in Nodes \ {n} : hasRun'[m] = hasRun[m] /\ outcome'[m] = outcome[m],
         \/ hasRun'[n] /\ outcome'[n] = "ok"
         \/ outcome'[n] = "failed"
  PROVE InputsHaveRun' /\ Progress' /\ Untouched' /\ NoLack'
<1>1. /\ Nodes' = Nodes /\ (\A m : Upstream(m)' = Upstream(m)) /\ (\A m : Below(m)' = Below(m))
      /\ \A m \in Nodes : Upstream(m) \subseteq Nodes
  BY SameScripts, SameFlows, UpstreamCloses DEF Typed
<1>2. running = "run" /\ stage \in 1 .. Len(setup.stages) /\ n \in setup.stages[stage]
  BY DEF OneStage, Typed
<1>3. outcome[n] = "none"
  BY <1>2 DEF Repeats, Staged, Untouched
<1>4. Failed \subseteq Failed'
  BY <1>1, <1>3 DEF Failed
<1>5. Settled(n)'
  <2>1. outcome'[n] = "failed" => n \in Failed' /\ n \in Below(n)
    BY <1>1 DEF Failed, Below
  <2> QED BY <1>1, <2>1 DEF Settled
<1>6. InputsHaveRun'
  <2>1. ASSUME NEW m \in Nodes, m \in pending' \cup Busy', NEW u \in Upstream(m) PROVE hasRun'[u]
    <3>1. m \in pending \cup Busy /\ u \in Nodes
      BY <1>1, <2>1
    <3>2. u # n
      BY <2>1, <3>1, StageIsFlat
    <3>3. hasRun[u]
      BY <1>2, <2>1, <3>1 DEF Repeats, Staged, InputsHaveRun
    <3> QED BY <3>1, <3>2, <3>3
  <2> QED BY <1>1, <2>1 DEF InputsHaveRun
<1>7. Progress'
  <2>1. ASSUME NEW j \in 1 .. stage, NEW m \in setup.stages[j]
        PROVE m \in pending' \cup Busy' \/ Settled(m)'
    <3>0. m \in Nodes
      <4>1. j \in 1 .. Len(setup.stages)
        BY <1>2
      <4> QED BY <2>1, <4>1, SetupType DEF Typed
    <3>1. CASE m = n
      BY <1>5, <3>1
    <3>2. CASE m # n /\ m \in pending \cup Busy
      BY <3>0, <3>2
    <3>3. CASE m # n /\ Settled(m)
      BY <1>1, <1>4, <3>0, <3>3 DEF Settled
    <3> QED BY <1>2, <2>1, <3>1, <3>2, <3>3 DEF Repeats, Staged, Progress
  <2> QED BY <1>1, <2>1 DEF Progress
<1>8. Untouched'
  <2>1. \A m \in pending' \cup Busy' : outcome'[m] = "none"
    BY <1>2 DEF Repeats, Staged, Untouched
  <2>2. ASSUME NEW m \in Nodes, outcome'[m] # "none" PROVE \E j \in 1 .. stage : m \in setup.stages[j]
    <3>1. CASE m = n
      BY <1>2, <3>1
    <3>2. CASE m # n
      BY <1>2, <2>2, <3>2 DEF Repeats, Staged, Untouched
    <3> QED BY <3>1, <3>2
  <2> QED BY <1>1, <2>1, <2>2 DEF Untouched
<1>9. NoLack'
  BY <1>1 DEF Repeats, NoLack
<1> QED BY <1>6, <1>7, <1>8, <1>9

LEMMA RepeatsSkipNode ==
  ASSUME Typed, OneStage, BusyIsStale, ~marred, Repeats, NEW n \in Nodes, SkipNode(n)
  PROVE Repeats'
<1> USE DEF context, scripts
<1>1. /\ setup' = setup /\ hasRun' = hasRun /\ stored' = stored /\ origins' = origins
      /\ running' = running /\ stage' = stage /\ at' = at
      /\ n \in pending /\ pending' = pending \ {n} /\ outcome' = [outcome EXCEPT ![n] = "ok"] /\ ~Runs(n)
  BY DEF SkipNode, CanStart
<1>2. /\ Nodes' = Nodes /\ (\A m, op : Does(m, op)' = Does(m, op)) /\ OnKernel' = OnKernel
  BY <1>1, SameScripts
<1>3. Busy' = Busy /\ Busy \subseteq Nodes /\ n \notin Busy /\ pending \subseteq Nodes
  BY <1>1, <1>2 DEF Busy, OneStage, Typed
<1>4. outcome'[n] = "ok" /\ \A m \in Nodes \ {n} : outcome'[m] = outcome[m]
  BY <1>1 DEF Typed
<1>5. hasRun[n]
  <2>1. CASE n \in setup.cached
    BY <1>1, <2>1 DEF Runs, Repeats, Staged, CachedHasRun
  <2>2. CASE n \notin setup.cached
    BY <1>1, <2>2 DEF Runs
  <2> QED BY <2>1, <2>2
<1>6. Tracked'
  BY <1>1, TrackedFrame DEF SkipNode
<1>7. InputsHaveRun' /\ Progress' /\ Untouched' /\ NoLack'
  <2>1. \A m \in Nodes : m \in pending' \cup Busy' <=> (m \in pending \cup Busy /\ m # n)
    BY <1>1, <1>3
  <2>2. pending' \cup Busy' \subseteq Nodes
    BY <1>1, <1>3
  <2> QED BY <1>1, <1>3, <1>4, <1>5, <2>1, <2>2, StagedLeaves
<1>8. Pristine'
  <2>1. \A d \in OnKernel : d \in Nodes
    BY DEF OnKernel
  <2> QED BY <1>1, <1>2, <1>4, <1>5, <2>1 DEF Repeats, Staged, Pristine
<1>9. CachedHasRun' /\ ReadersFirst'
  BY <1>1, <1>2 DEF Repeats, Staged, CachedHasRun, ReadersFirst
<1> QED BY <1>6, <1>7, <1>8, <1>9 DEF Repeats, Staged

LEMMA RepeatsRunElsewhere ==
  ASSUME Typed, OneStage, BusyIsStale, ~marred, Repeats, NEW n \in Nodes, RunElsewhere(n)
  PROVE Repeats'
<1> USE DEF context, scripts
<1>1. /\ setup' = setup /\ published' = published /\ deleted' = deleted /\ available' = available
      /\ kernelMap' = kernelMap /\ publishers' = publishers /\ origins' = origins /\ store' = store
      /\ running' = running /\ stage' = stage /\ at' = at /\ step' = step /\ before' = before
      /\ answer' = answer
      /\ n \in pending /\ pending' = pending \ {n} /\ n \notin OnKernel /\ Runs(n)
      /\ Succeeds(n) \/ Fails(n)
  BY DEF RunElsewhere, CanStart
<1>2. /\ Nodes' = Nodes /\ (\A m, op : Does(m, op)' = Does(m, op)) /\ OnKernel' = OnKernel
      /\ (\A m : Script(m)' = Script(m)) /\ (\A m : Upstream(m)' = Upstream(m))
  BY <1>1, SameScripts, SameFlows
<1>3. Busy' = Busy /\ Busy \subseteq Nodes /\ n \notin Busy /\ pending \subseteq Nodes
  BY <1>1, <1>2 DEF Busy, OneStage, Typed
<1>4. /\ \A m \in Nodes \ {n} : hasRun'[m] = hasRun[m] /\ outcome'[m] = outcome[m]
      /\ \/ hasRun'[n] /\ outcome'[n] = "ok" /\ stored' = stored \cup {n}
         \/ ~hasRun'[n] /\ outcome'[n] = "failed" /\ stored' = stored
  BY <1>1 DEF Succeeds, Fails, FailsAs, Typed
<1>5. \A op : Does(n, op) = {}
  <2>1. Script(n) = <<>>
    BY <1>1 DEF OnKernel
  <2> QED BY <2>1 DEF Does
<1>6. KeptOrTraced'
  <2>1. \A m, x : /\ Held1(m, x)' = Held1(m, x) /\ BeingTaken(m, x)' = BeingTaken(m, x)
                  /\ Traced(m, x)' = Traced(m, x)
    BY <1>1, <1>2 DEF Held1, BeingTaken, Traced, Took
  <2> QED BY <1>2, <1>4, <1>5, <2>1 DEF Repeats, Tracked, KeptOrTraced
<1>7. Recorded' /\ StillPublished' /\ AvailableNow'
  BY <1>1, <1>2 DEF Repeats, Tracked, Recorded, StillPublished, HasPublished, AvailableNow, AvailableTo
<1>8. InputsHaveRun' /\ Progress' /\ Untouched' /\ NoLack'
  <2>1. \A m \in Nodes : m \in pending' \cup Busy' <=> (m \in pending \cup Busy /\ m # n)
    BY <1>1, <1>3
  <2>2. pending' \cup Busy' \subseteq Nodes
    BY <1>1, <1>3
  <2> QED BY <1>1, <1>3, <1>4, <2>1, <2>2, StagedLeaves
<1>9. Pristine'
  <2>1. \A d \in OnKernel : d \in Nodes /\ d # n
    BY <1>1 DEF OnKernel
  <2> QED BY <1>1, <1>2, <1>4, <2>1 DEF Repeats, Staged, Pristine
<1>10. CachedHasRun'
  <2>1. setup.cached \subseteq Nodes
    BY SetupType DEF Typed
  <2>2. n \in setup.cached => n \notin stored
    BY <1>1 DEF Runs
  <2> QED BY <1>1, <1>4, <2>1, <2>2 DEF Repeats, Staged, CachedHasRun
<1>11. ReadersFirst'
  BY <1>2, <1>4, <1>5 DEF Repeats, Staged, ReadersFirst
<1> QED BY <1>6, <1>7, <1>8, <1>9, <1>10, <1>11 DEF Repeats, Tracked, Staged

(* What is available to a node depends on those that feed it.                   *)
LEMMA AvailableSame ==
  ASSUME setup' = setup, NEW m \in Nodes,
         \A u \in Upstream(m) : published'[u] = published[u] /\ deleted'[u] = deleted[u]
  PROVE AvailableTo(m)' = AvailableTo(m)
<1>1. Upstream(m)' = Upstream(m)
  BY SameFlows
<1> QED BY <1>1 DEF AvailableTo

LEMMA RepeatsCallKernel ==
  ASSUME Typed, OneStage, BusyIsStale, Agree, ~marred, WorksOnce, Repeats, NEW n \in Nodes, CallKernel(n)
  PROVE Repeats'
<1> USE DEF scripts
<1>1. /\ setup' = setup /\ hasRun' = hasRun /\ stored' = stored /\ store' = store /\ step' = step
      /\ before' = before /\ answer' = answer /\ outcome' = outcome
      /\ running' = running /\ stage' = stage /\ n \in pending /\ pending' = pending \ {n}
      /\ n \in OnKernel /\ ClearNodes({n}) /\ at' = [at EXCEPT ![n] = "called"]
      /\ available' = [available EXCEPT ![n] = AvailableTo(n)]
  BY DEF CallKernel, Calls, CanStart
<1>2. /\ Nodes' = Nodes /\ (\A m, op : Does(m, op)' = Does(m, op)) /\ OnKernel' = OnKernel
      /\ (\A m : Script(m)' = Script(m)) /\ (\A m : Upstream(m)' = Upstream(m))
      /\ (\A m : Below(m)' = Below(m))
      /\ \A m \in Nodes : Upstream(m) \subseteq Nodes
  BY <1>1, SameScripts, SameFlows, UpstreamCloses DEF Typed
<1>3. at[n] = "idle" /\ ~hasRun[n] /\ running = "run"
  BY <1>1 DEF CallKernel, OneStage, Busy, Runs, BusyIsStale, Typed
<1>4. /\ \A x \in Names : kernelMap'[x] = IF kernelMap[x] = n THEN None ELSE kernelMap[x]
      /\ \A m \in Nodes : published'[m] = IF m = n THEN {} ELSE published[m]
  BY <1>1, ClearNodesShows
<1>5. /\ Recorded'
      /\ \A d \in Nodes : origins'[d] = IF d = n THEN {} ELSE origins[d]
      /\ \A d \in Nodes : deleted'[d] = IF d = n THEN {} ELSE deleted[d]
  BY <1>1, RecordedClears
<1>6. /\ \A m \in Nodes : at'[m] = IF m = n THEN "called" ELSE at[m]
      /\ \A m \in Nodes : available'[m] = IF m = n THEN AvailableTo(n) ELSE available[m]
  BY <1>1 DEF Typed
<1>7. origins[n] = {}
  <2>1. outcome[n] = "none"
    BY <1>1, <1>3 DEF Repeats, Staged, Untouched
  <2> QED BY <1>1, <1>3, <2>1 DEF Repeats, Staged, Pristine
<1>8. KeptOrTraced'
  <2>1. ASSUME NEW m \in Nodes, NEW x \in Does(m, "publish"), hasRun[m]
        PROVE Held1(m, x)' \/ BeingTaken(m, x)' \/ Traced(m, x)'
    <3>1. x \in Names /\ m # n
      BY <1>3, <2>1, DoesNames
    <3>2. CASE Held1(m, x)
      BY <1>1, <1>4, <3>1, <3>2 DEF Held1
    <3>3. CASE BeingTaken(m, x)
      <4>1. PICK d \in Nodes : Took(d, x)
        BY <3>3 DEF BeingTaken
      <4>2. d # n
        BY <1>3, <4>1 DEF Took
      <4>3. Took(d, x)'
        BY <1>1, <1>6, <4>1, <4>2 DEF Took
      <4> QED BY <1>1, <1>2, <1>4, <3>1, <3>3, <4>3 DEF BeingTaken
    <3>4. CASE Traced(m, x)
      BY <1>1, <1>2, <1>5, <1>7, <3>4 DEF Traced, Origin
    <3> QED BY <2>1, <3>2, <3>3, <3>4 DEF Repeats, Tracked, KeptOrTraced
  <2> QED BY <1>1, <1>2, <2>1 DEF KeptOrTraced
<1>9. StillPublished'
  BY <1>1, <1>2, <1>6 DEF Repeats, Tracked, StillPublished, HasPublished
<1>10. AvailableNow'
  <2>1. ASSUME NEW m \in Nodes, at'[m] = "called" PROVE available'[m] = AvailableTo(m)'
    <3>1. m \in pending \cup Busy
      BY <1>1, <1>6, <2>1 DEF Busy
    <3>2. n \notin Upstream(m)
      BY <1>1, <3>1, StageIsFlat
    <3>3. AvailableTo(m)' = AvailableTo(m)
      BY <1>1, <1>2, <1>4, <1>5, <3>2, AvailableSame
    <3> QED BY <1>6, <2>1, <3>3 DEF Repeats, Tracked, AvailableNow
  <2> QED BY <1>2, <2>1 DEF AvailableNow
<1>11. Pristine'
  <2>1. \A d \in OnKernel : d \in Nodes
    BY DEF OnKernel
  <2> QED BY <1>1, <1>2, <1>5, <1>6, <2>1 DEF Repeats, Staged, Pristine
<1>12. CachedHasRun' /\ ReadersFirst' /\ NoLack'
  BY <1>1, <1>2 DEF Repeats, Staged, CachedHasRun, ReadersFirst, NoLack
<1>13. InputsHaveRun' /\ Progress' /\ Untouched'
  <2>1. pending' \cup Busy' = pending \cup Busy /\ Failed' = Failed
    BY <1>1, <1>2, <1>6 DEF Busy, Failed, Typed
  <2> QED BY <1>1, <1>2, <2>1 DEF Repeats, Staged, InputsHaveRun, Progress, Settled, Untouched
<1> QED BY <1>5, <1>8, <1>9, <1>10, <1>11, <1>12, <1>13 DEF Repeats, Tracked, Staged

-----------------------------------------------------------------------------
(* The scripts.                                                              *)
LEMMA StagedAtWork ==
  ASSUME Repeats, setup' = setup, hasRun' = hasRun, stored' = stored,
         running' = running, stage' = stage, pending' = pending, outcome' = outcome, Busy' = Busy,
         \A d \in Nodes : at'[d] # "recorded" => at[d] # "recorded" /\ origins'[d] = origins[d]
  PROVE Staged' /\ NoLack'
<1>1. /\ Nodes' = Nodes /\ (\A n, op : Does(n, op)' = Does(n, op)) /\ OnKernel' = OnKernel
      /\ (\A n : Upstream(n)' = Upstream(n)) /\ (\A n : Below(n)' = Below(n))
  BY SameScripts, SameFlows
<1>2. Failed' = Failed /\ \A d \in OnKernel : d \in Nodes
  BY <1>1 DEF Failed, OnKernel
<1> QED BY <1>1, <1>2 DEF Repeats, Staged, Pristine, CachedHasRun, ReadersFirst, InputsHaveRun, Progress,
           Settled, Untouched, NoLack

LEMMA RepeatsBeginScript ==
  ASSUME Typed, OneStage, BusyIsStale, Agree, ~marred, Repeats, NEW n \in Nodes, BeginScript(n), ~marred'
  PROVE Repeats'
<1> USE DEF context, runState
<1>1. /\ setup' = setup /\ hasRun' = hasRun /\ stored' = stored /\ published' = published
      /\ deleted' = deleted /\ available' = available /\ kernelMap' = kernelMap
      /\ publishers' = publishers /\ origins' = origins /\ answer' = answer /\ outcome' = outcome
      /\ running' = running /\ stage' = stage /\ pending' = pending
      /\ at[n] = "called" /\ store' = StoreWithout({n})
      /\ before' = [before EXCEPT ![n] = {x \in Names : store'[x] # None}]
      /\ step' = [step EXCEPT ![n] = 1] /\ at' = [at EXCEPT ![n] = "script"]
      /\ \A m \in Nodes : at[m] # "script"
  BY DEF BeginScript
<1>2. /\ Nodes' = Nodes /\ (\A m, op : Does(m, op)' = Does(m, op)) /\ (\A m : Script(m)' = Script(m))
      /\ (\A m : Upstream(m)' = Upstream(m))
  BY <1>1, SameScripts, SameFlows
<1>3. /\ \A m \in Nodes : at'[m] = IF m = n THEN "script" ELSE at[m]
      /\ \A x \in Names : store'[x] = IF store[x] = n THEN None ELSE store[x]
      /\ step'[n] = 1
  BY <1>1 DEF Typed, StoreWithout
<1>4. n # None /\ ~hasRun[n] /\ \A x \in Names : store[x] \in Nodes \cup {None}
  BY <1>1, SetupType DEF Typed, BusyIsStale, Busy
<1>5. KeptOrTraced'
  <2>1. ASSUME NEW m \in Nodes, NEW x \in Does(m, "publish"), hasRun[m]
        PROVE Held1(m, x)' \/ BeingTaken(m, x)' \/ Traced(m, x)'
    <3>1. x \in Names /\ m # n
      BY <1>4, <2>1, DoesNames
    <3>2. CASE Held1(m, x)
      BY <1>1, <1>3, <3>1, <3>2 DEF Held1
    <3>3. CASE BeingTaken(m, x)
      <4>1. PICK d \in Nodes : Took(d, x)
        BY <3>3 DEF BeingTaken
      <4>2. d # n
        BY <1>1, <4>1 DEF Took
      <4>3. Took(d, x)'
        BY <1>1, <1>3, <4>1, <4>2 DEF Took
      <4> QED BY <1>1, <1>2, <1>3, <1>4, <3>1, <3>3, <4>3 DEF BeingTaken
    <3>4. CASE Traced(m, x)
      BY <1>1, <1>2, <1>3, <1>4, <3>1, <3>4 DEF Traced, Origin
    <3> QED BY <2>1, <3>2, <3>3, <3>4 DEF Repeats, Tracked, KeptOrTraced
  <2> QED BY <1>1, <1>2, <2>1 DEF KeptOrTraced
<1>6. Recorded' /\ AvailableNow'
  BY <1>1, <1>2, <1>3 DEF Repeats, Tracked, Recorded, AvailableNow, AvailableTo
<1>7. StillPublished'
  <2>1. \A x : ~HasPublished(n, x)'
    BY <1>2, <1>3 DEF HasPublished
  <2>2. \A x \in Names : store'[x] # n
    BY <1>3, <1>4
  <2>3. ASSUME NEW m \in Nodes \ {n}, at[m] \in {"answered", "published", "recorded"},
               NEW x \in Does(m, "publish")
        PROVE store'[x] = m
    <3>1. x \in Names
      BY DoesNames
    <3> QED BY <1>3, <2>3, <3>1 DEF Repeats, Tracked, StillPublished
  <2>4. \A m \in Nodes : at'[m] = "script" => m = n
    BY <1>1, <1>3
  <2>5. \A m \in Nodes : at'[m] \in {"answered", "published", "recorded"} =>
           m # n /\ at[m] \in {"answered", "published", "recorded"}
    BY <1>3
  <2>6. \A m \in Nodes : at'[m] = "script" => \A x \in Names : HasPublished(m, x)' <=> store'[x] = m
    BY ONLY <2>1, <2>2, <2>4
  <2>7. \A m \in Nodes : at'[m] \in {"answered", "published", "recorded"} =>
           \A x \in Does(m, "publish") : store'[x] = m
    BY ONLY <2>3, <2>5
  <2> QED BY <1>2, <2>6, <2>7 DEF StillPublished
<1>8. Staged' /\ NoLack'
  <2>1. Busy' = Busy
    BY <1>1, <1>2, <1>3 DEF Busy
  <2> QED BY <1>1, <1>3, <2>1, StagedAtWork
<1> QED BY <1>5, <1>6, <1>7, <1>8 DEF Repeats, Tracked

LEMMA RepeatsScriptStep ==
  ASSUME Typed, OneStage, BusyIsStale, Agree, ~marred, WorksOnce, Repeats, NEW n \in Nodes, ScriptStep(n)
  PROVE Repeats'
<1> USE DEF context, runState
<1> DEFINE y == Now(n).name
<1> DEFINE op == Now(n).op
<1>1. /\ setup' = setup /\ hasRun' = hasRun /\ stored' = stored /\ published' = published
      /\ deleted' = deleted /\ available' = available /\ kernelMap' = kernelMap
      /\ publishers' = publishers /\ origins' = origins /\ answer' = answer /\ outcome' = outcome
      /\ running' = running /\ stage' = stage /\ pending' = pending /\ at' = at /\ before' = before
      /\ at[n] = "script" /\ InScript(n) /\ Works(n) /\ step' = [step EXCEPT ![n] = @ + 1]
  BY DEF ScriptStep, InScript
<1>2. /\ Nodes' = Nodes /\ (\A m, o : Does(m, o)' = Does(m, o)) /\ (\A m : Script(m)' = Script(m))
      /\ (\A m : Upstream(m)' = Upstream(m))
  BY <1>1, SameScripts, SameFlows
<1>3. /\ step[n] \in 1 .. Len(Script(n)) /\ Script(n)[step[n]].op = op /\ Script(n)[step[n]].name = y
      /\ y \in Names /\ op \in {"publish", "read", "delete"} /\ y \in Does(n, op)
      /\ Len(Script(n)) \in Nat
  <2>1. Len(Script(n)) \in Nat
    BY SetupType, LenProperties DEF Typed
  <2> QED BY <1>1, <2>1, NowType DEF Now
<1>4. /\ \A x \in Names \ {y} : store'[x] = store[x]
      /\ store'[y] = CASE op = "publish" -> n [] op = "read" -> store[y] [] OTHER -> None
      /\ (op = "publish") = (store[y] = None)
  BY <1>1, <1>3 DEF ScriptStep, Typed, Works
<1>5. ~HasPublished(n, y)
  BY <1>1, OnlyReadBefore DEF WorksOnce
<1> HIDE DEF y, op
<1>6. /\ step'[n] = step[n] + 1 /\ (\A m \in Nodes \ {n} : step'[m] = step[m])
      /\ n # None /\ n \in Busy /\ ~hasRun[n]
  BY <1>1, SetupType DEF Typed, BusyIsStale, Busy
<1>7. \A m \in Nodes : at[m] = "script" => m = n
  BY <1>1 DEF Agree, OneScript
<1>8. \A x : \A m \in Nodes : Took(m, x)' = Took(m, x)
  BY <1>1 DEF Took
<1>9. KeptOrTraced'
  <2>1. ASSUME NEW m \in Nodes, NEW x \in Does(m, "publish"), hasRun[m]
        PROVE Held1(m, x)' \/ BeingTaken(m, x)' \/ Traced(m, x)'
    <3>1. x \in Names /\ m # n /\ m # None
      BY <1>6, <2>1, DoesNames, SetupType DEF Typed
    <3>2. Held1(m, x) \/ BeingTaken(m, x) \/ Traced(m, x)
      BY <2>1 DEF Repeats, Tracked, KeptOrTraced
    <3>3. CASE store'[x] = store[x]
      BY <1>1, <1>2, <1>8, <3>2, <3>3 DEF Held1, BeingTaken, Traced, Origin
    <3>4. CASE x = y /\ op = "publish"
      <4>1. m = n
        BY <1>3, <2>1, <3>1, <3>4, OnePublisher DEF WorksOnce
      <4> QED BY <3>1, <4>1
    <3>5. CASE x = y /\ op = "delete"
      <4>1. store[x] # None /\ store'[x] = None
        BY <1>4, <3>5
      <4>2. Held1(m, x)
        BY <3>2, <4>1 DEF BeingTaken, Traced
      <4>3. x \in before[n]
        <5>1. ScriptDiffers(n)
          BY <1>1 DEF Agree, Answered
        <5> QED BY <3>1, <4>1, <4>2, <5>1 DEF ScriptDiffers, Held1
      <4>4. Took(n, x)
        BY <1>1, <4>3 DEF Took
      <4> QED BY <1>1, <1>2, <1>8, <4>1, <4>2, <4>4 DEF BeingTaken, Held1
    <3> QED BY <1>3, <1>4, <3>1, <3>3, <3>4, <3>5
  <2> QED BY <1>1, <1>2, <2>1 DEF KeptOrTraced
<1>10. Recorded' /\ AvailableNow'
  BY <1>1, <1>2 DEF Repeats, Tracked, Recorded, AvailableNow, AvailableTo
<1>11. StillPublished'
  <2>1. ASSUME NEW x \in Names PROVE HasPublished(n, x)' <=> store'[x] = n
    <3>1. HasPublished(n, x)' <=> HasPublished(n, x) \/ (op = "publish" /\ x = y)
      BY <1>2, <1>3, <1>6 DEF HasPublished, Typed
    <3>2. HasPublished(n, x) <=> store[x] = n
      BY <1>1 DEF Repeats, Tracked, StillPublished
    <3>3. CASE x # y
      BY <1>4, <3>1, <3>2, <3>3
    <3>4. CASE x = y
      BY <1>3, <1>4, <1>5, <1>6, <3>1, <3>2, <3>4
    <3> QED BY <3>3, <3>4
  <2>2. ASSUME NEW m \in Nodes, at[m] \in {"answered", "published", "recorded"},
               NEW x \in Does(m, "publish")
        PROVE store'[x] = m
    <3>1. x \in Names /\ m # n /\ m \in Busy /\ m # None
      BY <1>1, <2>2, DoesNames, SetupType DEF Busy, Typed
    <3>2. store[x] = m
      BY <2>2 DEF Repeats, Tracked, StillPublished
    <3>3. CASE x # y
      BY <1>4, <3>1, <3>2, <3>3
    <3>4. CASE x = y
      <4>1. op # "publish"
        BY <1>4, <3>1, <3>2, <3>4
      <4>2. n \in Users(x)
        BY <1>3, <3>4, <4>1 DEF Users
      <4>3. m \in Upstream(n)
        BY <2>2, <3>1, <4>2 DEF WorksOnce, Ordered
      <4> QED BY <1>6, <3>1, <4>3, StageIsFlat
    <3> QED BY <3>3, <3>4
  <2> QED BY <1>1, <1>2, <1>7, <2>1, <2>2 DEF StillPublished
<1>12. Staged' /\ NoLack'
  <2>1. Busy' = Busy
    BY <1>1, <1>2 DEF Busy
  <2> QED BY <1>1, <2>1, StagedAtWork
<1> QED BY <1>9, <1>10, <1>11, <1>12 DEF Repeats, Tracked

LEMMA RepeatsScriptRaises ==
  ASSUME Typed, OneStage, BusyIsStale, Agree, ~marred, Repeats, NEW n \in Nodes, ScriptRaises(n), ~marred'
  PROVE Repeats'
<1> USE DEF context, runState
<1>1. /\ setup' = setup /\ stored' = stored /\ published' = published
      /\ deleted' = deleted /\ available' = available /\ kernelMap' = kernelMap
      /\ publishers' = publishers /\ origins' = origins /\ store' = store
      /\ running' = running /\ stage' = stage /\ pending' = pending
      /\ at[n] = "script" /\ Drops(n)
      /\ hasRun' = [hasRun EXCEPT ![n] = FALSE] /\ outcome' = [outcome EXCEPT ![n] = "failed"]
  BY DEF ScriptRaises, Fails, FailsAs
<1>2. /\ Nodes' = Nodes /\ (\A m, op : Does(m, op)' = Does(m, op)) /\ (\A m : Script(m)' = Script(m))
      /\ (\A m : Upstream(m)' = Upstream(m)) /\ OnKernel' = OnKernel
  BY <1>1, SameScripts, SameFlows
<1>3. /\ \A m \in Nodes : at'[m] = IF m = n THEN "idle" ELSE at[m]
      /\ \A m \in Nodes \ {n} : step'[m] = step[m] /\ before'[m] = before[m] /\ answer'[m] = answer[m]
      /\ \A m \in Nodes : outcome'[m] = IF m = n THEN "failed" ELSE outcome[m]
  BY <1>1 DEF Drops, Returns, Typed
<1>4. n \in Busy /\ ~hasRun[n] /\ hasRun' = hasRun
  BY <1>1 DEF Busy, BusyIsStale, Typed
<1>5. \A x \in Names : x \in before[n] => store[x] # None
  <2>1. step[n] \in Nat \ {0} /\ Len(Script(n)) \in Nat
    BY SetupType, LenProperties DEF Typed
  <2>2. ~ \E i \in 1 .. step[n] - 1 : Script(n)[i].op = "delete"
    BY <1>1 DEF Drops
  <2>3. \A i \in 1 .. Len(Script(n)) : i < step[n] => i \in 1 .. step[n] - 1
    BY <2>1
  <2>4. \A x \in Names : ~HasDeleted(n, x)
    BY <2>2, <2>3 DEF HasDeleted
  <2> QED BY <1>1, <2>4 DEF Agree, Answered, ScriptDiffers
<1>6. KeptOrTraced'
  <2>1. ASSUME NEW m \in Nodes, NEW x \in Does(m, "publish"), hasRun[m]
        PROVE Held1(m, x)' \/ BeingTaken(m, x)' \/ Traced(m, x)'
    <3>1. x \in Names
      BY <2>1, DoesNames
    <3>2. CASE Held1(m, x) \/ Traced(m, x)
      BY <1>1, <1>2, <3>2 DEF Held1, Traced, Origin
    <3>3. CASE BeingTaken(m, x)
      <4>1. PICK d \in Nodes : Took(d, x)
        BY <3>3 DEF BeingTaken
      <4>2. d # n
        BY <1>1, <1>5, <3>1, <3>3, <4>1 DEF Took, BeingTaken
      <4>3. Took(d, x)'
        BY <1>1, <1>3, <4>1, <4>2 DEF Took
      <4> QED BY <1>1, <1>2, <3>3, <4>3 DEF BeingTaken
    <3> QED BY <2>1, <3>2, <3>3 DEF Repeats, Tracked, KeptOrTraced
  <2> QED BY <1>2, <1>4, <2>1 DEF KeptOrTraced
<1>7. Recorded' /\ AvailableNow'
  BY <1>1, <1>2, <1>3 DEF Repeats, Tracked, Recorded, AvailableNow, AvailableTo
<1>8. StillPublished'
  BY <1>1, <1>2, <1>3 DEF Repeats, Tracked, StillPublished, HasPublished
<1>9. InputsHaveRun' /\ Progress' /\ Untouched' /\ NoLack'
  <2>1. Busy' = Busy \ {n} /\ Busy \subseteq Nodes /\ n \notin pending /\ pending \subseteq Nodes
    BY <1>2, <1>3, <1>4 DEF Busy, OneStage, Typed
  <2>2. \A m \in Nodes : m \in pending' \cup Busy' <=> (m \in pending \cup Busy /\ m # n)
    BY <1>1, <2>1
  <2>3. pending' \cup Busy' \subseteq Nodes
    BY <1>1, <2>1
  <2> QED BY <1>1, <1>3, <1>4, <2>2, <2>3, StagedLeaves
<1>10. Pristine'
  <2>1. \A d \in OnKernel : d \in Nodes
    BY DEF OnKernel
  <2> QED BY <1>1, <1>2, <1>3, <1>4, <2>1 DEF Repeats, Staged, Pristine
<1>11. CachedHasRun' /\ ReadersFirst'
  BY <1>1, <1>2, <1>4 DEF Repeats, Staged, CachedHasRun, ReadersFirst
<1> QED BY <1>6, <1>7, <1>8, <1>9, <1>10, <1>11 DEF Repeats, Tracked, Staged

(* The kernel is not reached: the node has nothing on record, as before, and fails.  *)
LEMMA RepeatsCallFails ==
  ASSUME Typed, OneStage, BusyIsStale, ~marred, Repeats, NEW n \in Nodes, CallFails(n)
  PROVE Repeats'
<1> USE DEF context, runState, scripts
<1>1. /\ setup' = setup /\ stored' = stored /\ published' = published
      /\ deleted' = deleted /\ available' = available /\ kernelMap' = kernelMap
      /\ publishers' = publishers /\ origins' = origins /\ store' = store
      /\ running' = running /\ stage' = stage /\ pending' = pending
      /\ step' = step /\ before' = before /\ answer' = answer
      /\ at[n] = "called" /\ at' = [at EXCEPT ![n] = "idle"]
      /\ hasRun' = [hasRun EXCEPT ![n] = FALSE] /\ outcome' = [outcome EXCEPT ![n] = "failed"]
  BY DEF CallFails, Fails, FailsAs
<1>2. /\ Nodes' = Nodes /\ (\A m, op : Does(m, op)' = Does(m, op)) /\ (\A m : Script(m)' = Script(m))
      /\ (\A m : Upstream(m)' = Upstream(m)) /\ OnKernel' = OnKernel
  BY <1>1, SameScripts, SameFlows
<1>3. /\ \A m \in Nodes : at'[m] = IF m = n THEN "idle" ELSE at[m]
      /\ \A m \in Nodes : outcome'[m] = IF m = n THEN "failed" ELSE outcome[m]
  BY <1>1 DEF Typed
<1>4. n \in Busy /\ ~hasRun[n] /\ hasRun' = hasRun
  BY <1>1 DEF Busy, BusyIsStale, Typed
<1>5. KeptOrTraced'
  <2>1. ASSUME NEW x \in Names, NEW d \in Nodes, Took(d, x) PROVE Took(d, x)'
    <3>1. d # n
      BY <1>1, <2>1 DEF Took
    <3> QED BY <1>1, <1>3, <2>1, <3>1 DEF Took
  <2>2. ASSUME NEW m \in Nodes, NEW x \in Does(m, "publish"), hasRun[m]
        PROVE Held1(m, x)' \/ BeingTaken(m, x)' \/ Traced(m, x)'
    <3>1. x \in Names
      BY <2>2, DoesNames
    <3>2. CASE Held1(m, x) \/ Traced(m, x)
      BY <1>1, <1>2, <3>2 DEF Held1, Traced, Origin
    <3>3. CASE BeingTaken(m, x)
      BY <1>1, <1>2, <2>1, <3>1, <3>3 DEF BeingTaken
    <3> QED BY <2>2, <3>2, <3>3 DEF Repeats, Tracked, KeptOrTraced
  <2> QED BY <1>2, <1>4, <2>2 DEF KeptOrTraced
<1>6. Recorded' /\ AvailableNow'
  BY <1>1, <1>2, <1>3 DEF Repeats, Tracked, Recorded, AvailableNow, AvailableTo
<1>7. StillPublished'
  BY <1>1, <1>2, <1>3 DEF Repeats, Tracked, StillPublished, HasPublished
<1>8. InputsHaveRun' /\ Progress' /\ Untouched' /\ NoLack'
  <2>1. Busy' = Busy \ {n} /\ Busy \subseteq Nodes /\ n \notin pending /\ pending \subseteq Nodes
    BY <1>2, <1>3, <1>4 DEF Busy, OneStage, Typed
  <2>2. \A m \in Nodes : m \in pending' \cup Busy' <=> (m \in pending \cup Busy /\ m # n)
    BY <1>1, <2>1
  <2>3. pending' \cup Busy' \subseteq Nodes
    BY <1>1, <2>1
  <2> QED BY <1>1, <1>3, <1>4, <2>2, <2>3, StagedLeaves
<1>9. Pristine'
  <2>1. \A d \in OnKernel : d \in Nodes
    BY DEF OnKernel
  <2> QED BY <1>1, <1>2, <1>3, <1>4, <2>1 DEF Repeats, Staged, Pristine
<1>10. CachedHasRun' /\ ReadersFirst'
  BY <1>1, <1>2, <1>4 DEF Repeats, Staged, CachedHasRun, ReadersFirst
<1> QED BY <1>5, <1>6, <1>7, <1>8, <1>9, <1>10 DEF Repeats, Tracked, Staged

LEMMA RepeatsEndScript ==
  ASSUME Typed, OneStage, Agree, ~marred, Repeats, NEW n \in Nodes, EndScript(n)
  PROVE Repeats'
<1> USE DEF context, runState
<1>1. /\ setup' = setup /\ hasRun' = hasRun /\ stored' = stored /\ published' = published
      /\ deleted' = deleted /\ available' = available /\ kernelMap' = kernelMap
      /\ publishers' = publishers /\ origins' = origins /\ store' = store /\ outcome' = outcome
      /\ running' = running /\ stage' = stage /\ pending' = pending /\ step' = step /\ before' = before
      /\ at[n] = "script" /\ step[n] > Len(Script(n))
      /\ answer' = [answer EXCEPT ![n] = [gained |-> Held \ before[n], lost |-> before[n] \ Held]]
      /\ at' = [at EXCEPT ![n] = "answered"]
  BY DEF EndScript
<1>2. /\ Nodes' = Nodes /\ (\A m, op : Does(m, op)' = Does(m, op)) /\ (\A m : Script(m)' = Script(m))
      /\ (\A m : Upstream(m)' = Upstream(m))
  BY <1>1, SameScripts, SameFlows
<1>3. /\ \A m \in Nodes : at'[m] = IF m = n THEN "answered" ELSE at[m]
      /\ \A m \in Nodes \ {n} : answer'[m] = answer[m]
      /\ answer'[n].lost = before[n] \ Held
  BY <1>1 DEF Typed
<1>4. KeptOrTraced'
  <2>1. ASSUME NEW m \in Nodes, NEW x \in Does(m, "publish"), hasRun[m]
        PROVE Held1(m, x)' \/ BeingTaken(m, x)' \/ Traced(m, x)'
    <3>1. x \in Names
      BY <2>1, DoesNames
    <3>2. CASE Held1(m, x) \/ Traced(m, x)
      BY <1>1, <1>2, <3>2 DEF Held1, Traced, Origin
    <3>3. CASE BeingTaken(m, x)
      <4>1. PICK d \in Nodes : Took(d, x)
        BY <3>3 DEF BeingTaken
      <4>2. Took(d, x)'
        <5>1. CASE d = n
          <6>1. x \in before[n] /\ x \notin Held
            BY <1>1, <3>3, <4>1, <5>1 DEF Took, BeingTaken, Held
          <6> QED BY <1>3, <5>1, <6>1 DEF Took
        <5>2. CASE d # n
          BY <1>1, <1>3, <4>1, <5>2 DEF Took
        <5> QED BY <5>1, <5>2
      <4> QED BY <1>1, <1>2, <3>3, <4>2 DEF BeingTaken
    <3> QED BY <2>1, <3>2, <3>3 DEF Repeats, Tracked, KeptOrTraced
  <2> QED BY <1>1, <1>2, <2>1 DEF KeptOrTraced
<1>5. Recorded' /\ AvailableNow'
  BY <1>1, <1>2, <1>3 DEF Repeats, Tracked, Recorded, AvailableNow, AvailableTo
<1>6. StillPublished'
  <2>1. ASSUME NEW x \in Does(n, "publish") PROVE store[x] = n
    <3>1. x \in Names
      BY DoesNames
    <3>2. PICK i \in 1 .. Len(Script(n)) : Script(n)[i].op = "publish" /\ Script(n)[i].name = x
      BY DEF Does
    <3>3. i < step[n]
      <4>1. step[n] \in Nat \ {0} /\ Len(Script(n)) \in Nat
        BY SetupType, LenProperties DEF Typed
      <4> QED BY <1>1, <4>1
    <3>4. HasPublished(n, x)
      BY <3>2, <3>3 DEF HasPublished
    <3> QED BY <1>1, <3>1, <3>4 DEF Repeats, Tracked, StillPublished
  <2> QED BY <1>1, <1>2, <1>3, <2>1 DEF Repeats, Tracked, StillPublished, HasPublished
<1>7. Staged' /\ NoLack'
  <2>1. Busy' = Busy
    BY <1>1, <1>2, <1>3 DEF Busy
  <2> QED BY <1>1, <1>3, <2>1, StagedAtWork
<1> QED BY <1>4, <1>5, <1>6, <1>7 DEF Repeats, Tracked

LEMMA RepeatsRecordPublished ==
  ASSUME Typed, OneStage, BusyIsStale, Agree, ~marred, WorksOnce, Repeats,
         NEW n \in Nodes, RecordPublished(n)
  PROVE Repeats'
<1> USE DEF context, runState, scripts
<1> DEFINE new == answer[n].gained
<1>1. /\ setup' = setup /\ hasRun' = hasRun /\ stored' = stored
      /\ deleted' = deleted /\ available' = available
      /\ origins' = origins /\ store' = store /\ outcome' = outcome
      /\ running' = running /\ stage' = stage /\ pending' = pending /\ step' = step /\ before' = before
      /\ answer' = answer /\ at[n] = "answered" /\ at' = [at EXCEPT ![n] = "published"]
      /\ published' = [published EXCEPT ![n] = @ \cup new]
      /\ kernelMap' = [x \in Names |-> IF x \in new THEN n ELSE kernelMap[x]]
      /\ publishers' = [x \in Names |-> IF x \in new THEN publishers[x] \cup {n} ELSE publishers[x]]
  BY DEF RecordPublished
<1>2. /\ Nodes' = Nodes /\ (\A m, op : Does(m, op)' = Does(m, op)) /\ (\A m : Script(m)' = Script(m))
      /\ (\A m : Upstream(m)' = Upstream(m))
  BY <1>1, SameScripts, SameFlows
<1>3. \A x \in Names : x \in new <=> store[x] = n
  BY <1>1 DEF Agree, Answered, GainedIsHeld
<1> HIDE DEF new
<1>4. /\ \A m \in Nodes : at'[m] = IF m = n THEN "published" ELSE at[m]
      /\ \A m \in Nodes \ {n} : published'[m] = published[m]
      /\ \A x \in Names : kernelMap'[x] = IF x \in new THEN n ELSE kernelMap[x]
      /\ \A x \in Names : publishers'[x] = IF x \in new THEN publishers[x] \cup {n} ELSE publishers[x]
  BY <1>1 DEF Typed
<1>5. ~hasRun[n] /\ n \in Busy /\ n # None
  BY <1>1, SetupType DEF Busy, BusyIsStale, Typed
<1>6. \A x : \A m \in Nodes : Took(m, x)' = Took(m, x)
  BY <1>1, <1>4 DEF Took
<1>7. KeptOrTraced'
  <2>1. ASSUME NEW m \in Nodes, NEW x \in Does(m, "publish"), hasRun[m]
        PROVE Held1(m, x)' \/ BeingTaken(m, x)' \/ Traced(m, x)'
    <3>1. x \in Names /\ m # n
      BY <1>5, <2>1, DoesNames
    <3>2. CASE Held1(m, x)
      BY <1>1, <1>3, <1>4, <3>1, <3>2 DEF Held1
    <3>3. CASE BeingTaken(m, x)
      BY <1>1, <1>2, <1>3, <1>4, <1>5, <1>6, <3>1, <3>3 DEF BeingTaken
    <3>4. CASE Traced(m, x)
      BY <1>1, <1>2, <3>4 DEF Traced, Origin
    <3> QED BY <2>1, <3>2, <3>3, <3>4 DEF Repeats, Tracked, KeptOrTraced
  <2> QED BY <1>1, <1>2, <2>1 DEF KeptOrTraced
<1>8. Recorded'
  <2>1. \A x \in Names : x \in new => x \in Does(n, "publish")
    BY <1>3, <1>5 DEF Agree, Attributed
  <2>2. \A x \in Names : kernelMap'[x] # None => kernelMap'[x] \in publishers'[x]
    BY <1>4 DEF Repeats, Tracked, Recorded
  <2>3. ASSUME NEW x \in Names, NEW m \in publishers'[x] PROVE x \in Does(m, "publish")
    <3>1. m \in publishers[x] \/ (x \in new /\ m = n)
      BY <1>4, <2>3
    <3> QED BY <2>1, <3>1 DEF Repeats, Tracked, Recorded
  <2> QED BY <1>1, <1>2, <2>2, <2>3 DEF Repeats, Tracked, Recorded
<1>9. AvailableNow'
  <2>1. ASSUME NEW m \in Nodes, at'[m] = "called" PROVE available'[m] = AvailableTo(m)'
    <3>1. m \in Busy /\ m # n /\ at[m] = "called"
      BY <1>4, <2>1 DEF Busy
    <3>2. n \notin Upstream(m) /\ Upstream(m) \subseteq Nodes
      BY <1>5, <3>1, StageIsFlat, UpstreamCloses DEF Typed
    <3>3. \A u \in Upstream(m) : published'[u] = published[u] /\ deleted'[u] = deleted[u]
      BY <1>1, <1>4, <3>2
    <3>4. AvailableTo(m)' = AvailableTo(m)
      BY <1>1, <3>3, AvailableSame
    <3> QED BY <1>1, <3>1, <3>4 DEF Repeats, Tracked, AvailableNow
  <2> QED BY <1>2, <2>1 DEF AvailableNow
<1>10. StillPublished'
  BY <1>1, <1>2, <1>4 DEF Repeats, Tracked, StillPublished, HasPublished
<1>11. Staged' /\ NoLack'
  <2>1. Busy' = Busy
    BY <1>1, <1>2, <1>4 DEF Busy
  <2> QED BY <1>1, <1>4, <2>1, StagedAtWork
<1> QED BY <1>7, <1>8, <1>9, <1>10, <1>11 DEF Repeats, Tracked

LEMMA RepeatsRecordDeleted ==
  ASSUME Typed, OneStage, BusyIsStale, Agree, ~marred, Repeats, NEW n \in Nodes, RecordDeleted(n)
  PROVE Repeats'
<1> USE DEF context, runState, scripts
<1> DEFINE gone == answer[n].lost
<1> DEFINE Whose == UNION {{[name |-> x, by |-> p] : p \in publishers[x]} : x \in gone}
<1>1. /\ setup' = setup /\ hasRun' = hasRun /\ stored' = stored
      /\ published' = published /\ available' = available
      /\ store' = store /\ outcome' = outcome
      /\ running' = running /\ stage' = stage /\ pending' = pending /\ step' = step /\ before' = before
      /\ answer' = answer /\ at[n] = "published" /\ at' = [at EXCEPT ![n] = "recorded"]
      /\ deleted' = [deleted EXCEPT ![n] = @ \cup gone]
      /\ kernelMap' = [x \in Names |-> IF x \in gone THEN None ELSE kernelMap[x]]
      /\ origins' = [origins EXCEPT ![n] = @ \cup Whose]
      /\ publishers' = [x \in Names |-> IF x \in gone THEN {} ELSE publishers[x]]
  BY DEF RecordDeleted
<1>2. /\ Nodes' = Nodes /\ (\A m, op : Does(m, op)' = Does(m, op)) /\ (\A m : Script(m)' = Script(m))
      /\ (\A m : Upstream(m)' = Upstream(m))
  BY <1>1, SameScripts, SameFlows
<1>3. /\ gone \subseteq Names
      /\ \A x \in gone : store[x] = None /\ x \in Does(n, "delete")
  BY <1>1 DEF Agree, Answered, LostIsGone, Typed, Answers
<1>4. /\ \A x \in gone : \A p \in publishers[x] : Origin(x, p) \in Whose
      /\ \A o \in Whose : o.name \in gone /\ o.by \in publishers[o.name]
  BY DEF Origin
<1>5. \A x \in Names, d \in Nodes : Took(d, x) /\ x \notin gone => d # n
  BY <1>1 DEF Took
<1> HIDE DEF gone, Whose
<1>6. /\ \A m \in Nodes : at'[m] = IF m = n THEN "recorded" ELSE at[m]
      /\ deleted'[n] = deleted[n] \cup gone /\ \A m \in Nodes \ {n} : deleted'[m] = deleted[m]
      /\ origins'[n] = origins[n] \cup Whose /\ \A m \in Nodes \ {n} : origins'[m] = origins[m]
      /\ \A x \in Names : kernelMap'[x] = IF x \in gone THEN None ELSE kernelMap[x]
      /\ \A x \in Names : publishers'[x] = IF x \in gone THEN {} ELSE publishers[x]
  BY <1>1 DEF Typed
<1>7. ~hasRun[n] /\ n \in Busy
  BY <1>1 DEF Busy, BusyIsStale
<1>8. KeptOrTraced'
  <2>1. ASSUME NEW m \in Nodes, NEW x \in Does(m, "publish"), hasRun[m]
        PROVE Held1(m, x)' \/ BeingTaken(m, x)' \/ Traced(m, x)'
    <3>1. x \in Names /\ m # n /\ m # None
      BY <1>7, <2>1, DoesNames, SetupType DEF Typed
    <3>2. CASE Held1(m, x)
      BY <1>1, <1>3, <1>6, <3>1, <3>2 DEF Held1
    <3>3. CASE BeingTaken(m, x) /\ x \in gone
      <4>1. m \in publishers[x]
        BY <3>1, <3>3 DEF BeingTaken, Repeats, Tracked, Recorded
      <4>2. Origin(x, m) \in origins'[n]
        BY <1>4, <1>6, <3>3, <4>1
      <4> QED BY <1>1, <1>2, <3>3, <4>2 DEF BeingTaken, Traced, Origin
    <3>4. CASE BeingTaken(m, x) /\ x \notin gone
      <4>1. PICK d \in Nodes : Took(d, x)
        BY <3>4 DEF BeingTaken
      <4>2. d # n
        BY <1>5, <3>1, <3>4, <4>1
      <4>3. Took(d, x)'
        BY <1>1, <1>6, <4>1, <4>2 DEF Took
      <4> QED BY <1>1, <1>2, <1>6, <3>1, <3>4, <4>3 DEF BeingTaken
    <3>5. CASE Traced(m, x)
      <4>1. PICK d \in Nodes : Origin(x, m) \in origins[d]
        BY <3>5 DEF Traced
      <4>2. Origin(x, m) \in origins'[d]
        BY <1>6, <4>1
      <4> QED BY <1>1, <1>2, <3>5, <4>2 DEF Traced, Origin
    <3> QED BY <2>1, <3>2, <3>3, <3>4, <3>5 DEF Repeats, Tracked, KeptOrTraced
  <2> QED BY <1>1, <1>2, <2>1 DEF KeptOrTraced
<1>9. Recorded'
  <2>1. \A x \in Names : kernelMap'[x] # None => kernelMap'[x] \in publishers'[x]
    BY <1>6 DEF Repeats, Tracked, Recorded
  <2>2. ASSUME NEW x \in Names, NEW m \in publishers'[x] PROVE x \in Does(m, "publish")
    <3>1. m \in publishers[x]
      BY <1>6, <2>2
    <3> QED BY <3>1 DEF Repeats, Tracked, Recorded
  <2>3. ASSUME NEW d \in Nodes PROVE deleted'[d] \subseteq Does(d, "delete")
    <3>1. deleted[d] \subseteq Does(d, "delete")
      BY DEF Repeats, Tracked, Recorded
    <3> QED BY <1>3, <1>6, <3>1
  <2>4. ASSUME NEW d \in Nodes, NEW o \in origins'[d]
        PROVE o.name \in deleted'[d] /\ o.name \in Does(o.by, "publish")
    <3>1. CASE o \in origins[d]
      BY <1>6, <3>1 DEF Repeats, Tracked, Recorded
    <3>2. CASE d = n /\ o \in Whose
      <4>1. o.name \in gone /\ o.by \in publishers[o.name]
        BY <1>4, <3>2
      <4> QED BY <1>3, <1>6, <3>2, <4>1 DEF Repeats, Tracked, Recorded
    <3> QED BY <1>6, <2>4, <3>1, <3>2
  <2> QED BY <1>2, <2>1, <2>2, <2>3, <2>4 DEF Recorded
<1>10. AvailableNow'
  <2>1. ASSUME NEW m \in Nodes, at'[m] = "called" PROVE available'[m] = AvailableTo(m)'
    <3>1. m \in Busy /\ m # n /\ at[m] = "called"
      BY <1>6, <2>1 DEF Busy
    <3>2. n \notin Upstream(m) /\ Upstream(m) \subseteq Nodes
      BY <1>7, <3>1, StageIsFlat, UpstreamCloses DEF Typed
    <3>3. \A u \in Upstream(m) : published'[u] = published[u] /\ deleted'[u] = deleted[u]
      BY <1>1, <1>6, <3>2
    <3>4. AvailableTo(m)' = AvailableTo(m)
      BY <1>1, <3>3, AvailableSame
    <3> QED BY <1>1, <3>1, <3>4 DEF Repeats, Tracked, AvailableNow
  <2> QED BY <1>2, <2>1 DEF AvailableNow
<1>11. StillPublished'
  BY <1>1, <1>2, <1>6 DEF Repeats, Tracked, StillPublished, HasPublished
<1>12. Staged' /\ NoLack'
  <2>1. Busy' = Busy
    BY <1>1, <1>2, <1>6 DEF Busy
  <2> QED BY <1>1, <1>6, <2>1, StagedAtWork
<1> QED BY <1>8, <1>9, <1>10, <1>11, <1>12 DEF Repeats, Tracked

LEMMA RepeatsFinishNode ==
  ASSUME Typed, OneStage, BusyIsStale, Agree, ~marred, WorksOnce, Repeats, NEW n \in Nodes, FinishNode(n)
  PROVE Repeats'
<1> USE DEF context, runState
<1>1. /\ setup' = setup /\ published' = published
      /\ deleted' = deleted /\ available' = available /\ kernelMap' = kernelMap
      /\ publishers' = publishers /\ origins' = origins /\ store' = store
      /\ running' = running /\ stage' = stage /\ pending' = pending
      /\ at[n] = "recorded" /\ Returns(n)
      /\ Succeeds(n) \/ Fails(n)
  BY DEF FinishNode
<1>2. /\ Nodes' = Nodes /\ (\A m, op : Does(m, op)' = Does(m, op)) /\ (\A m : Script(m)' = Script(m))
      /\ (\A m : Upstream(m)' = Upstream(m)) /\ OnKernel' = OnKernel
  BY <1>1, SameScripts, SameFlows
<1>3. /\ \A m \in Nodes : at'[m] = IF m = n THEN "idle" ELSE at[m]
      /\ \A m \in Nodes \ {n} : step'[m] = step[m] /\ before'[m] = before[m] /\ answer'[m] = answer[m]
  BY <1>1 DEF Returns, Typed
<1>4. /\ \A m \in Nodes \ {n} : hasRun'[m] = hasRun[m] /\ outcome'[m] = outcome[m]
      /\ \/ hasRun'[n] /\ outcome'[n] = "ok" /\ stored' = stored \cup {n}
         \/ ~hasRun'[n] /\ outcome'[n] = "failed" /\ stored' = stored
  BY <1>1 DEF Succeeds, Fails, FailsAs, Typed
<1>5. n \in Busy /\ ~hasRun[n] /\ running = "run"
  BY <1>1 DEF Busy, BusyIsStale, OneStage, Typed
<1>6. \A x : \A m \in Nodes : Took(m, x) => Took(m, x)'
  <2>1. \A x : ~Took(n, x)
    BY <1>1 DEF Took
  <2> QED BY <1>3, <2>1 DEF Took
<1>7. KeptOrTraced'
  <2>1. ASSUME NEW m \in Nodes, NEW x \in Does(m, "publish"), hasRun'[m]
        PROVE Held1(m, x)' \/ BeingTaken(m, x)' \/ Traced(m, x)'
    <3>1. CASE m = n
      <4>1. x \in Names
        BY DoesNames
      <4>2. store[x] = n
        BY <1>1, <3>1 DEF Repeats, Tracked, StillPublished
      <4>3. kernelMap[x] = n
        BY <1>1, <4>1, <4>2 DEF Agree, Answered, OwnIsShown
      <4> QED BY <1>1, <3>1, <4>2, <4>3 DEF Held1
    <3>2. CASE m # n
      <4>1. Held1(m, x) \/ BeingTaken(m, x) \/ Traced(m, x)
        BY <1>4, <2>1, <3>2 DEF Repeats, Tracked, KeptOrTraced
      <4> QED BY <1>1, <1>2, <1>6, <4>1 DEF Held1, BeingTaken, Traced, Origin
    <3> QED BY <3>1, <3>2
  <2> QED BY <1>2, <2>1 DEF KeptOrTraced
<1>8. Recorded' /\ AvailableNow'
  BY <1>1, <1>2, <1>3 DEF Repeats, Tracked, Recorded, AvailableNow, AvailableTo
<1>9. StillPublished'
  BY <1>1, <1>2, <1>3 DEF Repeats, Tracked, StillPublished, HasPublished
<1>10. InputsHaveRun' /\ Progress' /\ Untouched' /\ NoLack'
  <2>1. Busy' = Busy \ {n} /\ Busy \subseteq Nodes /\ n \notin pending /\ pending \subseteq Nodes
    BY <1>2, <1>3, <1>5 DEF Busy, OneStage, Typed
  <2>2. \A m \in Nodes : m \in pending' \cup Busy' <=> (m \in pending \cup Busy /\ m # n)
    BY <1>1, <2>1
  <2>3. pending' \cup Busy' \subseteq Nodes
    BY <1>1, <2>1
  <2> QED BY <1>1, <1>4, <1>5, <2>2, <2>3, StagedLeaves
<1>11. Pristine'
  <2>1. \A d \in OnKernel : d \in Nodes
    BY DEF OnKernel
  <2> QED BY <1>1, <1>2, <1>3, <1>4, <2>1 DEF Repeats, Staged, Pristine
<1>12. CachedHasRun'
  <2>1. setup.cached \subseteq Nodes
    BY SetupType DEF Typed
  <2> QED BY <1>1, <1>4, <1>5, <2>1 DEF Repeats, Staged, CachedHasRun
<1>13. ReadersFirst'
  <2>1. ASSUME NEW x \in Names, NEW r \in Nodes, NEW d \in Nodes, r # d,
               x \in Does(r, "read"), x \in Does(d, "delete"), hasRun'[d]
        PROVE hasRun'[r]
    <3>1. CASE d # n
      <4>1. hasRun[r] /\ r # n
        BY <1>4, <1>5, <2>1, <3>1 DEF Repeats, Staged, ReadersFirst
      <4> QED BY <1>4, <4>1
    <3>2. CASE d = n
      <4>1. r \in Upstream(n)
        BY <2>1, <3>2 DEF WorksOnce, Ordered, Users
      <4>2. hasRun[r]
        BY <1>5, <4>1 DEF Repeats, Staged, InputsHaveRun
      <4> QED BY <1>4, <2>1, <3>2, <4>2
    <3> QED BY <3>1, <3>2
  <2> QED BY <1>2, <2>1 DEF ReadersFirst
<1> QED BY <1>7, <1>8, <1>9, <1>10, <1>11, <1>12, <1>13 DEF Repeats, Tracked, Staged

-----------------------------------------------------------------------------
(* Between the runs.                                                         *)
LEMMA RepeatsEditSettings ==
  ASSUME Typed, WorksOnce, Repeats, NEW n \in Nodes, EditSettings(n)
  PROVE Repeats'
<1> USE DEF context, runState, scripts
<1>1. /\ setup' = setup /\ running' = "no" /\ outcome' = outcome
      /\ stored' = stored \ Below(n)
      /\ \A m \in Nodes : hasRun'[m] = (hasRun[m] /\ m \notin Below(n))
  BY DEF EditSettings
<1>2. Nodes' = Nodes /\ (\A m, op : Does(m, op)' = Does(m, op))
  BY <1>1, SameScripts
<1>3. Tracked'
  <2>1. \A m \in Nodes : hasRun'[m] => hasRun[m]
    BY <1>1
  <2> QED BY <2>1, TrackedFrame DEF EditSettings
<1>4. CachedHasRun'
  <2>1. setup.cached \subseteq Nodes
    BY SetupType DEF Typed
  <2> QED BY <1>1, <2>1 DEF Repeats, Staged, CachedHasRun
<1>5. ReadersFirst'
  <2>1. ASSUME NEW x \in Names, NEW r \in Nodes, NEW d \in Nodes, r # d,
               x \in Does(r, "read"), x \in Does(d, "delete"), hasRun'[d]
        PROVE hasRun'[r]
    <3>1. hasRun[r] /\ d \notin Below(n)
      BY <1>1, <2>1 DEF Repeats, Staged, ReadersFirst
    <3>2. r \in Upstream(d)
      BY <2>1 DEF WorksOnce, Ordered, Users
    <3>3. n = r \/ n \in Upstream(r) => n \in Upstream(d)
      BY <3>2, UpstreamTransitive DEF Typed
    <3>4. r \notin Below(n)
      BY <3>1, <3>3 DEF Below
    <3> QED BY <1>1, <3>1, <3>4
  <2> QED BY <1>2, <2>1 DEF ReadersFirst
<1>6. Pristine' /\ InputsHaveRun' /\ Progress' /\ Untouched' /\ NoLack'
  BY <1>1, <1>2 DEF Pristine, InputsHaveRun, Progress, Untouched, Repeats, NoLack
<1> QED BY <1>3, <1>4, <1>5, <1>6 DEF Repeats, Staged

LEMMA RepeatsRestartKernel ==
  ASSUME Typed, Repeats, RestartKernel, ~marred'
  PROVE Repeats'
<1> USE DEF context, runState, scripts
<1>1. PICK kept \in SUBSET Held :
          /\ store' = [x \in Names |-> IF x \in kept THEN store[x] ELSE None]
          /\ marred' = (marred \/ kept # Held)
  BY DEF RestartKernel
<1>2. store' = [x \in Names |-> store[x]]
  BY <1>1 DEF Held
<1>3. store' = store
  BY <1>2 DEF Typed
<1>4. Tracked'
  BY <1>3, TrackedFrame DEF RestartKernel
<1>5. Staged' /\ NoLack'
  BY StagedFrame DEF RestartKernel
<1> QED BY <1>4, <1>5 DEF Repeats

-----------------------------------------------------------------------------
(* Together. *)
LEMMA RepeatsStep ==
  ASSUME Typed, OneStage, BusyIsStale, Agree, ~marred, WorksOnce, Remakable, Repeats, Next, ~marred'
  PROVE Repeats'
<1> USE DEF context, runState, scripts
<1>1. CASE StartRun
  BY <1>1, RepeatsStartRun
<1>2. CASE NextStage \/ EndRun
  BY <1>2, RepeatsNextStage, RepeatsEndRun
<1>3. CASE RequestCancel
  <2>1. Tracked'
    BY <1>3, TrackedFrame DEF RequestCancel
  <2>2. Staged' /\ NoLack'
    BY <1>3, StagedFrame DEF RequestCancel
  <2> QED BY <2>1, <2>2 DEF Repeats
<1>4. CASE RestartKernel
  BY <1>4, RepeatsRestartKernel
<1>5. ASSUME NEW n \in Nodes, SkipNode(n) \/ RunElsewhere(n) \/ CallKernel(n) PROVE Repeats'
  BY <1>5, RepeatsSkipNode, RepeatsRunElsewhere, RepeatsCallKernel
<1>6. ASSUME NEW n \in Nodes, BeginScript(n) \/ ScriptStep(n) \/ EndScript(n) PROVE Repeats'
  BY <1>6, RepeatsBeginScript, RepeatsScriptStep, RepeatsEndScript
<1>7. ASSUME NEW n \in Nodes, ScriptLacks(n) PROVE Repeats'
  BY <1>7, ScriptWorks DEF ScriptLacks
<1>8. ASSUME NEW n \in Nodes, ScriptRaises(n) \/ CallFails(n) PROVE Repeats'
  BY <1>8, RepeatsScriptRaises, RepeatsCallFails
<1>9. ASSUME NEW n \in Nodes, RecordPublished(n) \/ RecordDeleted(n) \/ FinishNode(n) PROVE Repeats'
  BY <1>9, RepeatsRecordPublished, RepeatsRecordDeleted, RepeatsFinishNode
<1>10. ASSUME NEW n \in Nodes, EditSettings(n) PROVE Repeats'
  BY <1>10, RepeatsEditSettings
<1>11. ASSUME NEW n \in Nodes, StartFetch(n) PROVE Repeats'
  BY <1>11 DEF StartFetch
<1> QED BY <1>1, <1>2, <1>3, <1>4, <1>5, <1>6, <1>7, <1>8, <1>9, <1>10, <1>11 DEF Next

IInvRepeats == IInv /\ (~marred /\ WorksOnce /\ Remakable => Repeats)

LEMMA IInvRepeatsStep == IInvRepeats /\ [Next]_vars => IInvRepeats'
<1> SUFFICES ASSUME IInvRepeats, [Next]_vars PROVE IInvRepeats'
  OBVIOUS
<1>1. IInv'
  BY IInvStep DEF IInvRepeats
<1>2. setup' = setup
  BY SameFlow DEF vars
<1>3. WorksOnce' = WorksOnce /\ Remakable' = Remakable
  BY <1>2, SameScripts, SameFlows DEF WorksOnce
<1>4. ASSUME ~marred', WorksOnce, Remakable PROVE Repeats'
  <2>1. ~marred
    BY <1>4, MarredStays DEF vars
  <2>2. Repeats /\ Typed /\ OneStage /\ BusyIsStale /\ Agree
    BY <1>4, <2>1 DEF IInvRepeats, IInv, WorksOnce
  <2>3. CASE Next
    BY <1>4, <2>1, <2>2, <2>3, RepeatsStep
  <2>4. CASE UNCHANGED vars
    <3>1. Tracked'
      BY <2>2, <2>4, TrackedFrame DEF vars
    <3>2. Staged' /\ NoLack'
      BY <2>2, <2>4, StagedFrame DEF vars
    <3> QED BY <3>1, <3>2 DEF Repeats
  <2> QED BY <2>3, <2>4
<1> QED BY <1>1, <1>3, <1>4 DEF IInvRepeats

LEMMA IInvRepeatsAlways == Spec => []IInvRepeats
<1>1. Init => IInvRepeats
  BY IInvInit, RepeatsInit DEF IInvRepeats
<1> QED BY <1>1, IInvRepeatsStep, PTL DEF Spec

(* ScriptsFindArtifacts for every flow that works on an empty kernel and in which   *)
(* no node that may have to publish again reads what others delete or is cached     *)
(* (Remakable): edits, failures, cancels and restarts may choose what runs again,   *)
(* and _prepare_rerun_artifacts still gives every script what it gets in a first    *)
(* run, as long as nothing has marred the record.                              *)
THEOREM ScriptsRunAgain == Spec => []ScriptsFindArtifacts
<1>1. IInvRepeats => ScriptsFindArtifacts
  BY DEF IInvRepeats, Repeats, NoLack, ScriptsFindArtifacts
<1> QED BY <1>1, IInvRepeatsAlways, PTL
-----------------------------------------------------------------------------
(* What the core shows to the scripts.                                        *)

(* An execution that has taken something away is of a node that deletes it.     *)
LEMMA TakersDelete ==
  ASSUME Agree, NEW d \in Nodes, NEW x \in Names, Took(d, x), store[x] = None
  PROVE x \in Does(d, "delete") /\ d \in Busy
<1>1. CASE at[d] = "script" /\ x \in before[d]
  <2>1. HasDeleted(d, x)
    BY <1>1 DEF Agree, Answered, ScriptDiffers
  <2> QED BY <1>1, <2>1 DEF HasDeleted, Does, Busy
<1>2. CASE at[d] \in {"answered", "published"} /\ x \in answer[d].lost
  BY <1>2 DEF Agree, Answered, LostIsGone, Busy
<1> QED BY <1>1, <1>2 DEF Took

(* All that a script reads is available to it.                                 *)
LEMMA ReadIsAvailable ==
  ASSUME Typed, OneStage, BusyIsStale, Agree, ~marred, WorksOnce, Repeats,
         NEW n \in Nodes, at[n] = "called", NEW x \in Does(n, "read")
  PROVE x \in AvailableTo(n)
<1>1. n \in Busy /\ at[n] # "recorded"
  BY DEF Busy
<1>2. x \in Names /\ n \in Users(x)
  BY DoesNames DEF Users
<1>3. PICK p \in Nodes : hasRun[p] /\ x \in Does(p, "publish") /\ p \in Upstream(n)
  BY <1>1, <1>2, UsedHasRun DEF Repeats, Staged
<1>4. ~Traced(p, x)
  BY <1>1, <1>2, NotTraced DEF Traced
<1>5. kernelMap[x] = p /\ p # None
  BY <1>3, <1>4, SetupType DEF Typed, Repeats, Tracked, KeptOrTraced, Held1, BeingTaken
<1>6. x \in published[p]
  BY <1>2, <1>5 DEF Agree, Attributed
<1>7. ASSUME NEW v \in Upstream(n), x \in deleted[v] PROVE FALSE
  <2>1. v \in Nodes
    BY UpstreamTransitive DEF Typed
  <2>2. x \in Does(v, "delete")
    BY <1>7, <2>1 DEF Repeats, Tracked, Recorded
  <2>3. n = v \/ n \in Upstream(v)
    BY <1>2, <2>1, <2>2 DEF WorksOnce, Ordered
  <2>4. n \in Upstream(n)
    BY <2>3, UpstreamTransitive DEF Typed
  <2> QED BY <2>4 DEF WorksOnce, Planned
<1> QED BY <1>2, <1>3, <1>6, <1>7 DEF AvailableTo

(* What is available and not held is deleted on another branch.                 *)
LEMMA AvailableIsHeld ==
  ASSUME Typed, OneStage, BusyIsStale, Agree, ~marred, WorksOnce, Repeats,
         NEW n \in Nodes, at[n] = "called", NEW x \in AvailableTo(n), store[x] = None,
         Ascending(n)
  PROVE \E m \in Nodes \ Upstream(n) : x \in Does(m, "delete")
<1>1. n \in Busy /\ running = "run"
  BY DEF Busy, OneStage, Typed
<1>2. PICK u \in Upstream(n) : /\ x \in Names /\ x \in published[u]
                               /\ \A v \in Upstream(n) : v > u => x \notin deleted[v]
  BY DEF AvailableTo
<1>3. u \in Nodes /\ u # None /\ hasRun[u]
  <2>1. u \in Nodes
    BY UpstreamTransitive DEF Typed
  <2> QED BY <1>1, <2>1, SetupType DEF Typed, Repeats, Staged, InputsHaveRun
<1>4. x \in Does(u, "publish")
  BY <1>2, <1>3 DEF Agree, Attributed
<1>5. BeingTaken(u, x) \/ Traced(u, x)
  BY <1>3, <1>4 DEF Repeats, Tracked, KeptOrTraced, Held1
<1>6. CASE BeingTaken(u, x)
  <2>1. PICK d \in Nodes : Took(d, x)
    BY <1>6 DEF BeingTaken
  <2>2. x \in Does(d, "delete") /\ d \in Busy
    BY <1>2, <2>1, TakersDelete
  <2>3. d \notin Upstream(n)
    BY <1>1, <2>2, StageIsFlat
  <2> QED BY <2>2, <2>3
<1>7. CASE Traced(u, x)
  <2>1. PICK d \in Nodes : Origin(x, u) \in origins[d]
    BY <1>7 DEF Traced
  <2>2. x \in deleted[d] /\ x \in Does(d, "delete")
    BY <2>1 DEF Repeats, Tracked, Recorded, Origin
  <2>3. u \in Upstream(d)
    BY <1>2, <1>3, <1>4, <2>2 DEF WorksOnce, Ordered, Users
  <2>4. d \in Upstream(n) => d > u
    BY <2>3 DEF Ascending
  <2>5. d \notin Upstream(n)
    BY <1>2, <2>2, <2>4
  <2> QED BY <2>2, <2>5
<1> QED BY <1>5, <1>6, <1>7

(* AvailableTellsStore for every flow: a script is shown all that it reads, however *)
(* ids and wiring lie; that what it is shown is there is said of the nodes above      *)
(* which the ids ascend along the wiring, because compute_available takes the order   *)
(* of the ids for that of the flow.                                           *)
THEOREM ScriptsAreShownTheStore == Spec => []AvailableTellsStore
<1>1. IInvRepeats => AvailableTellsStore
  <2> SUFFICES ASSUME IInvRepeats, ~marred, WorksOnce, Remakable, NEW n \in Nodes, at[n] = "called"
               PROVE /\ Does(n, "read") \subseteq available[n]
                     /\ Ascending(n) => \A x \in available[n] \ Held :
                           \E m \in Nodes \ Upstream(n) : x \in Does(m, "delete")
    BY DEF AvailableTellsStore
  <2>1. Typed /\ OneStage /\ BusyIsStale /\ Agree /\ Repeats
    BY DEF IInvRepeats, IInv, WorksOnce
  <2>2. available[n] = AvailableTo(n)
    BY <2>1 DEF Repeats, Tracked, AvailableNow
  <2>4. \A x \in AvailableTo(n) \ Held : store[x] = None
    BY DEF AvailableTo, Held
  <2>5. ASSUME Ascending(n), NEW x \in AvailableTo(n) \ Held
        PROVE \E m \in Nodes \ Upstream(n) : x \in Does(m, "delete")
    BY <2>1, <2>4, <2>5, AvailableIsHeld
  <2>6. Does(n, "read") \subseteq AvailableTo(n)
    BY <2>1, ReadIsAvailable
  <2> QED BY <2>2, <2>5, <2>6
<1> QED BY <1>1, IInvRepeatsAlways, PTL
=============================================================================
