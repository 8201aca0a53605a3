----------------------------- MODULE FlowWiring -----------------------------
(***************************************************************************)
(* The wiring of a flow while it is edited: every connection is kept twice,   *)
(* in the inputs of the node that receives it (main, right, left) and in the   *)
(* leads_to_nodes of the node it comes from.  Execution reads both: the plan   *)
(* and the skip sets follow leads_to_nodes, get_resulting_data and is_correct  *)
(* the inputs.  The edges of FlowPlan's graphs are the leads of this module.   *)
(* The lists hold FlowNode objects, while edits look their entries up by        *)
(* node_id; a deleted node's id may be given to a new object.                 *)
(* Source: flowfile/flow_graph.py, flowfile/flow_node/flow_node.py,            *)
(* flowfile/flow_node/models.py.                                              *)
(***************************************************************************)
EXTENDS FlowPlan, Sequences, Functions

CONSTANTS        \* NodeIds of FlowPlan stands for the FlowNode objects here
    IdOf,        \* IdOf[n]: node_id; several objects may have it one after the other
    None,
    Sources,     \* node_template.input = 0
    Multi,       \* node_template.input > 2: main inputs are a list of any length
    Ports,       \* Ports[n]: the input handles the editor offers for n
    MaxLeads     \* bound: entries of all leads_to_nodes lists together

ASSUME NoneAssumption == None \notin NodeIds
ASSUME IdsAssumption == DOMAIN IdOf = NodeIds
ASSUME TemplatesAssumption == Sources \subseteq NodeIds /\ Multi \subseteq NodeIds \ Sources
ASSUME PortsAssumption == Ports \in [NodeIds -> SUBSET {"main", "right", "left"}]
ASSUME MaxLeadsAssumption == MaxLeads \in Nat

VARIABLES
    status,    \* "new" until added, "present" in _node_db, "deleted" afterwards
    main,      \* main[n]: main_inputs
    listed,    \* the nodes whose main_inputs is a list, no longer None
    right,     \* right_input
    left,      \* left_input
    leads,     \* leads[n]: leads_to_nodes, with a repetition per connection made
    doubled    \* an id came back while its old object was still connected (history)

ports == <<main, listed, right, left>>
wiring == <<status, main, listed, right, left, leads, doubled>>

Present == {n \in NodeIds : status[n] = "present"}

Same(m, n) == IdOf[m] = IdOf[n]

WiringInit ==
    /\ status = [n \in NodeIds |-> "new"]
    /\ main = [n \in NodeIds |-> <<>>]
    /\ listed = {}
    /\ right = [n \in NodeIds |-> None]
    /\ left = [n \in NodeIds |-> None]
    /\ leads = [n \in NodeIds |-> <<>>]
    /\ doubled = FALSE

-----------------------------------------------------------------------------
Optional(p) == IF p = None THEN <<>> ELSE <<p>>

(* get_all_inputs *)
AllInputs(n) == main[n] \o Optional(left[n]) \o Optional(right[n])

HasId(s, n) == \E m \in Range(s) : Same(m, n)

InputOn(p, n, port) ==
    HasId(CASE port = "main" -> main[n]
            [] port = "right" -> Optional(right[n])
            [] OTHER -> Optional(left[n]), p)

(* validate_if_input_connection_exists *)
ConnectionExists(p, n, port) == InputOn(p, n, port)

(* The objects that are in the flow or that a connection leads or refers to. *)
Connected ==
    Present \cup (UNION {Range(leads[m]) : m \in NodeIds})
            \cup (UNION {Range(AllInputs(m)) : m \in Present})

(* What following leads_to_nodes meets; where no two connected objects have one  *)
(* id, the graph the plan of a run is computed from.                          *)
PlanGraph ==
    [nodes |-> Present, edges |-> {e \in NodeIds \X NodeIds : e[2] \in Range(leads[e[1]])},
     incorrect |-> {}, starts |-> {}]

LeadEntries == UNION {{m} \X (1 .. Len(leads[m])) : m \in NodeIds}

(* The entries of leads[m] that a walk which marks ids can push: the first of its id. *)
Firsts(m) ==
    {leads[m][i] : i \in {h \in 1 .. Len(leads[m]) : ~\E k \in 1 .. h - 1 : Same(leads[m][k], leads[m][h])}}

(* The objects the walk of _would_create_cycle from n may expand: one for each id   *)
(* it meets, which hides the others of that id.  In which order it comes to the   *)
(* lists of different nodes is left open.                                     *)
Walks(n) ==
    {W \in SUBSET NodeIds :
        /\ n \in W
        /\ \A k, m \in W : Same(k, m) => k = m
        /\ \A m \in W : \A h \in Firsts(m) : \E k \in W : Same(k, h)
        /\ \A C \in SUBSET W :
              n \in C /\ W \cap UNION {Firsts(m) : m \in C} \subseteq C => C = W}

DirectCycleOnly(W, p, n) == Same(p, n) \/ HasId(leads[n], p)

(* _would_create_cycle: p's id is n's, or a node the walk W from n expands leads to it. *)
WouldCreateCycle(W, p, n) == Same(p, n) \/ \E m \in W : HasId(leads[m], p)

(* The entries of s at the positions in K. *)
Keep(s, K) ==
    LET rank(k) == Cardinality({h \in K : h <= k})
    IN  [i \in 1 .. Cardinality(K) |-> s[CHOOSE k \in K : rank(k) = i]]

(* How many entries with p's id end at position i without another between them. *)
RunLength(s, p, i) == Cardinality({j \in 1 .. i : \A h \in j .. i : Same(s[h], p)})

(* The loop "for i, node in enumerate(main_inputs): if ...: pop(i)": a pop       *)
(* moves the next element under the index just visited, so it is not looked at,  *)
(* and of matching entries in a row every second one stays.  After more loops it is     *)
(* every fourth, every eighth and so on.                                      *)
PopEvery(s, p, step) == Keep(s, {i \in 1 .. Len(s) : RunLength(s, p, i) % step = 0})

PopMatching(s, p) == PopEvery(s, p, 2)

(* s without its first k entries that have m's id. *)
DropFirst(s, m, k) ==
    Keep(s, {i \in 1 .. Len(s) :
                Same(s[i], m) => Cardinality({j \in 1 .. i : Same(s[j], m)}) > k})

Occurrences(s, m) == Cardinality({i \in 1 .. Len(s) : s[i] = m})

-----------------------------------------------------------------------------
(* add_node_promise; the route deletes the node that has the id at the time. *)
AddNode(n) ==
    /\ status[n] = "new"
    /\ \A m \in Present : ~Same(m, n)
    /\ status' = [status EXCEPT ![n] = "present"]
    /\ doubled' = (doubled \/ \E m \in Connected : Same(m, n))
    /\ UNCHANGED <<ports, leads>>

AppendMain(p, n) == main' = [main EXCEPT ![n] = Append(@, p)]

(* A node with at most two inputs has one main input, which is replaced. *)
SetMain(p, n) ==
    main' = [main EXCEPT ![n] = IF n \in Multi /\ n \in listed THEN Append(@, p) ELSE <<p>>]

Plug(p, n, port) ==
    \/ /\ port = "main"
       /\ SetMain(p, n)
       /\ listed' = listed \cup {n}
       /\ UNCHANGED <<right, left>>
    \/ /\ port = "right"
       /\ right' = [right EXCEPT ![n] = p]
       /\ UNCHANGED <<main, listed, left>>
    \/ /\ port = "left"
       /\ left' = [left EXCEPT ![n] = p]
       /\ UNCHANGED <<main, listed, right>>

(* add_connection *)
Connect(p, n, port) ==
    /\ {p, n} \subseteq Present
    /\ n \notin Sources
    /\ Cardinality(LeadEntries) < MaxLeads
    /\ \E W \in Walks(n) : ~WouldCreateCycle(W, p, n)
    /\ leads' = [leads EXCEPT ![p] = Append(@, n)]
    /\ Plug(p, n, port)
    /\ UNCHANGED <<status, doubled>>

(* add_lead_to_in_depend_source, at every change of the node's settings. *)
SaveSettings(n) ==
    /\ n \in Present
    /\ leads' = [p \in NodeIds |-> IF p \in Range(AllInputs(n)) /\ ~HasId(leads[p], n)
                                THEN Append(leads[p], n) ELSE leads[p]]
    /\ UNCHANGED <<status, ports, doubled>>

(* delete_input_node; clearing the left input asks for the id of the right one. *)
Unplug(p, n, port) ==
    \/ /\ port = "main"
       /\ main' = [main EXCEPT ![n] = PopMatching(@, p)]
       /\ UNCHANGED <<listed, right, left>>
    \/ /\ port = "right"
       /\ right' = [right EXCEPT ![n] = None]
       /\ UNCHANGED <<main, listed, left>>
    \/ /\ port = "left"
       /\ left' = [left EXCEPT ![n] = IF HasId(Optional(right[n]), p) THEN None ELSE @]
       /\ UNCHANGED <<main, listed, right>>

UnleadAll(p, n) == leads' = [leads EXCEPT ![p] = DropFirst(@, n, Len(@))]

(* delete_lead_to_node *)
Unlead(p, n) == leads' = [leads EXCEPT ![p] = DropFirst(@, n, 1)]

(* delete_connection *)
DeleteConnection(p, n, port) ==
    /\ {p, n} \subseteq Present
    /\ ConnectionExists(p, n, port)
    /\ Unlead(p, n)
    /\ Unplug(p, n, port)
    /\ UNCHANGED <<status, doubled>>

(* The part of leads_to_nodes delete_node gets through before it meets a node     *)
(* whose main_inputs is still None, on which delete_input_node raises.         *)
Visited(n) == {i \in 1 .. Len(leads[n]) : \A j \in 1 .. i : leads[n][j] \in listed}

Raises(n) == Visited(n) # 1 .. Len(leads[n])

(* delete_input_node(n, complete=True), once for each time m is visited; with    *)
(* the default connection type it looks at the main inputs only.               *)
DisconnectDependents(n) ==
    LET times(m) == Cardinality({i \in Visited(n) : leads[n][i] = m})
    IN  main' = [m \in NodeIds |-> PopEvery(main[m], n, 2 ^ times(m))]

(* delete_node raises in the loop over leads_to_nodes and leaves it at that. *)
DeleteNodeRaises(n) ==
    /\ n \in Present
    /\ Raises(n)
    /\ DisconnectDependents(n)
    /\ UNCHANGED <<status, listed, right, left, leads, doubled>>

(* delete_node; delete_lead_to_node is called once for each of n's inputs. *)
DeleteNode(n) ==
    /\ n \in Present
    /\ ~Raises(n)
    /\ DisconnectDependents(n)
    /\ leads' = [p \in NodeIds |-> DropFirst(leads[p], n, Occurrences(AllInputs(n), p))]
    /\ status' = [status EXCEPT ![n] = "deleted"]
    /\ UNCHANGED <<listed, right, left, doubled>>

WiringNext ==
    \E n \in NodeIds :
        \/ AddNode(n) \/ SaveSettings(n) \/ DeleteNodeRaises(n) \/ DeleteNode(n)
        \/ \E p \in NodeIds, port \in Ports[n] : Connect(p, n, port) \/ DeleteConnection(p, n, port)

WiringSpec == WiringInit /\ [][WiringNext]_wiring

-----------------------------------------------------------------------------
WiringTypeOK ==
    /\ status \in [NodeIds -> {"new", "present", "deleted"}]
    /\ main \in [NodeIds -> Seq(NodeIds)]
    /\ listed \in SUBSET NodeIds
    /\ right \in [NodeIds -> NodeIds \cup {None}]
    /\ left \in [NodeIds -> NodeIds \cup {None}]
    /\ leads \in [NodeIds -> Seq(NodeIds)]
    /\ doubled \in BOOLEAN
    /\ \A n \in NodeIds : Len(main[n]) > 1 => n \in Multi

(* "True if connecting from_node -> to_node would introduce a cycle"            *)
(* (_would_create_cycle, at which such a connection is refused): following       *)
(* leads_to_nodes never comes back to where it started.                         *)
NoCycle == Acyclic(PlanGraph)

(* NoCycle, unless an id came back while its old object was still connected:      *)
(* whatever else is connected, replaced, deleted, added again and saved, no cycle *)
(* keeps a node out of the plan, and the recursion of get_all_dependent_nodes ends. *)
LeadsAcyclic == doubled \/ NoCycle

(* Every input of a node knows the node: no connection is missing from the plan.  *)
EveryInputLed ==
    \A n \in Present : \A p \in Range(AllInputs(n)) : n \in Range(leads[p])

(* EveryInputLed, with the same exception. *)
InputsHaveLeads == doubled \/ EveryInputLed

(* "Deletes a node from the graph and updates all its connections" (delete_node): *)
(* no node of the flow keeps an input that is not in the flow.                  *)
InputsArePresent == \A n \in Present : Range(AllInputs(n)) \subseteq Present
=============================================================================
