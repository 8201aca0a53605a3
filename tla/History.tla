------------------------------- MODULE History -------------------------------
(***************************************************************************)
(* Undo and redo of a flow's edits: flowfile_core/flowfile/                 *)
(* history_manager.py, the capture wrappers of flow_graph.py and the editor *)
(* routes and the AI diff that call them.                                   *)
(*                                                                          *)
(* An editor route is a plain function the web server runs in a pool of     *)
(* threads, so requests on one flow may overlap; a request is a sequence of *)
(* steps between which another may act.  A content is a value: what         *)
(* get_flowfile_data serialises and _compute_hash tells apart.  That reading *)
(* may itself raise, and the history manager catches it.                    *)
(***************************************************************************)
EXTENDS Integers, Sequences, SequencesExt

CONSTANTS Contents,     \* whole contents of a flow
          Half,         \* a content in the middle of being rebuilt
          Requests,     \* the requests that may be under way at a time
          MaxStack,     \* HistoryConfig.max_stack_size
          Kinds         \* the kinds of request that are made

AllKinds == {"snapshot", "compare", "nested", "add", "diff", "silent",
             "undo", "redo", "clear", "save"}

ASSUME HistoryAssumption ==
  /\ Half \notin Contents
  /\ MaxStack \in Nat \ {0}
  /\ Kinds \subseteq AllKinds

Anything == Contents \cup {Half}

VARIABLES
  graph,        \* the flow's content
  undoStack,    \* _undo_stack: contents to go back to, the latest last
  redoStack,    \* _redo_stack
  restoring,    \* _is_restoring
  dirty,        \* _dirty: what has_unsaved_changes answers
  track,        \* flow_settings.track_history
  file,         \* the content written by the last save
  req,          \* what each request is at, and what it has read
  overlapped,   \* two requests have been under way at once (history)
  unread        \* a reading of the content has failed, and until now no two
                \* requests have been under way at once (history)

vars == <<graph, undoStack, redoStack, restoring, dirty, track, file, req,
          overlapped, unread>>
stacks == <<undoStack, redoStack>>

\* Where a request stands.  An undo or redo, a diff's rollback included, has
\* taken its entry, and then is rebuilding the flow from it.
Places == {"idle", "capturing", "applying", "changing", "recording",
           "recording again", "rolling back", "taken", "rebuilding", "saving"}

Idle == [at |-> "idle", kind |-> "none", pre |-> Half, way |-> "none",
         entry |-> Half, now |-> Half, prior |-> TRUE]

TypeOK ==
  /\ graph \in Anything /\ file \in Anything
  /\ \A s \in {undoStack, redoStack} :
       s \in Seq(Anything) /\ Len(s) <= MaxStack
  /\ {restoring, dirty, track, overlapped, unread} \subseteq BOOLEAN
  /\ req \in [Requests -> [at: Places, kind: AllKinds \cup {"none"},
                           pre: Anything, way: {"undo", "redo", "none"},
                           entry: Anything, now: Anything, prior: BOOLEAN]]

\* A new flow is empty and counts as saved.
Init ==
  /\ graph \in Contents /\ file = graph
  /\ undoStack = <<>> /\ redoStack = <<>>
  /\ restoring = FALSE /\ dirty = FALSE /\ track = TRUE
  /\ req = [r \in Requests |-> Idle]
  /\ overlapped = FALSE /\ unread = FALSE

----------------------------------------------------------------------------
\* A stack without the limit.
PushPastLimit(stack, c) == Append(stack, c)

\* deque(maxlen): the oldest entry goes when there is no room.
Push(stack, c) == IF Len(stack) = MaxStack THEN Append(Tail(stack), c)
                  ELSE Append(stack, c)

Alone(r) == \A q \in Requests \ {r} : req[q].at = "idle"

\* A request of a kind arrives and gets to a place, or is over at once.
Arrives(r, kind) == /\ kind \in Kinds /\ req[r].at = "idle"
                    /\ overlapped' = (overlapped \/ ~Alone(r))
Starts(r, kind, place, read) ==
  /\ Arrives(r, kind)
  /\ req' = [req EXCEPT ![r] = [Idle EXCEPT !.at = place, !.kind = kind,
                                            !.pre = read, !.prior = track]]
AtOnce(r, kind) == Arrives(r, kind) /\ UNCHANGED req

At(r, place) == req[r].at = place
Goes(r, place) == /\ req' = [req EXCEPT ![r].at = place]
                  /\ UNCHANGED overlapped
Ends(r) == /\ req' = [req EXCEPT ![r] = Idle]
           /\ UNCHANGED overlapped

\* A change is recorded and what had been undone stays.
RecordKeepsRedo(c) == /\ undoStack' = Push(undoStack, c)
                      /\ dirty' = TRUE
                      /\ UNCHANGED redoStack

\* A change is recorded: the content before it can be gone back to, and what
\* had been undone is given up.
Record(c) == /\ undoStack' = Push(undoStack, c)
             /\ redoStack' = <<>>
             /\ dirty' = TRUE

----------------------------------------------------------------------------
\* Delete a node or a connection, connect, copy, move, lay out, or apply a
\* diff: the content is read before the change, unless a restore is under way.
SnapshotStart(r, kind) ==
  /\ kind \in {"snapshot", "diff"}
  /\ Starts(r, kind, IF restoring THEN "applying" ELSE "capturing", graph)
  /\ track' = (track /\ ~(kind = "diff" /\ restoring))
  /\ UNCHANGED <<graph, stacks, restoring, dirty, file>>

\* A content that is anywhere in the stack is not captured again.
SnapshotCaptureOnce(r) ==
  /\ At(r, "capturing")
  /\ IF Contains(undoStack, req[r].pre) THEN UNCHANGED <<stacks, dirty>>
     ELSE Record(req[r].pre)
  /\ track' = (track /\ req[r].kind # "diff")
  /\ req' = [req EXCEPT ![r].at = "applying", ![r].prior = track]
  /\ UNCHANGED <<graph, restoring, file, overlapped>>

\* A content that is already on top is not captured again.
SnapshotCapture(r) ==
  /\ At(r, "capturing")
  /\ IF undoStack # <<>> /\ Last(undoStack) = req[r].pre
     THEN UNCHANGED <<stacks, dirty>>
     ELSE Record(req[r].pre)
  /\ track' = (track /\ req[r].kind # "diff")
  /\ req' = [req EXCEPT ![r].at = "applying", ![r].prior = track]
  /\ UNCHANGED <<graph, restoring, file, overlapped>>

\* The change; one that is refused leaves the content as it was.
SnapshotApply(r) ==
  /\ At(r, "applying") /\ req[r].kind = "snapshot"
  /\ graph' \in Contents \cup {graph}
  /\ Ends(r)
  /\ UNCHANGED <<stacks, restoring, dirty, track, file>>

\* A diff's operations, with the recording of each one switched off; then the
\* switch is put back.
DiffApply(r) ==
  /\ At(r, "applying") /\ req[r].kind = "diff"
  /\ graph' \in Contents \cup {graph}
  /\ \/ Ends(r) /\ track' = req[r].prior
     \/ Goes(r, "rolling back") /\ UNCHANGED track
  /\ UNCHANGED <<stacks, restoring, dirty, file>>

----------------------------------------------------------------------------
\* Settings of a node, a group, a new promise: the content is read before and
\* after.  A node analysis records its own change inside another one's.
CompareStart(r, kind) ==
  /\ kind \in {"compare", "nested"}
  /\ Starts(r, kind, IF track THEN "changing" ELSE "applying", graph)
  /\ UNCHANGED <<graph, stacks, restoring, dirty, track, file>>

\* add_node deletes the node of that number, if any, before it reads the
\* content, and switches recording off while the first settings are made.
AddStart(r) ==
  /\ graph' \in Contents \cup {graph}
  /\ Starts(r, "add", IF track THEN "changing" ELSE "applying", graph')
  /\ track' = FALSE
  /\ UNCHANGED <<stacks, restoring, dirty, file>>

\* The change, or an exception half-way that skips the recording; add_node
\* puts the switch back and looks at it again.
Change(r) ==
  /\ At(r, "changing")
  /\ graph' \in Contents \cup {graph}
  /\ track' = IF req[r].kind = "add" THEN req[r].prior ELSE track
  /\ Goes(r, "recording") \/ Ends(r)
  /\ UNCHANGED <<stacks, restoring, dirty, file>>

UntrackedChange(r) ==
  /\ At(r, "applying") /\ req[r].kind \in {"compare", "nested", "add"}
  /\ graph' \in Contents \cup {graph}
  /\ track' = IF req[r].kind = "add" THEN req[r].prior ELSE track
  /\ Ends(r)
  /\ UNCHANGED <<stacks, restoring, dirty, file>>

\* capture_if_changed, once or, around a nested change, twice.
CompareRecord(r) ==
  /\ At(r, "recording") \/ At(r, "recording again")
  /\ IF ~restoring /\ graph # req[r].pre
        /\ (req[r].kind = "add" => track)
     THEN Record(req[r].pre)
     ELSE UNCHANGED <<stacks, dirty>>
  /\ IF req[r].kind = "nested" /\ At(r, "recording")
     THEN Goes(r, "recording again") ELSE Ends(r)
  /\ UNCHANGED <<graph, restoring, track, file>>

\* Positions saved without a record, flow settings, a node's reference.
SilentChange(r) ==
  /\ AtOnce(r, "silent")
  /\ graph' \in Contents \cup {graph}
  /\ UNCHANGED <<stacks, restoring, dirty, track, file>>

----------------------------------------------------------------------------
\* Undo and redo: take the top entry of one stack, ...
TakeEntry(r, way) ==
  /\ restoring' = TRUE
  /\ IF way = "undo"
     THEN undoStack' = Front(undoStack) /\ UNCHANGED redoStack
     ELSE redoStack' = Front(redoStack) /\ UNCHANGED undoStack
  /\ UNCHANGED <<graph, dirty, track, file>>

EntryOf(way) == Last(IF way = "undo" THEN undoStack ELSE redoStack)
HasEntry(way) == (IF way = "undo" THEN undoStack ELSE redoStack) # <<>>

UndoRedoStart(r, way) ==
  /\ way \in {"undo", "redo"} /\ HasEntry(way)
  /\ Arrives(r, way)
  /\ req' = [req EXCEPT ![r] = [Idle EXCEPT !.at = "taken", !.kind = way,
                                 !.way = way, !.entry = EntryOf(way)]]
  /\ TakeEntry(r, way)

\* A diff that failed undoes what is then the last change.
RollBack(r) ==
  /\ At(r, "rolling back")
  /\ \/ /\ HasEntry("undo")
        /\ req' = [req EXCEPT ![r].at = "taken", ![r].way = "undo",
                              ![r].entry = EntryOf("undo")]
        /\ TakeEntry(r, "undo")
        /\ UNCHANGED overlapped
     \/ /\ ~HasEntry("undo")
        /\ Ends(r)
        /\ track' = req[r].prior
        /\ UNCHANGED <<graph, stacks, restoring, dirty, file>>

\* ... put the present content on the other one, and clear the flow; the
\* settings that come with the entry have recording switched on.  An entry
\* that no longer validates raises before anything is cleared.
After(r) == IF req[r].kind = "diff" THEN req[r].prior ELSE track

Stash(r) ==
  /\ At(r, "taken")
  /\ IF req[r].way = "undo"
     THEN redoStack' = Push(redoStack, graph) /\ UNCHANGED undoStack
     ELSE undoStack' = Push(undoStack, graph) /\ UNCHANGED redoStack
  /\ \/ /\ graph' = Half /\ track' = TRUE
        /\ req' = [req EXCEPT ![r].at = "rebuilding", ![r].now = graph]
        /\ UNCHANGED <<restoring, overlapped>>
     \/ /\ restoring' = FALSE /\ track' = After(r)
        /\ Ends(r)
        /\ UNCHANGED graph
  /\ UNCHANGED <<dirty, file>>

\* The flag goes down only after a restore that succeeded.
RebuildNoFinally(r) ==
  /\ At(r, "rebuilding")
  /\ graph' \in {req[r].entry, Half}
  /\ restoring' = (restoring /\ graph' = Half)
  /\ track' = After(r)
  /\ Ends(r)
  /\ UNCHANGED <<stacks, dirty, file>>

\* Rebuild the flow through the same operations that record changes, which
\* keep quiet while the flag is up; one that raises leaves what there is.
Rebuild(r) ==
  /\ At(r, "rebuilding")
  /\ graph' \in {req[r].entry, Half}
  /\ IF restoring \/ ~track \/ graph' = graph
     THEN UNCHANGED <<stacks, dirty>>
     ELSE Record(graph)
  /\ restoring' = FALSE /\ track' = After(r)
  /\ Ends(r)
  /\ UNCHANGED file

----------------------------------------------------------------------------
Clear(r) ==
  /\ AtOnce(r, "clear")
  /\ undoStack' = <<>> /\ redoStack' = <<>>
  /\ UNCHANGED <<graph, restoring, dirty, track, file>>

\* The file is written first, then the content counts as saved.
SaveWrite(r) ==
  /\ Starts(r, "save", "saving", graph)
  /\ file' = graph
  /\ UNCHANGED <<graph, stacks, restoring, dirty, track>>

SaveMark(r) ==
  /\ At(r, "saving")
  /\ dirty' = FALSE
  /\ Ends(r)
  /\ UNCHANGED <<graph, stacks, restoring, track, file>>

----------------------------------------------------------------------------
\* The content cannot be read: the exception is caught and logged.  An edit
\* that is recorded beforehand goes through without its record, ...
CaptureFails(r) ==
  /\ At(r, "capturing")
  /\ track' = (track /\ req[r].kind # "diff")
  /\ req' = [req EXCEPT ![r].at = "applying", ![r].prior = track]
  /\ UNCHANGED <<graph, stacks, restoring, dirty, file, overlapped>>

\* ... one that is recorded afterwards has gone through without it, ...
RecordFails(r) ==
  /\ At(r, "recording") \/ At(r, "recording again")
  /\ ~restoring /\ (req[r].kind = "add" => track)
  /\ IF req[r].kind = "nested" /\ At(r, "recording")
     THEN Goes(r, "recording again") ELSE Ends(r)
  /\ UNCHANGED <<graph, stacks, restoring, dirty, track, file>>

\* ... an undo or redo loses the entry it took, and nothing is put away, ...
StashFails(r) ==
  /\ At(r, "taken")
  /\ restoring' = FALSE /\ track' = After(r)
  /\ Ends(r)
  /\ UNCHANGED <<graph, stacks, dirty, file>>

\* ... and what a save has written does not count as saved.
MarkFails(r) ==
  /\ At(r, "saving")
  /\ Ends(r)
  /\ UNCHANGED <<graph, stacks, restoring, dirty, track, file>>

FailsToRead(r) == CaptureFails(r) \/ RecordFails(r) \/ StashFails(r) \/ MarkFails(r)

----------------------------------------------------------------------------
Moves(r) ==
  \/ \E kind \in AllKinds : SnapshotStart(r, kind) \/ CompareStart(r, kind)
  \/ SnapshotCapture(r) \/ SnapshotApply(r) \/ DiffApply(r)
  \/ AddStart(r) \/ Change(r) \/ UntrackedChange(r) \/ CompareRecord(r)
  \/ SilentChange(r)
  \/ \E way \in {"undo", "redo"} : UndoRedoStart(r, way)
  \/ RollBack(r) \/ Stash(r) \/ Rebuild(r)
  \/ Clear(r) \/ SaveWrite(r) \/ SaveMark(r)

Steps(r) == \/ Moves(r) /\ unread' = (unread /\ ~overlapped')
            \/ FailsToRead(r) /\ unread' = ~overlapped'

Next == \E r \in Requests : Steps(r)

Spec == Init /\ [][Next]_vars

----------------------------------------------------------------------------
Quiet == \A r \in Requests : req[r].at = "idle"

\* Once no request is under way the flow records its next edit: the flag that
\* silences the recording during a restore is down, whatever overlapped and
\* whatever raised, a failed reading included, and the switch that a diff or add_node turned off is on
\* again, unless requests overlapped.
QuietFlowRecords == Quiet => ~restoring /\ (overlapped \/ track)

\* The stacks read as one line: what is behind, the content, what is ahead.
\* An undo, a redo or a compared edit under way shows as not yet begun.
Active == {r \in Requests : req[r].at \in
             {"changing", "recording", "recording again", "taken", "rebuilding"}}

TheLine ==
  IF Active = {} THEN [past |-> undoStack, now |-> graph,
                       ahead |-> Reverse(redoStack)]
  ELSE LET q == req[CHOOSE r \in Active : TRUE]
           rest == q.at = "rebuilding"
       IN CASE q.way = "none" -> [past |-> undoStack, now |-> q.pre,
                                  ahead |-> Reverse(redoStack)]
            [] q.way = "undo" ->
                 [past |-> Append(undoStack, q.entry),
                  now |-> IF rest THEN q.now ELSE graph,
                  ahead |-> Reverse(IF rest THEN Front(redoStack)
                                    ELSE redoStack)]
            [] q.way = "redo" ->
                 [past |-> IF rest THEN Front(undoStack) ELSE undoStack,
                  now |-> IF rest THEN q.now ELSE graph,
                  ahead |-> <<q.entry>> \o Reverse(redoStack)]

theTimeline == TheLine.past \o <<TheLine.now>> \o TheLine.ahead
theCursor == Len(TheLine.past) + 1

Line == INSTANCE UndoTimeline WITH
          Contents <- Anything, Broken <- Half, Limit <- MaxStack,
          timeline <- theTimeline, cursor <- theCursor

\* As long as requests do not overlap and every reading of the content
\* succeeds, undo and redo implement a cursor on one line of contents: no entry
\* is lost at the stacks' limit, put back in another order, or left ahead of a
\* recorded edit.
Regular == ~overlapped /\ ~unread

OneTimeline == [][Regular' => Line!Next]_<<theTimeline, theCursor>>

\* An edit that has gone through can be undone: the content before it is on
\* top, one entry for a whole diff; and a diff that failed leaves the content
\* that was there before it, unless the rebuilding itself fails.  A reading that
\* failed is excepted: the history manager logs it and the edit is not in the
\* stack, so that a diff's rollback takes the entry of the edit before.
Finishes(r, place) == req[r].at = place /\ req'[r].at = "idle"

UndoGivesBack ==
  [][\A r \in Requests : Regular' =>
       /\ (\/ Finishes(r, "recording") \/ Finishes(r, "recording again")
           \/ Finishes(r, "applying") /\ req[r].kind \in {"snapshot", "diff"})
          => \/ graph' = req[r].pre
             \/ undoStack' # <<>> /\ Last(undoStack') = req[r].pre
       /\ (Finishes(r, "rebuilding") /\ req[r].kind = "diff" /\ graph' # Half)
          => graph' = req[r].pre]_vars

\* A flow whose content is not the one in the file counts as unsaved:
\* flow_graph.py, "Return True if the flow has changed since the last save
\* point".
ChangeIsUnsaved == Quiet /\ ~overlapped /\ graph # file => dirty
=============================================================================
