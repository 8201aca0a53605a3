---------------------------- MODULE HistoryProofs ----------------------------
(***************************************************************************)
(* Theorems about History for every set of contents and requests and every *)
(* size of the stacks: once no request is under way the flow records its   *)
(* next edit, and as long as requests do not overlap and no reading of the *)
(* content fails, an edit that has gone through can be undone, a diff that *)
(* failed is rolled back, and the two stacks and the content are one line  *)
(* that undo and redo only walk along. The flag and the switch that        *)
(* silence the recording are each accounted for by the request that will   *)
(* put them back, what a request has read stays true of the stacks because *)
(* no other one acts meanwhile, and a stack has room for what an undo or   *)
(* redo puts away because it took an entry first.                          *)
(***************************************************************************)
EXTENDS History, SequenceTheorems, TLAPS

-----------------------------------------------------------------------------
(* Types. *)

Request == [at: Places, kind: AllKinds \cup {"none"}, pre: Anything,
            way: {"undo", "redo", "none"}, entry: Anything, now: Anything,
            prior: BOOLEAN]

Stack == {s \in Seq(Anything) : Len(s) <= MaxStack}

Typed == /\ graph \in Anything /\ file \in Anything
         /\ undoStack \in Stack /\ redoStack \in Stack
         /\ restoring \in BOOLEAN /\ dirty \in BOOLEAN
         /\ track \in BOOLEAN /\ overlapped \in BOOLEAN /\ unread \in BOOLEAN
         /\ req \in [Requests -> Request]

LEMMA TypedIsTypeOK == Typed <=> TypeOK
BY DEF Typed, TypeOK, Stack, Request

(* What Push and Front return. *)
LEMMA PushType ==
  ASSUME NEW s \in Stack, NEW c \in Anything
  PROVE /\ Push(s, c) \in Stack
        /\ Push(s, c) # <<>>
        /\ Last(Push(s, c)) = c
<1> USE HistoryAssumption DEF Stack
<1>1. CASE Len(s) = MaxStack
  <2>1. s # <<>> /\ s \in Seq(Anything)
    BY <1>1, EmptySeq
  <2>2. Tail(s) \in Seq(Anything) /\ Len(Tail(s)) = Len(s) - 1
    BY <2>1, HeadTailProperties
  <2>3. /\ Append(Tail(s), c) \in Seq(Anything)
        /\ Len(Append(Tail(s), c)) = Len(s)
        /\ Append(Tail(s), c)[Len(s)] = c
    BY <2>2, AppendProperties, LenProperties
  <2> QED BY <1>1, <2>3, EmptySeq DEF Push, Last
<1>2. CASE Len(s) # MaxStack
  <2>1. /\ Append(s, c) \in Seq(Anything)
        /\ Len(Append(s, c)) = Len(s) + 1
        /\ Append(s, c)[Len(s) + 1] = c
    BY AppendProperties
  <2>2. Len(s) \in Nat
    BY LenProperties
  <2> QED BY <1>2, <2>1, <2>2, EmptySeq DEF Push, Last
<1> QED BY <1>1, <1>2

LEMMA FrontType ==
  ASSUME NEW s \in Stack, s # <<>>
  PROVE Front(s) \in Stack /\ Last(s) \in Anything
<1>1. s \in Seq(Anything) /\ Len(s) \in Nat /\ Len(s) <= MaxStack /\ Len(s) > 0
  BY EmptySeq, LenProperties DEF Stack
<1>2. Last(s) \in Anything
  BY <1>1, ElementOfSeq DEF Last
<1>3. \A i \in 1 .. Len(s) - 1 : s[i] \in Anything
  BY <1>1, ElementOfSeq
<1>4. 1 \in Int /\ Len(s) - 1 \in Int
  BY <1>1
<1>5. SubSeq(s, 1, Len(s) - 1) \in Seq(Anything)
  BY <1>3, <1>4, SubSeqProperties
<1>6. Len(SubSeq(s, 1, Len(s) - 1))
        = IF 1 <= Len(s) - 1 THEN (Len(s) - 1) - 1 + 1 ELSE 0
  BY <1>3, <1>4, SubSeqProperties
<1>7. Len(SubSeq(s, 1, Len(s) - 1)) <= MaxStack
  <2>1. MaxStack \in Nat
    BY HistoryAssumption
  <2> QED BY <1>1, <1>6, <2>1
<1> QED BY <1>2, <1>5, <1>7 DEF Stack, Front

LEMMA EmptyType == <<>> \in Stack
BY EmptySeq, HistoryAssumption DEF Stack

LEMMA RecordType ==
  ASSUME Typed, NEW c \in Anything, Record(c)
  PROVE /\ undoStack' \in Stack /\ redoStack' \in Stack /\ dirty' \in BOOLEAN
        /\ undoStack' # <<>> /\ Last(undoStack') = c
BY EmptyType, PushType DEF Record, Typed

LEMMA IdleType == /\ Idle \in Request /\ Idle.at = "idle"
                  /\ Half \in Anything
BY DEF Idle, Request, Places, Anything

LEMMA KnownPlaces ==
  /\ "idle" \in Places /\ "capturing" \in Places /\ "applying" \in Places
  /\ "changing" \in Places /\ "recording" \in Places
  /\ "recording again" \in Places /\ "rolling back" \in Places
  /\ "taken" \in Places /\ "rebuilding" \in Places /\ "saving" \in Places
BY DEF Places

LEMMA PartsType ==
  ASSUME Typed, NEW r \in Requests
  PROVE req[r].pre \in Anything /\ req[r].entry \in Anything
        /\ req[r].now \in Anything /\ req[r].prior \in BOOLEAN
BY DEF Typed, Request

(* A request that starts, and one that has moved, are requests. *)
LEMMA StartType ==
  ASSUME Typed, NEW r \in Requests, NEW kind \in AllKinds,
         NEW place \in Places, NEW read \in Anything, Starts(r, kind, place, read)
  PROVE req' \in [Requests -> Request] /\ overlapped' \in BOOLEAN
<1>1. [Idle EXCEPT !.at = place, !.kind = kind, !.pre = read, !.prior = track]
        \in Request
  BY IdleType DEF Request, Typed
<1> QED BY <1>1 DEF Starts, Arrives, Typed

LEMMA GoesType ==
  ASSUME Typed, NEW r \in Requests, NEW place \in Places, Goes(r, place)
  PROVE req' \in [Requests -> Request] /\ overlapped' \in BOOLEAN
<1>1. req[r] \in Request
  BY DEF Typed
<1>2. [req[r] EXCEPT !.at = place] \in Request
  BY <1>1 DEF Request
<1> QED BY <1>2 DEF Typed, Goes

LEMMA EndsType ==
  ASSUME Typed, NEW r \in Requests, Ends(r)
  PROVE req' \in [Requests -> Request] /\ overlapped' \in BOOLEAN
BY IdleType DEF Typed, Ends

LEMMA MovedType ==
  ASSUME Typed, NEW r \in Requests, NEW entry \in Anything
  PROVE /\ [req EXCEPT ![r].at = "taken", ![r].way = "undo",
                       ![r].entry = entry] \in [Requests -> Request]
        /\ [req EXCEPT ![r].at = "rebuilding", ![r].now = entry]
             \in [Requests -> Request]
        /\ [req EXCEPT ![r].at = "applying", ![r].prior = track]
             \in [Requests -> Request]
<1>1. req[r] \in Request /\ track \in BOOLEAN
  BY DEF Typed
<1>2. /\ [req[r] EXCEPT !.at = "taken", !.way = "undo", !.entry = entry]
           \in Request
      /\ [req[r] EXCEPT !.at = "rebuilding", !.now = entry] \in Request
      /\ [req[r] EXCEPT !.at = "applying", !.prior = track] \in Request
  BY <1>1, KnownPlaces DEF Request
<1> QED BY <1>2 DEF Typed

(* The changed content is a content. *)
LEMMA ChangeType ==
  ASSUME Typed, graph' \in Contents \cup {graph}
  PROVE graph' \in Anything
BY DEF Typed, Anything

(* Every step keeps the types; what it does to unread is the same for all. *)
LEMMA MovesTyped ==
  ASSUME Typed, NEW r \in Requests, Moves(r), unread' \in BOOLEAN
  PROVE Typed'
<1>1. ASSUME NEW kind \in AllKinds, SnapshotStart(r, kind) PROVE Typed'
  BY <1>1, StartType, KnownPlaces DEF Typed, SnapshotStart, stacks
<1>2. ASSUME SnapshotCapture(r) PROVE Typed'
  BY <1>2, RecordType, PartsType, MovedType DEF Typed, SnapshotCapture, stacks
<1>3. ASSUME SnapshotApply(r) PROVE Typed'
  BY <1>3, EndsType, ChangeType DEF Typed, SnapshotApply, stacks
<1>4. ASSUME DiffApply(r) PROVE Typed'
  BY <1>4, EndsType, GoesType, KnownPlaces, PartsType, ChangeType
     DEF Typed, DiffApply, stacks
<1>5. ASSUME NEW kind \in AllKinds, CompareStart(r, kind) PROVE Typed'
  BY <1>5, StartType, KnownPlaces DEF Typed, CompareStart, stacks
<1>6. ASSUME AddStart(r) PROVE Typed'
  <2>1. graph' \in Anything
    BY <1>6, ChangeType DEF AddStart
  <2>2. "add" \in AllKinds
    BY DEF AllKinds
  <2> QED BY <1>6, <2>1, <2>2, StartType, KnownPlaces DEF Typed, AddStart, stacks
<1>7. ASSUME Change(r) PROVE Typed'
  BY <1>7, EndsType, GoesType, KnownPlaces, PartsType, ChangeType
     DEF Typed, Change, stacks
<1>8. ASSUME UntrackedChange(r) PROVE Typed'
  BY <1>8, EndsType, PartsType, ChangeType DEF Typed, UntrackedChange, stacks
<1>9. ASSUME CompareRecord(r) PROVE Typed'
  <2>1. req' \in [Requests -> Request] /\ overlapped' \in BOOLEAN
    BY <1>9, EndsType, GoesType, KnownPlaces DEF CompareRecord
  <2> QED BY <1>9, <2>1, RecordType, PartsType DEF Typed, CompareRecord, stacks
<1>10. ASSUME SilentChange(r) PROVE Typed'
  BY <1>10, ChangeType DEF Typed, SilentChange, AtOnce, Arrives, stacks
<1>11. ASSUME NEW way, UndoRedoStart(r, way) PROVE Typed'
  <2>1. way \in {"undo", "redo"} /\ HasEntry(way)
    BY <1>11 DEF UndoRedoStart
  <2>2. EntryOf(way) \in Anything
    BY <2>1, FrontType DEF EntryOf, HasEntry, Typed
  <2>3. [Idle EXCEPT !.at = "taken", !.kind = way, !.way = way,
                     !.entry = EntryOf(way)] \in Request
    BY <2>1, <2>2, IdleType, KnownPlaces DEF Request, AllKinds
  <2> QED BY <1>11, <2>1, <2>3, FrontType
          DEF Typed, UndoRedoStart, TakeEntry, HasEntry, Arrives
<1>12. ASSUME RollBack(r) PROVE Typed'
  <2>1. CASE HasEntry("undo")
    <3>1. EntryOf("undo") \in Anything /\ Front(undoStack) \in Stack
      BY <2>1, FrontType DEF EntryOf, HasEntry, Typed
    <3>2. req' = [req EXCEPT ![r].at = "taken", ![r].way = "undo",
                             ![r].entry = EntryOf("undo")]
          /\ TakeEntry(r, "undo") /\ UNCHANGED overlapped
      BY <1>12, <2>1 DEF RollBack
    <3>3. req' \in [Requests -> Request]
      BY <3>1, <3>2, MovedType
    <3> QED BY <3>1, <3>2, <3>3 DEF Typed, TakeEntry
  <2>2. CASE ~HasEntry("undo")
    BY <1>12, <2>2, EndsType, PartsType DEF Typed, RollBack, stacks
  <2> QED BY <2>1, <2>2
<1>13. ASSUME Stash(r) PROVE Typed'
  <2>1. undoStack' \in Stack /\ redoStack' \in Stack
    BY <1>13, PushType DEF Typed, Stash
  <2>2. req' \in [Requests -> Request] /\ overlapped' \in BOOLEAN
    <3>1. CASE Ends(r)
      BY <3>1, EndsType
    <3>2. CASE /\ req' = [req EXCEPT ![r].at = "rebuilding", ![r].now = graph]
               /\ UNCHANGED overlapped
      <4>1. graph \in Anything
        BY DEF Typed
      <4> QED BY <3>2, <4>1, MovedType DEF Typed
    <3> QED BY <1>13, <3>1, <3>2 DEF Stash
  <2> QED BY <1>13, <2>1, <2>2, PartsType, IdleType DEF Typed, Stash, After
<1>14. ASSUME Rebuild(r) PROVE Typed'
  <2>1. undoStack' \in Stack /\ redoStack' \in Stack /\ dirty' \in BOOLEAN
    BY <1>14, RecordType DEF Typed, Rebuild, stacks
  <2> QED BY <1>14, <2>1, EndsType, PartsType, IdleType DEF Typed, Rebuild, After
<1>15. ASSUME Clear(r) PROVE Typed'
  BY <1>15, EmptyType DEF Typed, Clear, AtOnce, Arrives
<1>16. ASSUME SaveWrite(r) PROVE Typed'
  <2>1. "save" \in AllKinds
    BY DEF AllKinds
  <2> QED BY <1>16, <2>1, StartType, KnownPlaces DEF Typed, SaveWrite, stacks
<1>17. ASSUME SaveMark(r) PROVE Typed'
  BY <1>17, EndsType DEF Typed, SaveMark, stacks
<1> QED BY <1>1, <1>2, <1>3, <1>4, <1>5, <1>6, <1>7, <1>8, <1>9, <1>10,
           <1>11, <1>12, <1>13, <1>14, <1>15, <1>16, <1>17 DEF Moves

LEMMA FailsTyped ==
  ASSUME Typed, NEW r \in Requests, FailsToRead(r), unread' \in BOOLEAN
  PROVE Typed'
<1>1. ASSUME CaptureFails(r) PROVE Typed'
  BY <1>1, PartsType, MovedType DEF Typed, CaptureFails, stacks
<1>2. ASSUME RecordFails(r) PROVE Typed'
  <2>1. req' \in [Requests -> Request] /\ overlapped' \in BOOLEAN
    BY <1>2, EndsType, GoesType, KnownPlaces DEF RecordFails
  <2> QED BY <1>2, <2>1 DEF Typed, RecordFails, stacks
<1>3. ASSUME StashFails(r) PROVE Typed'
  BY <1>3, EndsType, PartsType DEF Typed, StashFails, After, stacks
<1>4. ASSUME MarkFails(r) PROVE Typed'
  BY <1>4, EndsType DEF Typed, MarkFails, stacks
<1> QED BY <1>1, <1>2, <1>3, <1>4 DEF FailsToRead

LEMMA StepsTyped ==
  ASSUME Typed, NEW r \in Requests, Steps(r)
  PROVE Typed'
<1>1. unread' \in BOOLEAN /\ (Moves(r) \/ FailsToRead(r))
  BY DEF Steps, Typed
<1> QED BY <1>1, MovesTyped, FailsTyped

LEMMA InitTyped == Init => Typed
BY IdleType, EmptyType DEF Init, Typed, Anything

(* TypeOK holds throughout: no stack outgrows its limit and no request gets     *)
(* to a place the code does not have.                                          *)
THEOREM TypeCorrect == Spec => []TypeOK
<1>1. Typed /\ [Next]_vars => Typed'
  <2> SUFFICES ASSUME Typed, [Next]_vars PROVE Typed'
    OBVIOUS
  <2>1. CASE Next
    BY <2>1, StepsTyped DEF Next
  <2>2. CASE UNCHANGED vars
    BY <2>2 DEF Typed, vars
  <2> QED BY <2>1, <2>2
<1> QED BY InitTyped, <1>1, TypedIsTypeOK, PTL DEF Spec

-----------------------------------------------------------------------------
(* The invariant.  The restoring flag is held up by a request that will let     *)
(* it down, and while requests do not overlap, the recording switch is held     *)
(* off by the one request there is, which knows that it was on; and if every    *)
(* reading succeeded, what that request has read is still on top of the stack   *)
(* or is the entry it took.                                                     *)

Restores(r) == req[r].at \in {"taken", "rebuilding"}

Silences(r) ==
  \/ /\ req[r].kind = "diff"
     /\ req[r].at \in {"applying", "rolling back", "taken", "rebuilding"}
  \/ req[r].kind = "add" /\ req[r].at \in {"applying", "changing"}

PriorOn(r) == (req[r].kind \in {"diff", "add"} /\ req[r].at # "idle") => req[r].prior

PreOnTop(r) ==
  ((req[r].at = "applying" /\ req[r].kind \in {"snapshot", "diff"})
    \/ req[r].at = "rolling back")
  => undoStack # <<>> /\ Last(undoStack) = req[r].pre

EntryIsPre(r) == (Restores(r) /\ req[r].kind = "diff") => req[r].entry = req[r].pre

(* What the one request under way is owed by the stacks and the switch. *)
Local(r) == /\ PriorOn(r)
            /\ unread \/ (PreOnTop(r) /\ EntryIsPre(r))
            /\ track \/ Silences(r)

FlagIsHeld == restoring => \E r \in Requests : Restores(r)

DiffsRollBack == \A r \in Requests : req[r].at = "rolling back" => req[r].kind = "diff"

Serial ==
  ~overlapped =>
    /\ \A r, q \in Requests : req[r].at # "idle" /\ req[q].at # "idle" => r = q
    /\ \A r \in Requests : PriorOn(r)
    /\ unread \/ \A r \in Requests : PreOnTop(r) /\ EntryIsPre(r)
    /\ track \/ \E r \in Requests : Silences(r)

IInv == Typed /\ FlagIsHeld /\ DiffsRollBack /\ Serial

(* A step of a request leaves the others where they are. *)
LEMMA OnlyOneMoves ==
  ASSUME Typed, NEW r \in Requests, Steps(r), NEW q \in Requests, q # r
  PROVE req'[q] = req[q]
<1>1. ASSUME NEW kind, NEW place, NEW read, Starts(r, kind, place, read)
      PROVE req'[q] = req[q]
  BY <1>1 DEF Typed, Starts
<1>2. ASSUME NEW place, Goes(r, place) PROVE req'[q] = req[q]
  BY <1>2 DEF Typed, Goes
<1>3. ASSUME Ends(r) PROVE req'[q] = req[q]
  BY <1>3 DEF Typed, Ends
<1>4. ASSUME NEW kind, AtOnce(r, kind) PROVE req'[q] = req[q]
  BY <1>4 DEF AtOnce
<1>5. CASE SnapshotCapture(r)
  BY <1>5 DEF Typed, SnapshotCapture
<1>6. ASSUME NEW way, UndoRedoStart(r, way) PROVE req'[q] = req[q]
  BY <1>6 DEF Typed, UndoRedoStart
<1>7. CASE RollBack(r)
  BY <1>3, <1>7 DEF Typed, RollBack
<1>8. CASE Stash(r)
  BY <1>3, <1>8 DEF Typed, Stash
<1>9. CASE \/ SnapshotApply(r) \/ DiffApply(r) \/ AddStart(r) \/ Change(r)
           \/ UntrackedChange(r) \/ CompareRecord(r) \/ SilentChange(r)
           \/ Rebuild(r) \/ Clear(r) \/ SaveWrite(r) \/ SaveMark(r)
  BY <1>1, <1>2, <1>3, <1>4, <1>9
     DEF SnapshotApply, DiffApply, AddStart, Change, UntrackedChange,
         CompareRecord, SilentChange, Rebuild, Clear, SaveWrite, SaveMark
<1>10. ASSUME NEW kind, SnapshotStart(r, kind) \/ CompareStart(r, kind)
       PROVE req'[q] = req[q]
  BY <1>1, <1>10 DEF SnapshotStart, CompareStart
<1>11. CASE FailsToRead(r)
  <2>1. CASE CaptureFails(r)
    BY <2>1 DEF Typed, CaptureFails
  <2>2. CASE RecordFails(r) \/ StashFails(r) \/ MarkFails(r)
    BY <1>2, <1>3, <2>2 DEF RecordFails, StashFails, MarkFails
  <2> QED BY <1>11, <2>1, <2>2 DEF FailsToRead
<1> QED BY <1>5, <1>6, <1>7, <1>8, <1>9, <1>10, <1>11 DEF Steps, Moves

(* A request that moves was under way, or has just started. *)
LEMMA OverlapIsSeen ==
  ASSUME Typed, NEW r \in Requests, Steps(r), ~overlapped'
  PROVE /\ ~overlapped /\ (req[r].at # "idle" \/ Alone(r))
        /\ unread => unread'
<1>0. unread => unread'
  BY DEF Steps
<1> DEFINE Seen == ~overlapped /\ (req[r].at # "idle" \/ Alone(r))
<1> SUFFICES Seen
  BY <1>0
<1>1. ASSUME NEW kind, Arrives(r, kind) PROVE ~overlapped /\ Alone(r)
  BY <1>1 DEF Arrives, Typed
<1>2. ASSUME UNCHANGED overlapped PROVE ~overlapped
  BY <1>2
<1>3. ASSUME NEW place, Goes(r, place) PROVE ~overlapped
  BY <1>3 DEF Goes
<1>4. ASSUME Ends(r) PROVE ~overlapped
  BY <1>4 DEF Ends
<1>5. CASE \/ SnapshotCapture(r) \/ SnapshotApply(r) \/ DiffApply(r) \/ Change(r)
           \/ UntrackedChange(r)
  BY <1>2, <1>3, <1>4, <1>5 DEF SnapshotCapture, SnapshotApply, DiffApply,
     Change, UntrackedChange, At
<1>6. CASE \/ CompareRecord(r) \/ RollBack(r) \/ Stash(r) \/ Rebuild(r)
           \/ SaveMark(r)
  BY <1>2, <1>3, <1>4, <1>6 DEF CompareRecord, RollBack, Stash, Rebuild,
     SaveMark, At
<1>7. CASE AddStart(r) \/ SilentChange(r) \/ Clear(r) \/ SaveWrite(r)
  BY <1>1, <1>7 DEF AddStart, SilentChange, Clear, SaveWrite, Starts, AtOnce
<1>8. ASSUME NEW kind, \/ SnapshotStart(r, kind) \/ CompareStart(r, kind)
                       \/ UndoRedoStart(r, kind)
      PROVE ~overlapped /\ Alone(r)
  BY <1>1, <1>8 DEF SnapshotStart, CompareStart, UndoRedoStart, Starts
<1>9. CASE CaptureFails(r) \/ RecordFails(r) \/ StashFails(r) \/ MarkFails(r)
  BY <1>2, <1>3, <1>4, <1>9 DEF CaptureFails, RecordFails, StashFails, MarkFails, At
<1> QED BY <1>0, <1>5, <1>6, <1>7, <1>8, <1>9 DEF Steps, Moves, FailsToRead

LEMMA SerialStep ==
  ASSUME IInv, NEW r \in Requests, Steps(r), ~overlapped'
  PROVE /\ ~overlapped /\ (unread => unread')
        /\ \A q \in Requests \ {r} : req[q].at = "idle" /\ req'[q] = req[q]
        /\ Local(r)
        /\ restoring => Restores(r)
<1>1. ~overlapped /\ (req[r].at # "idle" \/ Alone(r)) /\ (unread => unread')
  BY OverlapIsSeen DEF IInv
<1>2. \A q \in Requests \ {r} : req[q].at = "idle"
  BY <1>1 DEF IInv, Serial, Alone
<1>3. \A q \in Requests \ {r} : req'[q] = req[q]
  BY OnlyOneMoves DEF IInv
<1>4. Local(r)
  BY <1>1, <1>2 DEF IInv, Serial, Local, Silences
<1>5. restoring => Restores(r)
  BY <1>2 DEF IInv, FlagIsHeld, Restores
<1> QED BY <1>1, <1>2, <1>3, <1>4, <1>5

(* What moves with a request. *)
LEMMA TakenParts ==
  ASSUME Typed, NEW r \in Requests, NEW c,
         req' = [req EXCEPT ![r].at = "taken", ![r].way = "undo", ![r].entry = c]
  PROVE /\ req'[r].at = "taken" /\ req'[r].kind = req[r].kind
        /\ req'[r].pre = req[r].pre /\ req'[r].prior = req[r].prior
        /\ req'[r].entry = c
<1>1. req[r] \in Request
  BY DEF Typed
<1>2. req'[r] = [req[r] EXCEPT !.at = "taken", !.way = "undo", !.entry = c]
  BY DEF Typed
<1> DEFINE fields == {"at", "kind", "pre", "way", "entry", "now", "prior"}
           q == [req[r] EXCEPT !.at = "taken", !.way = "undo"]
<1>3. DOMAIN req[r] = fields
  BY <1>1 DEF Request
<1>4. DOMAIN q = fields
  BY <1>3, Zenon
<1>5. q.at = "taken"
  BY <1>3, Zenon
<1>6. q.kind = req[r].kind
  BY <1>3, Zenon
<1>7. q.pre = req[r].pre
  BY <1>3, Zenon
<1>8. q.prior = req[r].prior
  BY <1>3, Zenon
<1>9. req'[r] = [q EXCEPT !.entry = c]
  BY <1>2, Zenon
<1> HIDE DEF q
<1>10. req'[r].at = "taken"
  BY <1>4, <1>5, <1>9, Zenon
<1>11. req'[r].kind = req[r].kind
  BY <1>4, <1>6, <1>9, Zenon
<1>12. req'[r].pre = req[r].pre
  BY <1>4, <1>7, <1>9, Zenon
<1>13. req'[r].prior = req[r].prior
  BY <1>4, <1>8, <1>9, Zenon
<1>14. req'[r].entry = c
  BY <1>4, <1>9, Zenon
<1> QED BY <1>10, <1>11, <1>12, <1>13, <1>14

LEMMA PlaceParts ==
  ASSUME Typed, NEW r \in Requests, NEW place, req'[r] = [req[r] EXCEPT !.at = place]
  PROVE /\ req'[r].at = place /\ req'[r].kind = req[r].kind
        /\ req'[r].pre = req[r].pre /\ req'[r].prior = req[r].prior
        /\ req'[r].entry = req[r].entry
<1>1. req[r] \in Request
  BY DEF Typed
<1>2. DOMAIN req[r] = {"at", "kind", "pre", "way", "entry", "now", "prior"}
  BY <1>1 DEF Request
<1>3. req'[r].at = place /\ req'[r].kind = req[r].kind
  BY <1>2, Zenon
<1>4. req'[r].pre = req[r].pre /\ req'[r].prior = req[r].prior
  BY <1>2, Zenon
<1>5. req'[r].entry = req[r].entry
  BY <1>2, Zenon
<1> QED BY <1>3, <1>4, <1>5

LEMMA BuildingParts ==
  ASSUME Typed, NEW r \in Requests, NEW c,
         req' = [req EXCEPT ![r].at = "rebuilding", ![r].now = c]
  PROVE /\ req'[r].at = "rebuilding" /\ req'[r].kind = req[r].kind
        /\ req'[r].pre = req[r].pre /\ req'[r].prior = req[r].prior
        /\ req'[r].entry = req[r].entry
<1>1. req[r] \in Request
  BY DEF Typed
<1>2. req'[r] = [req[r] EXCEPT !.at = "rebuilding", !.now = c]
  BY DEF Typed
<1>3. DOMAIN req[r] = {"at", "kind", "pre", "way", "entry", "now", "prior"}
  BY <1>1 DEF Request
<1>4. req'[r].at = "rebuilding"
  BY <1>2, <1>3, Zenon
<1>5. req'[r].kind = req[r].kind
  BY <1>2, <1>3, Zenon
<1>6. req'[r].pre = req[r].pre
  BY <1>2, <1>3, ZenonT(30)
<1>7. req'[r].prior = req[r].prior
  BY <1>2, <1>3, Zenon
<1>8. req'[r].entry = req[r].entry
  BY <1>2, <1>3, Zenon
<1> QED BY <1>4, <1>5, <1>6, <1>7, <1>8

LEMMA NotedParts ==
  ASSUME Typed, NEW r \in Requests,
         req' = [req EXCEPT ![r].at = "applying", ![r].prior = track]
  PROVE /\ req'[r].at = "applying" /\ req'[r].kind = req[r].kind
        /\ req'[r].pre = req[r].pre /\ req'[r].prior = track
        /\ req'[r].entry = req[r].entry
<1>1. req[r] \in Request
  BY DEF Typed
<1>2. req'[r] = [req[r] EXCEPT !.at = "applying", !.prior = track]
  BY DEF Typed
<1>3. DOMAIN req[r] = {"at", "kind", "pre", "way", "entry", "now", "prior"}
  BY <1>1 DEF Request
<1>4. req'[r].at = "applying"
  BY <1>2, <1>3, Zenon
<1>5. req'[r].kind = req[r].kind
  BY <1>2, <1>3, Zenon
<1>6. req'[r].pre = req[r].pre
  BY <1>2, <1>3, ZenonT(30)
<1>7. req'[r].prior = track
  BY <1>2, <1>3, Zenon
<1>8. req'[r].entry = req[r].entry
  BY <1>2, <1>3, Zenon
<1> QED BY <1>4, <1>5, <1>6, <1>7, <1>8

(* What a request is owed is owed to it after its own step. *)
LEMMA LocalStep ==
  ASSUME IInv, NEW r \in Requests, Steps(r), ~overlapped'
  PROVE Local(r)'
<1> USE DEF Local, PriorOn, PreOnTop, EntryIsPre, Silences, Restores
<1>0. /\ Typed /\ Typed' /\ Local(r) /\ (restoring => Restores(r))
      /\ DiffsRollBack /\ (unread => unread')
  BY SerialStep, StepsTyped DEF IInv
<1>e. ASSUME Ends(r) PROVE req'[r] = Idle /\ Idle.at = "idle" /\ Idle.kind = "none"
  BY <1>0, <1>e DEF Typed, Ends, Idle
<1>g. ASSUME NEW place, Goes(r, place)
      PROVE req'[r] = [req[r] EXCEPT !.at = place]
            /\ req'[r].at = place /\ req'[r].kind = req[r].kind
            /\ req'[r].prior = req[r].prior /\ req'[r].pre = req[r].pre
            /\ req'[r].entry = req[r].entry
  <2>1. req'[r] = [req[r] EXCEPT !.at = place]
    BY <1>0, <1>g DEF Typed, Goes
  <2> QED BY <1>0, <2>1, PlaceParts
<1>s. ASSUME NEW kind, NEW place, NEW read, Starts(r, kind, place, read)
      PROVE /\ req'[r].at = place /\ req'[r].kind = kind
            /\ req'[r].prior = track /\ req'[r].pre = read
            /\ req[r].at = "idle"
  BY <1>0, <1>s DEF Typed, Starts, Arrives, Idle
<1>1. ASSUME NEW kind, SnapshotStart(r, kind) PROVE Local(r)'
  <2>1. /\ req'[r].at = (IF restoring THEN "applying" ELSE "capturing")
        /\ req'[r].kind = kind /\ req'[r].prior = track /\ req[r].at = "idle"
        /\ track' = (track /\ ~(kind = "diff" /\ restoring))
    BY <1>1, <1>s DEF SnapshotStart
  <2>2. ~restoring /\ track
    BY <1>0, <2>1
  <2> QED BY <2>1, <2>2
<1>2. ASSUME SnapshotCapture(r) PROVE Local(r)'
  <2>1. /\ req'[r].at = "applying" /\ req'[r].kind = req[r].kind
        /\ req'[r].prior = track /\ req'[r].pre = req[r].pre
    <3>1. req' = [req EXCEPT ![r].at = "applying", ![r].prior = track]
      BY <1>2 DEF SnapshotCapture
    <3> QED BY <1>0, <3>1, NotedParts
  <2>2. track
    BY <1>0, <1>2 DEF SnapshotCapture, At
  <2>3. undoStack' # <<>> /\ Last(undoStack') = req[r].pre
    BY <1>0, <1>2, RecordType, PartsType DEF SnapshotCapture, stacks
  <2> QED BY <1>2, <2>1, <2>2, <2>3 DEF SnapshotCapture
<1>3. ASSUME SnapshotApply(r) PROVE Local(r)'
  BY <1>0, <1>3, <1>e DEF SnapshotApply, At
<1>4. ASSUME DiffApply(r) PROVE Local(r)'
  <2>0. req[r].at = "applying" /\ req[r].kind = "diff" /\ undoStack' = undoStack
    BY <1>4 DEF DiffApply, At, stacks
  <2>1. CASE Ends(r)
    <3>1. track' = req[r].prior
      BY <1>0, <1>4, <1>e, <1>g, <2>0, <2>1 DEF DiffApply
    <3> QED BY <1>0, <2>0, <2>1, <3>1, <1>e
  <2>2. CASE ~Ends(r)
    <3>1. Goes(r, "rolling back")
      BY <1>4, <2>2 DEF DiffApply
    <3>2. /\ req'[r].at = "rolling back" /\ req'[r].kind = req[r].kind
          /\ req'[r].prior = req[r].prior /\ req'[r].pre = req[r].pre
      BY <3>1, <1>g
    <3> QED BY <1>0, <2>0, <3>2
  <2> QED BY <2>1, <2>2
<1>5. ASSUME NEW kind, CompareStart(r, kind) PROVE Local(r)'
  <2>1. /\ req'[r].at = (IF track THEN "changing" ELSE "applying")
        /\ req'[r].kind = kind /\ req[r].at = "idle"
        /\ kind \in {"compare", "nested"} /\ track' = track
    BY <1>5, <1>s DEF CompareStart
  <2> QED BY <1>0, <2>1
<1>6. ASSUME AddStart(r) PROVE Local(r)'
  BY <1>0, <1>6, <1>s DEF AddStart
<1>7. ASSUME Change(r) PROVE Local(r)'
  <2>1. req[r].at = "changing" /\ track'
    BY <1>0, <1>7 DEF Change, At
  <2>2. CASE Ends(r)
    BY <1>e, <2>1, <2>2
  <2>3. CASE Goes(r, "recording")
    <3>1. /\ req'[r].at = "recording" /\ req'[r].kind = req[r].kind
          /\ req'[r].prior = req[r].prior
      BY <2>3, <1>g
    <3> QED BY <1>0, <2>1, <3>1
  <2> QED BY <1>7, <2>2, <2>3 DEF Change
<1>8. ASSUME UntrackedChange(r) PROVE Local(r)'
  BY <1>0, <1>8, <1>e DEF UntrackedChange, At
<1>9. ASSUME CompareRecord(r) PROVE Local(r)'
  <2>1. req[r].at # "idle" /\ ~Silences(r) /\ track /\ track' = track
    BY <1>0, <1>9 DEF CompareRecord, At
  <2>2. CASE Ends(r)
    BY <1>e, <2>1, <2>2
  <2>3. CASE Goes(r, "recording again")
    <3>1. /\ req'[r].at = "recording again" /\ req'[r].kind = req[r].kind
          /\ req'[r].prior = req[r].prior
      BY <2>3, <1>g
    <3> QED BY <1>0, <2>1, <3>1
  <2> QED BY <1>9, <2>2, <2>3 DEF CompareRecord
<1>10. ASSUME SilentChange(r) PROVE Local(r)'
  BY <1>0, <1>10 DEF SilentChange, AtOnce, stacks
<1>11. ASSUME NEW way, UndoRedoStart(r, way) PROVE Local(r)'
  <2>1. way \in {"undo", "redo"} /\ req[r].at = "idle" /\ track' = track
    BY <1>11 DEF UndoRedoStart, Arrives, TakeEntry
  <2>2. req'[r] = [Idle EXCEPT !.at = "taken", !.kind = way, !.way = way, !.entry = EntryOf(way)]
    BY <1>0, <1>11 DEF Typed, UndoRedoStart
  <2>3. req'[r].at = "taken" /\ req'[r].kind = way
    BY <2>2 DEF Idle
  <2> QED BY <1>0, <2>1, <2>3
<1>12. ASSUME RollBack(r) PROVE Local(r)'
  <2>0. req[r].kind = "diff" /\ req[r].at = "rolling back"
    BY <1>0, <1>12 DEF RollBack, At, DiffsRollBack
  <2>1. CASE HasEntry("undo")
    <3>1. /\ req'[r].at = "taken" /\ req'[r].kind = req[r].kind
          /\ req'[r].prior = req[r].prior /\ req'[r].pre = req[r].pre
          /\ req'[r].entry = EntryOf("undo")
      <4>1. req' = [req EXCEPT ![r].at = "taken", ![r].way = "undo",
                               ![r].entry = EntryOf("undo")]
        BY <1>12, <2>1 DEF RollBack
      <4>2. Typed
        BY <1>0
      <4> QED BY ONLY <4>1, <4>2, TakenParts
    <3>2. unread \/ EntryOf("undo") = req[r].pre
      BY <1>0, <2>0 DEF EntryOf
    <3> QED BY <1>0, <2>0, <3>1, <3>2
  <2>2. CASE ~HasEntry("undo")
    <3>1. track'
      BY <1>0, <1>12, <2>0, <2>2 DEF RollBack
    <3>2. Ends(r)
      BY <1>12, <2>2 DEF RollBack
    <3> QED BY <1>e, <3>1, <3>2
  <2> QED BY <2>1, <2>2
<1>13. ASSUME Stash(r) PROVE Local(r)'
  <2>1. CASE Ends(r)
    <3>1. track'
      BY <1>0, <1>13 DEF Stash, After, At
    <3> QED BY <1>e, <2>1, <3>1
  <2>2. CASE ~Ends(r)
    <3>1. track' /\ req' = [req EXCEPT ![r].at = "rebuilding", ![r].now = graph]
      BY <1>13, <2>2 DEF Stash
    <3>2. /\ req'[r].at = "rebuilding" /\ req'[r].kind = req[r].kind
          /\ req'[r].prior = req[r].prior /\ req'[r].pre = req[r].pre
          /\ req'[r].entry = req[r].entry
      BY <1>0, <3>1, BuildingParts
    <3> QED BY <1>0, <1>13, <3>1, <3>2 DEF Stash, At
  <2> QED BY <2>1, <2>2
<1>14. ASSUME Rebuild(r) PROVE Local(r)'
  <2>1. track'
    BY <1>0, <1>14 DEF Rebuild, After, At
  <2> QED BY <1>14, <1>e, <2>1 DEF Rebuild
<1>15. ASSUME Clear(r) PROVE Local(r)'
  BY <1>0, <1>15 DEF Clear, AtOnce, Arrives
<1>16. ASSUME SaveWrite(r) PROVE Local(r)'
  <2>1. /\ req'[r].at = "saving" /\ req'[r].kind = "save"
        /\ req[r].at = "idle" /\ track' = track
    BY <1>16, <1>s DEF SaveWrite
  <2> QED BY <1>0, <2>1
<1>17. ASSUME SaveMark(r) PROVE Local(r)'
  BY <1>0, <1>17, <1>e DEF SaveMark, At
<1>18. ASSUME FailsToRead(r), unread' PROVE Local(r)'
  <2>1. CASE CaptureFails(r)
    <3>1. /\ req'[r].at = "applying" /\ req'[r].kind = req[r].kind
          /\ req'[r].prior = track
      <4>1. req' = [req EXCEPT ![r].at = "applying", ![r].prior = track]
        BY <2>1 DEF CaptureFails
      <4> QED BY <1>0, <4>1, NotedParts
    <3>2. track
      BY <1>0, <2>1 DEF CaptureFails, At
    <3> QED BY <1>18, <2>1, <3>1, <3>2 DEF CaptureFails
  <2>2. CASE RecordFails(r)
    <3>1. req[r].at # "idle" /\ ~Silences(r) /\ track /\ track' = track
      BY <1>0, <2>2 DEF RecordFails, At
    <3>2. CASE Ends(r)
      BY <1>e, <1>18, <3>1, <3>2
    <3>3. CASE Goes(r, "recording again")
      <4>1. /\ req'[r].at = "recording again" /\ req'[r].kind = req[r].kind
            /\ req'[r].prior = req[r].prior
        BY <3>3, <1>g
      <4> QED BY <1>0, <1>18, <3>1, <4>1
    <3> QED BY <2>2, <3>2, <3>3 DEF RecordFails
  <2>3. CASE StashFails(r)
    <3>1. track' /\ Ends(r)
      BY <1>0, <2>3 DEF StashFails, After, At
    <3> QED BY <1>e, <1>18, <3>1
  <2>4. CASE MarkFails(r)
    BY <1>0, <1>18, <1>e, <2>4 DEF MarkFails, At
  <2> QED BY <1>18, <2>1, <2>2, <2>3, <2>4 DEF FailsToRead
<1> QED BY <1>1, <1>2, <1>3, <1>4, <1>5, <1>6, <1>7, <1>8, <1>9, <1>10,
           <1>11, <1>12, <1>13, <1>14, <1>15, <1>16, <1>17, <1>18
        DEF Steps, Moves

(* Where a step leaves its request and the flag. *)
LEMMA PlaceStep ==
  ASSUME Typed, NEW r \in Requests, Steps(r)
  PROVE /\ restoring' => req'[r].at \in {"taken", "rebuilding"}
                         \/ (restoring /\ ~Restores(r))
        /\ req'[r].at = "rolling back" =>
             req'[r].kind = "diff" \/ req'[r] = req[r]
<1> USE DEF Restores
<1>e. ASSUME Ends(r) PROVE req'[r].at = "idle"
  BY <1>e DEF Typed, Ends, Idle
<1>g. ASSUME NEW place, Goes(r, place)
      PROVE req'[r].at = place /\ req'[r].kind = req[r].kind
  BY <1>g DEF Typed, Goes, Request
<1>s. ASSUME NEW kind, NEW place, NEW read, Starts(r, kind, place, read)
      PROVE req'[r].at = place /\ req[r].at = "idle"
  BY <1>s DEF Typed, Starts, Arrives, Idle
<1>1. ASSUME NEW kind, SnapshotStart(r, kind) PROVE req'[r].at # "rolling back"
        /\ (restoring' => restoring) /\ req[r].at = "idle"
  <2>1. req'[r].at = (IF restoring THEN "applying" ELSE "capturing")
        /\ req[r].at = "idle" /\ restoring' = restoring
    BY <1>1, <1>s DEF SnapshotStart
  <2> QED BY <2>1
<1>2. ASSUME NEW kind, CompareStart(r, kind) PROVE req'[r].at # "rolling back"
        /\ (restoring' => restoring) /\ req[r].at = "idle"
  <2>1. req'[r].at = (IF track THEN "changing" ELSE "applying")
        /\ req[r].at = "idle" /\ restoring' = restoring
    BY <1>2, <1>s DEF CompareStart
  <2> QED BY <2>1
<1>3. CASE AddStart(r)
  <2>1. req'[r].at = (IF track THEN "changing" ELSE "applying")
        /\ req[r].at = "idle" /\ restoring' = restoring
    BY <1>3, <1>s DEF AddStart
  <2> QED BY <2>1
<1>4. CASE SaveWrite(r)
  <2>1. req'[r].at = "saving" /\ req[r].at = "idle" /\ restoring' = restoring
    BY <1>4, <1>s DEF SaveWrite
  <2> QED BY <2>1
<1>5. CASE SnapshotCapture(r)
  <2>1. req' = [req EXCEPT ![r].at = "applying", ![r].prior = track]
        /\ req[r].at = "capturing" /\ restoring' = restoring
    BY <1>5 DEF SnapshotCapture, At
  <2> QED BY <2>1, NotedParts
<1>6. CASE SnapshotApply(r) \/ UntrackedChange(r) \/ SaveMark(r)
  <2>1. Ends(r) /\ req[r].at \in {"applying", "saving"} /\ restoring' = restoring
    BY <1>6 DEF SnapshotApply, UntrackedChange, SaveMark, At
  <2> QED BY <1>e, <2>1
<1>7. CASE DiffApply(r)
  <2>1. /\ req[r].at = "applying" /\ req[r].kind = "diff"
        /\ restoring' = restoring /\ (Ends(r) \/ Goes(r, "rolling back"))
    BY <1>7 DEF DiffApply, At
  <2>2. req'[r].at = "idle" \/ (req'[r].at = "rolling back" /\ req'[r].kind = "diff")
    BY <1>e, <1>g, <2>1
  <2> QED BY <2>1, <2>2
<1>8. CASE Change(r) \/ CompareRecord(r)
  <2>1. /\ req[r].at \in {"changing", "recording", "recording again"}
        /\ restoring' = restoring
        /\ Ends(r) \/ Goes(r, "recording") \/ Goes(r, "recording again")
    BY <1>8 DEF Change, CompareRecord, At
  <2>2. req'[r].at \in {"idle", "recording", "recording again"}
    BY <1>e, <1>g, <2>1
  <2> QED BY <2>1, <2>2
<1>9. CASE SilentChange(r) \/ Clear(r)
  <2>1. req' = req /\ restoring' = restoring /\ req[r].at = "idle"
    BY <1>9 DEF SilentChange, Clear, AtOnce, Arrives
  <2> QED BY <2>1
<1>10. ASSUME NEW way, UndoRedoStart(r, way) PROVE req'[r].at = "taken"
  BY <1>10 DEF Typed, UndoRedoStart, Idle
<1>11. CASE RollBack(r)
  <2>1. CASE HasEntry("undo")
    <3>1. req' = [req EXCEPT ![r].at = "taken", ![r].way = "undo",
                             ![r].entry = EntryOf("undo")]
      BY <1>11, <2>1 DEF RollBack
    <3> QED BY <3>1, TakenParts
  <2>2. CASE ~HasEntry("undo")
    <3>1. Ends(r) /\ restoring' = restoring /\ req[r].at = "rolling back"
      BY <1>11, <2>2 DEF RollBack, At
    <3> QED BY <1>e, <3>1
  <2> QED BY <2>1, <2>2
<1>12. CASE Stash(r)
  <2>1. CASE Ends(r) /\ restoring' = FALSE
    BY <1>e, <2>1
  <2>2. CASE req' = [req EXCEPT ![r].at = "rebuilding", ![r].now = graph]
    BY <2>2, BuildingParts
  <2> QED BY <1>12, <2>1, <2>2 DEF Stash
<1>13. CASE Rebuild(r)
  <2>1. Ends(r) /\ restoring' = FALSE
    BY <1>13 DEF Rebuild
  <2> QED BY <1>e, <2>1
<1>14. ASSUME NEW kind, SnapshotStart(r, kind) \/ CompareStart(r, kind)
       PROVE /\ restoring' => req'[r].at \in {"taken", "rebuilding"}
                              \/ (restoring /\ ~Restores(r))
             /\ req'[r].at = "rolling back" =>
                  req'[r].kind = "diff" \/ req'[r] = req[r]
  BY <1>1, <1>2, <1>14
<1>15. ASSUME NEW way, UndoRedoStart(r, way)
       PROVE /\ restoring' => req'[r].at \in {"taken", "rebuilding"}
                              \/ (restoring /\ ~Restores(r))
             /\ req'[r].at = "rolling back" =>
                  req'[r].kind = "diff" \/ req'[r] = req[r]
  BY <1>10, <1>15
<1>16. CASE FailsToRead(r)
  <2>1. CASE CaptureFails(r)
    <3>1. req' = [req EXCEPT ![r].at = "applying", ![r].prior = track]
          /\ req[r].at = "capturing" /\ restoring' = restoring
      BY <2>1 DEF CaptureFails, At
    <3> QED BY <3>1, NotedParts
  <2>2. CASE RecordFails(r)
    <3>1. /\ req[r].at \in {"recording", "recording again"}
          /\ restoring' = restoring
          /\ Ends(r) \/ Goes(r, "recording again")
      BY <2>2 DEF RecordFails, At
    <3>2. req'[r].at \in {"idle", "recording again"}
      BY <1>e, <1>g, <3>1
    <3> QED BY <3>1, <3>2
  <2>3. CASE StashFails(r)
    <3>1. Ends(r) /\ restoring' = FALSE
      BY <2>3 DEF StashFails
    <3> QED BY <1>e, <3>1
  <2>4. CASE MarkFails(r)
    <3>1. Ends(r) /\ req[r].at = "saving" /\ restoring' = restoring
      BY <2>4 DEF MarkFails, At
    <3> QED BY <1>e, <3>1
  <2> QED BY <1>16, <2>1, <2>2, <2>3, <2>4 DEF FailsToRead
<1> QED BY <1>3, <1>4, <1>5, <1>6, <1>7, <1>8, <1>9, <1>11, <1>12, <1>13,
           <1>14, <1>15, <1>16 DEF Steps, Moves

LEMMA InvInit == Init => IInv
<1> SUFFICES ASSUME Init PROVE IInv
  OBVIOUS
<1>1. Typed
  BY InitTyped
<1>2. \A r \in Requests : req[r].at = "idle" /\ ~restoring /\ track
  BY IdleType DEF Init
<1> QED BY <1>1, <1>2 DEF IInv, FlagIsHeld, DiffsRollBack, Serial, PriorOn,
           PreOnTop, EntryIsPre, Restores, Init

LEMMA InvStep ==
  ASSUME IInv, [Next]_vars
  PROVE IInv'
<1>1. CASE UNCHANGED vars
  BY <1>1 DEF IInv, Typed, FlagIsHeld, DiffsRollBack, Serial, PriorOn, PreOnTop,
              EntryIsPre, Restores, Silences, vars
<1>2. ASSUME NEW r \in Requests, Steps(r) PROVE IInv'
  <2>1. Typed /\ Typed'
    BY <1>2, StepsTyped DEF IInv
  <2>2. \A q \in Requests \ {r} : req'[q] = req[q]
    BY <1>2, <2>1, OnlyOneMoves
  <2>3. FlagIsHeld'
    BY <1>2, <2>1, <2>2, PlaceStep DEF IInv, FlagIsHeld, Restores
  <2>4. DiffsRollBack'
    BY <1>2, <2>1, <2>2, PlaceStep DEF IInv, DiffsRollBack
  <2>5. ASSUME ~overlapped' PROVE Serial'
    <3>1. Local(r)'
      BY <1>2, <2>5, LocalStep
    <3>2. \A q \in Requests \ {r} : req'[q].at = "idle"
      BY <1>2, <2>5, SerialStep
    <3> QED BY <3>1, <3>2 DEF Serial, Local, PriorOn, PreOnTop, EntryIsPre,
               Restores
  <2> QED BY <2>1, <2>3, <2>4, <2>5 DEF IInv, Serial
<1> QED BY <1>1, <1>2 DEF Next

LEMMA Invariance == Spec => []IInv
BY InvInit, InvStep, PTL DEF Spec

-----------------------------------------------------------------------------
(* QuietFlowRecords: whatever overlapped and whatever raised, no request under  *)
(* way means the restoring flag is down, and if none overlapped the recording   *)
(* switch is on, so the next edit is recorded (history_manager.py's finally     *)
(* clauses, ai/diff.py's and add_node's).                                       *)
THEOREM QuietRecords == Spec => []QuietFlowRecords
<1>1. IInv => QuietFlowRecords
  BY DEF IInv, FlagIsHeld, Serial, QuietFlowRecords, Quiet, Restores, Silences
<1> QED BY Invariance, <1>1, PTL

(* UndoGivesBack: an edit that has gone through leaves the content before it on *)
(* top of the undo stack, and a diff that failed leaves that content itself     *)
(* (capture_snapshot, capture_if_changed, apply_diff).                          *)
LEMMA StepGivesBack ==
  ASSUME IInv, NEW r \in Requests, Steps(r), Regular'
  PROVE /\ (\/ Finishes(r, "recording") \/ Finishes(r, "recording again")
            \/ Finishes(r, "applying") /\ req[r].kind \in {"snapshot", "diff"})
           => \/ graph' = req[r].pre
              \/ undoStack' # <<>> /\ Last(undoStack') = req[r].pre
        /\ (Finishes(r, "rebuilding") /\ req[r].kind = "diff" /\ graph' # Half)
           => graph' = req[r].pre
<1>0. /\ Typed /\ Local(r) /\ (restoring => Restores(r))
      /\ Moves(r) /\ ~unread
  BY SerialStep DEF IInv, Regular, Steps
<1>1. ASSUME req[r].at \in {"recording", "recording again"}, req'[r].at = "idle"
      PROVE \/ graph' = req[r].pre
            \/ undoStack' # <<>> /\ Last(undoStack') = req[r].pre
  <2>1. CompareRecord(r)
    BY <1>0, <1>1 DEF Moves, SnapshotStart, SnapshotCapture, SnapshotApply, DiffApply,
       CompareStart, AddStart, Change, UntrackedChange, SilentChange,
       UndoRedoStart, RollBack, Stash, Rebuild, Clear, SaveWrite, SaveMark,
       Starts, AtOnce, Arrives, At
  <2>2. ~restoring /\ track
    BY <1>0, <1>1 DEF Local, Silences, Restores
  <2> QED BY <1>0, <2>1, <2>2, RecordType, PartsType DEF CompareRecord
<1>2. ASSUME req[r].at = "applying", req'[r].at = "idle",
             req[r].kind \in {"snapshot", "diff"}
      PROVE undoStack' # <<>> /\ Last(undoStack') = req[r].pre
  <2>1. SnapshotApply(r) \/ DiffApply(r)
    BY <1>0, <1>2 DEF Moves, SnapshotStart, SnapshotCapture, CompareRecord,
       CompareStart, AddStart, Change, UntrackedChange, SilentChange,
       UndoRedoStart, RollBack, Stash, Rebuild, Clear, SaveWrite, SaveMark,
       Starts, AtOnce, Arrives, At
  <2>2. undoStack' = undoStack
    BY <2>1 DEF SnapshotApply, DiffApply, stacks
  <2> QED BY <1>0, <1>2, <2>2 DEF Local, PreOnTop
<1>3. ASSUME req[r].at = "rebuilding", req[r].kind = "diff", graph' # Half
      PROVE graph' = req[r].pre
  <2>1. Rebuild(r)
    BY <1>0, <1>3 DEF Moves, SnapshotStart, SnapshotCapture, SnapshotApply, DiffApply,
       CompareRecord, CompareStart, AddStart, Change, UntrackedChange,
       SilentChange, UndoRedoStart, RollBack, Stash, Clear, SaveWrite, SaveMark,
       Starts, AtOnce, Arrives, At
  <2> QED BY <1>0, <1>3, <2>1 DEF Rebuild, Local, EntryIsPre, Restores
<1> QED BY <1>1, <1>2, <1>3 DEF Finishes

(* UndoGivesBack for any contents and limit: when an edit ends, and no requests   *)
(* overlapped and every reading of the content succeeded, what it found is the entry the next undo takes, unless it   *)
(* changed nothing; and a diff that fails and rolls back leaves what it found.      *)
THEOREM EditsCanBeUndone == Spec => UndoGivesBack
<1>1. ASSUME IInv, Next, NEW q \in Requests, Regular'
      PROVE /\ (\/ Finishes(q, "recording") \/ Finishes(q, "recording again")
                \/ Finishes(q, "applying") /\ req[q].kind \in {"snapshot", "diff"})
               => \/ graph' = req[q].pre
                  \/ undoStack' # <<>> /\ Last(undoStack') = req[q].pre
            /\ (Finishes(q, "rebuilding") /\ req[q].kind = "diff" /\ graph' # Half)
               => graph' = req[q].pre
  <2>1. PICK r \in Requests : Steps(r)
    BY <1>1 DEF Next
  <2>2. CASE q = r
    BY <1>1, <2>1, <2>2, StepGivesBack
  <2>3. CASE q # r
    BY <1>1, <2>1, <2>3, OnlyOneMoves DEF Finishes, IInv
  <2> QED BY <2>2, <2>3
<1>2. IInv /\ [Next]_vars =>
        [\A r \in Requests : Regular' =>
           /\ (\/ Finishes(r, "recording") \/ Finishes(r, "recording again")
               \/ Finishes(r, "applying") /\ req[r].kind \in {"snapshot", "diff"})
              => \/ graph' = req[r].pre
                 \/ undoStack' # <<>> /\ Last(undoStack') = req[r].pre
           /\ (Finishes(r, "rebuilding") /\ req[r].kind = "diff" /\ graph' # Half)
              => graph' = req[r].pre]_vars
  BY <1>1
<1> QED BY Invariance, <1>2, PTL DEF Spec, UndoGivesBack

-----------------------------------------------------------------------------
(* The line: its lemmas are about contents before and after one content.        *)

(* A content between what is behind it and what is ahead of it. *)
Joined(p, n, a) == p \o <<n>> \o a

LEMMA One ==
  ASSUME NEW n \in Anything
  PROVE <<n>> \in Seq(Anything) /\ Len(<<n>>) = 1 /\ <<n>>[1] = n
OBVIOUS

LEMMA JoinedParts ==
  ASSUME NEW p \in Seq(Anything), NEW a \in Seq(Anything), NEW n \in Anything
  PROVE /\ Joined(p, n, a) \in Seq(Anything)
        /\ Len(p) \in Nat /\ Len(a) \in Nat
        /\ Len(Joined(p, n, a)) = Len(p) + 1 + Len(a)
        /\ \A i \in 1 .. Len(p) + 1 + Len(a) :
             Joined(p, n, a)[i] = IF i <= Len(p) THEN p[i]
                                  ELSE IF i = Len(p) + 1 THEN n ELSE a[i - (Len(p) + 1)]
<1> DEFINE s == p \o <<n>>
<1>1. Len(p) \in Nat /\ Len(a) \in Nat /\ Len(<<n>>) = 1
  BY LenProperties, One
<1>2. /\ s \in Seq(Anything) /\ Len(s) = Len(p) + 1
      /\ \A i \in 1 .. Len(p) + 1 : s[i] = IF i <= Len(p) THEN p[i] ELSE <<n>>[i - Len(p)]
  BY One, <1>1, ConcatProperties
<1>3. s[Len(p) + 1] = n
  <2>1. Len(p) + 1 \in 1 .. Len(p) + 1 /\ (Len(p) + 1) - Len(p) = 1 /\ ~(Len(p) + 1 <= Len(p))
    BY <1>1
  <2> DEFINE k == Len(p) + 1
  <2>2. s[k] = <<n>>[k - Len(p)]
    BY <1>2, <2>1
  <2>3. k - Len(p) = 1
    BY <2>1
  <2>4. <<n>>[1] = n
    BY One
  <2> QED BY <2>2, <2>3, <2>4
<1> HIDE DEF s
<1>4. /\ s \o a \in Seq(Anything) /\ Len(s \o a) = Len(s) + Len(a)
      /\ \A i \in 1 .. Len(s) + Len(a) : (s \o a)[i] = IF i <= Len(s) THEN s[i] ELSE a[i - Len(s)]
  <2>1. s \in Seq(Anything)
    BY <1>2
  <2> QED BY ONLY <2>1, ConcatProperties
<1>5. Joined(p, n, a) = s \o a
  BY DEF Joined, s
<1>6. ASSUME NEW i \in 1 .. Len(p) + 1 + Len(a)
      PROVE (s \o a)[i] = IF i <= Len(p) THEN p[i]
                          ELSE IF i = Len(p) + 1 THEN n ELSE a[i - (Len(p) + 1)]
  <2>1. (s \o a)[i] = IF i <= Len(p) + 1 THEN s[i] ELSE a[i - (Len(p) + 1)]
    BY <1>1, <1>2, <1>4
  <2>2. CASE i <= Len(p)
    BY <1>1, <1>2, <2>1, <2>2
  <2>3. CASE i = Len(p) + 1
    BY <1>1, <1>3, <2>1, <2>3
  <2>4. CASE i > Len(p) + 1
    BY <1>1, <2>1, <2>4
  <2>5. i <= Len(p) \/ i = Len(p) + 1 \/ i > Len(p) + 1
    BY <1>1
  <2> QED BY <2>2, <2>3, <2>4, <2>5
<1> QED BY <1>1, <1>2, <1>4, <1>5, <1>6

(* Joined is cut again wherever one likes. *)
Regroups(x, y, z) == x \o (y \o z) = (x \o y) \o z

LEMMA Regrouping ==
  ASSUME NEW x \in Seq(Anything), NEW y \in Seq(Anything), NEW z \in Seq(Anything)
  PROVE Regroups(x, y, z)
BY ConcatAssociative, SMTT(30) DEF Regroups

LEMMA JoinedMoves ==
  ASSUME NEW p \in Seq(Anything), NEW a \in Seq(Anything), NEW n \in Anything, NEW m \in Anything
  PROVE /\ Joined(p, n, <<m>> \o a) = Joined(Append(p, n), m, a)
        /\ <<m>> \o a \in Seq(Anything)
        /\ Append(p, n) \in Seq(Anything) /\ Len(Append(p, n)) = Len(p) + 1
<1>1. /\ Append(p, n) = p \o <<n>> /\ Append(p, n) \in Seq(Anything)
      /\ Len(Append(p, n)) = Len(p) + 1
  BY AppendIsConcat, AppendProperties
<1>2. <<n>> \in Seq(Anything) /\ <<m>> \in Seq(Anything) /\ p \o <<n>> \in Seq(Anything)
      /\ <<m>> \o a \in Seq(Anything)
  BY One, ConcatProperties
<1>3. (p \o <<n>>) \o (<<m>> \o a) = ((p \o <<n>>) \o <<m>>) \o a
  <2> DEFINE x == p \o <<n>>
             y == <<m>>
  <2>1. x \in Seq(Anything) /\ y \in Seq(Anything) /\ a \in Seq(Anything)
    BY <1>2
  <2> HIDE DEF x, y
  <2>2. Regroups(x, y, a)
    BY ONLY <2>1, Regrouping
  <2> QED BY <2>2 DEF x, y, Regroups
<1> QED BY <1>1, <1>2, <1>3 DEF Joined

LEMMA JoinedRewrites ==
  ASSUME NEW p \in Seq(Anything), NEW a \in Seq(Anything), NEW n \in Anything, NEW c \in Anything
  PROVE Joined(p, c, a) = [Joined(p, n, a) EXCEPT ![Len(p) + 1] = c]
<1> DEFINE s == Joined(p, n, a)
<1> DEFINE t == Joined(p, c, a)
<1>1. /\ s \in Seq(Anything) /\ Len(s) = Len(p) + 1 + Len(a)
      /\ t \in Seq(Anything) /\ Len(t) = Len(p) + 1 + Len(a)
      /\ Len(p) \in Nat /\ Len(a) \in Nat
      /\ \A i \in 1 .. Len(p) + 1 + Len(a) : i # Len(p) + 1 => t[i] = s[i]
      /\ t[Len(p) + 1] = c
  <2>1. Len(p) \in Nat /\ Len(a) \in Nat
    BY JoinedParts
  <2>2. Len(p) + 1 \in 1 .. Len(p) + 1 + Len(a) /\ ~(Len(p) + 1 <= Len(p))
    BY <2>1
  <2>3. /\ s \in Seq(Anything) /\ Len(s) = Len(p) + 1 + Len(a)
        /\ \A i \in 1 .. Len(p) + 1 + Len(a) :
             s[i] = IF i <= Len(p) THEN p[i]
                    ELSE IF i = Len(p) + 1 THEN n ELSE a[i - (Len(p) + 1)]
    BY JoinedParts
  <2>4. /\ t \in Seq(Anything) /\ Len(t) = Len(p) + 1 + Len(a)
        /\ \A i \in 1 .. Len(p) + 1 + Len(a) :
             t[i] = IF i <= Len(p) THEN p[i]
                    ELSE IF i = Len(p) + 1 THEN c ELSE a[i - (Len(p) + 1)]
    BY JoinedParts
  <2> HIDE DEF s, t
  <2> QED BY <2>1, <2>2, <2>3, <2>4
<1> HIDE DEF s, t
<1>2. Len(p) + 1 \in 1 .. Len(s)
  BY <1>1
<1>3. /\ [s EXCEPT ![Len(p) + 1] = c] \in Seq(Anything)
      /\ Len([s EXCEPT ![Len(p) + 1] = c]) = Len(s)
      /\ \A j \in 1 .. Len(s) : [s EXCEPT ![Len(p) + 1] = c][j] = IF j = Len(p) + 1 THEN c ELSE s[j]
  BY <1>1, <1>2, ExceptSeq
<1>4. t = [s EXCEPT ![Len(p) + 1] = c]
  <2>1. \A i \in 1 .. Len(t) : t[i] = [s EXCEPT ![Len(p) + 1] = c][i]
    BY <1>1, <1>3
  <2> QED BY <1>1, <1>3, <2>1, SeqEqual
<1> QED BY <1>4 DEF s, t

(* An edit: what is ahead goes, and the oldest when there is no room. *)
LEMMA JoinedDoes ==
  ASSUME NEW p \in Stack, NEW a \in Seq(Anything), NEW n \in Anything, NEW c \in Anything,
         NEW line, line = Append(SubSeq(Joined(p, n, a), 1, Len(p) + 1), c)
  PROVE /\ Joined(Push(p, n), c, <<>>) = IF Len(p) + 1 > MaxStack THEN Tail(line) ELSE line
        /\ Len(Joined(Push(p, n), c, <<>>)) = Len(Push(p, n)) + 1
<1>1. p \in Seq(Anything) /\ Len(p) \in Nat /\ Len(p) <= MaxStack /\ MaxStack \in Nat \ {0}
  BY LenProperties, HistoryAssumption DEF Stack
<1>2. SubSeq(Joined(p, n, a), 1, Len(p) + 1) = Append(p, n)
  <2> DEFINE s == Joined(p, n, a)
  <2> DEFINE b == SubSeq(s, 1, Len(p) + 1)
  <2>1. /\ s \in Seq(Anything) /\ Len(s) = Len(p) + 1 + Len(a) /\ Len(a) \in Nat
        /\ s[Len(p) + 1] = n /\ \A i \in 1 .. Len(p) : s[i] = p[i]
    <3>1. Len(a) \in Nat
      BY LenProperties
    <3>2. Len(p) + 1 \in 1 .. Len(p) + 1 + Len(a) /\ ~(Len(p) + 1 <= Len(p))
          /\ \A i \in 1 .. Len(p) : i \in 1 .. Len(p) + 1 + Len(a) /\ i <= Len(p)
      BY <1>1, <3>1
    <3>3. /\ s \in Seq(Anything) /\ Len(s) = Len(p) + 1 + Len(a)
          /\ \A i \in 1 .. Len(p) + 1 + Len(a) :
               s[i] = IF i <= Len(p) THEN p[i]
                      ELSE IF i = Len(p) + 1 THEN n ELSE a[i - (Len(p) + 1)]
      BY <1>1, JoinedParts
    <3> HIDE DEF s
    <3> QED BY <3>1, <3>2, <3>3
  <2> HIDE DEF s
  <2>2. \A i \in 1 .. Len(p) + 1 : s[i] \in Anything
    <3>1. \A i \in 1 .. Len(p) + 1 : i \in 1 .. Len(s)
      BY <1>1, <2>1
    <3> QED BY <2>1, <3>1, ElementOfSeq
  <2>3. 1 \in Int /\ Len(p) + 1 \in Int
    BY <1>1
  <2>4. /\ b \in Seq(Anything)
        /\ Len(b) = (IF 1 <= Len(p) + 1 THEN (Len(p) + 1) - 1 + 1 ELSE 0)
        /\ \A i \in 1 .. (Len(p) + 1) - 1 + 1 : b[i] = s[1 + i - 1]
    BY <2>2, <2>3, SubSeqProperties
  <2> HIDE DEF b
  <2>5. Len(b) = Len(p) + 1 /\ \A i \in 1 .. Len(p) + 1 : b[i] = s[i]
    BY <1>1, <2>4
  <2>6. /\ Append(p, n) \in Seq(Anything) /\ Len(Append(p, n)) = Len(p) + 1
        /\ (\A i \in 1 .. Len(p) : Append(p, n)[i] = p[i]) /\ Append(p, n)[Len(p) + 1] = n
    BY <1>1, AppendProperties
  <2>7. \A i \in 1 .. Len(p) + 1 : i \in 1 .. Len(p) \/ i = Len(p) + 1
    BY <1>1
  <2>8. b = Append(p, n)
    BY <2>1, <2>4, <2>5, <2>6, <2>7, SeqEqual
  <2> QED BY <2>8 DEF b, s
<1>3. line = Append(Append(p, n), c) /\ Append(p, n) \in Seq(Anything)
  BY <1>1, <1>2, AppendProperties
<1>4. \A q \in Seq(Anything) : Joined(q, c, <<>>) = Append(q, c)
  <2> SUFFICES ASSUME NEW q \in Seq(Anything) PROVE Joined(q, c, <<>>) = Append(q, c)
    OBVIOUS
  <2>1. Append(q, c) = q \o <<c>> /\ Append(q, c) \in Seq(Anything)
    BY AppendIsConcat, AppendProperties
  <2> QED BY <2>1, ConcatEmptySeq DEF Joined
<1>5. CASE Len(p) = MaxStack
  <2>1. p # <<>>
    BY <1>1, <1>5, EmptySeq
  <2>2. Tail(p) \in Seq(Anything)
    BY <1>1, <2>1, HeadTailProperties
  <2>3. Push(p, n) = Append(Tail(p), n) /\ Push(p, n) \in Seq(Anything)
    BY <1>5, <2>2, AppendProperties DEF Push
  <2>4. Tail(Append(p, n)) = Append(Tail(p), n)
    BY <1>1, <2>1, HeadTailAppend
  <2>5. Append(p, n) # <<>>
    BY <1>1, AppendProperties
  <2>6. Tail(line) = Append(Append(Tail(p), n), c)
    BY <1>3, <2>4, <2>5, HeadTailAppend
  <2>7. Joined(Push(p, n), c, <<>>) = Tail(line)
    BY <1>4, <2>3, <2>6
  <2>8. Len(Append(Push(p, n), c)) = Len(Push(p, n)) + 1
    BY <2>3, AppendProperties
  <2>9. Joined(Push(p, n), c, <<>>) = Append(Push(p, n), c)
    BY <1>4, <2>3
  <2>10. Len(p) + 1 > MaxStack
    BY <1>1, <1>5
  <2>11. Len(Joined(Push(p, n), c, <<>>)) = Len(Push(p, n)) + 1
    BY <2>8, <2>9
  <2> QED BY <2>7, <2>10, <2>11
<1>6. CASE Len(p) # MaxStack
  <2>1. Push(p, n) = Append(p, n)
    BY <1>6 DEF Push
  <2>2. Joined(Push(p, n), c, <<>>) = line /\ Len(Append(Append(p, n), c)) = Len(Append(p, n)) + 1
    BY <1>3, <1>4, <2>1, AppendProperties
  <2> QED BY <1>1, <1>3, <1>6, <2>1, <2>2
<1> QED BY <1>5, <1>6

LEMMA JoinedAlone ==
  ASSUME NEW p \in Seq(Anything), NEW a \in Seq(Anything), NEW n \in Anything
  PROVE /\ Joined(<<>>, n, <<>>) = <<n>>
        /\ Joined(p, n, a)[Len(p) + 1] = n
        /\ Len(Joined(p, n, a)) = Len(p) + 1 + Len(a) /\ Len(p) \in Nat /\ Len(a) \in Nat
<1>1. Len(p) \in Nat /\ Len(a) \in Nat
  BY LenProperties
<1>2. Len(p) + 1 \in 1 .. Len(p) + 1 + Len(a) /\ ~(Len(p) + 1 <= Len(p))
  BY <1>1
<1>3. Joined(<<>>, n, <<>>) = <<n>>
  BY One, ConcatEmptySeq DEF Joined
<1>4. Joined(p, n, a)[Len(p) + 1]
        = IF Len(p) + 1 <= Len(p) THEN p[Len(p) + 1]
          ELSE IF Len(p) + 1 = Len(p) + 1 THEN n ELSE a[(Len(p) + 1) - (Len(p) + 1)]
  BY <1>2, JoinedParts
<1> QED BY <1>1, <1>2, <1>3, <1>4, JoinedParts

(* Taking from a stack and putting on one that has room. *)
LEMMA FrontAndLast ==
  ASSUME NEW s \in Seq(Anything), s # <<>>
  PROVE /\ s = Append(Front(s), Last(s)) /\ Front(s) \in Seq(Anything) /\ Last(s) \in Anything
        /\ Len(Front(s)) = Len(s) - 1
<1>1. Len(s) \in Nat \ {0} /\ SubSeq(s, 1, Len(s)) = s
  BY EmptySeq, SubSeqFull
<1>2. 1 \in 1 .. Len(s) /\ Len(s) \in 1 .. Len(s)
  BY <1>1
<1>3. s = SubSeq(s, 1, Len(s) - 1) \o <<s[Len(s)]>>
  BY <1>1, <1>2, SubSeqRecursiveSecond
<1>4. s[Len(s)] \in Anything
  BY <1>2, ElementOfSeq
<1>5. \A i \in 1 .. Len(s) - 1 : s[i] \in Anything
  <2>1. \A i \in 1 .. Len(s) - 1 : i \in 1 .. Len(s)
    BY <1>1
  <2> QED BY <2>1, ElementOfSeq
<1>6. 1 \in Int /\ Len(s) - 1 \in Int
  BY <1>1
<1>7. SubSeq(s, 1, Len(s) - 1) \in Seq(Anything)
      /\ Len(SubSeq(s, 1, Len(s) - 1)) = IF 1 <= Len(s) - 1 THEN (Len(s) - 1) - 1 + 1 ELSE 0
  BY <1>5, <1>6, SubSeqProperties
<1>8. SubSeq(s, 1, Len(s) - 1) \o <<s[Len(s)]>> = Append(SubSeq(s, 1, Len(s) - 1), s[Len(s)])
  BY <1>4, <1>7, AppendIsConcat
<1>9. Len(SubSeq(s, 1, Len(s) - 1)) = Len(s) - 1
  BY <1>1, <1>7
<1> QED BY <1>3, <1>4, <1>7, <1>8, <1>9 DEF Front, Last

LEMMA FrontOfAppend ==
  ASSUME NEW s \in Seq(Anything), NEW c \in Anything
  PROVE Front(Append(s, c)) = s /\ Last(Append(s, c)) = c
<1>1. Append(s, c) \in Seq(Anything) /\ Append(s, c) # <<>>
  BY AppendProperties
<1>2. Append(s, c) = Append(Front(Append(s, c)), Last(Append(s, c)))
      /\ Front(Append(s, c)) \in Seq(Anything) /\ Last(Append(s, c)) \in Anything
  BY <1>1, FrontAndLast
<1> QED BY <1>2, AppendInjective

LEMMA ReverseType ==
  ASSUME NEW s \in Seq(Anything)
  PROVE Reverse(s) \in Seq(Anything) /\ Len(Reverse(s)) = Len(s)
        /\ \A i \in 1 .. Len(s) : Reverse(s)[i] = s[(Len(s) - i) + 1]
<1>1. Len(s) \in Nat
  BY LenProperties
<1>2. \A i \in 1 .. Len(s) : s[(Len(s) - i) + 1] \in Anything
  <2>1. \A i \in 1 .. Len(s) : (Len(s) - i) + 1 \in 1 .. Len(s)
    BY <1>1
  <2> QED BY <2>1, ElementOfSeq
<1> QED BY <1>1, <1>2 DEF Reverse

LEMMA ReverseEmpty == Reverse(<<>>) = <<>>
<1>1. <<>> \in Seq(Anything) /\ Len(<<>>) = 0
  BY EmptySeq
<1>2. Reverse(<<>>) \in Seq(Anything) /\ Len(Reverse(<<>>)) = 0
  BY <1>1, ReverseType
<1> QED BY <1>2, EmptySeq

LEMMA ReverseAppend ==
  ASSUME NEW s \in Seq(Anything), NEW c \in Anything
  PROVE Reverse(Append(s, c)) = <<c>> \o Reverse(s)
<1> DEFINE t == Append(s, c)
<1>1. /\ t \in Seq(Anything) /\ Len(t) = Len(s) + 1 /\ t[Len(s) + 1] = c
      /\ \A i \in 1 .. Len(s) : t[i] = s[i]
  BY AppendProperties
<1>2. Len(s) \in Nat
  BY LenProperties
<1> HIDE DEF t
<1> DEFINE u == Reverse(t)
<1>3. /\ u \in Seq(Anything) /\ Len(u) = Len(s) + 1
      /\ \A i \in 1 .. Len(s) + 1 : u[i] = t[((Len(s) + 1) - i) + 1]
  BY <1>1, ReverseType
<1> HIDE DEF u
<1> DEFINE w == Reverse(s)
<1>4. /\ w \in Seq(Anything) /\ Len(w) = Len(s)
      /\ \A i \in 1 .. Len(s) : w[i] = s[(Len(s) - i) + 1]
  BY ReverseType
<1> HIDE DEF w
<1>5. /\ <<c>> \o w \in Seq(Anything) /\ Len(<<c>> \o w) = 1 + Len(s)
      /\ \A i \in 1 .. 1 + Len(s) : (<<c>> \o w)[i] = IF i <= 1 THEN <<c>>[i] ELSE w[i - 1]
  BY <1>4, One, ConcatProperties
<1>6. ASSUME NEW i \in 1 .. Len(s) + 1 PROVE u[i] = (<<c>> \o w)[i]
  <2>1. CASE i = 1
    <3>1. u[1] = t[Len(s) + 1]
      BY <1>2, <1>3, <2>1
    <3>2. (<<c>> \o w)[1] = <<c>>[1]
      BY <1>2, <1>5, <2>1
    <3> QED BY <1>1, <2>1, <3>1, <3>2, One
  <2>2. CASE i # 1
    <3>1. i - 1 \in 1 .. Len(s) /\ (Len(s) - (i - 1)) + 1 = ((Len(s) + 1) - i) + 1
          /\ ((Len(s) + 1) - i) + 1 \in 1 .. Len(s)
      BY <1>2, <2>2
    <3>2. u[i] = s[((Len(s) + 1) - i) + 1]
      BY <1>1, <1>3, <3>1
    <3>3. (<<c>> \o w)[i] = w[i - 1]
      BY <1>2, <1>5, <2>2
    <3>4. w[i - 1] = s[(Len(s) - (i - 1)) + 1]
      BY <1>4, <3>1
    <3> QED BY <3>1, <3>2, <3>3, <3>4
  <2> QED BY <2>1, <2>2
<1>7. u = <<c>> \o w
  <2>1. Len(u) = Len(<<c>> \o w) /\ \A i \in 1 .. Len(u) : u[i] = (<<c>> \o w)[i]
    BY <1>2, <1>3, <1>5, <1>6
  <2> QED BY <1>3, <1>5, <2>1, SeqEqual
<1> QED BY <1>7 DEF u, t, w

(* The line after an edit, and what the edit makes of it. *)
EditOf(p, n, a, c, line) == line = Append(SubSeq(Joined(p, n, a), 1, Len(p) + 1), c)
Edited(p, n, c, line) ==
  /\ Joined(Push(p, n), c, <<>>) = IF Len(p) + 1 > MaxStack THEN Tail(line) ELSE line
  /\ Len(Joined(Push(p, n), c, <<>>)) = Len(Push(p, n)) + 1

LEMMA JoinedEdits ==
  ASSUME NEW p \in Stack, NEW a \in Seq(Anything), NEW n \in Anything, NEW c \in Anything,
         NEW line, EditOf(p, n, a, c, line)
  PROVE Edited(p, n, c, line)
<1>1. line = Append(SubSeq(Joined(p, n, a), 1, Len(p) + 1), c)
  BY DEF EditOf
<1>2. /\ Joined(Push(p, n), c, <<>>) = IF Len(p) + 1 > MaxStack THEN Tail(line) ELSE line
      /\ Len(Joined(Push(p, n), c, <<>>)) = Len(Push(p, n)) + 1
  BY ONLY <1>1, p \in Stack, a \in Seq(Anything), n \in Anything, c \in Anything, JoinedDoes,
          SMTT(30)
<1> QED BY <1>2 DEF Edited

(* The steps of the line, on what is behind, the content and what is ahead. *)
LEMMA DoesStep ==
  ASSUME NEW p \in Stack, NEW a \in Seq(Anything), NEW n \in Anything, NEW c \in Anything,
         theTimeline = Joined(p, n, a), theCursor = Len(p) + 1,
         theTimeline' = Joined(Push(p, n), c, <<>>), theCursor' = Len(Push(p, n)) + 1
  PROVE Line!Next
<1> DEFINE line == Append(SubSeq(theTimeline, 1, theCursor), c)
<1>1. line = Append(SubSeq(Joined(p, n, a), 1, Len(p) + 1), c)
  OBVIOUS
<1> HIDE DEF line
<1>2. /\ Joined(Push(p, n), c, <<>>) = IF Len(p) + 1 > MaxStack THEN Tail(line) ELSE line
      /\ Len(Joined(Push(p, n), c, <<>>)) = Len(Push(p, n)) + 1
  <2>1. EditOf(p, n, a, c, line)
    BY <1>1 DEF EditOf
  <2>2. Edited(p, n, c, line)
    BY ONLY <2>1, p \in Stack, a \in Seq(Anything), n \in Anything, c \in Anything, JoinedEdits
  <2> QED BY <2>2 DEF Edited
<1>3. theTimeline' = IF theCursor > MaxStack THEN Tail(line) ELSE line
  BY <1>2
<1>4. theCursor' = Len(theTimeline')
  BY <1>2
<1>5. Line!Do(c)
  BY <1>3, <1>4 DEF Line!Do, line
<1> QED BY <1>5 DEF Line!Next

LEMMA RewriteStep ==
  ASSUME NEW p \in Seq(Anything), NEW a \in Seq(Anything), NEW n \in Anything, NEW c \in Anything,
         theTimeline = Joined(p, n, a), theCursor = Len(p) + 1,
         theTimeline' = Joined(p, c, a), theCursor' = Len(p) + 1
  PROVE Line!Next
<1>1. Line!Rewrite(c)
  BY JoinedRewrites DEF Line!Rewrite
<1> QED BY <1>1 DEF Line!Next

LEMMA ForgetStep ==
  ASSUME NEW p \in Seq(Anything), NEW a \in Seq(Anything), NEW n \in Anything,
         theTimeline = Joined(p, n, a), theCursor = Len(p) + 1,
         theTimeline' = Joined(<<>>, n, <<>>), theCursor' = Len(<<>>) + 1
  PROVE Line!Next
<1>1. theTimeline' = <<theTimeline[theCursor]>>
  BY JoinedAlone
<1>2. Len(<<>>) + 1 = 1
  BY EmptySeq
<1> QED BY <1>1, <1>2 DEF Line!Forget, Line!Next

LEMMA BackStep ==
  ASSUME NEW p \in Seq(Anything), NEW a \in Seq(Anything), NEW n \in Anything, NEW m \in Anything,
         theTimeline = Joined(Append(p, m), n, a), theCursor = Len(Append(p, m)) + 1,
         theTimeline' = Joined(p, m, <<n>> \o a), theCursor' = Len(p) + 1
  PROVE Line!Next
<1>1. /\ theTimeline' = theTimeline /\ theCursor = theCursor' + 1
      /\ Len(p) \in Nat
  BY JoinedMoves, LenProperties
<1>2. theCursor > 1 /\ theCursor' = theCursor - 1
  BY <1>1
<1> QED BY <1>1, <1>2 DEF Line!Back, Line!Next

LEMMA ForwardStep ==
  ASSUME NEW p \in Seq(Anything), NEW a \in Seq(Anything), NEW n \in Anything, NEW m \in Anything,
         theTimeline = Joined(p, n, <<m>> \o a), theCursor = Len(p) + 1,
         theTimeline' = Joined(Append(p, n), m, a), theCursor' = Len(Append(p, n)) + 1
  PROVE Line!Next
<1>1. /\ theTimeline' = theTimeline /\ theCursor' = theCursor + 1
      /\ Append(p, n) \in Seq(Anything) /\ Len(Append(p, n)) = Len(p) + 1
  BY JoinedMoves
<1>2. Len(theTimeline) = Len(p) + 1 + 1 + Len(a) /\ Len(a) \in Nat /\ Len(p) \in Nat
  <2>1. theTimeline = Joined(Append(p, n), m, a)
    BY <1>1
  <2>2. Len(Joined(Append(p, n), m, a)) = Len(Append(p, n)) + 1 + Len(a)
    BY <1>1, JoinedAlone
  <2> QED BY <1>1, <2>1, <2>2, LenProperties
<1>3. theCursor < Len(theTimeline)
  BY <1>2
<1> QED BY <1>1, <1>3 DEF Line!Forward, Line!Next

LEMMA SpoilBack ==
  ASSUME NEW p \in Seq(Anything), NEW a \in Seq(Anything), NEW n \in Anything, NEW m \in Anything,
         NEW c \in {n, Half},
         theTimeline = Joined(Append(p, m), n, a), theCursor = Len(Append(p, m)) + 1,
         theTimeline' = Joined(p, c, <<n>> \o a), theCursor' = Len(p) + 1
  PROVE Line!Next
<1>1. /\ Joined(p, m, <<n>> \o a) = theTimeline /\ theCursor = Len(p) + 2
      /\ <<n>> \o a \in Seq(Anything) /\ Append(p, m) \in Seq(Anything)
      /\ Len(p) \in Nat /\ Len(a) \in Nat /\ c \in Anything
      /\ Len(Append(p, m)) = Len(p) + 1
  <2>1. /\ Joined(p, m, <<n>> \o a) = theTimeline
        /\ <<n>> \o a \in Seq(Anything) /\ Append(p, m) \in Seq(Anything)
        /\ Len(Append(p, m)) = Len(p) + 1
    BY JoinedMoves
  <2>2. Len(p) \in Nat /\ Len(a) \in Nat
    BY LenProperties
  <2>3. c \in Anything
    BY DEF Anything
  <2> QED BY <2>1, <2>2, <2>3
<1>2. theTimeline[theCursor] = n /\ Len(theTimeline) = Len(p) + 1 + 1 + Len(a)
  <2>1. /\ Joined(Append(p, m), n, a)[Len(Append(p, m)) + 1] = n
        /\ Len(Joined(Append(p, m), n, a)) = Len(Append(p, m)) + 1 + Len(a)
    <3> DEFINE z == Append(p, m)
    <3>1. z \in Seq(Anything)
      BY <1>1
    <3> HIDE DEF z
    <3>2. /\ Joined(z, n, a)[Len(z) + 1] = n
          /\ Len(Joined(z, n, a)) = Len(z) + 1 + Len(a)
      BY ONLY <3>1, a \in Seq(Anything), n \in Anything, JoinedAlone
    <3> QED BY <3>2 DEF z
  <2> QED BY <1>1, <2>1
<1>3. Len(p) + 1 \in {theCursor - 1, theCursor + 1} \cap (1 .. Len(theTimeline))
  BY <1>1, <1>2
<1>4. theTimeline' = [theTimeline EXCEPT ![Len(p) + 1] = c]
  <2> DEFINE b == <<n>> \o a
  <2>1. b \in Seq(Anything)
    BY <1>1
  <2> HIDE DEF b
  <2>2. Joined(p, c, b) = [Joined(p, m, b) EXCEPT ![Len(p) + 1] = c]
    BY <1>1, <2>1, JoinedRewrites
  <2> QED BY <1>1, <2>2 DEF b
<1>5. Line!Spoil
  BY <1>2, <1>3, <1>4 DEF Line!Spoil
<1> QED BY <1>5 DEF Line!Next

LEMMA SpoilForward ==
  ASSUME NEW p \in Seq(Anything), NEW a \in Seq(Anything), NEW n \in Anything, NEW m \in Anything,
         NEW c \in {n, Half},
         theTimeline = Joined(p, n, <<m>> \o a), theCursor = Len(p) + 1,
         theTimeline' = Joined(Append(p, n), c, a), theCursor' = Len(Append(p, n)) + 1
  PROVE Line!Next
<1>1. /\ Joined(Append(p, n), m, a) = theTimeline /\ theCursor' = Len(p) + 2
      /\ Append(p, n) \in Seq(Anything) /\ Len(Append(p, n)) = Len(p) + 1
      /\ Len(p) \in Nat /\ Len(a) \in Nat /\ c \in Anything
      /\ <<m>> \o a \in Seq(Anything)
  <2>1. /\ Joined(Append(p, n), m, a) = theTimeline
        /\ <<m>> \o a \in Seq(Anything) /\ Append(p, n) \in Seq(Anything)
        /\ Len(Append(p, n)) = Len(p) + 1
    BY JoinedMoves
  <2>2. Len(p) \in Nat /\ Len(a) \in Nat
    BY LenProperties
  <2>3. c \in Anything
    BY DEF Anything
  <2> QED BY <2>1, <2>2, <2>3
<1>2. theTimeline[theCursor] = n
  <2>1. Joined(p, n, <<m>> \o a)[Len(p) + 1] = n
    BY <1>1, JoinedAlone
  <2> QED BY <2>1
<1>3. Len(theTimeline) = (Len(p) + 1) + 1 + Len(a)
  <2>1. Len(Joined(Append(p, n), m, a)) = Len(Append(p, n)) + 1 + Len(a)
    BY <1>1, JoinedAlone
  <2> QED BY <1>1, <2>1
<1>4. Len(p) + 2 \in {theCursor - 1, theCursor + 1} \cap (1 .. Len(theTimeline))
  BY <1>1, <1>3
<1>5. theTimeline' = [theTimeline EXCEPT ![Len(Append(p, n)) + 1] = c]
  <2> DEFINE q == Append(p, n)
  <2>1. q \in Seq(Anything)
    BY <1>1
  <2> HIDE DEF q
  <2>2. Joined(q, c, a) = [Joined(q, m, a) EXCEPT ![Len(q) + 1] = c]
    BY <1>1, <2>1, JoinedRewrites
  <2> QED BY <1>1, <2>2 DEF q
<1>6. Len(Append(p, n)) + 1 = Len(p) + 2
  BY <1>1
<1>7. Line!Spoil
  BY <1>1, <1>2, <1>4, <1>5, <1>6 DEF Line!Spoil
<1> QED BY <1>7 DEF Line!Next

(* What each request puts on the line. *)
Busy == {"changing", "recording", "recording again", "taken", "rebuilding"}

Past(q, u) == IF q.at \notin Busy THEN u
              ELSE IF q.way = "undo" THEN Append(u, q.entry)
              ELSE IF q.way = "redo" /\ q.at = "rebuilding" THEN Front(u)
              ELSE u
Present(q, g) == IF q.at \notin Busy THEN g
                 ELSE IF q.way = "none" THEN q.pre
                 ELSE IF q.at = "rebuilding" THEN q.now ELSE g
Ahead(q, d) == IF q.at \notin Busy THEN Reverse(d)
               ELSE IF q.way = "undo" /\ q.at = "rebuilding" THEN Reverse(Front(d))
               ELSE IF q.way = "redo" THEN <<q.entry>> \o Reverse(d)
               ELSE Reverse(d)

Shown(r) ==
  /\ theTimeline = Joined(Past(req[r], undoStack), Present(req[r], graph),
                          Ahead(req[r], redoStack))
  /\ theCursor = Len(Past(req[r], undoStack)) + 1

LEMMA ShownNow ==
  ASSUME Typed, NEW r \in Requests, \A q \in Requests \ {r} : req[q].at = "idle"
  PROVE Shown(r)
<1>1. Active = IF req[r].at \in Busy THEN {r} ELSE {}
  BY DEF Active, Busy
<1>2. req[r].way \in {"undo", "redo", "none"}
  BY DEF Typed, Request
<1>3. TheLine = [past |-> Past(req[r], undoStack), now |-> Present(req[r], graph),
                 ahead |-> Ahead(req[r], redoStack)]
  <2>1. CASE req[r].at \notin Busy
    BY <1>1, <2>1 DEF TheLine, Past, Present, Ahead
  <2>2. CASE req[r].at \in Busy
    <3>1. Active # {} /\ (CHOOSE x \in Active : TRUE) = r
      BY <1>1, <2>2
    <3> QED BY <1>2, <2>2, <3>1 DEF TheLine, Past, Present, Ahead
  <2> QED BY <2>1, <2>2
<1> QED BY <1>3 DEF Shown, theTimeline, theCursor, Joined

LEMMA ShownNext ==
  ASSUME Typed', NEW r \in Requests, \A q \in Requests \ {r} : req'[q].at = "idle"
  PROVE Shown(r)'
<1>1. Active' = IF req'[r].at \in Busy THEN {r} ELSE {}
  BY DEF Active, Busy
<1>2. req'[r].way \in {"undo", "redo", "none"}
  BY DEF Typed, Request
<1>3. TheLine' = [past |-> Past(req'[r], undoStack'), now |-> Present(req'[r], graph'),
                  ahead |-> Ahead(req'[r], redoStack')]
  <2>1. CASE req'[r].at \notin Busy
    BY <1>1, <2>1 DEF TheLine, Past, Present, Ahead
  <2>2. CASE req'[r].at \in Busy
    <3>1. Active' # {} /\ (CHOOSE x \in Active' : TRUE) = r
      BY <1>1, <2>2
    <3> QED BY <1>2, <2>2, <3>1 DEF TheLine, Past, Present, Ahead
  <2> QED BY <2>1, <2>2
<1> QED BY <1>3 DEF Shown, theTimeline, theCursor, Joined

(* What makes the two stacks one line: room for what an undo or redo has taken, *)
(* and what a request has read or put away is where the line shows it.          *)
Fits(r) == Len(undoStack) + Len(redoStack)
           + (IF req[r].at = "taken" THEN 1 ELSE 0) <= MaxStack

OnLine(r) ==
  /\ req[r].at = "capturing" => req[r].pre = graph
  /\ req[r].at \in {"changing", "recording", "recording again"} => req[r].way = "none"
  /\ req[r].at \in {"taken", "rebuilding"} => req[r].way \in {"undo", "redo"} /\ restoring
  /\ req[r].at = "rebuilding" =>
       /\ req[r].way = "undo" => redoStack # <<>> /\ Last(redoStack) = req[r].now
       /\ req[r].way = "redo" => undoStack # <<>> /\ Last(undoStack) = req[r].now

LineInv == Regular => \A r \in Requests : Fits(r) /\ OnLine(r)

Before(r) == Typed /\ Shown(r) /\ Fits(r) /\ OnLine(r)

Proceeds(r) == /\ Fits(r)' /\ OnLine(r)'
               /\ Line!Next \/ UNCHANGED <<theTimeline, theCursor>>

(* A request at a place of its own shows the stacks as they are. *)
LEMMA PlainNow ==
  ASSUME NEW r \in Requests, Shown(r), Typed, req[r].at \notin Busy
  PROVE /\ theTimeline = Joined(undoStack, graph, Reverse(redoStack))
        /\ theCursor = Len(undoStack) + 1
BY DEF Shown, Past, Present, Ahead

LEMMA PlainNext ==
  ASSUME NEW r \in Requests, Shown(r)', req'[r].at \notin Busy
  PROVE /\ theTimeline' = Joined(undoStack', graph', Reverse(redoStack'))
        /\ theCursor' = Len(undoStack') + 1
BY DEF Shown, Past, Present, Ahead

LEMMA EditNow ==
  ASSUME NEW r \in Requests, Shown(r),
         req[r].at \in {"changing", "recording", "recording again"}, req[r].way = "none"
  PROVE /\ theTimeline = Joined(undoStack, req[r].pre, Reverse(redoStack))
        /\ theCursor = Len(undoStack) + 1
BY DEF Shown, Past, Present, Ahead, Busy

LEMMA EditNext ==
  ASSUME NEW r \in Requests, Shown(r)',
         req'[r].at \in {"changing", "recording", "recording again"}, req'[r].way = "none"
  PROVE /\ theTimeline' = Joined(undoStack', req'[r].pre, Reverse(redoStack'))
        /\ theCursor' = Len(undoStack') + 1
BY DEF Shown, Past, Present, Ahead, Busy

LEMMA StackTypes ==
  ASSUME Typed
  PROVE /\ undoStack \in Seq(Anything) /\ redoStack \in Seq(Anything)
        /\ Reverse(redoStack) \in Seq(Anything) /\ graph \in Anything
        /\ Len(undoStack) \in Nat /\ Len(redoStack) \in Nat
        /\ Len(undoStack) <= MaxStack /\ Len(redoStack) <= MaxStack
        /\ MaxStack \in Nat \ {0}
BY ReverseType, LenProperties, HistoryAssumption DEF Typed, Stack

(* The stacks a request leaves alone leave its room alone. *)
LEMMA FitsStays ==
  ASSUME NEW r \in Requests, Fits(r), UNCHANGED stacks, Typed,
         req'[r].at # "taken" \/ req[r].at = "taken"
  PROVE Fits(r)'
BY StackTypes DEF Fits, stacks

LEMMA RecordFits ==
  ASSUME NEW r \in Requests, Typed, NEW c \in Anything, Record(c), req'[r].at # "taken"
  PROVE Fits(r)' /\ Reverse(redoStack') = <<>> /\ undoStack' = Push(undoStack, c)
<1>1. Push(undoStack, c) \in Stack
  BY PushType DEF Typed
<1>2. Len(undoStack') <= MaxStack /\ Len(undoStack') \in Nat
  BY <1>1, LenProperties DEF Record, Stack
<1>3. Len(redoStack') = 0
  BY EmptySeq DEF Record
<1>4. Len(undoStack') + Len(redoStack') + 0 <= MaxStack
  BY <1>2, <1>3, HistoryAssumption
<1> QED BY <1>4, ReverseEmpty DEF Fits, Record

LEMMA StartParts ==
  ASSUME Typed, NEW r \in Requests, NEW kind, NEW place, NEW read, Starts(r, kind, place, read)
  PROVE /\ req[r].at = "idle" /\ req'[r].at = place /\ req'[r].pre = read
        /\ req'[r].way = "none"
<1>1. req'[r] = [Idle EXCEPT !.at = place, !.kind = kind, !.pre = read, !.prior = track]
  BY DEF Typed, Starts
<1>2. req'[r].at = place /\ req'[r].pre = read /\ req'[r].way = "none"
  BY <1>1 DEF Idle
<1> QED BY <1>2 DEF Starts, Arrives

LEMMA GoesParts ==
  ASSUME Typed, NEW r \in Requests, NEW place, Goes(r, place)
  PROVE /\ req'[r].at = place /\ req'[r].pre = req[r].pre
        /\ req'[r].way = req[r].way
<1>1. req[r] \in Request /\ req'[r] = [req[r] EXCEPT !.at = place]
  BY DEF Typed, Goes
<1> QED BY <1>1 DEF Request

LEMMA EndsParts ==
  ASSUME Typed, NEW r \in Requests, Ends(r)
  PROVE req'[r].at = "idle"
BY DEF Typed, Ends, Idle

LEMMA TakesParts ==
  ASSUME Typed, NEW r \in Requests, NEW way, NEW c,
         \/ \E kind : req' = [req EXCEPT ![r] = [Idle EXCEPT !.at = "taken", !.kind = kind,
                                                  !.way = way, !.entry = c]]
         \/ req' = [req EXCEPT ![r].at = "taken", ![r].way = way, ![r].entry = c]
  PROVE req'[r].at = "taken" /\ req'[r].way = way /\ req'[r].entry = c
<1>1. CASE \E kind : req' = [req EXCEPT ![r] = [Idle EXCEPT !.at = "taken", !.kind = kind,
                                                  !.way = way, !.entry = c]]
  <2>1. PICK kind : req' = [req EXCEPT ![r] = [Idle EXCEPT !.at = "taken", !.kind = kind,
                                                  !.way = way, !.entry = c]]
    BY <1>1
  <2>2. req'[r] = [Idle EXCEPT !.at = "taken", !.kind = kind, !.way = way, !.entry = c]
    BY <2>1 DEF Typed
  <2> QED BY <2>2 DEF Idle
<1>2. CASE req' = [req EXCEPT ![r].at = "taken", ![r].way = way, ![r].entry = c]
  <2>1. /\ req[r] \in Request
        /\ req'[r] = [req[r] EXCEPT !.at = "taken", !.way = way, !.entry = c]
    BY <1>2 DEF Typed
  <2>2. DOMAIN req[r] = {"at", "kind", "pre", "way", "entry", "now", "prior"}
    BY <2>1 DEF Request
  <2> QED BY <2>1, <2>2
<1> QED BY <1>1, <1>2

LEMMA RebuildsParts ==
  ASSUME Typed, NEW r \in Requests, NEW c,
         req' = [req EXCEPT ![r].at = "rebuilding", ![r].now = c]
  PROVE /\ req'[r].at = "rebuilding" /\ req'[r].way = req[r].way
        /\ req'[r].now = c /\ req'[r].entry = req[r].entry
<1>1. /\ req[r] \in Request
      /\ req'[r] = [req[r] EXCEPT !.at = "rebuilding", !.now = c]
  BY DEF Typed
<1>2. DOMAIN req[r] = {"at", "kind", "pre", "way", "entry", "now", "prior"}
  BY <1>1 DEF Request
<1>3. req'[r].at = "rebuilding"
  BY ONLY <1>1, <1>2
<1>4. req'[r].way = req[r].way
  BY ONLY <1>1, <1>2
<1>5. req'[r].now = c
  BY ONLY <1>1, <1>2
<1>6. req'[r].entry = req[r].entry
  BY ONLY <1>1, <1>2
<1> QED BY ONLY <1>3, <1>4, <1>5, <1>6

(* A step that keeps the request plain and the stacks changes the content only. *)
LEMMA PlainStep ==
  ASSUME NEW r \in Requests, Before(r), Shown(r)', Typed', UNCHANGED stacks,
         req[r].at \notin Busy, req'[r].at \notin Busy \cup {"capturing"}
  PROVE Proceeds(r)
<1>1. /\ theTimeline = Joined(undoStack, graph, Reverse(redoStack))
      /\ theCursor = Len(undoStack) + 1
  BY PlainNow DEF Before
<1>2. /\ theTimeline' = Joined(undoStack, graph', Reverse(redoStack))
      /\ theCursor' = Len(undoStack) + 1
  BY PlainNext DEF stacks
<1>3. graph' \in Anything
  BY DEF Typed
<1>4. Line!Next
  BY <1>1, <1>2, <1>3, StackTypes, RewriteStep DEF Before
<1>5. Fits(r)'
  BY FitsStays DEF Before, Busy
<1> QED BY <1>4, <1>5 DEF Proceeds, OnLine, Busy

(* A change that nothing tells of: stacks and the content as they were. *)
LEMMA ReadingStep ==
  ASSUME NEW r \in Requests, Before(r), Shown(r)', UNCHANGED stacks, UNCHANGED graph,
         req[r].at \notin Busy,
         \/ req'[r].at \notin Busy
         \/ /\ req'[r].at \in {"changing", "recording", "recording again"}
            /\ req'[r].way = "none" /\ req'[r].pre = graph
  PROVE Fits(r)' /\ UNCHANGED <<theTimeline, theCursor>>
<1>1. /\ theTimeline = Joined(undoStack, graph, Reverse(redoStack))
      /\ theCursor = Len(undoStack) + 1
  BY PlainNow DEF Before
<1>2. /\ theTimeline' = Joined(undoStack, graph, Reverse(redoStack))
      /\ theCursor' = Len(undoStack) + 1
  BY PlainNext, EditNext DEF stacks
<1>3. Fits(r)'
  BY FitsStays DEF Before, Busy
<1> QED BY <1>1, <1>2, <1>3

LEMMA SnapshotSteps ==
  ASSUME NEW r \in Requests, Before(r), Shown(r)', Typed'
  PROVE /\ (\E kind \in AllKinds : SnapshotStart(r, kind)) => Proceeds(r)
        /\ SnapshotCapture(r) => Proceeds(r)
        /\ SnapshotApply(r) \/ DiffApply(r) => Proceeds(r)
<1>0. Typed
  BY DEF Before
<1>1. ASSUME NEW kind \in AllKinds, SnapshotStart(r, kind) PROVE Proceeds(r)
  <2>1. /\ req[r].at = "idle" /\ req'[r].at \in {"applying", "capturing"}
        /\ req'[r].pre = graph /\ graph' = graph /\ UNCHANGED stacks
    BY <1>0, <1>1, StartParts DEF SnapshotStart
  <2>2. Fits(r)' /\ UNCHANGED <<theTimeline, theCursor>>
    BY <2>1, ReadingStep DEF Busy
  <2> QED BY <2>1, <2>2 DEF Proceeds, OnLine
<1>2. ASSUME SnapshotCapture(r) PROVE Proceeds(r)
  <2>1. /\ req[r].at = "capturing" /\ req'[r].at = "applying" /\ graph' = graph
        /\ req[r].pre = graph
    BY <1>0, <1>2, NotedParts DEF SnapshotCapture, At, Before, OnLine
  <2>2. CASE UNCHANGED stacks
    BY <2>1, <2>2, PlainStep DEF Busy
  <2>3. CASE Record(graph)
    <3>1. Fits(r)' /\ Reverse(redoStack') = <<>> /\ undoStack' = Push(undoStack, graph)
      BY <1>0, <2>1, <2>3, RecordFits, StackTypes
    <3>2. /\ theTimeline = Joined(undoStack, graph, Reverse(redoStack))
          /\ theCursor = Len(undoStack) + 1
      BY <2>1, PlainNow DEF Before, Busy
    <3>3. /\ theTimeline' = Joined(Push(undoStack, graph), graph, <<>>)
          /\ theCursor' = Len(Push(undoStack, graph)) + 1
      BY <2>1, <3>1, PlainNext DEF Busy
    <3>4. undoStack \in Stack
      BY <1>0 DEF Typed
    <3>5. Line!Next
      BY <1>0, <3>2, <3>3, <3>4, StackTypes, DoesStep
    <3> QED BY <2>1, <3>1, <3>5 DEF Proceeds, OnLine
  <2> QED BY <1>2, <2>1, <2>2, <2>3 DEF SnapshotCapture
<1>3. ASSUME SnapshotApply(r) \/ DiffApply(r) PROVE Proceeds(r)
  <2>1. /\ req[r].at = "applying" /\ req'[r].at \in {"idle", "rolling back"}
        /\ UNCHANGED stacks
    BY <1>0, <1>3, EndsParts, GoesParts DEF SnapshotApply, DiffApply, At
  <2> QED BY <2>1, PlainStep DEF Busy
<1> QED BY <1>1, <1>2, <1>3

LEMMA CompareSteps ==
  ASSUME NEW r \in Requests, Before(r), Shown(r)', Typed'
  PROVE /\ (\E kind \in AllKinds : CompareStart(r, kind)) => Proceeds(r)
        /\ AddStart(r) => Proceeds(r)
        /\ Change(r) => Proceeds(r)
        /\ UntrackedChange(r) => Proceeds(r)
        /\ CompareRecord(r) => Proceeds(r)
        /\ SilentChange(r) => Proceeds(r)
<1>0. Typed
  BY DEF Before
<1>1. ASSUME NEW kind \in AllKinds, CompareStart(r, kind) PROVE Proceeds(r)
  <2>1. /\ req[r].at = "idle" /\ req'[r].at \in {"applying", "changing"}
        /\ req'[r].pre = graph /\ req'[r].way = "none" /\ graph' = graph /\ UNCHANGED stacks
    BY <1>0, <1>1, StartParts DEF CompareStart
  <2>2. Fits(r)' /\ UNCHANGED <<theTimeline, theCursor>>
    BY <2>1, ReadingStep DEF Busy
  <2> QED BY <2>1, <2>2 DEF Proceeds, OnLine
<1>2. ASSUME AddStart(r) PROVE Proceeds(r)
  <2>1. /\ req[r].at = "idle" /\ req'[r].at \in {"applying", "changing"}
        /\ req'[r].pre = graph' /\ req'[r].way = "none" /\ UNCHANGED stacks
    BY <1>0, <1>2, StartParts DEF AddStart
  <2>2. /\ theTimeline = Joined(undoStack, graph, Reverse(redoStack))
        /\ theCursor = Len(undoStack) + 1
    BY <2>1, PlainNow DEF Before, Busy
  <2>3. /\ theTimeline' = Joined(undoStack, graph', Reverse(redoStack))
        /\ theCursor' = Len(undoStack) + 1
    BY <2>1, PlainNext, EditNext DEF stacks, Busy
  <2>4. Fits(r)'
    BY <2>1, FitsStays DEF Before
  <2>5. graph' \in Anything
    BY DEF Typed
  <2>6. Line!Next
    BY <1>0, <2>2, <2>3, <2>5, StackTypes, RewriteStep
  <2> QED BY <2>1, <2>4, <2>6 DEF Proceeds, OnLine
<1>3. ASSUME Change(r) PROVE Proceeds(r)
  <2>1. /\ req[r].at = "changing" /\ req[r].way = "none" /\ UNCHANGED stacks
    BY <1>3 DEF Change, At, Before, OnLine
  <2>2. /\ theTimeline = Joined(undoStack, req[r].pre, Reverse(redoStack))
        /\ theCursor = Len(undoStack) + 1
    BY <2>1, EditNow DEF Before
  <2>3. CASE Goes(r, "recording")
    <3>1. /\ req'[r].at = "recording" /\ req'[r].pre = req[r].pre /\ req'[r].way = "none"
      BY <1>0, <2>1, <2>3, GoesParts
    <3>2. UNCHANGED <<theTimeline, theCursor>>
      BY <2>1, <2>2, <3>1, EditNext DEF stacks
    <3>3. Fits(r)'
      BY <2>1, <3>1, FitsStays DEF Before
    <3> QED BY <3>1, <3>2, <3>3 DEF Proceeds, OnLine
  <2>4. CASE Ends(r)
    <3>1. req'[r].at = "idle"
      BY <1>0, <2>4, EndsParts
    <3>2. /\ theTimeline' = Joined(undoStack, graph', Reverse(redoStack))
          /\ theCursor' = Len(undoStack) + 1
      BY <2>1, <3>1, PlainNext DEF stacks, Busy
    <3>3. Fits(r)'
      BY <2>1, <3>1, FitsStays DEF Before
    <3>4. graph' \in Anything /\ req[r].pre \in Anything
      BY <1>0, PartsType DEF Typed
    <3>5. Line!Next
      BY <1>0, <2>2, <3>2, <3>4, StackTypes, RewriteStep
    <3> QED BY <3>1, <3>3, <3>5 DEF Proceeds, OnLine
  <2> QED BY <1>3, <2>3, <2>4 DEF Change
<1>4. ASSUME UntrackedChange(r) PROVE Proceeds(r)
  <2>1. /\ req[r].at = "applying" /\ req'[r].at = "idle" /\ UNCHANGED stacks
    BY <1>0, <1>4, EndsParts DEF UntrackedChange, At
  <2> QED BY <2>1, PlainStep DEF Busy
<1>5. ASSUME CompareRecord(r) PROVE Proceeds(r)
  <2>1. /\ req[r].at \in {"recording", "recording again"} /\ req[r].way = "none"
        /\ graph' = graph
    BY <1>5 DEF CompareRecord, At, Before, OnLine
  <2>2. /\ theTimeline = Joined(undoStack, req[r].pre, Reverse(redoStack))
        /\ theCursor = Len(undoStack) + 1
    BY <2>1, EditNow DEF Before
  <2>3. \/ /\ req'[r].at = "recording again" /\ req'[r].pre = req[r].pre
           /\ req'[r].way = "none"
        \/ req'[r].at = "idle"
    BY <1>0, <1>5, <2>1, GoesParts, EndsParts DEF CompareRecord
  <2>4. PICK c \in {req[r].pre, graph} :
          /\ req'[r].at = "recording again" => c = req[r].pre
          /\ theTimeline' = Joined(undoStack', c, Reverse(redoStack'))
          /\ theCursor' = Len(undoStack') + 1
    BY <2>1, <2>3, PlainNext, EditNext DEF Busy
  <2>5. c \in Anything /\ req[r].pre \in Anything /\ undoStack \in Stack
    BY <1>0, PartsType, StackTypes DEF Typed
  <2>6. OnLine(r)'
    BY <2>3 DEF OnLine
  <2>7. CASE Record(req[r].pre)
    <3>1. /\ Fits(r)' /\ Reverse(redoStack') = <<>>
          /\ undoStack' = Push(undoStack, req[r].pre)
      BY <1>0, <2>3, <2>5, <2>7, RecordFits
    <3>2. Line!Next
      BY <1>0, <2>2, <2>4, <2>5, <3>1, StackTypes, DoesStep
    <3> QED BY <2>6, <3>1, <3>2 DEF Proceeds
  <2>8. CASE UNCHANGED stacks
    <3>1. Fits(r)'
      BY <2>3, <2>8, FitsStays DEF Before
    <3>2. /\ theTimeline' = Joined(undoStack, c, Reverse(redoStack))
          /\ theCursor' = Len(undoStack) + 1
      BY <2>4, <2>8 DEF stacks
    <3>3. Line!Next
      BY <1>0, <2>2, <2>5, <3>2, StackTypes, RewriteStep
    <3> QED BY <2>6, <3>1, <3>3 DEF Proceeds
  <2> QED BY <1>5, <2>7, <2>8 DEF CompareRecord
<1>6. ASSUME SilentChange(r) PROVE Proceeds(r)
  <2>1. /\ req[r].at = "idle" /\ req'[r].at = "idle" /\ UNCHANGED stacks
    BY <1>6 DEF SilentChange, AtOnce, Arrives
  <2> QED BY <2>1, PlainStep DEF Busy
<1> QED BY <1>1, <1>2, <1>3, <1>4, <1>5, <1>6

(* An entry taken from a stack is where the line shows it. *)
LEMMA TakeStep ==
  ASSUME NEW r \in Requests, Before(r), Shown(r)', Typed', NEW way \in {"undo", "redo"},
         req[r].at \notin Busy, HasEntry(way), TakeEntry(r, way),
         req'[r].at = "taken", req'[r].way = way, req'[r].entry = EntryOf(way)
  PROVE Proceeds(r)
<1>0. /\ Typed /\ Fits(r) /\ req[r].at # "taken"
      /\ theTimeline = Joined(undoStack, graph, Reverse(redoStack))
      /\ theCursor = Len(undoStack) + 1
      /\ graph' = graph
  BY PlainNow DEF Before, Busy, TakeEntry
<1>1. CASE way = "undo"
  <2>1. /\ undoStack = Append(undoStack', req'[r].entry) /\ redoStack' = redoStack
        /\ Len(undoStack') = Len(undoStack) - 1
    BY <1>0, <1>1, StackTypes, FrontAndLast DEF HasEntry, TakeEntry, EntryOf
  <2>2. /\ theTimeline' = Joined(Append(undoStack', req'[r].entry), graph', Reverse(redoStack'))
        /\ theCursor' = Len(Append(undoStack', req'[r].entry)) + 1
    BY <1>1 DEF Shown, Past, Present, Ahead, Busy
  <2>3. UNCHANGED <<theTimeline, theCursor>>
    BY <1>0, <2>1, <2>2
  <2>4. Fits(r)'
    BY <1>0, <2>1, StackTypes DEF Fits
  <2> QED BY <1>1, <2>3, <2>4 DEF Proceeds, OnLine, TakeEntry
<1>2. CASE way = "redo"
  <2>1. /\ redoStack = Append(redoStack', req'[r].entry) /\ undoStack' = undoStack
        /\ Len(redoStack') = Len(redoStack) - 1 /\ redoStack' \in Seq(Anything)
        /\ req'[r].entry \in Anything
    BY <1>0, <1>2, StackTypes, FrontAndLast DEF HasEntry, TakeEntry, EntryOf
  <2>2. Reverse(redoStack) = <<req'[r].entry>> \o Reverse(redoStack')
    BY <2>1, ReverseAppend
  <2>3. /\ theTimeline' = Joined(undoStack', graph', <<req'[r].entry>> \o Reverse(redoStack'))
        /\ theCursor' = Len(undoStack') + 1
    BY <1>2 DEF Shown, Past, Present, Ahead, Busy
  <2>4. UNCHANGED <<theTimeline, theCursor>>
    BY <1>0, <2>1, <2>2, <2>3
  <2>5. Fits(r)'
    BY <1>0, <2>1, StackTypes DEF Fits
  <2> QED BY <1>2, <2>4, <2>5 DEF Proceeds, OnLine, TakeEntry
<1> QED BY <1>1, <1>2

(* The present content finds room on the other stack, since the entry left one  *)
(* of them: the line is as it was while the flow is rebuilt, and spoilt when    *)
(* the entry cannot be read.                                                    *)
LEMMA StashStep ==
  ASSUME NEW r \in Requests, Before(r), Shown(r)', Typed', Stash(r)
  PROVE Proceeds(r)
<1>0. /\ Typed /\ Fits(r) /\ req[r].at = "taken" /\ req[r].way \in {"undo", "redo"}
      /\ req[r].entry \in Anything
  BY PartsType DEF Before, OnLine, Stash, At
<1>1. /\ Len(undoStack) # MaxStack /\ Len(redoStack) # MaxStack
      /\ Len(undoStack) + Len(redoStack) + 1 <= MaxStack
  BY <1>0, StackTypes DEF Fits
<1>2. \/ /\ req'[r].at = "rebuilding" /\ req'[r].way = req[r].way
         /\ req'[r].now = graph /\ req'[r].entry = req[r].entry
         /\ restoring' = restoring
      \/ /\ req'[r].at = "idle" /\ graph' = graph
  BY <1>0, RebuildsParts, EndsParts DEF Stash
<1>3. CASE req[r].way = "undo"
  <2>1. redoStack' = Append(redoStack, graph) /\ undoStack' = undoStack
    BY <1>0, <1>1, <1>3 DEF Stash, Push
  <2>2. /\ redoStack' # <<>> /\ Last(redoStack') = graph /\ Front(redoStack') = redoStack
        /\ Len(redoStack') = Len(redoStack) + 1
        /\ Reverse(redoStack') = <<graph>> \o Reverse(redoStack)
    <3>1. redoStack \in Seq(Anything) /\ graph \in Anything
      BY <1>0, StackTypes
    <3>2. redoStack' # <<>> /\ Len(redoStack') = Len(redoStack) + 1
      BY <2>1, <3>1, AppendProperties
    <3>3. Last(redoStack') = graph /\ Front(redoStack') = redoStack
      BY <2>1, <3>1, FrontOfAppend
    <3>4. Reverse(redoStack') = <<graph>> \o Reverse(redoStack)
      BY <2>1, <3>1, ReverseAppend
    <3> QED BY <3>2, <3>3, <3>4
  <2>3. /\ theTimeline = Joined(Append(undoStack, req[r].entry), graph, Reverse(redoStack))
        /\ theCursor = Len(Append(undoStack, req[r].entry)) + 1
    BY <1>0, <1>3 DEF Before, Shown, Past, Present, Ahead, Busy
  <2>4. Fits(r)'
    BY <1>0, <1>1, <1>2, <2>1, <2>2, StackTypes DEF Fits
  <2>5. CASE req'[r].at = "rebuilding"
    <3>1. /\ theTimeline' = Joined(Append(undoStack', req'[r].entry), req'[r].now,
                                   Reverse(Front(redoStack')))
          /\ theCursor' = Len(Append(undoStack', req'[r].entry)) + 1
      BY <1>2, <1>3, <2>5 DEF Shown, Past, Present, Ahead, Busy
    <3>2. UNCHANGED <<theTimeline, theCursor>>
      BY <1>2, <2>1, <2>2, <2>3, <2>5, <3>1
    <3>3. restoring
      BY <1>0 DEF Before, OnLine
    <3> QED BY <1>2, <1>3, <2>2, <2>4, <2>5, <3>2, <3>3 DEF Proceeds, OnLine
  <2>6. CASE req'[r].at = "idle"
    <3>1. /\ theTimeline' = Joined(undoStack, graph, <<graph>> \o Reverse(redoStack))
          /\ theCursor' = Len(undoStack) + 1
      BY <1>2, <2>1, <2>2, <2>6, PlainNext DEF Busy
    <3>2. Line!Next
      BY <1>0, <2>3, <3>1, StackTypes, SpoilBack
    <3> QED BY <2>4, <2>6, <3>2 DEF Proceeds, OnLine
  <2> QED BY <1>2, <2>5, <2>6
<1>4. CASE req[r].way = "redo"
  <2>1. undoStack' = Append(undoStack, graph) /\ redoStack' = redoStack
    BY <1>0, <1>1, <1>4 DEF Stash, Push
  <2>2. /\ undoStack' # <<>> /\ Last(undoStack') = graph /\ Front(undoStack') = undoStack
        /\ Len(undoStack') = Len(undoStack) + 1
    <3>1. undoStack \in Seq(Anything) /\ graph \in Anything
      BY <1>0, StackTypes
    <3> QED BY <2>1, <3>1, AppendProperties, FrontOfAppend
  <2>3. /\ theTimeline = Joined(undoStack, graph, <<req[r].entry>> \o Reverse(redoStack))
        /\ theCursor = Len(undoStack) + 1
    BY <1>0, <1>4 DEF Before, Shown, Past, Present, Ahead, Busy
  <2>4. Fits(r)'
    BY <1>0, <1>1, <1>2, <2>1, <2>2, StackTypes DEF Fits
  <2>5. CASE req'[r].at = "rebuilding"
    <3>1. /\ theTimeline' = Joined(Front(undoStack'), req'[r].now,
                                   <<req'[r].entry>> \o Reverse(redoStack'))
          /\ theCursor' = Len(Front(undoStack')) + 1
      BY <1>2, <1>4, <2>5 DEF Shown, Past, Present, Ahead, Busy
    <3>2. UNCHANGED <<theTimeline, theCursor>>
      BY <1>2, <2>1, <2>2, <2>3, <2>5, <3>1
    <3>3. restoring
      BY <1>0 DEF Before, OnLine
    <3> QED BY <1>2, <1>4, <2>2, <2>4, <2>5, <3>2, <3>3 DEF Proceeds, OnLine
  <2>6. CASE req'[r].at = "idle"
    <3>1. /\ theTimeline' = Joined(Append(undoStack, graph), graph, Reverse(redoStack))
          /\ theCursor' = Len(Append(undoStack, graph)) + 1
      BY <1>2, <2>1, <2>2, <2>6, PlainNext DEF Busy
    <3>2. Line!Next
      BY <1>0, <2>3, <3>1, StackTypes, SpoilForward
    <3> QED BY <2>4, <2>6, <3>2 DEF Proceeds, OnLine
  <2> QED BY <1>2, <2>5, <2>6
<1> QED BY <1>0, <1>3, <1>4

(* The entry becomes the content, or half of one does. *)
LEMMA RebuildStep ==
  ASSUME NEW r \in Requests, Before(r), Shown(r)', Typed', Rebuild(r)
  PROVE Proceeds(r)
<1>0. /\ Typed /\ Fits(r) /\ req[r].at = "rebuilding" /\ req[r].way \in {"undo", "redo"}
      /\ req[r].entry \in Anything /\ req[r].now \in Anything /\ restoring
      /\ req'[r].at = "idle" /\ UNCHANGED stacks /\ graph' \in {req[r].entry, Half}
  BY PartsType, EndsParts DEF Before, OnLine, Rebuild, At
<1>1. Fits(r)'
  BY <1>0, FitsStays
<1>2. /\ theTimeline' = Joined(undoStack, graph', Reverse(redoStack))
      /\ theCursor' = Len(undoStack) + 1
  BY <1>0, PlainNext DEF Busy, stacks
<1>3. CASE req[r].way = "undo"
  <2> DEFINE rest == Front(redoStack)
  <2>1. /\ redoStack = Append(rest, req[r].now) /\ rest \in Seq(Anything)
    BY <1>0, <1>3, StackTypes, FrontAndLast DEF Before, OnLine
  <2>2. /\ theTimeline = Joined(Append(undoStack, req[r].entry), req[r].now, Reverse(rest))
        /\ theCursor = Len(Append(undoStack, req[r].entry)) + 1
    BY <1>0, <1>3 DEF Before, Shown, Past, Present, Ahead, Busy
  <2> HIDE DEF rest
  <2>3. Reverse(redoStack) = <<req[r].now>> \o Reverse(rest) /\ Reverse(rest) \in Seq(Anything)
    BY <1>0, <2>1, ReverseAppend, ReverseType
  <2>4. CASE graph' = req[r].entry
    <3>1. Line!Next
      BY <1>0, <1>2, <2>2, <2>3, <2>4, StackTypes, BackStep
    <3> QED BY <1>0, <1>1, <3>1 DEF Proceeds, OnLine
  <2>5. CASE graph' = Half
    <3>1. Line!Next
      BY <1>0, <1>2, <2>2, <2>3, <2>5, StackTypes, SpoilBack
    <3> QED BY <1>0, <1>1, <3>1 DEF Proceeds, OnLine
  <2> QED BY <1>0, <2>4, <2>5
<1>4. CASE req[r].way = "redo"
  <2> DEFINE rest == Front(undoStack)
  <2>1. /\ undoStack = Append(rest, req[r].now) /\ rest \in Seq(Anything)
    BY <1>0, <1>4, StackTypes, FrontAndLast DEF Before, OnLine
  <2>2. /\ theTimeline = Joined(rest, req[r].now, <<req[r].entry>> \o Reverse(redoStack))
        /\ theCursor = Len(rest) + 1
    BY <1>0, <1>4 DEF Before, Shown, Past, Present, Ahead, Busy
  <2> HIDE DEF rest
  <2>3. CASE graph' = req[r].entry
    <3>1. Line!Next
      BY <1>0, <1>2, <2>1, <2>2, <2>3, StackTypes, ForwardStep
    <3> QED BY <1>0, <1>1, <3>1 DEF Proceeds, OnLine
  <2>4. CASE graph' = Half
    <3>1. Line!Next
      BY <1>0, <1>2, <2>1, <2>2, <2>4, StackTypes, SpoilForward
    <3> QED BY <1>0, <1>1, <3>1 DEF Proceeds, OnLine
  <2> QED BY <1>0, <2>3, <2>4
<1> QED BY <1>0, <1>3, <1>4

LEMMA OtherSteps ==
  ASSUME NEW r \in Requests, Before(r), Shown(r)', Typed'
  PROVE /\ (\E way \in {"undo", "redo"} : UndoRedoStart(r, way)) => Proceeds(r)
        /\ RollBack(r) => Proceeds(r)
        /\ Clear(r) => Proceeds(r)
        /\ SaveWrite(r) => Proceeds(r)
        /\ SaveMark(r) => Proceeds(r)
<1>0. Typed
  BY DEF Before
<1>1. ASSUME NEW way \in {"undo", "redo"}, UndoRedoStart(r, way) PROVE Proceeds(r)
  <2>1. /\ req[r].at = "idle" /\ HasEntry(way) /\ TakeEntry(r, way)
        /\ req' = [req EXCEPT ![r] = [Idle EXCEPT !.at = "taken", !.kind = way,
                                        !.way = way, !.entry = EntryOf(way)]]
    BY <1>1 DEF UndoRedoStart, Arrives
  <2>2. req'[r].at = "taken" /\ req'[r].way = way /\ req'[r].entry = EntryOf(way)
    <3>1. req'[r] = [Idle EXCEPT !.at = "taken", !.kind = way, !.way = way, !.entry = EntryOf(way)]
      BY <1>0, <2>1 DEF Typed
    <3> QED BY <3>1 DEF Idle
  <2> QED BY <2>1, <2>2, TakeStep DEF Busy
<1>2. ASSUME RollBack(r) PROVE Proceeds(r)
  <2>1. req[r].at = "rolling back"
    BY <1>2 DEF RollBack, At
  <2>2. CASE /\ HasEntry("undo") /\ TakeEntry(r, "undo")
             /\ req' = [req EXCEPT ![r].at = "taken", ![r].way = "undo",
                                   ![r].entry = EntryOf("undo")]
    <3>1. req'[r].at = "taken" /\ req'[r].way = "undo" /\ req'[r].entry = EntryOf("undo")
      BY <1>0, <2>2, TakesParts
    <3> QED BY <2>1, <2>2, <3>1, TakeStep DEF Busy
  <2>3. CASE Ends(r) /\ UNCHANGED stacks
    <3>1. req'[r].at = "idle"
      BY <1>0, <2>3, EndsParts
    <3> QED BY <2>1, <2>3, <3>1, PlainStep DEF Busy
  <2> QED BY <1>2, <2>2, <2>3 DEF RollBack
<1>3. ASSUME Clear(r) PROVE Proceeds(r)
  <2>1. /\ req[r].at = "idle" /\ req'[r].at = "idle" /\ graph' = graph
        /\ undoStack' = <<>> /\ redoStack' = <<>>
    BY <1>3 DEF Clear, AtOnce, Arrives
  <2>2. /\ theTimeline = Joined(undoStack, graph, Reverse(redoStack))
        /\ theCursor = Len(undoStack) + 1
    BY <2>1, PlainNow DEF Before, Busy
  <2>3. /\ theTimeline' = Joined(<<>>, graph, <<>>) /\ theCursor' = Len(<<>>) + 1
    BY <2>1, PlainNext, ReverseEmpty DEF Busy
  <2>4. Line!Next
    BY <1>0, <2>2, <2>3, StackTypes, ForgetStep
  <2>5. Fits(r)'
    BY <2>1, EmptySeq, HistoryAssumption DEF Fits
  <2> QED BY <2>1, <2>4, <2>5 DEF Proceeds, OnLine
<1>4. ASSUME SaveWrite(r) PROVE Proceeds(r)
  <2>1. req[r].at = "idle" /\ req'[r].at = "saving" /\ UNCHANGED stacks
    BY <1>0, <1>4, StartParts DEF SaveWrite
  <2> QED BY <2>1, PlainStep DEF Busy
<1>5. ASSUME SaveMark(r) PROVE Proceeds(r)
  <2>1. req[r].at = "saving" /\ req'[r].at = "idle" /\ UNCHANGED stacks
    BY <1>0, <1>5, EndsParts DEF SaveMark, At
  <2> QED BY <2>1, PlainStep DEF Busy
<1> QED BY <1>1, <1>2, <1>3, <1>4, <1>5

LEMMA LineInit == Init => Line!Init /\ LineInv
<1> SUFFICES ASSUME Init PROVE Line!Init /\ LineInv
  OBVIOUS
<1>1. Typed /\ \A r \in Requests : req[r].at = "idle"
  BY InitTyped, IdleType DEF Init
<1>2. TheLine = [past |-> <<>>, now |-> graph, ahead |-> <<>>]
  <2>1. Active = {}
    BY <1>1 DEF Active
  <2>2. undoStack = <<>> /\ Reverse(redoStack) = <<>>
    BY ReverseEmpty DEF Init
  <2> QED BY <2>1, <2>2 DEF TheLine
<1>3. theTimeline = <<graph>> /\ theCursor = 1 /\ graph \in Anything
  <2>1. <<>> \o <<graph>> \o <<>> = <<graph>> /\ Len(<<>>) = 0 /\ graph \in Anything
    BY <1>1, StackTypes, EmptySeq, JoinedAlone DEF Joined
  <2>2. theTimeline = <<>> \o <<graph>> \o <<>> /\ theCursor = Len(<<>>) + 1
    BY <1>2 DEF theTimeline, theCursor
  <2> QED BY <2>1, <2>2
<1>4. ASSUME NEW r \in Requests PROVE Fits(r) /\ OnLine(r)
  <2>1. Len(undoStack) = 0 /\ Len(redoStack) = 0 /\ 0 + 0 + 0 <= MaxStack
    BY EmptySeq, HistoryAssumption DEF Init
  <2>2. req[r].at = "idle"
    BY <1>1
  <2> QED BY <2>1, <2>2 DEF Fits, OnLine
<1> QED BY <1>3, <1>4 DEF Line!Init, LineInv

LEMMA LineStep ==
  ASSUME IInv, LineInv, NEW r \in Requests, Steps(r), Regular'
  PROVE Proceeds(r)
<1>1. /\ Regular /\ Moves(r)
      /\ \A q \in Requests \ {r} : req[q].at = "idle" /\ req'[q] = req[q]
  BY SerialStep DEF Regular, Steps
<1>2. Typed /\ Typed'
  BY StepsTyped DEF IInv
<1>3. Before(r)
  BY <1>1, <1>2, ShownNow DEF Before, LineInv, Regular
<1>4. Shown(r)'
  BY <1>1, <1>2, ShownNext
<1> QED BY <1>1, <1>2, <1>3, <1>4, SnapshotSteps, CompareSteps, OtherSteps, StashStep,
           RebuildStep DEF Moves

LEMMA LineInvStep ==
  ASSUME IInv, LineInv, [Next]_vars
  PROVE LineInv' /\ [Regular' => Line!Next]_<<theTimeline, theCursor>>
<1>1. CASE UNCHANGED vars
  <2>1. UNCHANGED <<theTimeline, theCursor>>
    BY <1>1 DEF vars, stacks, theTimeline, theCursor, TheLine, Active
  <2> QED BY <1>1, <2>1 DEF vars, stacks, LineInv, Fits, OnLine, Regular
<1>2. ASSUME NEW r \in Requests, Steps(r)
      PROVE LineInv' /\ [Regular' => Line!Next]_<<theTimeline, theCursor>>
  <2>1. CASE ~Regular'
    BY <2>1 DEF LineInv
  <2>2. CASE Regular'
    <3>1. Proceeds(r)
      BY <1>2, <2>2, LineStep
    <3>2. \A q \in Requests \ {r} : req'[q].at = "idle"
      BY <1>2, <2>2, SerialStep DEF Regular
    <3>3. ASSUME NEW q \in Requests \ {r} PROVE Fits(q)' /\ OnLine(q)'
      <4>1. Typed'
        BY <1>2, StepsTyped DEF IInv
      <4>2. Len(undoStack') \in Nat /\ Len(redoStack') \in Nat
        BY <4>1, LenProperties DEF Typed, Stack
      <4>3. req'[q].at = "idle"
        BY <3>2
      <4>4. Len(undoStack') + Len(redoStack') + 0 <= MaxStack
        BY <3>1, <4>2, HistoryAssumption DEF Proceeds, Fits
      <4> QED BY <4>3, <4>4 DEF Fits, OnLine
    <3> QED BY <3>1, <3>3 DEF Proceeds, LineInv
  <2> QED BY <2>1, <2>2
<1> QED BY <1>1, <1>2 DEF Next

(* OneTimeline: as long as requests do not overlap and no reading of the       *)
(* content fails, the two stacks of history_manager.py and the content are one *)
(* line with a cursor on it, which an edit cuts and prolongs and undo and redo *)
(* only move along.                                                            *)
THEOREM UndoRedoWalkOneLine == Spec => Line!Init /\ OneTimeline
<1>1. Spec => [](IInv /\ LineInv)
  BY InvInit, InvStep, LineInit, LineInvStep, PTL DEF Spec
<1>2. IInv /\ LineInv /\ [Next]_vars => [Regular' => Line!Next]_<<theTimeline, theCursor>>
  BY LineInvStep
<1>3. Init => Line!Init
  BY LineInit
<1> QED BY <1>1, <1>2, <1>3, PTL DEF Spec, OneTimeline
=============================================================================
