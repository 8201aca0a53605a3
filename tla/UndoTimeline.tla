---------------------------- MODULE UndoTimeline ----------------------------
(***************************************************************************)
(* What undo and redo promise: the contents a flow has had lie on one      *)
(* line, and the cursor marks the one the flow has now.  An edit cuts off  *)
(* what lies ahead of the cursor and adds the new content there; undo and  *)
(* redo move the cursor and change nothing else, so neither loses nor      *)
(* reorders a content.  At most Limit contents are kept behind the cursor. *)
(***************************************************************************)
EXTENDS Integers, Sequences

CONSTANTS Contents,   \* what a flow may contain
          Broken,     \* what a restore that fails half-way leaves
          Limit       \* how many contents are kept to go back to

VARIABLES timeline,   \* the contents, oldest first
          cursor      \* the place of the flow's present content

vars == <<timeline, cursor>>

Init == /\ \E c \in Contents : timeline = <<c>>
        /\ cursor = 1

\* An edit that can be undone; the oldest content goes when there are too many.
Do(c) ==
  LET line == Append(SubSeq(timeline, 1, cursor), c)
      kept == IF cursor > Limit THEN Tail(line) ELSE line
  IN /\ timeline' = kept
     /\ cursor' = Len(kept)

\* A change that is not recorded: undo and redo pass it by.
Rewrite(c) == /\ timeline' = [timeline EXCEPT ![cursor] = c]
              /\ UNCHANGED cursor

Back    == cursor > 1 /\ cursor' = cursor - 1 /\ UNCHANGED timeline
Forward == cursor < Len(timeline) /\ cursor' = cursor + 1 /\ UNCHANGED timeline

\* Undo or redo moved and failed: what lay there is replaced by what the flow
\* still has, or by something broken, and never by another content.
Spoil == \E to \in {cursor - 1, cursor + 1} \cap (1 .. Len(timeline)),
            c \in {timeline[cursor], Broken} :
           /\ cursor' = to
           /\ timeline' = [timeline EXCEPT ![to] = c]

Forget == timeline' = <<timeline[cursor]>> /\ cursor' = 1

Next == \/ \E c \in Contents : Do(c) \/ Rewrite(c)
        \/ Back \/ Forward \/ Spoil \/ Forget

Spec == Init /\ [][Next]_vars
=============================================================================
