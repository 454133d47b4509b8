----------------------------- MODULE EditHistory -----------------------------
(***************************************************************************)
(* What undo and redo of the Studio page promise: there is one line of     *)
(* documents with a place on it.  Undo and redo move the place and leave   *)
(* the line as it is; an edit cuts the line behind the place and goes on   *)
(* from there, and only that lets the oldest documents go.                 *)
(***************************************************************************)
EXTENDS Integers, Sequences

CONSTANT Limit     \* documents kept before the one that is shown

VARIABLES
    timeline,      \* the documents one can come to, in order
    at             \* the place of the one that is shown

historyVars == <<timeline, at>>

HistoryInit == Len(timeline) = 1 /\ at = 1

Recent(line) == IF Len(line) > Limit + 1 THEN SubSeq(line, Len(line) - Limit, Len(line))
                                         ELSE line

(* The line up to the place, what is recorded, and what is shown now.      *)
Continues(line) == timeline' = Recent(line) /\ at' = Len(timeline')

(* Edits of one document made in one go record it as often.                *)
Edited(again) ==
    Continues(SubSeq(timeline, 1, at) \o [i \in 1..again |-> timeline[at]] \o <<timeline'[at']>>)

(* The end of a drag records what was shown when it began.                 *)
Dropped ==
    /\ at' > 1
    /\ Continues(SubSeq(timeline, 1, at - 1) \o <<timeline'[at' - 1], timeline[at]>>)

(* During a drag the document changes where it is.                         *)
Amended == at' = at /\ timeline' = [timeline EXCEPT ![at] = timeline'[at']]

Undone == at > 1 /\ at' = at - 1 /\ UNCHANGED timeline
Redone == at < Len(timeline) /\ at' = at + 1 /\ UNCHANGED timeline

(* A load, a clear and a reload begin a line.                              *)
Restarted == Len(timeline') = 1 /\ at' = 1

HistoryNext == \/ \E again \in 0..Limit : Edited(again)
               \/ Dropped \/ Amended \/ Undone \/ Redone \/ Restarted

HistorySpec == HistoryInit /\ [][HistoryNext]_historyVars
=============================================================================
