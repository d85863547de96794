----------------------------- MODULE UndoStack -----------------------------
(***************************************************************************)
(* What docs/vartma.md promises of the configuration commands: the changes *)
(* form an undo stack.  The stack holds every content the configuration    *)
(* can be undone to, the present one last.  A command makes or undoes one  *)
(* change in one step, whatever crashes between its writes, and only to a  *)
(* content that is no edit from outside; edits are counted.                *)
(***************************************************************************)
EXTENDS Sequences, SequencesExt, Naturals

CONSTANT Content

VARIABLES stack, edits, ours

vars == <<stack, edits, ours>>

Init ==
    /\ stack \in Seq(Content)
    /\ Len(stack) = 1
    /\ edits = 0
    /\ ours = TRUE

Grows ==
    /\ Len(stack') = Len(stack) + 1
    /\ Front(stack') = stack
    /\ Last(stack') # Last(stack)

Shrinks ==
    /\ Len(stack) > 1
    /\ stack' = Front(stack)

Change == ours /\ Grows /\ UNCHANGED <<edits, ours>>

Undo == ours /\ Shrinks /\ UNCHANGED <<edits, ours>>

(* An edit that brings back the last content is an undo, an edit away from *)
(* it a change: the commands tell contents apart by their hashes only.     *)
Edit ==
    /\ edits' = edits + 1
    /\ ours' \in BOOLEAN
    /\ Grows \/ Shrinks \/ Front(stack') = Front(stack)

Next == Change \/ Undo \/ Edit

Spec == Init /\ [][Next]_vars
=============================================================================
