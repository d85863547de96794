---------------------------- MODULE HistoryMerge ----------------------------
(***************************************************************************)
(* How a list of messages is merged into a transcript                      *)
(* (mergeCanonicalMessages of packages/routing/src/history.ts).  Messages  *)
(* are compared by their JSON: as values.                                  *)
(***************************************************************************)
EXTENDS Integers, SequencesExt

CONSTANT System  \* the messages of role "system"

Suffix(s, n) == SubSeq(s, Len(s) - n + 1, Len(s))

(* The lengths at which the end of one list is the start of the other. *)
Overlaps(older, newer) ==
    {n \in 1 .. Len(older) : n <= Len(newer) /\ Suffix(older, n) = SubSeq(newer, 1, n)}

(* Mutant: the loop counts up. *)
ShortestOverlap(older, newer) == Min(Overlaps(older, newer))

Overlap(older, newer) == Max(Overlaps(older, newer))

Snapshot(list) == Len(list) > 1 \/ list[1] \in System

(* Mutant: every list that overlaps nowhere is believed to be a snapshot. *)
ReplaceUnmatched(older, newer) ==
    CASE Overlaps(older, newer) # {} ->
           older \o SubSeq(newer, Overlap(older, newer) + 1, Len(newer))
      [] OTHER -> newer

(* What becomes of two lists neither of which begins with the other. *)
Reconcile(older, newer) ==
    CASE Overlaps(older, newer) # {} ->
           older \o SubSeq(newer, Overlap(older, newer) + 1, Len(newer))
      [] Overlaps(older, newer) = {} /\ Snapshot(newer) -> newer
      [] OTHER -> older \o newer

(* mergeCanonicalMessages. *)
Merge(older, newer) ==
    CASE older = <<>> -> newer
      [] newer = <<>> -> older
      [] older # <<>> /\ IsPrefix(older, newer) -> newer
      [] newer # <<>> /\ IsPrefix(newer, older) -> older
      [] OTHER -> Reconcile(older, newer)

(* What recordAssistant stores: the answer is not repeated. *)
WithAnswer(list, answer) ==
    IF list # <<>> /\ list[Len(list)] = answer THEN list ELSE Append(list, answer)
=============================================================================
