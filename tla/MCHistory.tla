----------------------------- MODULE MCHistory -----------------------------
(***************************************************************************)
(* History for TLC: a system prompt, two user messages and an answer.      *)
(* Clients send a delta of one or two messages, a snapshot that a system   *)
(* prompt leads, or one in which the user says the same thing twice.       *)
(***************************************************************************)
EXTENDS History, TLC

CONSTANTS prompt, u, v, reply

MCMessage == {prompt, u, v, reply}
MCSystem == {prompt}
MCAnswer == {reply}
MCIncoming ==
    {<<u>>, <<v>>, <<u, v>>, <<reply, v>>, <<prompt, u>>, <<u, reply, u>>}

WriterSymmetry == Permutations(Writer)
=============================================================================
