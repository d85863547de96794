--------------------------- MODULE MCRequestPath ---------------------------
(***************************************************************************)
(* RequestPath for TLC: answers of texts, thoughts and one or two calls,   *)
(* outputs that succeed, fail in words that both patterns for failures     *)
(* know or one alone, or are flagged as errors.                            *)
(***************************************************************************)
EXTENDS RequestPath

MCSystem == {Message("system", <<Text(1, "plain")>>)}

MCReplies ==
    {<<Text(0, "plain")>>,
     <<Thought(0, "raw"), Text(0, "plain"), Call(0, "read")>>,
     <<Thought(0, "raw"), Call(0, "edit"), Call(0, "read")>>,
     <<Call(0, "edit"), Call(0, "edit")>>,
     <<Call(0, "read"), Text(0, "plain")>>}

Fine == [note |-> "fine", error |-> FALSE]

MCOutput == {Fine, [Fine EXCEPT !.error = TRUE]}
            \cup [note : {"failed", "assertion", "error"}, error : {FALSE}]

(* Bound: of two calls one succeeds, or both put out the same. *)
MCOutputs == {<<o>> : o \in MCOutput}
             \cup {<<a, b>> \in MCOutput \X MCOutput : Fine \in {a, b} \/ a = b}

MCNotes == {"plain", "requirement"}
=============================================================================
