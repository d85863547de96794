-------------------------- MODULE CanonicalStream --------------------------
(***************************************************************************)
(* The stream of canonical events an adapter promises to its consumer:     *)
(* "Event invariants" of docs/canonical-protocol.md:29-39.  One start, any *)
(* blocks and usage reports, one terminal event and nothing after it; or   *)
(* an exception in place of whatever is still missing.  A block takes      *)
(* deltas only between its own start and completion and every block has    *)
(* completed when the response does, provided the provider itself keeps to *)
(* its own protocol (orderly).                                             *)
(*                                                                         *)
(* A failure may be the first event: the decoders report an error event of *)
(* the provider as it comes, before any start.                             *)
(***************************************************************************)
EXTENDS Integers

CONSTANT Index                  \* block indices

VARIABLES phase,                \* "idle" | "streaming" | "ended"
          open,                 \* the blocks started and not completed
          closed,               \* the blocks completed
          last,                 \* the last event's type and block
          yielded,              \* the number of events so far
          orderly               \* the provider has kept to its own protocol

vars == <<phase, open, closed, last, yielded, orderly>>

Init == /\ phase = "idle"
        /\ open = {} /\ closed = {} /\ yielded = 0 /\ last = <<>>
        /\ orderly = TRUE

\* The provider breaks its own protocol, with or without an effect.
Break == orderly /\ orderly' = FALSE /\ UNCHANGED <<phase, open, closed, last, yielded>>

\* The exception the consumer's loop ends with.
Throw == /\ phase # "ended"
         /\ phase' = "ended"
         /\ UNCHANGED <<open, closed, last, yielded, orderly>>

Start == /\ last' = <<"response.started">>
         /\ phase = "idle"
         /\ phase' = "streaming"
         /\ UNCHANGED <<open, closed>>

Open(i) == /\ last' = <<"opened", i>>
           /\ phase = "streaming"
           /\ orderly => i \notin open \cup closed
           /\ open' = open \cup {i}
           /\ UNCHANGED <<phase, closed>>

Delta(i) == /\ last' = <<"delta", i>>
            /\ phase = "streaming"
            /\ orderly => i \in open
            /\ UNCHANGED <<phase, open, closed>>

Close(i) == /\ last' = <<"completed", i>>
            /\ phase = "streaming"
            /\ orderly => i \in open
            /\ open' = open \ {i}
            /\ closed' = closed \cup {i}
            /\ UNCHANGED phase

Usage == /\ last' = <<"usage.updated">>
         /\ phase = "streaming"
         /\ UNCHANGED <<phase, open, closed>>

Complete == /\ last' = <<"response.completed">>
            /\ phase = "streaming"
            /\ orderly => open = {}
            /\ phase' = "ended"
            /\ UNCHANGED <<open, closed>>

Fail == /\ last' = <<"response.failed">>
        /\ phase # "ended"
        /\ phase' = "ended"
        /\ UNCHANGED <<open, closed>>

Event == /\ \/ Start \/ Usage \/ Complete \/ Fail
            \/ \E i \in Index : Open(i) \/ Delta(i) \/ Close(i)
         /\ yielded' = yielded + 1
         /\ UNCHANGED orderly

Next == Event \/ Throw \/ Break

Spec == Init /\ [][Next]_vars
=============================================================================
