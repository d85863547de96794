------------------------- MODULE ContextCompression -------------------------
(***************************************************************************)
(* What the gateway makes of a transcript before it routes: the progress   *)
(* it finds in it (packages/routing/src/progress.ts) and the shorter copy  *)
(* a provider is shown (packages/routing/src/context.ts).                  *)
(*                                                                         *)
(* Length is counted in messages.  "requirement" and "edit" are what the   *)
(* patterns for requirements and file changes match.  Each file has its    *)
(* own pattern for failures: "failed" matches both, "assertion" (the word  *)
(* AssertionError) only that of progress.ts, "error" (that word, timeout,  *)
(* cannot) only that of context.ts.                                        *)
(***************************************************************************)
EXTENDS Conversation

CONSTANTS
    Trigger,  \* triggerCharacters, in messages
    Recent    \* preserveRecentMessages

ASSUME ContextAssumption == Trigger \in Nat /\ Recent \in Nat \ {0}

Parts(messages) == FlattenSeq([i \in DOMAIN messages |-> messages[i].content])

Counted(parts, note) == Len(SelectSeq(parts, LAMBDA part : part.note = note))

(* A failure to analyzeProgress. *)
Failing(part) ==
    part.kind = "result" /\ (part.error \/ part.note \in {"failed", "assertion"})

(* A failure to the compression: messageContainsFailure. *)
Evidence(part) ==
    part.kind = "result" /\ (part.error \/ part.note \in {"failed", "error"})

(* analyzeProgress.  A call repeats another with its name, a failure one   *)
(* with its output; any of the four thresholds makes a session stuck.      *)
Progress(messages) ==
    LET calls == Only(Parts(messages), {"call"})
        failures == SelectSeq(Parts(messages), LAMBDA part : Failing(part))
        errors == Len(SelectSeq(failures, LAMBDA part : part.error))
        failed == Counted(failures, "failed") + Counted(failures, "assertion")
        stuck == \/ \E i \in DOMAIN calls : Counted(calls, calls[i].note) >= 3
                 \/ \E i \in DOMAIN failures : Counted(failures, failures[i].note) >= 2
                 \/ errors >= 3
                 \/ failed >= 3
    IN  [status |-> CASE stuck -> "stuck"
                      [] ~stuck /\ failures # <<>> -> "uncertain"
                      [] OTHER -> "progressing",
         errors |-> errors,
         failed |-> failed]

(* The calls that change files. *)
Mutating(messages) ==
    {part.number : part \in {p \in Range(Parts(messages)) : p.kind = "call" /\ p.note = "edit"}}

FirstUser(messages) == SelectInSeq(messages, LAMBDA message : message.role = "user")

(* Mutant: results are looked at before the calls are known. *)
PreservesInOnePass(messages, i) ==
    LET part == Range(messages[i].content) IN
    \/ messages[i].role = "system"
    \/ i = FirstUser(messages)
    \/ i > Len(messages) - Recent
    \/ \E p \in part : p.note = "requirement" \/ Evidence(p) \/ (p.kind = "call" /\ p.note = "edit")

(* Message i is kept in the copy. *)
Preserves(messages, i) ==
    LET parts == Range(messages[i].content) IN
    \/ messages[i].role = "system"
    \/ i = FirstUser(messages)
    \/ i > Len(messages) - Recent
    \/ \E p \in parts : \/ p.note = "requirement"
                        \/ Evidence(p)
                        \/ p.kind \in {"call", "result"} /\ p.number \in Mutating(messages)

Omitted(messages) ==
    IF Len(messages) < Trigger THEN {}
    ELSE {i \in DOMAIN messages : ~Preserves(messages, i)}

Summary == Message("system", <<Text(0, "summary")>>)

(* compressCanonicalContext. *)
Compressed(messages) ==
    LET omitted == Omitted(messages) IN
    FlattenSeq([i \in DOMAIN messages |->
        CASE i \notin omitted -> <<messages[i]>>
          [] i \in omitted /\ i = Min(omitted) -> <<Summary>>
          [] OTHER -> <<>>])
=============================================================================
