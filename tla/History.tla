------------------------------ MODULE History ------------------------------
(***************************************************************************)
(* The canonical transcript of one session (packages/routing/src/          *)
(* history.ts).  A request brings a full snapshot of the conversation or   *)
(* only its next messages; the coordinator merges them into the stored     *)
(* transcript, and when the response completes merges once more and        *)
(* appends the answer.  Both read the transcript and write it whole, and   *)
(* requests of one session overlap.                                        *)
(*                                                                         *)
(* A message is a value; two messages are equal when their JSON is.        *)
(* outdated is a history variable.  The module is proved about together    *)
(* with Session, the other thing a session keeps, and shares no name with  *)
(* it.                                                                     *)
(***************************************************************************)
EXTENDS HistoryMerge

CONSTANTS
    Writer,      \* requests that may overlap
    Message,
    Answer,      \* the messages an assistant may produce
    Incoming,    \* the message lists clients send
    MaxLength    \* bound on the transcript

ASSUME HistoryAssumption ==
    /\ System \subseteq Message
    /\ Answer \subseteq Message \ System
    /\ Incoming \subseteq Seq(Message)
    /\ MaxLength \in Nat

VARIABLES
    transcript, \* <<>> before the first request
    stage,      \* what each request waits for
    incoming,   \* what its client sent
    messages,   \* its merged messages, which the provider sees
    written,    \* the transcript it is about to write
    outdated    \* the transcript has changed since it was read

transcriptVars == <<transcript, stage, incoming, messages, written, outdated>>

TranscriptTypeOK ==
    /\ transcript \in Seq(Message)
    /\ stage \in [Writer -> {"idle", "preparing", "running", "recording"}]
    /\ incoming \in [Writer -> Incoming \cup {<<>>}]
    /\ messages \in [Writer -> Seq(Message)]
    /\ written \in [Writer -> Seq(Message)]
    /\ outdated \in [Writer -> BOOLEAN]

TranscriptInit ==
    /\ transcript = <<>>
    /\ stage = [a \in Writer |-> "idle"]
    /\ incoming = [a \in Writer |-> <<>>]
    /\ messages = [a \in Writer |-> <<>>]
    /\ written = [a \in Writer |-> <<>>]
    /\ outdated = [a \in Writer |-> FALSE]

-----------------------------------------------------------------------------
(* prepareRequest reads and merges. *)
PrepareRequest(a, list) ==
    /\ stage[a] = "idle"
    /\ Len(Merge(transcript, list)) <= MaxLength
    /\ stage' = [stage EXCEPT ![a] = "preparing"]
    /\ incoming' = [incoming EXCEPT ![a] = list]
    /\ messages' = [messages EXCEPT ![a] = Merge(transcript, list)]
    /\ written' = [written EXCEPT ![a] = Merge(transcript, list)]
    /\ outdated' = [outdated EXCEPT ![a] = FALSE]
    /\ UNCHANGED transcript

(* recordAssistant reads, merges the request's messages again and adds the  *)
(* answer.                                                                  *)
RecordAssistant(a, answer) ==
    /\ stage[a] = "running"
    /\ Len(WithAnswer(Merge(transcript, messages[a]), answer)) <= MaxLength
    /\ stage' = [stage EXCEPT ![a] = "recording"]
    /\ written' = [written EXCEPT ![a] = WithAnswer(Merge(transcript, messages[a]), answer)]
    /\ outdated' = [outdated EXCEPT ![a] = FALSE]
    /\ UNCHANGED <<transcript, incoming, messages>>

Writing(a) == stage[a] \in {"preparing", "recording"}

Close(a, where) ==
    /\ stage' = [stage EXCEPT ![a] = where]
    /\ written' = [written EXCEPT ![a] = <<>>]
    /\ IF where = "idle"
       THEN /\ incoming' = [incoming EXCEPT ![a] = <<>>]
            /\ messages' = [messages EXCEPT ![a] = <<>>]
       ELSE UNCHANGED <<incoming, messages>>

PutTranscript(a) ==
    /\ Writing(a)
    /\ transcript' = written[a]
    /\ outdated' = [b \in Writer |-> b # a /\ (outdated[b] \/ Writing(b))]
    /\ Close(a, IF stage[a] = "preparing" THEN "running" ELSE "idle")

(* The response fails or has no content, or the store throws. *)
Drop(a) ==
    /\ stage[a] # "idle"
    /\ Close(a, "idle")
    /\ outdated' = [outdated EXCEPT ![a] = FALSE]
    /\ UNCHANGED transcript

TranscriptNext ==
    \E a \in Writer :
        \/ \E list \in Incoming : PrepareRequest(a, list)
        \/ \E answer \in Answer : RecordAssistant(a, answer)
        \/ PutTranscript(a)
        \/ Drop(a)

TranscriptSpec == TranscriptInit /\ [][TranscriptNext]_transcriptVars

-----------------------------------------------------------------------------
(* A client that repeats a request adds nothing to the transcript: merging  *)
(* is idempotent.                                                           *)
RetransmissionAddsNothing ==
    \A list \in Incoming :
        LET once == Merge(transcript, list) IN Merge(once, list) = once

(* The list that the write of a request merges into the transcript: what    *)
(* its client sent, or, with the answer, the messages its provider saw.     *)
Given(a) == IF stage[a] = "preparing" THEN incoming[a] ELSE messages[a]

(* A write that is not stale keeps the transcript as its beginning, unless  *)
(* the list it was given is a snapshot that shares no end with it; then the *)
(* transcript begins with the snapshot.  So a delta takes no turn away, and *)
(* a turn is only lost to an overlapping request or to a client that        *)
(* rewrote history (mergeCanonicalMessages, recordAssistant).               *)
TurnsKept ==
    [][transcript' # transcript =>
         \E a \in Writer :
            /\ Writing(a)
            /\ transcript' = written[a]
            /\ \/ outdated[a]
               \/ IsPrefix(transcript, transcript')
               \/ /\ Snapshot(Given(a))
                  /\ Overlaps(transcript, Given(a)) = {}
                  /\ IsPrefix(Given(a), transcript')]_transcriptVars

(* docs/session-resilience.md:20-23: "The next request can be either a      *)
(* complete history or a delta: Vartma merges it into the canonical         *)
(* transcript".  So a request of one user message is put after the answer   *)
(* it continues, and the provider is never shown a transcript that already  *)
(* ends in an answer.                                                       *)
(* Refuted by the code: see the findings in the README.                     *)
DeltaEndsRequest ==
    \A a \in Writer :
        stage[a] = "preparing" /\ Len(incoming[a]) = 1 /\ incoming[a][1] \notin Answer
          => messages[a][Len(messages[a])] \notin Answer
=============================================================================
