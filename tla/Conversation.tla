---------------------------- MODULE Conversation ----------------------------
(***************************************************************************)
(* The pieces a conversation is made of (packages/canonical/src/types.ts)  *)
(* and how each client protocol's request becomes canonical messages       *)
(* (normalizeAnthropicRequest, normalizeOpenAIChatRequest and              *)
(* normalizeOpenAIResponseRequest).                                        *)
(*                                                                         *)
(* A part is known by its number; a result has the number of its call.     *)
(* note says what others recognise in it: what a text, a tool name or an   *)
(* output matches, or the form in which a signature is kept.  Images are   *)
(* texts and instructions are messages.                                    *)
(* A turn is what one side says before the other does.                     *)
(***************************************************************************)
EXTENDS Integers, SequencesExt

Client == {"messages", "chat", "responses"}

Text(number, note) == [kind |-> "text", number |-> number, note |-> note, error |-> FALSE]
Thought(number, form) == [kind |-> "thought", number |-> number, note |-> form, error |-> FALSE]
Call(number, name) == [kind |-> "call", number |-> number, note |-> name, error |-> FALSE]
Result(number, output, error) ==
    [kind |-> "result", number |-> number, note |-> output, error |-> error]

Message(role, content) == [role |-> role, content |-> content]

Only(parts, kinds) == SelectSeq(parts, LAMBDA part : part.kind \in kinds)

(* One message for each part of one of the kinds. *)
Each(role, parts, kinds) ==
    [i \in DOMAIN Only(parts, kinds) |-> Message(role, <<Only(parts, kinds)[i]>>)]

(* The result's own flag is only known to the Messages protocol. *)
Unflagged(parts) == [i \in DOMAIN parts |-> [parts[i] EXCEPT !.error = FALSE]]

(* A signed thought comes back as the JSON of its block. *)
Serialised(parts) ==
    [i \in DOMAIN parts |->
        IF parts[i].kind = "thought" THEN [parts[i] EXCEPT !.note = "json"] ELSE parts[i]]

FromMessages(turn) ==
    <<Message(IF turn.by = "tools" THEN "user" ELSE turn.by, Serialised(turn.parts))>>

(* Reasoning is no part of a chat message. *)
FromChat(turn) ==
    CASE turn.by = "assistant" ->
           <<Message("assistant", Only(turn.parts, {"text"}) \o Only(turn.parts, {"call"}))>>
      [] turn.by = "tools" ->
           Each("tool", Unflagged(turn.parts), {"result"}) \o Each("user", turn.parts, {"text"})
      [] OTHER -> <<Message(turn.by, turn.parts)>>

(* Each item of the input is a message; reasoning items are passed over.   *)
FromResponses(turn) ==
    CASE turn.by = "assistant" -> Each("assistant", turn.parts, {"text", "call"})
      [] turn.by = "tools" ->
           Each("tool", Unflagged(turn.parts), {"result"}) \o Each("user", turn.parts, {"text"})
      [] OTHER -> <<Message(turn.by, turn.parts)>>

Normalized(client, turns) ==
    FlattenSeq([i \in DOMAIN turns |->
        CASE client = "messages" -> FromMessages(turns[i])
          [] client = "chat" -> FromChat(turns[i])
          [] client = "responses" -> FromResponses(turns[i])])
=============================================================================
