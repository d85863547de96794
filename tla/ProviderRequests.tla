-------------------------- MODULE ProviderRequests --------------------------
(***************************************************************************)
(* The request each provider is sent for canonical messages:               *)
(* toAnthropicRequest, toOpenAIResponseRequest, toGeminiRequest and        *)
(* toCompatibleChatRequest of packages/providers.  A body holds what the   *)
(* conversation has become and the demands on the answer; adjacent texts   *)
(* of one OpenAI message are items of their own here.                      *)
(***************************************************************************)
EXTENDS ContextCompression, RequestOptions

Visible == {"text", "call", "result"}

Instructions(messages) ==
    Only(Parts(SelectSeq(messages, LAMBDA message : message.role = "system")), {"text"})

Side(role, assistant) == IF role = "assistant" THEN assistant ELSE "user"

(* The messages that are no instructions and have something to say. *)
Spoken(messages, kinds, assistant) ==
    LET said == [i \in DOMAIN messages |->
                    [role |-> IF messages[i].role = "system" THEN "system"
                              ELSE Side(messages[i].role, assistant),
                     content |-> Only(messages[i].content, kinds)]]
    IN  SelectSeq(said, LAMBDA message : message.role # "system" /\ message.content # <<>>)

AnthropicBody(messages) ==
    [system |-> Instructions(messages), messages |-> Spoken(messages, Visible, "assistant")]

(* A signature is attached to the first call after the thought it signs.   *)
Signed(content, i) ==
    \E j \in 1 .. i - 1 :
        /\ content[j].kind = "thought" /\ content[j].note = "json"
        /\ \A k \in j + 1 .. i - 1 : content[k].kind # "call"

GeminiParts(content) ==
    [i \in DOMAIN content |->
        IF content[i].kind = "call" /\ Signed(content, i)
        THEN [content[i] EXCEPT !.note = "signed"] ELSE content[i]]

GeminiBody(messages) ==
    [system |-> Instructions(messages),
     messages |-> Spoken([i \in DOMAIN messages |->
                            Message(messages[i].role, GeminiParts(messages[i].content))],
                         Visible \cup {"thought"}, "model")]

OpenAIItem(message) ==
    Each(IF message.role = "tool" THEN "user" ELSE message.role, message.content, Visible)

OpenAIBody(messages) ==
    [system |-> <<>>, messages |-> FlattenSeq([i \in DOMAIN messages |-> OpenAIItem(messages[i])])]

(* The texts and calls between the last result before i and i. *)
Section(content, i) ==
    LET from == Max({0} \cup {j \in 1 .. i - 1 : content[j].kind = "result"})
    IN  SubSeq(content, from + 1, i - 1)

Flushed(role, parts) ==
    LET content == Only(parts, {"text"}) \o Only(parts, {"call"})
    IN  IF content = <<>> THEN <<>>
        ELSE <<Message(IF role = "tool" THEN "user" ELSE role, content)>>

(* Mutant: a result does not flush what comes before and after it. *)
ChatMessagesUnflushed(message) ==
    Flushed(message.role, message.content) \o Each("tool", message.content, {"result"})

(* A result is a message of its own and flushes what came before it. *)
ChatMessages(message) ==
    LET content == message.content IN
    FlattenSeq([i \in 1 .. Len(content) + 1 |->
        CASE i > Len(content) -> Flushed(message.role, Section(content, i))
          [] i <= Len(content) /\ content[i].kind = "result" ->
               Append(Flushed(message.role, Section(content, i)), Message("tool", <<content[i]>>))
          [] OTHER -> <<>>])

ChatBody(messages) ==
    [system |-> <<>>,
     messages |-> FlattenSeq([i \in DOMAIN messages |-> ChatMessages(messages[i])])]

(* Anthropic is sent the client's own messages if it speaks Anthropic's     *)
(* protocol: messages are what the gateway made of them, own what they were. *)
Body(provider, client, messages, own) ==
    CASE provider = "anthropic" ->
           AnthropicBody(IF client = "messages" THEN own ELSE messages)
      [] provider = "openai" -> OpenAIBody(messages)
      [] provider = "gemini" -> GeminiBody(messages)
      [] provider = "compatible" -> ChatBody(messages)
=============================================================================
