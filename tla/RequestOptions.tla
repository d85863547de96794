--------------------------- MODULE RequestOptions ---------------------------
(***************************************************************************)
(* What a client may demand of an answer besides the conversation, and     *)
(* what of it each provider is sent: the request schemas, the second half  *)
(* of the three normalisers, and that of toAnthropicRequest,               *)
(* toOpenAIResponseRequest, toGeminiRequest and toCompatibleChatRequest.   *)
(*                                                                         *)
(* A demand is made or not; its value is copied.  The choice of tools is   *)
(* the word of a protocol, "" if there is none.                            *)
(***************************************************************************)
EXTENDS Conversation

Provider == {"anthropic", "openai", "gemini", "compatible"}

(* Gemini's third generation is sent less than its others. *)
Target == Provider \cup {"gemini-3"}

Nothing == [demands |-> {}, choice |-> "", format |-> ""]

Demand == {"tools", "temperature", "thinking", "stop"}

(* What the schemas of the three protocols admit. *)
MessagesOptions ==
    [demands : SUBSET Demand, choice : {"", "auto", "any", "none", "tool"}, format : {""}]

ChatOptions ==
    [demands : SUBSET Demand, choice : {"", "auto", "required", "none", "function"},
     format : {"", "text", "object", "schema"}]

ResponsesOptions == {options \in ChatOptions : "stop" \notin options.demands}

Options(client) ==
    CASE client = "messages" -> MessagesOptions
      [] client = "chat" -> ChatOptions
      [] client = "responses" -> ResponsesOptions

-----------------------------------------------------------------------------
Structured(format) == format \in {"object", "schema"}

(* The capabilities routing looks for in a model. *)
Needs(options) ==
    {need \in {"tools", "reasoning", "structuredOutput"} :
        CASE need = "tools" -> "tools" \in options.demands
          [] need = "reasoning" -> "thinking" \in options.demands
          [] need = "structuredOutput" -> Structured(options.format)}

(* Thinking is only kept in protocolPassthrough, the client's own body. *)
Canonical(protocol, options, choice) ==
    [demands |-> options.demands \ {"thinking"},
     choice |-> choice,
     format |-> options.format,
     needs |-> Needs(options),
     passthrough |-> [protocol |-> protocol, demands |-> options.demands]]

CanonicalChoice(word) ==
    CASE word = "required" -> "any" [] word = "function" -> "tool" [] OTHER -> word

FromMessagesOptions(options) == Canonical("messages", options, options.choice)

FromChatOptions(options) == Canonical("chat", options, CanonicalChoice(options.choice))

FromResponsesOptions(options) == Canonical("responses", options, CanonicalChoice(options.choice))

NormalizedOptions(client, options) ==
    CASE client = "messages" -> FromMessagesOptions(options)
      [] client = "chat" -> FromChatOptions(options)
      [] client = "responses" -> FromResponsesOptions(options)

OwnDemands(request, protocol) ==
    IF request.passthrough.protocol = protocol THEN request.passthrough.demands ELSE {}

Refused == [Nothing EXCEPT !.format = "refused"]

(* JSON without a schema is an invalid_request to Anthropic. *)
AnthropicOptions(request) ==
    IF request.format = "object" THEN Refused
    ELSE [demands |-> request.demands \cup OwnDemands(request, "messages"),
          choice |-> request.choice,
          format |-> IF request.format = "text" THEN "" ELSE request.format]

ChatChoice(word) ==
    CASE word = "any" -> "required" [] word = "tool" -> "function" [] OTHER -> word

OpenAIOptions(request) ==
    [demands |-> (request.demands \ {"stop"}) \cup OwnDemands(request, "responses"),
     choice |-> ChatChoice(request.choice),
     format |-> request.format]

GeminiChoice(word) ==
    CASE word = "auto" -> "AUTO" [] word = "none" -> "NONE" [] word = "any" -> "ANY"
      [] word = "tool" -> "ANY of one" [] OTHER -> ""

GeminiOptions(request, dropped) ==
    [demands |-> request.demands \ dropped,
     choice |-> GeminiChoice(request.choice),
     format |-> IF request.format = "text" THEN "" ELSE request.format]

CompatibleOptions(request) ==
    [demands |-> request.demands, choice |-> ChatChoice(request.choice), format |-> request.format]

(* The demands in the body a target is sent. *)
SentOptions(target, request) ==
    CASE target = "anthropic" -> AnthropicOptions(request)
      [] target = "openai" -> OpenAIOptions(request)
      [] target = "gemini" -> GeminiOptions(request, {})
      [] target = "gemini-3" -> GeminiOptions(request, {"temperature"})
      [] target = "compatible" -> CompatibleOptions(request)
=============================================================================
