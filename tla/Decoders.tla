------------------------------ MODULE Decoders ------------------------------
(***************************************************************************)
(* The stream decoders of the four provider adapters                       *)
(* (packages/providers/src/{openai,anthropic,gemini,openai-compatible}-    *)
(* provider.ts): one upstream message turns the adapter's stream state     *)
(* into a new one, canonical events, and possibly an exception.            *)
(*                                                                         *)
(* Texts, names and token counts are left out: a delta is one unit of a    *)
(* part ("text", "reasoning", "signature", "arguments").  The end of the   *)
(* body is a message of its own, "eof".  Malformed JSON and fields of a    *)
(* wrong type are the message "garbage": every adapter throws on it.       *)
(***************************************************************************)
EXTENDS CanonicalEvents, Sequences, SequencesExt

CONSTANTS Key,          \* upstream item ids (OpenAI) and tool indices (compatible)
          MaxBlocks     \* upstream block indices of the Anthropic dialect

UpstreamIndex == 0..(MaxBlocks - 1)
Dialect == {"openai", "anthropic", "gemini", "compatible"}

(*--------------------------- decoder state -------------------------------*)

\* blocks maps what the provider calls a block to its canonical index; calls
\* holds the indices of a compatible stream's tool calls, as toolCalls lists them.
Fresh == [started |-> FALSE, terminal |-> FALSE, next |-> 0, blocks |-> <<>>,
          calls |-> <<>>, refused |-> FALSE, called |-> FALSE, finish |-> "none"]

Yield(state, events) == [state |-> state, events |-> events, thrown |-> FALSE]
Breaks(state)        == [state |-> state, events |-> <<>>, thrown |-> TRUE]
Ignore(state)        == Yield(state, <<>>)

Has(state, b) == b \in DOMAIN state.blocks
Block(i, kind) == [index |-> i, kind |-> kind, done |-> FALSE]

\* nextBlockIndex++ and the entry of a new block.
Add(state, b, kind) ==
  [state EXCEPT !.blocks = With(@, b, Block(state.next, kind)), !.next = @ + 1]

\* A block that is opened by its first delta.
Touch(state, b, kind) ==
  IF Has(state, b) THEN Ignore(state)
  ELSE Yield(Add(state, b, kind), <<Opened(state.next, kind)>>)

Then(result, events) == [result EXCEPT !.events = @ \o events]

(*------------------------------- OpenAI ----------------------------------*)

OnContentPartAdded(state, m) == Touch(state, <<"text", m.key>>, "text")

OnOutputTextDelta(state, m) ==
  LET r == Touch(state, <<"text", m.key>>, "text")
  IN Then(r, <<Delta(r.state.blocks[<<"text", m.key>>].index, "text")>>)

OnRefusalDelta(state, m) == OnOutputTextDelta([state EXCEPT !.refused = TRUE], m)

\* The end of the block b, as what it was opened.
Completion(state, b) == <<Closed(state.blocks[b].index, state.blocks[b].kind)>>

CompleteEachTime(state, b) == Yield(state, Completion(state, b))

\* completeTool and the end of onOutputTextDone: a block completes once.
CompleteOnce(state, b) ==
  IF state.blocks[b].done THEN Ignore(state)
  ELSE Yield([state EXCEPT !.blocks[b].done = TRUE], Completion(state, b))

OnOutputTextDone(state, m) ==
  LET r == Touch(state, <<"text", m.key>>, "text")
      done == CompleteOnce(r.state, <<"text", m.key>>)
  IN Yield(done.state, r.events \o done.events)

OnOutputItemAdded(state, m) ==
  Touch([state EXCEPT !.called = TRUE], <<"tool_call", m.key>>, "tool_call")

OnFunctionArgumentsDelta(state, m) ==
  LET b == <<"tool_call", m.key>>
  IN IF ~Has(state, b) THEN Breaks(state)
     ELSE Yield(state, <<Delta(state.blocks[b].index, "arguments")>>)

OnFunctionDone(state, m) ==
  LET b == <<"tool_call", m.key>>
  IN IF Has(state, b) THEN CompleteOnce(state, b) ELSE Breaks(state)

OnResponseEnd(state, reason) ==
  Yield([state EXCEPT !.terminal = TRUE], <<Usage, Completed(reason)>>)

OpenAIReason(state) == CASE state.called -> "tool_use"
                         [] ~state.called /\ state.refused -> "content_filter"
                         [] OTHER -> "end_turn"

TranslateOpenAI(state, m) ==
  CASE m.type = "response.created" ->
         IF state.started THEN Breaks(state)
         ELSE Yield([state EXCEPT !.started = TRUE], <<Started>>)
    [] m.type = "error" -> Yield([state EXCEPT !.terminal = TRUE], <<Failed>>)
    [] m.type = "unknown" -> Ignore(state)
    [] m.type \in {"eof", "garbage"} -> Breaks(state)
    [] OTHER ->
         IF ~state.started THEN Breaks(state)
         ELSE CASE m.type = "content_part.added"  -> OnContentPartAdded(state, m)
                [] m.type = "output_text.delta"   -> OnOutputTextDelta(state, m)
                [] m.type = "refusal.delta"       -> OnRefusalDelta(state, m)
                [] m.type = "output_text.done"    -> OnOutputTextDone(state, m)
                [] m.type = "output_item.added"   -> OnOutputItemAdded(state, m)
                [] m.type = "arguments.delta"     -> OnFunctionArgumentsDelta(state, m)
                [] m.type \in {"arguments.done", "output_item.done"} -> OnFunctionDone(state, m)
                [] m.type = "response.completed"  -> OnResponseEnd(state, OpenAIReason(state))
                [] m.type = "response.incomplete" -> OnResponseEnd(state, "max_tokens")
                [] m.type = "response.failed"     ->
                     Yield([state EXCEPT !.terminal = TRUE], <<Failed>>)

OpenAIMessage ==
  [type : {"content_part.added", "output_text.delta", "refusal.delta", "output_text.done",
           "output_item.added", "arguments.delta", "arguments.done", "output_item.done"},
   key : Key]
  \cup [type : {"response.created", "response.completed", "response.incomplete",
                "response.failed", "error", "unknown", "eof", "garbage"}]

(*------------------------------ Anthropic --------------------------------*)

\* The index is the provider's own; a kind the adapter does not know opens nothing.
OnAnthropicContentStart(state, m) ==
  IF m.kind = "unknown" THEN Ignore(state)
  ELSE Yield([state EXCEPT !.blocks = With(@, m.index, Block(m.index, m.kind))],
             <<Opened(m.index, m.kind)>>)

PartsOf(kind) == CASE kind = "text" -> {"text"}
                   [] kind = "thinking" -> {"reasoning", "signature"}
                   [] kind = "tool_call" -> {"arguments"}
                   [] OTHER -> {}

OnAnthropicContentDelta(state, m) ==
  IF Has(state, m.index) /\ m.part \in PartsOf(state.blocks[m.index].kind)
  THEN Yield(state, <<Delta(m.index, m.part)>>)
  ELSE Breaks(state)

OnAnthropicContentStop(state, m) ==
  IF ~Has(state, m.index) THEN Breaks(state)
  ELSE Yield([state EXCEPT !.blocks = [j \in DOMAIN @ \ {m.index} |-> @[j]]],
             <<Closed(m.index, state.blocks[m.index].kind)>>)

TranslateAnthropic(state, m) ==
  CASE m.type = "message_start" ->
         IF state.started THEN Breaks(state)
         ELSE Yield([state EXCEPT !.started = TRUE, !.finish = "end_turn"], <<Started>>)
    [] m.type = "error" -> Yield([state EXCEPT !.terminal = TRUE], <<Failed>>)
    [] m.type = "ping" -> Ignore(state)
    [] m.type \in {"eof", "garbage"} -> Breaks(state)
    [] OTHER ->
         IF ~state.started THEN Breaks(state)
         ELSE CASE m.type = "content_block_start" -> OnAnthropicContentStart(state, m)
                [] m.type = "content_block_delta" -> OnAnthropicContentDelta(state, m)
                [] m.type = "content_block_stop"  -> OnAnthropicContentStop(state, m)
                [] m.type = "message_delta" ->
                     Yield([state EXCEPT !.finish = m.reason], <<Usage>>)
                [] m.type = "message_stop" ->
                     Yield([state EXCEPT !.started = FALSE, !.terminal = TRUE],
                           <<Usage, Completed(state.finish)>>)

AnthropicMessage ==
  [type : {"content_block_start"}, index : UpstreamIndex,
   kind : {"text", "thinking", "tool_call", "unknown"}]
  \cup [type : {"content_block_delta"}, index : UpstreamIndex,
        part : {"text", "reasoning", "signature", "arguments"}]
  \cup [type : {"content_block_stop"}, index : UpstreamIndex]
  \cup [type : {"message_delta"}, reason : {"tool_use"}]
  \cup [type : {"message_start", "message_stop", "error", "ping", "eof", "garbage"}]

(*------------------------------- Gemini ----------------------------------*)

\* One part of a candidate: what it carries, as flags.
Part(text, thought, signed, call) ==
  [text |-> text, thought |-> thought, signed |-> signed, call |-> call]

OnGeminiReasoning(state, p) ==
  LET r == Touch(state, <<"reasoning">>, IF p.signed THEN "thinking" ELSE "summary")
      i == r.state.blocks[<<"reasoning">>].index
  IN Then(r, (IF p.text THEN <<Delta(i, "reasoning")>> ELSE <<>>)
             \o (IF p.signed THEN <<Delta(i, "signature")>> ELSE <<>>))

OnGeminiText(state) ==
  LET r == Touch(state, <<"text">>, "text")
  IN Then(r, <<Delta(r.state.blocks[<<"text">>].index, "text")>>)

\* A function call comes whole: it starts, has its arguments and completes.
OnFunctionCall(state) ==
  Yield([state EXCEPT !.next = @ + 1, !.called = TRUE],
        <<Opened(state.next, "tool_call"), Delta(state.next, "arguments"),
          Closed(state.next, "tool_call")>>)

OnGeminiPart(r, p) ==
  LET shown == CASE p.signed \/ (p.text /\ p.thought) -> OnGeminiReasoning(r.state, p)
                 [] p.text /\ ~p.signed /\ ~p.thought -> OnGeminiText(r.state)
                 [] OTHER -> Ignore(r.state)
      called == IF p.call = "none" THEN Ignore(shown.state) ELSE OnFunctionCall(shown.state)
  IN IF r.thrown \/ p.call = "nameless" THEN Breaks(r.state)
     ELSE Yield(called.state, r.events \o shown.events \o called.events)

\* A throw loses the events of the chunk it happens in.
TranslateGeminiChunk(state, m) ==
  LET begun == Yield([state EXCEPT !.started = TRUE],
                     IF state.started THEN <<>> ELSE <<Started>>)
      r == FoldLeft(OnGeminiPart, begun, m.parts)
  IN IF r.thrown \/ m.finish = "none" THEN r
     ELSE [r EXCEPT !.state.finish = m.finish]

ClosedIfAny(state, b) == IF Has(state, b) THEN Completion(state, b) ELSE <<>>

CompleteGemini(state) ==
  Yield([state EXCEPT !.terminal = TRUE],
        ClosedIfAny(state, <<"reasoning">>) \o ClosedIfAny(state, <<"text">>)
        \o <<Usage, Completed(IF state.called /\ state.finish = "end_turn"
                              THEN "tool_use" ELSE state.finish)>>)

TranslateGemini(state, m) ==
  CASE m.type = "eof" -> IF ~state.started \/ state.finish = "none" THEN Breaks(state)
                         ELSE CompleteGemini(state)
    [] m.type = "garbage" -> Breaks(state)
    [] m.type = "chunk" -> TranslateGeminiChunk(state, m)

GeminiMessage ==
  LET text == Part(TRUE, FALSE, FALSE, "none")
      thought == Part(TRUE, TRUE, FALSE, "none")
      signature == Part(FALSE, FALSE, TRUE, "none")
      signedText == Part(TRUE, FALSE, TRUE, "none")
      call == Part(FALSE, FALSE, FALSE, "named")
      signedCall == Part(FALSE, FALSE, TRUE, "named")
      nameless == Part(FALSE, FALSE, FALSE, "nameless")
  IN [type : {"chunk"}, finish : {"none", "end_turn", "max_tokens"},
      parts : {<<>>, <<text>>, <<thought>>, <<signature>>, <<signedText>>, <<call>>,
               <<signedCall>>, <<thought, text>>, <<text, nameless>>}]
     \cup [type : {"eof", "garbage"}]

(*------------------------- OpenAI-compatible -----------------------------*)

Unnamed(state, b, d) == ~d.named

\* Only the first delta of a call must bring its id and name.
Nameless(state, b, d) == ~Has(state, b) /\ ~d.named

OnToolDelta(r, d) ==
  LET b == <<"tool_call", d.key>>
      t == Touch(r.state, b, "tool_call")
      i == t.state.blocks[b].index
      known == Has(r.state, b)
  IN IF r.thrown \/ Nameless(r.state, b, d) THEN Breaks(r.state)
     ELSE Yield([t.state EXCEPT !.calls = IF known THEN @ ELSE Append(@, i)],
                r.events \o t.events \o IF d.arguments THEN <<Delta(i, "arguments")>> ELSE <<>>)

OnCompatibleDelta(r, part) ==
  CASE part = "text" ->
         LET t == Touch(r.state, <<"text">>, "text")
         IN Yield(t.state, r.events \o t.events \o <<Delta(t.state.blocks[<<"text">>].index, "text")>>)
    [] part = "reasoning" ->
         LET t == Touch(r.state, <<"reasoning">>, "summary")
         IN Yield(t.state, r.events \o t.events
                           \o <<Delta(t.state.blocks[<<"reasoning">>].index, "reasoning")>>)

TranslateCompatibleChunk(state, m) ==
  LET begun == Yield([state EXCEPT !.started = TRUE],
                     IF state.started THEN <<>> ELSE <<Started>>)
      r == FoldLeft(OnToolDelta, FoldLeft(OnCompatibleDelta, begun, m.deltas), m.tools)
  IN IF (~state.started /\ ~m.id) \/ r.thrown THEN Breaks(state)
     ELSE IF m.finish = "none" THEN r ELSE [r EXCEPT !.state.finish = m.finish]

\* Text, reasoning, then the tool calls in the order they were seen.
CompleteCompatible(state) ==
  Yield([state EXCEPT !.terminal = TRUE],
        ClosedIfAny(state, <<"text">>) \o ClosedIfAny(state, <<"reasoning">>)
        \o [j \in DOMAIN state.calls |-> Closed(state.calls[j], "tool_call")]
        \o <<Usage, Completed(CASE state.finish # "none" -> state.finish
                                [] state.finish = "none" /\ state.calls # <<>> -> "tool_use"
                                [] OTHER -> "end_turn")>>)

TranslateCompatible(state, m) ==
  CASE m.type \in {"done", "eof"} ->
         IF ~state.started \/ (m.type = "eof" /\ state.finish = "none") THEN Breaks(state)
         ELSE CompleteCompatible(state)
    [] m.type = "garbage" -> Breaks(state)
    [] m.type = "chunk" -> TranslateCompatibleChunk(state, m)

CompatibleMessage ==
  LET Chunk(deltas, tools, finish) ==
        [type |-> "chunk", id |-> TRUE, deltas |-> deltas, tools |-> tools, finish |-> finish]
      Tool(k, named, arguments) == [key |-> k, named |-> named, arguments |-> arguments]
  IN {Chunk(<<>>, <<>>, f) : f \in {"none", "end_turn", "tool_use"}}
     \cup {Chunk(<<p>>, <<>>, "none") : p \in {"text", "reasoning"}}
     \cup {Chunk(<<"text", "reasoning">>, <<>>, "none")}
     \cup {Chunk(<<>>, <<Tool(k, named, TRUE)>>, "none") : k \in Key, named \in BOOLEAN}
     \cup {Chunk(<<>>, <<Tool(k, TRUE, FALSE), Tool(l, TRUE, TRUE)>>, "none") : k, l \in Key}
     \cup {[Chunk(<<"text">>, <<>>, "none") EXCEPT !.id = FALSE]}
     \cup [type : {"done", "eof", "garbage"}]

(*----------------------------- all dialects ------------------------------*)

MessageOf(dialect) == CASE dialect = "openai" -> OpenAIMessage
                        [] dialect = "anthropic" -> AnthropicMessage
                        [] dialect = "gemini" -> GeminiMessage
                        [] dialect = "compatible" -> CompatibleMessage

Decode(dialect, state, m) == CASE dialect = "openai" -> TranslateOpenAI(state, m)
                               [] dialect = "anthropic" -> TranslateAnthropic(state, m)
                               [] dialect = "gemini" -> TranslateGemini(state, m)
                               [] dialect = "compatible" -> TranslateCompatible(state, m)
=============================================================================
