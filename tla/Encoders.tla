------------------------------ MODULE Encoders ------------------------------
(***************************************************************************)
(* What the gateway makes of a canonical stream, for each client protocol: *)
(* the frames of a streamed answer (toAnthropicSse, toChatCompletionSse,   *)
(* toOpenAIResponseSse), the body of a collected one (collect...), and the *)
(* assistant message the session's transcript keeps                        *)
(* (recordCanonicalAssistant).                                             *)
(*                                                                         *)
(* An answer is a function from block positions to blocks; a block has its *)
(* kind and, for every part, the number of deltas it has taken.            *)
(***************************************************************************)
EXTENDS CanonicalEvents, Sequences, FiniteSets

Protocol == {"messages", "chat", "responses"}
PartName == {"text", "reasoning", "signature", "arguments"}

Empty(kind) == [kind |-> kind, n |-> [p \in PartName |-> 0]]
Plus(blocks, at, part) == [blocks EXCEPT ![at].n[part] = @ + 1]
IsA(blocks, at, kinds) == at \in DOMAIN blocks /\ blocks[at].kind \in kinds
Orelse(blocks, at, kind) == IF IsA(blocks, at, {kind}) THEN blocks
                            ELSE With(blocks, at, Empty(kind))

\* A collector's state; end is "none", the finish reason or "failed"; tools maps
\* the index of a tool call to its position in a chat answer.
NoAnswer == [blocks |-> <<>>, tools |-> <<>>, end |-> "none", thrown |-> FALSE]

Thrown(a) == [a EXCEPT !.thrown = TRUE]
Extended(a, at, part, kinds) ==
  IF IsA(a.blocks, at, kinds) THEN [a EXCEPT !.blocks = Plus(@, at, part)] ELSE Thrown(a)
Ended(a, e) == CASE e.type = "response.completed" -> [a EXCEPT !.end = e.reason]
                 [] e.type = "response.failed" -> [a EXCEPT !.end = "failed"]
                 [] OTHER -> a

KindOf(part) == CASE part = "text" -> {"text"}
                  [] part \in {"reasoning", "signature"} -> {"thinking", "summary"}
                  [] part = "arguments" -> {"tool_call"}

(*--------------------------- collected answers ---------------------------*)

\* Unsigned reasoning has no block in the Messages protocol.
CollectMessages(a, e) ==
  CASE e.type = "opened" ->
         IF e.kind = "summary" THEN a ELSE [a EXCEPT !.blocks = With(@, e.index, Empty(e.kind))]
    [] e.type = "delta" ->
         IF e.part \in {"reasoning", "signature"} /\ ~IsA(a.blocks, e.index, {"thinking"})
         THEN a ELSE Extended(a, e.index, e.part, KindOf(e.part))
    [] OTHER -> Ended(a, e)

\* A chat answer has one text, one reasoning text, and its calls in order.
ChatAt(part) == IF part = "text" THEN -1 ELSE -2
CollectChat(a, e) ==
  CASE e.type = "opened" /\ e.kind = "tool_call" ->
         LET position == Cardinality(DOMAIN a.tools)
         IN [a EXCEPT !.tools = With(@, e.index, position),
                      !.blocks = With(@, position, Empty("tool_call"))]
    [] e.type = "delta" /\ e.part \in {"text", "reasoning"} ->
         [a EXCEPT !.blocks = Plus(Orelse(@, ChatAt(e.part), e.part), ChatAt(e.part), e.part)]
    [] e.type = "delta" /\ e.part = "arguments" ->
         IF e.index \notin DOMAIN a.tools THEN Thrown(a)
         ELSE Extended(a, a.tools[e.index], "arguments", {"tool_call"})
    [] OTHER -> Ended(a, e)

CollectResponses(a, e) ==
  CASE e.type = "opened" -> [a EXCEPT !.blocks = With(@, e.index, Empty(e.kind))]
    [] e.type = "delta" /\ e.part # "signature" -> Extended(a, e.index, e.part, KindOf(e.part))
    [] e.type = "completed" /\ e.of = "tool_call" ->
         IF IsA(a.blocks, e.index, {"tool_call"}) THEN a ELSE Thrown(a)
    [] OTHER -> Ended(a, e)

Collect(protocol, a, e) == CASE protocol = "messages" -> CollectMessages(a, e)
                             [] protocol = "chat" -> CollectChat(a, e)
                             [] protocol = "responses" -> CollectResponses(a, e)

(*--------------------------- streamed answers ----------------------------*)

FrameOpen(at, kind)  == [frame |-> "open", at |-> at, kind |-> kind]
FrameDelta(at, part) == [frame |-> "delta", at |-> at, part |-> part]
FrameSay(part)       == [frame |-> "say", part |-> part]
FrameClose(at)       == [frame |-> "close", at |-> at]
FrameEnd(reason)     == [frame |-> "end", reason |-> reason]

LastFrames(e) == CASE e.type = "response.completed" -> <<FrameEnd(e.reason)>>
                   [] e.type = "response.failed" -> <<FrameEnd("failed")>>
                   [] OTHER -> <<>>

\* emittedBlocks: the blocks a content_block_start has been sent for.
Emitted(emitted, e) ==
  CASE e.type = "opened" /\ e.kind # "summary" -> emitted \cup {e.index}
    [] e.type = "completed" -> emitted \ {e.index}
    [] OTHER -> emitted

NotReasoning(emitted, e) == e.part \notin {"reasoning", "signature"}
Everything(emitted, e) == TRUE

\* Reasoning is shown only in a block the client has been told of.
Shown(emitted, e) == NotReasoning(emitted, e) \/ e.index \in emitted

MessagesFrames(emitted, e) ==
  CASE e.type = "opened" ->
         IF e.kind = "summary" THEN <<>> ELSE <<FrameOpen(e.index, e.kind)>>
    [] e.type = "delta" ->
         IF Shown(emitted, e) THEN <<FrameDelta(e.index, e.part)>> ELSE <<>>
    [] e.type = "completed" -> IF e.index \in emitted THEN <<FrameClose(e.index)>> ELSE <<>>
    [] OTHER -> LastFrames(e)

\* a is the state applyEvent has left.
ChatFrames(a, e) ==
  CASE e.type = "opened" ->
         IF e.kind = "tool_call" THEN <<FrameOpen(a.tools[e.index], "tool_call")>> ELSE <<>>
    [] e.type = "delta" ->
         CASE e.part = "signature" -> <<>>
           [] e.part = "arguments" -> <<FrameDelta(a.tools[e.index], "arguments")>>
           [] OTHER -> <<FrameSay(e.part)>>
    [] OTHER -> LastFrames(e)

\* The end of a block that is no text and no reasoning is not told.
ResponsesFrames(a, e) ==
  CASE e.type = "opened" -> <<FrameOpen(e.index, e.kind)>>
    [] e.type = "delta" -> IF e.part = "signature" THEN <<>> ELSE <<FrameDelta(e.index, e.part)>>
    [] e.type = "completed" ->
         IF e.of = "tool_call" \/ IsA(a.blocks, e.index, {"text", "thinking", "summary"})
         THEN <<FrameClose(e.index)>> ELSE <<>>
    [] OTHER -> LastFrames(e)

Frames(protocol, a, emitted, e) ==
  CASE a.thrown -> <<>>
    [] ~a.thrown /\ protocol = "messages" -> MessagesFrames(emitted, e)
    [] ~a.thrown /\ protocol = "chat" -> ChatFrames(a, e)
    [] ~a.thrown /\ protocol = "responses" -> ResponsesFrames(a, e)

(*------------------------ what the client assembles ----------------------*)

\* stray: a frame for a block that is not open, or after the end.
NothingSeen == [blocks |-> <<>>, open |-> {}, ends |-> <<>>, stray |-> FALSE]

See(seen, f) ==
  CASE f.frame = "open" ->
         [seen EXCEPT !.blocks = With(@, f.at, Empty(f.kind)), !.open = @ \cup {f.at},
                      !.stray = @ \/ f.at \in DOMAIN seen.blocks \/ seen.ends # <<>>]
    [] f.frame = "delta" ->
         IF f.at \in seen.open THEN [seen EXCEPT !.blocks = Plus(@, f.at, f.part)]
         ELSE [seen EXCEPT !.stray = TRUE]
    [] f.frame = "say" ->
         [seen EXCEPT !.blocks = Plus(Orelse(@, ChatAt(f.part), f.part), ChatAt(f.part), f.part)]
    [] f.frame = "close" ->
         [seen EXCEPT !.open = @ \ {f.at}, !.stray = @ \/ f.at \notin seen.open]
    [] f.frame = "end" -> [seen EXCEPT !.ends = Append(@, f.reason)]

(*--------------------- what the transcript remembers ---------------------*)

\* calls holds the argument texts of the tool calls that have not completed.
NothingKept == [blocks |-> <<>>, calls |-> <<>>, recorded |-> FALSE]

KeptKind(kind) == IF kind \in {"thinking", "summary"} THEN "reasoning" ELSE kind

Keep(kept, e) ==
  CASE e.type = "opened" ->
         [kept EXCEPT !.blocks = With(@, e.index, Empty(KeptKind(e.kind))),
                      !.calls = IF e.kind = "tool_call" THEN With(@, e.index, 0) ELSE @]
    [] e.type = "delta" /\ e.part = "arguments" ->
         [kept EXCEPT !.calls = With(@, e.index, IF e.index \in DOMAIN @ THEN @[e.index] + 1 ELSE 1)]
    [] e.type = "delta" /\ e.part # "arguments" ->
         LET kind == IF e.part = "text" THEN "text" ELSE "reasoning"
         IN [kept EXCEPT !.blocks = Plus(Orelse(@, e.index, kind), e.index, e.part)]
    [] e.type = "completed" /\ e.of = "tool_call" /\ IsA(kept.blocks, e.index, {"tool_call"}) ->
         [kept EXCEPT !.blocks[e.index].n["arguments"] = kept.calls[e.index]]
    [] OTHER -> kept

\* The blocks of the recorded message: texts that stayed empty are left out.
Memory(kept) ==
  LET worth == {at \in DOMAIN kept.blocks :
                  kept.blocks[at].kind \in {"text", "reasoning"}
                    => kept.blocks[at].n["text"] + kept.blocks[at].n["reasoning"] > 0}
  IN [at \in worth |-> kept.blocks[at]]
=============================================================================
