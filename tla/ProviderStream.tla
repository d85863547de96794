--------------------------- MODULE ProviderStream ---------------------------
(***************************************************************************)
(* One answer on its way from a provider to a client.  The upstream sends  *)
(* messages of its dialect in an order that may or may not keep to the     *)
(* dialect; the adapter decodes each into canonical events and yields them *)
(* one at a time (execute of the four providers); every event passes the   *)
(* session turn and transcript recorders (execution.ts) and the encoder of *)
(* the client's protocol; an exception ends the stream with an error frame *)
(* (the handlers of app.ts).                                               *)
(*                                                                         *)
(* The consumer pulls: the next message is read only when the events of    *)
(* the one before have all been handled.  Deadlines, cancellation and      *)
(* back-pressure are ProviderCall's, switching to another provider is      *)
(* Fallback's.                                                             *)
(***************************************************************************)
EXTENDS Decoders, Encoders, FiniteSetsExt

CONSTANTS MaxMessages,        \* bound: messages of an orderly upstream
          MaxDisorderly       \* bound: messages read once the upstream is not

ASSUME StreamAssumption == MaxMessages \in Nat /\ MaxDisorderly \in Nat /\ MaxBlocks \in Nat

VARIABLES dialect, protocol,
          up,         \* the provider's own view of its stream
          read,       \* messages read
          state,      \* the adapter's stream state
          queue,      \* canonical events decoded and not yet yielded
          pending,    \* an exception follows the queue
          canon,      \* phase and blocks of the stream as yielded so far
          kept,       \* recordCanonicalAssistant's collection
          turn,       \* recordTurn has been done
          answer,     \* the collector's state
          emitted,    \* toAnthropicSse's emittedBlocks
          seen,       \* what a streaming client has assembled
          over        \* the handler has ended the response

streamVars == <<dialect, protocol, up, read, state, queue, pending, canon, kept, turn, answer,
                emitted, seen, over>>

(*------------------------ the provider's protocol ------------------------*)

Upstream == [begun |-> FALSE, finished |-> FALSE, open |-> {}, closed |-> {}, orderly |-> TRUE]

\* The block a message is about, as the provider names it.
BlockOf(m) ==
  CASE m.type \in {"content_part.added", "output_text.delta", "refusal.delta",
                   "output_text.done"} -> <<"text", m.key>>
    [] m.type \in {"output_item.added", "arguments.delta", "arguments.done",
                   "output_item.done"} -> <<"tool_call", m.key>>

Opens == {"content_part.added", "output_item.added"}
Closes == {"output_text.done", "arguments.done", "output_item.done"}

OpenAIFollows(m) ==
  CASE m.type = "response.created" -> ~up.begun
    [] m.type = "unknown" -> TRUE
    [] m.type \in {"eof", "garbage"} -> FALSE
    [] m.type \in {"response.completed", "response.incomplete"} -> up.begun /\ up.open = {}
    [] m.type \in {"response.failed", "error"} -> up.begun
    [] m.type \in Opens -> up.begun /\ BlockOf(m) \notin up.open \cup up.closed
    [] m.type \in {"output_text.delta", "refusal.delta", "output_text.done"} ->
         up.begun /\ BlockOf(m) \notin up.closed
    [] m.type \in {"arguments.delta", "arguments.done"} -> BlockOf(m) \in up.open
    [] m.type = "output_item.done" -> BlockOf(m) \in up.open \cup up.closed

\* Blocks come one after another, numbered from 0.
AnthropicFollows(m) ==
  CASE m.type = "message_start" -> ~up.begun
    [] m.type \in {"eof", "garbage"} -> FALSE
    [] m.type = "content_block_start" ->
         up.begun /\ up.open = {} /\ m.index = Cardinality(up.closed) /\ m.kind # "unknown"
    [] m.type = "content_block_delta" ->
         \E kind \in {"text", "thinking", "tool_call"} :
           <<m.index, kind>> \in up.open /\ m.part \in PartsOf(kind)
    [] m.type = "content_block_stop" -> \E b \in up.open : b[1] = m.index
    [] m.type \in {"message_delta", "message_stop"} -> up.begun /\ up.open = {}
    [] m.type \in {"error", "ping"} -> up.begun

GeminiFollows(m) ==
  CASE m.type = "chunk" -> \A i \in DOMAIN m.parts : m.parts[i].call # "nameless"
    [] m.type = "eof" -> up.begun /\ up.finished
    [] m.type = "garbage" -> FALSE

CompatibleFollows(m) ==
  CASE m.type = "chunk" ->
         /\ up.begun \/ m.id
         /\ \A i \in DOMAIN m.tools : m.tools[i].named \/ m.tools[i].key \in up.open
    [] m.type = "done" -> up.begun
    [] m.type = "eof" -> up.begun /\ up.finished
    [] m.type = "garbage" -> FALSE

Follows(m) == CASE dialect = "openai" -> OpenAIFollows(m)
                [] dialect = "anthropic" -> AnthropicFollows(m)
                [] dialect = "gemini" -> GeminiFollows(m)
                [] dialect = "compatible" -> CompatibleFollows(m)

OpenAfter(m) ==
  CASE dialect = "openai" ->
         (CASE m.type \in Opens \cup {"output_text.delta", "refusal.delta"} -> up.open \cup {BlockOf(m)}
            [] m.type \in Closes -> up.open \ {BlockOf(m)}
            [] OTHER -> up.open)
    [] dialect = "anthropic" ->
         (CASE m.type = "content_block_start" -> up.open \cup {<<m.index, m.kind>>}
            [] m.type = "content_block_stop" -> {b \in up.open : b[1] # m.index}
            [] OTHER -> up.open)
    [] dialect = "gemini" -> {}
    [] dialect = "compatible" ->
         up.open \cup (IF m.type = "chunk" THEN {m.tools[i].key : i \in DOMAIN m.tools} ELSE {})

ClosedAfter(m) == CASE dialect = "openai" /\ m.type \in Closes -> up.closed \cup {BlockOf(m)}
                    [] OTHER -> up.closed \cup (up.open \ OpenAfter(m))

\* Once out of order, what the provider thinks of its stream no longer matters.
UpAfter(m) ==
  IF up.orderly /\ Follows(m)
  THEN [up EXCEPT !.begun = @ \/ m.type \in {"response.created", "message_start", "chunk"},
                  !.finished = @ \/ (m.type = "chunk" /\ m.finish # "none"),
                  !.open = OpenAfter(m), !.closed = ClosedAfter(m)]
  ELSE [Upstream EXCEPT !.orderly = FALSE]

(*------------------------------- the stream ------------------------------*)

StreamInit == /\ dialect \in Dialect /\ protocol \in Protocol
              /\ up = Upstream /\ read = 0
              /\ state = Fresh /\ queue = <<>> /\ pending = FALSE
              /\ canon = [phase |-> "idle", open |-> {}, closed |-> {}, last |-> <<>>, events |-> 0]
              /\ kept = NothingKept /\ turn = FALSE
              /\ answer = NoAnswer /\ emitted = {} /\ seen = NothingSeen
              /\ over = FALSE

ReturnsNever(decoder) == FALSE

\* if (state.terminal) return: nothing is read after the provider's last word.
Returned(decoder) == decoder.terminal

\* The most messages read: Anthropic announces every block and its end.
Bound(orderly) == IF ~orderly THEN MaxDisorderly
                  ELSE MaxMessages + (IF dialect = "anthropic" THEN 3 ELSE 0)

\* for await (const message of parseSse(...)): the adapter reads and decodes.
Receive(m) ==
  LET r == Decode(dialect, state, m)
  IN /\ ~over /\ queue = <<>> /\ ~pending /\ ~Returned(state)
     /\ up' = UpAfter(m)
     /\ read < Bound(up'.orderly)
     /\ read' = read + 1
     /\ state' = r.state
     /\ queue' = r.events
     /\ pending' = r.thrown
     /\ UNCHANGED <<dialect, protocol, canon, kept, turn, answer, emitted, seen, over>>

CanonAfter(e) ==
  LET c == [canon EXCEPT !.events = @ + 1,
                           !.last = IF e.type \in {"opened", "delta", "completed"}
                                    THEN <<e.type, e.index>> ELSE <<e.type>>]
  IN CASE e.type = "response.started" -> [c EXCEPT !.phase = "streaming"]
       [] e.type = "opened" -> [c EXCEPT !.open = @ \cup {e.index}]
       [] e.type = "completed" -> [c EXCEPT !.open = @ \ {e.index}, !.closed = @ \cup {e.index}]
       [] e.type \in {"response.completed", "response.failed"} -> [c EXCEPT !.phase = "ended"]
       [] OTHER -> c

\* The handler's catch block: an error frame, then the end of the response.
ErrorFrame == /\ seen' = See(seen, FrameEnd("error"))
              /\ over' = TRUE

\* An event makes one frame or none.
Seeing(frames) == IF frames = <<>> THEN seen ELSE See(seen, Head(frames))

\* An event is encoded and written; an encoder that throws ends the stream.
Encode(e) ==
  LET a == Collect(protocol, answer, e)
  IN /\ answer' = a
     /\ emitted' = Emitted(emitted, e)
     /\ IF a.thrown THEN ErrorFrame
        ELSE /\ seen' = Seeing(Frames(protocol, a, emitted, e))
             /\ over' = FALSE

\* An event that does not complete the response passes the recorders unhindered.
Pass ==
  /\ ~over /\ queue # <<>> /\ Head(queue).type # "response.completed"
  /\ queue' = Tail(queue)
  /\ canon' = CanonAfter(Head(queue))
  /\ kept' = Keep(kept, Head(queue))
  /\ Encode(Head(queue))
  /\ UNCHANGED <<dialect, protocol, up, read, state, pending, turn>>

\* recordTurn, then recordAssistant, then the event: a client is told of the
\* end of an answer when both are done.
PassCompleted ==
  /\ ~over /\ queue # <<>> /\ Head(queue).type = "response.completed"
  /\ queue' = Tail(queue)
  /\ canon' = CanonAfter(Head(queue))
  /\ turn' = TRUE
  /\ kept' = [kept EXCEPT !.recorded = Memory(kept) # <<>>]
  /\ Encode(Head(queue))
  /\ UNCHANGED <<dialect, protocol, up, read, state, pending>>

\* A store fails: the completed answer becomes an error of the stream.
RecordFails ==
  /\ ~over /\ queue # <<>> /\ Head(queue).type = "response.completed"
  /\ queue' = Tail(queue)
  /\ canon' = CanonAfter(Head(queue))
  /\ turn' \in BOOLEAN                   \* recordAssistant fails, or recordTurn does
  /\ ErrorFrame
  /\ UNCHANGED <<dialect, protocol, up, read, state, pending, kept, answer, emitted>>

\* The adapter's exception reaches the handler.
Raise ==
  /\ ~over /\ queue = <<>> /\ pending
  /\ canon' = [canon EXCEPT !.phase = "ended"]
  /\ ErrorFrame
  /\ UNCHANGED <<dialect, protocol, up, read, state, queue, pending, kept, turn, answer, emitted>>

\* The adapter returns after its terminal event: response.end().
Return ==
  /\ ~over /\ queue = <<>> /\ ~pending /\ Returned(state)
  /\ over' = TRUE
  /\ UNCHANGED <<dialect, protocol, up, read, state, queue, pending, canon, kept, turn, answer,
                 emitted, seen>>

StreamNext == \/ \E m \in MessageOf(dialect) : Receive(m)
              \/ Pass \/ PassCompleted \/ RecordFails \/ Raise \/ Return

StreamSpec == StreamInit /\ [][StreamNext]_streamVars
-----------------------------------------------------------------------------
\* A message has two parts at most and a part opens two blocks at most; Anthropic
\* numbers its own.
Indices == 0..(4 * (MaxMessages + MaxDisorderly) + MaxBlocks)

\* docs/canonical-protocol.md:29-39: what the four adapters yield is a canonical
\* stream whatever the upstream sends, block by block as long as it is orderly.
Canonical == INSTANCE CanonicalStream
               WITH Index <- Indices, phase <- canon.phase, open <- canon.open,
                    closed <- canon.closed, last <- canon.last,
                    yielded <- canon.events, orderly <- up.orderly
RefinesCanonicalStream == Canonical!Spec

Count(blocks, part) == FoldSet(LAMBDA at, n : n + blocks[at].n[part], 0, DOMAIN blocks)
Calls(blocks) == Cardinality({at \in DOMAIN blocks : blocks[at].kind = "tool_call"})

\* Told that an orderly answer is complete, a streaming client has put together
\* just what a collected answer holds, block for block, and the session's
\* transcript keeps every text and call of it (collect*, to*Sse,
\* recordCanonicalAssistant).
OneAnswer ==
  (over /\ up.orderly /\ answer.end \notin {"none", "failed"} /\ seen.ends # <<"error">>) =>
    /\ seen.blocks = answer.blocks /\ ~seen.stray
    /\ seen.ends = <<answer.end>>
    /\ \A part \in {"text", "arguments"} :
         Count(Memory(kept), part) = Count(answer.blocks, part)
    /\ Calls(Memory(kept)) = Calls(answer.blocks)
    /\ turn /\ kept.recorded = (Memory(kept) # <<>>)

\* A provider that keeps to its protocol and finishes is never answered with an
\* exception of ours: whatever lawful order its blocks come in, the decoder and
\* the encoder take it to the end.
OrderlyStreamsAccepted == up.orderly => ~pending /\ ~answer.thrown

\* Whatever the upstream does, a stream ends with one terminal frame, and the
\* encoder never meets an event it cannot place.
ToldOnce ==
  /\ over => Len(seen.ends) = 1
  /\ Len(seen.ends) <= 1
  /\ ~answer.thrown
=============================================================================
