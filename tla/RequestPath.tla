---------------------------- MODULE RequestPath ----------------------------
(***************************************************************************)
(* The way of a conversation through the gateway (executeCanonical): the   *)
(* client's turns become canonical messages, are merged into the session's *)
(* transcript, checked for progress, shortened, and become the body of a   *)
(* request to whichever provider is routed to; the answer is kept in the   *)
(* transcript and replayed, or not, by the client.                         *)
(*                                                                         *)
(* A client sends snapshots of the whole conversation or only what is new, *)
(* as one message: longer deltas are taken for snapshots (HistoryMerge).   *)
(* It answers every tool call before it says anything else.                *)
(***************************************************************************)
EXTENDS ProviderRequests, HistoryMerge, FiniteSets

CONSTANTS
    Replies,     \* what assistants may answer, without numbers
    Outputs,     \* what tools may put out, one output for each call of an answer
    Notes,       \* what users may say
    MaxTurns     \* bound on the conversation

ASSUME RequestPathAssumption == MaxTurns \in Nat

VARIABLES
    client,      \* the protocol of the client
    snapshots,   \* it sends the whole conversation
    options,     \* what it demands with every request
    turns,       \* the conversation as the client has it
    transcript   \* the session's canonical messages

vars == <<client, snapshots, options, turns, transcript>>

Init ==
    /\ client \in Client
    /\ snapshots \in BOOLEAN
    /\ options \in Options(client)
    /\ turns = <<>>
    /\ transcript = <<>>

-----------------------------------------------------------------------------
Turn(by, parts) == [by |-> by, parts |-> parts]

(* Bound: who demands something asks once, for demands and conversation     *)
(* do not depend on each other.                                             *)
Limit == IF options = Nothing THEN MaxTurns ELSE 2

Latest == turns[Len(turns)]

Asked == turns # <<>> /\ Latest.by # "assistant"

Pending == IF turns = <<>> \/ Asked THEN <<>> ELSE Only(Latest.parts, {"call"})

Number(position) == 10 * (Len(turns) + 1) + position

(* The client sends new turns, after the others or alone. *)
Send(new) ==
    LET sent == Normalized(client, IF snapshots THEN turns \o new ELSE new)
    IN  /\ Len(turns) + Len(new) <= Limit
        /\ snapshots \/ turns = <<>> \/ Len(sent) = 1
        /\ turns' = turns \o new
        /\ transcript' = Merge(transcript, sent)
        /\ UNCHANGED <<client, snapshots, options>>

Open ==
    /\ turns = <<>>
    /\ \E note \in Notes : Send(<<Turn("system", <<Text(1, "plain")>>),
                                  Turn("user", <<Text(2, note)>>)>>)

Say ==
    /\ turns # <<>> /\ ~Asked /\ Pending = <<>>
    /\ \E note \in Notes : Send(<<Turn("user", <<Text(Number(0), note)>>)>>)

(* The outputs of all pending calls, in either order; a client of the       *)
(* Messages protocol may flag errors and add a word.                        *)
AnswerCalls ==
    /\ Pending # <<>>
    /\ \E output \in {o \in Outputs : DOMAIN o = DOMAIN Pending},
          order \in {Pending, Reverse(Pending)},
          word \in {<<>>, <<Text(Number(9), "plain")>>} :
        /\ client = "messages" \/ (word = <<>> /\ \A i \in DOMAIN output : ~output[i].error)
        /\ Send(<<Turn("tools",
                       [i \in DOMAIN order |->
                            Result(order[i].number, output[i].note, output[i].error)] \o word)>>)

Numbered(reply) == [i \in DOMAIN reply |-> [reply[i] EXCEPT !.number = Number(i)]]

(* An assistant answers; a thought is kept with its signature as it came.  *)
Reply ==
    /\ Asked
    /\ Len(turns) < Limit
    /\ \E reply \in Replies :
         LET parts == Numbered(reply) IN
         /\ turns' = Append(turns, Turn("assistant", parts))
         /\ transcript' = WithAnswer(transcript, Message("assistant", parts))
    /\ UNCHANGED <<client, snapshots, options>>

Next == Open \/ Say \/ AnswerCalls \/ Reply

Spec == Init /\ [][Next]_vars

-----------------------------------------------------------------------------
Shortened == Omitted(transcript) # {}

(* What a provider is sent if the request in hand is routed to it. *)
Sent(provider) == Body(provider, client, Compressed(transcript),
                       Normalized(client, IF snapshots THEN turns ELSE <<Latest>>))

(* A part as anyone hears it: who said it, what kind, which. *)
Heard(speaker, part) ==
    [speaker |-> IF speaker = "tool" THEN "user" ELSE speaker,
     kind |-> part.kind, number |-> part.number, error |-> part.error]

HeardFrom(messages) ==
    FlattenSeq([i \in DOMAIN messages |->
        [j \in DOMAIN messages[i].content |->
            Heard(IF messages[i].role = "model" THEN "assistant" ELSE messages[i].role,
                  messages[i].content[j])]])

HeardIn(body) ==
    [i \in DOMAIN body.system |-> Heard("system", body.system[i])] \o HeardFrom(body.messages)

Told ==
    FlattenSeq([i \in DOMAIN turns |->
        LET parts == Only(turns[i].parts, Visible)
        IN  [j \in DOMAIN parts |-> Heard(IF turns[i].by = "tools" THEN "user" ELSE turns[i].by,
                                          parts[j])]])

(* Texts and calls of one answer may change places, nothing else may. *)
InOrder(heard, told) ==
    LET both == SelectSeq(told, LAMBDA h : h \in Range(heard))
        words(s) == SelectSeq(s, LAMBDA h : h.kind # "call")
        deeds(s) == SelectSeq(s, LAMBDA h : h.kind # "text" \/ h.speaker # "assistant")
    IN  words(heard) = words(both) /\ deeds(heard) = deeds(both)

Edits == {p.number : p \in {q \in Range(Parts(transcript)) : q.kind = "call" /\ q.note = "edit"}}

(* What is never omitted. *)
Promised(i, part) ==
    \/ turns[i].by = "system" \/ i = 2 \/ i = Len(turns)
    \/ part.note = "requirement" \/ Evidence(part)
    \/ part.kind \in {"call", "result"} /\ part.number \in Edits

(* The omitted results that are failures, though not to the compression.   *)
Overlooked ==
    SelectSeq(FlattenSeq([i \in DOMAIN transcript |->
                  IF i \in Omitted(transcript) THEN transcript[i].content ELSE <<>>]),
              LAMBDA part : Failing(part) /\ ~Evidence(part))

(* Anthropic's own clients bypass the transcript (toAnthropicRequestWith-   *)
(* Passthrough), so a delta of theirs reaches Anthropic alone.              *)
Bypassed(provider) == provider = "anthropic" /\ client = "messages" /\ ~snapshots

(* The same choice of tools in the words of all protocols. *)
SameChoice == {{""}, {"auto", "AUTO"}, {"none", "NONE"}, {"any", "required", "ANY"},
               {"tool", "function", "ANY of one"}}

(* Demands a target is known not to be sent: Gemini's new models choose     *)
(* their temperature (docs/openai-and-gemini.md); the others are findings.  *)
Unsent(target) ==
    (IF target = "gemini-3" THEN {"temperature"} ELSE {})
    \cup (IF target = "openai" THEN {"stop"} ELSE {})
    \cup (IF <<client, target>> \in {<<"messages", "anthropic">>, <<"responses", "openai">>}
         THEN {} ELSE {"thinking"})

(* A target is sent the demands of the client, no more, in its own words,   *)
(* or refuses; what routing looks for in a model is what the body asks for. *)
DemandsMet ==
    \A target \in Target :
        LET request == NormalizedOptions(client, options)
            sent == SentOptions(target, request)
        IN  IF sent = Refused THEN target = "anthropic" /\ options.format = "object"
            ELSE /\ sent.demands \subseteq options.demands
                 /\ options.demands \ Unsent(target) \subseteq sent.demands
                 /\ \E choice \in SameChoice : {sent.choice, options.choice} \subseteq choice
                 /\ Structured(options.format) => sent.format = options.format
                 /\ "structuredOutput" \in request.needs <=> Structured(sent.format)
                 /\ "tools" \in request.needs <=> "tools" \in sent.demands
                 /\ "thinking" \in sent.demands => "reasoning" \in request.needs

(* Whatever protocol the client speaks, whether it sends snapshots or       *)
(* deltas, and whichever provider is routed to: the provider hears what was *)
(* said, by whom it was said, in the order it was said.  A shortened copy   *)
(* lacks nothing of what docs/session-resilience.md:41-45 promises to       *)
(* preserve, and shows the classifier the failures of the whole, but for    *)
(* those only analyzeProgress takes for failures: these it may lack, which  *)
(* is a finding.  What the client demands of the answer reaches the         *)
(* provider too (DemandsMet).                                               *)
Conveyed ==
    Asked =>
        /\ DemandsMet
        /\ \A provider \in Provider :
             LET heard == SelectSeq(HeardIn(Sent(provider)),
                                    LAMBDA h : h.kind # "thought" /\ h.number # 0)
             IN  Bypassed(provider) \/
                 /\ InOrder(heard, Told)
                 /\ \A i \in DOMAIN turns : \A part \in Range(Only(turns[i].parts, Visible)) :
                      ~Shortened \/ Promised(i, part) =>
                        \E h \in Range(heard) : h.kind = part.kind /\ h.number = part.number
        /\ LET copy == Progress(Compressed(transcript))
               whole == Progress(transcript)
           IN  /\ copy.errors = whole.errors
               /\ copy.failed + Len(Overlooked) = whole.failed

(* Between a call and its result there is nothing but the rest of the       *)
(* answer and other results, and every result has a call.                   *)
Paired(heard) ==
    /\ \A i \in DOMAIN heard : heard[i].kind = "call" =>
         \E j \in i + 1 .. Len(heard) :
            /\ heard[j].kind = "result" /\ heard[j].number = heard[i].number
            /\ \A k \in i + 1 .. j - 1 : heard[k].speaker = "assistant" \/ heard[k].kind = "result"
    /\ \A j \in DOMAIN heard : heard[j].kind = "result" =>
         \E i \in 1 .. j - 1 : heard[i].kind = "call" /\ heard[i].number = heard[j].number

(* In a chat the tool messages come right after the message with the calls. *)
Adjacent(messages) ==
    \A i \in DOMAIN messages :
        LET calls == {p.number : p \in Range(Only(messages[i].content, {"call"}))}
            tools == {j \in DOMAIN messages : /\ j \in i + 1 .. i + Cardinality(calls)
                                             /\ messages[j].role = "tool"}
        IN  calls = {messages[j].content[1].number : j \in tools}

(* Each call of a Responses client is a message of its own. *)
Split ==
    /\ client = "responses" /\ snapshots
    /\ \E i \in DOMAIN turns : /\ turns[i].by = "assistant"
                               /\ Len(Only(turns[i].parts, {"call"})) > 1

(* The thoughts a client replays sign the calls they led to. *)
Replayed(messages) ==
    \A message \in Range(messages) :
        \A i \in 2 .. Len(message.content) :
            message.content[i].kind = "call" /\ message.content[i - 1].kind = "thought" =>
                message.content[i].note = "signed"

(* Tool calls and results arrive the way the provider's protocol pairs      *)
(* them, also after they were recorded from one provider's stream, replayed *)
(* in another protocol and split into messages (toAnthropicRequest,         *)
(* toOpenAIInput, toGeminiRequest, toChatMessages), and a thought that a    *)
(* Messages client replays reaches Gemini as the signature of its call.     *)
(* Shortened copies and Split conversations are findings.                   *)
Accepted ==
    Asked /\ ~Shortened =>
        /\ \A provider \in Provider :
             Bypassed(provider) \/ Paired(HeardFrom(Sent(provider).messages))
        /\ Split \/ Adjacent(Sent("compatible").messages)
        /\ client = "messages" /\ snapshots => Replayed(Sent("gemini").messages)
=============================================================================
