# A verification project for Vartma.ai

Vartma.ai is a router between coding agents and model providers. A request comes in over one of
three client protocols, is normalised, merged into its session's transcript, routed to a model, sent
to a provider, moved to another model if that fails in time, and streamed back. This directory holds
TLA+ models of the parts where requests, failures, files and time meet, the TLC runs that check them,
and proofs checked by TLAPS: of the circuit registry every request shares, the fallback loop as an
implementation of it and of the safe fallback invariant, the ledger of attempts, the session row, the
configuration commands as an implementation of an undo stack, the settings of the coding agents, the
managed gateway process, and the end of an exchange.

Contents: [inventory](#inventory), [plan](#plan), [modules](#modules), [runs](#runs),
[fairness](#fairness), [mutants](#mutants), [findings](#findings), [proofs](#proofs),
[what is not modelled](#what-is-not-modelled).

## Inventory

The gateway is one Node.js process. Code runs to the next `await` without interruption; what
interleaves is requests (and reports about sessions) at their awaits. The command line is a second
process that shares files with the gateway.

| Component | State it keeps | Operations | What makes it hard | What makes it correct |
|---|---|---|---|---|
| Circuit breakers (`routing/src/circuit-breaker.ts`) | for each model and provider: closed, open since, half-open, failures, successes, probe flag | `canRequest`, `recordSuccess`, `recordFailure`, `releaseProbe`, `blockedKeys` | reports come long after the admission and do not say which admission they answer; an attempt may never report | one probe at a time; an open circuit stays open for its time; a blocked key is offered again |
| Safe fallback (`gateway/src/fallback.ts`, `execution.ts`) | per request: candidates, position, buffer, deadline | `prepareFallbackExecution`, `prepareAttempt`, `continueAttempt` | failure before and after output, deadline and client abort at any await, stale routing information | no model asked twice, no more than `maxAttempts`, none after output; every request ends |
| Attempt ledger (`gateway/src/attempt-recording.ts`, `database/src/attempt-store.ts`) | rows Request, ProviderAttempt, UsageEvent, Session totals | `start`, `startFallback`, `responseStarted`, `firstToken`, `complete`, `fail` | transactions that fail or lose their answer, recording twice, crash, an abandoned generator | one usage event per terminal attempt; totals are the ledger's; request follows its last attempt |
| Session coordinator (`routing/src/session.ts`, `database/src/session-store.ts`) | one row: level, automatic level, counters, cooldown, verdict | `recordTurn`, `recordOutcome`, `observeProgress` | whole-row writes of overlapping methods; two reasons to raise the level | level moves by policy; automatic levels expire, explicit ones do not |
| Canonical history (`routing/src/history.ts`) | a transcript per session | `prepareRequest`, `recordAssistant` | deltas, snapshots and repetitions told apart by content alone; overlapping writers | nothing sent is lost or doubled |
| Progress detector, context compression (`routing/src/progress.ts`, `context.ts`) | none | `analyzeProgress`, `compressCanonicalContext` | thresholds, what must be retained, two patterns for a failure, calls and results that belong together | what is promised is kept; the copy shows the failures the compression knows |
| Routing engine (`routing/src/engine.ts`) | none (reads session row and blocked keys) | `route` | scores that depend on the session the answer changes | a session settles; a dearer model does not win by its price |
| Provider client (`providers/src/http.ts`) | per call: attempt number, timer | `requestSse`, `parseSse`, `createExecutionSignal` | retry delays against deadlines, messages already read when the signal comes | bounded retries, silence after an abort, every call ends |
| Provider adapters, protocol encoders | per stream: open blocks, usage, terminal seen | decode upstream events to canonical ones, encode them for the client; translate requests | blocks that are not closed, several terminals, calls and results that must stay together across protocols | well-formed stream in, the same answer out; the provider hears what was said |
| HTTP surface (`gateway/src/app.ts`, `server.ts`) | metrics, abort controllers | the three protocol handlers, outcomes, sessions | backpressure, clients that leave, failures after the headers | every request ends, and its end says what happened |
| Configuration and credentials (`config/src/mutation.ts`, `credentials.ts`), client settings (`cli/src/claude-code-settings.ts`, `openai-client-settings.ts`) | YAML file, history file, backups, lock files, encrypted store, settings and state files | init, mutate, undo, login; configure, bypass, uninstall | crash between two writes, drift by hand, stale locks | changes are a stack; references have credentials; the user's own values come back |
| Managed gateway (`cli/src/process-manager.ts`) | state file, child process | start, stop | two starts, time-outs, recycled process ids | no second instance, stop signals the gateway that answered |
| Evaluation harness, analytics and inspection queries, console, command line reports | result rows | run, persist, aggregate | little: sequential, idempotent upserts, reads | same input, same summary |

How they interact: a handler calls `executeCanonical`, which awaits the history, then the session
coordinator, reads the blocked keys synchronously, awaits the routing engine and then the fallback
loop; the loop calls the circuits synchronously and awaits provider and ledger. The events then flow
back through four nested generators (fallback, ledger inside it, session turn and transcript outside
it), each of which acts when a terminal event passes and only as long as its consumer reads on.

`PROJECT.json` lists every component with its status and, under `hazards`, the lines where a test
would hardly reach the thing that can go wrong, with the properties that watch it.

## Plan

The order was: what every request shares (circuits, fallback loop, ledger, session, transcript); what
survives a crash (configuration, credentials, client settings, managed process); what a request goes
through (HTTP exchange, provider call, streams, routing, the path of a conversation). All of these
stand. What is left, in this order:

1. Proofs: more action properties of the components that have proofs (what an undo restores, what an
   expiry takes back), and `Accepted` and `Conveyed` of `RequestPath`.
2. The rest of the ledger: price book entries, cost arithmetic, route decisions and baselines.
3. The evaluation harness and `ConfigurationStore.activate`, both small.

## Modules

`CircuitBreaker` holds the circuit of one key: a record with the fields of the registry's entry, and
one operator for each method of `CircuitBreakerRegistry` that gives the record after the call
(`canRequest`: `Admits` and `AfterCanRequest`; `recordSuccess`, `recordFailure`, `releaseProbe`; the
scan of `isBlocked`: `Refresh`). `age` is the time since `openedAt` in ticks, kept up to
`OpenDuration`. `failures` is kept up to the threshold it is compared with.

`CircuitTraffic` is the registry with the attempts that use it. `Admit` and `RefuseModel` are the two
answers of `canRequestModel`, which asks the provider's circuit and then the model's and gives the
provider's probe back when the model refuses. A refusal by the provider's circuit changes nothing but
the half-opening that `Scan` also does. `SettleSuccess`, `SettleFailure` and `SettleSilent` are the ends
of an attempt: it reports to both circuits, or it ends and nobody reports. `probers`, `strays` and
`leaked` are history variables: they record who was admitted by taking a probe, where another caller
reported meanwhile, and where a prober ended without a report.

`Fallback` is `executeCanonical` with `prepareFallbackExecution` and its generators, for several
requests over one registry. `pc` follows the code:

| `pc` | the request is |
|---|---|
| `idle` | not there, or ended |
| `routing` | at the await of the routing engine, with the blocked keys it read before |
| `trying` | about to ask the circuits of its next candidate |
| `starting` | at the await of `startFallback`, admitted by the circuits |
| `buffering` | in `prepareAttempt`, no meaningful output yet |
| `streaming` | in `continueAttempt`, output has been shown |

The registry's operators come from `CircuitBreaker`, and `Traffic == INSTANCE CircuitTraffic WITH
Caller <- Request` shows that the loop uses them as `CircuitTraffic` allows. `SafeFallback` is what the
gateway promises about one request ("Safe fallback invariant" in docs/session-resilience.md), with a
phase, the models tried and the models shown; `Fallback!Safe` is the refinement mapping. The candidate
list of `fallbackCandidates` has models at least as strong as the selected one first and, among
these, other providers first; within that the score decides, so any order is allowed
(`CandidateLists`).

`AttemptLedger` is the generator `recordProviderAttempt` over the transactions of
`PrismaAttemptStore`. A transaction commits and answers, rolls back, or commits and loses its answer;
`Written` is what the generator learns. `pc` names the generator's next call: `catch` and `finally` are
the two places that record a failure. The unique key on `UsageEvent.providerAttemptId` is in
`WriteTerminal`: a second event rolls the transaction back. `Crash` ends every request and leaves the
rows.

`Session` is the row of one session and the methods of `SessionCoordinator` that overlap on it. Each is
a read with its computation (`RecordTurn`, `RecordOutcome`, `ObserveExpired`, `ObserveStuck`) and,
after the awaits, a `Write` of the whole row. Timestamps are the ticks left until them, in the row and
in every copy, so `Tick` ages them all. `stale`, `explicit` and `flagged` are history variables.

`History` is the transcript of one session. `Merge` is `mergeCanonicalMessages` and its helpers;
`PrepareRequest`, `PutTranscript`, `RecordAssistant`, `PutTranscript` are the reads and writes of a
request and of its answer. Messages are values, and equality of values stands for equality of their
JSON. `Session`, `History` and `Routing` share no name, because one module proves things about all three.

`ConfigMutation` is the configuration file, its history and backups, the two lock files and the
credential store, with one action for each read and each write of a command (`mutateRouterConfig`,
`undoRouterConfigMutation`, `initializeRouterConfig`, the `login` command). `Crash` may strike between
any two and leaves the lock; `Edit` and `LoseBackup` are what people do to the files while no command
works. The definition given to `provider add` may be enabled or not and may carry a credential reference:
`brought` is a history variable with the references people wrote, in the file or in such a definition, and
stored nothing for since. No command asks the store for them, so `CredentialsBehindReferences` excepts
exactly these. `UndoStack` is the abstract specification: a stack of contents on which a command pushes or
pops one. `ConfigMutation!Contents` is the refinement mapping, which counts a recorded change only when its
content is installed, so that the crash between the two writes is invisible.

`ClientSettings` is the settings file, the state file and the two saved contents of each coding agent,
with `configure`, `bypass`, `undo` and `uninstall` write by write. `original` (the user's own values) and
`torn` (a first `configure` crashed between settings and state) are history variables.

`ManagedGateway` is `vartma start` and `vartma stop` over a table of processes: a process ID is free, a
gateway with its phase of start-up, or another program. The health endpoint answers for whichever
gateway has the port. A free process ID may be given out at any time, also between the answer of a
gateway to stop and the signal. `disturbed` and `lapsed` are history variables: a start overlapped, a
command crashed, or a health check timed out; and the commands whose gateway has ended since it answered
them (`Lapses` follows them in every step).

`CanonicalEvents` are the events between adapters and encoders; the end of a call is told from the end of
any other block, because encoders refuse the first where they pass over the second. `Decoders` are the
four adapters' stream states, one operator per upstream message that gives the next state, the canonical
events and whether it throws (an adapter's field `calls` lists the tool calls of a compatible answer in
the order of their `Map`). `Encoders` are the six encoders and the transcript recorder, one operator per
event. `ProviderStream` composes them (its specification is `StreamSpec`, so that one module can hold
theorems about it and about `Exchange`): `Receive` hands one upstream message to the adapter, `Pass` one
canonical event through the recorders to the encoder, `PassCompleted` and `RecordFails` the completed
event past the two stores. `up.orderly` says whether the upstream has kept to its own protocol.
`CanonicalStream` is what docs/canonical-protocol.md promises, and `ProviderStream!Canonical` the
refinement.

`ProviderCall` is the same call in time: attempts, pauses, the adapter's timer, the caller's signal and
the reads of a body whose bytes may hold several messages. `Exchange` EXTENDS it with the handler of
the request, the response and the client: headers, writes, `waitForDrain`, the catch block, the error
status and the metrics.

`Routing` is `RoutingEngine.route` over whole numbers (money and time in units, success in percents,
scores multiplied out, so nothing is rounded) and the session that the chosen model is written to:
`Task` is the classifier on an abstract prompt, `Candidates` the filters, `Scored` and `Beats` score and
tie break, `Keeps` the hysteresis. `Turn` is a turn that the selected model answers; the other actions
change what is around it.

`RequestPath` follows conversations. `Conversation` has the parts of a turn and the three normalisers;
`RequestOptions` the options of a request, from the three schemas to the four bodies; `HistoryMerge` the
merge shared with `History`; `ContextCompression` progress and compression, each with its own pattern for
a failure (`Failing`, `Evidence`); `ProviderRequests` the four request bodies. A client opens, speaks,
answers tool calls; an assistant replies; at any time the request in hand could be routed to any of the
four providers, and the invariants look at all four bodies.

`MCCircuitTraffic`, `MCFallback`, `MCHistory`, `MCConfigMutation`, `MCRouting` and `MCRequestPath` define
the small models, providers, offers and message lists of the runs; `MCSession` and `MCAttemptLedger`
only add symmetry. `*_proofs` hold theorems.

## Runs

| Run | Question | Distinct states |
|---|---|---|
| `CircuitTraffic` | how many probes a circuit lets through, who owns a taken probe, how long it stays open, whether a blocked key is offered again | 97,119 |
| `Fallback` | does the loop use the circuits as `CircuitTraffic` allows, implement `SafeFallback`, and does every request end | 116,199 |
| `AttemptLedger` | do rows and usage events agree when transactions fail and the process dies | 167,331 |
| `Session` | when may the level rise and fall, with two overlapping methods | about 1.8 million |
| `History` | what does a merge keep, with two overlapping requests | 423,653 |
| `ConfigMutation` | are locks released, is the history a chain, can every change be undone, do references have credentials, is every command atomic on the undo stack | about 1.3 million |
| `ClientSettings` | does undo bring back the user's own values, does the status tell the truth | about 6.6 million |
| `ManagedGateway` | is a running gateway on record, whom does stop signal, do commands end | 277,806 |
| `ProviderStream` | are adapters' streams canonical, is a streamed answer the collected and the recorded one, is its end told once | about 1.2 million |
| `Exchange` | is nothing asked or passed on after an abort, does every request end, and does its end say what happened | 12,714 |
| `Routing` | does a session settle on a model, can a price rise make a model win | 434,776 |
| `RequestPath` | does every provider hear what was said, with calls and results paired, and what was demanded | 451,308 |

The bounds, and why they are enough:

- *Circuits.* Three callers, two models of one provider, thresholds and open time 2. Two models of one
  provider are the least with which an attempt's two circuits move apart. Three callers are a probe, a
  second probe and the straggler that makes room for it. With a success threshold of 2 a half-open
  circuit takes a successful probe and stays half-open. The theorems hold for any number of each.
- *Fallback.* Two requests with two models of one provider, one weaker, meet at its circuit; one
  failure opens it and one tick half-opens it. The deadline is one tick, before or after the switch.
- *Ledger.* Two requests of one session; two attempts are one fallback; usage 0 and 1 tell a
  counted event from an uncounted one. Every outcome of every transaction and a crash at any time.
- *Session.* Two methods overlap, which is the least for a stale copy; two levels, two failures and
  one success to move, two fingerprints. Times of one tick make every cooldown and verdict expire.
- *History.* Lists of one to three messages of which some repeat, a system prompt that marks a
  snapshot, transcripts of at most five messages (`MaxLength`): deltas, overlaps of one and two
  messages, snapshots and repetitions all occur.
- *Configuration.* Two commands, which is the least for an overlap; three providers of one model each (the
  fake one, one that is there and one that is added, with a reference or without); a history of at most
  two changes (`MaxHistory`), so that an undo has another below it; two outside acts (`MaxEdits`), so that
  an edit can be followed by drift back.
- *Client settings.* Both agents, because uninstall does one after the other; two values of the user,
  two routed modes, one edit (`MaxEdits`).
- *Managed gateway.* Two commands, two process IDs, two gateways (`MaxSpawns`) and one other program
  (`MaxOthers`): the least with which an ID is used again while a command is under way.
- *Streams.* Two tool-call keys, two blocks (`MaxBlocks`), six upstream messages, nine of Anthropic's
  (`MaxMessages`), three once the upstream has left its protocol (`MaxDisorderly`): interleaved calls,
  text between calls, repeated and missing ends.
- *Exchange.* Two retries, four events of one upstream (`MaxEvents`), so that a read can bring two and leave
  one to be passed on after an abort.
- *Routing.* Every assignment of eight offers to three models of two providers, ten requests, the
  default policies, two disturbances (`MaxChanges`). The offers are chosen near one another's scores.
- *Conversations.* Seven turns (`MaxTurns`): instructions, a question, calls, results, an answer, and one
  more exchange; five kinds of answers, two of questions, five of outputs (one that succeeds, one flagged
  as an error, failures to both patterns or to one alone), of which two in one turn are the same unless
  one succeeds (`MCOutputs`); compression at five messages, of which the last two are kept. A request with
  demands is looked at once, in a conversation of two turns: demands and messages do not depend on each
  other.

Symmetry is used in runs without liveness properties only. Deadlock is not checked in the circuit run,
where leaked probes can block every key and nothing is left to happen, in the ledger run, whose
requests all come to an end, in the configuration run, where the history and the outside acts are
bounded, and in the runs of streams and conversations, which end.

## Fairness

`CircuitTraffic!FairSpec`: time passes (`WF(Tick)`) and every attempt ends (`WF(Finish(c))`). The second
is what the provider client's timeout and the fallback deadline guarantee, and `Fallback` shows it
(`EveryRequestEnds`). New requests need not come: `BlockedEventuallyAdmits` says that a blocked key is
offered again, not that anybody asks for it.

`Fallback!FairSpec`: time passes, and the gateway takes its own steps (`WF(Proceed(r))`): the routing
engine and the store answer or throw, and the wait on a provider ends once the attempt's signal has
been aborted, because the signal is handed to `fetch`. Nothing is assumed of provider events, of the
client or of arrivals. A store that never answers would hold a request; the code has no deadline for
it and neither has the model.

`Exchange!Fairness`: the event loop runs what is ready, an aborted fetch, read or pause rejects, and a
timer that is armed fires. Nothing is assumed of the provider, which may stay silent for ever or name
any pause. A client that has stopped reading resumes or leaves: with one that does neither, the
response has no timeout of its own.

`ManagedGateway!Fairness`: a command goes on with its next step and its deadlines pass. No process is
assumed to boot, to answer or to end.

`Routing!Settles` and `ProviderStream` need none: `Settles` says that a behaviour that goes on does not
change its model for ever, and every behaviour that only repeats turns is a behaviour of `Spec`.

## Mutants

Every property of a passing run has a mutant in `PROJECT.json`: a definition changed the way a
plausible bug would change the code, for which the run finds the property violated. They stand beside
their originals in the modules, under a comment that begins with "Mutant". Some examples: a refused
request that keeps the provider's probe (`RefuseModelKeepsProbe`), a failure that is not reported to the
circuits (`AttemptFailsUnreported`), a stream that switches models after output (`StreamFailsOver`), a
usage event outside the transaction (`WriteAttemptApart`), a shortest instead of a longest overlap
(`ShortestOverlap`), a credential lock that is ignored (`TakeKeyLockAnyway`), a stop that trusts a process
ID (`ReadStopTrusting`), a decoder that completes at every end (`CompleteEachTime`), a stream that
breaks and is ended like a whole one (`CatchQuietly`).

## Findings

What a document, a comment or the code itself says, and the code does not do. `PROJECT.json` quotes the
lines. Where a definition states the promise it stands in the module under the comment "Refuted by the
code"; added to the run's configuration it yields the counterexample.

Circuits, ledger, session, transcript:

1. `SingleProbe`: an attempt admitted before a circuit opened reports success after it has half-opened,
   and thereby frees the probe another attempt holds. `SingleProbeUnlessStray` says that this is the
   only way.
2. `BlockedEventuallyRecovers`: a probe that ends without a report leaves its flag set; the key stays
   blocked until the process restarts. `BlockedEventuallyAdmits` says that this is the only way.
3. The documented diagram has no way from open to closed; a late success takes it (`OpenHolds`).
4. `EveryAttemptRecorded`: a consumer that leaves after the first output leaves the attempt `STARTED`,
   without a usage event.
5. `ExplicitLevelsKept`: a verdict's expiry takes back a level an explicit outcome had raised.
6. `SameFingerprintOnce`: a fingerprint escalates twice when another came between (`MaxLevel = 3`); and
   the fingerprint changes with every further call.
7. `DeltaEndsRequest`: a delta that equals the first message of the transcript is dropped; one of two
   messages replaces the transcript; a Messages client's delta reaches Anthropic without it.

Files and processes:

8. `UndoRestoresOriginal`: a crash of the first `configure` between settings and state makes the router's
   values the baseline.
9. An outside edit between a command's read and its rename is erased.
10. Overlapping starts leave a gateway that no state file names; a start that times out signals a
    process ID without asking for the token.
11. `stop` signals what has the process ID after the gateway has answered: if that ends in between and its
    ID is given out, another program is terminated (`lapsed`).

Requests and streams:

12. An error that is the upstream's first message yields `response.failed` without `response.started`.
13. Anthropic blocks of an unknown kind are ignored when they start and are an error when they go on.
14. Streaming encoders pass malformed tool arguments on; only the collectors refuse them.
15. Gemini is sent the reasoning of other providers, and its own signatures are lost for clients that
    send deltas (`Replayed`).
16. Compression separates calls from results (`Paired`); parallel calls of a Responses client are not
    followed by their results at chat-compatible providers (`Split`).
17. Stop sequences never reach OpenAI, thinking only a provider of the client's own protocol (`Unsent`).
18. After compression the classifier does not see the session's failures.
19. What is a failure to the progress detector may be none to the compression and be omitted
    (`Overlooked`).
20. With cached tokens dearer than fresh ones, which the schema allows, a session never settles on a
    model (`RoutingAssumption`).

## Proofs

| Module | Theorems |
|---|---|
| `CircuitTraffic_proofs` | `TypeOK`, `SingleProbeUnlessStray`, `ProbeUndisturbed`, `ProbeAccounted`, `OpenHolds`; first the lemmas on one circuit |
| `Fallback_proofs` | `TypeOK`, `ImplementsTraffic`, `ImplementsSafeFallback`, and the three probe invariants for the gateway (`GatewayCircuits`) |
| `AttemptLedger_proofs` | `TypeOK`, `EventIffTerminal`, `RequestFollowsAttempt`, `FallbackFollowsFailure`, `RecordedUnlessLost`, `TerminalIsFinal` |
| `Session_proofs` | `TypeOK`, `AutomaticHasVerdict`, `LevelFallsByPolicy`, `EscalationConsumesEvidence`; of `History`, `RetransmissionAddsNothing`, `TurnsKept`; of `Routing`, `RaisedPriceNeverWins` |
| `ConfigMutation_proofs` | `TypeOK`, `LocksAccounted`, `HistoryIsChain`, `UndoPossible`, `CredentialsBehindReferences`, `RefinesUndoStack` |
| `ClientSettings_proofs` | `TypeOK`, `BaselineIsOriginal`, `ForgottenIsRestored`, `StatusTruthful` |
| `ManagedGateway_proofs` | `TypeOK`, `RunningIsRecorded`, `StopHitsOwnGateway` |
| `Exchange_proofs` | `TruthfulEnding`, `QuietAfterAbort`; of `ProviderStream`, `ToldOnce`, `OrderlyStreamsAccepted`, `OneAnswer`, `RefinesCanonicalStream` |

They hold for any sets of models, providers, callers, requests, actors, fingerprints, commands, clients,
process IDs and contents, any thresholds, times and retries, any outcomes of the store and streams of any
length with any keys, under the
named assumptions of the modules only: numbers are natural, thresholds positive, a model belongs to a
provider, models and providers have different keys, the values that mean "none" or "no file" are not
members, the configuration `init` writes refers to no credential, and the user's own settings are not
the router's. `Fallback` also assumes that there are finitely many models, as in any configuration: a
candidate list puts all eligible ones in an order. `Routing` assumes the same, that ids differ, and the
ranges the schemas give tiers, prices, latencies, attempts, success rates and weights.

*Circuits.* None of the three probe invariants is inductive alone. `SingleProbeUnlessStray` breaks if
an admission could find the probe free while there is a prober, which is `ProbeUndisturbed`; that
breaks if somebody could report as the owner of a probe without being in flight on the key. The
inductive invariant adds `ProbersInFlight`, and one lemma for each kind of step keeps all of it.
`OpenHolds` needs the invariant only for its types.

*Ledger.* The invariants on rows are inductive only together with `Place`: what the next call of a
generator says about its request's last attempt (a generator that streams has a started attempt, one
that is about to switch has a failed attempt and another one to spend). Two lemmas say what the
creating and the ending transaction do to the rows; `OneMoves` says that a step of one request leaves
the places of the others. The heart is `Recorded`: after a terminal transaction, whatever its answer,
either it was rolled back and there is no event, or the attempt is terminal.

*Session.* `Derived` is the strengthening: a copy that waits to be written and is not stale is one
policy step away from the stored row. Time keeps it because it ages both, a write keeps it because it
makes every other copy stale, and the step from an expiry to its escalation keeps it because both start
from the same copy. The two action properties follow from it for every write.

*Transcript.* First comes what a merge does, for any two lists of messages: it returns the one that begins
with the other, or joins them at their greatest overlap, or takes a newer snapshot or both (`MergeCases`,
`ReconcileCases`; that a set of overlaps has a greatest one is the well-foundedness of the natural
numbers). So it keeps the older list as its beginning or takes a snapshot that shares no end with it
(`MergeKeeps`, `Rewrites`), and a list that ends in another is not changed by merging it (`EndMerges`),
which makes a merge idempotent (`MergeTwice`, `RetransmissionAddsNothing`). The inductive invariant says
this of every copy on its way to the store (`Keeping`): a write keeps it because it makes the other copies
outdated, and `TurnsKept` follows for every write.

*Routing.* A dearer model loses score, but its cost is also the scale of the costs, so all other scores
move too. `NeverTheChoice` says what is needed: on whatever two scales, if one model gains on no other
in a comparison or against the threshold, it is not chosen unless it was before; the session's model may
step in between, when the model with the best score falls back. `TotalSplits` writes a score as a part
that is multiplied by the scale of the costs and a part for the cost itself; `Ratio` and `Shift` say that
the distance in cost rises by more than the scale, whether the dearest model is the one that changed or
another. `DearerNeverSelected` puts the two together. That a finite set of scores has a greatest member
and one best candidate (`FiniteGreatest`, `MaxOf`, `BestEntry`) is again the well-foundedness of the
natural numbers; that no two models tie rests on their different ids. The only fact about a behaviour is
that offers and requests stay what the schemas allow.

*Fallback.* `LoopInv` says that the loop keeps its place: candidates are distinct and at most
`MaxAttempts`, every model tried stands among the candidates already reached, and the attempt in flight
is the current candidate's. That the current candidate is therefore new is what `SafeFallback` asks of a
switch. First come lemmas on `CandidateLists`, then one for each action that keeps `LoopInv`; with it
each action is shown to be a step of `CircuitTraffic` and of `SafeFallback`, or none.
`GatewayCircuits` takes the theorems of `CircuitTraffic_proofs` through the first refinement: nothing
about circuits is proved twice.

*Command line.* `LocksAccounted` with the types of `pc` and of the two lock files is inductive: that
nobody works under a lock whose file is missing is what makes the command that creates the file alone,
and that at most one works under it is what makes its removal leave nobody behind. There is one lemma
for each way a step can touch the locks: a move inside a lock or outside both, taking and releasing
either lock, and a crash, which moves the lock from the command to those left behind.

Everything else about the commands rests on it, because only what is under a lock may rely on what it
has read. `Work` says for each step under the configuration lock how its copies stand to the files: what
was read is what is there, the last recorded change ends in the content or starts from it (as a crash
between record and install leaves it). `Place` says the same of the credential store. With the
chain, the undo property and `References` (what is installed, recorded, read or about to be written
refers to stored credentials or to those a person wrote and stored nothing for, `brought`, to which a
change adds what its definition brings, `Bringing`) this is inductive. The refinement of
`UndoStack` follows: the mapping counts a recorded change only once its content is installed, so that
`Record`, `Drop` and `Shrink` are stutters, `Install` is the change and `Restore` the undo.

*Client settings.* A command reads the baseline and writes it two steps later, so the invariant also
says what the running command has read (`BaselineRead`); a state file may be removed only after its
baseline is back (`Doing`); and the router's values of Claude Code are kept in the state file for the
return from a bypass (`RoutedKept`), which `StatusTruthful` needs.

*Managed gateway.* `StopHitsOwnGateway` rests on `OneProcess`: a token is in the hands of one process
ID, whoever remembers it (the state file, a command or the process). An answer with the right token then
means that the process is the one that was asked, and what a command is about to signal is that process
or one that came after it (`KillsOwn`): it may end before the signal and its ID be used again, which
`lapsed` records.
`RunningIsRecorded` is inductive with what every command knows while nothing has disturbed it (`Calm`):
a start is alone, a live gateway is watched by its start or on record, and after a stop or a failed
start none lives.

*Exchange.* The call and the handler move on their own, so the invariant relates them: only a call that
is over has an outcome (`CallOK`), a handler knows what it has sent (`HandlerOK`), one that waits for a
full buffer holds an event (`Waiting`), and one that has ended left a call behind only when the client had
gone (`LeftBehind`).

*Streams.* A `View` is what a consumer knows: the phase, the blocks open and closed and the kind each was
opened as. `Legal` says which event may come next for it (a block ends as what it was opened as), and
`Leads` that a sequence of events takes it from one view to another. What a decoder keeps is then compared
with a view: its blocks have numbers of their own and the open ones are those the view has open
(`Tracks`); Anthropic's blocks have the provider's numbers, and a disorderly provider may give one number
twice, so only the kind last opened there is known (`AnthropicFits`). There is one lemma per dialect
(`OpenAIDecodes`, `AnthropicDecodes`, `GeminiDecodes`, `CompatibleDecodes`), with one step per type of
message: whatever comes, the decoder throws and emits nothing, or emits events that lead to a view it
agrees with. Each lemma speaks of two upstreams at once by a flag, `lawful`: of an orderly one it also
says that the decoder does not throw, that the events are lawful, and that the decoder still agrees with
what the provider thinks is open, closed and finished. Without that last part the claim is not inductive:
an orderly stream is orderly because of what the provider remembers, and the decoder accepts it because of
what the decoder remembers. A chunk of Gemini or of a compatible endpoint is a list of at most two deltas
or two calls, so its folds are unfolded by hand (`OneOrTwoParts` and its like).

On the other side `Collecting` says that an encoder which has a block of its kind for everything the view
knows (`AnswerOK`) accepts any legal event and still has; this is the whole reason why no encoder throws.
`Framing` says that only an event that ends the stream makes the frame that ends it. `StreamInv` joins the
two sides: until the response has ended there is a view that `canon`, the stream as told so far, agrees
with, and the queue leads from it to a view the decoder agrees with. A message makes the queue longer by
the lemma of its dialect, a yielded event moves the first view along, and both directions of `ToldOnce`
count terminal frames against the phase of the view. Every yielded event is legal in its view, which is
the refinement. `StreamInv` speaks of views that exist and cannot be enumerated, so TLC did not check it
before it was proved; what it implies is what the run `ProviderStream` checks.

`OneAnswer` compares three accounts of one stream, and its invariant (`AnswerInv`) says that they agree all
the way: for an orderly stream, and until the response is over, the collected answer, what the client was
shown and what the transcript recorder holds stand in a relation to the view the consumer has been told
(`Accounts`). The client has the answer's own blocks (`Agree`) and open are the blocks its protocol has of
the view (`ShowsMessages`, `ShowsResponses`; in a chat answer the calls stand at 0, 1, ... in the order
they were opened, `ShowsChat`); the recorder has a block for each block of the view and holds a call's
arguments apart until the call ends (`Remembers`). Every event adds the same to all three: one lemma per
protocol (`ShowingMessages` and its like), one for the recorder (`Keeps`). That the transcript loses
nothing in the end (`MemoryHolds`) is why a stream may only complete with no block open. The counts are
folds over sets of any size. A count is shown to be a number of units, one unit for each delta
(`CountsUnits`), by an induction over finite sets in which the property is a set of sets instead of an
operator (`FiniteSubsets`), so that the provers can instantiate it; from then on counting is cardinality.

The other strengthened invariants were model-checked on the configurations of the runs before they were
proved.

Model-checked only:

- liveness (`BlockedEventuallyAdmits`, `EveryRequestEnds`, `CommandsEnd`, `EveryCallEnds`, `Settles`),
  which is out of the prover's reach;
- `Accepted` and `Conveyed` of `RequestPath`, whose translations are recursive and computed over whole
  conversations.

## What is not modelled

Components without a module are in `PROJECT.json` with the reason. In the modelled components these are
left out:

- *Circuits*: `snapshot()`, which reads, and wall-clock time, which ticks stand for.
- *Fallback*: which routes the engine prefers (any model it does not see as blocked), the content of
  events, the buffer's events themselves and the wording of errors. A consumer that never reads and
  never leaves is not a step.
- *Ledger*: prices and costs, route decisions and baselines, the price book entry that `start` upserts,
  and provider identifiers.
- *Session*: what the coordinator only copies.
- *History*: encryption of the stored transcript.
- *Configuration*: the cryptography of the credential store, the removal of a credential, the
  permissions of files, and the layout of YAML beyond whether the printer would keep it.
- *Client settings*: keys other than the managed ones are one flag; the project's ignore files.
- *Managed gateway*: the time limits as such; a limit passes or does not.
- *Streams*: texts, names and token counts; a delta is a unit of its part. Sizes of events.
- *Exchange*: authentication, which refuses before the handler runs; the other endpoints.
- *Routing*: the patterns that find intents in prompts; health checks; the record of a decision.
- *Conversations*: images are texts, lengths are numbers of messages, the fingerprint of progress and
  the wording of a summary are left out. Metadata and token limits are copied by all and left out.

The evaluation harness, the analytics and inspection queries, the console and the reports of the
command line are not modelled: sequential code, aggregations over rows, reads.
