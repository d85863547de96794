------------------------------ MODULE Fallback ------------------------------
(***************************************************************************)
(* Requests that run through executeCanonical and prepareFallbackExecution *)
(* (apps/gateway/src/execution.ts and fallback.ts) at the same time, over  *)
(* one circuit registry.  A request reads the blocked keys, waits for the  *)
(* routing engine, and then works through its candidates: each must be     *)
(* admitted by its two circuits, is buffered until it shows meaningful     *)
(* output, and is replaced by the next candidate if it fails before that.  *)
(*                                                                         *)
(* The program runs on one thread and other requests move only while a     *)
(* request awaits.  A step of the model is the code from one await to the  *)
(* next, except that each candidate a circuit refuses is a step of its     *)
(* own: the model has more interleavings than the code, none fewer.        *)
(*                                                                         *)
(* tried and shown are history variables.                                  *)
(***************************************************************************)
EXTENDS CircuitBreaker, SequencesExt

CONSTANTS
    Request,
    Model, Provider, ProviderOf, NoModel,
    Tier,             \* qualityTier of each model
    FallbackEnabled,  \* policy.enabled
    AllowWeaker,      \* policy.allowWeakerFallback
    MaxAttempts,      \* policy.maxAttempts
    MaxDuration       \* policy.maxTotalDurationMs, in ticks

ASSUME FallbackAssumption ==
    /\ IsFiniteSet(Model)
    /\ ProviderOf \in [Model -> Provider]
    /\ Model \cap Provider = {}      \* as in CircuitTraffic
    /\ NoModel \notin Model
    /\ Tier \in [Model -> Nat]
    /\ FallbackEnabled \in BOOLEAN
    /\ AllowWeaker \in BOOLEAN
    /\ MaxAttempts \in Nat \ {0}
    /\ MaxDuration \in Nat \ {0}

VARIABLES
    circuits, flight, probers, strays, leaked,  \* as in CircuitTraffic
    pc,          \* where each request is
    blocked,     \* the models it saw blocked when it was routed
    candidates,  \* its candidates, in the order they are tried
    index,       \* the position of the current candidate
    elapsed,     \* ticks since prepareFallbackExecution began
    aborted,     \* its client's abort signal
    tried, shown

trafficVars == <<circuits, flight, probers, strays, leaked>>
requestVars == <<pc, blocked, candidates, index, elapsed, aborted, tried, shown>>
vars == <<trafficVars, requestVars>>

Traffic == INSTANCE CircuitTraffic WITH Caller <- Request

InLoop == {"trying", "starting", "buffering", "streaming"}

Attempting == {"starting", "buffering", "streaming"}

TypeOK ==
    /\ Traffic!TypeOK
    /\ pc \in [Request -> {"idle", "routing"} \cup InLoop]
    /\ blocked \in [Request -> SUBSET Model]
    /\ candidates \in [Request -> Seq(Model)]
    /\ index \in [Request -> 1 .. MaxAttempts + 1]
    /\ elapsed \in [Request -> 0 .. MaxDuration]
    /\ aborted \in [Request -> BOOLEAN]
    /\ tried \in [Request -> Seq(Model)]
    /\ shown \in [Request -> SUBSET Model]

Init ==
    /\ Traffic!Init
    /\ pc = [r \in Request |-> "idle"]
    /\ blocked = [r \in Request |-> {}]
    /\ candidates = [r \in Request |-> <<>>]
    /\ index = [r \in Request |-> 1]
    /\ elapsed = [r \in Request |-> 0]
    /\ aborted = [r \in Request |-> FALSE]
    /\ tried = [r \in Request |-> <<>>]
    /\ shown = [r \in Request |-> {}]

-----------------------------------------------------------------------------
(* Order of preference among the eligible models: at least as strong as the *)
(* selected one first, and within each group another provider first.  The   *)
(* score decides the rest and is left open.                                 *)
Rank(selected, model) ==
    <<IF Tier[model] >= Tier[selected] THEN 0 ELSE 1,
      IF ProviderOf[model] # ProviderOf[selected] THEN 0 ELSE 1>>

AtMost(n, s) == IF Len(s) <= n THEN s ELSE SubSeq(s, 1, n)

Precedes(a, b) == a[1] < b[1] \/ (a[1] = b[1] /\ a[2] <= b[2])

(* fallbackCandidates: every list it can return for a decision.  "exact" is *)
(* fixed mode or a model forced by the request.                             *)
CandidateLists(selected, eligible, exact) ==
    IF ~FallbackEnabled \/ exact
    THEN {<<selected>>}
    ELSE LET allowed == {m \in eligible : AllowWeaker \/ Tier[m] >= Tier[selected]}
             ranked == {s \in SetToSeqs(allowed) :
                          \A i, j \in DOMAIN s :
                             i < j => Precedes(Rank(selected, s[i]), Rank(selected, s[j]))}
         IN  {AtMost(MaxAttempts, <<selected>> \o s) : s \in ranked}

Current(r) == candidates[r][index[r]]

Admitted(model) == \A k \in Traffic!KeysOf(model) : Admits(circuits[k])

Goto(r, where) == pc' = [pc EXCEPT ![r] = where]

(* The request is over: a response that completed, an error, a failed or    *)
(* truncated stream and a refusal are not told apart, and what the request  *)
(* kept goes out of scope.                                                  *)
Finish(r) ==
    /\ Goto(r, "idle")
    /\ candidates' = [candidates EXCEPT ![r] = <<>>]
    /\ index' = [index EXCEPT ![r] = 1]
    /\ elapsed' = [elapsed EXCEPT ![r] = 0]
    /\ aborted' = [aborted EXCEPT ![r] = FALSE]
    /\ tried' = [tried EXCEPT ![r] = <<>>]
    /\ shown' = [shown EXCEPT ![r] = {}]

-----------------------------------------------------------------------------
(* A request comes in.  blockedKeys half-opens every circuit whose time has *)
(* passed, and the models it leaves blocked are kept while the engine runs. *)
Arrive(r) ==
    /\ pc[r] = "idle"
    /\ Goto(r, "routing")
    /\ circuits' = [k \in Traffic!Key |-> Refresh(circuits[k])]
    /\ blocked' = [blocked EXCEPT ![r] =
                     {m \in Model : \E k \in Traffic!KeysOf(m) : Blocked(circuits[k])}]
    /\ UNCHANGED <<flight, probers, strays, leaked, candidates, index, elapsed, aborted,
                   tried, shown>>

(* The engine selects a model that was not blocked when it was asked and    *)
(* may find any of the others that were not eligible too.                   *)
Route(r) ==
    /\ pc[r] = "routing"
    /\ Goto(r, "trying")
    /\ \E selected \in Model \ blocked[r], exact \in BOOLEAN :
         \E eligible \in SUBSET (Model \ (blocked[r] \cup {selected})) :
            \E list \in CandidateLists(selected, eligible, exact) :
               candidates' = [candidates EXCEPT ![r] = list]
    /\ blocked' = [blocked EXCEPT ![r] = {}]
    /\ UNCHANGED <<trafficVars, index, elapsed, aborted, tried, shown>>

(* No model is eligible, or the engine cannot estimate one. *)
RouteFails(r) ==
    /\ pc[r] = "routing"
    /\ Finish(r)
    /\ blocked' = [blocked EXCEPT ![r] = {}]
    /\ UNCHANGED trafficVars

(* The loop ends without an answer: aborted, out of time or out of models.  *)
GiveUp(r) ==
    /\ pc[r] = "trying"
    /\ \/ aborted[r]
       \/ elapsed[r] = MaxDuration
       \/ index[r] > Len(candidates[r])
    /\ Finish(r)
    /\ UNCHANGED <<trafficVars, blocked>>

MayTry(r) ==
    /\ pc[r] = "trying"
    /\ ~aborted[r]
    /\ elapsed[r] < MaxDuration
    /\ index[r] <= Len(candidates[r])

(* Mutant: the provider's probe is not given back. *)
RefuseKeepsProbe(r) ==
    /\ MayTry(r)
    /\ ~Admitted(Current(r))
    /\ circuits' = [circuits EXCEPT ![ProviderOf[Current(r)]] = AfterCanRequest(@)]
    /\ Finish(r)
    /\ UNCHANGED <<flight, probers, strays, leaked, blocked>>

(* A circuit refuses the candidate.  The selected model's refusal ends the  *)
(* request, another candidate is skipped.                                   *)
Refuse(r) ==
    /\ MayTry(r)
    /\ ~Admitted(Current(r))
    /\ IF Admits(circuits[ProviderOf[Current(r)]])
       THEN Traffic!RefuseModel(Current(r))
       ELSE UNCHANGED trafficVars
    /\ \/ index[r] = 1 /\ Finish(r)
       \/ /\ index[r] > 1
          /\ index' = [index EXCEPT ![r] = @ + 1]
          /\ UNCHANGED <<pc, candidates, elapsed, aborted, tried, shown>>
    /\ UNCHANGED blocked

(* The selected model is executed at once; before another one the store is  *)
(* told of the switch.                                                      *)
AdmitSelected(r) ==
    /\ MayTry(r)
    /\ index[r] = 1
    /\ Traffic!Admit(r, Current(r))
    /\ Goto(r, "buffering")
    /\ tried' = [tried EXCEPT ![r] = Append(@, Current(r))]
    /\ UNCHANGED <<blocked, candidates, index, elapsed, aborted, shown>>

AdmitFallback(r) ==
    /\ MayTry(r)
    /\ index[r] > 1
    /\ Traffic!Admit(r, Current(r))
    /\ Goto(r, "starting")
    /\ UNCHANGED <<blocked, candidates, index, elapsed, aborted, tried, shown>>

StartFallback(r) ==
    /\ pc[r] = "starting"
    /\ Goto(r, "buffering")
    /\ tried' = [tried EXCEPT ![r] = Append(@, Current(r))]
    /\ UNCHANGED <<trafficVars, blocked, candidates, index, elapsed, aborted, shown>>

(* attemptStore.startFallback throws: nothing catches it. *)
StartFallbackFails(r) ==
    /\ pc[r] = "starting"
    /\ Traffic!SettleSilent(r)
    /\ Finish(r)
    /\ UNCHANGED blocked

Report(r, retryable) ==
    IF retryable THEN Traffic!SettleFailure(r) ELSE Traffic!SettleSilent(r)

CanFallback(r, retryable) ==
    /\ FallbackEnabled
    /\ retryable
    /\ index[r] < Len(candidates[r])
    /\ elapsed[r] < MaxDuration
    /\ ~aborted[r]

(* prepareAttempt sees the attempt fail before meaningful output: the       *)
(* stream ends early, a response.failed event comes, or the stream throws.  *)
(* A throw after the deadline counts as a retryable timeout unless the      *)
(* client has gone.  Without another candidate the error is thrown, or the  *)
(* buffer replayed, to the client.                                          *)
AttemptFails(r, retryable, threw) ==
    /\ pc[r] = "buffering"
    /\ threw /\ elapsed[r] = MaxDuration /\ ~aborted[r] => retryable
    /\ Report(r, retryable)
    /\ IF CanFallback(r, retryable)
       THEN /\ Goto(r, "trying")
            /\ index' = [index EXCEPT ![r] = @ + 1]
            /\ UNCHANGED <<candidates, elapsed, aborted, tried, shown>>
       ELSE Finish(r)
    /\ UNCHANGED blocked

(* Mutant: the provider is given the client's signal alone. *)
ClientSignalBeforeOutput(r) ==
    /\ aborted[r]
    /\ AttemptFails(r, FALSE, TRUE)

(* The deadline signal aborts the attempt while it is buffered. *)
DeadlineBeforeOutput(r) ==
    /\ elapsed[r] = MaxDuration
    /\ AttemptFails(r, ~aborted[r], TRUE)

(* The response completes without any meaningful output. *)
AttemptCompletes(r) ==
    /\ pc[r] = "buffering"
    /\ Traffic!SettleSuccess(r)
    /\ Finish(r)
    /\ UNCHANGED blocked

(* Meaningful output: the buffer goes to the client, the stream follows. *)
Commit(r) ==
    /\ pc[r] = "buffering"
    /\ Goto(r, "streaming")
    /\ shown' = [shown EXCEPT ![r] = @ \cup {Current(r)}]
    /\ UNCHANGED <<trafficVars, blocked, candidates, index, elapsed, aborted, tried>>

StreamCompletes(r) ==
    /\ pc[r] = "streaming"
    /\ Traffic!SettleSuccess(r)
    /\ Finish(r)
    /\ UNCHANGED blocked

(* Mutant: a failure after output is retried like one before it. *)
StreamFailsOver(r, retryable) ==
    /\ pc[r] = "streaming"
    /\ CanFallback(r, retryable)
    /\ Report(r, retryable)
    /\ Goto(r, "trying")
    /\ index' = [index EXCEPT ![r] = @ + 1]
    /\ UNCHANGED <<blocked, candidates, elapsed, aborted, tried, shown>>

(* continueAttempt: a failure after output goes to the client. *)
StreamFails(r, retryable) ==
    /\ pc[r] = "streaming"
    /\ Report(r, retryable)
    /\ Finish(r)
    /\ UNCHANGED blocked

(* The deadline signal is still armed after output.  The provider client    *)
(* cannot tell it from the client's and throws a "cancelled" error, which   *)
(* is not retryable.                                                        *)
DeadlineAfterOutput(r) ==
    /\ elapsed[r] = MaxDuration
    /\ StreamFails(r, FALSE)

(* The consumer stops reading: the client is gone, or encoding an event     *)
(* throws.  continueAttempt is left where it is.                            *)
Abandon(r) ==
    /\ pc[r] = "streaming"
    /\ Traffic!SettleSilent(r)
    /\ Finish(r)
    /\ UNCHANGED blocked

Abort(r) ==
    /\ pc[r] \in {"routing"} \cup InLoop
    /\ ~aborted[r]
    /\ aborted' = [aborted EXCEPT ![r] = TRUE]
    /\ UNCHANGED <<trafficVars, pc, blocked, candidates, index, elapsed, tried, shown>>

(* Time passes for the circuits and for every request's budget. *)
Running(r) == pc[r] \in InLoop /\ elapsed[r] < MaxDuration

Tick ==
    /\ \/ \E r \in Request : Running(r)
       \/ \E k \in Traffic!Key : Aged(circuits[k]) # circuits[k]
    /\ circuits' = [k \in Traffic!Key |-> Aged(circuits[k])]
    /\ elapsed' = [r \in Request |-> IF Running(r) THEN elapsed[r] + 1 ELSE elapsed[r]]
    /\ UNCHANGED <<flight, probers, strays, leaked, pc, blocked, candidates, index,
                   aborted, tried, shown>>

(* What the gateway itself goes on to do, whatever the provider does. *)
Proceed(r) ==
    \/ Route(r)
    \/ RouteFails(r)
    \/ GiveUp(r)
    \/ Refuse(r)
    \/ AdmitSelected(r)
    \/ AdmitFallback(r)
    \/ StartFallback(r)
    \/ StartFallbackFails(r)
    \/ DeadlineBeforeOutput(r)
    \/ DeadlineAfterOutput(r)

(* What the provider's stream and the client do. *)
Surroundings(r) ==
    \/ \E retryable, threw \in BOOLEAN : AttemptFails(r, retryable, threw)
    \/ AttemptCompletes(r)
    \/ Commit(r)
    \/ StreamCompletes(r)
    \/ \E retryable \in BOOLEAN : StreamFails(r, retryable)
    \/ Abandon(r)
    \/ Abort(r)

Next ==
    \/ Tick
    \/ \E r \in Request : Arrive(r) \/ Proceed(r) \/ Surroundings(r)

Spec == Init /\ [][Next]_vars

(* Time passes, and the gateway takes its own steps: the engine and the     *)
(* store answer, and the provider client throws once its signal is aborted. *)
(* No event of a provider is taken for granted.                             *)
FairSpec ==
    /\ Spec
    /\ WF_vars(Tick)
    /\ \A r \in Request : WF_vars(Proceed(r))

-----------------------------------------------------------------------------
(* The registry sees nothing but CircuitTraffic: every admission of the     *)
(* loop asks both circuits, and is answered by at most one report.          *)
ImplementsTraffic == Traffic!Spec

(* The loop keeps the safe fallback invariant: a model is not asked twice,  *)
(* no more than MaxAttempts are, and none after output was shown.           *)
Safe == INSTANCE SafeFallback WITH
    phase <- [r \in Request |->
                CASE pc[r] = "idle" -> "idle"
                  [] pc[r] = "streaming" -> "committed"
                  [] OTHER -> "choosing"]

ImplementsSafeFallback == Safe!Spec

(* Every request ends within its budget, even if no provider ever sends     *)
(* another event: the deadline also cuts a stream that has shown output.    *)
EveryRequestEnds ==
    \A r \in Request : pc[r] = "routing" ~> pc[r] = "idle"
=============================================================================
