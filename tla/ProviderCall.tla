---------------------------- MODULE ProviderCall ----------------------------
(***************************************************************************)
(* One call of a provider in time: requestSse's attempts and pauses,       *)
(* createExecutionSignal's timer and parseSse's reads                      *)
(* (packages/providers/src/http.ts, execute of the four adapters).         *)
(*                                                                         *)
(* The adapter is a generator: it runs only while its caller waits for the *)
(* next event and stands still at a yield.  Its signal is aborted by its   *)
(* own timer or by its caller: the client's departure or the fallback      *)
(* loop's deadline.  What a message says is ProviderStream's.              *)
(***************************************************************************)
EXTENDS Integers

CONSTANTS
    MaxRetries,  \* options.maxRetries
    MaxEvents    \* bound: events one upstream sends

ASSUME CallAssumption == MaxRetries \in Nat /\ MaxEvents \in Nat

VARIABLES
    adapter,   \* where the generator is
    attempt,   \* requestSse's attempt
    timer,     \* "unset" | "armed" | "fired" | "disposed"
    outcome,   \* "none" | "completed" | "failed" (as an event) | the code of the error thrown
    gone,      \* the client's connection has closed
    deadline,  \* the fallback loop's deadline has passed
    events,    \* events yielded
    buffered   \* whole messages of the body already in parseSse's buffer

callVars == <<adapter, attempt, timer, outcome, gone, deadline, events, buffered>>

CallInit ==
    /\ adapter = "created" /\ attempt = 0 /\ timer = "unset" /\ outcome = "none"
    /\ gone = FALSE /\ deadline = FALSE
    /\ events = 0 /\ buffered = 0

CallerAborted == gone \/ deadline

Aborted == timer = "fired" \/ CallerAborted

-----------------------------------------------------------------------------
(* Statuses a provider may refuse with: those the code names, and others.  *)
Statuses == {400, 401, 402, 403, 404, 408, 409, 413, 422, 429, 500, 502, 503, 504, 529,
             405, 501}

Retryable(status) == status \in {408, 409, 429, 500, 502, 503, 504, 529}

(* statusErrorCode. *)
StatusCode(status) ==
    CASE status \in {400, 422} -> "invalid_request"
      [] status = 401 -> "authentication"
      [] status = 402 -> "billing"
      [] status = 403 -> "permission"
      [] status = 404 -> "not_found"
      [] status = 408 -> "timeout"
      [] status = 409 -> "conflict"
      [] status = 413 -> "request_too_large"
      [] status = 429 -> "rate_limit"
      [] status = 529 -> "overloaded"
      [] OTHER -> IF status >= 500 THEN "upstream" ELSE "invalid_request"

(* The generator is over: providerAbortError and execution.dispose().      *)
Throw(code) ==
    /\ outcome' = CASE timer = "fired" -> "timeout"
                    [] timer # "fired" /\ CallerAborted -> "cancelled"
                    [] OTHER -> code
    /\ adapter' = "over"
    /\ timer' = IF timer = "armed" THEN "disposed" ELSE timer

(* The caller asks for the next event; the first time the body begins.     *)
Pull ==
    /\ \/ /\ adapter = "created"
          /\ adapter' = "trying" /\ timer' = "armed"
       \/ /\ adapter = "yielded"
          /\ adapter' = "reading" /\ UNCHANGED timer
    /\ UNCHANGED <<attempt, outcome, gone, deadline, events, buffered>>

(* options.signal.throwIfAborted() at the head of requestSse's loop.       *)
MayTry == ~Aborted

Try ==
    /\ adapter = "trying"
    /\ IF MayTry THEN adapter' = "fetching" /\ UNCHANGED <<outcome, timer>>
                 ELSE Throw("network")
    /\ UNCHANGED <<attempt, gone, deadline, events, buffered>>

Pause == adapter' = "sleeping" /\ UNCHANGED <<outcome, timer>>

(* fetch rejects: aborted, or the provider cannot be reached. *)
FetchFails ==
    /\ adapter = "fetching"
    /\ IF ~Aborted /\ attempt < MaxRetries THEN Pause ELSE Throw("network")
    /\ UNCHANGED <<attempt, gone, deadline, events, buffered>>

FetchAborted == Aborted /\ FetchFails

Accepted ==
    /\ adapter = "fetching" /\ ~Aborted
    /\ adapter' = "reading"
    /\ UNCHANGED <<attempt, timer, outcome, gone, deadline, events, buffered>>

EmptyBody ==
    /\ adapter = "fetching" /\ ~Aborted
    /\ Throw("protocol")
    /\ UNCHANGED <<attempt, gone, deadline, events, buffered>>

Refused ==
    /\ adapter = "fetching" /\ ~Aborted
    /\ adapter' = "refused"
    /\ UNCHANGED <<attempt, timer, outcome, gone, deadline, events, buffered>>

(* providerHttpError: the error's body is read, or its read fails; either  *)
(* way the status decides.  The pause may be one the provider asks for.    *)
Classify(status) ==
    /\ adapter = "refused"
    /\ IF Retryable(status) /\ attempt < MaxRetries THEN Pause ELSE Throw(StatusCode(status))
    /\ UNCHANGED <<attempt, gone, deadline, events, buffered>>

ClassifyAborted == Aborted /\ \E status \in Statuses : Classify(status)

(* The pause ends; nobody promises when. *)
Awake ==
    /\ adapter = "sleeping" /\ ~Aborted
    /\ adapter' = "trying" /\ attempt' = attempt + 1
    /\ UNCHANGED <<timer, outcome, gone, deadline, events, buffered>>

(* Mutant: a pause nothing interrupts. *)
SleepOn == adapter = "sleeping" /\ Aborted /\ UNCHANGED callVars

(* abortableSleep rejects, also when the signal was aborted before it began. *)
SleepAborted ==
    /\ adapter = "sleeping" /\ Aborted
    /\ Throw("network")
    /\ UNCHANGED <<attempt, gone, deadline, events, buffered>>

(* A chunk of the body brings one message or two. *)
Chunk(n) ==
    /\ adapter = "reading" /\ buffered = 0 /\ ~Aborted
    /\ events + n <= MaxEvents
    /\ buffered' = n
    /\ UNCHANGED <<adapter, attempt, timer, outcome, gone, deadline, events>>

(* Mutant: buffered messages are decoded without a look at the signal. *)
Unchecked == TRUE

(* execution.signal.throwIfAborted() before a message is decoded. *)
Live == ~Aborted

(* A buffered message is handled and its event yielded. *)
Message ==
    /\ adapter = "reading" /\ buffered > 0
    /\ buffered' = buffered - 1
    /\ IF Live THEN adapter' = "yielded" /\ events' = events + 1 /\ UNCHANGED <<outcome, timer>>
               ELSE Throw("network") /\ UNCHANGED events
    /\ UNCHANGED <<attempt, gone, deadline>>

(* The terminal event, of success or failure: the generator returns. *)
Terminal ==
    /\ adapter = "reading" /\ buffered = 0 /\ ~Aborted
    /\ outcome' \in {"completed", "failed"}
    /\ adapter' = "over" /\ timer' = "disposed"
    /\ UNCHANGED <<attempt, gone, deadline, events, buffered>>

(* The body ends early, is malformed, too long, or the connection breaks. *)
ReadFails ==
    /\ adapter = "reading" /\ buffered = 0
    /\ \E code \in {"protocol", "network"} : Throw(code)
    /\ UNCHANGED <<attempt, gone, deadline, events, buffered>>

ReadAborted == Aborted /\ ReadFails

TimerFires ==
    /\ timer = "armed"
    /\ timer' = "fired"
    /\ UNCHANGED <<adapter, attempt, outcome, gone, deadline, events, buffered>>

(* AbortSignal.timeout of the fallback loop. *)
DeadlinePasses ==
    /\ ~deadline /\ adapter # "over"
    /\ deadline' = TRUE
    /\ UNCHANGED <<adapter, attempt, timer, outcome, gone, events, buffered>>

CallStep ==
    \/ Try \/ FetchFails \/ Accepted \/ EmptyBody \/ Refused
    \/ \E status \in Statuses : Classify(status)
    \/ Awake \/ SleepAborted
    \/ \E n \in 1 .. 2 : Chunk(n)
    \/ Message \/ Terminal \/ ReadFails \/ TimerFires \/ DeadlinePasses
=============================================================================
