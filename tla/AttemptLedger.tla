--------------------------- MODULE AttemptLedger ---------------------------
(***************************************************************************)
(* The durable record of provider attempts: the generator                  *)
(* recordProviderAttempt (apps/gateway/src/attempt-recording.ts) over the  *)
(* transactions of PrismaAttemptStore (packages/database/src/              *)
(* attempt-store.ts), driven by the fallback loop.  Every transaction may  *)
(* commit and answer, roll back, or commit and lose the answer; the        *)
(* generator cannot tell the last two apart and tries to record the        *)
(* failure again.  The requests belong to one session.                     *)
(*                                                                         *)
(* pc says which call of the generator comes next, and lost is a history   *)
(* variable.                                                               *)
(***************************************************************************)
EXTENDS Integers, Sequences, FiniteSetsExt

CONSTANTS
    Request,
    MaxAttempts,   \* policy.maxAttempts
    MaxTokens,     \* bound on the usage of an attempt
    StoreOutcome,  \* the outcomes a transaction can have
    MayCrash       \* whether the process may die

ASSUME LedgerAssumption ==
    /\ MaxAttempts \in Nat \ {0}
    /\ MaxTokens \in Nat
    /\ StoreOutcome \subseteq {"ok", "rolled_back", "ack_lost"}
    /\ MayCrash \in BOOLEAN

VARIABLES
    attempts,   \* ProviderAttempt rows of each request: their status by sequence
    requests,   \* Request.status, or "none" before the row exists
    events,     \* UsageEvent rows
    total,      \* Session token total
    pc,         \* the next call of each request's generator
    usage,      \* latestUsage of the current attempt
    committed,  \* the current attempt has shown output to the client
    retryable,  \* whether the error on its way out is retryable
    aborted,    \* the client's abort signal
    lost        \* nobody was left, or able, to record the last attempt

rows == <<attempts, requests, events, total>>
vars == <<rows, pc, usage, committed, retryable, aborted, lost>>

Terminal == {"COMPLETED", "FAILED", "CANCELLED"}

Event == [request : Request, sequence : 1 .. MaxAttempts,
          status : Terminal, tokens : 0 .. MaxTokens]

TypeOK ==
    /\ attempts \in [Request -> Seq({"STARTED"} \cup Terminal)]
    /\ \A r \in Request : Len(attempts[r]) <= MaxAttempts
    /\ requests \in [Request -> {"none", "RECEIVED", "STREAMING"} \cup Terminal]
    /\ events \subseteq Event
    /\ total \in Nat
    /\ pc \in [Request -> {"new", "streaming", "catch", "finally", "switch", "done"}]
    /\ usage \in [Request -> 0 .. MaxTokens]
    /\ committed \in [Request -> BOOLEAN]
    /\ retryable \in [Request -> BOOLEAN]
    /\ aborted \in [Request -> BOOLEAN]
    /\ lost \in [Request -> BOOLEAN]

Init ==
    /\ attempts = [r \in Request |-> <<>>]
    /\ requests = [r \in Request |-> "none"]
    /\ events = {}
    /\ total = 0
    /\ pc = [r \in Request |-> "new"]
    /\ usage = [r \in Request |-> 0]
    /\ committed = [r \in Request |-> FALSE]
    /\ retryable = [r \in Request |-> FALSE]
    /\ aborted = [r \in Request |-> FALSE]
    /\ lost = [r \in Request |-> FALSE]

-----------------------------------------------------------------------------
(* Transactions. *)

Commits(outcome) == outcome \in {"ok", "ack_lost"}

Last(r) == Len(attempts[r])

(* The unique key of UsageEvent.providerAttemptId. *)
HasEvent(r, sequence) ==
    \E e \in events : e.request = r /\ e.sequence = sequence

(* Mutant: a fallback does not open its request again. *)
CreateAttemptOnly(r, outcome) ==
    IF Commits(outcome)
    THEN /\ attempts' = [attempts EXCEPT ![r] = Append(@, "STARTED")]
         /\ requests' = [requests EXCEPT ![r] = IF @ = "none" THEN "RECEIVED" ELSE @]
         /\ UNCHANGED <<events, total>>
    ELSE UNCHANGED rows

(* start and startFallback create the next attempt and (re)open the request.*)
CreateAttempt(r, outcome) ==
    IF Commits(outcome)
    THEN /\ attempts' = [attempts EXCEPT ![r] = Append(@, "STARTED")]
         /\ requests' = [requests EXCEPT ![r] = "RECEIVED"]
         /\ UNCHANGED <<events, total>>
    ELSE UNCHANGED rows

TerminalEvent(r, status, tokens) ==
    [request |-> r, sequence |-> Last(r), status |-> status, tokens |-> tokens]

(* Mutant: the attempt is written before the transaction. *)
WriteAttemptApart(r, status, tokens, outcome) ==
    /\ attempts' = [attempts EXCEPT ![r][Last(r)] = status]
    /\ IF Commits(outcome) /\ ~HasEvent(r, Last(r))
       THEN /\ requests' = [requests EXCEPT ![r] = status]
            /\ events' = events \cup {TerminalEvent(r, status, tokens)}
            /\ total' = total + tokens
       ELSE UNCHANGED <<requests, events, total>>

(* Mutant: the usage event is upserted. *)
WriteTerminalAgain(r, status, tokens, outcome) ==
    IF Commits(outcome)
    THEN /\ attempts' = [attempts EXCEPT ![r][Last(r)] = status]
         /\ requests' = [requests EXCEPT ![r] = status]
         /\ events' = {e \in events : ~(e.request = r /\ e.sequence = Last(r))}
                        \cup {TerminalEvent(r, status, tokens)}
         /\ total' = total + tokens
    ELSE UNCHANGED rows

(* complete and fail write the attempt, its usage event, the request and    *)
(* the session total in one transaction; a second event of the attempt      *)
(* violates the unique key and rolls all of it back.                        *)
WriteTerminal(r, status, tokens, outcome) ==
    IF Commits(outcome) /\ ~HasEvent(r, Last(r))
    THEN /\ attempts' = [attempts EXCEPT ![r][Last(r)] = status]
         /\ requests' = [requests EXCEPT ![r] = status]
         /\ events' = events \cup {TerminalEvent(r, status, tokens)}
         /\ total' = total + tokens
    ELSE UNCHANGED rows

Written(r, outcome) == outcome = "ok" /\ ~HasEvent(r, Last(r))

FailureStatus(r) == IF aborted[r] THEN "CANCELLED" ELSE "FAILED"

Goto(r, where) == pc' = [pc EXCEPT ![r] = where]

-----------------------------------------------------------------------------
(* The generator begins an attempt: the first one itself, another one with  *)
(* the row startFallback created.  If the call throws there is no attempt   *)
(* to record, or nobody who knows of it.                                    *)
Begin(r, outcome) ==
    /\ pc[r] \in {"new", "switch"}
    /\ CreateAttempt(r, outcome)
    /\ Goto(r, IF outcome = "ok" THEN "streaming" ELSE "done")
    /\ usage' = [usage EXCEPT ![r] = 0]
    /\ lost' = [lost EXCEPT ![r] = outcome = "ack_lost"]
    /\ UNCHANGED <<committed, retryable, aborted>>

(* response.started, which may tell the input tokens.  An error of the      *)
(* store is thrown into the loop.                                           *)
ResponseStarted(r, tokens, outcome) ==
    /\ pc[r] = "streaming"
    /\ usage' = [usage EXCEPT ![r] = Max({@, tokens})]
    /\ requests' = IF Commits(outcome)
                   THEN [requests EXCEPT ![r] = "STREAMING"]
                   ELSE requests
    /\ IF outcome = "ok"
       THEN UNCHANGED <<pc, retryable>>
       ELSE Goto(r, "catch") /\ retryable' = [retryable EXCEPT ![r] = FALSE]
    /\ UNCHANGED <<attempts, events, total, committed, aborted, lost>>

(* usage.updated replaces the usage; providers report a running total. *)
UsageUpdated(r, tokens) ==
    /\ pc[r] = "streaming"
    /\ usage' = [usage EXCEPT ![r] = tokens]
    /\ UNCHANGED <<rows, pc, committed, retryable, aborted, lost>>

(* Meaningful output reaches the client: there is no fallback after it. *)
Output(r) ==
    /\ pc[r] = "streaming"
    /\ ~committed[r]
    /\ committed' = [committed EXCEPT ![r] = TRUE]
    /\ UNCHANGED <<rows, pc, usage, retryable, aborted, lost>>

(* response.completed. *)
Complete(r, tokens, outcome) ==
    /\ pc[r] = "streaming"
    /\ usage' = [usage EXCEPT ![r] = tokens]
    /\ WriteTerminal(r, "COMPLETED", tokens, outcome)
    /\ Goto(r, IF Written(r, outcome) THEN "done" ELSE "catch")
    /\ retryable' = [retryable EXCEPT ![r] = FALSE]
    /\ UNCHANGED <<committed, aborted, lost>>

(* What the fallback loop does with a failure that has been recorded. *)
Leave(r, canRetry) ==
    Goto(r, IF /\ canRetry
               /\ ~committed[r]
               /\ ~aborted[r]
               /\ Last(r) < MaxAttempts
            THEN "switch"
            ELSE "done")

(* response.failed: recorded before the event is passed on. *)
FailedEvent(r, canRetry, outcome) ==
    /\ pc[r] = "streaming"
    /\ WriteTerminal(r, "FAILED", usage[r], outcome)
    /\ IF Written(r, outcome) THEN Leave(r, canRetry) ELSE Goto(r, "catch")
    /\ retryable' = [retryable EXCEPT ![r] = FALSE]
    /\ UNCHANGED <<usage, committed, aborted, lost>>

(* The provider's stream throws, or the store does in firstToken. *)
StreamThrows(r, canRetry) ==
    /\ pc[r] = "streaming"
    /\ Goto(r, "catch")
    /\ retryable' = [retryable EXCEPT ![r] = canRetry]
    /\ UNCHANGED <<rows, usage, committed, aborted, lost>>

(* Mutant: the generator has no finally block. *)
StreamEndsUnseen(r) ==
    /\ pc[r] = "streaming"
    /\ Goto(r, "done")
    /\ retryable' = [retryable EXCEPT ![r] = TRUE]
    /\ UNCHANGED <<rows, usage, committed, aborted, lost>>

(* The stream ends without a terminal event: only finally sees it. *)
StreamEnds(r) ==
    /\ pc[r] = "streaming"
    /\ Goto(r, "finally")
    /\ retryable' = [retryable EXCEPT ![r] = TRUE]
    /\ UNCHANGED <<rows, usage, committed, aborted, lost>>

(* Mutant: an error of the store is swallowed. *)
RecordInCatchOnce(r, outcome) ==
    /\ pc[r] = "catch"
    /\ WriteTerminal(r, FailureStatus(r), usage[r], outcome)
    /\ Leave(r, retryable[r])
    /\ UNCHANGED <<usage, committed, retryable, aborted, lost>>

(* The catch block records the failure and throws the error on.  If the     *)
(* record throws, its error replaces the provider's and is not retryable,   *)
(* and terminal is still false when finally runs.                           *)
RecordInCatch(r, outcome) ==
    /\ pc[r] = "catch"
    /\ WriteTerminal(r, FailureStatus(r), usage[r], outcome)
    /\ IF Written(r, outcome)
       THEN Leave(r, retryable[r]) /\ UNCHANGED retryable
       ELSE Goto(r, "finally") /\ retryable' = [retryable EXCEPT ![r] = FALSE]
    /\ UNCHANGED <<usage, committed, aborted, lost>>

RecordInFinally(r, outcome) ==
    /\ pc[r] = "finally"
    /\ WriteTerminal(r, FailureStatus(r), usage[r], outcome)
    /\ IF Written(r, outcome) THEN Leave(r, retryable[r]) ELSE Goto(r, "done")
    /\ lost' = [lost EXCEPT ![r] = outcome = "rolled_back" /\ ~HasEvent(r, Last(r))]
    /\ UNCHANGED <<usage, committed, retryable, aborted>>

(* The consumer of a committed stream stops reading.  continueAttempt has   *)
(* no finally block, so the generator below it is never resumed.            *)
Abandon(r) ==
    /\ pc[r] = "streaming"
    /\ committed[r]
    /\ Goto(r, "done")
    /\ lost' = [lost EXCEPT ![r] = TRUE]
    /\ UNCHANGED <<rows, usage, committed, retryable, aborted>>

Abort(r) ==
    /\ pc[r] # "done"
    /\ ~aborted[r]
    /\ aborted' = [aborted EXCEPT ![r] = TRUE]
    /\ UNCHANGED <<rows, pc, usage, committed, retryable, lost>>

(* The process dies; the rows stay as they are and nothing resumes them. *)
Unrecorded(r) == pc[r] \in {"streaming", "catch", "finally"} /\ ~HasEvent(r, Last(r))

Crash ==
    /\ MayCrash
    /\ \E r \in Request : pc[r] \notin {"new", "done"}
    /\ pc' = [r \in Request |-> IF pc[r] = "new" THEN "new" ELSE "done"]
    /\ lost' = [r \in Request |-> lost[r] \/ Unrecorded(r)]
    /\ UNCHANGED <<rows, usage, committed, retryable, aborted>>

Next ==
    \/ Crash
    \/ \E r \in Request :
         \/ Output(r) \/ StreamEnds(r) \/ Abandon(r) \/ Abort(r)
         \/ \E tokens \in 0 .. MaxTokens : UsageUpdated(r, tokens)
         \/ \E canRetry \in BOOLEAN : StreamThrows(r, canRetry)
         \/ \E outcome \in StoreOutcome :
              \/ Begin(r, outcome)
              \/ \E tokens \in 0 .. MaxTokens :
                   ResponseStarted(r, tokens, outcome) \/ Complete(r, tokens, outcome)
              \/ \E canRetry \in BOOLEAN : FailedEvent(r, canRetry, outcome)
              \/ RecordInCatch(r, outcome)
              \/ RecordInFinally(r, outcome)

Spec == Init /\ [][Next]_vars

-----------------------------------------------------------------------------
(* docs/usage-analytics.md:31: an attempt is terminal exactly when it has   *)
(* its usage event, with the same status and only one, however often the    *)
(* generator records it and whatever the transactions answer.               *)
EventIffTerminal ==
    /\ \A r \in Request : \A s \in 1 .. Last(r) :
         attempts[r][s] \in Terminal <=> HasEvent(r, s)
    /\ \A e \in events :
         /\ e.sequence <= Last(e.request)
         /\ attempts[e.request][e.sequence] = e.status
         /\ \A f \in events :
              e.request = f.request /\ e.sequence = f.sequence => e = f

(* The terminal status of an attempt and its usage never change: a failure  *)
(* recorded after a completion whose answer was lost does not overwrite it. *)
TerminalIsFinal ==
    [][/\ events \subseteq events'
       /\ \A r \in Request : \A s \in 1 .. Last(r) :
            attempts[r][s] \in Terminal => attempts'[r][s] = attempts[r][s]]_vars

(* The request row follows its last attempt, also across a fallback that    *)
(* opens it again.                                                          *)
RequestFollowsAttempt ==
    \A r \in Request :
        IF attempts[r] = <<>>
        THEN requests[r] = "none"
        ELSE IF attempts[r][Last(r)] = "STARTED"
             THEN requests[r] \in {"RECEIVED", "STREAMING"}
             ELSE requests[r] = attempts[r][Last(r)]

(* A fallback is only started when the attempt before it is on record as    *)
(* failed: never while it might still be running, completed or cancelled.   *)
FallbackFollowsFailure ==
    \A r \in Request :
        /\ \A s \in 1 .. Last(r) - 1 : attempts[r][s] = "FAILED"
        /\ pc[r] = "switch" => attempts[r][Last(r)] = "FAILED"

(* A request leaves an attempt without its terminal record only when the    *)
(* process died, the consumer walked away, or the store rolled back every   *)
(* try to record it or lost the answer that created it.                     *)
RecordedUnlessLost ==
    \A r \in Request :
        pc[r] = "done" /\ attempts[r] # <<>> /\ ~lost[r]
          => attempts[r][Last(r)] \in Terminal

(* docs/usage-analytics.md:44-45: "A failure before any usage is observed   *)
(* still receives a zero-token/zero-cost ledger event so the attempt is not *)
(* invisible."  With a store that always answers and a process that does    *)
(* not die, every attempt of a request that is over is on record.           *)
(* Refuted by the code: see the findings in the README.                     *)
EveryAttemptRecorded ==
    \A r \in Request :
        pc[r] = "done" => \A s \in 1 .. Last(r) : HasEvent(r, s)
=============================================================================
