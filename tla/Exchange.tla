------------------------------ MODULE Exchange ------------------------------
(***************************************************************************)
(* One HTTP request of a client from the handler's first line to its last  *)
(* (the handlers of /v1/messages, /v1/chat/completions and /v1/responses   *)
(* in apps/gateway/src/app.ts, prepareAttempt and continueAttempt of       *)
(* fallback.ts), over the ProviderCall that answers it.                    *)
(*                                                                         *)
(* The handler validates and routes, lets the fallback loop prepare the    *)
(* answer until its first meaningful event, sends the headers, and writes  *)
(* or collects the rest.  The client may read slowly, stop reading or      *)
(* leave.  The call is the last candidate's: who else was tried before is  *)
(* Fallback's.                                                             *)
(***************************************************************************)
EXTENDS ProviderCall

VARIABLES
    handler,    \* "checking" | "preparing" | "answering" | "draining" | "ended"
    route,      \* "messages" | "chat" | "responses"
    streaming,  \* the client asked for a stream
    response,   \* the status sent (0: none) and how the answer ends
    counted     \* what metrics.requestCompleted was told

exchangeVars == <<handler, route, streaming, response, counted>>
vars == <<callVars, exchangeVars>>

Init ==
    /\ CallInit
    /\ handler = "checking"
    /\ route \in {"messages", "chat", "responses"}
    /\ streaming \in BOOLEAN
    /\ response = [status |-> 0, ending |-> "none"]
    /\ counted = "none"

-----------------------------------------------------------------------------
(* errorStatus.  "invalid" is a ZodError, InputError or RoutingError,      *)
(* "broken" an error of no class it knows.                                 *)
ErrorStatus(code) ==
    CASE code \in {"invalid", "invalid_request"} -> 400
      [] code = "request_too_large" -> 413
      [] code = "rate_limit" -> 429
      [] code = "timeout" -> 504
      [] code = "overloaded" -> 529
      [] code = "broken" -> 500
      [] OTHER -> 502

HeadersSent == response.status # 0

(* Mutant: a stream that breaks is ended like one that is complete. *)
CatchQuietly(code) ==
    /\ handler' = "ended"
    /\ counted' = IF gone THEN "cancelled" ELSE "failed"
    /\ response' = IF HeadersSent THEN [response EXCEPT !.ending = "whole"]
                   ELSE [status |-> ErrorStatus(code), ending |-> "error"]
    /\ UNCHANGED <<route, streaming>>

(* The handler's catch block, and the error handler if no headers were     *)
(* sent; otherwise an error frame is the end of the stream.                *)
Catch(code) ==
    /\ handler' = "ended"
    /\ counted' = IF gone THEN "cancelled" ELSE "failed"
    /\ response' = IF HeadersSent THEN [response EXCEPT !.ending = "error"]
                   ELSE [status |-> ErrorStatus(code), ending |-> "error"]
    /\ UNCHANGED <<route, streaming>>

(* The terminal event has been written or collected.                       *)
Finish ==
    /\ handler' = "ended"
    /\ counted' = IF outcome = "completed" THEN "completed" ELSE "failed"
    /\ response' = [status |-> 200, ending |-> IF outcome = "completed" THEN "whole" ELSE "error"]
    /\ UNCHANGED <<route, streaming>>

-----------------------------------------------------------------------------
(* The body, the headers or the constraints are refused, no model fits, a  *)
(* store fails or the client's signal ends the routing.                    *)
Reject ==
    /\ handler = "checking"
    /\ \E code \in {"invalid", "broken"} : Catch(code)
    /\ UNCHANGED callVars

Route ==
    /\ handler = "checking"
    /\ handler' = "preparing"
    /\ UNCHANGED <<callVars, route, streaming, response, counted>>

(* prepareAttempt goes on: it has just begun, or an event was no output.   *)
Prepare ==
    /\ handler = "preparing"
    /\ Pull
    /\ UNCHANGED exchangeVars

(* An event is meaningful, or the terminal event came: the answer begins.  *)
Commit ==
    /\ handler = "preparing"
    /\ adapter = "yielded" \/ outcome \in {"completed", "failed"}
    /\ handler' = "answering"
    /\ response' = IF streaming THEN [response EXCEPT !.status = 200] ELSE response
    /\ UNCHANGED <<callVars, route, streaming, counted>>

(* Before output the deadline is told apart from the client's departure.   *)
PrepareFails ==
    /\ handler = "preparing"
    /\ adapter = "over" /\ outcome \notin {"completed", "failed"}
    /\ Catch(IF deadline /\ ~gone THEN "timeout" ELSE outcome)
    /\ UNCHANGED callVars

(* response.write(chunk) is true, or the answer is only being collected.   *)
Written ==
    /\ handler = "answering"
    /\ Pull
    /\ UNCHANGED exchangeVars

(* response.write(chunk) is false: waitForDrain. *)
BufferFull ==
    /\ handler = "answering" /\ streaming
    /\ adapter = "yielded" \/ outcome \in {"completed", "failed"}
    /\ handler' = "draining"
    /\ UNCHANGED <<callVars, route, streaming, response, counted>>

Drained ==
    /\ handler = "draining" /\ ~gone
    /\ \/ handler' = "answering" /\ Pull /\ UNCHANGED <<route, streaming, response, counted>>
       \/ adapter = "over" /\ Finish /\ UNCHANGED callVars

(* The request's own signal ends the wait; the generator is left where it  *)
(* stands.                                                                 *)
DrainAborted ==
    /\ handler = "draining" /\ gone
    /\ Catch("broken")
    /\ UNCHANGED callVars

(* The answer is over.  A failure that came as an event is an event of a   *)
(* stream and an answer of the Responses protocol; the collectors of the   *)
(* others throw a plain error.                                             *)
EndResponse ==
    /\ handler = "answering" /\ adapter = "over"
    /\ LET unread == outcome = "failed" /\ ~streaming /\ route # "responses"
       IN  IF outcome \in {"completed", "failed"} /\ ~unread THEN Finish
           ELSE Catch(IF unread THEN "broken" ELSE outcome)
    /\ UNCHANGED callVars

(* createRequestAbortController: "aborted", or "close" before the end. *)
ClientLeaves ==
    /\ ~gone /\ handler # "ended"
    /\ gone' = TRUE
    /\ UNCHANGED <<adapter, attempt, timer, outcome, deadline, events, buffered, exchangeVars>>

Answered == handler = "ended" /\ UNCHANGED vars

(* The fallback loop's deadline starts with the call. *)
Call == handler # "checking" /\ CallStep /\ UNCHANGED exchangeVars

Next ==
    \/ Call \/ Reject \/ Route \/ Prepare \/ Commit \/ PrepareFails
    \/ Written \/ BufferFull \/ Drained \/ DrainAborted \/ EndResponse
    \/ ClientLeaves \/ Answered

Ours(A) == A /\ UNCHANGED exchangeVars

(***************************************************************************)
(* The event loop runs what is ready, an aborted fetch, read or pause      *)
(* rejects, and the timer fires unless it is disposed.  Of the provider    *)
(* nothing is assumed: it may stay silent for ever or name any pause.  A   *)
(* client that has stopped reading resumes or leaves.                      *)
(***************************************************************************)
Fairness ==
    /\ WF_vars(Reject \/ Route) /\ WF_vars(Prepare \/ Commit) /\ WF_vars(PrepareFails)
    /\ WF_vars(Ours(Try)) /\ WF_vars(Ours(FetchAborted)) /\ WF_vars(Ours(ClassifyAborted))
    /\ WF_vars(Ours(SleepAborted)) /\ WF_vars(Ours(Message)) /\ WF_vars(Ours(ReadAborted))
    /\ WF_vars(Ours(TimerFires))
    /\ WF_vars(Written \/ BufferFull) /\ WF_vars(DrainAborted) /\ WF_vars(EndResponse)
    /\ WF_vars(Drained \/ (handler = "draining" /\ ClientLeaves))

Spec == Init /\ [][Next]_vars /\ Fairness

-----------------------------------------------------------------------------
(* requestSse and the adapters' loops: once the signal is aborted no        *)
(* request is sent and no event is yielded, whatever the provider has       *)
(* already delivered; and no call sends more than MaxRetries + 1 requests.  *)
QuietAfterAbort ==
    [][/\ adapter' = "fetching" /\ adapter # "fetching" => ~Aborted /\ attempt' <= MaxRetries
       /\ events' > events => ~Aborted]_vars

(* Every request ends, under a provider that never answers, never finishes  *)
(* or names an endless pause, and a client that stops reading for a while   *)
(* (abortableSleep, createExecutionSignal, waitForDrain).                   *)
EveryCallEnds == <>(handler = "ended")

(* The client and the metrics are told what happened: an answer that looks  *)
(* whole is whole, also after the headers were sent, a client that stays is *)
(* counted by the outcome, and it is blamed (400 to 499) only for what the  *)
(* gateway or the provider found wrong with its request or its rate, never  *)
(* for the gateway's own credentials or a model the provider does not have  *)
(* (catch blocks of the handlers, errorStatus, statusErrorCode).            *)
TruthfulEnding ==
    handler = "ended" =>
        /\ response.ending = "whole" => outcome = "completed" /\ response.status = 200
        /\ counted = "cancelled" => gone
        /\ ~gone => (counted = "completed" <=> outcome = "completed")
        /\ response.status \in 400 .. 499 =>
             outcome \in {"none", "invalid_request", "request_too_large", "rate_limit"}
        /\ response.status = 504 => outcome = "timeout" \/ deadline
=============================================================================
