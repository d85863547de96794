--------------------------- MODULE Exchange_proofs ---------------------------
(***************************************************************************)
(* Theorems about what a client is told, in two sections: the end of a     *)
(* request (Exchange), and the stream between (ProviderStream).            *)
(*                                                                         *)
(* Exchange, for any number of retries and events: the end of a request    *)
(* tells what happened, and an aborted call is quiet.  TruthfulEnding is   *)
(* about two parts that run on their own: the handler that has ended and   *)
(* the call it may have left in the middle.  It is inductive together      *)
(* with where the call can be when the handler ends (LeftBehind) and what  *)
(* the handler has sent so far (HandlerOK).                                *)
(*                                                                         *)
(* ProviderStream, for streams of any length and any keys: every dialect's *)
(* decoder emits a canonical stream, the encoders accept it, an orderly    *)
(* upstream is never refused, and the client is told once how it ended.    *)
(***************************************************************************)
EXTENDS Exchange, ProviderStream, SequenceTheorems, FiniteSetTheorems, TLAPS

(*----------------------- the end of a request ----------------------------*)

Outcomes ==
    {"none", "completed", "failed", "timeout", "cancelled", "network", "protocol",
     "invalid_request", "authentication", "billing", "permission", "not_found", "conflict",
     "request_too_large", "rate_limit", "overloaded", "upstream"}

(* The call: only what is over has an outcome, a pause has a retry after   *)
(* it, and the upstream has sent no more than it may.                      *)
CallOK ==
    /\ adapter \in {"created", "trying", "fetching", "refused", "sleeping", "reading",
                    "yielded", "over"}
    /\ attempt \in 0 .. MaxRetries
    /\ timer \in {"unset", "armed", "fired", "disposed"}
    /\ outcome \in Outcomes
    /\ gone \in BOOLEAN /\ deadline \in BOOLEAN
    /\ events \in Nat /\ buffered \in 0 .. 2
    /\ outcome # "none" <=> adapter = "over"
    /\ adapter = "sleeping" => attempt < MaxRetries
    /\ events + buffered <= MaxEvents

(* The handler: what it has sent before it ends.                           *)
HandlerOK ==
    /\ handler \in {"checking", "preparing", "answering", "draining", "ended"}
    /\ route \in {"messages", "chat", "responses"}
    /\ streaming \in BOOLEAN
    /\ response \in [status : {0, 200, 400, 413, 429, 500, 502, 504, 529},
                     ending : {"none", "whole", "error"}]
    /\ counted \in {"none", "completed", "failed", "cancelled"}
    /\ handler = "checking" => adapter = "created"
    /\ handler \in {"checking", "preparing"} => response.status = 0
    /\ handler \in {"answering", "draining"} => response.status = (IF streaming THEN 200 ELSE 0)
    /\ handler = "draining" => streaming

(* A request that has ended has a call that is over, or never began, or was *)
(* left where it stood when the client had gone.                           *)
LeftBehind ==
    handler = "ended" =>
        \/ adapter \in {"created", "over"}
        \/ gone /\ counted = "cancelled" /\ response = [status |-> 200, ending |-> "error"]

(* Only an event can be waiting for a buffer that is full. *)
Waiting ==
    handler = "draining" => adapter = "yielded" \/ outcome \in {"completed", "failed"}

IInv ==
    /\ CallOK
    /\ HandlerOK
    /\ Waiting
    /\ LeftBehind
    /\ TruthfulEnding

-----------------------------------------------------------------------------
(* The call. *)

LEMMA ThrownKeeps ==
    ASSUME CallOK, NEW code \in Outcomes \ {"none"}, Throw(code)
    PROVE  /\ adapter' = "over" /\ outcome' \in Outcomes \ {"none"}
           /\ timer' \in {"unset", "armed", "fired", "disposed"}
BY DEF Throw, CallOK, Outcomes

LEMMA StatusCodes == \A status \in Statuses : StatusCode(status) \in Outcomes \ {"none"}
BY DEF Statuses, StatusCode, Outcomes

(* A call at a yield, or not begun, waits for its caller, one that is over  *)
(* stays over, and the client's departure and the deadline are for good.         *)
Onward ==
    /\ gone' = gone /\ (deadline => deadline')
    /\ adapter \in {"created", "yielded", "over"} => adapter' = adapter /\ outcome' = outcome

LEMMA CallKeeps == ASSUME CallOK, CallStep PROVE CallOK' /\ Onward
<1> USE CallAssumption
<1>1. CASE Try
  BY <1>1, ThrownKeeps DEF Try, CallOK, Onward, Outcomes
<1>2. CASE FetchFails
  BY <1>2, ThrownKeeps DEF FetchFails, Pause, CallOK, Onward, Outcomes
<1>3. CASE Accepted \/ Refused
  BY <1>3 DEF Accepted, Refused, CallOK, Onward
<1>4. CASE EmptyBody
  BY <1>4, ThrownKeeps DEF EmptyBody, CallOK, Onward, Outcomes
<1>5. ASSUME NEW status \in Statuses, Classify(status) PROVE CallOK' /\ Onward
  BY <1>5, ThrownKeeps, StatusCodes DEF Classify, Pause, CallOK, Onward
<1>6. CASE Awake
  <2>1. attempt' \in 0 .. MaxRetries
    BY <1>6 DEF Awake, CallOK
  <2> QED
    BY <1>6, <2>1 DEF Awake, CallOK, Onward
<1>7. CASE SleepAborted
  BY <1>7, ThrownKeeps DEF SleepAborted, CallOK, Onward, Outcomes
<1>8. ASSUME NEW n \in 1 .. 2, Chunk(n) PROVE CallOK' /\ Onward
  <2>1. buffered' \in 0 .. 2 /\ events' + buffered' <= MaxEvents
    BY <1>8 DEF Chunk, CallOK
  <2> QED
    BY <1>8, <2>1 DEF Chunk, CallOK, Onward
<1>9. CASE Message
  <2>1. adapter = "reading" /\ UNCHANGED <<attempt, gone, deadline>>
    BY <1>9 DEF Message
  <2>2. buffered' \in 0 .. 2 /\ events' \in Nat /\ events' + buffered' <= MaxEvents
    BY <1>9 DEF Message, CallOK
  <2>3. CASE adapter' = "yielded" /\ UNCHANGED <<outcome, timer>>
    BY <2>1, <2>2, <2>3 DEF CallOK, Onward
  <2>4. CASE Throw("network")
    BY <2>1, <2>2, <2>4, ThrownKeeps DEF CallOK, Onward, Outcomes
  <2> QED
    BY <1>9, <2>3, <2>4 DEF Message
<1>10. CASE Terminal
  BY <1>10 DEF Terminal, CallOK, Onward, Outcomes
<1>11. CASE ReadFails
  BY <1>11, ThrownKeeps DEF ReadFails, CallOK, Onward, Outcomes
<1>12. CASE TimerFires \/ DeadlinePasses
  BY <1>12 DEF TimerFires, DeadlinePasses, CallOK, Onward
<1> QED
  BY <1>1, <1>2, <1>3, <1>4, <1>5, <1>6, <1>7, <1>8, <1>9, <1>10, <1>11, <1>12 DEF CallStep

LEMMA PullKeeps ==
    ASSUME CallOK, Pull
    PROVE  CallOK' /\ adapter' \notin {"created", "over"} /\ UNCHANGED <<gone, deadline, outcome>>
BY DEF Pull, CallOK

(* Only Try sends a request, and only Message yields an event. *)
LEMMA CallQuiet ==
    ASSUME CallOK, CallStep
    PROVE  /\ adapter' = "fetching" /\ adapter # "fetching" => ~Aborted /\ attempt' <= MaxRetries
           /\ events' > events => ~Aborted
<1>1. CASE Try
  BY <1>1, CallAssumption DEF Try, MayTry, Throw, CallOK
<1>2. CASE Message
  BY <1>2 DEF Message, Live, Throw, CallOK
<1>3. CASE ~Try /\ ~Message
  <2>1. UNCHANGED events /\ (adapter' = "fetching" => adapter = "fetching")
    BY <1>3 DEF CallStep, FetchFails, Accepted, EmptyBody, Refused, Classify, Pause, Awake,
                SleepAborted, Chunk, Terminal, ReadFails, TimerFires, DeadlinePasses, Throw
  <2> QED
    BY <2>1 DEF CallOK
<1> QED
  BY <1>1, <1>2, <1>3

-----------------------------------------------------------------------------
(* The handler. *)

LEMMA ErrorStatuses ==
    \A code \in Outcomes \cup {"invalid", "broken"} :
        /\ ErrorStatus(code) \in {400, 413, 429, 500, 502, 504, 529}
        /\ ErrorStatus(code) \in 400 .. 499 =>
              code \in {"invalid", "invalid_request", "request_too_large", "rate_limit"}
        /\ ErrorStatus(code) = 504 => code = "timeout"
<1> TAKE code \in Outcomes \cup {"invalid", "broken"}
<1>1. CASE code \in {"invalid", "invalid_request"}
  BY <1>1 DEF ErrorStatus
<1>2. CASE code \in {"request_too_large", "rate_limit"}
  BY <1>2 DEF ErrorStatus
<1>3. CASE code \notin {"invalid", "invalid_request", "request_too_large", "rate_limit"}
  <2>1. ErrorStatus(code) \in {500, 502, 504, 529}
    BY <1>3 DEF ErrorStatus
  <2>2. ErrorStatus(code) = 504 => code = "timeout"
    BY <1>3 DEF ErrorStatus
  <2> QED
    BY <2>1, <2>2
<1> QED
  BY <1>1, <1>2, <1>3

(* What the catch block says is true of a call that did not complete, or of *)
(* a client that does not hear it.                                         *)
LEMMA CatchKeeps ==
    ASSUME IInv, NEW code \in Outcomes \cup {"invalid", "broken"}, Catch(code), UNCHANGED callVars,
           gone \/ outcome # "completed",
           \/ adapter \in {"created", "over"}
           \/ gone /\ response.status = 200,
           response.status \in {0, 200},
           code = "invalid" => outcome = "none",
           code \in Outcomes => code = outcome \/ (code = "timeout" /\ deadline)
    PROVE  IInv'
<1>1. CallOK'
  BY DEF IInv, CallOK, callVars
<1>2. /\ handler' = "ended" /\ counted' = (IF gone THEN "cancelled" ELSE "failed")
      /\ response' = IF response.status # 0 THEN [response EXCEPT !.ending = "error"]
                     ELSE [status |-> ErrorStatus(code), ending |-> "error"]
      /\ UNCHANGED <<route, streaming, adapter, outcome, gone, deadline>>
  BY DEF Catch, HeadersSent, callVars
<1>3. /\ response'.ending = "error"
      /\ response'.status = IF response.status # 0 THEN 200 ELSE ErrorStatus(code)
      /\ response' \in [status : {0, 200, 400, 413, 429, 500, 502, 504, 529},
                        ending : {"none", "whole", "error"}]
      /\ response.status # 0 => response' = [status |-> 200, ending |-> "error"]
  BY <1>2, ErrorStatuses DEF IInv, HandlerOK
<1>4. HandlerOK'
  BY <1>2, <1>3 DEF IInv, HandlerOK
<1>5. LeftBehind' /\ Waiting'
  BY <1>2, <1>3 DEF LeftBehind, Waiting
<1>6. TruthfulEnding'
  <2>1. response'.status \in 400 .. 499 =>
          outcome \in {"none", "invalid_request", "request_too_large", "rate_limit"}
    BY <1>3, ErrorStatuses DEF Outcomes
  <2>2. response'.status = 504 => outcome = "timeout" \/ deadline
    BY <1>3, ErrorStatuses DEF Outcomes
  <2> QED
    BY <1>2, <1>3, <2>1, <2>2 DEF TruthfulEnding
<1> QED
  BY <1>1, <1>4, <1>5, <1>6 DEF IInv

LEMMA FinishKeeps ==
    ASSUME IInv, Finish, UNCHANGED callVars, adapter = "over",
           outcome \in {"completed", "failed"}
    PROVE  IInv'
<1>1. CallOK'
  BY DEF IInv, CallOK, callVars
<1>2. HandlerOK' /\ LeftBehind' /\ Waiting' /\ TruthfulEnding'
  BY DEF Finish, callVars, IInv, HandlerOK, LeftBehind, Waiting, TruthfulEnding
<1> QED
  BY <1>1, <1>2 DEF IInv

(* The handler moves on and has not ended. *)
LEMMA GoesOn ==
    ASSUME IInv, CallOK', HandlerOK', Waiting', handler' # "ended"
    PROVE  IInv'
BY DEF IInv, LeftBehind, TruthfulEnding

LEMMA InitIInv == ASSUME Init PROVE IInv
<1>1. CallOK /\ handler = "checking" /\ adapter = "created"
  <2>1. /\ adapter = "created" /\ attempt = 0 /\ timer = "unset" /\ outcome = "none"
        /\ gone = FALSE /\ deadline = FALSE /\ events = 0 /\ buffered = 0
        /\ handler = "checking"
    BY DEF Init, CallInit
  <2>2. /\ attempt \in 0 .. MaxRetries /\ events \in Nat /\ buffered \in 0 .. 2
        /\ events + buffered <= MaxEvents
    BY <2>1, CallAssumption
  <2>3. /\ outcome \in Outcomes /\ gone \in BOOLEAN /\ deadline \in BOOLEAN
        /\ timer \in {"unset", "armed", "fired", "disposed"}
    BY <2>1 DEF Outcomes
  <2> QED
    BY <2>1, <2>2, <2>3 DEF CallOK
<1>2. HandlerOK
  BY <1>1 DEF Init, HandlerOK
<1> QED
  BY <1>1, <1>2 DEF IInv, LeftBehind, Waiting, TruthfulEnding

(* Without a step of the call. *)
LEMMA CallStays == ASSUME IInv, UNCHANGED callVars PROVE CallOK'
BY DEF IInv, CallOK, callVars

LEMMA CallActionKeeps == ASSUME IInv, Call PROVE IInv'
<1>1. /\ handler # "checking" /\ CallStep
      /\ UNCHANGED <<handler, route, streaming, response, counted>>
  BY DEF Call, exchangeVars
<1>2. CallOK' /\ Onward
  BY <1>1, CallKeeps DEF IInv
<1>3. HandlerOK'
  BY <1>1 DEF IInv, HandlerOK
<1>4. LeftBehind' /\ Waiting'
  BY <1>1, <1>2 DEF IInv, CallOK, LeftBehind, Waiting, Onward
<1>5. TruthfulEnding'
  <2>1. CASE adapter \in {"created", "over"}
    BY <1>1, <1>2, <2>1 DEF IInv, TruthfulEnding, Onward
  <2>2. CASE handler = "ended" /\ adapter \notin {"created", "over"}
    <3>1. gone' /\ counted' = "cancelled" /\ response' = [status |-> 200, ending |-> "error"]
      BY <1>1, <1>2, <2>2 DEF IInv, LeftBehind, Onward
    <3> QED
      BY <3>1 DEF TruthfulEnding
  <2>3. CASE handler # "ended"
    BY <1>1, <2>3 DEF TruthfulEnding
  <2> QED
    BY <2>1, <2>2, <2>3
<1> QED
  BY <1>2, <1>3, <1>4, <1>5 DEF IInv

LEMMA RejectKeeps == ASSUME IInv, Reject PROVE IInv'
<1>1. handler = "checking" /\ UNCHANGED callVars
  BY DEF Reject
<1>2. adapter = "created" /\ outcome = "none" /\ response.status = 0
  BY <1>1 DEF IInv, CallOK, HandlerOK
<1>3. PICK code \in {"invalid", "broken"} : Catch(code)
  BY DEF Reject
<1>4. code \notin Outcomes
  BY DEF Outcomes
<1> QED
  BY <1>1, <1>2, <1>3, <1>4, CatchKeeps

LEMMA PullingKeeps ==
    ASSUME IInv, Pull, handler \in {"preparing", "answering"}, UNCHANGED exchangeVars
    PROVE  IInv'
<1>1. CallOK'
  BY PullKeeps DEF IInv
<1>2. HandlerOK' /\ Waiting' /\ handler' # "ended"
  BY DEF IInv, HandlerOK, Waiting, exchangeVars
<1> QED
  BY <1>1, <1>2, GoesOn

(* The handler moves, the call does not. *)
LEMMA MovingKeeps == ASSUME IInv, Route \/ Commit \/ BufferFull PROVE IInv'
<1>1. CallOK'
  BY CallStays DEF Route, Commit, BufferFull
<1>2. HandlerOK' /\ Waiting' /\ handler' # "ended"
  <2>1. CASE Route
    BY <2>1 DEF Route, IInv, HandlerOK, Waiting
  <2>2. CASE Commit
    BY <2>2 DEF Commit, IInv, HandlerOK, Waiting
  <2>3. CASE BufferFull
    BY <2>3 DEF BufferFull, callVars, IInv, HandlerOK, Waiting
  <2> QED
    BY <2>1, <2>2, <2>3
<1> QED
  BY <1>1, <1>2, GoesOn

LEMMA PrepareFailsKeeps == ASSUME IInv, PrepareFails PROVE IInv'
<1>1. /\ handler = "preparing" /\ adapter = "over" /\ outcome \notin {"completed", "failed"}
      /\ UNCHANGED callVars
  BY DEF PrepareFails
<1> DEFINE code == IF deadline /\ ~gone THEN "timeout" ELSE outcome
<1>2. PICK c \in Outcomes : c = code
  BY DEF IInv, CallOK, Outcomes
<1>3. Catch(c) /\ c \notin {"invalid", "broken"} /\ response.status = 0
  BY <1>1, <1>2 DEF PrepareFails, IInv, HandlerOK, Outcomes
<1>4. c = outcome \/ (c = "timeout" /\ deadline)
  BY <1>2
<1> QED
  BY <1>1, <1>3, <1>4, CatchKeeps

LEMMA DrainedKeeps == ASSUME IInv, Drained PROVE IInv'
<1>1. handler = "draining"
  BY DEF Drained
<1>2. CASE handler' = "answering" /\ Pull /\ UNCHANGED <<route, streaming, response, counted>>
  <2>1. CallOK'
    BY <1>2, PullKeeps DEF IInv
  <2>2. HandlerOK' /\ Waiting'
    BY <1>1, <1>2 DEF IInv, HandlerOK, Waiting
  <2> QED
    BY <1>2, <2>1, <2>2, GoesOn
<1>3. CASE adapter = "over" /\ Finish /\ UNCHANGED callVars
  <2>1. outcome \in {"completed", "failed"}
    BY <1>1, <1>3 DEF IInv, Waiting
  <2> QED
    BY <1>3, <2>1, FinishKeeps
<1> QED
  BY <1>2, <1>3 DEF Drained

LEMMA DrainAbortedKeeps == ASSUME IInv, DrainAborted PROVE IInv'
<1>1. handler = "draining" /\ gone /\ Catch("broken") /\ UNCHANGED callVars
  BY DEF DrainAborted
<1>2. response.status = 200
  BY <1>1 DEF IInv, HandlerOK
<1>3. "broken" \notin Outcomes
  BY DEF Outcomes
<1> QED
  BY <1>1, <1>2, <1>3, CatchKeeps

LEMMA EndResponseKeeps == ASSUME IInv, EndResponse PROVE IInv'
<1> DEFINE unread == outcome = "failed" /\ ~streaming /\ route # "responses"
           code == IF unread THEN "broken" ELSE outcome
<1>1. handler = "answering" /\ adapter = "over" /\ UNCHANGED callVars
  BY DEF EndResponse
<1>2. CASE outcome \in {"completed", "failed"} /\ ~unread
  BY <1>1, <1>2, FinishKeeps DEF EndResponse
<1>3. CASE ~(outcome \in {"completed", "failed"} /\ ~unread)
  <2>1. PICK c \in Outcomes \cup {"broken"} : c = code
    BY DEF IInv, CallOK
  <2>2. Catch(c) /\ outcome # "completed" /\ response.status \in {0, 200}
    BY <1>1, <1>3, <2>1 DEF EndResponse, IInv, HandlerOK
  <2>3. c # "invalid" /\ (c \in Outcomes => c = outcome)
    BY <2>1 DEF Outcomes
  <2> QED
    BY <1>1, <2>2, <2>3, CatchKeeps
<1> QED
  BY <1>2, <1>3

LEMMA ClientLeavesKeeps == ASSUME IInv, ClientLeaves PROVE IInv'
<1>1. /\ handler # "ended" /\ gone' = TRUE /\ UNCHANGED exchangeVars
      /\ UNCHANGED <<adapter, attempt, timer, outcome, deadline, events, buffered>>
  BY DEF ClientLeaves
<1>2. CallOK'
  BY <1>1 DEF IInv, CallOK
<1>3. HandlerOK' /\ Waiting' /\ handler' # "ended"
  BY <1>1 DEF IInv, HandlerOK, Waiting, exchangeVars
<1> QED
  BY <1>2, <1>3, GoesOn

LEMMA Induction == ASSUME IInv, [Next]_vars PROVE IInv'
<1>1. CASE UNCHANGED vars
  <2>1. UNCHANGED callVars /\ UNCHANGED exchangeVars
    BY <1>1 DEF vars
  <2> QED
    BY <2>1, CallStays DEF IInv, HandlerOK, LeftBehind, Waiting, TruthfulEnding,
                            callVars, exchangeVars
<1>2. CASE Prepare \/ Written
  BY <1>2, PullingKeeps DEF Prepare, Written
<1> QED
  BY <1>1, <1>2, CallActionKeeps, RejectKeeps, MovingKeeps, PrepareFailsKeeps, DrainedKeeps,
     DrainAbortedKeeps, EndResponseKeeps, ClientLeavesKeeps DEF Next, Answered

-----------------------------------------------------------------------------
(* Every reachable state satisfies the inductive invariant: only a call     *)
(* that is over has an outcome, and a handler knows what it has sent.      *)
THEOREM Invariance == Spec => []IInv
<1>1. Init => IInv
  BY InitIInv
<1>2. IInv /\ [Next]_vars => IInv'
  BY Induction
<1> QED
  BY <1>1, <1>2, PTL DEF Spec

(* The client and the metrics are told what happened, whatever the call,    *)
(* the timers and the client do meanwhile (the catch blocks of the         *)
(* handlers, errorStatus, statusErrorCode).                                *)
THEOREM EndingTruthful == Spec => []TruthfulEnding
<1>1. IInv => TruthfulEnding
  BY DEF IInv
<1> QED
  BY <1>1, Invariance, PTL

(* Once the signal is aborted no request is sent and no event yielded, and  *)
(* no call sends more than MaxRetries + 1 requests (requestSse, parseSse).  *)
THEOREM AbortIsQuiet == Spec => QuietAfterAbort
<1> DEFINE Quiet == /\ adapter' = "fetching" /\ adapter # "fetching" => ~Aborted /\ attempt' <= MaxRetries
                    /\ events' > events => ~Aborted
<1>1. IInv /\ [Next]_vars => [Quiet]_vars
  <2> SUFFICES ASSUME IInv, Next PROVE Quiet
    OBVIOUS
  <2>1. CASE Call
    <3>1. CallStep
      BY <2>1 DEF Call
    <3> QED
      BY <3>1, CallQuiet DEF IInv
  <2>2. CASE ~Call
    <3>1. UNCHANGED callVars \/ Pull \/ (UNCHANGED <<adapter, events>>)
      BY <2>2 DEF Next, Reject, Route, Prepare, Commit, PrepareFails, Written, BufferFull, Drained,
                  DrainAborted, EndResponse, ClientLeaves, Answered, vars
    <3>2. UNCHANGED events /\ (adapter' = "fetching" => adapter = "fetching")
      BY <3>1 DEF Pull, callVars
    <3> QED
      BY <3>2 DEF IInv, CallOK
  <2> QED
    BY <2>1, <2>2
<1> QED
  BY <1>1, Invariance, PTL DEF Spec, QuietAfterAbort

(*------------------------- a provider's stream ---------------------------*)
(***************************************************************************)
(* A View is what the consumer of a stream knows of it.  Each decoder is   *)
(* shown to keep up with one: the events it emits lead legally (Leads)     *)
(* from what the consumer knew to what the decoder then takes the stream   *)
(* to be (Tracks; AnthropicFits, where the provider numbers its blocks).   *)
(* The lemmas carry a flag, lawful: for an orderly upstream they also      *)
(* show that nothing throws and that no block is reopened, added to after  *)
(* its end or left open.  The encoders are then shown to accept any legal  *)
(* event, and the invariant of the whole stream, StreamInv, joins the two: *)
(* there is a view of what has been told, and the queue leads from it to   *)
(* one the decoder agrees with.                                            *)
(***************************************************************************)

(* The kinds of block a decoder opens, and how a turn ends.                *)
BlockKinds == {"text", "thinking", "summary", "tool_call"}

Reason == {"none", "end_turn", "tool_use", "max_tokens", "content_filter"}

(* Every event a decoder may emit.                                         *)
CanonicalEvent == {Started, Usage, Failed}
                  \cup {Opened(i, kind) : i \in Indices, kind \in BlockKinds}
                  \cup {Delta(i, part) : i \in Indices, part \in PartName}
                  \cup {Closed(i, kind) : i \in Indices, kind \in BlockKinds}
                  \cup {Completed(reason) : reason \in Reason}

(* What a consumer knows of a stream: its phase, the blocks open and       *)
(* closed, and the kind each index was last opened as.                     *)
View == [phase : {"idle", "streaming", "ended"}, open : SUBSET Indices,
         closed : SUBSET Indices, kinds : UNION {[I -> BlockKinds] : I \in SUBSET Indices}]

(* The event e may come next for a consumer who knows v: a block grows and *)
(* ends as what it was opened.  A lawful stream also opens no index twice, *)
(* adds only to open blocks and ends with none open.                       *)
Legal(v, e, lawful) ==
  \/ e = Started /\ v.phase = "idle"
  \/ \E i \in Indices, kind \in BlockKinds :
       e = Opened(i, kind) /\ v.phase = "streaming" /\ (lawful => i \notin v.open \cup v.closed)
  \/ \E i \in Indices, part \in PartName :
       /\ e = Delta(i, part) /\ v.phase = "streaming" /\ (lawful => i \in v.open)
       /\ i \in DOMAIN v.kinds /\ v.kinds[i] \in KindOf(part)
  \/ \E i \in Indices, kind \in BlockKinds :
       /\ e = Closed(i, kind) /\ v.phase = "streaming" /\ (lawful => i \in v.open)
       /\ i \in DOMAIN v.kinds /\ v.kinds[i] = kind
  \/ e = Usage /\ v.phase = "streaming"
  \/ \E reason \in Reason :
       e = Completed(reason) /\ v.phase = "streaming" /\ (lawful => v.open = {})
  \/ e = Failed /\ v.phase # "ended"

(* What the consumer knows once told e.                                    *)
After(v, e) ==
  CASE e.type = "response.started" -> [v EXCEPT !.phase = "streaming"]
    [] e.type = "opened" -> [v EXCEPT !.open = @ \cup {e.index},
                                      !.kinds = With(@, e.index, e.kind)]
    [] e.type = "completed" -> [v EXCEPT !.open = @ \ {e.index}, !.closed = @ \cup {e.index}]
    [] e.type \in {"response.completed", "response.failed"} -> [v EXCEPT !.phase = "ended"]
    [] OTHER -> v

(* The events es, legal one after another, take a consumer from v to w.    *)
Leads(v, es, w, lawful) ==
  /\ es \in Seq(CanonicalEvent)
  /\ \E V : /\ V[0] = v /\ V[Len(es)] = w
            /\ \A j \in 1..Len(es) :
                 Legal(V[j - 1], es[j], lawful) /\ V[j] = After(V[j - 1], es[j])

(* What is legal is an event, and leaves a view.                           *)
LEMMA LegalEvent ==
  ASSUME NEW v, NEW e, NEW lawful \in BOOLEAN, Legal(v, e, lawful)
  PROVE  e \in CanonicalEvent
BY DEF Legal, CanonicalEvent

LEMMA WithKinds ==
  ASSUME NEW kinds \in UNION {[I -> BlockKinds] : I \in SUBSET Indices},
         NEW i \in Indices, NEW kind \in BlockKinds
  PROVE  With(kinds, i, kind) \in UNION {[I -> BlockKinds] : I \in SUBSET Indices}
<1>1. PICK I \in SUBSET Indices : kinds \in [I -> BlockKinds]
  OBVIOUS
<1>2. With(kinds, i, kind) \in [I \cup {i} -> BlockKinds]
  BY <1>1 DEF With
<1>3. I \cup {i} \in SUBSET Indices
  OBVIOUS
<1>4. QED BY <1>2, <1>3

LEMMA AfterView ==
  ASSUME NEW v \in View, NEW e, NEW lawful \in BOOLEAN, Legal(v, e, lawful)
  PROVE  After(v, e) \in View
<1>1. CASE e = Started
  BY <1>1 DEF Started, View, After
<1>2. ASSUME NEW i \in Indices, NEW kind \in BlockKinds, e = Opened(i, kind)
      PROVE  After(v, e) \in View
  <2>1. With(v.kinds, i, kind) \in UNION {[I -> BlockKinds] : I \in SUBSET Indices}
    BY WithKinds DEF View
  <2>2. After(v, e) = [v EXCEPT !.open = @ \cup {i}, !.kinds = With(@, i, kind)]
    BY <1>2 DEF After, Opened
  <2>3. QED BY <2>1, <2>2 DEF View
<1>3. ASSUME NEW i, NEW part, e = Delta(i, part)
      PROVE  After(v, e) \in View
  BY <1>3 DEF Delta, View, After
<1>4. ASSUME NEW i \in Indices, NEW kind, e = Closed(i, kind)
      PROVE  After(v, e) \in View
  BY <1>4 DEF Closed, View, After
<1>5. CASE e = Usage
  BY <1>5 DEF Usage, View, After
<1>6. ASSUME NEW reason, e = Completed(reason)
      PROVE  After(v, e) \in View
  BY <1>6 DEF Completed, View, After
<1>7. CASE e = Failed
  BY <1>7 DEF Failed, View, After
<1>8. QED BY <1>1, <1>2, <1>3, <1>4, <1>5, <1>6, <1>7 DEF Legal

(* Sequences of legal events compose: none, one, one sequence after        *)
(* another, the first event and the others.                                *)
LEMMA LeadsNowhere ==
  ASSUME NEW v, NEW lawful \in BOOLEAN
  PROVE  Leads(v, <<>>, v, lawful)
<1> DEFINE V == [j \in {0} |-> v]
<1>1. <<>> \in Seq(CanonicalEvent) /\ Len(<<>>) = 0
  OBVIOUS
<1>2. V[0] = v /\ \A j \in 1..0 : FALSE
  OBVIOUS
<1> HIDE DEF V
<1>3. QED BY <1>1, <1>2 DEF Leads

LEMMA LeadsOnce ==
  ASSUME NEW v, NEW e, NEW lawful \in BOOLEAN, Legal(v, e, lawful)
  PROVE  Leads(v, <<e>>, After(v, e), lawful)
<1> DEFINE V == [j \in {0, 1} |-> IF j = 0 THEN v ELSE After(v, e)]
<1>1. <<e>> \in Seq(CanonicalEvent) /\ Len(<<e>>) = 1 /\ <<e>>[1] = e
  BY LegalEvent
<1>2. V[0] = v /\ V[1] = After(v, e)
  OBVIOUS
<1> HIDE DEF V
<1>3. \A j \in 1..1 : Legal(V[j - 1], <<e>>[j], lawful) /\ V[j] = After(V[j - 1], <<e>>[j])
  BY <1>1, <1>2
<1>4. QED BY <1>1, <1>2, <1>3 DEF Leads

LEMMA LeadsOn ==
  ASSUME NEW u, NEW v, NEW w, NEW a, NEW b, NEW lawful \in BOOLEAN,
         Leads(u, a, v, lawful), Leads(v, b, w, lawful)
  PROVE  Leads(u, a \o b, w, lawful)
<1>1. a \in Seq(CanonicalEvent) /\ b \in Seq(CanonicalEvent)
  BY DEF Leads
<1>2. PICK A : /\ A[0] = u /\ A[Len(a)] = v
               /\ \A j \in 1..Len(a) :
                    Legal(A[j - 1], a[j], lawful) /\ A[j] = After(A[j - 1], a[j])
  BY DEF Leads
<1>3. PICK B : /\ B[0] = v /\ B[Len(b)] = w
               /\ \A j \in 1..Len(b) :
                    Legal(B[j - 1], b[j], lawful) /\ B[j] = After(B[j - 1], b[j])
  BY DEF Leads
<1> DEFINE n == Len(a)
           m == Len(b)
           V == [j \in 0..(n + m) |-> IF j <= n THEN A[j] ELSE B[j - n]]
<1>4. n \in Nat /\ m \in Nat /\ a \o b \in Seq(CanonicalEvent) /\ Len(a \o b) = n + m
  BY <1>1
<1>5. V[0] = u /\ V[n + m] = w
  BY <1>2, <1>3, <1>4
<1>6. \A j \in 0..n : V[j] = A[j]
  BY <1>4
<1>7. \A j \in 0..m : V[n + j] = B[j]
  BY <1>2, <1>3, <1>4
<1> HIDE DEF V
<1>8. ASSUME NEW j \in 1..(n + m)
      PROVE  Legal(V[j - 1], (a \o b)[j], lawful) /\ V[j] = After(V[j - 1], (a \o b)[j])
  <2>1. CASE j <= n
    <3>1. j \in 1..n /\ j - 1 \in 0..n /\ j \in 0..n
      BY <1>4, <2>1
    <3>2. (a \o b)[j] = a[j]
      BY <1>1, <1>4, <3>1
    <3>3. QED BY <1>2, <1>6, <3>1, <3>2
  <2>2. CASE ~(j <= n)
    <3> DEFINE k == j - n
    <3>1. k \in 1..m /\ k - 1 \in 0..m /\ k \in 0..m /\ n + k = j /\ n + (k - 1) = j - 1
      BY <1>4, <2>2
    <3>2. (a \o b)[j] = b[k]
      BY <1>1, <1>4, <2>2, <3>1
    <3>3. V[j] = B[k] /\ V[j - 1] = B[k - 1]
      BY <1>7, <3>1
    <3> HIDE DEF k
    <3>4. QED BY <1>3, <3>1, <3>2, <3>3
  <2>3. QED BY <2>1, <2>2
<1>9. QED BY <1>4, <1>5, <1>8 DEF Leads

LEMMA LeadsFirst ==
  ASSUME NEW v, NEW w, NEW es, NEW lawful \in BOOLEAN, Leads(v, es, w, lawful), es # <<>>
  PROVE  Legal(v, Head(es), lawful) /\ Leads(After(v, Head(es)), Tail(es), w, lawful)
<1>1. es \in Seq(CanonicalEvent)
  BY DEF Leads
<1>2. PICK V : /\ V[0] = v /\ V[Len(es)] = w
               /\ \A j \in 1..Len(es) :
                    Legal(V[j - 1], es[j], lawful) /\ V[j] = After(V[j - 1], es[j])
  BY DEF Leads
<1> DEFINE m == Len(es) - 1
           U == [j \in 0..m |-> V[j + 1]]
<1>3. m \in Nat /\ Len(Tail(es)) = m /\ Tail(es) \in Seq(CanonicalEvent) /\ Head(es) = es[1]
  BY <1>1
<1>4. Legal(V[0], es[1], lawful) /\ V[1] = After(V[0], es[1])
  <2>1. 1 \in 1..Len(es) /\ 1 - 1 = 0
    BY <1>1, <1>3
  <2>2. QED BY <1>2, <2>1
<1>5. \A j \in 0..m : U[j] = V[j + 1]
  OBVIOUS
<1> HIDE DEF U
<1>6. ASSUME NEW j \in 1..m
      PROVE  Legal(U[j - 1], Tail(es)[j], lawful) /\ U[j] = After(U[j - 1], Tail(es)[j])
  <2>1. j + 1 \in 1..Len(es) /\ (j + 1) - 1 = j /\ j \in 0..m /\ j - 1 \in 0..m /\ (j - 1) + 1 = j
    BY <1>1, <1>3
  <2>2. Tail(es)[j] = es[j + 1]
    BY <1>1, <1>3, <2>1
  <2>3. U[j] = V[j + 1] /\ U[j - 1] = V[j]
    BY <1>5, <2>1
  <2>4. QED BY <1>2, <2>1, <2>2, <2>3
<1>7. U[0] = After(v, Head(es)) /\ U[m] = w
  <2>1. 0 \in 0..m /\ m \in 0..m /\ m + 1 = Len(es)
    BY <1>1, <1>3
  <2>2. QED BY <1>2, <1>3, <1>4, <1>5, <2>1
<1>8. QED BY <1>2, <1>3, <1>4, <1>6, <1>7 DEF Leads

LEMMA LeadsEnd ==
  ASSUME NEW v, NEW w, NEW lawful \in BOOLEAN, Leads(v, <<>>, w, lawful)
  PROVE  v = w
BY DEF Leads

(* What a lawful stream may do any stream may.                             *)
LEMMA Unlawful ==
  ASSUME NEW v, NEW e, Legal(v, e, TRUE)
  PROVE  Legal(v, e, FALSE)
BY DEF Legal

(* The part of a block its name in the decoder stands for.                 *)
PartOf(b) == IF b[1] = "tool_call" THEN "arguments" ELSE b[1]

(* The fields of a decoder, of which most lemmas look at five.             *)
DecoderOK(s) ==
  s \in [started : BOOLEAN, terminal : BOOLEAN, next : Nat, blocks : {s.blocks},
         calls : {s.calls}, refused : {s.refused}, called : {s.called}, finish : Reason]

(* The blocks a decoder has numbered: below next, no number twice, each of *)
(* a kind its name admits; none before the stream has started.             *)
Entries(s) ==
  /\ \A b \in DOMAIN s.blocks :
       /\ s.blocks[b] \in [index : 0..(s.next - 1), kind : BlockKinds, done : BOOLEAN]
       /\ s.blocks[b].kind \in KindOf(PartOf(b))
  /\ \A b, c \in DOMAIN s.blocks : s.blocks[b].index = s.blocks[c].index => b = c
  /\ s.started \/ s.next = 0

(* The blocks a decoder has not closed.                                    *)
Undone(s) == {b \in DOMAIN s.blocks : ~s.blocks[b].done}

(* The decoder s knows what the consumer knows: what it has opened, as     *)
(* what, and what it has not closed.                                       *)
Tracks(v, s) ==
  /\ v \in View
  /\ v.phase = IF s.started THEN "streaming" ELSE "idle"
  /\ DOMAIN v.kinds \cup v.open \cup v.closed \subseteq 0..(s.next - 1)
  /\ \A b \in DOMAIN s.blocks :
       /\ s.blocks[b].index \in DOMAIN v.kinds
       /\ v.kinds[s.blocks[b].index] = s.blocks[b].kind
  /\ v.open = {s.blocks[b].index : b \in Undone(s)}

(* The events es take the consumer from v to one the decoder s tracks.     *)
Leaves(v, es, s, lawful) ==
  DecoderOK(s) /\ Entries(s) /\ \E w : Leads(v, es, w, lawful) /\ Tracks(w, s)

(* There is an index for n more blocks.                                    *)
Room(s, n) == 0..(s.next + n - 1) \subseteq Indices

(* The events a started stream may take at an index it has.                *)
LEMMA LegalSteps ==
  ASSUME NEW v \in View, v.phase = "streaming", NEW lawful \in BOOLEAN, NEW i \in Indices
  PROVE  /\ \A kind \in BlockKinds :
              (lawful => i \notin v.open \cup v.closed) => Legal(v, Opened(i, kind), lawful)
         /\ \A part \in PartName :
              (/\ lawful => i \in v.open
               /\ i \in DOMAIN v.kinds /\ v.kinds[i] \in KindOf(part))
                => Legal(v, Delta(i, part), lawful) /\ After(v, Delta(i, part)) = v
         /\ \A kind \in BlockKinds :
              (/\ lawful => i \in v.open
               /\ i \in DOMAIN v.kinds /\ v.kinds[i] = kind)
                => Legal(v, Closed(i, kind), lawful)
         /\ Legal(v, Usage, lawful) /\ After(v, Usage) = v
BY DEF Legal, After, Opened, Delta, Closed, Usage

(* Facts about sequences, stated once for the provers.                     *)
LEMMA EmptyJoins ==
  ASSUME NEW es \in Seq(CanonicalEvent)
  PROVE  <<>> \o es = es /\ es \o <<>> = es
OBVIOUS

(* Opening a block, touching one that may be there, adding to one and      *)
(* closing one keep the decoder and the consumer together.                 *)
LEMMA Opening ==
  ASSUME NEW v, NEW s, NEW b, NEW kind \in BlockKinds, NEW lawful \in BOOLEAN,
         DecoderOK(s), Entries(s), Tracks(v, s), s.started, Room(s, 1),
         b \notin DOMAIN s.blocks, kind \in KindOf(PartOf(b))
  PROVE  LET t == Add(s, b, kind)
             w == After(v, Opened(s.next, kind))
         IN  /\ Leads(v, <<Opened(s.next, kind)>>, w, lawful)
             /\ DecoderOK(t) /\ Entries(t) /\ Tracks(w, t)
             /\ b \in DOMAIN t.blocks /\ w.closed = v.closed
<1> DEFINE t == Add(s, b, kind)
           w == After(v, Opened(s.next, kind))
           e == Opened(s.next, kind)
<1>1. v \in View /\ v.phase = "streaming" /\ s.next \in Nat /\ s.next \in Indices
  BY DEF Tracks, DecoderOK, Room
<1>2. s.next \notin v.open \cup v.closed /\ s.next \notin DOMAIN v.kinds
  BY <1>1 DEF Tracks
<1>3. Legal(v, e, lawful)
  BY <1>1, <1>2, LegalSteps
<1>4. Leads(v, <<e>>, w, lawful) /\ w \in View
  <2> HIDE DEF e
  <2>1. QED BY <1>1, <1>3, LeadsOnce, AfterView DEF e
<1>5. /\ t.blocks = With(s.blocks, b, Block(s.next, kind)) /\ t.next = s.next + 1
      /\ t.started = s.started /\ t.terminal = s.terminal /\ t.finish = s.finish
      /\ t.calls = s.calls /\ DecoderOK(t)
  <2> DEFINE blocks == With(s.blocks, b, Block(s.next, kind))
  <2>1. t = [s EXCEPT !.blocks = blocks, !.next = s.next + 1]
    BY DEF Add, DecoderOK
  <2> HIDE DEF t, blocks
  <2>2. /\ t.blocks = blocks /\ t.next = s.next + 1
        /\ t.started = s.started /\ t.terminal = s.terminal /\ t.finish = s.finish
        /\ t.calls = s.calls
    BY <2>1 DEF DecoderOK
  <2>3. s.next + 1 \in Nat
    BY <1>1
  <2>5. DecoderOK(t)
    BY <2>1, <2>3 DEF DecoderOK
  <2>4. QED BY <2>2, <2>5 DEF blocks
<1>6. /\ w.phase = v.phase /\ w.open = v.open \cup {s.next} /\ w.closed = v.closed
      /\ w.kinds = With(v.kinds, s.next, kind)
  BY <1>1 DEF After, Opened, View
<1> HIDE DEF t, w, e
<1>7. /\ DOMAIN t.blocks = DOMAIN s.blocks \cup {b}
      /\ t.blocks[b] = [index |-> s.next, kind |-> kind, done |-> FALSE]
      /\ \A c \in DOMAIN s.blocks : t.blocks[c] = s.blocks[c]
  BY <1>5 DEF With, Block
<1>8. /\ DOMAIN w.kinds = DOMAIN v.kinds \cup {s.next}
      /\ w.kinds[s.next] = kind
      /\ \A i \in DOMAIN v.kinds : w.kinds[i] = v.kinds[i]
  BY <1>2, <1>6 DEF With
<1>9. Entries(t)
  <2>1. ASSUME NEW c \in DOMAIN t.blocks
        PROVE  /\ t.blocks[c] \in [index : 0..(t.next - 1), kind : BlockKinds, done : BOOLEAN]
               /\ t.blocks[c].kind \in KindOf(PartOf(c))
    <3>1. s.next \in 0..(t.next - 1) /\ 0..(s.next - 1) \subseteq 0..(t.next - 1)
      BY <1>1, <1>5
    <3>2. CASE c = b
      <4>1. [index |-> s.next, kind |-> kind, done |-> FALSE]
              \in [index : 0..(t.next - 1), kind : BlockKinds, done : BOOLEAN]
        BY <3>1
      <4>2. t.blocks[c].kind = kind
        BY <1>7, <3>2
      <4>3. QED BY <1>7, <3>2, <4>1, <4>2
    <3>3. CASE c # b
      <4>1. c \in DOMAIN s.blocks /\ t.blocks[c] = s.blocks[c]
        BY <1>7, <3>3
      <4>2. QED BY <3>1, <4>1 DEF Entries
    <3>4. QED BY <3>2, <3>3
  <2>2. ASSUME NEW c \in DOMAIN t.blocks, NEW d \in DOMAIN t.blocks,
               t.blocks[c].index = t.blocks[d].index
        PROVE  c = d
    <3>1. \A x \in DOMAIN s.blocks : s.blocks[x].index # s.next
      BY <1>1 DEF Entries
    <3>2. QED BY <1>7, <2>2, <3>1 DEF Entries
  <2>3. QED BY <1>5, <2>1, <2>2 DEF Entries
<1>10. w.open = {t.blocks[c].index : c \in Undone(t)}
  <2>1. Undone(t) = Undone(s) \cup {b} /\ b \notin Undone(s)
    BY <1>7 DEF Undone
  <2>2. \A c \in Undone(s) : t.blocks[c].index = s.blocks[c].index
    BY <1>7 DEF Undone
  <2>3. QED BY <1>6, <1>7, <2>1, <2>2 DEF Tracks
<1>11. Tracks(w, t)
  <2>1. s.next \in 0..(t.next - 1) /\ 0..(s.next - 1) \subseteq 0..(t.next - 1)
    BY <1>1, <1>5
  <2>2. DOMAIN w.kinds \cup w.open \cup w.closed \subseteq 0..(t.next - 1)
    BY <1>6, <1>8, <2>1 DEF Tracks
  <2>3. \A c \in DOMAIN t.blocks :
          t.blocks[c].index \in DOMAIN w.kinds /\ w.kinds[t.blocks[c].index] = t.blocks[c].kind
    BY <1>7, <1>8 DEF Tracks
  <2>4. w.phase = IF t.started THEN "streaming" ELSE "idle"
    BY <1>5, <1>6 DEF Tracks
  <2>5. QED BY <1>4, <1>10, <2>2, <2>3, <2>4 DEF Tracks
<1>12. QED BY <1>4, <1>5, <1>6, <1>7, <1>9, <1>11 DEF t, w, e

LEMMA Touching ==
  ASSUME NEW v, NEW s, NEW b, NEW kind \in BlockKinds, NEW lawful \in BOOLEAN,
         DecoderOK(s), Entries(s), Tracks(v, s), s.started, Room(s, 1),
         kind \in KindOf(PartOf(b))
  PROVE  LET r == Touch(s, b, kind)
         IN  /\ ~r.thrown /\ Leaves(v, r.events, r.state, lawful)
             /\ DOMAIN r.state.blocks = DOMAIN s.blocks \cup {b}
             /\ \A c \in DOMAIN s.blocks : r.state.blocks[c] = s.blocks[c]
             /\ b \notin DOMAIN s.blocks => r.state.blocks[b] = Block(s.next, kind)
             /\ r.state.started /\ r.state.terminal = s.terminal /\ r.state.calls = s.calls
             /\ r.state.finish = s.finish /\ r.state.called = s.called
             /\ r.state.next \in {s.next, s.next + 1}
<1>1. CASE b \in DOMAIN s.blocks
  <2>1. Touch(s, b, kind) = [state |-> s, events |-> <<>>, thrown |-> FALSE]
    BY <1>1 DEF Touch, Has, Ignore, Yield
  <2>2. /\ ~Touch(s, b, kind).thrown
        /\ Leaves(v, Touch(s, b, kind).events, Touch(s, b, kind).state, lawful)
    BY <2>1, LeadsNowhere DEF Leaves
  <2>3. QED BY <1>1, <2>1, <2>2
<1>2. CASE b \notin DOMAIN s.blocks
  <2> DEFINE t == Add(s, b, kind)
  <2>1. Touch(s, b, kind) = [state |-> t, events |-> <<Opened(s.next, kind)>>, thrown |-> FALSE]
    BY <1>2 DEF Touch, Has, Yield
  <2>2. /\ ~Touch(s, b, kind).thrown
        /\ Leaves(v, Touch(s, b, kind).events, Touch(s, b, kind).state, lawful)
    <3> HIDE DEF t
    <3>1. Leaves(v, <<Opened(s.next, kind)>>, t, lawful)
      BY <1>2, Opening DEF t, Leaves
    <3>2. QED BY <2>1, <3>1
  <2>3. /\ t.blocks = With(s.blocks, b, Block(s.next, kind)) /\ t.next = s.next + 1
        /\ t.started = s.started /\ t.terminal = s.terminal /\ t.finish = s.finish
        /\ t.calls = s.calls /\ t.called = s.called
    BY DEF Add, DecoderOK
  <2> HIDE DEF t
  <2>4. /\ DOMAIN t.blocks = DOMAIN s.blocks \cup {b}
        /\ t.blocks[b] = Block(s.next, kind)
        /\ \A c \in DOMAIN s.blocks : t.blocks[c] = s.blocks[c]
    BY <1>2, <2>3 DEF With
  <2> DEFINE r == Touch(s, b, kind)
  <2>8. r.state = t /\ t.started
    BY <2>1, <2>3
  <2> HIDE DEF r
  <2>5. /\ r.state.started /\ r.state.terminal = s.terminal /\ r.state.calls = s.calls
        /\ r.state.finish = s.finish /\ r.state.called = s.called
        /\ r.state.next = s.next + 1
    BY <2>3, <2>8
  <2>6. /\ DOMAIN r.state.blocks = DOMAIN s.blocks \cup {b}
        /\ \A c \in DOMAIN s.blocks : r.state.blocks[c] = s.blocks[c]
        /\ r.state.blocks[b] = Block(s.next, kind)
    BY <2>4, <2>8
  <2>7. QED BY <2>2, <2>5, <2>6 DEF r
<1>3. QED BY <1>1, <1>2

LEMMA Growing ==
  ASSUME NEW v, NEW s, NEW b \in DOMAIN s.blocks, NEW part \in PartName, NEW lawful \in BOOLEAN,
         DecoderOK(s), Entries(s), Tracks(v, s), s.started, Room(s, 0),
         KindOf(PartOf(b)) \subseteq KindOf(part), lawful => b \in Undone(s)
  PROVE  Leads(v, <<Delta(s.blocks[b].index, part)>>, v, lawful)
<1> DEFINE i == s.blocks[b].index
<1>1. v \in View /\ v.phase = "streaming" /\ s.next \in Nat
  BY DEF Tracks, DecoderOK
<1>2. i \in 0..(s.next - 1) /\ i \in Indices
  BY <1>1 DEF Entries, Room
<1>3. i \in DOMAIN v.kinds /\ v.kinds[i] \in KindOf(part)
  BY DEF Tracks, Entries
<1>4. lawful => i \in v.open
  BY DEF Tracks
<1> HIDE DEF i
<1>5. Legal(v, Delta(i, part), lawful) /\ After(v, Delta(i, part)) = v
  BY <1>1, <1>2, <1>3, <1>4, LegalSteps
<1>6. QED BY <1>5, LeadsOnce DEF i

LEMMA Closing ==
  ASSUME NEW v, NEW s, NEW b \in DOMAIN s.blocks, NEW lawful \in BOOLEAN,
         DecoderOK(s), Entries(s), Tracks(v, s), s.started, Room(s, 0)
  PROVE  LET r == CompleteOnce(s, b)
         IN  /\ ~r.thrown /\ Leaves(v, r.events, r.state, lawful)
             /\ DOMAIN r.state.blocks = DOMAIN s.blocks
             /\ Undone(r.state) = Undone(s) \ {b}
             /\ r.state.started = s.started /\ r.state.terminal = s.terminal
             /\ r.state.next = s.next
<1>1. CASE s.blocks[b].done
  <2>1. CompleteOnce(s, b) = [state |-> s, events |-> <<>>, thrown |-> FALSE]
    BY <1>1 DEF CompleteOnce, Ignore, Yield
  <2>2. /\ ~CompleteOnce(s, b).thrown
        /\ Leaves(v, CompleteOnce(s, b).events, CompleteOnce(s, b).state, lawful)
    BY <2>1, LeadsNowhere DEF Leaves
  <2>3. Undone(s) = Undone(s) \ {b}
    BY <1>1 DEF Undone
  <2>4. CompleteOnce(s, b).state = s
    BY <2>1
  <2>5. QED BY <2>2, <2>3, <2>4
<1>2. CASE ~s.blocks[b].done
  <2> DEFINE i == s.blocks[b].index
             kind == s.blocks[b].kind
             t == [s EXCEPT !.blocks[b].done = TRUE]
             w == After(v, Closed(i, kind))
  <2>1. CompleteOnce(s, b) = [state |-> t, events |-> <<Closed(i, kind)>>, thrown |-> FALSE]
    BY <1>2 DEF CompleteOnce, Completion, Yield
  <2>2. v \in View /\ v.phase = "streaming" /\ s.next \in Nat
    BY DEF Tracks, DecoderOK
  <2>3. i \in 0..(s.next - 1) /\ i \in Indices
    BY <2>2 DEF Entries, Room
  <2>4. /\ i \in v.open /\ kind \in BlockKinds
        /\ i \in DOMAIN v.kinds /\ v.kinds[i] = kind
    <3>1. i \in v.open
      BY <1>2 DEF Tracks, Undone
    <3>2. QED BY <3>1 DEF Tracks, Entries
  <2>5. Leads(v, <<Closed(i, kind)>>, w, lawful) /\ w \in View
    <3> HIDE DEF i, kind, w
    <3>1. Legal(v, Closed(i, kind), lawful)
      BY <2>2, <2>3, <2>4, LegalSteps
    <3>2. QED BY <2>2, <3>1, LeadsOnce, AfterView DEF w
  <2>6. /\ t.blocks = [s.blocks EXCEPT ![b] = [s.blocks[b] EXCEPT !.done = TRUE]]
        /\ t.next = s.next /\ t.started = s.started /\ t.terminal = s.terminal
        /\ DecoderOK(t)
    BY DEF DecoderOK
  <2>7. /\ w.phase = v.phase /\ w.open = v.open \ {i} /\ w.closed = v.closed \cup {i}
        /\ w.kinds = v.kinds
    BY <2>2 DEF After, Closed, View
  <2> HIDE DEF t, w
  <2>8. /\ DOMAIN t.blocks = DOMAIN s.blocks
        /\ t.blocks[b] = [s.blocks[b] EXCEPT !.done = TRUE]
        /\ \A c \in DOMAIN s.blocks \ {b} : t.blocks[c] = s.blocks[c]
    BY <2>6
  <2>9. /\ s.blocks[b] \in [index : 0..(s.next - 1), kind : BlockKinds, done : BOOLEAN]
        /\ t.blocks[b].index = i /\ t.blocks[b].kind = s.blocks[b].kind /\ t.blocks[b].done
        /\ t.blocks[b] \in [index : 0..(s.next - 1), kind : BlockKinds, done : BOOLEAN]
    <3> DEFINE old == s.blocks[b]
               now == t.blocks[b]
    <3>1. old \in [index : 0..(s.next - 1), kind : BlockKinds, done : BOOLEAN]
      BY DEF Entries
    <3>2. now = [old EXCEPT !.done = TRUE]
      BY <2>8
    <3> HIDE DEF old, now
    <3>3. /\ now.index = old.index /\ now.kind = old.kind /\ now.done
          /\ now \in [index : 0..(s.next - 1), kind : BlockKinds, done : BOOLEAN]
      BY <3>1, <3>2
    <3>4. QED BY <3>1, <3>3 DEF old, now
  <2>10. Entries(t)
    <3>1. \A c \in DOMAIN t.blocks :
            t.blocks[c].index = s.blocks[c].index /\ t.blocks[c].kind = s.blocks[c].kind
      BY <2>8, <2>9
    <3>2. \A c \in DOMAIN t.blocks :
            t.blocks[c] \in [index : 0..(s.next - 1), kind : BlockKinds, done : BOOLEAN]
      BY <2>8, <2>9 DEF Entries
    <3>3. \A c \in DOMAIN t.blocks : t.blocks[c].kind \in KindOf(PartOf(c))
      BY <2>8, <3>1 DEF Entries
    <3>4. \A c, d \in DOMAIN t.blocks : t.blocks[c].index = t.blocks[d].index => c = d
      BY <2>8, <3>1 DEF Entries
    <3>5. QED BY <2>6, <3>2, <3>3, <3>4 DEF Entries
  <2>11. Undone(t) = Undone(s) \ {b}
    BY <2>8, <2>9 DEF Undone
  <2>12. w.open = {t.blocks[c].index : c \in Undone(t)}
    BY <2>7, <2>8, <2>11 DEF Tracks, Undone, Entries
  <2>13. Tracks(w, t)
    <3>1. DOMAIN w.kinds \cup w.open \cup w.closed \subseteq 0..(t.next - 1)
      BY <2>3, <2>6, <2>7 DEF Tracks
    <3>2. \A c \in DOMAIN t.blocks :
            t.blocks[c].index \in DOMAIN w.kinds /\ w.kinds[t.blocks[c].index] = t.blocks[c].kind
      BY <2>7, <2>8, <2>9 DEF Tracks
    <3>3. QED BY <2>2, <2>5, <2>6, <2>7, <2>12, <3>1, <3>2 DEF Tracks
  <2>14. /\ ~CompleteOnce(s, b).thrown
        /\ Leaves(v, CompleteOnce(s, b).events, CompleteOnce(s, b).state, lawful)
    BY <2>1, <2>5, <2>6, <2>10, <2>13 DEF Leaves
  <2>15. CompleteOnce(s, b).state = t
    BY <2>1
  <2>16. QED BY <2>6, <2>8, <2>11, <2>14, <2>15
<1>3. QED BY <1>1, <1>2

(* What leads to a decoder and what leads on from it, joined.              *)
LEMMA Onwards ==
  ASSUME NEW u, NEW a, NEW b, NEW s, NEW t, NEW lawful \in BOOLEAN,
         Leaves(u, a, s, lawful), \A v : Tracks(v, s) => Leaves(v, b, t, lawful)
  PROVE  Leaves(u, a \o b, t, lawful)
<1>1. PICK v : Leads(u, a, v, lawful) /\ Tracks(v, s)
  BY DEF Leaves
<1>2. PICK w : Leads(v, b, w, lawful) /\ Tracks(w, t)
  BY <1>1 DEF Leaves
<1>3. DecoderOK(t) /\ Entries(t)
  BY <1>1 DEF Leaves
<1>4. QED BY <1>1, <1>2, <1>3, LeadsOn DEF Leaves

LEMMA Joined ==
  ASSUME NEW a \in CanonicalEvent, NEW b \in CanonicalEvent
  PROVE  <<a>> \o <<b>> = <<a, b>>
<1>1. /\ <<a>> \in Seq(CanonicalEvent) /\ <<b>> \in Seq(CanonicalEvent)
      /\ <<a, b>> \in Seq(CanonicalEvent)
  OBVIOUS
<1>2. Len(<<a>> \o <<b>>) = 2 /\ Len(<<a, b>>) = 2 /\ <<a>> \o <<b>> \in Seq(CanonicalEvent)
  BY <1>1
<1>3. (<<a>> \o <<b>>)[1] = a /\ (<<a>> \o <<b>>)[2] = b
  BY <1>1
<1>4. \A i \in 1..2 : (<<a>> \o <<b>>)[i] = <<a, b>>[i]
  BY <1>3
<1>5. QED BY <1>1, <1>2, <1>4, SeqEqual

(* Nothing is emitted and nothing is out of step.                          *)
LEMMA Standing ==
  ASSUME NEW v, NEW s, NEW lawful \in BOOLEAN, DecoderOK(s), Entries(s), Tracks(v, s)
  PROVE  Leaves(v, <<>>, s, lawful)
BY LeadsNowhere DEF Leaves

(* A block that is touched and added to: the helper every delta goes       *)
(* through.                                                                *)
LEMMA Adding ==
  ASSUME NEW v, NEW s, NEW b, NEW kind \in BlockKinds, NEW part \in PartName,
         NEW lawful \in BOOLEAN, DecoderOK(s), Entries(s), Tracks(v, s), s.started, Room(s, 1),
         kind \in KindOf(PartOf(b)), KindOf(PartOf(b)) \subseteq KindOf(part),
         lawful => b \notin DOMAIN s.blocks \/ b \in Undone(s)
  PROVE  LET r == Touch(s, b, kind)
         IN  Leaves(v, r.events \o <<Delta(r.state.blocks[b].index, part)>>, r.state, lawful)
<1> DEFINE r == Touch(s, b, kind)
           t == r.state
           delta == <<Delta(t.blocks[b].index, part)>>
<1>1. /\ Leaves(v, r.events, t, lawful)
      /\ DOMAIN t.blocks = DOMAIN s.blocks \cup {b}
      /\ \A c \in DOMAIN s.blocks : t.blocks[c] = s.blocks[c]
      /\ b \notin DOMAIN s.blocks => t.blocks[b] = Block(s.next, kind)
      /\ t.started /\ t.next \in {s.next, s.next + 1}
  BY Touching
<1> HIDE DEF r
<1>2. DecoderOK(t) /\ Entries(t) /\ b \in DOMAIN t.blocks
  BY <1>1 DEF Leaves
<1>3. Room(t, 0)
  BY <1>1 DEF Room, DecoderOK
<1>4. lawful => b \in Undone(t)
  BY <1>1 DEF Undone, Block
<1> HIDE DEF t
<1>5. ASSUME NEW w, Tracks(w, t)
      PROVE  Leaves(w, delta, t, lawful)
  BY <1>1, <1>2, <1>3, <1>4, <1>5, Growing DEF Leaves
<1> HIDE DEF delta
<1>6. Leaves(v, r.events \o delta, t, lawful)
  BY <1>1, <1>5, Onwards
<1>7. QED BY <1>6 DEF r, t, delta

(* What the provider thinks is open is what the adapter thinks is open.    *)
UpOpenAI(s, u) ==
  u.begun = s.started /\ u.open = Undone(s) /\ u.closed = DOMAIN s.blocks \ Undone(s)

(* The decoder and a consumer who has been told all of it agree.           *)
Agrees(w, s) ==
  /\ DecoderOK(s) /\ w \in View
  /\ IF s.terminal THEN w.phase = "ended" ELSE Entries(s) /\ Tracks(w, s)

(* The result r of a message: an exception, which no lawful upstream       *)
(* causes and which emits nothing, or events that lead to agreement.       *)
Decoded(v, r, lawful) ==
  /\ r.thrown => ~lawful /\ r.events = <<>>
  /\ ~r.thrown => \E w : Leads(v, r.events, w, lawful) /\ Agrees(w, r.state)

(* The ways a message can end: broken off, ignored, decoded, failed, the   *)
(* first of a stream, the last of one.                                     *)
LEMMA Breaking ==
  ASSUME NEW v, NEW s, NEW lawful \in BOOLEAN, ~lawful
  PROVE  Decoded(v, Breaks(s), lawful)
BY DEF Decoded, Breaks

LEMMA Silent ==
  ASSUME NEW v, NEW s, NEW lawful \in BOOLEAN, Agrees(v, s)
  PROVE  Decoded(v, Ignore(s), lawful)
BY LeadsNowhere DEF Decoded, Ignore, Yield

LEMMA Decoding ==
  ASSUME NEW v, NEW r, NEW lawful \in BOOLEAN,
         ~r.thrown, Leaves(v, r.events, r.state, lawful), ~r.state.terminal
  PROVE  Decoded(v, r, lawful)
BY DEF Decoded, Leaves, Agrees, Tracks

LEMMA Failing ==
  ASSUME NEW v, NEW s, NEW lawful \in BOOLEAN,
         DecoderOK(s), v \in View, v.phase # "ended"
  PROVE  Decoded(v, Yield([s EXCEPT !.terminal = TRUE], <<Failed>>), lawful)
<1> DEFINE t == [s EXCEPT !.terminal = TRUE]
           w == After(v, Failed)
<1>1. DecoderOK(t) /\ t.terminal
  BY DEF DecoderOK
<1>2. Legal(v, Failed, lawful)
  BY DEF Legal
<1>3. w.phase = "ended"
  BY DEF After, Failed, View
<1>4. Leads(v, <<Failed>>, w, lawful) /\ w \in View
  BY <1>2, LeadsOnce, AfterView
<1> HIDE DEF t, w
<1>5. QED BY <1>1, <1>3, <1>4 DEF Decoded, Agrees, Yield, t

LEMMA Starting ==
  ASSUME NEW v, NEW s, NEW lawful \in BOOLEAN, NEW t,
         DecoderOK(s), Entries(s), Tracks(v, s), ~s.started, DecoderOK(t),
         t.started, t.next = s.next, t.blocks = s.blocks
  PROVE  Leaves(v, <<Started>>, t, lawful)
<1> DEFINE w == After(v, Started)
<1>1. v \in View /\ v.phase = "idle"
  BY DEF Tracks
<1>2. Legal(v, Started, lawful)
  BY <1>1 DEF Legal
<1>3. w.phase = "streaming" /\ w.open = v.open /\ w.closed = v.closed /\ w.kinds = v.kinds
  BY <1>1 DEF After, Started, View
<1>4. Leads(v, <<Started>>, w, lawful) /\ w \in View
  BY <1>1, <1>2, LeadsOnce, AfterView
<1> HIDE DEF w
<1>5. Entries(t)
  BY DEF Entries
<1>6. Tracks(w, t)
  BY <1>3, <1>4 DEF Tracks, Undone
<1>7. QED BY <1>4, <1>5, <1>6 DEF Leaves

LEMMA Ending ==
  ASSUME NEW v, NEW s, NEW reason \in Reason, NEW lawful \in BOOLEAN,
         v \in View, v.phase = "streaming", lawful => v.open = {}, DecoderOK(s), s.terminal
  PROVE  \E w : Leads(v, <<Usage, Completed(reason)>>, w, lawful) /\ Agrees(w, s)
<1> DEFINE w == After(v, Completed(reason))
<1>1. /\ Leads(v, <<Usage>>, After(v, Usage), lawful) /\ After(v, Usage) = v
  <2>1. Legal(v, Usage, lawful) /\ After(v, Usage) = v
    BY DEF Legal, After, Usage
  <2>2. QED BY <2>1, LeadsOnce
<1>2. Legal(v, Completed(reason), lawful)
  BY DEF Legal
<1>3. Leads(v, <<Completed(reason)>>, w, lawful) /\ w \in View
  BY <1>2, LeadsOnce, AfterView
<1>4. w.phase = "ended"
  BY DEF After, Completed, View
<1>5. <<Usage>> \o <<Completed(reason)>> = <<Usage, Completed(reason)>>
  <2>1. Usage \in CanonicalEvent /\ Completed(reason) \in CanonicalEvent
    BY DEF CanonicalEvent
  <2>2. QED BY <2>1, Joined
<1> HIDE DEF w
<1>6. Leads(v, <<Usage, Completed(reason)>>, w, lawful)
  <2>1. Leads(v, <<Usage>> \o <<Completed(reason)>>, w, lawful)
    BY <1>1, <1>3, LeadsOn
  <2>2. QED BY <1>5, <2>1
<1>7. QED BY <1>3, <1>4, <1>6 DEF Agrees

(*-------------------------------- OpenAI ---------------------------------*)

LEMMA TouchThen ==
  ASSUME NEW s, NEW b, NEW kind, NEW es
  PROVE  LET r == Touch(s, b, kind)
         IN  /\ Then(r, es).state = r.state /\ Then(r, es).events = r.events \o es
             /\ ~Then(r, es).thrown
<1> DEFINE r == Touch(s, b, kind)
           joined == r.events \o es
<1>1. Then(r, es) = [r EXCEPT !.events = joined]
  BY DEF Then
<1>2. r \in [state : {r.state}, events : {r.events}, thrown : {FALSE}]
  BY DEF Touch, Ignore, Yield
<1> HIDE DEF r, joined
<1>3. Then(r, es).state = r.state /\ Then(r, es).events = joined /\ Then(r, es).thrown = FALSE
  BY <1>1, <1>2
<1>4. QED BY <1>3 DEF r, joined

(* What a text message leaves: one block more at most.                     *)
TextTaken(v, s, b, r, lawful) ==
  /\ Decoded(v, r, lawful) /\ ~r.thrown /\ ~r.state.terminal /\ r.state.started
  /\ r.state.next \in {s.next, s.next + 1}
  /\ DOMAIN r.state.blocks = DOMAIN s.blocks \cup {b}

(* The three handlers of text, and the three of a function call.           *)
LEMMA OpenAITexts ==
  ASSUME NEW v, NEW s, NEW m, NEW lawful \in BOOLEAN,
         DecoderOK(s), Entries(s), Tracks(v, s), s.started, ~s.terminal, Room(s, 1),
         lawful => <<"text", m.key>> \notin DOMAIN s.blocks \ Undone(s)
  PROVE  LET b == <<"text", m.key>>
             added == OnContentPartAdded(s, m)
             delta == OnOutputTextDelta(s, m)
             done == OnOutputTextDone(s, m)
         IN  /\ TextTaken(v, s, b, added, lawful) /\ TextTaken(v, s, b, delta, lawful)
             /\ lawful => Undone(added.state) = Undone(s) \cup {b}
             /\ lawful => Undone(delta.state) = Undone(s) \cup {b}
             /\ TextTaken(v, s, b, done, lawful)
             /\ Undone(done.state) = Undone(s) \ {b}
<1> DEFINE b == <<"text", m.key>>
           r == Touch(s, b, "text")
           t == r.state
           delta == <<Delta(t.blocks[b].index, "text")>>
           done == CompleteOnce(t, b)
<1>1. /\ "text" \in BlockKinds /\ "text" \in PartName /\ PartOf(b) = "text"
      /\ KindOf("text") = {"text"}
  BY DEF BlockKinds, PartName, PartOf, KindOf
<1>2. s.next \in Nat
  BY DEF DecoderOK
<1> HIDE DEF b
<1>3. /\ ~r.thrown /\ Leaves(v, r.events, t, lawful)
      /\ DOMAIN t.blocks = DOMAIN s.blocks \cup {b}
      /\ t.started /\ ~t.terminal /\ t.next \in {s.next, s.next + 1}
      /\ \A c \in DOMAIN s.blocks : t.blocks[c] = s.blocks[c]
      /\ b \notin DOMAIN s.blocks => t.blocks[b] = Block(s.next, "text")
  BY <1>1, Touching
<1>4. Leaves(v, r.events \o delta, t, lawful)
  <2>1. lawful => b \notin DOMAIN s.blocks \/ b \in Undone(s)
    BY DEF b
  <2>2. QED BY <1>1, <2>1, Adding
<1>6. OnContentPartAdded(s, m) = r
  BY DEF OnContentPartAdded, b
<1>7. /\ OnOutputTextDelta(s, m).state = t /\ OnOutputTextDelta(s, m).events = r.events \o delta
      /\ ~OnOutputTextDelta(s, m).thrown
  <2>1. OnOutputTextDelta(s, m) = Then(r, delta)
    BY DEF OnOutputTextDelta, b
  <2> HIDE DEF delta
  <2>2. QED BY <2>1, TouchThen
<1>8. OnOutputTextDone(s, m)
        = [state |-> done.state, events |-> r.events \o done.events, thrown |-> FALSE]
  BY DEF OnOutputTextDone, Yield, b
<1>9. b \in DOMAIN t.blocks /\ DecoderOK(t) /\ Entries(t) /\ Room(t, 0)
  BY <1>2, <1>3 DEF Leaves, Room, DecoderOK
<1>10. OnContentPartAdded(s, m).state = t /\ ~OnContentPartAdded(s, m).thrown
  BY <1>3, <1>6
<1>11. Decoded(v, OnContentPartAdded(s, m), lawful)
  BY <1>3, <1>6, Decoding
<1>12. Decoded(v, OnOutputTextDelta(s, m), lawful)
  <2> HIDE DEF r, t, delta
  <2>1. QED BY <1>3, <1>4, <1>7, Decoding
<1> HIDE DEF t
<1>13. /\ \A w : Tracks(w, t) => Leaves(w, done.events, done.state, lawful)
       /\ ~done.state.terminal /\ done.state.next = t.next /\ done.state.started
       /\ DOMAIN done.state.blocks = DOMAIN t.blocks
       /\ Undone(done.state) = Undone(t) \ {b} /\ DecoderOK(done.state)
  <2>1. PICK w : Tracks(w, t)
    BY <1>3 DEF Leaves
  <2>2. \A x : Tracks(x, t) => Leaves(x, done.events, done.state, lawful)
    BY <1>3, <1>9, Closing
  <2>3. /\ ~done.state.terminal /\ done.state.next = t.next /\ done.state.started
        /\ DOMAIN done.state.blocks = DOMAIN t.blocks
        /\ Undone(done.state) = Undone(t) \ {b}
    BY <1>3, <1>9, <2>1, Closing
  <2>4. QED BY <2>1, <2>2, <2>3 DEF Leaves
<1> HIDE DEF r, done, delta
<1>14. Leaves(v, r.events \o done.events, done.state, lawful)
  BY <1>3, <1>13, Onwards
<1>15. Decoded(v, OnOutputTextDone(s, m), lawful)
  BY <1>8, <1>13, <1>14, Decoding
<1>16. lawful => Undone(t) = Undone(s) \cup {b}
  <2>1. lawful => b \notin DOMAIN s.blocks \ Undone(s)
    BY DEF b
  <2>2. QED BY <1>3, <2>1 DEF Undone, Block
<1>17. Undone(done.state) = Undone(s) \ {b}
  BY <1>3, <1>13 DEF Undone, Block
<1>18. /\ ~OnOutputTextDelta(s, m).thrown /\ OnOutputTextDelta(s, m).state = t
       /\ ~OnOutputTextDone(s, m).thrown /\ OnOutputTextDone(s, m).state = done.state
  BY <1>7, <1>8
<1>19. TextTaken(v, s, b, OnContentPartAdded(s, m), lawful)
  BY <1>3, <1>10, <1>11 DEF TextTaken
<1>20. TextTaken(v, s, b, OnOutputTextDelta(s, m), lawful)
  BY <1>3, <1>12, <1>18 DEF TextTaken
<1>21. TextTaken(v, s, b, OnOutputTextDone(s, m), lawful)
  BY <1>3, <1>13, <1>15, <1>18 DEF TextTaken
<1>22. QED BY <1>10, <1>16, <1>17, <1>18, <1>19, <1>20, <1>21 DEF b

(* A decoder whose blocks and numbers are the same tracks the same.        *)
LEMMA Unmoved ==
  ASSUME NEW v, NEW s, NEW t, Entries(s), Tracks(v, s),
         t.started = s.started, t.next = s.next, t.blocks = s.blocks
  PROVE  Entries(t) /\ Tracks(v, t) /\ Undone(t) = Undone(s)
BY DEF Entries, Tracks, Undone

LEMMA OpenAITools ==
  ASSUME NEW v, NEW s, NEW m, NEW lawful \in BOOLEAN,
         DecoderOK(s), Entries(s), Tracks(v, s), s.started, ~s.terminal, Room(s, 1)
  PROVE  LET b == <<"tool_call", m.key>>
             added == OnOutputItemAdded(s, m)
             delta == OnFunctionArgumentsDelta(s, m)
             done == OnFunctionDone(s, m)
         IN  /\ Decoded(v, added, lawful) /\ ~added.thrown
             /\ added.state.started /\ added.state.next \in {s.next, s.next + 1}
             /\ DOMAIN added.state.blocks = DOMAIN s.blocks \cup {b}
             /\ b \notin DOMAIN s.blocks => Undone(added.state) = Undone(s) \cup {b}
             /\ (lawful => b \in Undone(s)) =>
                  /\ Decoded(v, delta, lawful)
                  /\ b \in DOMAIN s.blocks => ~delta.thrown /\ delta.state = s
             /\ (lawful => b \in DOMAIN s.blocks) =>
                  /\ Decoded(v, done, lawful)
                  /\ b \in DOMAIN s.blocks =>
                       /\ ~done.thrown /\ done.state.started /\ done.state.next = s.next
                       /\ DOMAIN done.state.blocks = DOMAIN s.blocks
                       /\ Undone(done.state) = Undone(s) \ {b}
             /\ b \notin DOMAIN s.blocks => delta.thrown /\ done.thrown
<1> DEFINE b == <<"tool_call", m.key>>
           added == OnOutputItemAdded(s, m)
           delta == OnFunctionArgumentsDelta(s, m)
           done == OnFunctionDone(s, m)
<1>1. /\ "tool_call" \in BlockKinds /\ "arguments" \in PartName /\ PartOf(b) = "arguments"
      /\ KindOf("arguments") = {"tool_call"}
  BY DEF BlockKinds, PartName, PartOf, KindOf
<1>2. /\ Decoded(v, added, lawful) /\ ~added.thrown
      /\ added.state.started /\ added.state.next \in {s.next, s.next + 1}
      /\ DOMAIN added.state.blocks = DOMAIN s.blocks \cup {b}
      /\ b \notin DOMAIN s.blocks => Undone(added.state) = Undone(s) \cup {b}
  <2> DEFINE t == [s EXCEPT !.called = TRUE]
             r == Touch(t, b, "tool_call")
  <2>1. /\ DecoderOK(t) /\ t.started = s.started /\ t.terminal = s.terminal
        /\ t.next = s.next /\ t.blocks = s.blocks
    BY DEF DecoderOK
  <2>2. added = r
    BY DEF OnOutputItemAdded
  <2> HIDE DEF t, b
  <2>3. Entries(t) /\ Tracks(v, t) /\ Undone(t) = Undone(s) /\ Room(t, 1)
    BY <2>1, Unmoved DEF Room
  <2>4. /\ ~r.thrown /\ Leaves(v, r.events, r.state, lawful)
        /\ DOMAIN r.state.blocks = DOMAIN s.blocks \cup {b}
        /\ \A c \in DOMAIN s.blocks : r.state.blocks[c] = s.blocks[c]
        /\ b \notin DOMAIN s.blocks => r.state.blocks[b] = Block(s.next, "tool_call")
        /\ r.state.started /\ ~r.state.terminal /\ r.state.next \in {s.next, s.next + 1}
    <3>1. t.started /\ ~t.terminal
      BY <2>1
    <3>2. /\ ~r.thrown /\ Leaves(v, r.events, r.state, lawful)
          /\ DOMAIN r.state.blocks = DOMAIN t.blocks \cup {b}
          /\ \A c \in DOMAIN t.blocks : r.state.blocks[c] = t.blocks[c]
          /\ b \notin DOMAIN t.blocks => r.state.blocks[b] = Block(t.next, "tool_call")
          /\ r.state.started /\ r.state.terminal = t.terminal
          /\ r.state.next \in {t.next, t.next + 1}
      BY <1>1, <2>1, <2>3, <3>1, Touching
    <3> HIDE DEF r
    <3>3. QED BY <2>1, <3>1, <3>2
  <2> HIDE DEF r, added
  <2>5. Decoded(v, r, lawful)
    BY <2>4, Decoding
  <2>6. b \notin DOMAIN s.blocks => Undone(r.state) = Undone(s) \cup {b}
    BY <2>4 DEF Undone, Block
  <2>7. QED BY <2>2, <2>4, <2>5, <2>6
<1>3. b \notin DOMAIN s.blocks =>
        delta.thrown /\ done.thrown /\ delta.events = <<>> /\ done.events = <<>>
  BY DEF OnFunctionArgumentsDelta, OnFunctionDone, Has, Breaks
<1>4. b \in DOMAIN s.blocks => Room(s, 0)
  BY DEF Room, DecoderOK
<1>5. ASSUME b \in DOMAIN s.blocks, lawful => b \in Undone(s)
      PROVE  Decoded(v, delta, lawful) /\ ~delta.thrown /\ delta.state = s
  <2> DEFINE grown == <<Delta(s.blocks[b].index, "arguments")>>
  <2>1. delta = [state |-> s, events |-> grown, thrown |-> FALSE]
    BY <1>5 DEF OnFunctionArgumentsDelta, Has, Yield
  <2> HIDE DEF b
  <2>2. Leads(v, grown, v, lawful)
    BY <1>1, <1>4, <1>5, Growing
  <2> HIDE DEF grown, delta
  <2>3. Leaves(v, grown, s, lawful)
    BY <2>2 DEF Leaves
  <2>4. QED BY <2>1, <2>3, Decoding
<1>6. ASSUME b \in DOMAIN s.blocks
      PROVE  /\ Decoded(v, done, lawful) /\ ~done.thrown
             /\ done.state.started /\ done.state.next = s.next
             /\ DOMAIN done.state.blocks = DOMAIN s.blocks
             /\ Undone(done.state) = Undone(s) \ {b}
  <2> DEFINE r == CompleteOnce(s, b)
  <2>1. done = r
    BY <1>6 DEF OnFunctionDone, Has
  <2> HIDE DEF b, done
  <2>2. /\ ~r.thrown /\ Leaves(v, r.events, r.state, lawful)
        /\ DOMAIN r.state.blocks = DOMAIN s.blocks
        /\ Undone(r.state) = Undone(s) \ {b}
        /\ r.state.started = s.started /\ r.state.terminal = s.terminal
        /\ r.state.next = s.next
    <3>1. Room(s, 0)
      BY <1>4, <1>6
    <3>2. ~r.thrown /\ Leaves(v, r.events, r.state, lawful)
      BY <1>6, <3>1, Closing
    <3>3. /\ DOMAIN r.state.blocks = DOMAIN s.blocks
          /\ Undone(r.state) = Undone(s) \ {b}
      BY <1>6, <3>1, Closing
    <3>4. r.state.next = s.next /\ r.state.terminal = s.terminal
      BY <1>6, <3>1, Closing
    <3>5. r.state.started = s.started
      BY <1>6, <3>1, Closing
    <3>6. QED BY <3>2, <3>3, <3>4, <3>5
  <2> HIDE DEF r
  <2>3. QED BY <2>1, <2>2, Decoding
<1>7. (lawful => b \in Undone(s)) =>
        /\ Decoded(v, delta, lawful)
        /\ b \in DOMAIN s.blocks => ~delta.thrown /\ delta.state = s
  <2>1. CASE b \in DOMAIN s.blocks
    BY <1>5, <2>1
  <2>2. CASE b \notin DOMAIN s.blocks
    BY <1>3, <2>2 DEF Decoded, Undone
  <2>3. QED BY <2>1, <2>2
<1>8. (lawful => b \in DOMAIN s.blocks) =>
        /\ Decoded(v, done, lawful)
        /\ b \in DOMAIN s.blocks =>
             /\ ~done.thrown /\ done.state.started /\ done.state.next = s.next
             /\ DOMAIN done.state.blocks = DOMAIN s.blocks
             /\ Undone(done.state) = Undone(s) \ {b}
  <2>1. CASE b \in DOMAIN s.blocks
    BY <1>6, <2>1
  <2>2. CASE b \notin DOMAIN s.blocks
    BY <1>3, <2>2 DEF Decoded
  <2>3. QED BY <2>1, <2>2
<1> HIDE DEF b, added, delta, done
<1>9. QED BY <1>2, <1>3, <1>7, <1>8 DEF b, added, delta, done

(* After a message of an orderly provider the two still agree on what is   *)
(* open and what has been closed.                                          *)
OpenAIKept(r, m) ==
  /\ r.state.started <=> (up.begun \/ m.type = "response.created")
  /\ OpenAfter(m) = Undone(r.state)
  /\ ClosedAfter(m) = DOMAIN r.state.blocks \ Undone(r.state)

(* What decoding the message m must establish.                             *)
OpenAIDone(v, s, m, r, lawful) ==
  /\ Decoded(v, r, lawful)
  /\ ~r.thrown => r.state.next \in {s.next, s.next + 1}
  /\ lawful => ~r.thrown /\ (r.state.terminal \/ OpenAIKept(r, m))

(* Every message of the Responses dialect, one step per type.              *)
LEMMA OpenAIDecodes ==
  ASSUME NEW v, NEW s, NEW m \in OpenAIMessage, NEW lawful \in BOOLEAN,
         DecoderOK(s), Entries(s), Tracks(v, s), ~s.terminal, Room(s, 1),
         dialect = "openai", lawful => UpOpenAI(s, up) /\ OpenAIFollows(m)
  PROVE  OpenAIDone(v, s, m, TranslateOpenAI(s, m), lawful)
<1> DEFINE r == TranslateOpenAI(s, m)
           text == <<"text", m.key>>
           call == <<"tool_call", m.key>>
<1>1. /\ v \in View /\ v.phase = (IF s.started THEN "streaming" ELSE "idle")
      /\ v.open = {s.blocks[b].index : b \in Undone(s)}
      /\ s.next \in Nat /\ s.started \in BOOLEAN
  BY DEF Tracks, DecoderOK
<1>2. ~s.started => DOMAIN s.blocks = {}
  BY DEF Entries
<1>3. lawful => /\ up.begun = s.started /\ up.open = Undone(s)
                /\ up.closed = DOMAIN s.blocks \ Undone(s)
                /\ OpenAIFollows(m)
  BY DEF UpOpenAI
<1>4. Undone(s) \subseteq DOMAIN s.blocks
  BY DEF Undone
<1>5. Agrees(v, s)
  BY <1>1 DEF Agrees
<1>6. CASE m.type = "response.created" /\ s.started
  <2>1. r = Breaks(s)
    BY <1>6 DEF TranslateOpenAI
  <2>2. ~lawful
    BY <1>3, <1>6 DEF OpenAIFollows, Opens
  <2>3. QED BY <2>1, <2>2, Breaking DEF OpenAIDone, Breaks
<1>7. CASE m.type = "response.created" /\ ~s.started
  <2> DEFINE t == [s EXCEPT !.started = TRUE]
  <2>1. r = [state |-> t, events |-> <<Started>>, thrown |-> FALSE]
    BY <1>7 DEF TranslateOpenAI, Yield
  <2>2. DecoderOK(t) /\ t.started /\ ~t.terminal /\ t.next = s.next /\ t.blocks = s.blocks
    BY DEF DecoderOK
  <2>3. OpenAfter(m) = up.open /\ ClosedAfter(m) = up.closed
    BY <1>7 DEF OpenAfter, ClosedAfter, Opens, Closes
  <2> HIDE DEF t, r
  <2>4. Leaves(v, <<Started>>, t, lawful)
    BY <1>7, <2>2, Starting
  <2>5. Decoded(v, r, lawful) /\ ~r.thrown
    BY <2>1, <2>2, <2>4, Decoding
  <2>6. Undone(t) = Undone(s)
    BY <2>2 DEF Undone
  <2>7. lawful => OpenAIKept(r, m)
    BY <1>3, <1>7, <2>1, <2>2, <2>3, <2>6 DEF OpenAIKept
  <2>8. QED BY <2>1, <2>2, <2>5, <2>7 DEF OpenAIDone, r
<1>8. CASE m.type = "error" \/ (m.type = "response.failed" /\ s.started)
  <2> DEFINE t == [s EXCEPT !.terminal = TRUE]
  <2>1. r = Yield(t, <<Failed>>)
    BY <1>8 DEF TranslateOpenAI
  <2>2. t.terminal /\ t.next = s.next
    BY DEF DecoderOK
  <2>3. Decoded(v, Yield(t, <<Failed>>), lawful)
    BY <1>1, Failing
  <2> HIDE DEF t
  <2>4. Yield(t, <<Failed>>).state = t /\ ~Yield(t, <<Failed>>).thrown
    BY DEF Yield
  <2> HIDE DEF r
  <2>5. QED BY <2>1, <2>2, <2>3, <2>4 DEF OpenAIDone, r
<1>9. CASE m.type = "unknown"
  <2>1. r = Ignore(s)
    BY <1>9 DEF TranslateOpenAI
  <2>2. OpenAfter(m) = up.open /\ ClosedAfter(m) = up.closed
    BY <1>9 DEF OpenAfter, ClosedAfter, Opens, Closes
  <2>3. Decoded(v, r, lawful)
    BY <1>5, <2>1, Silent
  <2>4. r.state = s /\ ~r.thrown
    BY <2>1 DEF Ignore, Yield
  <2> HIDE DEF r
  <2>5. lawful => OpenAIKept(r, m)
    BY <1>3, <1>9, <2>2, <2>4 DEF OpenAIKept
  <2>6. QED BY <2>3, <2>4, <2>5 DEF OpenAIDone, r
<1>10. CASE m.type \in {"eof", "garbage"}
  <2>1. r = Breaks(s)
    BY <1>10 DEF TranslateOpenAI
  <2>2. ~lawful
    BY <1>3, <1>10 DEF OpenAIFollows, Opens
  <2>3. QED BY <2>1, <2>2, Breaking DEF OpenAIDone, Breaks
<1>11. CASE ~s.started /\ m.type \notin {"response.created", "error", "unknown", "eof", "garbage"}
  <2>1. r = Breaks(s)
    BY <1>11 DEF TranslateOpenAI
  <2>2. ~lawful
    BY <1>2, <1>3, <1>4, <1>11 DEF OpenAIFollows, OpenAIMessage, Opens, BlockOf
  <2>3. QED BY <2>1, <2>2, Breaking DEF OpenAIDone, Breaks
<1>12. CASE s.started /\ m.type = "content_part.added"
  <2>1. r = OnContentPartAdded(s, m) /\ BlockOf(m) = text
    BY <1>12 DEF TranslateOpenAI, BlockOf
  <2>2. /\ OpenAfter(m) = up.open \cup {text}
        /\ ClosedAfter(m) = up.closed \cup (up.open \ OpenAfter(m))
    BY <1>12, <2>1 DEF OpenAfter, ClosedAfter, Opens, Closes
  <2>3. lawful => text \notin up.open \cup up.closed
    BY <1>3, <1>12, <2>1 DEF OpenAIFollows, Opens
  <2>4. lawful => text \notin DOMAIN s.blocks
    BY <1>3, <2>3
  <2> HIDE DEF r
  <2>5. TextTaken(v, s, text, r, lawful) /\ (lawful => Undone(r.state) = Undone(s) \cup {text})
    BY <1>12, <2>1, <2>4, OpenAITexts
  <2> HIDE DEF text
  <2>6. lawful => OpenAIKept(r, m)
    BY <1>3, <1>4, <1>12, <2>2, <2>4, <2>5 DEF OpenAIKept, TextTaken
  <2>7. QED BY <2>5, <2>6 DEF OpenAIDone, TextTaken, r
<1>13. CASE s.started /\ m.type \in {"output_text.delta", "refusal.delta"}
  <2> DEFINE t == IF m.type = "refusal.delta" THEN [s EXCEPT !.refused = TRUE] ELSE s
  <2>1. r = OnOutputTextDelta(t, m) /\ BlockOf(m) = text
    BY <1>13 DEF TranslateOpenAI, BlockOf, OnRefusalDelta
  <2>2. /\ OpenAfter(m) = up.open \cup {text}
        /\ ClosedAfter(m) = up.closed \cup (up.open \ OpenAfter(m))
    BY <1>13, <2>1 DEF OpenAfter, ClosedAfter, Opens, Closes
  <2>3. lawful => text \notin up.closed
    BY <1>3, <1>13, <2>1 DEF OpenAIFollows, Opens
  <2>4. lawful => text \notin DOMAIN s.blocks \ Undone(s)
    BY <1>3, <2>3
  <2>5. /\ DecoderOK(t) /\ t.started = s.started /\ t.terminal = s.terminal
        /\ t.next = s.next /\ t.blocks = s.blocks
    BY DEF DecoderOK
  <2> HIDE DEF r, t
  <2>6. Entries(t) /\ Tracks(v, t) /\ Undone(t) = Undone(s) /\ Room(t, 1)
    BY <2>5, Unmoved DEF Room
  <2>7. t.started /\ ~t.terminal
    BY <1>13, <2>5
  <2>8. TextTaken(v, t, text, r, lawful) /\ (lawful => Undone(r.state) = Undone(t) \cup {text})
    <3>1. lawful => text \notin DOMAIN t.blocks \ Undone(t)
      BY <2>4, <2>5, <2>6
    <3>2. QED BY <2>1, <2>5, <2>6, <2>7, <3>1, OpenAITexts
  <2> HIDE DEF text
  <2>9. TextTaken(v, s, text, r, lawful) /\ (lawful => Undone(r.state) = Undone(s) \cup {text})
    BY <2>5, <2>6, <2>8 DEF TextTaken
  <2>10. lawful => OpenAIKept(r, m)
    BY <1>3, <1>4, <1>13, <2>2, <2>4, <2>9 DEF OpenAIKept, TextTaken
  <2>11. QED BY <2>9, <2>10 DEF OpenAIDone, TextTaken, r
<1>14. CASE s.started /\ m.type = "output_text.done"
  <2>1. r = OnOutputTextDone(s, m) /\ BlockOf(m) = text
    BY <1>14 DEF TranslateOpenAI, BlockOf
  <2>2. /\ OpenAfter(m) = up.open \ {text} /\ ClosedAfter(m) = up.closed \cup {text}
    BY <1>14, <2>1 DEF OpenAfter, ClosedAfter, Opens, Closes
  <2>3. lawful => text \notin up.closed
    BY <1>3, <1>14, <2>1 DEF OpenAIFollows, Opens
  <2>4. lawful => text \notin DOMAIN s.blocks \ Undone(s)
    BY <1>3, <2>3
  <2> HIDE DEF r
  <2>5. TextTaken(v, s, text, r, lawful) /\ Undone(r.state) = Undone(s) \ {text}
    <3>1. TextTaken(v, s, text, OnOutputTextDone(s, m), lawful)
      BY <1>14, <2>4, OpenAITexts
    <3>2. Undone(OnOutputTextDone(s, m).state) = Undone(s) \ {text}
      BY <1>14, <2>4, OpenAITexts
    <3> HIDE DEF text
    <3>3. QED BY <2>1, <3>1, <3>2
  <2> HIDE DEF text
  <2>6. lawful => OpenAIKept(r, m)
    <3> SUFFICES ASSUME lawful PROVE OpenAIKept(r, m)
      OBVIOUS
    <3>1. up.open \ {text} = Undone(r.state)
      BY <1>3, <2>5
    <3>2. up.closed \cup {text} = DOMAIN r.state.blocks \ Undone(r.state)
      BY <1>3, <1>4, <2>4, <2>5 DEF TextTaken
    <3>3. r.state.started <=> up.begun
      BY <1>3, <1>14, <2>5 DEF TextTaken
    <3>4. QED BY <1>14, <2>2, <3>1, <3>2, <3>3 DEF OpenAIKept
  <2>7. QED BY <2>5, <2>6 DEF OpenAIDone, TextTaken, r
<1>15. CASE s.started /\ m.type = "output_item.added"
  <2>1. r = OnOutputItemAdded(s, m) /\ BlockOf(m) = call
    BY <1>15 DEF TranslateOpenAI, BlockOf
  <2>2. /\ OpenAfter(m) = up.open \cup {call}
        /\ ClosedAfter(m) = up.closed \cup (up.open \ OpenAfter(m))
    BY <1>15, <2>1 DEF OpenAfter, ClosedAfter, Opens, Closes
  <2>3. lawful => call \notin up.open \cup up.closed
    BY <1>3, <1>15, <2>1 DEF OpenAIFollows, Opens
  <2>4. lawful => call \notin DOMAIN s.blocks
    BY <1>3, <2>3
  <2> HIDE DEF call, r
  <2>5. /\ Decoded(v, r, lawful) /\ ~r.thrown
        /\ r.state.started /\ r.state.next \in {s.next, s.next + 1}
        /\ DOMAIN r.state.blocks = DOMAIN s.blocks \cup {call}
        /\ call \notin DOMAIN s.blocks => Undone(r.state) = Undone(s) \cup {call}
    BY <1>15, <2>1, OpenAITools DEF call
  <2>6. lawful => OpenAIKept(r, m)
    BY <1>3, <1>4, <1>15, <2>2, <2>4, <2>5 DEF OpenAIKept
  <2>7. QED BY <2>5, <2>6 DEF OpenAIDone, r
<1>16. CASE s.started /\ m.type = "arguments.delta"
  <2>1. r = OnFunctionArgumentsDelta(s, m) /\ BlockOf(m) = call
    BY <1>16 DEF TranslateOpenAI, BlockOf
  <2>2. OpenAfter(m) = up.open /\ ClosedAfter(m) = up.closed
    BY <1>16 DEF OpenAfter, ClosedAfter, Opens, Closes
  <2>3. lawful => call \in up.open
    BY <1>3, <1>16, <2>1 DEF OpenAIFollows, Opens
  <2>4. lawful => call \in Undone(s)
    BY <1>3, <2>3
  <2> HIDE DEF call, r
  <2>5. /\ Decoded(v, r, lawful)
        /\ call \in DOMAIN s.blocks => ~r.thrown /\ r.state = s
        /\ call \notin DOMAIN s.blocks => r.thrown
    BY <1>16, <2>1, <2>4, OpenAITools DEF call
  <2>6. lawful => OpenAIKept(r, m)
    BY <1>3, <1>4, <1>16, <2>2, <2>4, <2>5 DEF OpenAIKept
  <2>7. lawful => ~r.thrown
    BY <1>4, <2>4, <2>5
  <2>8. ~r.thrown => r.state.next \in {s.next, s.next + 1}
    BY <2>5
  <2>9. QED BY <2>5, <2>6, <2>7, <2>8 DEF OpenAIDone, r
<1>17. CASE s.started /\ m.type \in {"arguments.done", "output_item.done"}
  <2>1. r = OnFunctionDone(s, m) /\ BlockOf(m) = call
    BY <1>17 DEF TranslateOpenAI, BlockOf
  <2>2. OpenAfter(m) = up.open \ {call} /\ ClosedAfter(m) = up.closed \cup {call}
    BY <1>17, <2>1 DEF OpenAfter, ClosedAfter, Opens, Closes
  <2>3. lawful => call \in up.open \cup up.closed
    BY <1>3, <1>17, <2>1 DEF OpenAIFollows, Opens
  <2>4. lawful => call \in DOMAIN s.blocks
    BY <1>3, <1>4, <2>3
  <2> HIDE DEF call, r
  <2>5. /\ Decoded(v, r, lawful)
        /\ call \in DOMAIN s.blocks =>
             /\ ~r.thrown /\ r.state.started /\ r.state.next = s.next
             /\ DOMAIN r.state.blocks = DOMAIN s.blocks
             /\ Undone(r.state) = Undone(s) \ {call}
        /\ call \notin DOMAIN s.blocks => r.thrown
    BY <1>17, <2>1, <2>4, OpenAITools DEF call
  <2>6. lawful => ~r.thrown /\ OpenAIKept(r, m)
    BY <1>3, <1>4, <1>17, <2>2, <2>4, <2>5 DEF OpenAIKept
  <2>7. ~r.thrown => r.state.next \in {s.next, s.next + 1}
    BY <2>5
  <2>8. QED BY <2>5, <2>6, <2>7 DEF OpenAIDone, r
<1>18. CASE s.started /\ m.type \in {"response.completed", "response.incomplete"}
  <2> DEFINE t == [s EXCEPT !.terminal = TRUE]
             reason == IF m.type = "response.completed" THEN OpenAIReason(s) ELSE "max_tokens"
  <2>1. r = [state |-> t, events |-> <<Usage, Completed(reason)>>, thrown |-> FALSE]
    BY <1>18 DEF TranslateOpenAI, OnResponseEnd, Yield
  <2>2. reason \in Reason
    BY DEF OpenAIReason, Reason
  <2>3. DecoderOK(t) /\ t.terminal /\ t.next = s.next
    BY DEF DecoderOK
  <2>4. lawful => v.open = {}
    <3>1. lawful => up.open = {}
      BY <1>3, <1>18 DEF OpenAIFollows, Opens
    <3>2. QED BY <1>1, <1>3, <3>1
  <2>5. v.phase = "streaming"
    BY <1>1, <1>18
  <2> HIDE DEF t, reason, r
  <2>6. \E w : Leads(v, <<Usage, Completed(reason)>>, w, lawful) /\ Agrees(w, t)
    BY <1>1, <2>2, <2>3, <2>4, <2>5, Ending
  <2>7. Decoded(v, r, lawful)
    BY <2>1, <2>6 DEF Decoded
  <2>8. r.state = t /\ ~r.thrown
    BY <2>1
  <2>9. QED BY <2>3, <2>7, <2>8 DEF OpenAIDone, r
<1>19. m.type \in {"content_part.added", "output_text.delta", "refusal.delta", "output_text.done",
                  "output_item.added", "arguments.delta", "arguments.done", "output_item.done",
                  "response.created", "response.completed", "response.incomplete",
                  "response.failed", "error", "unknown", "eof", "garbage"}
  BY DEF OpenAIMessage
<1> HIDE DEF r, text, call
<1>20. QED BY <1>6, <1>7, <1>8, <1>9, <1>10, <1>11, <1>12, <1>13, <1>14, <1>15, <1>16, <1>17,
              <1>18, <1>19 DEF r

(*-------------------------------- Gemini ---------------------------------*)

(* A part of a chunk. Between chunks the only blocks are one of text and   *)
(* one of reasoning, both open: calls are opened and closed at once.       *)
GeminiPart == [text : BOOLEAN, thought : BOOLEAN, signed : BOOLEAN,
               call : {"none", "named", "nameless"}]

GeminiTidy(s) ==
  DOMAIN s.blocks \subseteq {<<"reasoning">>, <<"text">>} /\ Undone(s) = DOMAIN s.blocks

(* A started stream that has led to s, between chunks.                     *)
Going(v, es, s, lawful) ==
  Leaves(v, es, s, lawful) /\ s.started /\ ~s.terminal /\ GeminiTidy(s)

(* At most n blocks were numbered on the way.                              *)
Extends(s, t, n) == t.finish = s.finish /\ t.next \in s.next..(s.next + n)

(* A chunk has two parts at most.                                          *)
LEMMA GeminiParts ==
  ASSUME NEW m \in GeminiMessage, m.type = "chunk"
  PROVE  /\ DOMAIN m.parts \in {{}, {1}, {1, 2}}
         /\ \A i \in DOMAIN m.parts : m.parts[i] \in GeminiPart
         /\ m.finish \in Reason
<1> DEFINE text == Part(TRUE, FALSE, FALSE, "none")
           thought == Part(TRUE, TRUE, FALSE, "none")
           signature == Part(FALSE, FALSE, TRUE, "none")
           signedText == Part(TRUE, FALSE, TRUE, "none")
           call == Part(FALSE, FALSE, FALSE, "named")
           signedCall == Part(FALSE, FALSE, TRUE, "named")
           nameless == Part(FALSE, FALSE, FALSE, "nameless")
           Lists == {<<>>, <<text>>, <<thought>>, <<signature>>, <<signedText>>, <<call>>,
                     <<signedCall>>, <<thought, text>>, <<text, nameless>>}
<1>1. m.parts \in Lists /\ m.finish \in {"none", "end_turn", "max_tokens"}
  BY DEF GeminiMessage
<1>2. /\ text \in GeminiPart /\ thought \in GeminiPart /\ signature \in GeminiPart
      /\ signedText \in GeminiPart /\ call \in GeminiPart /\ signedCall \in GeminiPart
      /\ nameless \in GeminiPart
  BY DEF Part, GeminiPart
<1> HIDE DEF text, thought, signature, signedText, call, signedCall, nameless
<1>3. \A list \in Lists : /\ DOMAIN list \in {{}, {1}, {1, 2}}
                          /\ \A i \in DOMAIN list : list[i] \in GeminiPart
  <2> SUFFICES ASSUME NEW list \in Lists
               PROVE  /\ DOMAIN list \in {{}, {1}, {1, 2}}
                      /\ \A i \in DOMAIN list : list[i] \in GeminiPart
    OBVIOUS
  <2>1. CASE list = <<>>
    BY <2>1
  <2>2. ASSUME NEW p \in GeminiPart, list = <<p>>
        PROVE  DOMAIN list = {1} /\ \A i \in DOMAIN list : list[i] \in GeminiPart
    BY <2>2
  <2>3. ASSUME NEW p \in GeminiPart, NEW q \in GeminiPart, list = <<p, q>>
        PROVE  DOMAIN list = {1, 2} /\ \A i \in DOMAIN list : list[i] \in GeminiPart
    BY <2>3
  <2>4. QED BY <1>2, <2>1, <2>2, <2>3
<1>4. QED BY <1>1, <1>3 DEF Reason

(* A text, a reasoning and a call part, each alone.                        *)
LEMMA GeminiTexts ==
  ASSUME NEW v, NEW s, NEW lawful \in BOOLEAN, Tracks(v, s), Going(v, <<>>, s, lawful), Room(s, 1)
  PROVE  LET r == OnGeminiText(s)
         IN  Going(v, r.events, r.state, lawful) /\ Extends(s, r.state, 1)
<1> DEFINE b == <<"text">>
           r == Touch(s, b, "text")
           t == r.state
           delta == <<Delta(t.blocks[b].index, "text")>>
<1>1. /\ "text" \in BlockKinds /\ "text" \in PartName /\ PartOf(b) = "text"
      /\ KindOf("text") = {"text"}
  BY DEF BlockKinds, PartName, PartOf, KindOf
<1>2. DecoderOK(s) /\ Entries(s) /\ s.started /\ ~s.terminal /\ GeminiTidy(s) /\ s.next \in Nat
  BY DEF Going, Leaves, DecoderOK
<1>3. b \in DOMAIN s.blocks => b \in Undone(s)
  BY <1>2 DEF GeminiTidy
<1>4. b \in {<<"reasoning">>, <<"text">>}
  OBVIOUS
<1> HIDE DEF b
<1>5. Leaves(v, r.events \o delta, t, lawful)
  BY <1>1, <1>2, <1>3, Adding
<1>6. /\ DOMAIN t.blocks = DOMAIN s.blocks \cup {b}
      /\ \A c \in DOMAIN s.blocks : t.blocks[c] = s.blocks[c]
      /\ b \notin DOMAIN s.blocks => t.blocks[b] = Block(s.next, "text")
      /\ t.started /\ t.terminal = s.terminal /\ t.finish = s.finish
      /\ t.next \in {s.next, s.next + 1}
  BY <1>1, <1>2, Touching
<1> HIDE DEF delta
<1>7. OnGeminiText(s).state = t /\ OnGeminiText(s).events = r.events \o delta
  <2>1. OnGeminiText(s) = Then(r, delta)
    BY DEF OnGeminiText, b, delta
  <2>2. QED BY <2>1, TouchThen
<1> HIDE DEF r, t
<1>8. GeminiTidy(t)
  BY <1>2, <1>4, <1>6 DEF GeminiTidy, Undone, Block
<1>9. QED BY <1>2, <1>5, <1>6, <1>7, <1>8 DEF Going, Extends

LEMMA GeminiReasons ==
  ASSUME NEW v, NEW s, NEW p \in GeminiPart, NEW lawful \in BOOLEAN, Tracks(v, s),
         Going(v, <<>>, s, lawful), Room(s, 1)
  PROVE  LET r == OnGeminiReasoning(s, p)
         IN  Going(v, r.events, r.state, lawful) /\ Extends(s, r.state, 1)
<1> DEFINE b == <<"reasoning">>
           kind == IF p.signed THEN "thinking" ELSE "summary"
           r == Touch(s, b, kind)
           t == r.state
           said == IF p.text THEN <<Delta(t.blocks[b].index, "reasoning")>> ELSE <<>>
           signed == IF p.signed THEN <<Delta(t.blocks[b].index, "signature")>> ELSE <<>>
<1>1. /\ kind \in BlockKinds /\ kind \in KindOf(PartOf(b))
      /\ "reasoning" \in PartName /\ "signature" \in PartName
      /\ KindOf(PartOf(b)) \subseteq KindOf("reasoning")
      /\ KindOf(PartOf(b)) \subseteq KindOf("signature")
  BY DEF BlockKinds, PartName, PartOf, KindOf
<1>2. DecoderOK(s) /\ Entries(s) /\ s.started /\ ~s.terminal /\ GeminiTidy(s) /\ s.next \in Nat
  BY DEF Going, Leaves, DecoderOK
<1>3. b \in DOMAIN s.blocks => b \in Undone(s)
  BY <1>2 DEF GeminiTidy
<1>4. b \in {<<"reasoning">>, <<"text">>}
  OBVIOUS
<1> HIDE DEF b, kind
<1>5. /\ Leaves(v, r.events, t, lawful)
      /\ DOMAIN t.blocks = DOMAIN s.blocks \cup {b}
      /\ \A c \in DOMAIN s.blocks : t.blocks[c] = s.blocks[c]
      /\ b \notin DOMAIN s.blocks => t.blocks[b] = Block(s.next, kind)
      /\ t.started /\ t.terminal = s.terminal /\ t.finish = s.finish
      /\ t.next \in {s.next, s.next + 1}
  BY <1>1, <1>2, Touching
<1>6. /\ OnGeminiReasoning(s, p).state = t
      /\ OnGeminiReasoning(s, p).events = r.events \o (said \o signed)
  <2> DEFINE es == said \o signed
  <2>1. OnGeminiReasoning(s, p) = Then(r, es)
    BY DEF OnGeminiReasoning, b, kind
  <2> HIDE DEF es
  <2>2. OnGeminiReasoning(s, p).state = t /\ OnGeminiReasoning(s, p).events = r.events \o es
    BY <2>1, TouchThen
  <2>3. QED BY <2>2 DEF es
<1> HIDE DEF r
<1>7. GeminiTidy(t)
  BY <1>2, <1>4, <1>5 DEF GeminiTidy, Undone, Block
<1>8. DecoderOK(t) /\ Entries(t) /\ b \in Undone(t) /\ b \in DOMAIN t.blocks /\ Room(t, 0)
  BY <1>2, <1>5, <1>7 DEF Leaves, GeminiTidy, Room, DecoderOK
<1> HIDE DEF t
<1>9. ASSUME NEW w, Tracks(w, t)
      PROVE  Leaves(w, said \o signed, t, lawful)
  <2>1. Leads(w, said, w, lawful)
    <3>1. Leads(w, <<Delta(t.blocks[b].index, "reasoning")>>, w, lawful)
      BY <1>1, <1>5, <1>8, <1>9, Growing
    <3>2. QED BY <3>1, LeadsNowhere
  <2>2. Leads(w, signed, w, lawful)
    <3>1. Leads(w, <<Delta(t.blocks[b].index, "signature")>>, w, lawful)
      BY <1>1, <1>5, <1>8, <1>9, Growing
    <3>2. QED BY <3>1, LeadsNowhere
  <2> HIDE DEF said, signed
  <2>3. Leads(w, said \o signed, w, lawful)
    BY <2>1, <2>2, LeadsOn
  <2>4. QED BY <1>8, <1>9, <2>3 DEF Leaves
<1> DEFINE es == said \o signed
<1> HIDE DEF es
<1>10. Leaves(v, r.events \o es, t, lawful)
  <2>1. \A w : Tracks(w, t) => Leaves(w, es, t, lawful)
    BY <1>9 DEF es
  <2>2. QED BY <1>5, <2>1, Onwards
<1>11. Leaves(v, r.events \o (said \o signed), t, lawful)
  BY <1>10 DEF es
<1> HIDE DEF said, signed
<1>12. QED BY <1>2, <1>5, <1>6, <1>7, <1>11 DEF Going, Extends

LEMMA GeminiCalls ==
  ASSUME NEW v, NEW s, NEW lawful \in BOOLEAN, Tracks(v, s),
         Going(v, <<>>, s, lawful), Room(s, 1)
  PROVE  LET r == OnFunctionCall(s)
         IN  Going(v, r.events, r.state, lawful) /\ Extends(s, r.state, 1)
<1> DEFINE i == s.next
           t == [s EXCEPT !.next = @ + 1, !.called = TRUE]
           opened == Opened(i, "tool_call")
           delta == Delta(i, "arguments")
           u == After(v, opened)
           closed == Closed(i, "tool_call")
           w == After(u, closed)
<1>1. DecoderOK(s) /\ Entries(s) /\ s.started /\ ~s.terminal /\ GeminiTidy(s) /\ i \in Nat
  BY DEF Going, Leaves, DecoderOK
<1>2. v \in View /\ v.phase = "streaming" /\ i \in Indices
  BY <1>1 DEF Tracks, Room
<1>3. i \notin v.open \cup v.closed /\ i \notin DOMAIN v.kinds
  BY <1>1 DEF Tracks
<1>4. /\ "tool_call" \in BlockKinds /\ "arguments" \in PartName
      /\ "tool_call" \in KindOf("arguments")
  BY DEF BlockKinds, PartName, KindOf
<1>5. /\ u.phase = v.phase /\ u.open = v.open \cup {i} /\ u.closed = v.closed
      /\ u.kinds = With(v.kinds, i, "tool_call")
  BY <1>2 DEF After, Opened, View
<1>6. Legal(v, opened, lawful) /\ u \in View
  <2>1. Legal(v, opened, lawful)
    BY <1>2, <1>3, <1>4, LegalSteps
  <2> HIDE DEF opened
  <2>2. QED BY <1>2, <2>1, AfterView
<1>7. /\ DOMAIN u.kinds = DOMAIN v.kinds \cup {i} /\ u.kinds[i] = "tool_call"
      /\ \A j \in DOMAIN v.kinds : u.kinds[j] = v.kinds[j]
  BY <1>3, <1>5 DEF With
<1> HIDE DEF u
<1>8. /\ Legal(u, delta, lawful) /\ After(u, delta) = u
      /\ Legal(u, closed, lawful)
  <2>1. u.phase = "streaming" /\ i \in u.open /\ i \in DOMAIN u.kinds
        /\ u.kinds[i] \in KindOf("arguments")
    BY <1>2, <1>4, <1>5, <1>7
  <2>2. Legal(u, closed, lawful)
    BY <1>2, <1>4, <1>6, <1>7, <2>1, LegalSteps
  <2>3. Legal(u, delta, lawful) /\ After(u, delta) = u
    BY <1>2, <1>4, <1>6, <2>1, LegalSteps
  <2>4. QED BY <2>2, <2>3
<1>9. /\ w.phase = u.phase /\ w.open = u.open \ {i} /\ w.closed = u.closed \cup {i}
      /\ w.kinds = u.kinds
  BY <1>6 DEF After, Closed, View
<1>10. w \in View
  BY <1>6, <1>8, AfterView
<1>11. Leads(v, <<opened, delta, closed>>, w, lawful)
  <2> DEFINE c == closed
  <2>1. Leads(v, <<opened>>, u, lawful)
    BY <1>6, LeadsOnce DEF u
  <2>2. Leads(u, <<delta>>, u, lawful)
    BY <1>8, LeadsOnce
  <2>3. Leads(u, <<c>>, w, lawful)
    BY <1>8, LeadsOnce
  <2>4. opened \in CanonicalEvent /\ delta \in CanonicalEvent /\ c \in CanonicalEvent
    BY <1>6, <1>8, LegalEvent
  <2> HIDE DEF opened, delta, c, w
  <2>5. Leads(v, <<opened, delta>>, u, lawful)
    <3>1. Leads(v, <<opened>> \o <<delta>>, u, lawful)
      BY <2>1, <2>2, LeadsOn
    <3>2. QED BY <2>4, <3>1, Joined
  <2>6. Leads(v, <<opened, delta>> \o <<c>>, w, lawful)
    BY <2>3, <2>5, LeadsOn
  <2>7. <<opened, delta>> \o <<c>> = <<opened, delta, c>>
    <3>1. /\ <<opened, delta>> \in Seq(CanonicalEvent) /\ <<c>> \in Seq(CanonicalEvent)
          /\ <<opened, delta, c>> \in Seq(CanonicalEvent)
      BY <2>4
    <3>2. /\ Len(<<opened, delta>> \o <<c>>) = 3 /\ Len(<<opened, delta, c>>) = 3
          /\ <<opened, delta>> \o <<c>> \in Seq(CanonicalEvent)
      BY <3>1
    <3>3. \A j \in 1..3 : (<<opened, delta>> \o <<c>>)[j] = <<opened, delta, c>>[j]
      BY <3>1
    <3>4. QED BY <3>1, <3>2, <3>3, SeqEqual
  <2>8. QED BY <2>6, <2>7 DEF c
<1>12. /\ t.next = i + 1 /\ t.blocks = s.blocks /\ t.started = s.started
       /\ t.terminal = s.terminal /\ t.finish = s.finish /\ DecoderOK(t)
  <2>1. i + 1 \in Nat
    BY <1>1
  <2>2. QED BY <1>1, <2>1 DEF DecoderOK
<1>13. OnFunctionCall(s).state = t /\ OnFunctionCall(s).events = <<opened, delta, closed>>
  BY DEF OnFunctionCall, Yield
<1> HIDE DEF t, w, opened, delta, closed
<1>14. 0..(s.next - 1) \subseteq 0..(t.next - 1) /\ i \in 0..(t.next - 1)
  BY <1>1, <1>12
<1>15. Entries(t)
  <2>1. \A b \in DOMAIN t.blocks :
          t.blocks[b] \in [index : 0..(t.next - 1), kind : BlockKinds, done : BOOLEAN]
    BY <1>1, <1>12, <1>14 DEF Entries
  <2>2. QED BY <1>1, <1>12, <2>1 DEF Entries
<1>16. Tracks(w, t)
  <2>1. w.open = v.open
    BY <1>3, <1>5, <1>9
  <2>2. w.open = {t.blocks[b].index : b \in Undone(t)}
    BY <1>12, <2>1 DEF Tracks, Undone
  <2>3. DOMAIN w.kinds \cup w.open \cup w.closed \subseteq 0..(t.next - 1)
    BY <1>5, <1>7, <1>9, <1>14, <2>1 DEF Tracks
  <2>4. \A b \in DOMAIN t.blocks :
          t.blocks[b].index \in DOMAIN w.kinds /\ w.kinds[t.blocks[b].index] = t.blocks[b].kind
    BY <1>7, <1>9, <1>12 DEF Tracks
  <2>5. QED BY <1>1, <1>2, <1>5, <1>9, <1>10, <1>12, <2>2, <2>3, <2>4 DEF Tracks
<1>17. GeminiTidy(t)
  BY <1>1, <1>12 DEF GeminiTidy, Undone
<1>18. Extends(s, t, 1)
  BY <1>1, <1>12 DEF Extends
<1>19. Leaves(v, OnFunctionCall(s).events, t, lawful)
  BY <1>11, <1>12, <1>13, <1>15, <1>16 DEF Leaves
<1>20. Going(v, OnFunctionCall(s).events, t, lawful)
  BY <1>1, <1>12, <1>17, <1>19 DEF Going
<1>21. QED BY <1>13, <1>18, <1>20

(* Parts taken one after another.                                          *)
LEMMA GoingOn ==
  ASSUME NEW u, NEW a, NEW b, NEW s, NEW t, NEW lawful \in BOOLEAN,
         Going(u, a, s, lawful), \A v : Tracks(v, s) => Going(v, b, t, lawful)
  PROVE  Going(u, a \o b, t, lawful)
<1>1. PICK v : Tracks(v, s)
  BY DEF Going, Leaves
<1>2. Leaves(u, a, s, lawful) /\ \A w : Tracks(w, s) => Leaves(w, b, t, lawful)
  BY DEF Going
<1>3. Leaves(u, a \o b, t, lawful)
  BY <1>2, Onwards
<1>4. QED BY <1>1, <1>3 DEF Going

LEMMA GoingStill ==
  ASSUME NEW u, NEW a, NEW s, NEW v, NEW lawful \in BOOLEAN, Going(u, a, s, lawful), Tracks(v, s)
  PROVE  Going(v, <<>>, s, lawful)
BY Standing DEF Going, Leaves

(* The handler of a part: only a nameless call throws.                     *)
LEMMA GeminiPartTaken ==
  ASSUME NEW v, NEW r, NEW p \in GeminiPart, NEW lawful \in BOOLEAN,
         ~r.thrown, Going(v, r.events, r.state, lawful), Room(r.state, 2)
  PROVE  LET q == OnGeminiPart(r, p)
         IN  IF p.call = "nameless" THEN q.thrown /\ q.events = <<>>
             ELSE /\ ~q.thrown /\ Going(v, q.events, q.state, lawful)
                  /\ Extends(r.state, q.state, 2) /\ q = Yield(q.state, q.events)
<1> DEFINE s == r.state
           shown == CASE p.signed \/ (p.text /\ p.thought) -> OnGeminiReasoning(s, p)
                      [] p.text /\ ~p.signed /\ ~p.thought -> OnGeminiText(s)
                      [] OTHER -> Ignore(s)
           called == IF p.call = "none" THEN Ignore(shown.state) ELSE OnFunctionCall(shown.state)
           q == OnGeminiPart(r, p)
<1>1. s.next \in Nat /\ Room(s, 1)
  BY DEF Going, Leaves, DecoderOK, Room
<1>2. CASE p.call = "nameless"
  BY <1>2 DEF OnGeminiPart, Breaks
<1>3. CASE p.call # "nameless"
  <2>1. q = [state |-> called.state, events |-> r.events \o shown.events \o called.events,
             thrown |-> FALSE]
    BY <1>3 DEF OnGeminiPart, Yield
  <2>2. Ignore(s).state = s /\ Ignore(s).events = <<>>
    BY DEF Ignore, Yield
  <2>3. \A x : x = shown => \/ x = OnGeminiReasoning(s, p)
                            \/ x = OnGeminiText(s)
                            \/ x = Ignore(s)
    BY DEF GeminiPart
  <2>4. shown \in {OnGeminiReasoning(s, p), OnGeminiText(s), Ignore(s)}
    BY <2>3
  <2> HIDE DEF s, shown
  <2>5. /\ \A w : Tracks(w, s) => Going(w, shown.events, shown.state, lawful)
        /\ Extends(s, shown.state, 1)
    <3>1. PICK x : Tracks(x, s)
      BY DEF Going, Leaves, s
    <3>2. \A w : Tracks(w, s) => Going(w, <<>>, s, lawful)
      BY GoingStill DEF s
    <3>3. Extends(s, s, 1)
      BY <1>1 DEF Extends
    <3>4. /\ \A w : Tracks(w, s) => Going(w, OnGeminiText(s).events, OnGeminiText(s).state, lawful)
          /\ Extends(s, OnGeminiText(s).state, 1)
      BY <1>1, <3>1, <3>2, GeminiTexts
    <3>5. /\ \A w : Tracks(w, s) => Going(w, OnGeminiReasoning(s, p).events,
                                             OnGeminiReasoning(s, p).state, lawful)
          /\ Extends(s, OnGeminiReasoning(s, p).state, 1)
      BY <1>1, <3>1, <3>2, GeminiReasons
    <3>6. QED BY <2>2, <2>4, <3>2, <3>3, <3>4, <3>5
  <2>6. Going(v, r.events \o shown.events, shown.state, lawful)
    <3>1. Going(v, r.events, s, lawful)
      BY DEF s
    <3>2. QED BY <2>5, <3>1, GoingOn
  <2> DEFINE t == shown.state
  <2>7. t.next \in Nat /\ Room(t, 1)
    <3>1. Room(s, 2)
      BY DEF s
    <3>2. QED BY <1>1, <2>5, <3>1 DEF Extends, Room
  <2>8. called \in {OnFunctionCall(t), Ignore(t)}
    OBVIOUS
  <2> HIDE DEF t, called
  <2>9. /\ \A w : Tracks(w, t) => Going(w, called.events, called.state, lawful)
        /\ Extends(t, called.state, 1)
    <3>1. PICK x : Tracks(x, t)
      BY <2>6 DEF Going, Leaves, t
    <3>2. \A w : Tracks(w, t) => Going(w, <<>>, t, lawful)
      BY <2>6, GoingStill DEF t
    <3>3. Extends(t, t, 1)
      BY <2>7 DEF Extends
    <3>4. Ignore(t).state = t /\ Ignore(t).events = <<>>
      BY DEF Ignore, Yield
    <3>5. /\ \A w : Tracks(w, t) =>
                Going(w, OnFunctionCall(t).events, OnFunctionCall(t).state, lawful)
          /\ Extends(t, OnFunctionCall(t).state, 1)
      BY <2>7, <3>1, <3>2, GeminiCalls
    <3>6. QED BY <2>8, <3>2, <3>3, <3>4, <3>5
  <2>10. Going(v, (r.events \o shown.events) \o called.events, called.state, lawful)
    <3>1. Going(v, r.events \o shown.events, t, lawful)
      BY <2>6 DEF t
    <3>2. QED BY <2>9, <3>1, GoingOn
  <2>11. Extends(s, called.state, 2)
    BY <1>1, <2>5, <2>7, <2>9 DEF Extends, t
  <2>14. q = Yield(q.state, q.events)
    BY <2>1 DEF Yield
  <2> HIDE DEF q
  <2>12. /\ ~q.thrown /\ q.state = called.state
         /\ q.events = (r.events \o shown.events) \o called.events
    BY <2>1
  <2>13. QED BY <1>3, <2>10, <2>11, <2>12, <2>14 DEF s, q
<1>4. QED BY <1>2, <1>3

(* The chunk's fold over its parts.                                        *)
PartsTaken(r, s) == FoldLeft(OnGeminiPart, r, s)

(* A fold over at most two elements is its function applied at most twice: *)
(* FoldLeft unfolded by hand, as the provers do not unfold a recursive     *)
(* function. The same for the deltas and the calls of a compatible chunk.  *)
LEMMA OneOrTwoParts ==
  ASSUME NEW b, NEW seq, DOMAIN seq \in {{}, {1}, {1, 2}}
  PROVE  /\ DOMAIN seq = {} => PartsTaken(b, seq) = b
         /\ DOMAIN seq = {1} => PartsTaken(b, seq) = OnGeminiPart(b, seq[1])
         /\ DOMAIN seq = {1, 2} =>
              PartsTaken(b, seq) = OnGeminiPart(OnGeminiPart(b, seq[1]), seq[2])
<1> HIDE DEF OnGeminiPart
<1> DEFINE D == DOMAIN seq
           Folded(it) == it = [s \in SUBSET D |->
                            IF s = {} THEN b ELSE OnGeminiPart(it[s \ {Max(s)}], seq[Max(s)])]
           f == [s \in SUBSET D |->
                   IF s = {} THEN b
                   ELSE IF s = {1} THEN OnGeminiPart(b, seq[1])
                   ELSE IF s = {2} THEN OnGeminiPart(b, seq[2])
                   ELSE OnGeminiPart(OnGeminiPart(b, seq[1]), seq[2])]
           g == CHOOSE it : Folded(it)
<1>1. \A s \in SUBSET D : s \in {{}, {1}, {2}, {1, 2}}
  OBVIOUS
<1>2. Max({1}) = 1 /\ Max({2}) = 2 /\ Max({1, 2}) = 2
  BY DEF Max
<1>3. Folded(f)
  <2> SUFFICES ASSUME NEW s \in SUBSET D, s # {}
               PROVE  f[s] = OnGeminiPart(f[s \ {Max(s)}], seq[Max(s)])
    OBVIOUS
  <2>1. CASE s = {1}
    BY <1>2, <2>1
  <2>2. CASE s = {2}
    BY <1>2, <2>2
  <2>3. CASE s = {1, 2}
    <3>1. s \ {Max(s)} = {1} /\ {1} \in SUBSET D
      BY <1>2, <2>3
    <3>2. f[s] = OnGeminiPart(OnGeminiPart(b, seq[1]), seq[2]) /\ f[{1}] = OnGeminiPart(b, seq[1])
      BY <2>3, <3>1
    <3>3. QED BY <1>2, <2>3, <3>1, <3>2
  <2>4. QED BY <1>1, <2>1, <2>2, <2>3
<1>4. PartsTaken(b, seq) = g[D]
  BY DEF PartsTaken, FoldLeft, MapThenFoldSet
<1>5. Folded(g)
  <2> HIDE DEF Folded
  <2>1. QED BY <1>3
<1> HIDE DEF g
<1>6. \A s \in SUBSET D :
        g[s] = IF s = {} THEN b ELSE OnGeminiPart(g[s \ {Max(s)}], seq[Max(s)])
  BY <1>5
<1>7. g[{}] = b
  BY <1>6
<1>8. 1 \in D => g[{1}] = OnGeminiPart(b, seq[1])
  <2>1. {1} \ {1} = {}
    OBVIOUS
  <2>2. QED BY <1>2, <1>6, <1>7, <2>1
<1>9. D = {1, 2} => g[D] = OnGeminiPart(g[{1}], seq[2])
  <2>1. {1, 2} \ {2} = {1}
    OBVIOUS
  <2>2. QED BY <1>2, <1>6, <2>1
<1>10. QED BY <1>4, <1>7, <1>8, <1>9

(* The chunk's folds over its deltas and over its calls.                   *)
DeltasTaken(r, s) == FoldLeft(OnCompatibleDelta, r, s)

LEMMA OneOrTwoDeltas ==
  ASSUME NEW b, NEW seq, DOMAIN seq \in {{}, {1}, {1, 2}}
  PROVE  /\ DOMAIN seq = {} => DeltasTaken(b, seq) = b
         /\ DOMAIN seq = {1} => DeltasTaken(b, seq) = OnCompatibleDelta(b, seq[1])
         /\ DOMAIN seq = {1, 2} =>
              DeltasTaken(b, seq) = OnCompatibleDelta(OnCompatibleDelta(b, seq[1]), seq[2])
<1> HIDE DEF OnCompatibleDelta
<1> DEFINE D == DOMAIN seq
           Folded(it) == it = [s \in SUBSET D |->
                            IF s = {} THEN b ELSE OnCompatibleDelta(it[s \ {Max(s)}], seq[Max(s)])]
           f == [s \in SUBSET D |->
                   IF s = {} THEN b
                   ELSE IF s = {1} THEN OnCompatibleDelta(b, seq[1])
                   ELSE IF s = {2} THEN OnCompatibleDelta(b, seq[2])
                   ELSE OnCompatibleDelta(OnCompatibleDelta(b, seq[1]), seq[2])]
           g == CHOOSE it : Folded(it)
<1>1. \A s \in SUBSET D : s \in {{}, {1}, {2}, {1, 2}}
  OBVIOUS
<1>2. Max({1}) = 1 /\ Max({2}) = 2 /\ Max({1, 2}) = 2
  BY DEF Max
<1>3. Folded(f)
  <2> SUFFICES ASSUME NEW s \in SUBSET D, s # {}
               PROVE  f[s] = OnCompatibleDelta(f[s \ {Max(s)}], seq[Max(s)])
    OBVIOUS
  <2>1. CASE s = {1}
    BY <1>2, <2>1
  <2>2. CASE s = {2}
    BY <1>2, <2>2
  <2>3. CASE s = {1, 2}
    <3>1. s \ {Max(s)} = {1} /\ {1} \in SUBSET D
      BY <1>2, <2>3
    <3>2. /\ f[s] = OnCompatibleDelta(OnCompatibleDelta(b, seq[1]), seq[2])
          /\ f[{1}] = OnCompatibleDelta(b, seq[1])
      BY <2>3, <3>1
    <3>3. QED BY <1>2, <2>3, <3>1, <3>2
  <2>4. QED BY <1>1, <2>1, <2>2, <2>3
<1>4. DeltasTaken(b, seq) = g[D]
  BY DEF DeltasTaken, FoldLeft, MapThenFoldSet
<1>5. Folded(g)
  <2> HIDE DEF Folded
  <2>1. QED BY <1>3
<1> HIDE DEF g
<1>6. \A s \in SUBSET D :
        g[s] = IF s = {} THEN b ELSE OnCompatibleDelta(g[s \ {Max(s)}], seq[Max(s)])
  BY <1>5
<1>7. g[{}] = b
  BY <1>6
<1>8. 1 \in D => g[{1}] = OnCompatibleDelta(b, seq[1])
  <2>1. {1} \ {1} = {}
    OBVIOUS
  <2>2. QED BY <1>2, <1>6, <1>7, <2>1
<1>9. D = {1, 2} => g[D] = OnCompatibleDelta(g[{1}], seq[2])
  <2>1. {1, 2} \ {2} = {1}
    OBVIOUS
  <2>2. QED BY <1>2, <1>6, <2>1
<1>10. QED BY <1>4, <1>7, <1>8, <1>9

ToolsTaken(r, s) == FoldLeft(OnToolDelta, r, s)

LEMMA OneOrTwoTools ==
  ASSUME NEW b, NEW seq, DOMAIN seq \in {{}, {1}, {1, 2}}
  PROVE  /\ DOMAIN seq = {} => ToolsTaken(b, seq) = b
         /\ DOMAIN seq = {1} => ToolsTaken(b, seq) = OnToolDelta(b, seq[1])
         /\ DOMAIN seq = {1, 2} => ToolsTaken(b, seq) = OnToolDelta(OnToolDelta(b, seq[1]), seq[2])
<1> HIDE DEF OnToolDelta
<1> DEFINE D == DOMAIN seq
           Folded(it) == it = [s \in SUBSET D |->
                            IF s = {} THEN b ELSE OnToolDelta(it[s \ {Max(s)}], seq[Max(s)])]
           f == [s \in SUBSET D |->
                   IF s = {} THEN b
                   ELSE IF s = {1} THEN OnToolDelta(b, seq[1])
                   ELSE IF s = {2} THEN OnToolDelta(b, seq[2])
                   ELSE OnToolDelta(OnToolDelta(b, seq[1]), seq[2])]
           g == CHOOSE it : Folded(it)
<1>1. \A s \in SUBSET D : s \in {{}, {1}, {2}, {1, 2}}
  OBVIOUS
<1>2. Max({1}) = 1 /\ Max({2}) = 2 /\ Max({1, 2}) = 2
  BY DEF Max
<1>3. Folded(f)
  <2> SUFFICES ASSUME NEW s \in SUBSET D, s # {}
               PROVE  f[s] = OnToolDelta(f[s \ {Max(s)}], seq[Max(s)])
    OBVIOUS
  <2>1. CASE s = {1}
    BY <1>2, <2>1
  <2>2. CASE s = {2}
    BY <1>2, <2>2
  <2>3. CASE s = {1, 2}
    <3>1. s \ {Max(s)} = {1} /\ {1} \in SUBSET D
      BY <1>2, <2>3
    <3>2. f[s] = OnToolDelta(OnToolDelta(b, seq[1]), seq[2]) /\ f[{1}] = OnToolDelta(b, seq[1])
      BY <2>3, <3>1
    <3>3. QED BY <1>2, <2>3, <3>1, <3>2
  <2>4. QED BY <1>1, <2>1, <2>2, <2>3
<1>4. ToolsTaken(b, seq) = g[D]
  BY DEF ToolsTaken, FoldLeft, MapThenFoldSet
<1>5. Folded(g)
  <2> HIDE DEF Folded
  <2>1. QED BY <1>3
<1> HIDE DEF g
<1>6. \A s \in SUBSET D :
        g[s] = IF s = {} THEN b ELSE OnToolDelta(g[s \ {Max(s)}], seq[Max(s)])
  BY <1>5
<1>7. g[{}] = b
  BY <1>6
<1>8. 1 \in D => g[{1}] = OnToolDelta(b, seq[1])
  <2>1. {1} \ {1} = {}
    OBVIOUS
  <2>2. QED BY <1>2, <1>6, <1>7, <2>1
<1>9. D = {1, 2} => g[D] = OnToolDelta(g[{1}], seq[2])
  <2>1. {1, 2} \ {2} = {1}
    OBVIOUS
  <2>2. QED BY <1>2, <1>6, <2>1
<1>10. QED BY <1>4, <1>7, <1>8, <1>9

(* The first chunk starts the stream; a finish reason is only noted.       *)
LEMMA Beginning ==
  ASSUME NEW v, NEW s, NEW lawful \in BOOLEAN, DecoderOK(s), Entries(s), Tracks(v, s)
  PROVE  LET t == [s EXCEPT !.started = TRUE]
         IN  /\ Leaves(v, IF s.started THEN <<>> ELSE <<Started>>, t, lawful)
             /\ t.started /\ t.terminal = s.terminal /\ t.next = s.next /\ t.blocks = s.blocks
             /\ t.calls = s.calls /\ t.finish = s.finish
<1> DEFINE t == [s EXCEPT !.started = TRUE]
<1>1. /\ DecoderOK(t) /\ t.started /\ t.terminal = s.terminal /\ t.next = s.next
      /\ t.blocks = s.blocks /\ t.calls = s.calls /\ t.finish = s.finish
  BY DEF DecoderOK
<1> HIDE DEF t
<1>2. CASE s.started
  <2>1. t.started = s.started
    BY <1>1, <1>2 DEF DecoderOK
  <2>2. Entries(t) /\ Tracks(v, t)
    BY <1>1, <2>1, Unmoved
  <2>3. Leaves(v, <<>>, t, lawful)
    BY <1>1, <2>2, Standing
  <2>4. QED BY <1>1, <1>2, <2>3 DEF t
<1>3. CASE ~s.started
  <2>1. Leaves(v, <<Started>>, t, lawful)
    BY <1>1, <1>3, Starting
  <2>2. QED BY <1>1, <1>3, <2>1 DEF t
<1>4. QED BY <1>2, <1>3

LEMMA Finishing ==
  ASSUME NEW u, NEW es, NEW s, NEW reason \in Reason, NEW lawful \in BOOLEAN,
         Leaves(u, es, s, lawful)
  PROVE  LET r == [Yield(s, es) EXCEPT !.state.finish = reason]
         IN  /\ ~r.thrown /\ r.events = es /\ Leaves(u, r.events, r.state, lawful)
             /\ r.state.started = s.started /\ r.state.terminal = s.terminal
             /\ r.state.next = s.next /\ r.state.blocks = s.blocks /\ r.state.calls = s.calls
             /\ r.state.finish = reason
<1> DEFINE t == [s EXCEPT !.finish = reason]
           r == [Yield(s, es) EXCEPT !.state.finish = reason]
<1>1. r.state = t /\ r.events = es /\ r.thrown = FALSE
  BY DEF Yield
<1>2. /\ DecoderOK(t) /\ t.started = s.started /\ t.terminal = s.terminal /\ t.next = s.next
      /\ t.blocks = s.blocks /\ t.calls = s.calls /\ t.finish = reason
  BY DEF Leaves, DecoderOK
<1>3. PICK w : Leads(u, es, w, lawful) /\ Tracks(w, s)
  BY DEF Leaves
<1> HIDE DEF t, r
<1>4. Entries(t) /\ Tracks(w, t)
  BY <1>2, <1>3, Unmoved DEF Leaves
<1>5. Leaves(u, es, t, lawful)
  BY <1>2, <1>3, <1>4 DEF Leaves
<1>6. QED BY <1>1, <1>2, <1>5 DEF r

(* The consumer has been told of a block, as what the decoder has it.      *)
OpenedAs(v, block) ==
  /\ block.index \in Indices /\ block.kind \in BlockKinds
  /\ block.index \in DOMAIN v.kinds /\ v.kinds[block.index] = block.kind

(* Closing a block if it was ever opened.                                  *)
LEMMA ClosesAny ==
  ASSUME NEW v \in View, NEW s, NEW b, NEW lawful \in BOOLEAN, v.phase = "streaming",
         Has(s, b) => s.blocks[b].index \in v.open /\ OpenedAs(v, s.blocks[b])
  PROVE  \E w \in View : /\ Leads(v, ClosedIfAny(s, b), w, lawful) /\ w.phase = "streaming"
                         /\ w.open = v.open \ (IF Has(s, b) THEN {s.blocks[b].index} ELSE {})
                         /\ w.kinds = v.kinds
<1>1. CASE Has(s, b)
  <2> DEFINE i == s.blocks[b].index
             kind == s.blocks[b].kind
             w == After(v, Closed(i, kind))
  <2>1. i \in Indices /\ Legal(v, Closed(i, kind), lawful)
    BY <1>1, LegalSteps DEF OpenedAs
  <2>2. w.phase = "streaming" /\ w.open = v.open \ {i} /\ w.kinds = v.kinds
    BY DEF After, Closed, View
  <2>3. w \in View /\ Leads(v, <<Closed(i, kind)>>, w, lawful)
    <3> HIDE DEF i, kind
    <3>1. QED BY <2>1, AfterView, LeadsOnce
  <2> HIDE DEF w
  <2>4. QED BY <1>1, <2>2, <2>3 DEF ClosedIfAny, Completion
<1>2. CASE ~Has(s, b)
  <2>1. Leads(v, <<>>, v, lawful) /\ ClosedIfAny(s, b) = <<>>
    BY <1>2, LeadsNowhere DEF ClosedIfAny
  <2>2. v.open = v.open \ {}
    OBVIOUS
  <2>3. QED BY <1>2, <2>1, <2>2
<1>3. QED BY <1>1, <1>2

(* What a chunk leaves of an orderly stream.                               *)
GeminiKept(r, m) ==
  /\ up.begun \/ m.type = "chunk" => r.state.started
  /\ up.finished \/ (m.type = "chunk" /\ m.finish # "none") => r.state.finish # "none"

(* What decoding the message m must establish.                             *)
GeminiDone(v, s, m, r, lawful) ==
  /\ Decoded(v, r, lawful)
  /\ ~r.thrown => /\ r.state.next \in s.next..(s.next + 4)
                  /\ r.state.terminal \/ GeminiTidy(r.state)
  /\ lawful => ~r.thrown /\ (r.state.terminal \/ GeminiKept(r, m))

(* A chunk with its parts and its finish reason.                           *)
LEMMA GeminiChunk ==
  ASSUME NEW v, NEW s, NEW m \in GeminiMessage, NEW lawful \in BOOLEAN, m.type = "chunk",
         DecoderOK(s), Entries(s), Tracks(v, s), ~s.terminal, GeminiTidy(s), Room(s, 4),
         lawful => /\ up.begun => s.started
                   /\ up.finished => s.finish # "none"
                   /\ GeminiFollows(m)
  PROVE  GeminiDone(v, s, m, TranslateGeminiChunk(s, m), lawful)
<1> DEFINE t == [s EXCEPT !.started = TRUE]
           es == IF s.started THEN <<>> ELSE <<Started>>
           begun == Yield(t, es)
           parts == m.parts
           r == PartsTaken(begun, parts)
           c == TranslateGeminiChunk(s, m)
<1>1. /\ DOMAIN parts \in {{}, {1}, {1, 2}} /\ \A i \in DOMAIN parts : parts[i] \in GeminiPart
      /\ m.finish \in Reason
  BY GeminiParts
<1>2. /\ Leaves(v, es, t, lawful)
      /\ t.started /\ t.terminal = s.terminal /\ t.next = s.next /\ t.blocks = s.blocks
      /\ t.finish = s.finish
  BY Beginning
<1>3. s.next \in Nat
  BY DEF DecoderOK
<1>4. c = IF r.thrown \/ m.finish = "none" THEN r ELSE [r EXCEPT !.state.finish = m.finish]
  BY DEF TranslateGeminiChunk, PartsTaken
<1> HIDE DEF t, es
<1>5. begun.state = t /\ begun.events = es /\ ~begun.thrown
  BY DEF Yield
<1>6. begun = Yield(begun.state, begun.events)
  BY <1>5
<1>7. Going(v, begun.events, begun.state, lawful) /\ Extends(s, begun.state, 0)
  <2>1. GeminiTidy(t)
    BY <1>2 DEF GeminiTidy, Undone
  <2>2. Going(v, es, t, lawful) /\ Extends(s, t, 0)
    BY <1>2, <1>3, <2>1 DEF Going, Extends
  <2>3. QED BY <1>5, <2>2
<1>8. lawful => \A i \in DOMAIN parts : parts[i].call # "nameless"
  BY DEF GeminiFollows
<1> DEFINE Fine(q, n) == /\ ~q.thrown /\ Going(v, q.events, q.state, lawful)
                         /\ Extends(s, q.state, n) /\ q = Yield(q.state, q.events)
           Lost(q) == q.thrown /\ q.events = <<>> /\ ~lawful
<1>9. Fine(begun, 0)
  BY <1>5, <1>6, <1>7
<1> HIDE DEF parts, begun
<1>10. ASSUME NEW i \in DOMAIN parts, NEW q, NEW n \in {0, 2}, Fine(q, n)
       PROVE  LET p == OnGeminiPart(q, parts[i]) IN Fine(p, n + 2) \/ Lost(p)
  <2> DEFINE part == parts[i]
             p == OnGeminiPart(q, part)
  <2>1. part \in GeminiPart
    BY <1>1
  <2>2. Room(q.state, 2)
    BY <1>3, <1>10 DEF Room, Extends
  <2>3. lawful => part.call # "nameless"
    BY <1>8
  <2> HIDE DEF part
  <2>4. IF part.call = "nameless" THEN p.thrown /\ p.events = <<>>
        ELSE /\ ~p.thrown /\ Going(v, p.events, p.state, lawful)
             /\ Extends(q.state, p.state, 2) /\ p = Yield(p.state, p.events)
    BY <1>10, <2>1, <2>2, GeminiPartTaken
  <2> HIDE DEF p
  <2>5. Extends(q.state, p.state, 2) => Extends(s, p.state, n + 2)
    BY <1>3, <1>10 DEF Extends
  <2>6. Fine(p, n + 2) \/ Lost(p)
    BY <2>3, <2>4, <2>5
  <2>7. QED BY <2>6 DEF p, part
<1>11. ASSUME NEW i \in DOMAIN parts, NEW q, Lost(q)
       PROVE  Lost(OnGeminiPart(q, parts[i]))
  BY <1>11 DEF OnGeminiPart, Breaks
<1>12. Fine(r, 4) \/ Lost(r)
  <2> DEFINE first == OnGeminiPart(begun, parts[1])
             second == OnGeminiPart(first, parts[2])
  <2>1. /\ DOMAIN parts = {} => r = begun
        /\ DOMAIN parts = {1} => r = first
        /\ DOMAIN parts = {1, 2} => r = second
    BY <1>1, OneOrTwoParts
  <2>2. \A q, n : Fine(q, n) /\ n \in {0, 2} => Fine(q, 4)
    BY <1>3 DEF Extends
  <2>3. 1 \in DOMAIN parts => Fine(first, 2) \/ Lost(first)
    <3>1. 0 + 2 = 2 /\ 0 \in {0, 2}
      OBVIOUS
    <3>2. QED BY <1>9, <1>10, <3>1
  <2> HIDE DEF first, Fine, Lost
  <2>4. 2 \in DOMAIN parts /\ Fine(first, 2) => Fine(second, 4) \/ Lost(second)
    <3>1. 2 + 2 = 4 /\ 2 \in {0, 2}
      OBVIOUS
    <3>2. QED BY <1>10, <3>1
  <2>5. 2 \in DOMAIN parts /\ Lost(first) => Lost(second)
    BY <1>11
  <2> HIDE DEF second, r
  <2>6. QED BY <1>1, <1>9, <2>1, <2>2, <2>3, <2>4, <2>5
<1> HIDE DEF r, c
<1>13. CASE Lost(r)
  <2>1. c = r
    BY <1>4, <1>13
  <2>2. c.thrown /\ c.events = <<>> /\ ~lawful
    BY <1>13, <2>1
  <2>3. QED BY <2>2 DEF GeminiDone, Decoded, c
<1>14. CASE Fine(r, 4) /\ m.finish = "none"
  <2>1. c = r
    BY <1>4, <1>14
  <2>2. Decoded(v, r, lawful)
    BY <1>14, Decoding DEF Going
  <2>3. lawful => GeminiKept(r, m)
    BY <1>14 DEF GeminiKept, Going, Extends
  <2>4. ~r.thrown /\ r.state.next \in s.next..(s.next + 4) /\ GeminiTidy(r.state)
    BY <1>14 DEF Going, Extends
  <2>5. GeminiDone(v, s, m, r, lawful)
    BY <2>2, <2>3, <2>4 DEF GeminiDone
  <2>6. QED BY <2>1, <2>5 DEF c
<1>15. CASE Fine(r, 4) /\ m.finish # "none"
  <2> DEFINE x == r.state
             y == r.events
  <2>1. r = Yield(x, y) /\ Leaves(v, y, x, lawful) /\ x.started /\ ~x.terminal /\ GeminiTidy(x)
        /\ x.next \in s.next..(s.next + 4)
    BY <1>15 DEF Going, Extends
  <2>2. c = [Yield(x, y) EXCEPT !.state.finish = m.finish]
    BY <1>4, <1>15, <2>1
  <2> HIDE DEF x, y
  <2>3. /\ ~c.thrown /\ Leaves(v, c.events, c.state, lawful)
        /\ c.state.started /\ ~c.state.terminal /\ c.state.next = x.next
        /\ c.state.blocks = x.blocks /\ c.state.finish = m.finish
    BY <1>1, <2>1, <2>2, Finishing
  <2>4. GeminiTidy(c.state)
    BY <2>1, <2>3 DEF GeminiTidy, Undone
  <2>5. Decoded(v, c, lawful)
    BY <2>3, Decoding
  <2>6. GeminiKept(c, m)
    BY <1>15, <2>3 DEF GeminiKept
  <2>7. ~c.thrown /\ c.state.next \in s.next..(s.next + 4)
    BY <2>1, <2>3
  <2>8. QED BY <2>4, <2>5, <2>6, <2>7 DEF GeminiDone, c
<1>16. QED BY <1>12, <1>13, <1>14, <1>15 DEF c

(* The index of a block, if there is one; two such blocks closed.          *)
IndexOfAny(s, b) == IF Has(s, b) THEN {s.blocks[b].index} ELSE {}

LEMMA ClosesBoth ==
  ASSUME NEW v, NEW s, NEW b, NEW c, NEW lawful \in BOOLEAN, b # c,
         DecoderOK(s), Entries(s), Tracks(v, s), s.started, Room(s, 0),
         Undone(s) = DOMAIN s.blocks
  PROVE  \E w \in View : /\ Leads(v, ClosedIfAny(s, b) \o ClosedIfAny(s, c), w, lawful)
                         /\ w.phase = "streaming"
                         /\ w.open = v.open \ (IndexOfAny(s, b) \cup IndexOfAny(s, c))
                         /\ w.kinds = v.kinds
<1>1. v \in View /\ v.phase = "streaming" /\ s.next \in Nat
  BY DEF Tracks, DecoderOK
<1>2. \A d \in DOMAIN s.blocks : s.blocks[d].index \in v.open /\ OpenedAs(v, s.blocks[d])
  <2>1. \A d \in DOMAIN s.blocks :
          s.blocks[d].index \in 0..(s.next - 1) /\ s.blocks[d].kind \in BlockKinds
    BY DEF Entries
  <2>2. QED BY <1>1, <2>1 DEF Room, Tracks, OpenedAs
<1>3. PICK u \in View : /\ Leads(v, ClosedIfAny(s, b), u, lawful) /\ u.phase = "streaming"
                        /\ u.open = v.open \ IndexOfAny(s, b) /\ u.kinds = v.kinds
  BY <1>1, <1>2, ClosesAny DEF Has, IndexOfAny
<1>4. Has(s, c) => s.blocks[c].index \in u.open /\ OpenedAs(u, s.blocks[c])
  BY <1>2, <1>3 DEF Has, IndexOfAny, Entries, OpenedAs
<1>5. PICK w \in View : /\ Leads(u, ClosedIfAny(s, c), w, lawful) /\ w.phase = "streaming"
                        /\ w.open = u.open \ IndexOfAny(s, c) /\ w.kinds = u.kinds
  BY <1>2, <1>3, <1>4, ClosesAny DEF Has, IndexOfAny
<1>6. Leads(v, ClosedIfAny(s, b) \o ClosedIfAny(s, c), w, lawful)
  BY <1>3, <1>5, LeadsOn
<1>7. QED BY <1>3, <1>5, <1>6

(* The end of the body closes what is open and completes the turn.         *)
LEMMA GeminiEnds ==
  ASSUME NEW v, NEW s, NEW m, NEW lawful \in BOOLEAN,
         DecoderOK(s), Entries(s), Tracks(v, s), s.started, GeminiTidy(s), Room(s, 0)
  PROVE  GeminiDone(v, s, m, CompleteGemini(s), lawful)
<1> DEFINE a == <<"reasoning">>
           b == <<"text">>
           closing == ClosedIfAny(s, a) \o ClosedIfAny(s, b)
           reason == IF s.called /\ s.finish = "end_turn" THEN "tool_use" ELSE s.finish
           ending == <<Usage, Completed(reason)>>
           t == [s EXCEPT !.terminal = TRUE]
           c == CompleteGemini(s)
<1>1. c.state = t /\ c.events = closing \o ending /\ ~c.thrown
  BY DEF CompleteGemini, Yield
<1>2. a # b /\ \A d \in DOMAIN s.blocks : d = a \/ d = b
  BY DEF GeminiTidy
<1>3. reason \in Reason /\ s.next \in Nat
  <2>1. s.finish \in Reason /\ "tool_use" \in Reason
    BY DEF DecoderOK, Reason
  <2>2. reason \in {"tool_use", s.finish}
    OBVIOUS
  <2>3. QED BY <2>1, <2>2 DEF DecoderOK
<1>4. DecoderOK(t) /\ t.terminal /\ t.next = s.next
  BY DEF DecoderOK
<1> HIDE DEF a, b, c, t, ending, reason
<1>5. PICK w \in View : /\ Leads(v, closing, w, lawful) /\ w.phase = "streaming"
                        /\ w.open = v.open \ (IndexOfAny(s, a) \cup IndexOfAny(s, b))
  BY <1>2, ClosesBoth DEF GeminiTidy
<1>6. w.open = {}
  BY <1>2, <1>5 DEF Tracks, IndexOfAny, Has, Undone
<1>7. PICK x : Leads(w, ending, x, lawful) /\ Agrees(x, t)
  BY <1>3, <1>4, <1>5, <1>6, Ending DEF ending
<1> HIDE DEF closing
<1>8. Leads(v, closing \o ending, x, lawful)
  BY <1>5, <1>7, LeadsOn
<1>9. Decoded(v, c, lawful)
  BY <1>1, <1>7, <1>8 DEF Decoded
<1>10. ~c.thrown /\ c.state.terminal /\ c.state.next \in s.next..(s.next + 4)
  BY <1>1, <1>3, <1>4
<1>11. QED BY <1>9, <1>10 DEF GeminiDone, c

(* Every message of Gemini.                                                *)
LEMMA GeminiDecodes ==
  ASSUME NEW v, NEW s, NEW m \in GeminiMessage, NEW lawful \in BOOLEAN,
         DecoderOK(s), Entries(s), Tracks(v, s), ~s.terminal, GeminiTidy(s), Room(s, 4),
         lawful => /\ up.begun => s.started
                   /\ up.finished => s.finish # "none"
                   /\ GeminiFollows(m)
  PROVE  GeminiDone(v, s, m, TranslateGemini(s, m), lawful)
<1>1. m.type \in {"chunk", "eof", "garbage"} /\ s.next \in Nat /\ s.finish \in Reason
  BY DEF GeminiMessage, DecoderOK
<1>2. CASE m.type = "chunk"
  <2>1. TranslateGemini(s, m) = TranslateGeminiChunk(s, m)
    BY <1>2 DEF TranslateGemini
  <2>2. QED BY <1>2, <2>1, GeminiChunk
<1>3. CASE m.type = "eof" /\ s.started /\ s.finish # "none"
  <2>1. TranslateGemini(s, m) = CompleteGemini(s)
    BY <1>3 DEF TranslateGemini
  <2>2. Room(s, 0)
    BY <1>1 DEF Room
  <2>3. QED BY <1>3, <2>1, <2>2, GeminiEnds
<1>4. CASE m.type = "garbage" \/ (m.type = "eof" /\ (~s.started \/ s.finish = "none"))
  <2>1. TranslateGemini(s, m) = Breaks(s)
    BY <1>4 DEF TranslateGemini
  <2>2. ~lawful
    BY <1>4 DEF GeminiFollows
  <2>3. Decoded(v, Breaks(s), lawful) /\ Breaks(s).thrown
    BY <2>2, Breaking DEF Breaks
  <2>4. GeminiDone(v, s, m, Breaks(s), lawful)
    BY <2>2, <2>3 DEF GeminiDone
  <2>5. QED BY <2>1, <2>4
<1>5. QED BY <1>1, <1>2, <1>3, <1>4

(*--------------------------- OpenAI-compatible ---------------------------*)

(* A call's delta in a compatible chunk, and the block it belongs to.      *)
CompatibleTool == [key : Key, named : BOOLEAN, arguments : BOOLEAN]

CallAt(k) == <<"tool_call", k>>

(* No block is closed before the end; its name says what it is.            *)
Labelled(s) ==
  /\ DOMAIN s.blocks \subseteq {<<"text">>, <<"reasoning">>} \cup {CallAt(k) : k \in Key}
  /\ Undone(s) = DOMAIN s.blocks

(* The list of calls numbers the blocks of calls, each once.               *)
CallBlocks(s) == {b \in DOMAIN s.blocks : b[1] = "tool_call"}

Listed(s) ==
  /\ s.calls \in Seq(Nat)
  /\ \A i, j \in DOMAIN s.calls : s.calls[i] = s.calls[j] => i = j
  /\ \A j \in DOMAIN s.calls : \E b \in CallBlocks(s) : s.calls[j] = s.blocks[b].index
  /\ \A b \in CallBlocks(s) : \E j \in DOMAIN s.calls : s.calls[j] = s.blocks[b].index

(* A started stream that has led to s, between chunks.                     *)
Running(v, es, s, lawful) ==
  Leaves(v, es, s, lawful) /\ s.started /\ ~s.terminal /\ Labelled(s) /\ Listed(s)

(* A list of at most two elements of S.                                    *)
Few(list, S) == DOMAIN list \in {{}, {1}, {1, 2}} /\ \A i \in DOMAIN list : list[i] \in S

(* A chunk has two deltas and two calls at most.                           *)
LEMMA CompatibleLists ==
  ASSUME NEW m \in CompatibleMessage, m.type = "chunk"
  PROVE  /\ Few(m.deltas, {"text", "reasoning"}) /\ Few(m.tools, CompatibleTool)
         /\ m.finish \in Reason
<1> DEFINE Sent(deltas, tools, finish) ==
             [type |-> "chunk", id |-> TRUE, deltas |-> deltas, tools |-> tools,
              finish |-> finish]
           Tool(k, named, arguments) == [key |-> k, named |-> named, arguments |-> arguments]
           Fine(c) == /\ Few(c.deltas, {"text", "reasoning"}) /\ Few(c.tools, CompatibleTool)
                      /\ c.finish \in Reason
<1>1. \/ \E f \in {"none", "end_turn", "tool_use"} : m = Sent(<<>>, <<>>, f)
      \/ \E p \in {"text", "reasoning"} : m = Sent(<<p>>, <<>>, "none")
      \/ m = Sent(<<"text", "reasoning">>, <<>>, "none")
      \/ \E k \in Key, named \in BOOLEAN : m = Sent(<<>>, <<Tool(k, named, TRUE)>>, "none")
      \/ \E k, l \in Key : m = Sent(<<>>, <<Tool(k, TRUE, FALSE), Tool(l, TRUE, TRUE)>>, "none")
      \/ m = [Sent(<<"text">>, <<>>, "none") EXCEPT !.id = FALSE]
  BY DEF CompatibleMessage
<1>2. \A S : Few(<<>>, S)
  BY DEF Few
<1>3. \A S : \A x \in S : Few(<<x>>, S)
  BY DEF Few
<1>4. \A S : \A x, y \in S : Few(<<x, y>>, S)
  BY DEF Few
<1>5. \A k \in Key, named, arguments \in BOOLEAN : Tool(k, named, arguments) \in CompatibleTool
  BY DEF CompatibleTool
<1> HIDE DEF Tool
<1>6. "none" \in Reason /\ "end_turn" \in Reason /\ "tool_use" \in Reason
  BY DEF Reason
<1>7. \A d, u, f : Few(d, {"text", "reasoning"}) /\ Few(u, CompatibleTool) /\ f \in Reason
        => Fine(Sent(d, u, f)) /\ Fine([Sent(d, u, f) EXCEPT !.id = FALSE])
  OBVIOUS
<1> HIDE DEF Sent, Fine
<1>8. Fine(m)
  <2>1. ASSUME NEW f \in {"none", "end_turn", "tool_use"}, m = Sent(<<>>, <<>>, f)
        PROVE  Fine(m)
    BY <1>2, <1>6, <1>7, <2>1
  <2>2. ASSUME NEW p \in {"text", "reasoning"}, m = Sent(<<p>>, <<>>, "none")
        PROVE  Fine(m)
    BY <1>2, <1>3, <1>6, <1>7, <2>2
  <2>3. CASE m = Sent(<<"text", "reasoning">>, <<>>, "none")
    BY <1>2, <1>4, <1>6, <1>7, <2>3
  <2>4. ASSUME NEW k \in Key, NEW named \in BOOLEAN,
               m = Sent(<<>>, <<Tool(k, named, TRUE)>>, "none")
        PROVE  Fine(m)
    <3>1. Few(<<Tool(k, named, TRUE)>>, CompatibleTool)
      BY <1>3, <1>5
    <3>2. QED BY <1>2, <1>6, <1>7, <2>4, <3>1
  <2>5. ASSUME NEW k \in Key, NEW l \in Key,
               m = Sent(<<>>, <<Tool(k, TRUE, FALSE), Tool(l, TRUE, TRUE)>>, "none")
        PROVE  Fine(m)
    <3>1. Few(<<Tool(k, TRUE, FALSE), Tool(l, TRUE, TRUE)>>, CompatibleTool)
      BY <1>4, <1>5
    <3>2. QED BY <1>2, <1>6, <1>7, <2>5, <3>1
  <2>6. CASE m = [Sent(<<"text">>, <<>>, "none") EXCEPT !.id = FALSE]
    <3>1. Few(<<"text">>, {"text", "reasoning"})
      BY <1>3
    <3>2. QED BY <1>2, <1>6, <1>7, <2>6, <3>1
  <2>7. QED BY <1>1, <2>1, <2>2, <2>3, <2>4, <2>5, <2>6
<1>9. QED BY <1>8 DEF Fine

(* Deltas taken one after another.                                         *)
LEMMA RunningOn ==
  ASSUME NEW u, NEW a, NEW b, NEW s, NEW t, NEW lawful \in BOOLEAN,
         Running(u, a, s, lawful), \A v : Tracks(v, s) => Running(v, b, t, lawful)
  PROVE  Running(u, a \o b, t, lawful)
<1>1. PICK v : Tracks(v, s)
  BY DEF Running, Leaves
<1>2. Leaves(u, a, s, lawful) /\ \A w : Tracks(w, s) => Leaves(w, b, t, lawful)
  BY DEF Running
<1>3. Leaves(u, a \o b, t, lawful)
  BY <1>2, Onwards
<1>4. QED BY <1>1, <1>3 DEF Running

LEMMA RunningStill ==
  ASSUME NEW u, NEW a, NEW s, NEW v, NEW lawful \in BOOLEAN, Running(u, a, s, lawful), Tracks(v, s)
  PROVE  Running(v, <<>>, s, lawful)
BY Standing DEF Running, Leaves

(* The list of calls is the same when a block of another kind is added.    *)
LEMMA ListedStill ==
  ASSUME NEW s, NEW t, Listed(s), t.calls = s.calls, CallBlocks(t) = CallBlocks(s),
         \A b \in CallBlocks(s) : t.blocks[b] = s.blocks[b]
  PROVE  Listed(t)
BY DEF Listed

(* A call that is opened is listed after those before it.                  *)
LEMMA ListedOneMore ==
  ASSUME NEW s, NEW t, NEW b, Listed(s), Entries(s), s.next \in Nat,
         t.calls = Append(s.calls, s.next), b \notin CallBlocks(s),
         CallBlocks(t) = CallBlocks(s) \cup {b}, t.blocks[b].index = s.next,
         \A c \in CallBlocks(s) : t.blocks[c] = s.blocks[c]
  PROVE  Listed(t)
<1>1. s.calls \in Seq(Nat) /\ t.calls \in Seq(Nat) /\ Len(t.calls) = Len(s.calls) + 1
  BY DEF Listed
<1> DEFINE n == Len(s.calls)
<1>2. /\ n \in Nat /\ DOMAIN s.calls = 1..n /\ DOMAIN t.calls = 1..(n + 1)
      /\ t.calls[n + 1] = s.next /\ \A j \in 1..n : t.calls[j] = s.calls[j]
  BY <1>1
<1>3. \A j \in 1..n : s.calls[j] # s.next
  <2>1. \A c \in CallBlocks(s) : s.blocks[c].index \in 0..(s.next - 1)
    BY DEF CallBlocks, Entries
  <2>2. \A c \in CallBlocks(s) : s.blocks[c].index # s.next
    BY <2>1
  <2>3. \A j \in 1..n : \E c \in CallBlocks(s) : s.calls[j] = s.blocks[c].index
    BY <1>2 DEF Listed
  <2>4. QED BY <2>2, <2>3
<1> HIDE DEF n
<1>4. \A i, j \in DOMAIN t.calls : t.calls[i] = t.calls[j] => i = j
  <2>1. \A i, j \in 1..n : s.calls[i] = s.calls[j] => i = j
    BY <1>2 DEF Listed
  <2>2. \A j \in 1..(n + 1) : j \in 1..n \/ j = n + 1
    BY <1>2
  <2>3. QED BY <1>2, <1>3, <2>1, <2>2
<1>5. \A j \in DOMAIN t.calls : \E c \in CallBlocks(t) : t.calls[j] = t.blocks[c].index
  <2>1. \A j \in 1..(n + 1) : j \in 1..n \/ j = n + 1
    BY <1>2
  <2>2. \A j \in 1..n : \E c \in CallBlocks(s) : s.calls[j] = s.blocks[c].index
    BY <1>2 DEF Listed
  <2>3. QED BY <1>2, <2>1, <2>2
<1>6. \A c \in CallBlocks(t) : \E j \in DOMAIN t.calls : t.calls[j] = t.blocks[c].index
  <2>1. n + 1 \in 1..(n + 1) /\ 1..n \subseteq 1..(n + 1)
    BY <1>2
  <2>2. \A c \in CallBlocks(s) : \E j \in 1..n : s.calls[j] = s.blocks[c].index
    BY <1>2 DEF Listed
  <2>3. QED BY <1>2, <2>1, <2>2
<1>7. QED BY <1>1, <1>4, <1>5, <1>6 DEF Listed

(* Concatenation is associative.                                           *)
LEMMA JoinedEitherWay ==
  ASSUME NEW a \in Seq(CanonicalEvent), NEW b \in Seq(CanonicalEvent),
         NEW c \in Seq(CanonicalEvent)
  PROVE  (a \o b) \o c = a \o (b \o c)
OBVIOUS

(* One delta has been taken: one block more at most.                       *)
Taken(v, r, q, lawful) ==
  /\ ~q.thrown /\ q = Yield(q.state, q.events) /\ Running(v, q.events, q.state, lawful)
  /\ Extends(r.state, q.state, 1) /\ DOMAIN r.state.blocks \subseteq DOMAIN q.state.blocks

(* The handlers of a text and of a call delta: only a call that is neither *)
(* known nor named throws.                                                 *)
LEMMA CompatibleDeltaTaken ==
  ASSUME NEW v, NEW r, NEW part \in {"text", "reasoning"}, NEW lawful \in BOOLEAN,
         ~r.thrown, Running(v, r.events, r.state, lawful), Room(r.state, 1)
  PROVE  Taken(v, r, OnCompatibleDelta(r, part), lawful)
<1> DEFINE s == r.state
           b == IF part = "text" THEN <<"text">> ELSE <<"reasoning">>
           kind == IF part = "text" THEN "text" ELSE "summary"
           x == Touch(s, b, kind)
           t == x.state
           delta == <<Delta(t.blocks[b].index, part)>>
           q == OnCompatibleDelta(r, part)
<1>1. /\ kind \in BlockKinds /\ part \in PartName /\ kind \in KindOf(PartOf(b))
      /\ KindOf(PartOf(b)) \subseteq KindOf(part)
  BY DEF BlockKinds, PartName, PartOf, KindOf
<1>2. /\ DecoderOK(s) /\ Entries(s) /\ s.started /\ ~s.terminal /\ Labelled(s) /\ Listed(s)
      /\ s.next \in Nat
  BY DEF Running, Leaves, DecoderOK
<1>3. b \in DOMAIN s.blocks => b \in Undone(s)
  BY <1>2 DEF Labelled
<1>4. b \in {<<"text">>, <<"reasoning">>} /\ b[1] # "tool_call"
  OBVIOUS
<1>5. q = Yield(t, r.events \o x.events \o delta)
  BY DEF OnCompatibleDelta
<1>6. Room(s, 1)
  OBVIOUS
<1> HIDE DEF s, b, kind, delta, q
<1>7. /\ DOMAIN t.blocks = DOMAIN s.blocks \cup {b}
      /\ \A c \in DOMAIN s.blocks : t.blocks[c] = s.blocks[c]
      /\ b \notin DOMAIN s.blocks => t.blocks[b] = Block(s.next, kind)
      /\ t.started /\ t.terminal = s.terminal /\ t.finish = s.finish /\ t.calls = s.calls
      /\ t.next \in {s.next, s.next + 1}
  <2>1. PICK w : Tracks(w, s)
    BY DEF Running, Leaves, s
  <2>2. QED BY <1>1, <1>2, <1>6, <2>1, Touching
<1>8. \A w : Tracks(w, s) => Leaves(w, x.events \o delta, t, lawful)
  BY <1>1, <1>2, <1>3, <1>6, Adding DEF delta
<1> HIDE DEF x, t
<1>9. Labelled(t)
  BY <1>2, <1>4, <1>7 DEF Labelled, Undone, Block
<1>10. Listed(t)
  <2>1. CallBlocks(t) = CallBlocks(s) /\ \A c \in CallBlocks(s) : t.blocks[c] = s.blocks[c]
    BY <1>4, <1>7 DEF CallBlocks
  <2>2. QED BY <1>2, <1>7, <2>1, ListedStill
<1>11. \A w : Tracks(w, s) => Running(w, x.events \o delta, t, lawful)
  BY <1>2, <1>7, <1>8, <1>9, <1>10 DEF Running
<1> DEFINE es == x.events \o delta
<1>12. Running(v, r.events \o es, t, lawful)
  <2> HIDE DEF es
  <2>1. Running(v, r.events, s, lawful) /\ \A w : Tracks(w, s) => Running(w, es, t, lawful)
    BY <1>11 DEF s, es
  <2>2. QED BY <2>1, RunningOn
<1>13. r.events \o x.events \o delta = r.events \o es
  <2>1. PICK w : Tracks(w, s)
    BY DEF Running, Leaves, s
  <2>2. r.events \in Seq(CanonicalEvent)
    BY DEF Running, Leaves, Leads
  <2>3. PICK y : Tracks(y, s) /\ Leads(v, r.events, y, lawful)
    BY DEF Running, Leaves, s
  <2>4. x.events \in Seq(CanonicalEvent) /\ delta \in Seq(CanonicalEvent)
    <3>1. x.events \in Seq(CanonicalEvent)
      BY <1>1, <1>2, <1>6, <2>1, Touching DEF Leaves, Leads, x
    <3>2. DecoderOK(t) /\ Entries(t) /\ t.next - 1 \in Int /\ b \in DOMAIN t.blocks
      BY <1>7, <1>8, <2>1 DEF Leaves, DecoderOK
    <3>3. t.blocks[b].index \in 0..(t.next - 1)
      BY <3>2 DEF Entries
    <3>4. 0..(t.next - 1) \subseteq Indices
      BY <1>2, <1>6, <1>7 DEF Room
    <3>5. Delta(t.blocks[b].index, part) \in CanonicalEvent
      BY <1>1, <3>3, <3>4 DEF CanonicalEvent
    <3>6. QED BY <3>1, <3>5 DEF delta
  <2> HIDE DEF delta
  <2>5. QED BY <2>2, <2>4, JoinedEitherWay
<1>14. q.state = t /\ q.events = r.events \o es /\ ~q.thrown
  BY <1>5, <1>13 DEF Yield
<1> HIDE DEF es
<1>15. q = Yield(q.state, q.events)
  BY <1>5 DEF Yield
<1>16. Extends(s, t, 1)
  BY <1>2, <1>7 DEF Extends
<1>17. QED BY <1>7, <1>12, <1>14, <1>15, <1>16 DEF Taken, s, q

LEMMA CompatibleToolTaken ==
  ASSUME NEW v, NEW r, NEW d \in CompatibleTool, NEW lawful \in BOOLEAN,
         ~r.thrown, Running(v, r.events, r.state, lawful), Room(r.state, 1)
  PROVE  LET q == OnToolDelta(r, d)
         IN  IF CallAt(d.key) \notin DOMAIN r.state.blocks /\ ~d.named THEN q.thrown
             ELSE Taken(v, r, q, lawful) /\ CallAt(d.key) \in DOMAIN q.state.blocks
<1> DEFINE s == r.state
           b == CallAt(d.key)
           x == Touch(s, b, "tool_call")
           t == x.state
           i == t.blocks[b].index
           calls == IF Has(s, b) THEN t.calls ELSE Append(t.calls, i)
           u == [t EXCEPT !.calls = calls]
           delta == IF d.arguments THEN <<Delta(i, "arguments")>> ELSE <<>>
           q == OnToolDelta(r, d)
<1>1. CASE b \notin DOMAIN s.blocks /\ ~d.named
  BY <1>1 DEF OnToolDelta, Nameless, Has, Breaks, CallAt
<1>2. CASE b \in DOMAIN s.blocks \/ d.named
  <2>1. q = Yield(u, r.events \o x.events \o delta)
    BY <1>2 DEF OnToolDelta, Nameless, Has, CallAt
  <2>2. /\ "tool_call" \in BlockKinds /\ "arguments" \in PartName
        /\ "tool_call" \in KindOf(PartOf(b)) /\ KindOf(PartOf(b)) \subseteq KindOf("arguments")
        /\ b[1] = "tool_call"
    BY DEF BlockKinds, PartName, PartOf, KindOf, CallAt
  <2>3. /\ DecoderOK(s) /\ Entries(s) /\ s.started /\ ~s.terminal /\ Labelled(s) /\ Listed(s)
        /\ s.next \in Nat
    BY DEF Running, Leaves, DecoderOK
  <2>4. b \in {CallAt(k) : k \in Key}
    BY DEF CompatibleTool
  <2>5. Room(s, 1)
    OBVIOUS
  <2>6. PICK y : Tracks(y, s) /\ Leads(v, r.events, y, lawful)
    BY DEF Running, Leaves
  <2> HIDE DEF s, b, q, delta
  <2>7. /\ DOMAIN t.blocks = DOMAIN s.blocks \cup {b}
        /\ \A c \in DOMAIN s.blocks : t.blocks[c] = s.blocks[c]
        /\ b \notin DOMAIN s.blocks => t.blocks[b] = Block(s.next, "tool_call")
        /\ t.started /\ t.terminal = s.terminal /\ t.finish = s.finish /\ t.calls = s.calls
        /\ t.next \in {s.next, s.next + 1}
    BY <2>2, <2>3, <2>5, <2>6, Touching
  <2>8. \A w : Tracks(w, s) => Leaves(w, x.events, t, lawful)
    BY <2>2, <2>3, <2>5, Touching
  <2> HIDE DEF x
  <2>9. DecoderOK(t) /\ Entries(t) /\ t.next \in Nat /\ x.events \in Seq(CanonicalEvent)
    BY <2>6, <2>8 DEF Leaves, DecoderOK, Leads
  <2>10. Labelled(t) /\ b \in DOMAIN t.blocks
    BY <2>3, <2>4, <2>7 DEF Labelled, Undone, Block
  <2> HIDE DEF t
  <2>11. /\ DecoderOK(u) /\ u.blocks = t.blocks /\ u.next = t.next /\ u.started = t.started
         /\ u.terminal = t.terminal /\ u.finish = t.finish /\ u.calls = calls
    BY <2>9 DEF DecoderOK
  <2>12. Listed(u)
    <3>1. CASE b \in DOMAIN s.blocks
      <4>1. u.calls = s.calls
        BY <2>7, <2>11, <3>1 DEF Has
      <4>2. CallBlocks(u) = CallBlocks(s) /\ \A c \in CallBlocks(s) : u.blocks[c] = s.blocks[c]
        BY <2>7, <2>11, <3>1 DEF CallBlocks
      <4> HIDE DEF u
      <4>3. QED BY <2>3, <4>1, <4>2, ListedStill
    <3>2. CASE b \notin DOMAIN s.blocks
      <4>1. i = s.next /\ u.blocks[b].index = s.next
        BY <2>7, <2>11, <3>2 DEF Block
      <4>2. u.calls = Append(s.calls, s.next)
        BY <2>7, <2>11, <3>2, <4>1 DEF Has
      <4>3. /\ CallBlocks(u) = CallBlocks(s) \cup {b} /\ b \notin CallBlocks(s)
            /\ \A c \in CallBlocks(s) : u.blocks[c] = s.blocks[c]
        BY <2>2, <2>7, <2>11, <3>2 DEF CallBlocks
      <4> HIDE DEF u
      <4>4. QED BY <2>3, <4>1, <4>2, <4>3, ListedOneMore
    <3>3. QED BY <3>1, <3>2
  <2>13. Labelled(u)
    BY <2>10, <2>11 DEF Labelled, Undone
  <2>14. i \in Indices /\ Room(t, 0)
    <3>1. i \in 0..(t.next - 1)
      BY <2>9, <2>10 DEF Entries
    <3>2. 0..(t.next - 1) \subseteq Indices
      BY <2>3, <2>5, <2>7 DEF Room
    <3>3. QED BY <2>9, <3>1, <3>2 DEF Room
  <2>15. delta \in Seq(CanonicalEvent)
    <3>1. Delta(i, "arguments") \in CanonicalEvent
      BY <2>2, <2>14 DEF CanonicalEvent
    <3>2. QED BY <3>1 DEF delta
  <2> HIDE DEF u
  <2>16. ASSUME NEW w, Tracks(w, t)
         PROVE  Running(w, delta, u, lawful)
    <3>1. Entries(u) /\ Tracks(w, u)
      BY <2>9, <2>11, <2>16, Unmoved
    <3>2. Leads(w, <<Delta(i, "arguments")>>, w, lawful)
      <4>1. b \in Undone(t)
        BY <2>10 DEF Labelled
      <4>2. QED BY <2>2, <2>7, <2>9, <2>10, <2>14, <2>16, <4>1, Growing
    <3>3. Leads(w, delta, w, lawful)
      BY <3>2, LeadsNowhere DEF delta
    <3>4. Leaves(w, delta, u, lawful)
      BY <2>11, <3>1, <3>3 DEF Leaves
    <3>5. u.started /\ ~u.terminal
      BY <2>3, <2>7, <2>11
    <3>6. QED BY <2>12, <2>13, <3>4, <3>5 DEF Running
  <2>17. Leaves(v, r.events \o x.events, t, lawful)
    <3> DEFINE es == x.events
    <3>1. Leaves(v, r.events, s, lawful)
      BY DEF Running, s
    <3>2. \A w : Tracks(w, s) => Leaves(w, es, t, lawful)
      BY <2>8
    <3> HIDE DEF es
    <3>3. Leaves(v, r.events \o es, t, lawful)
      BY <3>1, <3>2, Onwards
    <3>4. QED BY <3>3 DEF es
  <2> DEFINE es == r.events \o x.events
  <2>18. Running(v, es \o delta, u, lawful)
    <3> HIDE DEF es
    <3>1. Leaves(v, es, t, lawful)
      BY <2>17 DEF es
    <3>2. PICK z : Tracks(z, t)
      BY <3>1 DEF Leaves
    <3>3. \A w : Tracks(w, t) => Leaves(w, delta, u, lawful)
      BY <2>16 DEF Running
    <3>4. Leaves(v, es \o delta, u, lawful)
      BY <3>1, <3>3, Onwards
    <3>5. QED BY <2>16, <3>2, <3>4 DEF Running
  <2>19. q.state = u /\ q.events = es \o delta /\ ~q.thrown
    BY <2>1 DEF Yield
  <2> HIDE DEF es
  <2>20. q = Yield(q.state, q.events)
    BY <2>1 DEF Yield
  <2>21. Extends(s, u, 1)
    BY <2>3, <2>7, <2>11 DEF Extends
  <2>22. DOMAIN u.blocks = DOMAIN s.blocks \cup {b}
    BY <2>7, <2>11
  <2>23. Taken(v, r, q, lawful) /\ b \in DOMAIN q.state.blocks
    BY <2>18, <2>19, <2>20, <2>21, <2>22 DEF Taken, s
  <2>24. QED BY <1>2, <2>23 DEF q, s, b
<1>3. QED BY <1>1, <1>2

(* A view whose open and closed blocks are others; the closing of a list   *)
(* of calls is a sequence of these.                                        *)
Replace(w, open, closed) == [w EXCEPT !.open = open, !.closed = closed]

LEMMA Replaced ==
  ASSUME NEW w \in View, NEW open \in SUBSET Indices, NEW closed \in SUBSET Indices
  PROVE  /\ Replace(w, open, closed) \in View
         /\ Replace(w, open, closed).open = open /\ Replace(w, open, closed).closed = closed
         /\ Replace(w, open, closed).phase = w.phase /\ Replace(w, open, closed).kinds = w.kinds
BY DEF View, Replace

LEMMA ReplacedAgain ==
  ASSUME NEW w \in View, NEW open \in SUBSET Indices, NEW closed \in SUBSET Indices,
         NEW open2 \in SUBSET Indices, NEW closed2 \in SUBSET Indices
  PROVE  Replace(Replace(w, open, closed), open2, closed2) = Replace(w, open2, closed2)
BY DEF View, Replace

LEMMA NotReplaced ==
  ASSUME NEW w \in View
  PROVE  Replace(w, w.open, w.closed) = w
BY DEF View, Replace

(* A list without repetitions, its elements, and the events that close     *)
(* each of them.                                                           *)
Distinct(calls) == \A i, j \in DOMAIN calls : calls[i] = calls[j] => i = j

Members(calls) == {calls[j] : j \in DOMAIN calls}

EachClosed(calls) == [j \in DOMAIN calls |-> Closed(calls[j], "tool_call")]

(* The calls of a list are closed one after another.                       *)
LEMMA ClosesAll ==
  ASSUME NEW w \in View, NEW calls \in Seq(Nat), NEW lawful \in BOOLEAN, w.phase = "streaming",
         Distinct(calls), w.open = Members(calls),
         \A i \in Members(calls) : i \in DOMAIN w.kinds /\ w.kinds[i] = "tool_call"
  PROVE  \E x \in View :
           /\ Leads(w, EachClosed(calls), x, lawful)
           /\ x.phase = "streaming" /\ x.open = {}
<1> DEFINE n == Len(calls)
           Left(j) == {calls[k] : k \in (j + 1)..n}
           Gone(j) == w.closed \cup {calls[k] : k \in 1..j}
           V == [j \in 0..n |-> Replace(w, Left(j), Gone(j))]
           End(i) == Closed(i, "tool_call")
           es == [j \in DOMAIN calls |-> End(calls[j])]
<1>1. n \in Nat /\ DOMAIN calls = 1..n /\ \A j \in 1..n : calls[j] \in Indices
  <2>1. n \in Nat /\ DOMAIN calls = 1..n
    OBVIOUS
  <2>2. w.open \subseteq Indices
    BY DEF View
  <2>3. QED BY <2>1, <2>2 DEF Members
<1>2. es \in Seq(CanonicalEvent) /\ Len(es) = n /\ \A j \in 1..n : es[j] = End(calls[j])
  <2>1. \A j \in 1..n : End(calls[j]) \in CanonicalEvent
    BY <1>1 DEF CanonicalEvent, BlockKinds
  <2>2. es \in [1..n -> CanonicalEvent] /\ \A j \in 1..n : es[j] = End(calls[j])
    BY <1>1, <2>1
  <2> HIDE DEF es
  <2>3. es \in Seq(CanonicalEvent)
    BY <1>1, <2>2, SeqDef
  <2>4. QED BY <1>1, <2>2, <2>3
<1>3. \A j \in 0..n : Left(j) \in SUBSET Indices /\ Gone(j) \in SUBSET Indices
  BY <1>1 DEF View
<1>4. V[0] = w
  <2>1. Left(0) = w.open /\ Gone(0) = w.closed
    <3>1. (0 + 1)..n = 1..n /\ 1..0 = {}
      OBVIOUS
    <3>2. QED BY <1>1, <3>1 DEF Members
  <2>2. V[0] = Replace(w, Left(0), Gone(0))
    BY <1>1
  <2> HIDE DEF V, Left, Gone
  <2>3. V[0] = Replace(w, w.open, w.closed)
    BY <2>1, <2>2
  <2>4. QED BY <2>3, NotReplaced
<1>5. Left(n) = {}
  BY <1>1
<1>6. \A j \in 0..n : V[j] = Replace(w, Left(j), Gone(j))
  OBVIOUS
<1>7. ASSUME NEW j \in 1..n
      PROVE  /\ j \in 0..n /\ j - 1 \in 0..n
             /\ calls[j] \in Left(j - 1) /\ Left(j) = Left(j - 1) \ {calls[j]}
             /\ Gone(j) = Gone(j - 1) \cup {calls[j]}
  <2>1. j \in 0..n /\ j - 1 \in 0..n
    BY <1>1
  <2>2. ((j - 1) + 1)..n = {j} \cup (j + 1)..n /\ 1..j = 1..(j - 1) \cup {j} /\ j \notin (j + 1)..n
        /\ (j + 1)..n \subseteq 1..n
    BY <1>1
  <2>3. calls[j] \notin Left(j)
    BY <1>1, <2>2 DEF Distinct
  <2>4. Left(j - 1) = {calls[j]} \cup Left(j)
    BY <2>2
  <2>5. Gone(j) = Gone(j - 1) \cup {calls[j]}
    BY <2>2
  <2> HIDE DEF Left, Gone
  <2>6. QED BY <2>1, <2>3, <2>4, <2>5
<1> HIDE DEF V, Left, Gone, es, n
<1>8. ASSUME NEW j \in 1..n
      PROVE  Legal(V[j - 1], es[j], lawful) /\ V[j] = After(V[j - 1], es[j])
  <2> DEFINE u == V[j - 1]
             i == calls[j]
  <2>1. /\ u = Replace(w, Left(j - 1), Gone(j - 1)) /\ u \in View
        /\ u.open = Left(j - 1) /\ u.closed = Gone(j - 1) /\ u.phase = "streaming"
        /\ u.kinds = w.kinds
    <3>1. u = Replace(w, Left(j - 1), Gone(j - 1))
      BY <1>6, <1>7
    <3>2. Left(j - 1) \in SUBSET Indices /\ Gone(j - 1) \in SUBSET Indices
      BY <1>3, <1>7
    <3> DEFINE open == Left(j - 1)
               closed == Gone(j - 1)
    <3> HIDE DEF u, open, closed
    <3>3. u \in View /\ u.open = open /\ u.closed = closed /\ u.phase = w.phase
          /\ u.kinds = w.kinds
      <4>1. open \in SUBSET Indices /\ closed \in SUBSET Indices
        BY <3>2 DEF open, closed
      <4>2. u = Replace(w, open, closed)
        BY <3>1 DEF open, closed
      <4>3. QED BY <4>1, <4>2, Replaced
    <3>4. QED BY <3>1, <3>3 DEF open, closed
  <2>2. /\ i \in u.open /\ i \in Indices /\ es[j] = End(i)
        /\ i \in DOMAIN u.kinds /\ u.kinds[i] = "tool_call"
    <3>1. calls[j] \in Left(j - 1) /\ calls[j] \in Indices /\ es[j] = End(calls[j])
      BY <1>1, <1>2, <1>7
    <3>2. calls[j] \in DOMAIN w.kinds /\ w.kinds[calls[j]] = "tool_call"
      BY <1>1 DEF Members
    <3> HIDE DEF u
    <3>3. QED BY <2>1, <3>1, <3>2
  <2> HIDE DEF u, i
  <2>3. Legal(u, End(i), lawful)
    <3>1. "tool_call" \in BlockKinds
      BY DEF BlockKinds
    <3>2. QED BY <2>1, <2>2, <3>1, LegalSteps
  <2>4. After(u, End(i)) = Replace(u, u.open \ {i}, u.closed \cup {i})
    BY <2>1 DEF After, Closed, View, Replace
  <2>5. After(u, End(i)) = Replace(w, Left(j), Gone(j))
    <3> DEFINE open == Left(j - 1)
               closed == Gone(j - 1)
               open2 == Left(j)
               closed2 == Gone(j)
    <3>1. u.open \ {i} = open2 /\ u.closed \cup {i} = closed2
      BY <1>7, <2>1 DEF i
    <3>2. /\ open \in SUBSET Indices /\ closed \in SUBSET Indices
          /\ open2 \in SUBSET Indices /\ closed2 \in SUBSET Indices
      BY <1>3, <1>7
    <3>3. u = Replace(w, open, closed)
      BY <2>1
    <3> HIDE DEF open, closed, open2, closed2
    <3>4. After(u, End(i)) = Replace(u, open2, closed2)
      BY <2>4, <3>1
    <3>5. Replace(u, open2, closed2)
            = Replace(w, open2, closed2)
      BY <3>2, <3>3, ReplacedAgain
    <3>6. QED BY <3>4, <3>5 DEF open2, closed2
  <2>6. V[j] = Replace(w, Left(j), Gone(j))
    BY <1>6, <1>7
  <2>7. QED BY <2>2, <2>3, <2>5, <2>6 DEF u
<1>9. V[n] \in View /\ V[n].phase = "streaming" /\ V[n].open = {}
  <2>1. n \in 0..n
    BY <1>1
  <2>2. Left(n) \in SUBSET Indices /\ Gone(n) \in SUBSET Indices
    BY <1>3, <2>1
  <2>3. V[n] = Replace(w, Left(n), Gone(n))
    BY <1>6, <2>1
  <2> DEFINE x == V[n]
             open == Left(n)
             closed == Gone(n)
  <2> HIDE DEF x, open, closed
  <2>4. x \in View /\ x.open = open /\ x.closed = closed /\ x.phase = w.phase
    <3>1. open \in SUBSET Indices /\ closed \in SUBSET Indices
      BY <2>2 DEF open, closed
    <3>2. x = Replace(w, open, closed)
      BY <2>3 DEF x, open, closed
    <3>3. QED BY <3>1, <3>2, Replaced
  <2>5. QED BY <1>5, <2>4 DEF x, open
<1>10. Leads(w, es, V[n], lawful)
  BY <1>2, <1>4, <1>8 DEF Leads
<1>11. QED BY <1>9, <1>10 DEF es, EachClosed

(* What some deltas of a chunk leave of it, n blocks later at most.        *)
Brought(v, s, q, n, lawful) ==
  /\ ~q.thrown /\ q = Yield(q.state, q.events) /\ Running(v, q.events, q.state, lawful)
  /\ Extends(s, q.state, n) /\ DOMAIN s.blocks \subseteq DOMAIN q.state.blocks

(* Counting the blocks of a chunk: one delta more, a weaker count, and the *)
(* room that is left.                                                      *)
LEMMA BroughtOn ==
  ASSUME NEW v, NEW s, NEW r, NEW q, NEW n \in Nat, NEW lawful \in BOOLEAN,
         s.next \in Nat, Brought(v, s, r, n, lawful), Taken(v, r, q, lawful)
  PROVE  Brought(v, s, q, n + 1, lawful)
BY DEF Brought, Taken, Extends

LEMMA BroughtMore ==
  ASSUME NEW v, NEW s, NEW r, NEW n \in Nat, NEW k \in Nat, NEW lawful \in BOOLEAN,
         s.next \in Nat, Brought(v, s, r, n, lawful), n <= k
  PROVE  Brought(v, s, r, k, lawful)
BY DEF Brought, Extends

LEMMA BroughtRoom ==
  ASSUME NEW v, NEW s, NEW r, NEW n \in Nat, n <= 3, NEW lawful \in BOOLEAN,
         s.next \in Nat, Brought(v, s, r, n, lawful), Room(s, 4)
  PROVE  Room(r.state, 1)
BY DEF Brought, Extends, Room

(* One and then up to two deltas of a chunk.                               *)
LEMMA OneDelta ==
  ASSUME NEW v, NEW s, NEW r, NEW part \in {"text", "reasoning"}, NEW n \in Nat, NEW k \in Nat,
         n <= 3, k = n + 1, NEW lawful \in BOOLEAN,
         s.next \in Nat, Brought(v, s, r, n, lawful), Room(s, 4)
  PROVE  Brought(v, s, OnCompatibleDelta(r, part), k, lawful)
<1> DEFINE q == OnCompatibleDelta(r, part)
<1>1. Room(r.state, 1)
  BY BroughtRoom
<1>2. Taken(v, r, q, lawful)
  BY <1>1, CompatibleDeltaTaken DEF Brought
<1> HIDE DEF q
<1>3. Brought(v, s, q, k, lawful)
  BY <1>2, BroughtOn
<1>4. QED BY <1>3 DEF q

LEMMA SomeDeltas ==
  ASSUME NEW v, NEW s, NEW r, NEW list, NEW lawful \in BOOLEAN,
         Few(list, {"text", "reasoning"}),
         s.next \in Nat, Brought(v, s, r, 0, lawful), Room(s, 4)
  PROVE  Brought(v, s, DeltasTaken(r, list), 2, lawful)
<1> DEFINE first == OnCompatibleDelta(r, list[1])
           second == OnCompatibleDelta(first, list[2])
<1>1. /\ DOMAIN list = {} => DeltasTaken(r, list) = r
      /\ DOMAIN list = {1} => DeltasTaken(r, list) = first
      /\ DOMAIN list = {1, 2} => DeltasTaken(r, list) = second
  BY OneOrTwoDeltas DEF Few
<1>2. 1 \in DOMAIN list => Brought(v, s, first, 1, lawful)
  <2> SUFFICES ASSUME 1 \in DOMAIN list PROVE Brought(v, s, first, 1, lawful)
    OBVIOUS
  <2> DEFINE part == list[1]
  <2>1. part \in {"text", "reasoning"} /\ 0 \in Nat /\ 1 \in Nat /\ 0 <= 3 /\ 1 = 0 + 1
    BY DEF Few
  <2> HIDE DEF part
  <2>2. Brought(v, s, OnCompatibleDelta(r, part), 1, lawful)
    BY <2>1, OneDelta
  <2>3. QED BY <2>2 DEF part
<1> HIDE DEF first
<1>3. 2 \in DOMAIN list => Brought(v, s, second, 2, lawful)
  <2> SUFFICES ASSUME 2 \in DOMAIN list PROVE Brought(v, s, second, 2, lawful)
    OBVIOUS
  <2> DEFINE part == list[2]
  <2>1. /\ part \in {"text", "reasoning"} /\ 1 \in Nat /\ 2 \in Nat /\ 1 <= 3 /\ 2 = 1 + 1
        /\ Brought(v, s, first, 1, lawful)
    BY <1>2 DEF Few
  <2> HIDE DEF part
  <2>2. Brought(v, s, OnCompatibleDelta(first, part), 2, lawful)
    BY <2>1, OneDelta
  <2>3. QED BY <2>2 DEF part
<1> HIDE DEF second
<1>4. DOMAIN list = {} => Brought(v, s, r, 2, lawful)
  BY BroughtMore
<1>5. 1 \in DOMAIN list => Brought(v, s, first, 2, lawful)
  BY <1>2, BroughtMore
<1>6. QED BY <1>1, <1>3, <1>4, <1>5 DEF Few

(* The calls an orderly provider may send: named, or known.                *)
Allowed(s, d, lawful) == lawful => d.named \/ CallAt(d.key) \in DOMAIN s.blocks

AllAllowed(s, list, lawful) == \A i \in DOMAIN list : Allowed(s, list[i], lawful)

(* What a call's delta leaves.                                             *)
ToolTaken(v, s, r, d, q, n, lawful) ==
  \/ q.thrown /\ ~lawful
  \/ /\ Brought(v, s, q, n, lawful) /\ CallAt(d.key) \in DOMAIN q.state.blocks
     /\ DOMAIN r.state.blocks \subseteq DOMAIN q.state.blocks

(* One and then up to two calls of a chunk.                                *)
LEMMA OneTool ==
  ASSUME NEW v, NEW s, NEW r, NEW d \in CompatibleTool, NEW n \in Nat, NEW k \in Nat,
         n <= 3, k = n + 1, NEW lawful \in BOOLEAN,
         s.next \in Nat, Brought(v, s, r, n, lawful), Room(s, 4),
         Allowed(s, d, lawful)
  PROVE  ToolTaken(v, s, r, d, OnToolDelta(r, d), k, lawful)
<1> DEFINE q == OnToolDelta(r, d)
<1>1. Room(r.state, 1)
  BY BroughtRoom
<1>2. DOMAIN s.blocks \subseteq DOMAIN r.state.blocks
  BY DEF Brought
<1>3. IF CallAt(d.key) \notin DOMAIN r.state.blocks /\ ~d.named THEN q.thrown
      ELSE Taken(v, r, q, lawful) /\ CallAt(d.key) \in DOMAIN q.state.blocks
  BY <1>1, CompatibleToolTaken DEF Brought
<1> HIDE DEF q
<1>4. CASE CallAt(d.key) \notin DOMAIN r.state.blocks /\ ~d.named
  BY <1>2, <1>3, <1>4 DEF Allowed, ToolTaken, q
<1>5. CASE ~(CallAt(d.key) \notin DOMAIN r.state.blocks /\ ~d.named)
  <2>1. Taken(v, r, q, lawful) /\ CallAt(d.key) \in DOMAIN q.state.blocks
    BY <1>3, <1>5
  <2>2. Brought(v, s, q, k, lawful)
    BY <2>1, BroughtOn
  <2>3. DOMAIN r.state.blocks \subseteq DOMAIN q.state.blocks
    BY <2>1 DEF Taken
  <2>4. QED BY <2>1, <2>2, <2>3 DEF ToolTaken, q
<1>6. QED BY <1>4, <1>5

(* Every call of the chunk has its block.                                  *)
ToolsSeen(list, q) == \A i \in DOMAIN list : CallAt(list[i].key) \in DOMAIN q.state.blocks

LEMMA SomeTools ==
  ASSUME NEW v, NEW s, NEW r, NEW list, NEW lawful \in BOOLEAN,
         Few(list, CompatibleTool), AllAllowed(s, list, lawful),
         s.next \in Nat, Brought(v, s, r, 2, lawful), Room(s, 4)
  PROVE  LET q == ToolsTaken(r, list)
         IN  \/ q.thrown /\ ~lawful
             \/ Brought(v, s, q, 4, lawful) /\ ToolsSeen(list, q)
<1> DEFINE first == OnToolDelta(r, list[1])
           second == OnToolDelta(first, list[2])
           q == ToolsTaken(r, list)
           Lost(x) == x.thrown /\ ~lawful
<1>1. /\ DOMAIN list = {} => q = r
      /\ DOMAIN list = {1} => q = first
      /\ DOMAIN list = {1, 2} => q = second
  BY OneOrTwoTools DEF Few
<1>2. 1 \in DOMAIN list =>
        \/ Lost(first)
        \/ Brought(v, s, first, 3, lawful) /\ CallAt(list[1].key) \in DOMAIN first.state.blocks
  <2> SUFFICES ASSUME 1 \in DOMAIN list
               PROVE  \/ Lost(first)
                      \/ /\ Brought(v, s, first, 3, lawful)
                         /\ CallAt(list[1].key) \in DOMAIN first.state.blocks
    OBVIOUS
  <2> DEFINE d == list[1]
  <2>1. d \in CompatibleTool /\ Allowed(s, d, lawful)
    BY DEF Few, AllAllowed
  <2> HIDE DEF d
  <2>2. 2 \in Nat /\ 3 \in Nat /\ 2 <= 3 /\ 3 = 2 + 1
    OBVIOUS
  <2>3. ToolTaken(v, s, r, d, OnToolDelta(r, d), 3, lawful)
    BY <2>1, <2>2, OneTool
  <2>4. QED BY <2>3 DEF ToolTaken, d
<1> HIDE DEF first
<1>3. 2 \in DOMAIN list /\ Brought(v, s, first, 3, lawful) =>
        \/ Lost(second)
        \/ /\ Brought(v, s, second, 4, lawful) /\ CallAt(list[2].key) \in DOMAIN second.state.blocks
           /\ DOMAIN first.state.blocks \subseteq DOMAIN second.state.blocks
  <2> SUFFICES ASSUME 2 \in DOMAIN list, Brought(v, s, first, 3, lawful)
               PROVE  \/ Lost(second)
                      \/ /\ Brought(v, s, second, 4, lawful)
                         /\ CallAt(list[2].key) \in DOMAIN second.state.blocks
                         /\ DOMAIN first.state.blocks \subseteq DOMAIN second.state.blocks
    OBVIOUS
  <2> DEFINE d == list[2]
             p == OnToolDelta(first, d)
  <2>1. d \in CompatibleTool /\ Allowed(s, d, lawful)
    BY DEF Few, AllAllowed
  <2> HIDE DEF d
  <2>2. ToolTaken(v, s, first, d, p, 4, lawful)
    <3>1. 3 \in Nat /\ 4 \in Nat /\ 3 <= 3 /\ 4 = 3 + 1
      OBVIOUS
    <3>2. ToolTaken(v, s, first, d, OnToolDelta(first, d), 4, lawful)
      BY <2>1, <3>1, OneTool
    <3>3. QED BY <3>2
  <2> HIDE DEF p
  <2>3. second = p
    BY DEF p, d
  <2> HIDE DEF second
  <2>4. QED BY <2>2, <2>3 DEF ToolTaken, d
<1>4. 2 \in DOMAIN list /\ Lost(first) => Lost(second)
  BY DEF OnToolDelta, Breaks
<1> HIDE DEF second, q
<1>5. CASE DOMAIN list = {}
  <2>1. Brought(v, s, r, 4, lawful) /\ q = r
    BY <1>1, <1>5, BroughtMore
  <2>2. QED BY <1>5, <2>1 DEF ToolsSeen, q
<1>6. CASE DOMAIN list = {1}
  <2>1. q = first
    BY <1>1, <1>6
  <2>2. CASE Lost(first)
    BY <2>1, <2>2 DEF q
  <2>3. CASE ~Lost(first)
    <3>1. Brought(v, s, first, 3, lawful) /\ CallAt(list[1].key) \in DOMAIN first.state.blocks
      BY <1>2, <1>6, <2>3
    <3>2. Brought(v, s, first, 4, lawful)
      BY <3>1, BroughtMore
    <3>3. Brought(v, s, q, 4, lawful) /\ ToolsSeen(list, q)
      BY <1>6, <2>1, <3>1, <3>2 DEF ToolsSeen
    <3>4. QED BY <3>3 DEF q
  <2>4. QED BY <2>2, <2>3
<1>7. CASE DOMAIN list = {1, 2}
  <2>1. q = second
    BY <1>1, <1>7
  <2>2. CASE Lost(second)
    BY <2>1, <2>2 DEF q
  <2>3. CASE ~Lost(second)
    <3>1. Brought(v, s, first, 3, lawful) /\ CallAt(list[1].key) \in DOMAIN first.state.blocks
      BY <1>2, <1>4, <1>7, <2>3
    <3>2. /\ Brought(v, s, second, 4, lawful) /\ CallAt(list[2].key) \in DOMAIN second.state.blocks
          /\ DOMAIN first.state.blocks \subseteq DOMAIN second.state.blocks
      BY <1>3, <1>7, <2>3, <3>1
    <3>3. ToolsSeen(list, q)
      BY <1>7, <2>1, <3>1, <3>2 DEF ToolsSeen
    <3>4. Brought(v, s, q, 4, lawful)
      BY <2>1, <3>2
    <3>5. QED BY <3>3, <3>4 DEF q
  <2>4. QED BY <2>2, <2>3
<1>8. QED BY <1>5, <1>6, <1>7 DEF Few

(* What a chunk leaves of an orderly stream.                               *)
CompatibleKept(r, m) ==
  /\ up.begun \/ m.type = "chunk" => r.state.started
  /\ up.finished \/ (m.type = "chunk" /\ m.finish # "none") => r.state.finish # "none"
  /\ \A k \in OpenAfter(m) : CallAt(k) \in DOMAIN r.state.blocks

(* What decoding the message m must establish.                             *)
CompatibleDone(v, s, m, r, lawful) ==
  /\ Decoded(v, r, lawful)
  /\ ~r.thrown => /\ r.state.next \in s.next..(s.next + 4)
                  /\ r.state.terminal \/ (Labelled(r.state) /\ Listed(r.state))
  /\ lawful => ~r.thrown /\ (r.state.terminal \/ CompatibleKept(r, m))

(* What an orderly provider thinks of its stream.                          *)
UpCompatible(s, u) ==
  /\ u.begun => s.started
  /\ u.finished => s.finish # "none"
  /\ \A k \in u.open : CallAt(k) \in DOMAIN s.blocks

(* A message that breaks off the stream is not an orderly one.             *)
LEMMA CompatibleBreaks ==
  ASSUME NEW v, NEW s, NEW m, NEW lawful \in BOOLEAN, ~lawful
  PROVE  CompatibleDone(v, s, m, Breaks(s), lawful)
BY Breaking DEF CompatibleDone, Breaks

(* A chunk with its deltas, its calls and its finish reason.               *)
LEMMA CompatibleChunk ==
  ASSUME NEW v, NEW s, NEW m \in CompatibleMessage, NEW lawful \in BOOLEAN, m.type = "chunk",
         dialect = "compatible", DecoderOK(s), Entries(s), Tracks(v, s), ~s.terminal,
         Labelled(s), Listed(s), Room(s, 4),
         lawful => UpCompatible(s, up) /\ CompatibleFollows(m)
  PROVE  CompatibleDone(v, s, m, TranslateCompatibleChunk(s, m), lawful)
<1> DEFINE t == [s EXCEPT !.started = TRUE]
           es == IF s.started THEN <<>> ELSE <<Started>>
           begun == Yield(t, es)
           deltas == m.deltas
           tools == m.tools
           told == DeltasTaken(begun, deltas)
           r == ToolsTaken(told, tools)
           c == TranslateCompatibleChunk(s, m)
<1>1. Few(deltas, {"text", "reasoning"}) /\ Few(tools, CompatibleTool) /\ m.finish \in Reason
  BY CompatibleLists
<1>2. /\ Leaves(v, es, t, lawful)
      /\ t.started /\ t.terminal = s.terminal /\ t.next = s.next /\ t.blocks = s.blocks
      /\ t.calls = s.calls /\ t.finish = s.finish
  BY Beginning
<1>3. s.next \in Nat
  BY DEF DecoderOK
<1>4. c = IF (~s.started /\ ~m.id) \/ r.thrown THEN Breaks(s)
          ELSE IF m.finish = "none" THEN r ELSE [r EXCEPT !.state.finish = m.finish]
  BY DEF TranslateCompatibleChunk, DeltasTaken, ToolsTaken
<1> HIDE DEF t, es
<1>5. Brought(v, s, begun, 0, lawful)
  <2>1. Labelled(t) /\ Listed(t)
    BY <1>2 DEF Labelled, Listed, Undone, CallBlocks
  <2>2. Running(v, es, t, lawful) /\ Extends(s, t, 0) /\ DOMAIN s.blocks \subseteq DOMAIN t.blocks
    BY <1>2, <1>3, <2>1 DEF Running, Extends
  <2>3. begun.state = t /\ begun.events = es /\ ~begun.thrown
    BY DEF Yield
  <2>4. begun = Yield(begun.state, begun.events)
    BY <2>3
  <2> HIDE DEF begun
  <2>5. QED BY <2>2, <2>3, <2>4 DEF Brought
<1>6. AllAllowed(s, tools, lawful)
  BY DEF AllAllowed, Allowed, UpCompatible, CompatibleFollows
<1>7. ~s.started /\ ~m.id => ~lawful
  BY DEF UpCompatible, CompatibleFollows
<1>8. OpenAfter(m) = up.open \cup {tools[i].key : i \in DOMAIN tools}
  BY DEF OpenAfter
<1> HIDE DEF begun, deltas, tools
<1>9. Brought(v, s, told, 2, lawful)
  BY <1>1, <1>3, <1>5, SomeDeltas
<1> HIDE DEF told
<1>10. \/ r.thrown /\ ~lawful
       \/ Brought(v, s, r, 4, lawful) /\ ToolsSeen(tools, r)
  BY <1>1, <1>3, <1>6, <1>9, SomeTools
<1> HIDE DEF r, c
<1>11. CASE r.thrown \/ (~s.started /\ ~m.id)
  <2>1. c = Breaks(s)
    BY <1>4, <1>11
  <2>2. ~lawful
    BY <1>7, <1>10, <1>11 DEF Brought
  <2>3. QED BY <2>1, <2>2, CompatibleBreaks DEF c
<1>12. CASE ~(r.thrown \/ (~s.started /\ ~m.id))
  <2> DEFINE x == r.state
             y == r.events
  <2>1. /\ r = Yield(x, y) /\ Leaves(v, y, x, lawful) /\ x.started /\ ~x.terminal
        /\ Labelled(x) /\ Listed(x) /\ x.next \in s.next..(s.next + 4) /\ x.finish = s.finish
        /\ DOMAIN s.blocks \subseteq DOMAIN x.blocks
        /\ \A i \in DOMAIN tools : CallAt(tools[i].key) \in DOMAIN x.blocks
    BY <1>10, <1>12 DEF Brought, Running, Extends, ToolsSeen
  <2>2. lawful => \A k \in OpenAfter(m) : CallAt(k) \in DOMAIN x.blocks
    BY <1>8, <2>1 DEF UpCompatible
  <2>3. CASE m.finish = "none"
    <3>1. c = r
      BY <1>4, <1>12, <2>3
    <3>2. Decoded(v, r, lawful) /\ ~r.thrown
      BY <1>12, <2>1, Decoding
    <3>3. lawful => CompatibleKept(r, m)
      BY <2>1, <2>2, <2>3 DEF CompatibleKept, UpCompatible
    <3>4. CompatibleDone(v, s, m, r, lawful)
      BY <2>1, <3>2, <3>3 DEF CompatibleDone
    <3>5. QED BY <3>1, <3>4 DEF c
  <2>4. CASE m.finish # "none"
    <3>1. c = [r EXCEPT !.state.finish = m.finish]
      BY <1>4, <1>12, <2>4
    <3>2. c = [Yield(x, y) EXCEPT !.state.finish = m.finish]
      <4>1. r = Yield(x, y)
        BY <2>1
      <4> HIDE DEF x, y
      <4>2. QED BY <3>1, <4>1
    <3> HIDE DEF x, y
    <3>3. /\ ~c.thrown /\ Leaves(v, c.events, c.state, lawful)
          /\ c.state.started /\ ~c.state.terminal /\ c.state.next = x.next
          /\ c.state.blocks = x.blocks /\ c.state.calls = x.calls /\ c.state.finish = m.finish
      BY <1>1, <2>1, <3>2, Finishing
    <3>4. Labelled(c.state) /\ Listed(c.state)
      BY <2>1, <3>3 DEF Labelled, Listed, Undone, CallBlocks
    <3>5. Decoded(v, c, lawful)
      BY <3>3, Decoding
    <3>6. lawful => CompatibleKept(c, m)
      BY <2>2, <2>4, <3>3 DEF CompatibleKept
    <3>7. ~c.thrown /\ c.state.next \in s.next..(s.next + 4)
      BY <2>1, <3>3
    <3>8. QED BY <3>4, <3>5, <3>6, <3>7 DEF CompatibleDone, c
  <2>5. QED BY <2>3, <2>4
<1>13. QED BY <1>11, <1>12

(* The end of the body closes text, reasoning and every call.              *)
LEMMA CompatibleEnds ==
  ASSUME NEW v, NEW s, NEW m, NEW lawful \in BOOLEAN,
         DecoderOK(s), Entries(s), Tracks(v, s), s.started, Labelled(s), Listed(s), Room(s, 0)
  PROVE  CompatibleDone(v, s, m, CompleteCompatible(s), lawful)
<1> DEFINE a == <<"text">>
           b == <<"reasoning">>
           closing == ClosedIfAny(s, a) \o ClosedIfAny(s, b)
           calls == s.calls
           each == EachClosed(calls)
           reason == CASE s.finish # "none" -> s.finish
                       [] s.finish = "none" /\ s.calls # <<>> -> "tool_use"
                       [] OTHER -> "end_turn"
           ending == <<Usage, Completed(reason)>>
           t == [s EXCEPT !.terminal = TRUE]
           c == CompleteCompatible(s)
<1>1. c.state = t /\ c.events = (closing \o each) \o ending /\ ~c.thrown
  BY DEF CompleteCompatible, Yield, EachClosed
<1>2. /\ a # b /\ a[1] # "tool_call" /\ b[1] # "tool_call"
      /\ \A d \in DOMAIN s.blocks : d = a \/ d = b \/ d[1] = "tool_call"
  BY DEF Labelled, CallAt
<1>3. reason \in Reason /\ s.next \in Nat
  <2>1. s.finish \in Reason /\ "tool_use" \in Reason /\ "end_turn" \in Reason
    BY DEF DecoderOK, Reason
  <2>2. reason \in {"tool_use", "end_turn", s.finish}
    OBVIOUS
  <2>3. QED BY <2>1, <2>2 DEF DecoderOK
<1>4. DecoderOK(t) /\ t.terminal /\ t.next = s.next
  BY DEF DecoderOK
<1>5. calls \in Seq(Nat) /\ Distinct(calls)
  BY DEF Listed, Distinct
<1> HIDE DEF a, b, c, t, ending, reason
<1>6. PICK w \in View : /\ Leads(v, closing, w, lawful) /\ w.phase = "streaming"
                        /\ w.open = v.open \ (IndexOfAny(s, a) \cup IndexOfAny(s, b))
                        /\ w.kinds = v.kinds
  BY <1>2, ClosesBoth DEF Labelled
<1>7. w.open = Members(calls)
  <2>1. v.open = {s.blocks[d].index : d \in DOMAIN s.blocks}
    BY DEF Tracks, Labelled
  <2>2. w.open = {s.blocks[d].index : d \in CallBlocks(s)}
    <3>1. \A d \in DOMAIN s.blocks : d \in CallBlocks(s) <=> d # a /\ d # b
      BY <1>2 DEF CallBlocks
    <3>2. \A d, e \in DOMAIN s.blocks : s.blocks[d].index = s.blocks[e].index => d = e
      BY DEF Entries
    <3>3. CallBlocks(s) \subseteq DOMAIN s.blocks
      BY DEF CallBlocks
    <3>4. \A i : i \in IndexOfAny(s, a) \cup IndexOfAny(s, b)
                   <=> \E d \in DOMAIN s.blocks : (d = a \/ d = b) /\ i = s.blocks[d].index
      BY DEF IndexOfAny, Has
    <3>5. ASSUME NEW i
          PROVE  i \in w.open <=> \E d \in CallBlocks(s) : i = s.blocks[d].index
      BY <1>6, <2>1, <3>1, <3>2, <3>3, <3>4
    <3>6. QED BY <3>5
  <2>3. QED BY <2>2 DEF Listed, Members
<1>7a. \A i \in Members(calls) : i \in DOMAIN w.kinds /\ w.kinds[i] = "tool_call"
  <2>1. \A d \in CallBlocks(s) :
          d \in DOMAIN s.blocks /\ s.blocks[d].kind = "tool_call"
    BY DEF CallBlocks, Entries, PartOf, KindOf
  <2>2. \A d \in CallBlocks(s) :
          s.blocks[d].index \in DOMAIN v.kinds /\ v.kinds[s.blocks[d].index] = "tool_call"
    BY <2>1 DEF Tracks
  <2>3. QED BY <1>6, <2>2 DEF Listed, Members
<1> HIDE DEF closing, calls
<1>8. PICK x \in View : Leads(w, each, x, lawful) /\ x.phase = "streaming" /\ x.open = {}
  BY <1>5, <1>6, <1>7, <1>7a, ClosesAll
<1> HIDE DEF each
<1>9. PICK z : Leads(x, ending, z, lawful) /\ Agrees(z, t)
  BY <1>3, <1>4, <1>8, Ending DEF ending
<1>10. Leads(v, (closing \o each) \o ending, z, lawful)
  <2>1. Leads(v, closing \o each, x, lawful)
    BY <1>6, <1>8, LeadsOn
  <2> DEFINE es == closing \o each
  <2> HIDE DEF es
  <2>2. Leads(v, es \o ending, z, lawful)
    BY <1>9, <2>1, LeadsOn DEF es
  <2>3. QED BY <2>2 DEF es
<1>11. Decoded(v, c, lawful)
  BY <1>1, <1>9, <1>10 DEF Decoded
<1>12. ~c.thrown /\ c.state.terminal /\ c.state.next \in s.next..(s.next + 4)
  BY <1>1, <1>3, <1>4
<1>13. QED BY <1>11, <1>12 DEF CompatibleDone, c

(* Every message of a compatible endpoint.                                 *)
LEMMA CompatibleDecodes ==
  ASSUME NEW v, NEW s, NEW m \in CompatibleMessage, NEW lawful \in BOOLEAN,
         dialect = "compatible", DecoderOK(s), Entries(s), Tracks(v, s), ~s.terminal,
         Labelled(s), Listed(s), Room(s, 4),
         lawful => UpCompatible(s, up) /\ CompatibleFollows(m)
  PROVE  CompatibleDone(v, s, m, TranslateCompatible(s, m), lawful)
<1>1. m.type \in {"chunk", "done", "eof", "garbage"} /\ s.next \in Nat
  BY DEF CompatibleMessage, DecoderOK
<1>2. CASE m.type = "chunk"
  <2>1. TranslateCompatible(s, m) = TranslateCompatibleChunk(s, m)
    BY <1>2 DEF TranslateCompatible
  <2>2. QED BY <1>2, <2>1, CompatibleChunk
<1>3. CASE m.type \in {"done", "eof"} /\ s.started /\ (m.type = "done" \/ s.finish # "none")
  <2>1. TranslateCompatible(s, m) = CompleteCompatible(s)
    BY <1>3 DEF TranslateCompatible
  <2>2. Room(s, 0)
    BY <1>1 DEF Room
  <2>3. QED BY <1>3, <2>1, <2>2, CompatibleEnds
<1>4. CASE \/ m.type = "garbage"
           \/ m.type = "done" /\ ~s.started
           \/ m.type = "eof" /\ (~s.started \/ s.finish = "none")
  <2>1. TranslateCompatible(s, m) = Breaks(s)
    BY <1>4 DEF TranslateCompatible
  <2>2. ~lawful
    BY <1>4 DEF UpCompatible, CompatibleFollows
  <2>3. QED BY <2>1, <2>2, CompatibleBreaks
<1>5. QED BY <1>1, <1>2, <1>3, <1>4

(*------------------------------- Anthropic -------------------------------*)

(* The provider numbers its own blocks: what the adapter keeps of a block  *)
(* is what the consumer has last been told of it.                          *)
AnthropicFits(w, s) ==
  /\ DecoderOK(s) /\ w \in View
  /\ w.phase = IF s.started THEN "streaming" ELSE "idle"
  /\ \A i \in DOMAIN s.blocks :
       /\ i \in UpstreamIndex /\ s.blocks[i].kind \in {"text", "thinking", "tool_call"}
       /\ i \in DOMAIN w.kinds /\ w.kinds[i] = s.blocks[i].kind
  /\ s.started \/ DOMAIN s.blocks = {}

(* An orderly provider has one block open at most, the next in number.     *)
UpAnthropic(w, s, begun, open, closed) ==
  /\ begun <=> s.started
  /\ w.open = DOMAIN s.blocks
  /\ open = {<<i, s.blocks[i].kind>> : i \in DOMAIN s.blocks}
  /\ w.closed = {b[1] : b \in closed}
  /\ IsFiniteSet(closed)
  /\ \A b \in closed : b[1] \in 0..(Cardinality(closed) - 1)
  /\ DOMAIN s.blocks \subseteq {Cardinality(closed)}

(* What decoding the message m must establish.                             *)
AnthropicDone(v, s, m, r, lawful) ==
  /\ r.thrown => ~lawful /\ r.events = <<>>
  /\ ~r.thrown =>
       /\ r.state.next = s.next
       /\ \E w : /\ Leads(v, r.events, w, lawful)
                 /\ IF r.state.terminal THEN Agrees(w, r.state)
                    ELSE /\ AnthropicFits(w, r.state)
                         /\ lawful => UpAnthropic(w, r.state, up.begun \/ m.type = "message_start",
                                                  OpenAfter(m), ClosedAfter(m))

(* A message that breaks off, and one that opens and closes nothing.       *)
LEMMA AnthropicBreaks ==
  ASSUME NEW v, NEW s, NEW m, NEW lawful \in BOOLEAN, ~lawful
  PROVE  AnthropicDone(v, s, m, Breaks(s), lawful)
BY DEF AnthropicDone, Breaks

LEMMA AnthropicStays ==
  ASSUME NEW v, NEW s, NEW m, NEW lawful \in BOOLEAN, NEW r, NEW es, NEW t,
         r = Yield(t, es), t.next = s.next, Leads(v, es, v, lawful), ~t.terminal,
         AnthropicFits(v, t), m.type # "message_start",
         OpenAfter(m) = up.open, ClosedAfter(m) = up.closed,
         lawful => UpAnthropic(v, t, up.begun, up.open, up.closed)
  PROVE  AnthropicDone(v, s, m, r, lawful)
<1>1. r.state = t /\ r.events = es /\ ~r.thrown
  BY DEF Yield
<1>2. lawful => UpAnthropic(v, t, up.begun \/ m.type = "message_start",
                            OpenAfter(m), ClosedAfter(m))
  BY DEF UpAnthropic
<1>3. QED BY <1>1, <1>2 DEF AnthropicDone

(* Anthropic's own numbers are indices.                                    *)
LEMMA UpstreamIndices == UpstreamIndex \subseteq Indices
BY StreamAssumption DEF UpstreamIndex, Indices

(* The three messages about a block: its start, its deltas, its stop.      *)
LEMMA AnthropicStarts ==
  ASSUME NEW v, NEW s, NEW m \in AnthropicMessage, NEW lawful \in BOOLEAN,
         dialect = "anthropic", AnthropicFits(v, s), ~s.terminal, s.started,
         m.type = "content_block_start",
         lawful => UpAnthropic(v, s, up.begun, up.open, up.closed) /\ AnthropicFollows(m)
  PROVE  AnthropicDone(v, s, m, OnAnthropicContentStart(s, m), lawful)
<1> DEFINE i == m.index
           kind == m.kind
           t == [s EXCEPT !.blocks = With(@, i, Block(i, kind))]
           w == After(v, Opened(i, kind))
           r == OnAnthropicContentStart(s, m)
<1>1. i \in UpstreamIndex /\ kind \in {"text", "thinking", "tool_call", "unknown"}
  BY DEF AnthropicMessage
<1>2. lawful => up.begun /\ up.open = {} /\ i = Cardinality(up.closed) /\ kind # "unknown"
  BY DEF AnthropicFollows
<1>3. /\ OpenAfter(m) = up.open \cup {<<i, kind>>}
      /\ ClosedAfter(m) = up.closed \cup (up.open \ OpenAfter(m))
  BY DEF OpenAfter, ClosedAfter
<1>4. DecoderOK(s) /\ v \in View /\ v.phase = "streaming"
  BY DEF AnthropicFits
<1>5. CASE kind = "unknown"
  <2>1. r = Yield(s, <<>>) /\ ~lawful
    BY <1>2, <1>5 DEF OnAnthropicContentStart, Ignore
  <2> HIDE DEF r
  <2>2. r.state = s /\ r.events = <<>> /\ ~r.thrown
    BY <2>1 DEF Yield
  <2>3. Leads(v, <<>>, v, lawful)
    BY LeadsNowhere
  <2>4. QED BY <2>1, <2>2, <2>3 DEF AnthropicDone, r
<1>6. CASE kind # "unknown"
  <2>1. r = Yield(t, <<Opened(i, kind)>>)
    BY <1>6 DEF OnAnthropicContentStart
  <2>2. kind \in BlockKinds /\ i \in Indices
    BY <1>1, <1>6, UpstreamIndices DEF BlockKinds
  <2>3. /\ DecoderOK(t) /\ t.blocks = With(s.blocks, i, Block(i, kind)) /\ t.started = s.started
        /\ t.terminal = s.terminal /\ t.next = s.next
    BY <1>4 DEF DecoderOK
  <2>4. /\ w.phase = v.phase /\ w.open = v.open \cup {i} /\ w.closed = v.closed
        /\ w.kinds = With(v.kinds, i, kind)
    BY <1>4 DEF After, Opened, View
  <2> HIDE DEF t, w, r, i, kind
  <2>5. lawful => /\ v.open = {} /\ i \notin v.closed /\ DOMAIN s.blocks = {}
                  /\ up.closed = ClosedAfter(m)
    <3> SUFFICES ASSUME lawful
                 PROVE  v.open = {} /\ i \notin v.closed /\ DOMAIN s.blocks = {}
                        /\ up.closed = ClosedAfter(m)
      OBVIOUS
    <3>0. /\ UpAnthropic(v, s, up.begun, up.open, up.closed)
          /\ up.open = {} /\ i = Cardinality(up.closed)
      BY <1>2 DEF i
    <3>1. DOMAIN s.blocks = {} /\ v.open = {}
      <4>1. v.open = DOMAIN s.blocks /\ up.open = {<<j, s.blocks[j].kind>> : j \in DOMAIN s.blocks}
        BY <3>0 DEF UpAnthropic
      <4>2. \A j \in DOMAIN s.blocks : <<j, s.blocks[j].kind>> \in up.open
        BY <4>1
      <4>3. QED BY <3>0, <4>1, <4>2
    <3>2. Cardinality(up.closed) \in Nat
      BY <3>0, FS_CardinalityType DEF UpAnthropic
    <3>3. i \notin v.closed
      BY <3>0, <3>2 DEF UpAnthropic
    <3>4. QED BY <1>2, <1>3, <3>1, <3>3 DEF i, kind
  <2>6. Legal(v, Opened(i, kind), lawful)
    BY <1>4, <2>2, <2>5, LegalSteps
  <2>7. Leads(v, <<Opened(i, kind)>>, w, lawful) /\ w \in View
    BY <1>4, <2>6, LeadsOnce, AfterView DEF w
  <2>8. /\ DOMAIN t.blocks = DOMAIN s.blocks \cup {i} /\ t.blocks[i].kind = kind
        /\ \A j \in DOMAIN s.blocks : j # i => t.blocks[j] = s.blocks[j]
        /\ DOMAIN w.kinds = DOMAIN v.kinds \cup {i} /\ w.kinds[i] = kind
        /\ \A j \in DOMAIN v.kinds : j # i => w.kinds[j] = v.kinds[j]
    BY <2>3, <2>4 DEF With, Block
  <2>9. AnthropicFits(w, t)
    <3>1. ASSUME NEW j \in DOMAIN t.blocks
          PROVE  /\ j \in UpstreamIndex /\ t.blocks[j].kind \in {"text", "thinking", "tool_call"}
                 /\ j \in DOMAIN w.kinds /\ w.kinds[j] = t.blocks[j].kind
      <4>1. CASE j = i
        BY <1>1, <1>6, <2>8, <4>1 DEF i, kind
      <4>2. CASE j # i
        BY <2>8, <4>2 DEF AnthropicFits
      <4>3. QED BY <4>1, <4>2
    <3>2. QED BY <1>4, <2>3, <2>4, <2>7, <3>1 DEF AnthropicFits
  <2>10. lawful => UpAnthropic(w, t, up.begun, OpenAfter(m), ClosedAfter(m))
    <3> SUFFICES ASSUME lawful PROVE UpAnthropic(w, t, up.begun, OpenAfter(m), ClosedAfter(m))
      OBVIOUS
    <3>1. DOMAIN t.blocks = {i} /\ w.open = {i} /\ t.blocks[i].kind = kind
      BY <2>4, <2>5, <2>8
    <3>2. OpenAfter(m) = {<<i, kind>>} /\ i = Cardinality(up.closed)
      BY <1>2, <1>3 DEF i, kind
    <3>3. OpenAfter(m) = {<<j, t.blocks[j].kind>> : j \in DOMAIN t.blocks}
      BY <3>1, <3>2
    <3>4. QED BY <2>3, <2>4, <2>5, <3>1, <3>2, <3>3 DEF UpAnthropic
  <2>11. r.state = t /\ r.events = <<Opened(i, kind)>> /\ ~r.thrown
    BY <2>1 DEF Yield
  <2>12. lawful => UpAnthropic(w, t, up.begun \/ m.type = "message_start",
                               OpenAfter(m), ClosedAfter(m))
    BY <2>10 DEF UpAnthropic
  <2>13. ~t.terminal
    BY <2>3
  <2>14. QED BY <2>3, <2>7, <2>9, <2>11, <2>12, <2>13 DEF AnthropicDone, r
<1>7. QED BY <1>5, <1>6

LEMMA AnthropicDeltas ==
  ASSUME NEW v, NEW s, NEW m \in AnthropicMessage, NEW lawful \in BOOLEAN,
         dialect = "anthropic", AnthropicFits(v, s), ~s.terminal, s.started,
         m.type = "content_block_delta",
         lawful => UpAnthropic(v, s, up.begun, up.open, up.closed) /\ AnthropicFollows(m)
  PROVE  AnthropicDone(v, s, m, OnAnthropicContentDelta(s, m), lawful)
<1> DEFINE i == m.index
           part == m.part
           r == OnAnthropicContentDelta(s, m)
<1>1. i \in UpstreamIndex /\ part \in PartName
  BY DEF AnthropicMessage, PartName
<1>2. OpenAfter(m) = up.open /\ ClosedAfter(m) = up.closed
  BY DEF OpenAfter, ClosedAfter
<1>3. lawful => \E kind \in {"text", "thinking", "tool_call"} :
                  <<i, kind>> \in up.open /\ part \in PartsOf(kind)
  BY DEF AnthropicFollows
<1>4. v \in View /\ v.phase = "streaming" /\ i \in Indices
  BY <1>1, UpstreamIndices DEF AnthropicFits
<1> HIDE DEF i, part
<1>5. lawful => i \in DOMAIN s.blocks /\ part \in PartsOf(s.blocks[i].kind)
  <2> SUFFICES ASSUME lawful PROVE i \in DOMAIN s.blocks /\ part \in PartsOf(s.blocks[i].kind)
    OBVIOUS
  <2>1. PICK kind \in {"text", "thinking", "tool_call"} :
          <<i, kind>> \in up.open /\ part \in PartsOf(kind)
    BY <1>3
  <2>2. up.open = {<<j, s.blocks[j].kind>> : j \in DOMAIN s.blocks}
    BY DEF UpAnthropic
  <2>3. PICK j \in DOMAIN s.blocks : <<i, kind>> = <<j, s.blocks[j].kind>>
    BY <2>1, <2>2
  <2>4. QED BY <2>1, <2>3
<1>6. CASE i \in DOMAIN s.blocks /\ part \in PartsOf(s.blocks[i].kind)
  <2>1. r = Yield(s, <<Delta(i, part)>>)
    BY <1>6 DEF OnAnthropicContentDelta, Has, i, part
  <2>2. i \in DOMAIN v.kinds /\ v.kinds[i] \in KindOf(part)
    BY <1>6 DEF AnthropicFits, PartsOf, KindOf
  <2>3. lawful => i \in v.open
    BY <1>6 DEF UpAnthropic
  <2> HIDE DEF r
  <2>4. Legal(v, Delta(i, part), lawful) /\ After(v, Delta(i, part)) = v
    BY <1>1, <1>4, <2>2, <2>3, LegalSteps
  <2>5. Leads(v, <<Delta(i, part)>>, v, lawful)
    BY <2>4, LeadsOnce
  <2>6. lawful => UpAnthropic(v, s, up.begun, up.open, up.closed)
    OBVIOUS
  <2>7. QED BY <1>2, <2>1, <2>5, <2>6, AnthropicStays DEF r
<1>7. CASE ~(i \in DOMAIN s.blocks /\ part \in PartsOf(s.blocks[i].kind))
  <2>1. r = Breaks(s)
    BY <1>7 DEF OnAnthropicContentDelta, Has, i, part
  <2>2. ~lawful
    BY <1>5, <1>7
  <2>3. QED BY <2>1, <2>2, AnthropicBreaks
<1>8. QED BY <1>6, <1>7

LEMMA AnthropicStops ==
  ASSUME NEW v, NEW s, NEW m \in AnthropicMessage, NEW lawful \in BOOLEAN,
         dialect = "anthropic", AnthropicFits(v, s), ~s.terminal, s.started,
         m.type = "content_block_stop",
         lawful => UpAnthropic(v, s, up.begun, up.open, up.closed) /\ AnthropicFollows(m)
  PROVE  AnthropicDone(v, s, m, OnAnthropicContentStop(s, m), lawful)
<1> DEFINE i == m.index
           blocks == [j \in DOMAIN s.blocks \ {i} |-> s.blocks[j]]
           t == [s EXCEPT !.blocks = blocks]
           kind == s.blocks[i].kind
           w == After(v, Closed(i, kind))
           r == OnAnthropicContentStop(s, m)
<1>1. i \in UpstreamIndex
  BY DEF AnthropicMessage
<1>2. lawful => \E b \in up.open : b[1] = i
  BY DEF AnthropicFollows
<1>3. /\ OpenAfter(m) = {b \in up.open : b[1] # i}
      /\ ClosedAfter(m) = up.closed \cup (up.open \ OpenAfter(m))
  BY DEF OpenAfter, ClosedAfter
<1>4. DecoderOK(s) /\ v \in View /\ v.phase = "streaming" /\ i \in Indices
  BY <1>1, UpstreamIndices DEF AnthropicFits
<1>5. lawful => i \in DOMAIN s.blocks
  BY <1>2 DEF UpAnthropic
<1>6. CASE i \notin DOMAIN s.blocks
  <2>1. r = Breaks(s)
    BY <1>6 DEF OnAnthropicContentStop, Has
  <2>2. ~lawful
    BY <1>5, <1>6
  <2>3. QED BY <2>1, <2>2, AnthropicBreaks
<1>7. CASE i \in DOMAIN s.blocks
  <2>1. r = Yield(t, <<Closed(i, kind)>>)
    BY <1>4, <1>7 DEF OnAnthropicContentStop, Has, DecoderOK
  <2>2. /\ DecoderOK(t) /\ t.blocks = blocks /\ t.started = s.started
        /\ t.terminal = s.terminal /\ t.next = s.next
    BY <1>4 DEF DecoderOK
  <2>3. /\ w.phase = v.phase /\ w.open = v.open \ {i} /\ w.closed = v.closed \cup {i}
        /\ w.kinds = v.kinds
    BY <1>4 DEF After, Closed, View
  <2>4. r.state = t /\ r.events = <<Closed(i, kind)>> /\ ~r.thrown
    BY <2>1 DEF Yield
  <2>4a. kind \in BlockKinds /\ i \in DOMAIN v.kinds /\ v.kinds[i] = kind
    BY <1>7 DEF AnthropicFits, BlockKinds
  <2> HIDE DEF t, w, r, i, kind
  <2>5. /\ DOMAIN t.blocks = DOMAIN s.blocks \ {i}
        /\ \A j \in DOMAIN t.blocks : t.blocks[j] = s.blocks[j]
    BY <2>2
  <2> HIDE DEF blocks
  <2>6. lawful => i \in v.open
    BY <1>7 DEF UpAnthropic
  <2>7. Legal(v, Closed(i, kind), lawful)
    BY <1>4, <2>4a, <2>6, LegalSteps
  <2>8. Leads(v, <<Closed(i, kind)>>, w, lawful) /\ w \in View
    BY <1>4, <2>7, LeadsOnce, AfterView DEF w
  <2>9. AnthropicFits(w, t)
    BY <2>2, <2>3, <2>5, <2>8 DEF AnthropicFits
  <2>10. lawful => UpAnthropic(w, t, up.begun \/ m.type = "message_start",
                               OpenAfter(m), ClosedAfter(m))
    <3> SUFFICES ASSUME lawful
                 PROVE  UpAnthropic(w, t, up.begun \/ m.type = "message_start",
                                    OpenAfter(m), ClosedAfter(m))
      OBVIOUS
    <3> DEFINE n == Cardinality(up.closed)
               b == <<n, s.blocks[n].kind>>
    <3>1. UpAnthropic(v, s, up.begun, up.open, up.closed)
      OBVIOUS
    <3>2. IsFiniteSet(up.closed) /\ n \in Nat
      BY <3>1, FS_CardinalityType DEF UpAnthropic
    <3>3. i = n /\ DOMAIN s.blocks = {n}
      BY <1>7, <3>1 DEF UpAnthropic
    <3>4. up.open = {b}
      <4>1. up.open = {<<j, s.blocks[j].kind>> : j \in DOMAIN s.blocks}
        BY <3>1 DEF UpAnthropic
      <4>2. QED BY <3>3, <4>1
    <3>5. OpenAfter(m) = {} /\ ClosedAfter(m) = up.closed \cup {b}
      BY <1>3, <3>3, <3>4 DEF i
    <3>6. b \notin up.closed
      BY <3>1, <3>2 DEF UpAnthropic
    <3>7. IsFiniteSet(up.closed \cup {b}) /\ Cardinality(up.closed \cup {b}) = n + 1
      <4> HIDE DEF b
      <4>1. QED BY <3>2, <3>6, FS_AddElement
    <3>8. DOMAIN t.blocks = {}
      BY <2>5, <3>3
    <3>9. up.begun <=> t.started
      BY <2>2, <3>1 DEF UpAnthropic
    <3>10. w.open = {} /\ w.closed = {c[1] : c \in up.closed \cup {b}}
      <4>1. v.open = {n} /\ v.closed = {c[1] : c \in up.closed}
        BY <3>1, <3>3 DEF UpAnthropic
      <4>2. b[1] = n
        OBVIOUS
      <4> HIDE DEF b
      <4>3. QED BY <2>3, <3>3, <4>1, <4>2
    <3>11. \A c \in up.closed \cup {b} : c[1] \in 0..n
      <4>1. \A c \in up.closed : c[1] \in 0..(n - 1)
        BY <3>1 DEF UpAnthropic
      <4>2. b[1] = n
        OBVIOUS
      <4> HIDE DEF b
      <4>3. QED BY <3>2, <4>1, <4>2
    <3>12. OpenAfter(m) = {<<j, t.blocks[j].kind>> : j \in DOMAIN t.blocks}
      BY <3>5, <3>8
    <3> HIDE DEF b
    <3>13. 0..n = 0..((n + 1) - 1)
      BY <3>2
    <3>14. QED
      BY <3>5, <3>7, <3>8, <3>9, <3>10, <3>11, <3>12, <3>13 DEF UpAnthropic
  <2>11. ~t.terminal
    BY <2>2
  <2>12. QED BY <2>2, <2>4, <2>8, <2>9, <2>10, <2>11 DEF AnthropicDone, r
<1>8. QED BY <1>6, <1>7

(* Every message of Anthropic.                                             *)
LEMMA AnthropicDecodes ==
  ASSUME NEW v, NEW s, NEW m \in AnthropicMessage, NEW lawful \in BOOLEAN,
         dialect = "anthropic", AnthropicFits(v, s), ~s.terminal,
         lawful => UpAnthropic(v, s, up.begun, up.open, up.closed) /\ AnthropicFollows(m)
  PROVE  AnthropicDone(v, s, m, TranslateAnthropic(s, m), lawful)
<1> DEFINE r == TranslateAnthropic(s, m)
<1>1. /\ DecoderOK(s) /\ v \in View /\ v.phase = (IF s.started THEN "streaming" ELSE "idle")
      /\ s.started \in BOOLEAN
  BY DEF AnthropicFits, DecoderOK
<1>2. m.type \in {"content_block_start", "content_block_delta", "content_block_stop",
                  "message_start", "message_delta", "message_stop", "error", "ping", "eof",
                  "garbage"}
  BY DEF AnthropicMessage
<1>3. lawful => (up.begun <=> s.started)
  BY <1>1 DEF UpAnthropic
<1>4. lawful => \A j \in DOMAIN s.blocks : <<j, s.blocks[j].kind>> \in up.open
  BY DEF UpAnthropic
<1>5. CASE m.type \in {"eof", "garbage"}
  <2>1. r = Breaks(s) /\ ~lawful
    BY <1>5 DEF TranslateAnthropic, AnthropicFollows
  <2>2. QED BY <2>1, AnthropicBreaks
<1>6. CASE m.type = "message_start" /\ s.started
  <2>1. r = Breaks(s) /\ ~lawful
    BY <1>3, <1>6 DEF TranslateAnthropic, AnthropicFollows
  <2>2. QED BY <2>1, AnthropicBreaks
<1>7. CASE /\ ~s.started
           /\ m.type \in {"content_block_start", "content_block_delta", "content_block_stop",
                          "message_delta", "message_stop"}
  <2>1. r = Breaks(s)
    BY <1>7 DEF TranslateAnthropic
  <2>2. ~lawful
    <3>1. lawful => up.open = {} /\ ~up.begun
      BY <1>1, <1>3, <1>7 DEF UpAnthropic, AnthropicFits
    <3>2. QED BY <1>7, <3>1 DEF AnthropicFollows
  <2>3. QED BY <2>1, <2>2, AnthropicBreaks
<1>8. CASE m.type = "message_start" /\ ~s.started
  <2> DEFINE t == [s EXCEPT !.started = TRUE, !.finish = "end_turn"]
             w == After(v, Started)
  <2>1. r = Yield(t, <<Started>>)
    BY <1>8 DEF TranslateAnthropic
  <2>2. /\ DecoderOK(t) /\ t.started /\ ~t.terminal /\ t.next = s.next /\ t.blocks = s.blocks
    BY <1>1 DEF DecoderOK, Reason
  <2>3. w.phase = "streaming" /\ w.open = v.open /\ w.closed = v.closed /\ w.kinds = v.kinds
    BY <1>1 DEF After, Started, View
  <2>4. Leads(v, <<Started>>, w, lawful) /\ w \in View
    <3>1. Legal(v, Started, lawful)
      BY <1>1, <1>8 DEF Legal
    <3>2. QED BY <1>1, <3>1, LeadsOnce, AfterView
  <2>5. OpenAfter(m) = up.open /\ ClosedAfter(m) = up.closed
    BY <1>8 DEF OpenAfter, ClosedAfter
  <2>6. r.state = t /\ r.events = <<Started>> /\ ~r.thrown
    BY <2>1 DEF Yield
  <2> HIDE DEF t, w, r
  <2>7. AnthropicFits(w, t)
    BY <2>2, <2>3, <2>4 DEF AnthropicFits
  <2>8. lawful => UpAnthropic(w, t, up.begun \/ m.type = "message_start",
                              OpenAfter(m), ClosedAfter(m))
    BY <1>8, <2>2, <2>3, <2>5 DEF UpAnthropic
  <2>9. QED BY <2>2, <2>4, <2>6, <2>7, <2>8 DEF AnthropicDone, r
<1>9. CASE m.type = "error"
  <2> DEFINE t == [s EXCEPT !.terminal = TRUE]
  <2>1. r = Yield(t, <<Failed>>)
    BY <1>9 DEF TranslateAnthropic
  <2>2. t.terminal /\ t.next = s.next
    BY <1>1 DEF DecoderOK
  <2>3. Decoded(v, r, lawful)
    <3>1. v.phase # "ended"
      BY <1>1
    <3>2. QED BY <1>1, <2>1, <3>1, Failing
  <2>4. r.state = t /\ ~r.thrown
    BY <2>1 DEF Yield
  <2> HIDE DEF t, r
  <2>5. QED BY <2>2, <2>3, <2>4 DEF AnthropicDone, Decoded, r
<1>10. CASE m.type = "ping"
  <2>1. r = Yield(s, <<>>)
    BY <1>10 DEF TranslateAnthropic, Ignore
  <2>2. OpenAfter(m) = up.open /\ ClosedAfter(m) = up.closed
    BY <1>10 DEF OpenAfter, ClosedAfter
  <2>3. Leads(v, <<>>, v, lawful) /\ m.type # "message_start"
    BY <1>10, LeadsNowhere
  <2> HIDE DEF r
  <2>4. lawful => UpAnthropic(v, s, up.begun, up.open, up.closed)
    OBVIOUS
  <2>5. QED BY <2>1, <2>2, <2>3, <2>4, AnthropicStays DEF r
<1>11. CASE s.started /\ m.type = "message_delta"
  <2> DEFINE t == [s EXCEPT !.finish = m.reason]
  <2>1. r = Yield(t, <<Usage>>)
    BY <1>11 DEF TranslateAnthropic
  <2>2. m.reason \in Reason
    BY <1>11 DEF AnthropicMessage, Reason
  <2>3. /\ DecoderOK(t) /\ t.started = s.started /\ ~t.terminal /\ t.next = s.next
        /\ t.blocks = s.blocks
    BY <1>1, <2>2 DEF DecoderOK
  <2>4. OpenAfter(m) = up.open /\ ClosedAfter(m) = up.closed
    BY <1>11 DEF OpenAfter, ClosedAfter
  <2>5. Leads(v, <<Usage>>, v, lawful) /\ m.type # "message_start"
    <3>1. Legal(v, Usage, lawful) /\ After(v, Usage) = v
      BY <1>1, <1>11 DEF Legal, After, Usage
    <3>2. QED BY <1>11, <3>1, LeadsOnce
  <2> HIDE DEF r, t
  <2>6. AnthropicFits(v, t)
    BY <2>3 DEF AnthropicFits
  <2>7. lawful => UpAnthropic(v, t, up.begun, up.open, up.closed)
    BY <2>3 DEF UpAnthropic
  <2>8. QED BY <2>1, <2>3, <2>4, <2>5, <2>6, <2>7, AnthropicStays DEF r
<1>12. CASE s.started /\ m.type = "message_stop"
  <2> DEFINE t == [s EXCEPT !.started = FALSE, !.terminal = TRUE]
             es == <<Usage, Completed(s.finish)>>
  <2>1. r = Yield(t, es)
    BY <1>12 DEF TranslateAnthropic
  <2>2. DecoderOK(t) /\ t.terminal /\ t.next = s.next /\ s.finish \in Reason
    BY <1>1 DEF DecoderOK
  <2>3. lawful => v.open = {}
    <3>1. lawful => up.open = {}
      BY <1>12 DEF AnthropicFollows
    <3>2. QED BY <1>4, <3>1 DEF UpAnthropic
  <2>4. r.state = t /\ r.events = es /\ ~r.thrown
    BY <2>1 DEF Yield
  <2> HIDE DEF t, r
  <2>5. v.phase = "streaming"
    BY <1>1, <1>12
  <2>6. \E w : Leads(v, <<Usage, Completed(s.finish)>>, w, lawful) /\ Agrees(w, t)
    BY <1>1, <2>2, <2>3, <2>5, Ending
  <2>7. QED BY <2>2, <2>4, <2>6 DEF AnthropicDone, r
<1>13. CASE s.started /\ m.type = "content_block_start"
  <2>1. r = OnAnthropicContentStart(s, m)
    BY <1>13 DEF TranslateAnthropic
  <2>2. QED BY <1>13, <2>1, AnthropicStarts
<1>14. CASE s.started /\ m.type = "content_block_delta"
  <2>1. r = OnAnthropicContentDelta(s, m)
    BY <1>14 DEF TranslateAnthropic
  <2>2. QED BY <1>14, <2>1, AnthropicDeltas
<1>15. CASE s.started /\ m.type = "content_block_stop"
  <2>1. r = OnAnthropicContentStop(s, m)
    BY <1>15 DEF TranslateAnthropic
  <2>2. QED BY <1>15, <2>1, AnthropicStops
<1> HIDE DEF r
<1>16. QED
  BY <1>2, <1>5, <1>6, <1>7, <1>8, <1>9, <1>10, <1>11, <1>12, <1>13, <1>14, <1>15 DEF r

(*------------------------- every dialect's decoder -----------------------*)

(* What the decoder knows of a consumer who has been told all it decoded,  *)
(* and, of an orderly upstream, what the upstream thinks of its stream.    *)
Caught(d, w, s, u) ==
  /\ s.terminal => Agrees(w, s)
  /\ ~s.terminal /\ d = "anthropic" =>
       AnthropicFits(w, s) /\ (u.orderly => UpAnthropic(w, s, u.begun, u.open, u.closed))
  /\ ~s.terminal /\ d # "anthropic" => DecoderOK(s) /\ Entries(s) /\ Tracks(w, s)
  /\ ~s.terminal /\ d = "openai" => (u.orderly => UpOpenAI(s, u))
  /\ ~s.terminal /\ d = "gemini" =>
       GeminiTidy(s) /\ (u.orderly => (u.begun => s.started) /\ (u.finished => s.finish # "none"))
  /\ ~s.terminal /\ d = "compatible" =>
       Labelled(s) /\ Listed(s) /\ (u.orderly => UpCompatible(s, u))

(* What the provider is taken to think, by its fields.                     *)
UpTyped(u) == u \in [begun : BOOLEAN, finished : BOOLEAN, open : {u.open},
                     closed : {u.closed}, orderly : BOOLEAN]

(* The result r of a message by which the upstream comes to think u.       *)
DecodedBy(d, v, s, u, r) ==
  /\ r.thrown => ~u.orderly /\ r.events = <<>>
  /\ ~r.thrown =>
       /\ d # "anthropic" => r.state.next \in s.next..(s.next + 4)
       /\ \E w : Leads(v, r.events, w, u.orderly) /\ Caught(d, w, r.state, u)

(* How the upstream moves with the message it sends.                       *)
LEMMA UpstreamMoves ==
  ASSUME NEW m, UpTyped(up)
  PROVE  LET u == UpAfter(m)
         IN  /\ UpTyped(u) /\ (u.orderly <=> up.orderly /\ Follows(m))
             /\ u.orderly =>
                  /\ u.begun <=> (up.begun \/ m.type \in {"response.created", "message_start", "chunk"})
                  /\ u.finished <=> (up.finished \/ (m.type = "chunk" /\ m.finish # "none"))
                  /\ u.open = OpenAfter(m) /\ u.closed = ClosedAfter(m)
<1> DEFINE u == UpAfter(m)
           begun == up.begun \/ m.type \in {"response.created", "message_start", "chunk"}
           finished == up.finished \/ (m.type = "chunk" /\ m.finish # "none")
           open == OpenAfter(m)
           closed == ClosedAfter(m)
<1>1. CASE up.orderly /\ Follows(m)
  <2>1. u = [up EXCEPT !.begun = begun, !.finished = finished, !.open = open, !.closed = closed]
    BY <1>1 DEF UpAfter
  <2>2. begun \in BOOLEAN /\ finished \in BOOLEAN
    BY DEF UpTyped
  <2> HIDE DEF u, begun, finished, open, closed
  <2>3. /\ u.begun = begun /\ u.finished = finished /\ u.open = open /\ u.closed = closed
        /\ u.orderly = up.orderly
    BY <2>1 DEF UpTyped
  <2>4. UpTyped(u)
    BY <2>1, <2>2 DEF UpTyped
  <2>5. QED BY <1>1, <2>3, <2>4 DEF u, begun, finished, open, closed
<1>2. CASE ~(up.orderly /\ Follows(m))
  <2>1. u = [Upstream EXCEPT !.orderly = FALSE]
    BY <1>2 DEF UpAfter
  <2>2. UpTyped(u) /\ ~u.orderly
    BY <2>1 DEF Upstream, UpTyped
  <2> HIDE DEF u
  <2>3. QED BY <1>2, <2>2 DEF u
<1>3. QED BY <1>1, <1>2

(* The decoder's terminal flag is the end of the consumer's stream.        *)
LEMMA CaughtNow ==
  ASSUME NEW d \in Dialect, NEW w, NEW s, NEW u, Caught(d, w, s, u)
  PROVE  /\ w \in View /\ s.next \in Nat
         /\ s.terminal => w.phase = "ended"
         /\ ~s.terminal => w.phase # "ended"
BY DEF Caught, Agrees, AnthropicFits, Tracks, DecoderOK

(* Each dialect's decoder keeps up with the upstream and the consumer, and *)
(* so does the one a stream is given.                                      *)
LEMMA DecodesOpenAI ==
  ASSUME NEW v, NEW s, NEW m \in OpenAIMessage, dialect = "openai", UpTyped(up),
         ~s.terminal, Caught("openai", v, s, up), Room(s, 4)
  PROVE  DecodedBy("openai", v, s, UpAfter(m), TranslateOpenAI(s, m))
<1> DEFINE u == UpAfter(m)
           r == TranslateOpenAI(s, m)
<1>1. /\ UpTyped(u) /\ (u.orderly <=> up.orderly /\ Follows(m))
      /\ u.orderly =>
           /\ u.begun <=> (up.begun \/ m.type \in {"response.created", "message_start", "chunk"})
           /\ u.open = OpenAfter(m) /\ u.closed = ClosedAfter(m)
  BY UpstreamMoves
<1>2. m.type \notin {"message_start", "chunk"}
  BY DEF OpenAIMessage
<1>3. u.orderly \in BOOLEAN
  BY <1>1 DEF UpTyped
<1> HIDE DEF u, r
<1>4. DecoderOK(s) /\ Entries(s) /\ Tracks(v, s) /\ Room(s, 1) /\ s.next \in Nat
  BY DEF Caught, Room, DecoderOK
<1>5. u.orderly => UpOpenAI(s, up) /\ OpenAIFollows(m)
  BY <1>1 DEF Caught, Follows
<1>6. OpenAIDone(v, s, m, r, u.orderly)
  BY <1>3, <1>4, <1>5, OpenAIDecodes DEF r
<1>7. ASSUME ~r.thrown
      PROVE  \E w : Leads(v, r.events, w, u.orderly) /\ Caught("openai", w, r.state, u)
  <2>1. PICK w : Leads(v, r.events, w, u.orderly) /\ Agrees(w, r.state)
    BY <1>6, <1>7 DEF OpenAIDone, Decoded
  <2>2. ~r.state.terminal /\ u.orderly => UpOpenAI(r.state, u)
    <3> SUFFICES ASSUME ~r.state.terminal, u.orderly
                 PROVE  UpOpenAI(r.state, u)
      OBVIOUS
    <3>1. OpenAIKept(r, m)
      BY <1>6 DEF OpenAIDone
    <3>2. u.begun \in BOOLEAN /\ r.state.started \in BOOLEAN
      BY <1>1, <2>1 DEF UpTyped, Agrees, DecoderOK
    <3>3. u.begun = r.state.started
      BY <1>1, <1>2, <3>1, <3>2 DEF OpenAIKept
    <3>4. QED BY <1>1, <3>1, <3>3 DEF OpenAIKept, UpOpenAI
  <2>3. QED BY <2>1, <2>2 DEF Caught, Agrees
<1>8. r.thrown => ~u.orderly /\ r.events = <<>>
  BY <1>6 DEF OpenAIDone, Decoded
<1>9. ~r.thrown => r.state.next \in s.next..(s.next + 4)
  BY <1>4, <1>6 DEF OpenAIDone
<1>10. QED BY <1>7, <1>8, <1>9 DEF DecodedBy, u, r

LEMMA DecodesAnthropic ==
  ASSUME NEW v, NEW s, NEW m \in AnthropicMessage, dialect = "anthropic", UpTyped(up),
         ~s.terminal, Caught("anthropic", v, s, up)
  PROVE  DecodedBy("anthropic", v, s, UpAfter(m), TranslateAnthropic(s, m))
<1> DEFINE u == UpAfter(m)
           r == TranslateAnthropic(s, m)
<1>1. /\ UpTyped(u) /\ (u.orderly <=> up.orderly /\ Follows(m))
      /\ u.orderly =>
           /\ u.begun <=> (up.begun \/ m.type \in {"response.created", "message_start", "chunk"})
           /\ u.open = OpenAfter(m) /\ u.closed = ClosedAfter(m)
  BY UpstreamMoves
<1>2. m.type \notin {"response.created", "chunk"}
  BY DEF AnthropicMessage
<1>3. u.orderly \in BOOLEAN
  BY <1>1 DEF UpTyped
<1> HIDE DEF u, r
<1>4. AnthropicFits(v, s)
  BY DEF Caught
<1>5. u.orderly => UpAnthropic(v, s, up.begun, up.open, up.closed) /\ AnthropicFollows(m)
  BY <1>1 DEF Caught, Follows
<1>6. AnthropicDone(v, s, m, r, u.orderly)
  BY <1>3, <1>4, <1>5, AnthropicDecodes DEF r
<1>7. ASSUME ~r.thrown
      PROVE  \E w : Leads(v, r.events, w, u.orderly) /\ Caught("anthropic", w, r.state, u)
  <2>1. PICK w : /\ Leads(v, r.events, w, u.orderly)
                 /\ IF r.state.terminal THEN Agrees(w, r.state)
                    ELSE /\ AnthropicFits(w, r.state)
                         /\ u.orderly => UpAnthropic(w, r.state, up.begun \/ m.type = "message_start",
                                                     OpenAfter(m), ClosedAfter(m))
    BY <1>6, <1>7 DEF AnthropicDone
  <2>2. ~r.state.terminal /\ u.orderly => UpAnthropic(w, r.state, u.begun, u.open, u.closed)
    BY <1>1, <1>2, <2>1 DEF UpAnthropic
  <2>3. QED BY <2>1, <2>2 DEF Caught
<1>8. r.thrown => ~u.orderly /\ r.events = <<>>
  BY <1>6 DEF AnthropicDone
<1>9. QED BY <1>7, <1>8 DEF DecodedBy, u, r

LEMMA DecodesGemini ==
  ASSUME NEW v, NEW s, NEW m \in GeminiMessage, dialect = "gemini", UpTyped(up),
         ~s.terminal, Caught("gemini", v, s, up), Room(s, 4)
  PROVE  DecodedBy("gemini", v, s, UpAfter(m), TranslateGemini(s, m))
<1> DEFINE u == UpAfter(m)
           r == TranslateGemini(s, m)
<1>1. /\ UpTyped(u) /\ (u.orderly <=> up.orderly /\ Follows(m))
      /\ u.orderly =>
           /\ u.begun <=> (up.begun \/ m.type \in {"response.created", "message_start", "chunk"})
           /\ u.finished <=> (up.finished \/ (m.type = "chunk" /\ m.finish # "none"))
  BY UpstreamMoves
<1>2. m.type \notin {"response.created", "message_start"}
  BY DEF GeminiMessage
<1>3. u.orderly \in BOOLEAN
  BY <1>1 DEF UpTyped
<1> HIDE DEF u, r
<1>4. DecoderOK(s) /\ Entries(s) /\ Tracks(v, s) /\ GeminiTidy(s)
  BY DEF Caught
<1>5. u.orderly => (up.begun => s.started) /\ (up.finished => s.finish # "none") /\ GeminiFollows(m)
  BY <1>1 DEF Caught, Follows
<1>6. GeminiDone(v, s, m, r, u.orderly)
  BY <1>3, <1>4, <1>5, GeminiDecodes DEF r
<1>7. ASSUME ~r.thrown
      PROVE  \E w : Leads(v, r.events, w, u.orderly) /\ Caught("gemini", w, r.state, u)
  <2>1. PICK w : Leads(v, r.events, w, u.orderly) /\ Agrees(w, r.state)
    BY <1>6, <1>7 DEF GeminiDone, Decoded
  <2>2. ~r.state.terminal /\ u.orderly =>
          (u.begun => r.state.started) /\ (u.finished => r.state.finish # "none")
    BY <1>1, <1>2, <1>6 DEF GeminiDone, GeminiKept
  <2>3. ~r.state.terminal => GeminiTidy(r.state)
    BY <1>6, <1>7 DEF GeminiDone
  <2>4. QED BY <2>1, <2>2, <2>3 DEF Caught, Agrees
<1>8. r.thrown => ~u.orderly /\ r.events = <<>>
  BY <1>6 DEF GeminiDone, Decoded
<1>9. ~r.thrown => r.state.next \in s.next..(s.next + 4)
  BY <1>6 DEF GeminiDone
<1>10. QED BY <1>7, <1>8, <1>9 DEF DecodedBy, u, r

LEMMA DecodesCompatible ==
  ASSUME NEW v, NEW s, NEW m \in CompatibleMessage, dialect = "compatible", UpTyped(up),
         ~s.terminal, Caught("compatible", v, s, up), Room(s, 4)
  PROVE  DecodedBy("compatible", v, s, UpAfter(m), TranslateCompatible(s, m))
<1> DEFINE u == UpAfter(m)
           r == TranslateCompatible(s, m)
<1>1. /\ UpTyped(u) /\ (u.orderly <=> up.orderly /\ Follows(m))
      /\ u.orderly =>
           /\ u.begun <=> (up.begun \/ m.type \in {"response.created", "message_start", "chunk"})
           /\ u.finished <=> (up.finished \/ (m.type = "chunk" /\ m.finish # "none"))
           /\ u.open = OpenAfter(m)
  BY UpstreamMoves
<1>2. m.type \notin {"response.created", "message_start"}
  BY DEF CompatibleMessage
<1>3. u.orderly \in BOOLEAN
  BY <1>1 DEF UpTyped
<1> HIDE DEF u, r
<1>4. DecoderOK(s) /\ Entries(s) /\ Tracks(v, s) /\ Labelled(s) /\ Listed(s)
  BY DEF Caught
<1>5. u.orderly => UpCompatible(s, up) /\ CompatibleFollows(m)
  BY <1>1 DEF Caught, Follows
<1>6. CompatibleDone(v, s, m, r, u.orderly)
  BY <1>3, <1>4, <1>5, CompatibleDecodes DEF r
<1>7. ASSUME ~r.thrown
      PROVE  \E w : Leads(v, r.events, w, u.orderly) /\ Caught("compatible", w, r.state, u)
  <2>1. PICK w : Leads(v, r.events, w, u.orderly) /\ Agrees(w, r.state)
    BY <1>6, <1>7 DEF CompatibleDone, Decoded
  <2>2. ~r.state.terminal /\ u.orderly => UpCompatible(r.state, u)
    BY <1>1, <1>2, <1>6 DEF CompatibleDone, CompatibleKept, UpCompatible
  <2>3. ~r.state.terminal => Labelled(r.state) /\ Listed(r.state)
    BY <1>6, <1>7 DEF CompatibleDone
  <2>4. QED BY <2>1, <2>2, <2>3 DEF Caught, Agrees
<1>8. r.thrown => ~u.orderly /\ r.events = <<>>
  BY <1>6 DEF CompatibleDone, Decoded
<1>9. ~r.thrown => r.state.next \in s.next..(s.next + 4)
  BY <1>6 DEF CompatibleDone
<1>10. QED BY <1>7, <1>8, <1>9 DEF DecodedBy, u, r

LEMMA Decodes ==
  ASSUME NEW v, NEW s, NEW m \in MessageOf(dialect), dialect \in Dialect, UpTyped(up),
         ~s.terminal, Caught(dialect, v, s, up), dialect # "anthropic" => Room(s, 4)
  PROVE  DecodedBy(dialect, v, s, UpAfter(m), Decode(dialect, s, m))
<1>1. CASE dialect = "openai"
  <2>1. m \in OpenAIMessage /\ Decode(dialect, s, m) = TranslateOpenAI(s, m)
    BY <1>1 DEF MessageOf, Decode
  <2>2. QED BY <1>1, <2>1, DecodesOpenAI
<1>2. CASE dialect = "anthropic"
  <2>1. m \in AnthropicMessage /\ Decode(dialect, s, m) = TranslateAnthropic(s, m)
    BY <1>2 DEF MessageOf, Decode
  <2>2. QED BY <1>2, <2>1, DecodesAnthropic
<1>3. CASE dialect = "gemini"
  <2>1. m \in GeminiMessage /\ Decode(dialect, s, m) = TranslateGemini(s, m)
    BY <1>3 DEF MessageOf, Decode
  <2>2. QED BY <1>3, <2>1, DecodesGemini
<1>4. CASE dialect = "compatible"
  <2>1. m \in CompatibleMessage /\ Decode(dialect, s, m) = TranslateCompatible(s, m)
    BY <1>4 DEF MessageOf, Decode
  <2>2. QED BY <1>4, <2>1, DecodesCompatible
<1>5. QED BY <1>1, <1>2, <1>3, <1>4 DEF Dialect

(* Before the first message there is nothing to agree on.                  *)
LEMMA CaughtFirst ==
  ASSUME NEW d \in Dialect
  PROVE  LET v == [phase |-> "idle", open |-> {}, closed |-> {}, kinds |-> <<>>]
         IN  v \in View /\ Caught(d, v, Fresh, Upstream)
<1> DEFINE v == [phase |-> "idle", open |-> {}, closed |-> {}, kinds |-> <<>>]
           s == Fresh
           u == Upstream
<1>1. DOMAIN <<>> = {} /\ <<>> \in [{} -> BlockKinds]
  OBVIOUS
<1>2. <<>> \in UNION {[I -> BlockKinds] : I \in SUBSET Indices}
  BY <1>1
<1>3. v \in View
  BY <1>2 DEF View
<1>4. /\ v.phase = "idle" /\ v.open = {} /\ v.closed = {} /\ DOMAIN v.kinds = {}
  BY <1>1
<1>5. /\ DecoderOK(s) /\ ~s.started /\ ~s.terminal /\ s.next = 0 /\ DOMAIN s.blocks = {}
      /\ s.calls = <<>> /\ s.finish = "none"
  <2>1. s = [started |-> FALSE, terminal |-> FALSE, next |-> 0, blocks |-> <<>>,
             calls |-> <<>>, refused |-> FALSE, called |-> FALSE, finish |-> "none"]
    BY DEF Fresh
  <2> HIDE DEF s
  <2>2. QED BY <1>1, <2>1 DEF DecoderOK, Reason
<1>6. ~u.begun /\ ~u.finished /\ u.open = {} /\ u.closed = {}
  BY DEF Upstream
<1> HIDE DEF v, s, u
<1>7. Undone(s) = {}
  BY <1>5 DEF Undone
<1>8. Entries(s) /\ Tracks(v, s)
  <2>1. Entries(s)
    BY <1>5 DEF Entries
  <2>2. Tracks(v, s)
    BY <1>3, <1>4, <1>5, <1>7 DEF Tracks
  <2>3. QED BY <2>1, <2>2
<1>9. AnthropicFits(v, s) /\ UpAnthropic(v, s, u.begun, u.open, u.closed)
  <2>1. AnthropicFits(v, s)
    BY <1>3, <1>4, <1>5 DEF AnthropicFits
  <2>2. IsFiniteSet(u.closed)
    BY <1>6, FS_EmptySet
  <2>3. QED BY <1>4, <1>5, <1>6, <2>1, <2>2 DEF UpAnthropic
<1>10. UpOpenAI(s, u)
  BY <1>5, <1>6, <1>7 DEF UpOpenAI, Upstream, Fresh, u, s
<1>11. GeminiTidy(s) /\ Labelled(s) /\ Listed(s) /\ UpCompatible(s, u)
  <2>1. GeminiTidy(s) /\ Labelled(s)
    BY <1>5, <1>7 DEF GeminiTidy, Labelled
  <2>2. s.calls \in Seq(Nat) /\ DOMAIN s.calls = {} /\ CallBlocks(s) = {}
    BY <1>5 DEF CallBlocks
  <2>3. Listed(s)
    BY <2>2 DEF Listed
  <2>4. UpCompatible(s, u)
    BY <1>6 DEF UpCompatible
  <2>5. QED BY <2>1, <2>3, <2>4
<1>12. Caught(d, v, s, u)
  BY <1>5, <1>6, <1>8, <1>9, <1>10, <1>11 DEF Caught
<1>13. QED BY <1>3, <1>12 DEF v, s, u

(*------------------------------- encoders --------------------------------*)

(* The kinds of block an answer collects, and an answer's type.            *)
AnswerKinds == BlockKinds \cup {"reasoning"}

AreBlocks(blocks) ==
  \A at \in DOMAIN blocks : blocks[at] \in [kind : AnswerKinds, n : {blocks[at].n}]

AnswerTyped(a) ==
  /\ a \in [blocks : {a.blocks}, tools : {a.tools}, end : {a.end}, thrown : {FALSE}]
  /\ AreBlocks(a.blocks)

(* A block of its kind stands in the answer at index i.                    *)
Collected(blocks, v, i) == IsA(blocks, i, {v.kinds[i]})

(* The collector has a block for every block it has been told of, of its   *)
(* kind, wherever its protocol has one.                                    *)
AnswerOK(p, a, v) ==
  /\ AnswerTyped(a)
  /\ p = "messages" => \A i \in DOMAIN v.kinds : v.kinds[i] # "summary" => Collected(a.blocks, v, i)
  /\ p = "responses" => \A i \in DOMAIN v.kinds : Collected(a.blocks, v, i)
  /\ p = "chat" =>
       /\ \A i \in DOMAIN v.kinds : v.kinds[i] = "tool_call" => i \in DOMAIN a.tools
       /\ \A i \in DOMAIN a.tools : a.tools[i] \in Nat /\ IsA(a.blocks, a.tools[i], {"tool_call"})
       /\ IsFiniteSet(DOMAIN a.tools)

(* An answer's blocks, one put in and one extended; the answer with its    *)
(* blocks extended, replaced, or ended.                                    *)
LEMMA NewBlock ==
  ASSUME NEW blocks, NEW at, NEW kind \in AnswerKinds,
         AreBlocks(blocks)
  PROVE  LET after == With(blocks, at, Empty(kind))
         IN  /\ AreBlocks(after)
             /\ IsA(after, at, {kind})
             /\ \A j, kinds : j # at => (IsA(after, j, kinds) <=> IsA(blocks, j, kinds))
<1> DEFINE after == With(blocks, at, Empty(kind))
           none == [p \in PartName |-> 0]
<1>1. /\ DOMAIN after = DOMAIN blocks \cup {at} /\ after[at] = Empty(kind)
      /\ \A j \in DOMAIN blocks : j # at => after[j] = blocks[j]
  BY DEF With
<1>2. Empty(kind) = [kind |-> kind, n |-> none]
  BY DEF Empty
<1> HIDE DEF after, none
<1>3. /\ Empty(kind).kind = kind
      /\ Empty(kind) \in [kind : AnswerKinds, n : {Empty(kind).n}]
  BY <1>2
<1>4. AreBlocks(after)
  BY <1>1, <1>3 DEF AreBlocks
<1>5. IsA(after, at, {kind})
  BY <1>1, <1>3 DEF IsA
<1>6. \A j, kinds : j # at => (IsA(after, j, kinds) <=> IsA(blocks, j, kinds))
  BY <1>1 DEF IsA
<1>7. QED BY <1>4, <1>5, <1>6 DEF after

LEMMA BlockGrows ==
  ASSUME NEW blocks, NEW at \in DOMAIN blocks, NEW part,
         AreBlocks(blocks)
  PROVE  LET after == Plus(blocks, at, part)
         IN  /\ AreBlocks(after)
             /\ \A j, kinds : IsA(after, j, kinds) <=> IsA(blocks, j, kinds)
<1> DEFINE after == Plus(blocks, at, part)
           old == blocks[at]
           n == [old.n EXCEPT ![part] = old.n[part] + 1]
           now == [old EXCEPT !.n = n]
<1>1. after = [blocks EXCEPT ![at] = now]
  BY DEF Plus
<1>2. old \in [kind : AnswerKinds, n : {old.n}]
  BY DEF AreBlocks
<1> HIDE DEF n
<1>3. now.kind = old.kind /\ now \in [kind : AnswerKinds, n : {now.n}]
  <2> HIDE DEF old
  <2>1. QED BY <1>2
<1> HIDE DEF now, after
<1>4. /\ DOMAIN after = DOMAIN blocks /\ after[at] = now
      /\ \A j \in DOMAIN blocks : j # at => after[j] = blocks[j]
  BY <1>1
<1>5. AreBlocks(after)
  BY <1>3, <1>4 DEF AreBlocks
<1>6. \A j, kinds : IsA(after, j, kinds) <=> IsA(blocks, j, kinds)
  BY <1>3, <1>4 DEF IsA
<1>7. QED BY <1>5, <1>6 DEF after

LEMMA Extending ==
  ASSUME NEW a, NEW at, NEW part, NEW kinds, AnswerTyped(a), IsA(a.blocks, at, kinds)
  PROVE  LET b == Extended(a, at, part, kinds)
         IN  /\ AnswerTyped(b) /\ b.tools = a.tools
             /\ \A j, ks : IsA(b.blocks, j, ks) <=> IsA(a.blocks, j, ks)
<1> DEFINE blocks == Plus(a.blocks, at, part)
           b == [a EXCEPT !.blocks = blocks]
<1>1. Extended(a, at, part, kinds) = b
  BY DEF Extended
<1>2. at \in DOMAIN a.blocks
  BY DEF IsA
<1>3. /\ AreBlocks(blocks)
      /\ \A j, ks : IsA(blocks, j, ks) <=> IsA(a.blocks, j, ks)
  BY <1>2, BlockGrows DEF AnswerTyped
<1> HIDE DEF blocks
<1>4. b.blocks = blocks /\ b.tools = a.tools
      /\ b \in [blocks : {b.blocks}, tools : {b.tools}, end : {b.end}, thrown : {FALSE}]
  BY DEF AnswerTyped
<1> HIDE DEF b
<1>5. AnswerTyped(b)
  BY <1>3, <1>4 DEF AnswerTyped
<1>6. QED BY <1>1, <1>3, <1>4, <1>5

LEMMA Replacing ==
  ASSUME NEW a, NEW blocks, NEW b, AnswerTyped(a), AreBlocks(blocks),
         b = [a EXCEPT !.blocks = blocks]
  PROVE  AnswerTyped(b) /\ b.blocks = blocks /\ b.tools = a.tools
<1>1. a \in [blocks : {a.blocks}, tools : {a.tools}, end : {a.end}, thrown : {FALSE}]
  BY DEF AnswerTyped
<1>2. /\ b.blocks = blocks /\ b.tools = a.tools
      /\ b \in [blocks : {b.blocks}, tools : {b.tools}, end : {b.end}, thrown : {FALSE}]
  BY <1>1
<1>3. QED BY <1>2 DEF AnswerTyped

LEMMA EndingAnswer ==
  ASSUME NEW p, NEW a, NEW v, NEW w, NEW e, AnswerOK(p, a, v), w.kinds = v.kinds
  PROVE  AnswerOK(p, Ended(a, e), w)
<1> DEFINE b == Ended(a, e)
<1>1. a \in [blocks : {a.blocks}, tools : {a.tools}, end : {a.end}, thrown : {FALSE}]
  BY DEF AnswerOK, AnswerTyped
<1>2. b \in [blocks : {b.blocks}, tools : {b.tools}, end : {b.end}, thrown : {FALSE}]
      /\ b.blocks = a.blocks /\ b.tools = a.tools
  BY <1>1 DEF Ended
<1> HIDE DEF b
<1>3. AnswerTyped(b)
  BY <1>2 DEF AnswerOK, AnswerTyped
<1>4. QED BY <1>2, <1>3 DEF AnswerOK, Collected, b

(* What each type of event does to the kinds a consumer knows.             *)
LEMMA EventsMove ==
  ASSUME NEW v \in View, NEW e, NEW lawful \in BOOLEAN, Legal(v, e, lawful)
  PROVE  /\ e.type \in {"response.started", "opened", "delta", "completed", "usage.updated",
                        "response.completed", "response.failed"}
         /\ e.type = "opened" =>
              /\ e = Opened(e.index, e.kind) /\ e.index \in Indices /\ e.kind \in BlockKinds
              /\ DOMAIN After(v, e).kinds = DOMAIN v.kinds \cup {e.index}
              /\ After(v, e).kinds[e.index] = e.kind
              /\ \A i \in DOMAIN v.kinds : i # e.index => After(v, e).kinds[i] = v.kinds[i]
         /\ e.type # "opened" => After(v, e).kinds = v.kinds
         /\ e.type = "delta" =>
              /\ e.index \in DOMAIN v.kinds /\ e.part \in PartName
              /\ v.kinds[e.index] \in KindOf(e.part)
         /\ e.type = "completed" =>
              /\ e.index \in DOMAIN v.kinds
              /\ e.of = "tool_call" <=> v.kinds[e.index] = "tool_call"
         /\ e.type = "response.completed" => e.reason \in Reason
<1>1. CASE e = Started
  BY <1>1 DEF Started, View, After
<1>2. ASSUME NEW i \in Indices, NEW kind \in BlockKinds, e = Opened(i, kind)
      PROVE  /\ e.type = "opened" /\ e.index = i /\ e.kind = kind
             /\ DOMAIN After(v, e).kinds = DOMAIN v.kinds \cup {i}
             /\ After(v, e).kinds[i] = kind
             /\ \A j \in DOMAIN v.kinds : j # i => After(v, e).kinds[j] = v.kinds[j]
  <2>1. After(v, e).kinds = With(v.kinds, i, kind)
    BY <1>2 DEF After, Opened, View
  <2>2. QED BY <1>2, <2>1 DEF With, Opened
<1>3. ASSUME NEW i \in Indices, NEW part \in PartName, e = Delta(i, part),
             i \in DOMAIN v.kinds, v.kinds[i] \in KindOf(part)
      PROVE  /\ e.type = "delta" /\ e.index = i /\ e.part = part /\ After(v, e).kinds = v.kinds
  BY <1>3 DEF Delta, View, After
<1>4. ASSUME NEW i \in Indices, NEW kind \in BlockKinds, e = Closed(i, kind)
      PROVE  /\ e.type = "completed" /\ After(v, e).kinds = v.kinds
             /\ e.index = i /\ (e.of = "tool_call" <=> kind = "tool_call")
  BY <1>4 DEF Closed, View, After
<1>5. CASE e = Usage
  BY <1>5 DEF Usage, View, After
<1>6. ASSUME NEW reason \in Reason, e = Completed(reason)
      PROVE  e.type = "response.completed" /\ e.reason = reason /\ After(v, e).kinds = v.kinds
  BY <1>6 DEF Completed, View, After
<1>7. CASE e = Failed
  BY <1>7 DEF Failed, View, After
<1>8. CASE e.type = "opened"
  <2>1. PICK i \in Indices, kind \in BlockKinds : e = Opened(i, kind)
    BY <1>8 DEF Legal, Started, Delta, Closed, Usage, Completed, Failed
  <2>2. QED BY <1>2, <1>8, <2>1
<1>9. CASE e.type = "delta"
  <2>1. PICK i \in Indices, part \in PartName :
          e = Delta(i, part) /\ i \in DOMAIN v.kinds /\ v.kinds[i] \in KindOf(part)
    BY <1>9 DEF Legal, Started, Opened, Closed, Usage, Completed, Failed
  <2>2. QED BY <1>3, <1>9, <2>1
<1>10. CASE e.type \notin {"opened", "delta"}
  <2>1. \A i, x : e # Opened(i, x) /\ e # Delta(i, x)
    BY <1>10 DEF Opened, Delta
  <2>2. \/ e = Started \/ e = Usage \/ e = Failed
        \/ \E i \in Indices, kind \in BlockKinds :
             e = Closed(i, kind) /\ i \in DOMAIN v.kinds /\ v.kinds[i] = kind
        \/ \E reason \in Reason : e = Completed(reason)
    BY <2>1 DEF Legal
  <2>3. Started.type = "response.started" /\ Usage.type = "usage.updated"
        /\ Failed.type = "response.failed"
    BY DEF Started, Usage, Failed
  <2>4. QED BY <1>1, <1>4, <1>5, <1>6, <1>7, <1>10, <2>2, <2>3
<1>11. QED BY <1>8, <1>9, <1>10

(* A legal event is collected without an exception, by each protocol.      *)
LEMMA CollectingMessages ==
  ASSUME NEW a, NEW v \in View, NEW e, NEW lawful \in BOOLEAN, Legal(v, e, lawful),
         AnswerOK("messages", a, v)
  PROVE  AnswerOK("messages", CollectMessages(a, e), After(v, e))
<1> DEFINE w == After(v, e)
           b == CollectMessages(a, e)
<1>1. /\ e.type = "opened" =>
           /\ e.kind \in BlockKinds /\ DOMAIN w.kinds = DOMAIN v.kinds \cup {e.index}
           /\ w.kinds[e.index] = e.kind
           /\ \A i \in DOMAIN v.kinds : i # e.index => w.kinds[i] = v.kinds[i]
      /\ e.type # "opened" => w.kinds = v.kinds
      /\ e.type = "delta" =>
           e.index \in DOMAIN v.kinds /\ e.part \in PartName /\ v.kinds[e.index] \in KindOf(e.part)
  BY EventsMove
<1>2. AnswerTyped(a) /\ \A i \in DOMAIN v.kinds : v.kinds[i] # "summary" => Collected(a.blocks, v, i)
  BY DEF AnswerOK
<1> HIDE DEF w
<1>3. CASE e.type = "opened" /\ e.kind = "summary"
  <2>1. b = a
    BY <1>3 DEF CollectMessages
  <2>2. \A i \in DOMAIN w.kinds : w.kinds[i] # "summary" => Collected(a.blocks, w, i)
    BY <1>1, <1>2, <1>3 DEF Collected
  <2>3. QED BY <1>2, <2>1, <2>2 DEF AnswerOK, w
<1>4. CASE e.type = "opened" /\ e.kind # "summary"
  <2> DEFINE blocks == With(a.blocks, e.index, Empty(e.kind))
  <2>1. b = [a EXCEPT !.blocks = blocks]
    BY <1>4 DEF CollectMessages
  <2>2. e.kind \in AnswerKinds
    BY <1>1, <1>4 DEF AnswerKinds
  <2>3. /\ AreBlocks(blocks)
        /\ IsA(blocks, e.index, {e.kind})
        /\ \A j, kinds : j # e.index => (IsA(blocks, j, kinds) <=> IsA(a.blocks, j, kinds))
    BY <1>2, <2>2, NewBlock DEF AnswerTyped
  <2> HIDE DEF blocks, b
  <2>4. AnswerTyped(b) /\ b.blocks = blocks
    BY <1>2, <2>1, <2>3, Replacing
  <2>5. \A i \in DOMAIN w.kinds : w.kinds[i] # "summary" => Collected(blocks, w, i)
    BY <1>1, <1>2, <1>4, <2>3 DEF Collected
  <2>6. QED BY <2>4, <2>5 DEF AnswerOK, w, b
<1>5. CASE e.type = "delta"
  <2> DEFINE skipped == /\ e.part \in {"reasoning", "signature"}
                        /\ ~IsA(a.blocks, e.index, {"thinking"})
  <2>1. w.kinds = v.kinds
    BY <1>1, <1>5
  <2>2. CASE skipped
    <3>1. b = a
      BY <1>5, <2>2 DEF CollectMessages
    <3>2. QED BY <1>2, <2>1, <3>1 DEF AnswerOK, Collected, w
  <2>3. CASE ~skipped
    <3> DEFINE kinds == KindOf(e.part)
    <3>1. b = Extended(a, e.index, e.part, kinds)
      BY <1>5, <2>3 DEF CollectMessages
    <3>2. IsA(a.blocks, e.index, kinds)
      <4>1. CASE e.part \in {"reasoning", "signature"}
        BY <2>3, <4>1 DEF IsA, KindOf
      <4>2. CASE e.part \in {"text", "arguments"}
        BY <1>1, <1>2, <1>5, <4>2 DEF Collected, IsA, KindOf
      <4>3. QED BY <1>1, <1>5, <4>1, <4>2 DEF PartName
    <3> HIDE DEF b, kinds
    <3>3. AnswerTyped(b) /\ \A j, ks : IsA(b.blocks, j, ks) <=> IsA(a.blocks, j, ks)
      BY <1>2, <3>1, <3>2, Extending
    <3>4. QED BY <1>2, <2>1, <3>3 DEF AnswerOK, Collected, w, b
  <2>4. QED BY <2>2, <2>3
<1>6. CASE e.type \notin {"opened", "delta"}
  <2>1. b = Ended(a, e)
    BY <1>6 DEF CollectMessages
  <2>2. w.kinds = v.kinds
    BY <1>1, <1>6
  <2>3. QED BY <2>1, <2>2, EndingAnswer DEF w
<1>7. QED BY <1>3, <1>4, <1>5, <1>6

LEMMA CollectingResponses ==
  ASSUME NEW a, NEW v \in View, NEW e, NEW lawful \in BOOLEAN, Legal(v, e, lawful),
         AnswerOK("responses", a, v)
  PROVE  AnswerOK("responses", CollectResponses(a, e), After(v, e))
<1> DEFINE w == After(v, e)
           b == CollectResponses(a, e)
<1>1. /\ e.type = "opened" =>
           /\ e.kind \in BlockKinds /\ DOMAIN w.kinds = DOMAIN v.kinds \cup {e.index}
           /\ w.kinds[e.index] = e.kind
           /\ \A i \in DOMAIN v.kinds : i # e.index => w.kinds[i] = v.kinds[i]
      /\ e.type # "opened" => w.kinds = v.kinds
      /\ e.type = "delta" =>
           e.index \in DOMAIN v.kinds /\ e.part \in PartName /\ v.kinds[e.index] \in KindOf(e.part)
  BY EventsMove
<1>2. AnswerTyped(a) /\ \A i \in DOMAIN v.kinds : Collected(a.blocks, v, i)
  BY DEF AnswerOK
<1> HIDE DEF w
<1>3. CASE e.type = "opened"
  <2> DEFINE blocks == With(a.blocks, e.index, Empty(e.kind))
  <2>1. b = [a EXCEPT !.blocks = blocks]
    BY <1>3 DEF CollectResponses
  <2>2. e.kind \in AnswerKinds
    BY <1>1, <1>3 DEF AnswerKinds
  <2>3. /\ AreBlocks(blocks)
        /\ IsA(blocks, e.index, {e.kind})
        /\ \A j, kinds : j # e.index => (IsA(blocks, j, kinds) <=> IsA(a.blocks, j, kinds))
    BY <1>2, <2>2, NewBlock DEF AnswerTyped
  <2> HIDE DEF blocks, b
  <2>4. AnswerTyped(b) /\ b.blocks = blocks
    BY <1>2, <2>1, <2>3, Replacing
  <2>5. \A i \in DOMAIN w.kinds : Collected(blocks, w, i)
    BY <1>1, <1>2, <1>3, <2>3 DEF Collected
  <2>6. QED BY <2>4, <2>5 DEF AnswerOK, w, b
<1>4. CASE e.type = "delta" /\ e.part # "signature"
  <2> DEFINE kinds == KindOf(e.part)
  <2>1. w.kinds = v.kinds
    BY <1>1, <1>4
  <2>2. b = Extended(a, e.index, e.part, kinds)
    BY <1>4 DEF CollectResponses
  <2>3. IsA(a.blocks, e.index, kinds)
    BY <1>1, <1>2, <1>4 DEF Collected, IsA
  <2> HIDE DEF b, kinds
  <2>4. AnswerTyped(b) /\ \A j, ks : IsA(b.blocks, j, ks) <=> IsA(a.blocks, j, ks)
    BY <1>2, <2>2, <2>3, Extending
  <2>5. QED BY <1>2, <2>1, <2>4 DEF AnswerOK, Collected, w, b
<1>5. CASE e.type = "completed" /\ e.of = "tool_call"
  <2>1. e.index \in DOMAIN v.kinds /\ v.kinds[e.index] = "tool_call"
    BY <1>5, EventsMove
  <2>2. b = a
    BY <1>2, <1>5, <2>1 DEF CollectResponses, Collected
  <2>3. w.kinds = v.kinds
    BY <1>1, <1>5
  <2>4. QED BY <1>2, <2>2, <2>3 DEF AnswerOK, Collected, w
<1>6. CASE e.type # "opened" /\ ~(e.type = "delta" /\ e.part # "signature")
           /\ ~(e.type = "completed" /\ e.of = "tool_call")
  <2>1. b = Ended(a, e)
    BY <1>6 DEF CollectResponses
  <2>2. w.kinds = v.kinds
    BY <1>1, <1>6
  <2>3. QED BY <2>1, <2>2, EndingAnswer DEF w
<1>7. QED BY <1>3, <1>4, <1>5, <1>6

LEMMA CollectingChat ==
  ASSUME NEW a, NEW v \in View, NEW e, NEW lawful \in BOOLEAN, Legal(v, e, lawful),
         AnswerOK("chat", a, v)
  PROVE  AnswerOK("chat", CollectChat(a, e), After(v, e))
<1> DEFINE w == After(v, e)
           b == CollectChat(a, e)
<1>1. /\ e.type = "opened" =>
           /\ e.kind \in BlockKinds /\ DOMAIN w.kinds = DOMAIN v.kinds \cup {e.index}
           /\ w.kinds[e.index] = e.kind
           /\ \A i \in DOMAIN v.kinds : i # e.index => w.kinds[i] = v.kinds[i]
      /\ e.type # "opened" => w.kinds = v.kinds
      /\ e.type = "delta" =>
           e.index \in DOMAIN v.kinds /\ e.part \in PartName /\ v.kinds[e.index] \in KindOf(e.part)
  BY EventsMove
<1>2. /\ AnswerTyped(a) /\ IsFiniteSet(DOMAIN a.tools)
      /\ \A i \in DOMAIN v.kinds : v.kinds[i] = "tool_call" => i \in DOMAIN a.tools
      /\ \A i \in DOMAIN a.tools : a.tools[i] \in Nat /\ IsA(a.blocks, a.tools[i], {"tool_call"})
  BY DEF AnswerOK
<1>3. AreBlocks(a.blocks)
  BY <1>2 DEF AnswerTyped
<1> HIDE DEF w
<1>4. CASE e.type = "opened" /\ e.kind = "tool_call"
  <2> DEFINE position == Cardinality(DOMAIN a.tools)
             tools == With(a.tools, e.index, position)
             blocks == With(a.blocks, position, Empty("tool_call"))
  <2>1. b = [a EXCEPT !.tools = tools, !.blocks = blocks]
    BY <1>4 DEF CollectChat
  <2>2. position \in Nat
    BY <1>2, FS_CardinalityType
  <2>3. /\ DOMAIN tools = DOMAIN a.tools \cup {e.index} /\ tools[e.index] = position
        /\ \A i \in DOMAIN a.tools : i # e.index => tools[i] = a.tools[i]
    BY DEF With
  <2>4. "tool_call" \in AnswerKinds
    BY DEF AnswerKinds, BlockKinds
  <2> HIDE DEF position
  <2>5. /\ AreBlocks(blocks) /\ IsA(blocks, position, {"tool_call"})
        /\ \A j, kinds : j # position => (IsA(blocks, j, kinds) <=> IsA(a.blocks, j, kinds))
    BY <1>3, <2>4, NewBlock
  <2> HIDE DEF tools, blocks, b
  <2>6. AnswerTyped(b) /\ b.tools = tools /\ b.blocks = blocks
    <3>1. a \in [blocks : {a.blocks}, tools : {a.tools}, end : {a.end}, thrown : {FALSE}]
      BY <1>2 DEF AnswerTyped
    <3>2. /\ b.blocks = blocks /\ b.tools = tools
          /\ b \in [blocks : {b.blocks}, tools : {b.tools}, end : {b.end}, thrown : {FALSE}]
      BY <2>1, <3>1
    <3>3. QED BY <2>5, <3>2 DEF AnswerTyped
  <2>7. IsFiniteSet(DOMAIN tools)
    BY <1>2, <2>3, FS_AddElement
  <2>8. \A i \in DOMAIN w.kinds : w.kinds[i] = "tool_call" => i \in DOMAIN tools
    BY <1>1, <1>2, <1>4, <2>3
  <2>9. \A i \in DOMAIN tools : tools[i] \in Nat /\ IsA(blocks, tools[i], {"tool_call"})
    BY <1>2, <2>2, <2>3, <2>5
  <2>10. QED BY <2>6, <2>7, <2>8, <2>9 DEF AnswerOK, w, b
<1>5. CASE e.type = "opened" /\ e.kind # "tool_call"
  <2>1. b = a
    BY <1>5 DEF CollectChat, Ended
  <2>2. \A i \in DOMAIN w.kinds : w.kinds[i] = "tool_call" => i \in DOMAIN a.tools
    BY <1>1, <1>2, <1>5
  <2>3. QED BY <1>2, <2>1, <2>2 DEF AnswerOK, w
<1>6. CASE e.type = "delta" /\ e.part \in {"text", "reasoning"}
  <2> DEFINE at == ChatAt(e.part)
             before == Orelse(a.blocks, at, e.part)
             blocks == Plus(before, at, e.part)
  <2>1. b = [a EXCEPT !.blocks = blocks]
    BY <1>6 DEF CollectChat
  <2>2. at \notin Nat
    BY <1>6 DEF ChatAt
  <2>3. e.part \in AnswerKinds
    BY <1>6 DEF AnswerKinds, BlockKinds
  <2> HIDE DEF at, before
  <2>4. /\ AreBlocks(before) /\ at \in DOMAIN before
        /\ \A j, kinds : j # at => (IsA(before, j, kinds) <=> IsA(a.blocks, j, kinds))
    <3>1. CASE IsA(a.blocks, at, {e.part})
      BY <1>3, <3>1 DEF Orelse, IsA, before
    <3>2. CASE ~IsA(a.blocks, at, {e.part})
      <4>1. before = With(a.blocks, at, Empty(e.part))
        BY <3>2 DEF Orelse, before
      <4>2. /\ AreBlocks(before) /\ IsA(before, at, {e.part})
            /\ \A j, kinds : j # at => (IsA(before, j, kinds) <=> IsA(a.blocks, j, kinds))
        BY <1>3, <2>3, <4>1, NewBlock
      <4>3. at \in DOMAIN before
        BY <4>2 DEF IsA
      <4>4. QED BY <4>2, <4>3
    <3>3. QED BY <3>1, <3>2
  <2>5. AreBlocks(blocks) /\ \A j, kinds : IsA(blocks, j, kinds) <=> IsA(before, j, kinds)
    BY <2>4, BlockGrows
  <2> HIDE DEF blocks, b
  <2>6. AnswerTyped(b) /\ b.blocks = blocks /\ b.tools = a.tools
    BY <1>2, <2>1, <2>5, Replacing
  <2>7. \A i \in DOMAIN a.tools : IsA(blocks, a.tools[i], {"tool_call"})
    BY <1>2, <2>2, <2>4, <2>5
  <2>8. w.kinds = v.kinds
    BY <1>1, <1>6
  <2>9. QED BY <1>2, <2>6, <2>7, <2>8 DEF AnswerOK, w, b
<1>7. CASE e.type = "delta" /\ e.part = "arguments"
  <2>1. e.index \in DOMAIN a.tools
    BY <1>1, <1>2, <1>7 DEF KindOf
  <2> DEFINE at == a.tools[e.index]
  <2>2. b = Extended(a, at, "arguments", {"tool_call"})
    BY <1>7, <2>1 DEF CollectChat
  <2>3. IsA(a.blocks, at, {"tool_call"})
    BY <1>2, <2>1
  <2> HIDE DEF at, b
  <2>4. /\ AnswerTyped(b) /\ b.tools = a.tools
        /\ \A j, ks : IsA(b.blocks, j, ks) <=> IsA(a.blocks, j, ks)
    BY <1>2, <2>2, <2>3, Extending
  <2>5. w.kinds = v.kinds
    BY <1>1, <1>7
  <2>6. QED BY <1>2, <2>4, <2>5 DEF AnswerOK, w, b
<1>8. CASE e.type # "opened" /\ ~(e.type = "delta" /\ e.part \in {"text", "reasoning", "arguments"})
  <2>1. b = Ended(a, e)
    BY <1>8 DEF CollectChat
  <2>2. w.kinds = v.kinds
    BY <1>1, <1>8
  <2>3. QED BY <2>1, <2>2, EndingAnswer DEF w
<1>9. QED BY <1>4, <1>5, <1>6, <1>7, <1>8

LEMMA Collecting ==
  ASSUME NEW p \in Protocol, NEW a, NEW v \in View, NEW e, NEW lawful \in BOOLEAN,
         Legal(v, e, lawful), AnswerOK(p, a, v)
  PROVE  AnswerOK(p, Collect(p, a, e), After(v, e)) /\ ~Collect(p, a, e).thrown
<1>1. AnswerOK(p, Collect(p, a, e), After(v, e))
  <2>1. CASE p = "messages"
    BY <2>1, CollectingMessages DEF Collect
  <2>2. CASE p = "chat"
    BY <2>2, CollectingChat DEF Collect
  <2>3. CASE p = "responses"
    BY <2>3, CollectingResponses DEF Collect
  <2>4. QED BY <2>1, <2>2, <2>3 DEF Protocol
<1>2. QED BY <1>1 DEF AnswerOK, AnswerTyped

(* An answer begins empty.                                                 *)
LEMMA NothingCollected ==
  ASSUME NEW p, NEW v, DOMAIN v.kinds = {}
  PROVE  AnswerOK(p, NoAnswer, v)
<1> DEFINE a == NoAnswer
<1>1. /\ a \in [blocks : {a.blocks}, tools : {a.tools}, end : {a.end}, thrown : {FALSE}]
      /\ DOMAIN a.blocks = {} /\ DOMAIN a.tools = {}
  BY DEF NoAnswer
<1> HIDE DEF a
<1>2. IsFiniteSet(DOMAIN a.tools)
  BY <1>1, FS_EmptySet
<1>3. AnswerTyped(a)
  BY <1>1 DEF AnswerTyped, AreBlocks
<1>4. QED BY <1>1, <1>2, <1>3 DEF AnswerOK, a

(*--------------------------- the client's frames -------------------------*)

SeenTyped(s) ==
  s \in [blocks : {s.blocks}, open : {s.open}, ends : Seq(Reason \cup {"failed", "error"}),
         stray : {s.stray}]

(* Only the frame that ends an answer is counted as an end, and an event   *)
(* that ends a stream is written as one such frame.                        *)
LEMMA SeesEnd ==
  ASSUME NEW s, NEW reason \in Reason \cup {"failed", "error"}, SeenTyped(s)
  PROVE  LET t == See(s, FrameEnd(reason))
         IN  SeenTyped(t) /\ Len(t.ends) = Len(s.ends) + 1
<1> DEFINE ends == Append(s.ends, reason)
           t == [s EXCEPT !.ends = ends]
<1>1. See(s, FrameEnd(reason)) = t
  BY DEF See, FrameEnd
<1>2. ends \in Seq(Reason \cup {"failed", "error"}) /\ Len(ends) = Len(s.ends) + 1
  BY DEF SeenTyped
<1> HIDE DEF ends
<1>3. SeenTyped(t) /\ t.ends = ends
  BY <1>2 DEF SeenTyped
<1>4. QED BY <1>1, <1>2, <1>3

LEMMA SeesOther ==
  ASSUME NEW s, NEW f, SeenTyped(s), f.frame \in {"open", "delta", "say", "close"}
  PROVE  SeenTyped(See(s, f)) /\ See(s, f).ends = s.ends
<1> DEFINE t == See(s, f)
<1>1. CASE f.frame = "open"
  <2>1. \E blocks, open, stray : t = [s EXCEPT !.blocks = blocks, !.open = open, !.stray = stray]
    BY <1>1 DEF See
  <2> HIDE DEF t
  <2>2. QED BY <2>1 DEF SeenTyped, t
<1>2. CASE f.frame = "delta"
  <2>1. \E x : t = [s EXCEPT !.blocks = x] \/ t = [s EXCEPT !.stray = x]
    BY <1>2 DEF See
  <2> HIDE DEF t
  <2>2. QED BY <2>1 DEF SeenTyped, t
<1>3. CASE f.frame = "say"
  <2>1. \E x : t = [s EXCEPT !.blocks = x]
    BY <1>3 DEF See
  <2> HIDE DEF t
  <2>2. QED BY <2>1 DEF SeenTyped, t
<1>4. CASE f.frame = "close"
  <2>1. \E open, stray : t = [s EXCEPT !.open = open, !.stray = stray]
    BY <1>4 DEF See
  <2> HIDE DEF t
  <2>2. QED BY <2>1 DEF SeenTyped, t
<1>5. QED BY <1>1, <1>2, <1>3, <1>4

LEMMA Framing ==
  ASSUME NEW p \in Protocol, NEW a, NEW told, NEW v \in View, NEW e, NEW lawful \in BOOLEAN,
         Legal(v, e, lawful), ~a.thrown
  PROVE  LET fs == Frames(p, a, told, e)
         IN  /\ e.type \in {"response.completed", "response.failed"} =>
                  \E reason \in Reason \cup {"failed", "error"} : fs = <<FrameEnd(reason)>>
             /\ e.type \notin {"response.completed", "response.failed"} =>
                  \/ fs = <<>>
                  \/ \E f : fs = <<f>> /\ f.frame \in {"open", "delta", "say", "close"}
<1> DEFINE fs == Frames(p, a, told, e)
<1>1. /\ e.type \in {"response.started", "opened", "delta", "completed", "usage.updated",
                     "response.completed", "response.failed"}
      /\ e.type = "response.completed" => e.reason \in Reason
  BY EventsMove
<1>2. fs = (CASE p = "messages" -> MessagesFrames(told, e)
              [] p = "chat" -> ChatFrames(a, e)
              [] p = "responses" -> ResponsesFrames(a, e))
  BY DEF Frames, Protocol
<1> HIDE DEF fs
<1>3. CASE e.type \in {"response.completed", "response.failed"}
  <2>1. fs = LastFrames(e)
    BY <1>2, <1>3 DEF MessagesFrames, ChatFrames, ResponsesFrames, Protocol
  <2>2. fs = <<FrameEnd(IF e.type = "response.completed" THEN e.reason ELSE "failed")>>
    BY <1>3, <2>1 DEF LastFrames
  <2> DEFINE reason == IF e.type = "response.completed" THEN e.reason ELSE "failed"
  <2>3. reason \in Reason \cup {"failed", "error"}
    BY <1>1, <1>3
  <2>4. QED BY <1>3, <2>2, <2>3 DEF fs
<1>4. CASE e.type \in {"response.started", "usage.updated"}
  <2>1. fs = LastFrames(e)
    BY <1>2, <1>4 DEF MessagesFrames, ChatFrames, ResponsesFrames, Protocol
  <2>2. fs = <<>>
    BY <1>4, <2>1 DEF LastFrames
  <2>3. QED BY <1>4, <2>2 DEF fs
<1>5. CASE e.type = "opened"
  <2>1. fs = <<>> \/ \E at, kind : fs = <<FrameOpen(at, kind)>>
    BY <1>2, <1>5 DEF MessagesFrames, ChatFrames, ResponsesFrames, Protocol
  <2>2. \A at, kind : FrameOpen(at, kind).frame = "open"
    BY DEF FrameOpen
  <2>3. QED BY <1>5, <2>1, <2>2 DEF fs
<1>6. CASE e.type = "delta"
  <2>1. \/ fs = <<>> \/ \E at, part : fs = <<FrameDelta(at, part)>>
        \/ \E part : fs = <<FrameSay(part)>>
    BY <1>2, <1>6 DEF MessagesFrames, ChatFrames, ResponsesFrames, Protocol
  <2>2. /\ \A at, part : FrameDelta(at, part).frame = "delta"
        /\ \A part : FrameSay(part).frame = "say"
    BY DEF FrameDelta, FrameSay
  <2>3. QED BY <1>6, <2>1, <2>2 DEF fs
<1>7. CASE e.type = "completed"
  <2>1. fs = <<>> \/ \E at : fs = <<FrameClose(at)>>
    BY <1>2, <1>7 DEF MessagesFrames, ChatFrames, ResponsesFrames, Protocol, LastFrames
  <2>2. \A at : FrameClose(at).frame = "close"
    BY DEF FrameClose
  <2>3. QED BY <1>7, <2>1, <2>2 DEF fs
<1>8. QED BY <1>1, <1>3, <1>4, <1>5, <1>6, <1>7

(*--------------------------- the whole stream ----------------------------*)

CanonTyped(c) ==
  c \in [phase : {c.phase}, open : {c.open}, closed : {c.closed}, last : {c.last},
         events : {c.events}]

(* v is what the consumer has been told.                                   *)
Told(v, c) ==
  v \in View /\ CanonTyped(c) /\ v.phase = c.phase /\ v.open = c.open /\ v.closed = c.closed

(* What the consumer is told next is what CanonAfter records.              *)
LEMMA CanonMoves ==
  ASSUME NEW v, NEW e, NEW lawful \in BOOLEAN, Told(v, canon), Legal(v, e, lawful)
  PROVE  /\ Told(After(v, e), CanonAfter(e))
         /\ CanonAfter(e).events = canon.events + 1
         /\ CanonAfter(e).last = IF e.type \in {"opened", "delta", "completed"}
                                 THEN <<e.type, e.index>> ELSE <<e.type>>
<1> DEFINE last == IF e.type \in {"opened", "delta", "completed"}
                   THEN <<e.type, e.index>> ELSE <<e.type>>
           n == canon.events + 1
           c == [canon EXCEPT !.events = n, !.last = last]
           d == CanonAfter(e)
           w == After(v, e)
<1>1. w \in View
  BY AfterView DEF Told
<1>2. /\ CanonTyped(canon) /\ v \in View
      /\ v.phase = canon.phase /\ v.open = canon.open /\ v.closed = canon.closed
  BY DEF Told
<1>3. d = CASE e.type = "response.started" -> [c EXCEPT !.phase = "streaming"]
            [] e.type = "opened" -> [c EXCEPT !.open = @ \cup {e.index}]
            [] e.type = "completed" -> [c EXCEPT !.open = @ \ {e.index}, !.closed = @ \cup {e.index}]
            [] e.type \in {"response.completed", "response.failed"} -> [c EXCEPT !.phase = "ended"]
            [] OTHER -> c
  BY DEF CanonAfter
<1> HIDE DEF n, last
<1>4. /\ CanonTyped(c) /\ c.phase = canon.phase /\ c.open = canon.open /\ c.closed = canon.closed
      /\ c.last = last /\ c.events = n
  BY <1>2 DEF CanonTyped
<1>5. e.type \in {"response.started", "opened", "delta", "completed", "usage.updated",
                  "response.completed", "response.failed"}
  BY <1>2, EventsMove
<1> HIDE DEF c, d, w
<1>6. /\ CanonTyped(d) /\ d.last = last /\ d.events = n
      /\ d.phase = w.phase /\ d.open = w.open /\ d.closed = w.closed
  <2>1. CASE e.type = "response.started"
    BY <1>2, <1>3, <1>4, <2>1 DEF CanonTyped, After, View, w
  <2>2. CASE e.type = "opened"
    BY <1>2, <1>3, <1>4, <2>2 DEF CanonTyped, After, View, w
  <2>3. CASE e.type = "completed"
    BY <1>2, <1>3, <1>4, <2>3 DEF CanonTyped, After, View, w
  <2>4. CASE e.type \in {"response.completed", "response.failed"}
    BY <1>2, <1>3, <1>4, <2>4 DEF CanonTyped, After, View, w
  <2>5. CASE e.type \in {"delta", "usage.updated"}
    BY <1>2, <1>3, <1>4, <2>5 DEF CanonTyped, After, View, w
  <2>6. QED BY <1>5, <2>1, <2>2, <2>3, <2>4, <2>5
<1>7. QED BY <1>1, <1>6 DEF Told, d, w, last, n

(* The consumer has been told v and will have been told w once the events  *)
(* already decoded are out; unless an exception is on its way, w is what   *)
(* the decoder takes the stream to be.                                     *)
Watching(v, w) ==
  /\ Told(v, canon) /\ AnswerOK(protocol, answer, v)
  /\ Leads(v, queue, w, up.orderly)
  /\ pending => queue = <<>> /\ canon.phase # "ended"
  /\ ~pending => /\ Caught(dialect, w, state, up)
                 /\ dialect # "anthropic" => state.next \in 0..(4 * read)

(* The invariant: one end at most, and only when the stream is over for    *)
(* the consumer; nothing the encoders collect throws; nothing an orderly   *)
(* upstream sends throws; until the end some v and w are in step.          *)
StreamInv ==
  /\ dialect \in Dialect /\ protocol \in Protocol /\ read \in Nat
  /\ UpTyped(up) /\ SeenTyped(seen) /\ CanonTyped(canon)
  /\ over \in BOOLEAN
  /\ Len(seen.ends) = IF ~over /\ canon.phase # "ended" THEN 0 ELSE 1
  /\ ~answer.thrown
  /\ up.orderly => ~pending
  /\ ~over => \E v, w : Watching(v, w)

(* The first state: nothing told, nothing decoded.                         *)
LEMMA StreamStarts ==
  ASSUME StreamInit
  PROVE  /\ StreamInv
         /\ \E v : Watching(v, v) /\ v.phase = "idle" /\ v.open = {} /\ v.closed = {}
                  /\ DOMAIN v.kinds = {}
<1> DEFINE v == [phase |-> "idle", open |-> {}, closed |-> {}, kinds |-> <<>>]
<1>1. /\ dialect \in Dialect /\ protocol \in Protocol /\ read = 0 /\ up = Upstream
      /\ state = Fresh /\ queue = <<>> /\ pending = FALSE /\ over = FALSE
      /\ answer = NoAnswer /\ seen = NothingSeen
      /\ canon = [phase |-> "idle", open |-> {}, closed |-> {}, last |-> <<>>, events |-> 0]
  BY DEF StreamInit
<1>2. UpTyped(up)
  BY <1>1 DEF UpTyped, Upstream
<1>3. SeenTyped(seen) /\ Len(seen.ends) = 0
  BY <1>1 DEF SeenTyped, NothingSeen
<1>4. CanonTyped(canon) /\ canon.phase = "idle" /\ canon.open = {} /\ canon.closed = {}
  BY <1>1 DEF CanonTyped
<1>5. v \in View /\ Caught(dialect, v, state, up)
  BY <1>1, CaughtFirst
<1>6. v.phase = "idle" /\ v.open = {} /\ v.closed = {} /\ DOMAIN v.kinds = {}
  OBVIOUS
<1> HIDE DEF v
<1>7. Told(v, canon)
  BY <1>4, <1>5, <1>6 DEF Told
<1>8. AnswerOK(protocol, answer, v) /\ ~answer.thrown
  BY <1>1, <1>6, NothingCollected DEF NoAnswer
<1>9. Leads(v, queue, v, up.orderly)
  BY <1>1, <1>2, LeadsNowhere DEF UpTyped
<1>10. state.next \in 0..(4 * read)
  BY <1>1 DEF Fresh
<1>11. Watching(v, v)
  BY <1>1, <1>5, <1>7, <1>8, <1>9, <1>10 DEF Watching
<1>12. StreamInv
  BY <1>1, <1>2, <1>3, <1>4, <1>8, <1>11 DEF StreamInv
<1>13. QED BY <1>6, <1>11, <1>12

(* A message: the decoder's lemma joined to what was still queued.         *)
LEMMA ReceiveWatched ==
  ASSUME StreamInv, NEW m \in MessageOf(dialect), Receive(m), NEW v, NEW w, Watching(v, w)
  PROVE  /\ \E x : Watching(v, x)'
         /\ UpTyped(up') /\ (up'.orderly => up.orderly /\ ~pending')
<1> DEFINE r == Decode(dialect, state, m)
<1>1. /\ ~over /\ queue = <<>> /\ ~pending /\ ~state.terminal
      /\ up' = UpAfter(m) /\ read < Bound(up'.orderly) /\ read' = read + 1
      /\ state' = r.state /\ queue' = r.events /\ pending' = r.thrown
      /\ dialect' = dialect /\ protocol' = protocol /\ canon' = canon
      /\ answer' = answer /\ seen' = seen /\ over' = over
  BY DEF Receive, Returned
<1>2. dialect \in Dialect /\ UpTyped(up) /\ read \in Nat
  BY DEF StreamInv
<1>3. Watching(v, w)
  OBVIOUS
<1>4. v = w
  BY <1>1, <1>2, <1>3, LeadsEnd DEF Watching, UpTyped
<1>5. /\ Told(v, canon) /\ AnswerOK(protocol, answer, v) /\ Caught(dialect, v, state, up)
      /\ dialect # "anthropic" => state.next \in 0..(4 * read)
  BY <1>1, <1>3, <1>4 DEF Watching
<1>6. v \in View /\ v.phase # "ended"
  BY <1>1, <1>2, <1>5, CaughtNow
<1>7. dialect # "anthropic" => Room(state, 4)
  <2> SUFFICES ASSUME dialect # "anthropic" PROVE Room(state, 4)
    OBVIOUS
  <2>1. Bound(up'.orderly) \in {MaxMessages, MaxMessages + 0, MaxDisorderly}
    BY DEF Bound
  <2>2. MaxMessages \in Nat /\ MaxDisorderly \in Nat /\ MaxBlocks \in Nat
    BY StreamAssumption
  <2>3. read + 1 <= MaxMessages + MaxDisorderly
    BY <1>1, <1>2, <2>1, <2>2
  <2>4. state.next + 4 <= 4 * (MaxMessages + MaxDisorderly)
    BY <1>2, <1>5, <2>2, <2>3
  <2>5. QED BY <1>2, <1>5, <2>2, <2>4 DEF Room, Indices
<1> HIDE DEF r
<1>8. /\ UpTyped(up') /\ (up'.orderly <=> up.orderly /\ Follows(m))
  BY <1>1, <1>2, UpstreamMoves
<1>9. DecodedBy(dialect, v, state, up', r)
  BY <1>1, <1>2, <1>5, <1>7, Decodes DEF r
<1>10. \E x : Watching(v, x)'
  <2>1. CASE r.thrown
    <3>1. queue' = <<>> /\ pending'
      BY <1>1, <1>9, <2>1 DEF DecodedBy
    <3>2. Leads(v, queue', v, up'.orderly)
      BY <1>8, <3>1, LeadsNowhere DEF UpTyped
    <3>3. canon.phase # "ended"
      BY <1>5, <1>6 DEF Told
    <3>4. Watching(v, v)'
      BY <1>1, <1>5, <3>1, <3>2, <3>3 DEF Watching
    <3>5. QED BY <3>4
  <2>2. CASE ~r.thrown
    <3>1. PICK x : Leads(v, r.events, x, up'.orderly) /\ Caught(dialect, x, r.state, up')
      BY <1>9, <2>2 DEF DecodedBy
    <3>2. dialect # "anthropic" => r.state.next \in state.next..(state.next + 4)
      BY <1>9, <2>2 DEF DecodedBy
    <3>3. dialect # "anthropic" => state'.next \in 0..(4 * read')
      BY <1>1, <1>2, <1>5, <3>2
    <3>4. Watching(v, x)'
      BY <1>1, <1>5, <2>2, <3>1, <3>3 DEF Watching
    <3>5. QED BY <3>4
  <2>3. QED BY <2>1, <2>2
<1>11. QED BY <1>1, <1>8, <1>9, <1>10 DEF DecodedBy

LEMMA ReceiveStep ==
  ASSUME StreamInv, NEW m \in MessageOf(dialect), Receive(m)
  PROVE  /\ StreamInv' /\ (up'.orderly => up.orderly)
         /\ UNCHANGED canon
<1>1. /\ ~over /\ read' = read + 1 /\ dialect' = dialect /\ protocol' = protocol
      /\ canon' = canon /\ answer' = answer /\ seen' = seen /\ over' = over
  BY DEF Receive
<1>2. PICK v, w : Watching(v, w)
  BY <1>1 DEF StreamInv
<1>3. /\ \E x : Watching(v, x)'
      /\ UpTyped(up') /\ (up'.orderly => up.orderly /\ ~pending')
  BY <1>2, ReceiveWatched
<1>4. \E x, y : Watching(x, y)'
  BY <1>3
<1>5. StreamInv'
  BY <1>1, <1>3, <1>4 DEF StreamInv
<1>6. QED BY <1>1, <1>3, <1>5

(* What a step makes of the canonical stream, event by event.              *)
Advanced(e) ==
  /\ CanonAfter(e).events = canon.events + 1
  /\ CanonAfter(e).last = IF e.type \in {"opened", "delta", "completed"}
                          THEN <<e.type, e.index>> ELSE <<e.type>>

(* The next event in the queue is legal for the consumer.                  *)
LEMMA NextEventOf ==
  ASSUME StreamInv, ~over, queue # <<>>, NEW v, NEW w, Watching(v, w)
  PROVE  LET e == Head(queue)
         IN  /\ Legal(v, e, up.orderly) /\ Leads(After(v, e), Tail(queue), w, up.orderly)
             /\ Told(After(v, e), CanonAfter(e)) /\ Advanced(e)
             /\ v.phase # "ended" /\ ~pending /\ Len(seen.ends) = 0
             /\ After(v, e).phase = "ended" <=>
                  e.type \in {"response.completed", "response.failed"}
<1> DEFINE e == Head(queue)
<1>1. up.orderly \in BOOLEAN
  BY DEF StreamInv, UpTyped
<1>2. Watching(v, w)
  OBVIOUS
<1>3. /\ Told(v, canon) /\ Leads(v, queue, w, up.orderly) /\ v \in View /\ ~pending
      /\ v.phase = canon.phase
  BY <1>2 DEF Watching, Told
<1>4. Legal(v, e, up.orderly) /\ Leads(After(v, e), Tail(queue), w, up.orderly)
  BY <1>1, <1>3, LeadsFirst
<1> HIDE DEF e
<1>5. Told(After(v, e), CanonAfter(e)) /\ Advanced(e)
  BY <1>1, <1>3, <1>4, CanonMoves DEF Advanced
<1>6. v.phase # "ended"
  BY <1>4 DEF Legal
<1>7. /\ After(v, e).phase = "ended" <=> e.type \in {"response.completed", "response.failed"}
      /\ Len(seen.ends) = 0
  <2>1. e.type \in {"response.started", "opened", "delta", "completed", "usage.updated",
                    "response.completed", "response.failed"}
    BY <1>1, <1>3, <1>4, EventsMove
  <2>2. After(v, e).phase = CASE e.type = "response.started" -> "streaming"
                              [] e.type \in {"response.completed", "response.failed"} -> "ended"
                              [] OTHER -> v.phase
    BY <1>3, <2>1 DEF After, View
  <2>3. Len(seen.ends) = 0
    BY <1>3, <1>6 DEF StreamInv
  <2>4. QED BY <1>6, <2>1, <2>2, <2>3
<1>8. QED BY <1>3, <1>4, <1>5, <1>6, <1>7 DEF e

LEMMA NextEvent ==
  ASSUME StreamInv, ~over, queue # <<>>
  PROVE  LET e == Head(queue)
         IN  \E v, w : /\ Watching(v, w) /\ Legal(v, e, up.orderly)
                       /\ Told(After(v, e), CanonAfter(e)) /\ Advanced(e)
                       /\ v.phase # "ended" /\ Len(seen.ends) = 0
<1>1. PICK v, w : Watching(v, w)
  BY DEF StreamInv
<1>2. QED BY <1>1, NextEventOf

(* An event passed on, and the exception that ends a stream.               *)
LEMMA EncodeWatched ==
  ASSUME StreamInv, ~over, queue # <<>>, queue' = Tail(queue), canon' = CanonAfter(Head(queue)),
         Encode(Head(queue)), UNCHANGED <<dialect, protocol, up, read, state, pending>>,
         NEW v, NEW w, Watching(v, w), NEW x, x = After(v, Head(queue))
  PROVE  StreamInv' /\ Watching(x, w)' /\ ~Collect(protocol, answer, Head(queue)).thrown
<1> DEFINE e == Head(queue)
           a == Collect(protocol, answer, e)
           fs == Frames(protocol, a, emitted, e)
<1>1. /\ Watching(v, w) /\ Legal(v, e, up.orderly)
      /\ Leads(After(v, e), Tail(queue), w, up.orderly)
      /\ Told(After(v, e), CanonAfter(e))
      /\ v.phase # "ended" /\ ~pending /\ Len(seen.ends) = 0
      /\ After(v, e).phase = "ended" <=>
           e.type \in {"response.completed", "response.failed"}
  BY NextEventOf
<1>2. /\ dialect \in Dialect /\ protocol \in Protocol /\ read \in Nat
      /\ up.orderly \in BOOLEAN /\ UpTyped(up) /\ SeenTyped(seen)
      /\ v \in View /\ AnswerOK(protocol, answer, v)
  BY <1>1 DEF StreamInv, UpTyped, Watching, Told
<1>3. /\ queue' = Tail(queue) /\ canon' = CanonAfter(e) /\ dialect' = dialect
      /\ protocol' = protocol /\ up' = up /\ read' = read /\ state' = state /\ pending' = pending
  OBVIOUS
<1> HIDE DEF e
<1>4. AnswerOK(protocol, a, After(v, e)) /\ ~a.thrown
  BY <1>1, <1>2, Collecting
<1>5. answer' = a /\ seen' = Seeing(fs) /\ over' = FALSE
  BY <1>4 DEF Encode, e
<1> HIDE DEF a
<1>6. /\ e.type \in {"response.completed", "response.failed"} =>
           \E reason \in Reason \cup {"failed", "error"} : fs = <<FrameEnd(reason)>>
      /\ e.type \notin {"response.completed", "response.failed"} =>
           \/ fs = <<>>
           \/ \E f : fs = <<f>> /\ f.frame \in {"open", "delta", "say", "close"}
  BY <1>1, <1>2, <1>4, Framing
<1> HIDE DEF fs
<1>7. /\ SeenTyped(seen')
      /\ Len(seen'.ends) = IF e.type \in {"response.completed", "response.failed"} THEN 1 ELSE 0
  <2>1. CASE e.type \in {"response.completed", "response.failed"}
    <3>1. PICK reason \in Reason \cup {"failed", "error"} : fs = <<FrameEnd(reason)>>
      BY <1>6, <2>1
    <3>2. seen' = See(seen, FrameEnd(reason))
      BY <1>5, <3>1 DEF Seeing
    <3>3. SeenTyped(seen') /\ Len(seen'.ends) = Len(seen.ends) + 1
      BY <1>2, <3>2, SeesEnd
    <3>4. QED BY <1>1, <2>1, <3>3
  <2>2. CASE e.type \notin {"response.completed", "response.failed"} /\ fs = <<>>
    BY <1>1, <1>2, <1>5, <2>2 DEF Seeing
  <2>3. CASE e.type \notin {"response.completed", "response.failed"} /\ fs # <<>>
    <3>1. PICK f : fs = <<f>> /\ f.frame \in {"open", "delta", "say", "close"}
      BY <1>6, <2>3
    <3>2. seen' = See(seen, f)
      BY <1>5, <3>1 DEF Seeing
    <3>3. SeenTyped(seen') /\ seen'.ends = seen.ends
      BY <1>2, <3>1, <3>2, SeesOther
    <3>4. QED BY <1>1, <2>3, <3>3
  <2>4. QED BY <2>1, <2>2, <2>3
<1>8. Watching(x, w)'
  <2>1. x = After(v, e)
    BY DEF e
  <2>2. Told(x, canon') /\ AnswerOK(protocol', answer', x) /\ Leads(x, queue', w, up'.orderly)
    BY <1>1, <1>3, <1>4, <1>5, <2>1
  <2>3. ~pending' /\ Caught(dialect', w, state', up')
        /\ (dialect' # "anthropic" => state'.next \in 0..(4 * read'))
    BY <1>1, <1>3 DEF Watching
  <2>4. QED BY <2>2, <2>3 DEF Watching
<1>9. CanonTyped(canon') /\ canon'.phase = After(v, e).phase
  BY <1>1, <1>3 DEF Told
<1>10. Len(seen'.ends) = IF ~over' /\ canon'.phase # "ended" THEN 0 ELSE 1
  BY <1>1, <1>5, <1>7, <1>9
<1>11. up'.orderly => ~pending'
  BY <1>1, <1>3
<1>12. ~over' => \E y, z : Watching(y, z)'
  BY <1>8
<1>13. /\ dialect' \in Dialect /\ protocol' \in Protocol /\ read' \in Nat /\ UpTyped(up')
       /\ ~answer'.thrown /\ over' \in BOOLEAN
  BY <1>2, <1>3, <1>4, <1>5
<1>14. StreamInv'
  BY <1>7, <1>9, <1>10, <1>11, <1>12, <1>13 DEF StreamInv
<1>15. QED BY <1>4, <1>8, <1>14 DEF a, e

LEMMA EncodeStep ==
  ASSUME StreamInv, ~over, queue # <<>>, queue' = Tail(queue), canon' = CanonAfter(Head(queue)),
         Encode(Head(queue)), UNCHANGED <<dialect, protocol, up, read, state, pending>>
  PROVE  StreamInv'
<1>1. PICK v, w : Watching(v, w)
  BY DEF StreamInv
<1>2. PICK x : x = After(v, Head(queue))
  OBVIOUS
<1>3. QED BY <1>1, <1>2, EncodeWatched

LEMMA ErrorStep ==
  ASSUME StreamInv, ErrorFrame, Len(seen.ends) = 0, CanonTyped(canon'), answer' = answer,
         UNCHANGED <<dialect, protocol, up, read, pending>>
  PROVE  StreamInv'
<1>1. seen' = See(seen, FrameEnd("error")) /\ over' = TRUE /\ SeenTyped(seen)
  BY DEF ErrorFrame, StreamInv
<1>2. SeenTyped(seen') /\ Len(seen'.ends) = 1
  <2>1. PICK reason \in Reason \cup {"failed", "error"} : reason = "error"
    OBVIOUS
  <2>2. SeenTyped(See(seen, FrameEnd(reason)))
        /\ Len(See(seen, FrameEnd(reason)).ends) = Len(seen.ends) + 1
    BY <1>1, SeesEnd
  <2>3. QED BY <1>1, <2>1, <2>2
<1>3. QED BY <1>1, <1>2 DEF StreamInv

(* Every action keeps the invariant.                                       *)
LEMMA StreamSteps ==
  ASSUME StreamInv, [StreamNext]_streamVars
  PROVE  StreamInv'
<1>1. ASSUME NEW m \in MessageOf(dialect), Receive(m)
      PROVE  StreamInv'
  BY <1>1, ReceiveStep
<1>2. CASE Pass
  BY <1>2, EncodeStep DEF Pass
<1>3. CASE PassCompleted
  BY <1>3, EncodeStep DEF PassCompleted
<1>4. CASE RecordFails
  <2>1. /\ ~over /\ queue # <<>> /\ canon' = CanonAfter(Head(queue)) /\ ErrorFrame
        /\ answer' = answer /\ UNCHANGED <<dialect, protocol, up, read, pending>>
    BY <1>4 DEF RecordFails
  <2>2. CanonTyped(canon') /\ Len(seen.ends) = 0
    BY <2>1, NextEvent DEF Told
  <2>3. QED BY <2>1, <2>2, ErrorStep
<1>5. CASE Raise
  <2>1. /\ ~over /\ pending /\ canon' = [canon EXCEPT !.phase = "ended"] /\ ErrorFrame
        /\ answer' = answer /\ UNCHANGED <<dialect, protocol, up, read, pending>>
    BY <1>5 DEF Raise
  <2>2. CanonTyped(canon')
    BY <2>1 DEF StreamInv, CanonTyped
  <2>3. canon.phase # "ended"
    BY <2>1 DEF StreamInv, Watching
  <2>4. Len(seen.ends) = 0
    BY <2>1, <2>3 DEF StreamInv
  <2>5. QED BY <2>1, <2>2, <2>4, ErrorStep
<1>6. CASE Return
  <2>1. /\ ~over /\ queue = <<>> /\ ~pending /\ state.terminal /\ over' = TRUE
        /\ UNCHANGED <<dialect, protocol, up, read, pending, canon, answer, seen>>
    BY <1>6 DEF Return, Returned
  <2>2. PICK v, w : Watching(v, w)
    BY <2>1 DEF StreamInv
  <2>3. v = w /\ Told(v, canon) /\ Caught(dialect, w, state, up)
    BY <2>1, <2>2, LeadsEnd DEF Watching, StreamInv, UpTyped
  <2>4. canon.phase = "ended"
    BY <2>1, <2>3, CaughtNow DEF Told, StreamInv
  <2>5. QED BY <2>1, <2>4 DEF StreamInv
<1>7. CASE UNCHANGED streamVars
  <2>1. /\ UNCHANGED <<dialect, protocol, up, read, state, queue, pending>>
        /\ UNCHANGED <<canon, answer, seen, over>>
    BY <1>7 DEF streamVars
  <2>2. \A v, w : Watching(v, w) => Watching(v, w)'
    BY <2>1 DEF Watching
  <2>3. QED BY <2>1, <2>2 DEF StreamInv
<1>8. QED BY <1>1, <1>2, <1>3, <1>4, <1>5, <1>6, <1>7 DEF StreamNext

(* The refinement: the first state, an event that is passed on, and every  *)
(* step, which either passes an event on or leaves canon alone.            *)
LEMMA CanonicalStarts == StreamInit => Canonical!Init
BY DEF StreamInit, Upstream, Canonical!Init

LEMMA CanonicalEventStep ==
  ASSUME StreamInv, ~over, queue # <<>>, canon' = CanonAfter(Head(queue)), up' = up
  PROVE  Canonical!Next
<1> DEFINE e == Head(queue)
<1>1. PICK v, w : /\ Watching(v, w) /\ Legal(v, e, up.orderly)
                  /\ Told(After(v, e), CanonAfter(e)) /\ Advanced(e)
  BY NextEvent
<1>2. /\ v \in View /\ v.phase = canon.phase /\ v.open = canon.open /\ v.closed = canon.closed
  BY <1>1 DEF Watching, Told
<1> HIDE DEF e
<1>3. /\ canon'.phase = After(v, e).phase /\ canon'.open = After(v, e).open
      /\ canon'.closed = After(v, e).closed /\ canon'.events = canon.events + 1
      /\ canon'.last = IF e.type \in {"opened", "delta", "completed"}
                       THEN <<e.type, e.index>> ELSE <<e.type>>
  BY <1>1 DEF Told, Advanced, e
<1>4. CASE e = Started /\ v.phase = "idle"
  <2>1. Canonical!Start
    BY <1>2, <1>3, <1>4 DEF Canonical!Start, After, Started, View
  <2>2. QED BY <1>3, <2>1 DEF Canonical!Next, Canonical!Event
<1>5. ASSUME NEW i \in Indices, NEW kind \in BlockKinds, e = Opened(i, kind),
             v.phase = "streaming", up.orderly => i \notin v.open \cup v.closed
      PROVE  Canonical!Next
  <2>1. Canonical!Open(i)
    BY <1>2, <1>3, <1>5 DEF Canonical!Open, After, Opened, View
  <2>2. QED BY <1>3, <2>1 DEF Canonical!Next, Canonical!Event
<1>6. ASSUME NEW i \in Indices, NEW part \in PartName, e = Delta(i, part),
             v.phase = "streaming", up.orderly => i \in v.open
      PROVE  Canonical!Next
  <2>1. Canonical!Delta(i)
    BY <1>2, <1>3, <1>6 DEF Canonical!Delta, After, Delta, View
  <2>2. QED BY <1>3, <2>1 DEF Canonical!Next, Canonical!Event
<1>7. ASSUME NEW i \in Indices, NEW kind, e = Closed(i, kind), v.phase = "streaming",
             up.orderly => i \in v.open
      PROVE  Canonical!Next
  <2>1. Canonical!Close(i)
    BY <1>2, <1>3, <1>7 DEF Canonical!Close, After, Closed, View
  <2>2. QED BY <1>3, <2>1 DEF Canonical!Next, Canonical!Event
<1>8. CASE e = Usage /\ v.phase = "streaming"
  <2>1. Canonical!Usage
    BY <1>2, <1>3, <1>8 DEF Canonical!Usage, After, Usage, View
  <2>2. QED BY <1>3, <2>1 DEF Canonical!Next, Canonical!Event
<1>9. ASSUME NEW reason \in Reason, e = Completed(reason), v.phase = "streaming",
             up.orderly => v.open = {}
      PROVE  Canonical!Next
  <2>1. Canonical!Complete
    BY <1>2, <1>3, <1>9 DEF Canonical!Complete, After, Completed, View
  <2>2. QED BY <1>3, <2>1 DEF Canonical!Next, Canonical!Event
<1>10. CASE e = Failed /\ v.phase # "ended"
  <2>1. Canonical!Fail
    BY <1>2, <1>3, <1>10 DEF Canonical!Fail, After, Failed, View
  <2>2. QED BY <1>3, <2>1 DEF Canonical!Next, Canonical!Event
<1>11. Legal(v, e, up.orderly)
  BY <1>1
<1>12. QED BY <1>4, <1>5, <1>6, <1>7, <1>8, <1>9, <1>10, <1>11 DEF Legal

LEMMA CanonicalSteps ==
  ASSUME StreamInv, [StreamNext]_streamVars
  PROVE  [Canonical!Next]_(Canonical!vars)
<1>1. ASSUME NEW m \in MessageOf(dialect), Receive(m)
      PROVE  [Canonical!Next]_(Canonical!vars)
  <2>1. canon' = canon /\ (up'.orderly => up.orderly) /\ UpTyped(up) /\ UpTyped(up')
    BY <1>1, ReceiveStep DEF StreamInv
  <2>2. CASE up.orderly /\ ~up'.orderly
    <3>1. up.orderly = TRUE /\ up'.orderly = FALSE
      BY <2>1, <2>2 DEF UpTyped
    <3>2. Canonical!Break
      BY <2>1, <3>1 DEF Canonical!Break
    <3>3. QED BY <3>2 DEF Canonical!Next
  <2>3. CASE ~(up.orderly /\ ~up'.orderly)
    <3>1. up'.orderly = up.orderly
      BY <2>1, <2>3 DEF UpTyped
    <3>2. QED BY <2>1, <3>1 DEF Canonical!vars
  <2>4. QED BY <2>2, <2>3
<1>2. CASE Pass
  BY <1>2, CanonicalEventStep DEF Pass
<1>3. CASE PassCompleted
  BY <1>3, CanonicalEventStep DEF PassCompleted
<1>4. CASE RecordFails
  BY <1>4, CanonicalEventStep DEF RecordFails
<1>5. CASE Raise
  <2>1. /\ ~over /\ pending /\ canon' = [canon EXCEPT !.phase = "ended"] /\ up' = up
    BY <1>5 DEF Raise
  <2>2. canon.phase # "ended" /\ CanonTyped(canon)
    BY <2>1 DEF StreamInv, Watching
  <2>3. Canonical!Throw
    BY <2>1, <2>2 DEF Canonical!Throw, CanonTyped
  <2>4. QED BY <2>3 DEF Canonical!Next
<1>6. CASE Return
  BY <1>6 DEF Return, Canonical!vars
<1>7. CASE UNCHANGED streamVars
  BY <1>7 DEF streamVars, Canonical!vars
<1>8. QED BY <1>1, <1>2, <1>3, <1>4, <1>5, <1>6, <1>7 DEF StreamNext

(* StreamInv holds of every stream of every dialect and protocol, orderly  *)
(* or not, for any length and any number of keys.                          *)
THEOREM StreamInvariant == StreamSpec => []StreamInv
<1>1. StreamInit => StreamInv
  BY StreamStarts
<1>2. QED BY <1>1, StreamSteps, PTL DEF StreamSpec

(* A client is told of the end of its stream at most once, and exactly     *)
(* once when the stream is over: whatever the upstream sends, breaks off   *)
(* or sends twice (stream-session.ts).                                     *)
THEOREM StreamToldOnce == StreamSpec => []ToldOnce
<1>1. StreamInv => ToldOnce
  <2>1. StreamInv => Len(seen.ends) \in {0, 1}
    BY DEF StreamInv
  <2>2. QED BY <2>1 DEF StreamInv, ToldOnce
<1>2. QED BY <1>1, StreamInvariant, PTL

(* A decoder accepts every orderly stream of its provider: no message an   *)
(* orderly upstream sends makes the adapter throw, and no event it emits   *)
(* makes an encoder or the collector throw.                                *)
THEOREM StreamAccepted == StreamSpec => []OrderlyStreamsAccepted
<1>1. StreamInv => OrderlyStreamsAccepted
  BY DEF StreamInv, OrderlyStreamsAccepted
<1>2. QED BY <1>1, StreamInvariant, PTL

(* Whatever the provider sends, the events its adapter emits are a         *)
(* canonical stream; of an orderly upstream, one in which no block is      *)
(* opened twice, added to after its end or left open at the end.           *)
THEOREM StreamIsCanonical == StreamSpec => RefinesCanonicalStream
<1>1. StreamInit => Canonical!Init
  BY CanonicalStarts
<1>2. StreamInv /\ [StreamNext]_streamVars => [Canonical!Next]_(Canonical!vars)
  BY CanonicalSteps
<1>3. QED
  BY <1>1, <1>2, StreamInvariant, PTL DEF StreamSpec, RefinesCanonicalStream, Canonical!Spec

(*----------------------- counting an answer's parts ----------------------*)

(* Induction over a finite set: a set of numbers has a least one.          *)
LEMMA LeastNumber ==
  ASSUME NEW N, N \subseteq Nat, N # {}
  PROVE  \E n \in N : \A k \in N : ~(k < n)
<1> DEFINE Less == {pair \in Nat \X Nat : pair[1] < pair[2]}
<1>1. IsWellFoundedOn(Less, Nat)
  BY NatLessThanWellFounded, Zenon DEF OpToRel
<1>2. \A j, k \in Nat : j < k => <<j, k>> \in Less
  OBVIOUS
<1> HIDE DEF Less
<1>3. PICK n \in N : \A k \in N : ~(<<k, n>> \in Less)
  BY <1>1, WFMin
<1>4. QED BY <1>2, <1>3

(* What holds of a set whenever it holds of every smaller one holds of any *)
(* finite set.                                                             *)
LEMMA FiniteSubsets ==
  ASSUME NEW S, IsFiniteSet(S), NEW Holds \in SUBSET SUBSET S,
         \A T \in SUBSET S :
           (\A U \in SUBSET T : Cardinality(U) < Cardinality(T) => U \in Holds) => T \in Holds
  PROVE  \A T \in SUBSET S : T \in Holds
<1> DEFINE Bad == (SUBSET S) \ Holds
           N == {n \in Nat : \E T \in Bad : Cardinality(T) = n}
<1> SUFFICES ASSUME Bad # {} PROVE FALSE
  OBVIOUS
<1>1. \A T \in SUBSET S : Cardinality(T) \in Nat
  BY FS_CardinalityType, FS_Subset
<1>2. N \subseteq Nat /\ N # {}
  BY <1>1
<1>3. PICK n \in N : \A k \in N : ~(k < n)
  <2> HIDE DEF N
  <2>1. QED BY <1>2, LeastNumber
<1>4. PICK T \in Bad : Cardinality(T) = n
  OBVIOUS
<1>5. ASSUME NEW U \in SUBSET T, Cardinality(U) < Cardinality(T)
      PROVE  U \in Holds
  <2>1. U \in SUBSET S
    BY <1>4
  <2>2. Cardinality(U) \in Nat
    BY <1>1, <2>1
  <2>3. QED BY <1>3, <1>4, <1>5, <2>1, <2>2
<1>6. QED BY <1>4, <1>5

(* The values of a function on a finite set.                               *)
LEMMA ListedSets ==
  ASSUME NEW S, IsFiniteSet(S), NEW f, DOMAIN f = S
  PROVE  IsFiniteSet({f[x] : x \in S})
<1> DEFINE T == {f[x] : x \in S}
           g == [x \in S |-> f[x]]
<1>1. g \in Surjection(S, T)
  BY DEF Surjection
<1>2. QED BY <1>1, FS_Surjection

(* One unit for each delta of a part: a count is a number of units.        *)
UnitsAt(f, x) == {x} \X (1..f[x])
Units(f, S) == UNION {UnitsAt(f, x) : x \in S}

(* A place with f[x] deltas has f[x] units, and no two places share one.   *)
LEMMA UnitsFinite ==
  ASSUME NEW S, IsFiniteSet(S), NEW f, \A x \in S : f[x] \in Nat
  PROVE  IsFiniteSet(Units(f, S))
<1> DEFINE g == [x \in S |-> UnitsAt(f, x)]
<1>1. IsFiniteSet({g[x] : x \in S})
  BY ListedSets
<1>2. {g[x] : x \in S} = {UnitsAt(f, x) : x \in S}
  OBVIOUS
<1>3. ASSUME NEW x \in S PROVE IsFiniteSet(UnitsAt(f, x))
  <2>1. IsFiniteSet({x})
    BY FS_Singleton
  <2>2. IsFiniteSet(1..f[x])
    BY FS_Interval
  <2>3. QED BY <2>1, <2>2, FS_Product DEF UnitsAt
<1>4. QED BY <1>1, <1>2, <1>3, FS_UNION DEF Units

LEMMA UnitsMore ==
  ASSUME NEW S, IsFiniteSet(S), NEW f, \A x \in S : f[x] \in Nat, NEW y \in S
  PROVE  Cardinality(Units(f, S)) = Cardinality(Units(f, S \ {y})) + f[y]
<1> DEFINE A == Units(f, S \ {y})
           B == UnitsAt(f, y)
<1>1. Units(f, S) = A \cup B
  BY DEF Units
<1>2. A \cap B = {}
  BY DEF Units, UnitsAt
<1>3. IsFiniteSet(B) /\ Cardinality(B) = f[y]
  <2>1. IsFiniteSet({y}) /\ Cardinality({y}) = 1
    BY FS_Singleton
  <2>2. IsFiniteSet(1..f[y]) /\ Cardinality(1..f[y]) = f[y]
    BY FS_Interval
  <2>3. IsFiniteSet(B) /\ Cardinality(B) = Cardinality({y}) * Cardinality(1..f[y])
    BY <2>1, <2>2, FS_Product DEF UnitsAt
  <2>4. QED BY <2>1, <2>2, <2>3
<1>4. IsFiniteSet(A) /\ Cardinality(A) \in Nat
  <2>1. IsFiniteSet(S \ {y})
    BY FS_RemoveElement
  <2>2. IsFiniteSet(A)
    BY <2>1, UnitsFinite
  <2>3. QED BY <2>2, FS_CardinalityType
<1> HIDE DEF A, B
<1>5. Cardinality(A \cup B) = Cardinality(A) + Cardinality(B) - Cardinality(A \cap B)
  BY <1>3, <1>4, FS_Union
<1>6. Cardinality(A \cap B) = 0
  BY <1>2, FS_EmptySet
<1>7. f[y] \in Nat
  OBVIOUS
<1>8. Cardinality(Units(f, S)) = Cardinality(A) + f[y]
  BY <1>1, <1>3, <1>4, <1>5, <1>6, <1>7
<1>9. QED BY <1>8 DEF A

(* The place the fold takes next, and what it makes of every smaller set.  *)
Some(s) == CHOOSE x \in s : TRUE

Summing(blocks, part, g) ==
  g = [s \in SUBSET DOMAIN blocks |->
         IF s = {} THEN 0 ELSE g[s \ {Some(s)}] + blocks[Some(s)].n[part]]

(* A count is the fold's function at the set of all places.                *)
LEMMA CountOf ==
  ASSUME NEW blocks, NEW part
  PROVE  Count(blocks, part) = (CHOOSE g : Summing(blocks, part, g))[DOMAIN blocks]
BY DEF Count, FoldSet, MapThenFoldSet, Summing, Some

(* What the blocks have of one part.                                       *)
Amounts(blocks, part) == [at \in DOMAIN blocks |-> blocks[at].n[part]]

(* The fold that counts a part counts its units.                           *)
LEMMA CountsUnits ==
  ASSUME NEW blocks, NEW part, IsFiniteSet(DOMAIN blocks),
         \A at \in DOMAIN blocks : blocks[at].n[part] \in Nat
  PROVE  Count(blocks, part) = Cardinality(Units(Amounts(blocks, part), DOMAIN blocks))
<1> DEFINE D == DOMAIN blocks
           f == Amounts(blocks, part)
           h == [s \in SUBSET D |-> Cardinality(Units(f, s))]
           g == CHOOSE it : Summing(blocks, part, it)
<1>1. \A x \in D : f[x] = blocks[x].n[part] /\ f[x] \in Nat
  BY DEF Amounts
<1> HIDE DEF f
<1>2. \A s \in SUBSET D : s # {} => Some(s) \in s
  BY DEF Some
<1>3. \A s \in SUBSET D : IsFiniteSet(s)
  BY FS_Subset
<1>4. \A s \in SUBSET D : h[s] = Cardinality(Units(f, s))
  OBVIOUS
<1>5. Units(f, {}) = {}
  BY DEF Units
<1>6. ASSUME NEW s \in SUBSET D
      PROVE  h[s] = IF s = {} THEN 0 ELSE h[s \ {Some(s)}] + blocks[Some(s)].n[part]
  <2>1. CASE s = {}
    BY <1>4, <1>5, <2>1, FS_EmptySet
  <2>2. CASE s # {}
    <3>1. Some(s) \in s /\ Some(s) \in D /\ s \ {Some(s)} \in SUBSET D
      BY <1>2, <2>2
    <3>2. Cardinality(Units(f, s)) = Cardinality(Units(f, s \ {Some(s)})) + f[Some(s)]
      BY <1>1, <1>3, <3>1, UnitsMore
    <3>3. QED BY <1>1, <1>4, <2>2, <3>1, <3>2
  <2>3. QED BY <2>1, <2>2
<1>7. Summing(blocks, part, h)
  <2>1. h = [s \in SUBSET D |-> h[s]]
    OBVIOUS
  <2> HIDE DEF h
  <2>2. QED BY <1>6, <2>1 DEF Summing
<1>8. Summing(blocks, part, g)
  <2> HIDE DEF h
  <2>1. QED BY <1>7
<1> HIDE DEF g, h
<1>9. \A s \in SUBSET D :
        g[s] = IF s = {} THEN 0 ELSE g[s \ {Some(s)}] + blocks[Some(s)].n[part]
  BY <1>8 DEF Summing
<1> DEFINE Holds == {s \in SUBSET D : g[s] = h[s]}
<1>10. ASSUME NEW s \in SUBSET D,
              \A u \in SUBSET s : Cardinality(u) < Cardinality(s) => u \in Holds
       PROVE  s \in Holds
  <2>1. CASE s = {}
    BY <1>6, <1>9, <2>1
  <2>2. CASE s # {}
    <3> DEFINE u == s \ {Some(s)}
    <3>1. u \in SUBSET s /\ u \in SUBSET D /\ Some(s) \in s
      BY <1>2, <2>2
    <3>2. Cardinality(u) < Cardinality(s)
      <4>1. Cardinality(s) \in Nat /\ Cardinality(u) = Cardinality(s) - 1
        BY <1>3, <3>1, FS_RemoveElement, FS_CardinalityType
      <4>2. QED BY <4>1
    <3>3. g[u] = h[u]
      BY <1>10, <3>1, <3>2
    <3>4. QED BY <1>6, <1>9, <2>2, <3>3
  <2>3. QED BY <2>1, <2>2
<1>11. D \in Holds
  <2>1. Holds \in SUBSET SUBSET D
    OBVIOUS
  <2> HIDE DEF Holds
  <2>2. QED BY <1>10, <2>1, FiniteSubsets
<1>12. QED BY <1>4, <1>11, CountOf DEF g, f

(* A block of an answer, with its counts.                                  *)
BlockRecord == [kind : AnswerKinds, n : [PartName -> Nat]]

(* The blocks of an answer, each with its counts.                          *)
Assembled(blocks) ==
  IsFiniteSet(DOMAIN blocks) /\ blocks \in [DOMAIN blocks -> BlockRecord]

(* One if it is so, and nothing otherwise.                                 *)
Bit(condition) == IF condition THEN 1 ELSE 0

(* Places with nothing add nothing; one delta more is one unit more.       *)
LEMMA UnitsSame ==
  ASSUME NEW f, NEW g, NEW S, NEW T, S \subseteq T,
         \A x \in S : f[x] \in Nat /\ g[x] = f[x],
         \A x \in T \ S : g[x] = 0
  PROVE  Units(g, T) = Units(f, S)
<1>1. \A x \in S : UnitsAt(g, x) = UnitsAt(f, x)
  BY DEF UnitsAt
<1>2. \A x \in T \ S : UnitsAt(g, x) = {}
  BY DEF UnitsAt
<1>3. QED BY <1>1, <1>2 DEF Units

LEMMA UnitsOneMore ==
  ASSUME NEW f, NEW g, NEW S, IsFiniteSet(S), \A x \in S : f[x] \in Nat, NEW y \in S,
         g[y] = f[y] + 1, \A x \in S : x # y => g[x] = f[x]
  PROVE  Cardinality(Units(g, S)) = Cardinality(Units(f, S)) + 1
<1> DEFINE R == S \ {y}
<1>1. \A x \in S : g[x] \in Nat
  OBVIOUS
<1>2. /\ Cardinality(Units(g, S)) = Cardinality(Units(g, R)) + g[y]
      /\ Cardinality(Units(f, S)) = Cardinality(Units(f, R)) + f[y]
  BY <1>1, UnitsMore
<1>3. Units(g, R) = Units(f, R)
  BY UnitsSame
<1>4. Cardinality(Units(f, R)) \in Nat
  <2>1. IsFiniteSet(R)
    BY FS_RemoveElement
  <2>2. IsFiniteSet(Units(f, R))
    BY <2>1, UnitsFinite
  <2>3. QED BY <2>2, FS_CardinalityType
<1> HIDE DEF R
<1>5. QED BY <1>2, <1>3, <1>4

(* A count is a number, the number of units.                               *)
LEMMA Counting ==
  ASSUME NEW blocks, Assembled(blocks), NEW part \in PartName
  PROVE  /\ Count(blocks, part) = Cardinality(Units(Amounts(blocks, part), DOMAIN blocks))
         /\ Count(blocks, part) \in Nat
         /\ \A at \in DOMAIN blocks :
              Amounts(blocks, part)[at] = blocks[at].n[part] /\ blocks[at].n[part] \in Nat
<1>1. \A at \in DOMAIN blocks : blocks[at].n[part] \in Nat
  BY DEF Assembled, BlockRecord
<1>2. IsFiniteSet(DOMAIN blocks)
  BY DEF Assembled
<1>3. Count(blocks, part) = Cardinality(Units(Amounts(blocks, part), DOMAIN blocks))
  BY <1>1, <1>2, CountsUnits
<1>4. \A at \in DOMAIN blocks : Amounts(blocks, part)[at] = blocks[at].n[part]
  BY DEF Amounts
<1>5. IsFiniteSet(Units(Amounts(blocks, part), DOMAIN blocks))
  BY <1>1, <1>2, <1>4, UnitsFinite
<1>6. QED BY <1>1, <1>3, <1>4, <1>5, FS_CardinalityType

(* Two answers that differ in blocks without a part have as much of it.    *)
LEMMA CountsSame ==
  ASSUME NEW a, NEW b, Assembled(a), Assembled(b), NEW part \in PartName,
         DOMAIN a \subseteq DOMAIN b,
         \A at \in DOMAIN a : b[at].n[part] = a[at].n[part],
         \A at \in DOMAIN b \ DOMAIN a : b[at].n[part] = 0
  PROVE  Count(b, part) = Count(a, part)
<1> DEFINE f == Amounts(a, part)
           g == Amounts(b, part)
<1>1. /\ Count(a, part) = Cardinality(Units(f, DOMAIN a))
      /\ \A at \in DOMAIN a : f[at] = a[at].n[part] /\ f[at] \in Nat
  BY Counting
<1>2. /\ Count(b, part) = Cardinality(Units(g, DOMAIN b))
      /\ \A at \in DOMAIN b : g[at] = b[at].n[part]
  BY Counting
<1> HIDE DEF f, g
<1>3. Units(g, DOMAIN b) = Units(f, DOMAIN a)
  BY <1>1, <1>2, UnitsSame
<1>4. QED BY <1>1, <1>2, <1>3

(* The places of the calls.                                                *)
CallsAt(blocks) == {at \in DOMAIN blocks : blocks[at].kind = "tool_call"}

(* A block takes one more delta.                                           *)
LEMMA CountPlus ==
  ASSUME NEW blocks, Assembled(blocks), NEW at \in DOMAIN blocks, NEW part \in PartName
  PROVE  LET more == Plus(blocks, at, part)
         IN  /\ Assembled(more) /\ DOMAIN more = DOMAIN blocks
             /\ \A x \in DOMAIN blocks :
                  /\ more[x].kind = blocks[x].kind
                  /\ \A q \in PartName :
                       more[x].n[q] = blocks[x].n[q] + Bit(x = at /\ q = part)
             /\ \A q \in PartName : Count(more, q) = Count(blocks, q) + Bit(q = part)
             /\ Calls(more) = Calls(blocks)
<1> DEFINE more == Plus(blocks, at, part)
           rec == [blocks[at] EXCEPT !.n[part] = @ + 1]
<1>1. rec \in BlockRecord /\ rec.kind = blocks[at].kind
      /\ \A q \in PartName : rec.n[q] = blocks[at].n[q] + Bit(q = part)
  <2>1. blocks[at] \in BlockRecord
    BY DEF Assembled
  <2>2. QED BY <2>1 DEF BlockRecord, Bit
<1>2. more = [blocks EXCEPT ![at] = rec]
  BY DEF Plus
<1> HIDE DEF rec
<1>3. /\ DOMAIN more = DOMAIN blocks /\ more \in [DOMAIN blocks -> BlockRecord]
      /\ more[at] = rec /\ \A x \in DOMAIN blocks : x # at => more[x] = blocks[x]
  BY <1>1, <1>2 DEF Assembled
<1> HIDE DEF more
<1>4. Assembled(more)
  BY <1>3 DEF Assembled
<1>5. \A x \in DOMAIN blocks :
        /\ more[x].kind = blocks[x].kind
        /\ \A q \in PartName : more[x].n[q] = blocks[x].n[q] + Bit(x = at /\ q = part)
  <2> SUFFICES ASSUME NEW x \in DOMAIN blocks, NEW q \in PartName
               PROVE  /\ more[x].kind = blocks[x].kind
                      /\ more[x].n[q] = blocks[x].n[q] + Bit(x = at /\ q = part)
    BY DEF PartName
  <2>1. blocks[x].n[q] \in Nat
    BY Counting
  <2>2. CASE x = at
    BY <1>1, <1>3, <2>2 DEF Bit
  <2>3. CASE x # at
    BY <1>3, <2>1, <2>3 DEF Bit
  <2>4. QED BY <2>2, <2>3
<1>6. ASSUME NEW q \in PartName
      PROVE  Count(more, q) = Count(blocks, q) + Bit(q = part)
  <2>1. CASE q # part
    <3>1. \A x \in DOMAIN blocks : more[x].n[q] = blocks[x].n[q]
      <4>1. \A x \in DOMAIN blocks : blocks[x].n[q] \in Nat
        BY Counting
      <4>2. QED BY <1>5, <2>1, <4>1 DEF Bit
    <3>2. Count(more, q) = Count(blocks, q) /\ Count(blocks, q) \in Nat
      BY <1>3, <1>4, <3>1, CountsSame, Counting
    <3>3. QED BY <2>1, <3>2 DEF Bit
  <2>2. CASE q = part
    <3> DEFINE f == Amounts(blocks, q)
               g == Amounts(more, q)
    <3>1. /\ Count(blocks, q) = Cardinality(Units(f, DOMAIN blocks))
          /\ \A x \in DOMAIN blocks : f[x] = blocks[x].n[q] /\ f[x] \in Nat
      BY Counting
    <3>2. /\ Count(more, q) = Cardinality(Units(g, DOMAIN blocks))
          /\ \A x \in DOMAIN blocks : g[x] = more[x].n[q]
      BY <1>3, <1>4, Counting
    <3> HIDE DEF f, g
    <3>3. g[at] = f[at] + 1 /\ \A x \in DOMAIN blocks : x # at => g[x] = f[x]
      BY <1>5, <2>2, <3>1, <3>2 DEF Bit
    <3>4. IsFiniteSet(DOMAIN blocks)
      BY DEF Assembled
    <3>5. Cardinality(Units(g, DOMAIN blocks)) = Cardinality(Units(f, DOMAIN blocks)) + 1
      BY <3>1, <3>3, <3>4, UnitsOneMore
    <3>6. QED BY <2>2, <3>1, <3>2, <3>5 DEF Bit
  <2>3. QED BY <2>1, <2>2
<1>7. Calls(more) = Calls(blocks)
  <2>1. CallsAt(more) = CallsAt(blocks)
    BY <1>3, <1>5 DEF CallsAt
  <2>2. QED BY <2>1 DEF Calls, CallsAt
<1>8. QED BY <1>3, <1>4, <1>5, <1>6, <1>7 DEF more

(* A block begins, with nothing in it.                                     *)
Begun(blocks, at, kind, more) ==
  /\ Assembled(more) /\ DOMAIN more = DOMAIN blocks \cup {at}
  /\ \A x \in DOMAIN blocks : more[x] = blocks[x]
  /\ more[at].kind = kind /\ \A q \in PartName : more[at].n[q] = 0
  /\ \A q \in PartName : Count(more, q) = Count(blocks, q)
  /\ Calls(more) = Calls(blocks) + Bit(kind = "tool_call")

LEMMA CountNew ==
  ASSUME NEW blocks, Assembled(blocks), NEW at, at \notin DOMAIN blocks, NEW kind \in AnswerKinds
  PROVE  Begun(blocks, at, kind, With(blocks, at, Empty(kind)))
<1> DEFINE more == With(blocks, at, Empty(kind))
<1>1. Empty(kind) \in BlockRecord /\ Empty(kind).kind = kind
      /\ \A q \in PartName : Empty(kind).n[q] = 0
  BY DEF Empty, BlockRecord
<1>2. /\ DOMAIN more = DOMAIN blocks \cup {at} /\ more[at] = Empty(kind)
      /\ \A x \in DOMAIN blocks : more[x] = blocks[x]
      /\ more = [x \in DOMAIN more |-> more[x]]
  BY DEF With
<1> HIDE DEF more
<1>3. Assembled(more)
  <2>1. IsFiniteSet(DOMAIN more)
    BY <1>2, FS_AddElement DEF Assembled
  <2>2. \A x \in DOMAIN more : more[x] \in BlockRecord
    BY <1>1, <1>2 DEF Assembled
  <2>3. QED BY <1>2, <2>1, <2>2 DEF Assembled
<1>4. \A q \in PartName : Count(more, q) = Count(blocks, q)
  BY <1>1, <1>2, <1>3, CountsSame
<1>5. Calls(more) = Calls(blocks) + Bit(kind = "tool_call")
  <2>1. IsFiniteSet(CallsAt(blocks))
    BY FS_Subset DEF CallsAt, Assembled
  <2>2. Cardinality(CallsAt(blocks)) \in Nat
    BY <2>1, FS_CardinalityType
  <2>3. CASE kind = "tool_call"
    <3>1. CallsAt(more) = CallsAt(blocks) \cup {at} /\ at \notin CallsAt(blocks)
      BY <1>1, <1>2, <2>3 DEF CallsAt
    <3>2. Cardinality(CallsAt(more)) = Cardinality(CallsAt(blocks)) + 1
      BY <2>1, <3>1, FS_AddElement
    <3>3. QED BY <2>3, <3>2 DEF Calls, CallsAt, Bit
  <2>4. CASE kind # "tool_call"
    <3>1. CallsAt(more) = CallsAt(blocks)
      BY <1>1, <1>2, <2>4 DEF CallsAt
    <3>2. Calls(more) = Calls(blocks) /\ Calls(blocks) \in Nat
      BY <2>2, <3>1 DEF Calls, CallsAt
    <3>3. QED BY <2>4, <3>2 DEF Bit
  <2>5. QED BY <2>3, <2>4
<1>6. Begun(blocks, at, kind, more)
  BY <1>1, <1>2, <1>3, <1>4, <1>5 DEF Begun
<1>7. QED BY <1>6 DEF more

(*----------------------------- the transcript ----------------------------*)

(* A view of a lawful stream.                                              *)
LawfulView(v) ==
  v \in View /\ DOMAIN v.kinds = v.open \cup v.closed /\ v.open \cap v.closed = {}

(* What a lawful stream does next leaves a view of a lawful stream.        *)
LEMMA LawfulMoves ==
  ASSUME NEW v, LawfulView(v), NEW e, Legal(v, e, TRUE)
  PROVE  LawfulView(After(v, e))
<1>1. v \in View /\ DOMAIN v.kinds = v.open \cup v.closed /\ v.open \cap v.closed = {}
  BY DEF LawfulView
<1>2. After(v, e) \in View
  BY <1>1, AfterView
<1>3. CASE e \in {Started, Usage, Failed}
  <2>1. After(v, e).kinds = v.kinds /\ After(v, e).open = v.open /\ After(v, e).closed = v.closed
    BY <1>1, <1>3 DEF After, Started, Usage, Failed, View
  <2>2. QED BY <1>1, <1>2, <2>1 DEF LawfulView
<1>4. ASSUME NEW i, NEW kind, e = Opened(i, kind), i \notin v.open \cup v.closed
      PROVE  LawfulView(After(v, e))
  <2>1. /\ After(v, e).open = v.open \cup {i} /\ After(v, e).closed = v.closed
        /\ After(v, e).kinds = With(v.kinds, i, kind)
    BY <1>1, <1>4 DEF After, Opened, View
  <2>2. DOMAIN With(v.kinds, i, kind) = DOMAIN v.kinds \cup {i}
    BY DEF With
  <2>3. QED BY <1>1, <1>2, <1>4, <2>1, <2>2 DEF LawfulView
<1>5. ASSUME NEW i, NEW part, e = Delta(i, part)
      PROVE  LawfulView(After(v, e))
  <2>1. After(v, e) = v
    BY <1>1, <1>5 DEF After, Delta
  <2>2. QED BY <2>1
<1>6. ASSUME NEW i, NEW kind, e = Closed(i, kind), i \in v.open
      PROVE  LawfulView(After(v, e))
  <2>1. /\ After(v, e).open = v.open \ {i} /\ After(v, e).closed = v.closed \cup {i}
        /\ After(v, e).kinds = v.kinds
    BY <1>1, <1>6 DEF After, Closed, View
  <2>2. QED BY <1>1, <1>2, <1>6, <2>1 DEF LawfulView
<1>7. ASSUME NEW reason, e = Completed(reason)
      PROVE  LawfulView(After(v, e))
  <2>1. After(v, e).kinds = v.kinds /\ After(v, e).open = v.open /\ After(v, e).closed = v.closed
    BY <1>1, <1>7 DEF After, Completed, View
  <2>2. QED BY <1>1, <1>2, <2>1 DEF LawfulView
<1>8. QED BY <1>3, <1>4, <1>5, <1>6, <1>7 DEF Legal

(* The argument deltas of all calls.                                       *)
Noted(calls) == Cardinality(Units(calls, DOMAIN calls))

(* What the transcript recorder keeps of what the consumer has been told:  *)
(* every block; a call's arguments apart until the call is complete.       *)
Remembers(m, v) ==
  /\ m \in [blocks : {m.blocks}, calls : {m.calls}, recorded : {m.recorded}]
  /\ Assembled(m.blocks) /\ DOMAIN m.blocks = DOMAIN v.kinds
  /\ \A i \in DOMAIN v.kinds : m.blocks[i].kind = KeptKind(v.kinds[i])
  /\ \A i \in DOMAIN v.kinds :
       v.kinds[i] # "tool_call" \/ i \in v.open => m.blocks[i].n["arguments"] = 0
  /\ \A i \in DOMAIN v.kinds :
       v.kinds[i] = "tool_call" /\ i \notin v.open => m.blocks[i].n["arguments"] = m.calls[i]
  /\ m.calls \in [{i \in DOMAIN v.kinds : v.kinds[i] = "tool_call"} -> Nat]

(* What an event adds to the texts, the arguments and the calls.           *)
TextOf(e) == Bit(e.type = "delta" /\ e.part = "text")
ArgumentsOf(e) == Bit(e.type = "delta" /\ e.part = "arguments")
CallOf(e) == Bit(e.type = "opened" /\ e.kind = "tool_call")

(* The recorder has taken e: k remembers what w knows, and is more by what *)
(* e adds.                                                                 *)
KeptOf(m, k, w, e) ==
  /\ Remembers(k, w) /\ k.recorded = m.recorded
  /\ Count(k.blocks, "text") = Count(m.blocks, "text") + TextOf(e)
  /\ Calls(k.blocks) = Calls(m.blocks) + CallOf(e)
  /\ Noted(k.calls) = Noted(m.calls) + ArgumentsOf(e)

(* What the recorder has of each is a number.                              *)
LEMMA NotedNumber ==
  ASSUME NEW m, NEW v, Remembers(m, v)
  PROVE  /\ Noted(m.calls) \in Nat /\ Count(m.blocks, "text") \in Nat /\ Calls(m.blocks) \in Nat
         /\ IsFiniteSet(DOMAIN m.calls)
<1>1. Assembled(m.blocks) /\ DOMAIN m.calls \subseteq DOMAIN m.blocks
  BY DEF Remembers
<1>2. IsFiniteSet(DOMAIN m.blocks) /\ IsFiniteSet(DOMAIN m.calls)
  BY <1>1, FS_Subset DEF Assembled
<1>3. \A i \in DOMAIN m.calls : m.calls[i] \in Nat
  BY DEF Remembers
<1>4. Noted(m.calls) \in Nat
  BY <1>2, <1>3, UnitsFinite, FS_CardinalityType DEF Noted
<1>5. Count(m.blocks, "text") \in Nat
  BY <1>1, Counting DEF PartName
<1>6. CallsAt(m.blocks) \subseteq DOMAIN m.blocks
  BY DEF CallsAt
<1>7. Calls(m.blocks) \in Nat
  BY <1>2, <1>6, FS_Subset, FS_CardinalityType DEF Calls, CallsAt
<1>8. QED BY <1>2, <1>4, <1>5, <1>7

(* An event that is about no block.                                        *)
LEMMA KeepingOn ==
  ASSUME NEW m, NEW v, Remembers(m, v), NEW w, w.kinds = v.kinds, w.open = v.open,
         NEW e, e.type \notin {"opened", "delta"}
  PROVE  KeptOf(m, m, w, e)
<1>1. Remembers(m, w)
  BY DEF Remembers
<1>2. TextOf(e) = 0 /\ ArgumentsOf(e) = 0 /\ CallOf(e) = 0
  BY DEF TextOf, ArgumentsOf, CallOf, Bit
<1>3. QED BY <1>1, <1>2, NotedNumber DEF KeptOf

(* A block begins; a call takes arguments, a text or a thought grows, and  *)
(* a block ends.                                                           *)
LEMMA KeepingOpened ==
  ASSUME NEW m, NEW v, LawfulView(v), Remembers(m, v), NEW i \in Indices, NEW kind \in BlockKinds,
         i \notin v.open \cup v.closed
  PROVE  KeptOf(m, Keep(m, Opened(i, kind)), After(v, Opened(i, kind)), Opened(i, kind))
<1> DEFINE e == Opened(i, kind)
           k == Keep(m, e)
           w == After(v, e)
           blocks == With(m.blocks, i, Empty(KeptKind(kind)))
           calls == IF kind = "tool_call" THEN With(m.calls, i, 0) ELSE m.calls
<1>1. i \notin DOMAIN v.kinds /\ v \in View
  BY DEF LawfulView
<1>2. w.kinds = With(v.kinds, i, kind) /\ w.open = v.open \cup {i}
  BY <1>1 DEF After, Opened, View
<1>3. /\ DOMAIN w.kinds = DOMAIN v.kinds \cup {i} /\ w.kinds[i] = kind
      /\ \A j \in DOMAIN v.kinds : w.kinds[j] = v.kinds[j]
  BY <1>1, <1>2 DEF With
<1>4. k = [m EXCEPT !.blocks = blocks, !.calls = calls]
  BY DEF Keep, Opened
<1> HIDE DEF k, w
<1>5. /\ Assembled(m.blocks) /\ DOMAIN m.blocks = DOMAIN v.kinds
      /\ m.calls \in [{j \in DOMAIN v.kinds : v.kinds[j] = "tool_call"} -> Nat]
  BY DEF Remembers
<1>6. KeptKind(kind) \in AnswerKinds /\ (KeptKind(kind) = "tool_call" <=> kind = "tool_call")
  BY DEF KeptKind, AnswerKinds, BlockKinds
<1>7. /\ Assembled(blocks) /\ DOMAIN blocks = DOMAIN w.kinds
      /\ \A j \in DOMAIN v.kinds : blocks[j] = m.blocks[j]
      /\ blocks[i].kind = KeptKind(kind) /\ blocks[i].n["arguments"] = 0
      /\ Count(blocks, "text") = Count(m.blocks, "text")
      /\ Calls(blocks) = Calls(m.blocks) + Bit(kind = "tool_call")
  <2>1. "text" \in PartName /\ "arguments" \in PartName
    BY DEF PartName
  <2>2. i \notin DOMAIN m.blocks
    BY <1>1, <1>5
  <2>3. PICK kk \in AnswerKinds : kk = KeptKind(kind)
    BY <1>6
  <2>4. blocks = With(m.blocks, i, Empty(kk))
    BY <2>3
  <2> HIDE DEF blocks
  <2>5. /\ Assembled(blocks) /\ DOMAIN blocks = DOMAIN m.blocks \cup {i}
        /\ \A j \in DOMAIN m.blocks : blocks[j] = m.blocks[j]
        /\ blocks[i].kind = kk /\ \A q \in PartName : blocks[i].n[q] = 0
        /\ \A q \in PartName : Count(blocks, q) = Count(m.blocks, q)
        /\ Calls(blocks) = Calls(m.blocks) + Bit(kk = "tool_call")
    BY <1>5, <2>2, <2>4, CountNew DEF Begun
  <2>6. Bit(kk = "tool_call") = Bit(kind = "tool_call")
    BY <1>6, <2>3 DEF Bit
  <2>7. QED BY <1>3, <1>5, <2>1, <2>3, <2>5, <2>6
<1>8. /\ calls \in [{j \in DOMAIN w.kinds : w.kinds[j] = "tool_call"} -> Nat]
      /\ \A j \in DOMAIN m.calls : calls[j] = m.calls[j]
      /\ \A j \in DOMAIN calls \ DOMAIN m.calls : calls[j] = 0
  <2>1. CASE kind = "tool_call"
    BY <1>1, <1>3, <1>5, <2>1 DEF With
  <2>2. CASE kind # "tool_call"
    <3>1. {j \in DOMAIN w.kinds : w.kinds[j] = "tool_call"}
            = {j \in DOMAIN v.kinds : v.kinds[j] = "tool_call"}
      BY <1>1, <1>3, <2>2
    <3>2. QED BY <1>5, <2>2, <3>1
  <2>3. QED BY <2>1, <2>2
<1> HIDE DEF blocks, calls
<1>9. k.blocks = blocks /\ k.calls = calls /\ k.recorded = m.recorded
      /\ k \in [blocks : {k.blocks}, calls : {k.calls}, recorded : {k.recorded}]
  BY <1>4 DEF Remembers
<1>10. Noted(calls) = Noted(m.calls)
  <2>1. DOMAIN m.calls \subseteq DOMAIN calls /\ \A j \in DOMAIN m.calls : m.calls[j] \in Nat
    BY <1>3, <1>5, <1>8
  <2>2. Units(calls, DOMAIN calls) = Units(m.calls, DOMAIN m.calls)
    BY <1>8, <2>1, UnitsSame
  <2>3. QED BY <2>2 DEF Noted
<1>11. Remembers(k, w)
  <2>1. /\ \A j \in DOMAIN v.kinds : m.blocks[j].kind = KeptKind(v.kinds[j])
        /\ \A j \in DOMAIN v.kinds :
             v.kinds[j] # "tool_call" \/ j \in v.open => m.blocks[j].n["arguments"] = 0
        /\ \A j \in DOMAIN v.kinds :
             v.kinds[j] = "tool_call" /\ j \notin v.open => m.blocks[j].n["arguments"] = m.calls[j]
    BY DEF Remembers
  <2>2. \A j \in DOMAIN w.kinds : k.blocks[j].kind = KeptKind(w.kinds[j])
    BY <1>3, <1>7, <1>9, <2>1
  <2>3. \A j \in DOMAIN w.kinds :
          w.kinds[j] # "tool_call" \/ j \in w.open => k.blocks[j].n["arguments"] = 0
    BY <1>2, <1>3, <1>7, <1>9, <2>1
  <2>4. \A j \in DOMAIN w.kinds :
          w.kinds[j] = "tool_call" /\ j \notin w.open => k.blocks[j].n["arguments"] = k.calls[j]
    <3> SUFFICES ASSUME NEW j \in DOMAIN w.kinds, w.kinds[j] = "tool_call", j \notin w.open
                 PROVE  k.blocks[j].n["arguments"] = k.calls[j]
      OBVIOUS
    <3>1. j \in DOMAIN v.kinds /\ v.kinds[j] = "tool_call" /\ j \notin v.open
      BY <1>2, <1>3
    <3>2. j \in DOMAIN m.calls
      BY <1>5, <3>1
    <3>3. QED BY <1>7, <1>8, <1>9, <2>1, <3>1, <3>2
  <2>5. QED BY <1>7, <1>8, <1>9, <2>2, <2>3, <2>4 DEF Remembers
<1>12. TextOf(e) = 0 /\ ArgumentsOf(e) = 0 /\ CallOf(e) = Bit(kind = "tool_call")
  BY DEF TextOf, ArgumentsOf, CallOf, Bit, Opened
<1>13. QED BY <1>7, <1>9, <1>10, <1>11, <1>12, NotedNumber DEF KeptOf, k, w

LEMMA KeepingArguments ==
  ASSUME NEW m, NEW v, LawfulView(v), Remembers(m, v), NEW i \in v.open,
         v.kinds[i] = "tool_call"
  PROVE  KeptOf(m, Keep(m, Delta(i, "arguments")), v, Delta(i, "arguments"))
<1> DEFINE e == Delta(i, "arguments")
           k == Keep(m, e)
           calls == With(m.calls, i, m.calls[i] + 1)
           D == {j \in DOMAIN v.kinds : v.kinds[j] = "tool_call"}
<1>1. i \in D
  BY DEF LawfulView
<1>2. m.calls \in [D -> Nat] /\ IsFiniteSet(D)
  BY NotedNumber DEF Remembers
<1>3. k = [m EXCEPT !.calls = calls]
  BY <1>1, <1>2 DEF Keep, Delta
<1> HIDE DEF k, D
<1>4. /\ calls \in [D -> Nat] /\ calls[i] = m.calls[i] + 1
      /\ \A j \in D : j # i => calls[j] = m.calls[j]
  BY <1>1, <1>2 DEF With
<1> HIDE DEF calls
<1>5. k.blocks = m.blocks /\ k.calls = calls /\ k.recorded = m.recorded
      /\ k \in [blocks : {k.blocks}, calls : {k.calls}, recorded : {k.recorded}]
  BY <1>3 DEF Remembers
<1>6. Noted(calls) = Noted(m.calls) + 1
  <2>1. DOMAIN calls = D /\ DOMAIN m.calls = D /\ \A j \in D : m.calls[j] \in Nat
    BY <1>2, <1>4
  <2>2. Cardinality(Units(calls, D)) = Cardinality(Units(m.calls, D)) + 1
    BY <1>1, <1>2, <1>4, <2>1, UnitsOneMore
  <2>3. QED BY <2>1, <2>2 DEF Noted
<1>7. Remembers(k, v)
  <2>1. \A j \in DOMAIN v.kinds :
          v.kinds[j] = "tool_call" /\ j \notin v.open => calls[j] = m.calls[j]
    BY <1>4 DEF D
  <2>2. QED BY <1>4, <1>5, <2>1 DEF Remembers, D
<1>8. TextOf(e) = 0 /\ ArgumentsOf(e) = 1 /\ CallOf(e) = 0
  BY DEF TextOf, ArgumentsOf, CallOf, Bit, Delta
<1>9. QED BY <1>5, <1>6, <1>7, <1>8, NotedNumber DEF KeptOf, k

LEMMA KeepingTexts ==
  ASSUME NEW m, NEW v, LawfulView(v), Remembers(m, v), NEW i \in v.open,
         NEW part \in PartName, part # "arguments", v.kinds[i] \in KindOf(part)
  PROVE  KeptOf(m, Keep(m, Delta(i, part)), v, Delta(i, part))
<1> DEFINE e == Delta(i, part)
           k == Keep(m, e)
           blocks == Plus(m.blocks, i, part)
           kind == IF part = "text" THEN "text" ELSE "reasoning"
<1>1. i \in DOMAIN v.kinds
  BY DEF LawfulView
<1>2. KeptKind(v.kinds[i]) = kind
  BY DEF KindOf, PartName, KeptKind
<1>3. Orelse(m.blocks, i, kind) = m.blocks
  BY <1>1, <1>2 DEF Orelse, IsA, Remembers
<1>4. k = [m EXCEPT !.blocks = blocks]
  BY <1>3 DEF Keep, Delta
<1> HIDE DEF k, kind
<1>5. Assembled(m.blocks) /\ DOMAIN m.blocks = DOMAIN v.kinds
  BY DEF Remembers
<1>6. /\ Assembled(blocks) /\ DOMAIN blocks = DOMAIN m.blocks
      /\ \A j \in DOMAIN m.blocks :
           /\ blocks[j].kind = m.blocks[j].kind
           /\ \A q \in PartName :
                blocks[j].n[q] = m.blocks[j].n[q] + Bit(j = i /\ q = part)
      /\ \A q \in PartName : Count(blocks, q) = Count(m.blocks, q) + Bit(q = part)
      /\ Calls(blocks) = Calls(m.blocks)
  BY <1>1, <1>5, CountPlus
<1> HIDE DEF blocks
<1>7. k.blocks = blocks /\ k.calls = m.calls /\ k.recorded = m.recorded
      /\ k \in [blocks : {k.blocks}, calls : {k.calls}, recorded : {k.recorded}]
  BY <1>4 DEF Remembers
<1>8. \A j \in DOMAIN v.kinds : blocks[j].n["arguments"] = m.blocks[j].n["arguments"]
  <2>1. "arguments" \in PartName
    BY DEF PartName
  <2>2. \A j \in DOMAIN v.kinds : m.blocks[j].n["arguments"] \in Nat
    BY <1>5, <2>1, Counting
  <2>3. QED BY <1>5, <1>6, <2>1, <2>2 DEF Bit
<1>9. Remembers(k, v)
  <2>1. \A j \in DOMAIN v.kinds : k.blocks[j].kind = KeptKind(v.kinds[j])
    BY <1>5, <1>6, <1>7 DEF Remembers
  <2>2. \A j \in DOMAIN v.kinds :
          v.kinds[j] # "tool_call" \/ j \in v.open => k.blocks[j].n["arguments"] = 0
    BY <1>7, <1>8 DEF Remembers
  <2>3. \A j \in DOMAIN v.kinds :
          v.kinds[j] = "tool_call" /\ j \notin v.open => k.blocks[j].n["arguments"] = k.calls[j]
    BY <1>7, <1>8 DEF Remembers
  <2>4. QED BY <1>5, <1>6, <1>7, <2>1, <2>2, <2>3 DEF Remembers
<1>10. TextOf(e) = Bit("text" = part) /\ ArgumentsOf(e) = 0 /\ CallOf(e) = 0
  BY DEF TextOf, ArgumentsOf, CallOf, Bit, Delta
<1>11. Count(blocks, "text") = Count(m.blocks, "text") + TextOf(e)
  <2>1. "text" \in PartName
    BY DEF PartName
  <2>2. QED BY <1>6, <1>10, <2>1
<1>12. QED BY <1>6, <1>7, <1>9, <1>10, <1>11, NotedNumber DEF KeptOf, k

LEMMA KeepingClosed ==
  ASSUME NEW m, NEW v, LawfulView(v), Remembers(m, v), NEW i \in v.open,
         NEW e, e = Closed(i, v.kinds[i])
  PROVE  KeptOf(m, Keep(m, e), After(v, e), e)
<1> DEFINE k == Keep(m, e)
           w == After(v, e)
           rec == [m.blocks[i] EXCEPT !.n["arguments"] = m.calls[i]]
           blocks == [m.blocks EXCEPT ![i] = rec]
<1>1. /\ i \in DOMAIN v.kinds /\ w.kinds = v.kinds /\ w.open = v.open \ {i}
  BY DEF After, Closed, LawfulView, View
<1> HIDE DEF w
<1>2. TextOf(e) = 0 /\ ArgumentsOf(e) = 0 /\ CallOf(e) = 0
  BY DEF TextOf, ArgumentsOf, CallOf, Bit, Closed
<1>3. /\ Assembled(m.blocks) /\ DOMAIN m.blocks = DOMAIN v.kinds
      /\ m.blocks[i].kind = KeptKind(v.kinds[i]) /\ m.blocks[i] \in BlockRecord
      /\ m.calls \in [{j \in DOMAIN v.kinds : v.kinds[j] = "tool_call"} -> Nat]
  BY <1>1 DEF Remembers, Assembled
<1>4. v.kinds[i] \in BlockKinds
  BY <1>1 DEF LawfulView, View
<1>5. KeptKind(v.kinds[i]) = "tool_call" <=> v.kinds[i] = "tool_call"
  BY <1>4 DEF KeptKind, BlockKinds
<1>6. CASE v.kinds[i] # "tool_call"
  <2>1. k = m
    BY <1>3, <1>5, <1>6 DEF Keep, Closed, IsA
  <2>2. \A j \in DOMAIN v.kinds : v.kinds[j] = "tool_call" => (j \in w.open <=> j \in v.open)
    BY <1>1, <1>6
  <2>3. Remembers(m, w)
    BY <1>1, <2>2 DEF Remembers
  <2>4. QED BY <1>2, <2>1, <2>3, NotedNumber DEF KeptOf, k, w
<1>7. CASE v.kinds[i] = "tool_call"
  <2>1. k = [m EXCEPT !.blocks = blocks]
    BY <1>1, <1>3, <1>5, <1>7 DEF Keep, Closed, IsA
  <2>2. m.calls[i] \in Nat
    BY <1>1, <1>3, <1>7
  <2>3. rec \in BlockRecord /\ rec.kind = m.blocks[i].kind /\ rec.n["arguments"] = m.calls[i]
        /\ \A q \in PartName : q # "arguments" => rec.n[q] = m.blocks[i].n[q]
    BY <1>3, <2>2 DEF BlockRecord, PartName
  <2> HIDE DEF k, rec
  <2>4. /\ DOMAIN blocks = DOMAIN v.kinds /\ blocks \in [DOMAIN v.kinds -> BlockRecord]
        /\ blocks[i] = rec /\ \A j \in DOMAIN v.kinds : j # i => blocks[j] = m.blocks[j]
    BY <1>1, <1>3, <2>3 DEF Assembled
  <2> HIDE DEF blocks
  <2>5. Assembled(blocks)
    BY <1>3, <2>4 DEF Assembled
  <2>6. k.blocks = blocks /\ k.calls = m.calls /\ k.recorded = m.recorded
        /\ k \in [blocks : {k.blocks}, calls : {k.calls}, recorded : {k.recorded}]
    BY <2>1 DEF Remembers
  <2>7. Count(blocks, "text") = Count(m.blocks, "text")
    <3>1. "text" \in PartName
      BY DEF PartName
    <3>2. \A j \in DOMAIN m.blocks : blocks[j].n["text"] = m.blocks[j].n["text"]
      BY <1>3, <2>3, <2>4, <3>1
    <3>3. QED BY <1>3, <2>4, <2>5, <3>1, <3>2, CountsSame
  <2>8. Calls(blocks) = Calls(m.blocks)
    <3>1. CallsAt(blocks) = CallsAt(m.blocks)
      BY <1>3, <2>3, <2>4 DEF CallsAt
    <3>2. QED BY <3>1 DEF Calls, CallsAt
  <2>9. Remembers(k, w)
    <3>1. \A j \in DOMAIN w.kinds : k.blocks[j].kind = KeptKind(w.kinds[j])
      BY <1>1, <1>3, <2>3, <2>4, <2>6 DEF Remembers
    <3>2. \A j \in DOMAIN w.kinds :
            w.kinds[j] # "tool_call" \/ j \in w.open => k.blocks[j].n["arguments"] = 0
      BY <1>1, <1>7, <2>4, <2>6 DEF Remembers
    <3>3. \A j \in DOMAIN w.kinds :
            w.kinds[j] = "tool_call" /\ j \notin w.open => k.blocks[j].n["arguments"] = k.calls[j]
      BY <1>1, <2>3, <2>4, <2>6 DEF Remembers
    <3>4. QED BY <1>1, <1>3, <2>4, <2>5, <2>6, <3>1, <3>2, <3>3 DEF Remembers
  <2>10. QED BY <1>2, <2>6, <2>7, <2>8, <2>9, NotedNumber DEF KeptOf, k, w
<1>8. QED BY <1>6, <1>7

(* The recorder keeps up with every event of a lawful stream.              *)
LEMMA Keeps ==
  ASSUME NEW m, NEW v, LawfulView(v), Remembers(m, v), NEW e, Legal(v, e, TRUE)
  PROVE  KeptOf(m, Keep(m, e), After(v, e), e)
<1>1. CASE e \in {Started, Usage, Failed}
  <2>1. Keep(m, e) = m /\ e.type \notin {"opened", "delta"}
    BY <1>1 DEF Keep, Started, Usage, Failed
  <2>2. After(v, e).kinds = v.kinds /\ After(v, e).open = v.open
    BY <1>1 DEF After, Started, Usage, Failed, LawfulView, View
  <2>3. QED BY <2>1, <2>2, KeepingOn
<1>2. ASSUME NEW i \in Indices, NEW kind \in BlockKinds, e = Opened(i, kind),
             i \notin v.open \cup v.closed
      PROVE  KeptOf(m, Keep(m, e), After(v, e), e)
  BY <1>2, KeepingOpened
<1>3. ASSUME NEW i \in Indices, NEW part \in PartName, e = Delta(i, part), i \in v.open,
             i \in DOMAIN v.kinds, v.kinds[i] \in KindOf(part)
      PROVE  KeptOf(m, Keep(m, e), After(v, e), e)
  <2>1. After(v, e) = v
    BY <1>3 DEF After, Delta
  <2>2. CASE part = "arguments"
    <3>1. v.kinds[i] = "tool_call"
      BY <1>3, <2>2 DEF KindOf
    <3>2. QED BY <1>3, <2>1, <2>2, <3>1, KeepingArguments
  <2>3. CASE part # "arguments"
    BY <1>3, <2>1, <2>3, KeepingTexts
  <2>4. QED BY <2>2, <2>3
<1>4. ASSUME NEW i \in Indices, NEW kind, e = Closed(i, kind), i \in v.open, v.kinds[i] = kind
      PROVE  KeptOf(m, Keep(m, e), After(v, e), e)
  BY <1>4, KeepingClosed
<1>5. ASSUME NEW reason, e = Completed(reason)
      PROVE  KeptOf(m, Keep(m, e), After(v, e), e)
  <2>1. Keep(m, e) = m /\ e.type \notin {"opened", "delta"}
    BY <1>5 DEF Keep, Completed
  <2>2. After(v, e).kinds = v.kinds /\ After(v, e).open = v.open
    BY <1>5 DEF After, Completed, LawfulView, View
  <2>3. QED BY <2>1, <2>2, KeepingOn
<1>6. QED BY <1>1, <1>2, <1>3, <1>4, <1>5 DEF Legal

(* What is remembered in the end: every text and every call.               *)
LEMMA MemoryHolds ==
  ASSUME NEW m, NEW v, LawfulView(v), Remembers(m, v), v.open = {}
  PROVE  /\ Count(Memory(m), "text") = Count(m.blocks, "text")
         /\ Count(Memory(m), "arguments") = Noted(m.calls)
         /\ Calls(Memory(m)) = Calls(m.blocks)
<1> DEFINE b == Memory(m)
<1>1. /\ Assembled(m.blocks) /\ DOMAIN m.blocks = DOMAIN v.kinds
      /\ \A i \in DOMAIN v.kinds : m.blocks[i].kind = KeptKind(v.kinds[i])
      /\ \A i \in DOMAIN v.kinds : v.kinds[i] # "tool_call" => m.blocks[i].n["arguments"] = 0
      /\ \A i \in DOMAIN v.kinds :
           v.kinds[i] = "tool_call" => m.blocks[i].n["arguments"] = m.calls[i]
      /\ m.calls \in [{i \in DOMAIN v.kinds : v.kinds[i] = "tool_call"} -> Nat]
  BY DEF Remembers
<1>2. \A i \in DOMAIN v.kinds : v.kinds[i] \in BlockKinds
  BY DEF LawfulView, View
<1>3. \A i \in DOMAIN v.kinds :
        m.blocks[i].kind \in {"text", "reasoning"} <=> v.kinds[i] # "tool_call"
  BY <1>1, <1>2 DEF KeptKind, BlockKinds
<1>4. \A i \in DOMAIN v.kinds : m.blocks[i].kind = "tool_call" <=> v.kinds[i] = "tool_call"
  BY <1>1, <1>2 DEF KeptKind, BlockKinds
<1>5. /\ DOMAIN b \subseteq DOMAIN m.blocks /\ \A at \in DOMAIN b : b[at] = m.blocks[at]
      /\ b = [at \in DOMAIN b |-> b[at]]
      /\ \A at \in DOMAIN m.blocks \ DOMAIN b :
           /\ m.blocks[at].kind \in {"text", "reasoning"}
           /\ ~(m.blocks[at].n["text"] + m.blocks[at].n["reasoning"] > 0)
  BY DEF Memory
<1> HIDE DEF b
<1>6. Assembled(b)
  <2>1. IsFiniteSet(DOMAIN b)
    BY <1>1, <1>5, FS_Subset DEF Assembled
  <2>2. \A at \in DOMAIN b : b[at] \in BlockRecord
    BY <1>1, <1>5 DEF Assembled
  <2>3. QED BY <1>5, <2>1, <2>2 DEF Assembled
<1>7. "text" \in PartName /\ "arguments" \in PartName /\ "reasoning" \in PartName
  BY DEF PartName
<1>8. \A at \in DOMAIN m.blocks : /\ m.blocks[at].n["text"] \in Nat
                                  /\ m.blocks[at].n["reasoning"] \in Nat
                                  /\ m.blocks[at].n["arguments"] \in Nat
  BY <1>1, <1>7, Counting
<1>9. Count(m.blocks, "text") = Count(b, "text")
  <2>1. ASSUME NEW at \in DOMAIN m.blocks \ DOMAIN b PROVE m.blocks[at].n["text"] = 0
    <3>1. PICK x, y \in Nat : m.blocks[at].n["text"] = x /\ m.blocks[at].n["reasoning"] = y
      BY <1>8
    <3>2. ~(x + y > 0)
      BY <1>5, <3>1
    <3>3. x = 0
      BY <3>2
    <3>4. QED BY <3>1, <3>3
  <2>2. QED BY <1>1, <1>5, <1>6, <1>7, <2>1, CountsSame
<1>10. Count(m.blocks, "arguments") = Count(b, "arguments")
  <2>1. \A at \in DOMAIN m.blocks \ DOMAIN b : m.blocks[at].n["arguments"] = 0
    BY <1>1, <1>3, <1>5
  <2>2. QED BY <1>1, <1>5, <1>6, <1>7, <2>1, CountsSame
<1>11. Count(m.blocks, "arguments") = Noted(m.calls)
  <2> DEFINE g == Amounts(m.blocks, "arguments")
  <2>1. /\ Count(m.blocks, "arguments") = Cardinality(Units(g, DOMAIN m.blocks))
        /\ \A at \in DOMAIN m.blocks : g[at] = m.blocks[at].n["arguments"]
    BY <1>1, <1>7, Counting
  <2> HIDE DEF g
  <2>2. /\ DOMAIN m.calls \subseteq DOMAIN m.blocks
        /\ \A at \in DOMAIN m.calls : m.calls[at] \in Nat /\ g[at] = m.calls[at]
        /\ \A at \in DOMAIN m.blocks \ DOMAIN m.calls : g[at] = 0
    BY <1>1, <2>1
  <2>3. Units(g, DOMAIN m.blocks) = Units(m.calls, DOMAIN m.calls)
    BY <2>2, UnitsSame
  <2>4. QED BY <2>1, <2>3 DEF Noted
<1>12. Calls(b) = Calls(m.blocks)
  <2>1. CallsAt(b) = CallsAt(m.blocks)
    BY <1>5 DEF CallsAt
  <2>2. QED BY <2>1 DEF Calls, CallsAt
<1>13. QED BY <1>9, <1>10, <1>11, <1>12 DEF b

(*--------------------- the answer and the client's view ------------------*)

(* The client has put together just the blocks of the answer.              *)
Agree(blocks, s) ==
  SeenTyped(s) /\ s.blocks = blocks /\ ~s.stray /\ Assembled(blocks)

(* What an event adds to an answer.                                        *)
Grown(blocks, more, e) ==
  /\ Count(more, "text") = Count(blocks, "text") + TextOf(e)
  /\ Count(more, "arguments") = Count(blocks, "arguments") + ArgumentsOf(e)
  /\ Calls(more) = Calls(blocks) + CallOf(e)

(* An event makes one frame or none.                                       *)
SeesAll(s, fs) == IF fs = <<>> THEN s ELSE See(s, Head(fs))

(* What an answer has of each is a number.                                 *)
LEMMA CallsCounted ==
  ASSUME NEW blocks, Assembled(blocks)
  PROVE  /\ Calls(blocks) \in Nat
         /\ Count(blocks, "text") \in Nat /\ Count(blocks, "arguments") \in Nat
<1>1. IsFiniteSet(CallsAt(blocks))
  BY FS_Subset DEF CallsAt, Assembled
<1>2. Calls(blocks) \in Nat
  BY <1>1, FS_CardinalityType DEF Calls, CallsAt
<1>3. QED BY <1>2, Counting DEF PartName

(* An event that is about no text, argument or call.                       *)
LEMMA GrownByNothing ==
  ASSUME NEW blocks, Assembled(blocks), NEW e,
         e.type \notin {"opened", "delta"} \/ (e.type = "opened" /\ e.kind # "tool_call")
           \/ (e.type = "delta" /\ e.part \notin {"text", "arguments"})
  PROVE  Grown(blocks, blocks, e)
<1>1. TextOf(e) = 0 /\ ArgumentsOf(e) = 0 /\ CallOf(e) = 0
  BY DEF TextOf, ArgumentsOf, CallOf, Bit
<1>2. QED BY <1>1, CallsCounted DEF Grown

(* The answer and the client take the same step: a block begins, or grows. *)
LEMMA AgreesOpen ==
  ASSUME NEW blocks, NEW s, Agree(blocks, s), s.ends = <<>>, NEW at, at \notin DOMAIN blocks,
         NEW kind \in AnswerKinds, NEW e, e.type = "opened", e.kind = kind
  PROVE  LET more == With(blocks, at, Empty(kind))
             t == See(s, FrameOpen(at, kind))
         IN  /\ Agree(more, t) /\ Grown(blocks, more, e) /\ Begun(blocks, at, kind, more)
             /\ t.open = s.open \cup {at} /\ t.ends = s.ends
<1> DEFINE more == With(blocks, at, Empty(kind))
           t == See(s, FrameOpen(at, kind))
           open == s.open \cup {at}
           stray == s.stray \/ at \in DOMAIN s.blocks \/ s.ends # <<>>
<1>1. SeenTyped(s) /\ s.blocks = blocks /\ ~s.stray /\ Assembled(blocks)
  BY DEF Agree
<1>2. t = [s EXCEPT !.blocks = more, !.open = open, !.stray = stray]
  BY <1>1 DEF See, FrameOpen
<1>3. ~stray
  BY <1>1
<1>4. Begun(blocks, at, kind, more)
  BY <1>1, CountNew
<1> HIDE DEF more, t, open, stray
<1>5. t.blocks = more /\ t.open = open /\ t.ends = s.ends /\ ~t.stray /\ SeenTyped(t)
  BY <1>1, <1>2, <1>3 DEF SeenTyped
<1>6. TextOf(e) = 0 /\ ArgumentsOf(e) = 0 /\ CallOf(e) = Bit(kind = "tool_call")
  BY DEF TextOf, ArgumentsOf, CallOf, Bit
<1>7. Grown(blocks, more, e)
  <2>1. "text" \in PartName /\ "arguments" \in PartName
    BY DEF PartName
  <2>2. /\ \A q \in PartName : Count(more, q) = Count(blocks, q)
        /\ Calls(more) = Calls(blocks) + Bit(kind = "tool_call")
    BY <1>4 DEF Begun
  <2>3. QED BY <1>1, <1>6, <2>1, <2>2, CallsCounted DEF Grown
<1>8. Agree(more, t)
  BY <1>4, <1>5 DEF Agree, Begun
<1>9. QED BY <1>4, <1>5, <1>7, <1>8 DEF more, t, open

(* A delta adds to one place.                                              *)
LEMMA GrownByDelta ==
  ASSUME NEW blocks, Assembled(blocks), NEW at \in DOMAIN blocks, NEW part \in PartName,
         NEW e, e.type = "delta", e.part = part
  PROVE  Grown(blocks, Plus(blocks, at, part), e)
<1> DEFINE more == Plus(blocks, at, part)
<1>1. /\ \A q \in PartName : Count(more, q) = Count(blocks, q) + Bit(q = part)
      /\ Calls(more) = Calls(blocks)
  BY CountPlus
<1> HIDE DEF more
<1>2. TextOf(e) = Bit("text" = part) /\ ArgumentsOf(e) = Bit("arguments" = part) /\ CallOf(e) = 0
  BY DEF TextOf, ArgumentsOf, CallOf, Bit
<1>3. "text" \in PartName /\ "arguments" \in PartName
  BY DEF PartName
<1>4. Grown(blocks, more, e)
  BY <1>1, <1>2, <1>3, CallsCounted DEF Grown
<1>5. QED BY <1>4 DEF more

LEMMA AgreesDelta ==
  ASSUME NEW blocks, NEW s, Agree(blocks, s), NEW at \in DOMAIN blocks, at \in s.open,
         NEW part \in PartName, NEW e, e.type = "delta", e.part = part
  PROVE  LET more == Plus(blocks, at, part)
             t == See(s, FrameDelta(at, part))
         IN  /\ Agree(more, t) /\ Grown(blocks, more, e) /\ DOMAIN more = DOMAIN blocks
             /\ \A x \in DOMAIN blocks : more[x].kind = blocks[x].kind
             /\ t.open = s.open /\ t.ends = s.ends
<1> DEFINE more == Plus(blocks, at, part)
           t == See(s, FrameDelta(at, part))
<1>1. SeenTyped(s) /\ s.blocks = blocks /\ ~s.stray /\ Assembled(blocks)
  BY DEF Agree
<1>2. t = [s EXCEPT !.blocks = more]
  BY <1>1 DEF See, FrameDelta
<1>3. /\ Assembled(more) /\ DOMAIN more = DOMAIN blocks
      /\ \A x \in DOMAIN blocks : more[x].kind = blocks[x].kind
  BY <1>1, CountPlus
<1>4. Grown(blocks, more, e)
  BY <1>1, GrownByDelta
<1> HIDE DEF more, t
<1>5. t.blocks = more /\ t.open = s.open /\ t.ends = s.ends /\ ~t.stray /\ SeenTyped(t)
  BY <1>1, <1>2 DEF SeenTyped
<1>6. QED BY <1>3, <1>4, <1>5 DEF Agree, more, t

(* A chat answer grows at the one place its part has.                      *)
Said(blocks, s, more, t, part, e) ==
  /\ Agree(more, t) /\ Grown(blocks, more, e)
  /\ DOMAIN more = DOMAIN blocks \cup {ChatAt(part)}
  /\ more[ChatAt(part)].kind = part
  /\ \A x \in DOMAIN blocks : more[x].kind = blocks[x].kind
  /\ t.open = s.open /\ t.ends = s.ends

LEMMA AgreesSay ==
  ASSUME NEW blocks, NEW s, Agree(blocks, s), NEW part \in {"text", "reasoning"},
         ChatAt(part) \in DOMAIN blocks => blocks[ChatAt(part)].kind = part,
         NEW e, e.type = "delta", e.part = part
  PROVE  LET more == Plus(Orelse(blocks, ChatAt(part), part), ChatAt(part), part)
             t == See(s, FrameSay(part))
         IN  Said(blocks, s, more, t, part, e)
<1> DEFINE at == ChatAt(part)
           before == Orelse(blocks, at, part)
           more == Plus(before, at, part)
           t == See(s, FrameSay(part))
<1>1. SeenTyped(s) /\ s.blocks = blocks /\ ~s.stray /\ Assembled(blocks)
  BY DEF Agree
<1>2. t = [s EXCEPT !.blocks = more]
  BY <1>1 DEF See, FrameSay
<1>3. part \in AnswerKinds /\ part \in PartName /\ part # "tool_call"
  BY DEF AnswerKinds, BlockKinds, PartName
<1>4. at \in DOMAIN blocks => blocks[at].kind = part
  OBVIOUS
<1> HIDE DEF at, t
<1>5. /\ Assembled(before) /\ DOMAIN before = DOMAIN blocks \cup {at} /\ before[at].kind = part
      /\ \A x \in DOMAIN blocks : before[x].kind = blocks[x].kind
      /\ Count(before, "text") = Count(blocks, "text")
      /\ Count(before, "arguments") = Count(blocks, "arguments") /\ Calls(before) = Calls(blocks)
  <2>1. CASE at \in DOMAIN blocks
    <3>1. before = blocks
      BY <1>4, <2>1 DEF Orelse, IsA
    <3> HIDE DEF before
    <3>2. QED BY <1>1, <1>4, <2>1, <3>1
  <2>2. CASE at \notin DOMAIN blocks
    <3>1. before = With(blocks, at, Empty(part))
      BY <2>2 DEF Orelse, IsA
    <3> HIDE DEF before
    <3>2. /\ Assembled(before) /\ DOMAIN before = DOMAIN blocks \cup {at}
          /\ \A x \in DOMAIN blocks : before[x] = blocks[x]
          /\ before[at].kind = part
          /\ \A q \in PartName : Count(before, q) = Count(blocks, q)
          /\ Calls(before) = Calls(blocks) + Bit(part = "tool_call")
      <4>1. PICK kind \in AnswerKinds : kind = part
        BY <1>3
      <4>2. /\ Assembled(before) /\ DOMAIN before = DOMAIN blocks \cup {at}
            /\ \A x \in DOMAIN blocks : before[x] = blocks[x]
            /\ before[at].kind = kind /\ \A q \in PartName : before[at].n[q] = 0
            /\ \A q \in PartName : Count(before, q) = Count(blocks, q)
            /\ Calls(before) = Calls(blocks) + Bit(kind = "tool_call")
        <5>1. before = With(blocks, at, Empty(kind))
          BY <3>1, <4>1
        <5>2. Begun(blocks, at, kind, before)
          BY <1>1, <2>2, <5>1, CountNew
        <5>3. QED BY <5>2 DEF Begun
      <4>3. QED BY <4>1, <4>2
    <3>3. "text" \in PartName /\ "arguments" \in PartName
      BY DEF PartName
    <3>4. Calls(before) = Calls(blocks)
      BY <1>1, <1>3, <3>2, CallsCounted DEF Bit
    <3>5. QED BY <3>2, <3>3, <3>4
  <2>3. QED BY <2>1, <2>2
<1> HIDE DEF before
<1>6. /\ Assembled(more) /\ DOMAIN more = DOMAIN before
      /\ \A x \in DOMAIN before : more[x].kind = before[x].kind
  <2>1. more = Plus(before, at, part) /\ at \in DOMAIN before
    BY <1>5
  <2>2. PICK q \in PartName : q = part
    BY <1>3
  <2> HIDE DEF more
  <2>3. QED BY <1>5, <2>1, <2>2, CountPlus
<1>7. Grown(before, more, e)
  BY <1>3, <1>5, GrownByDelta
<1> HIDE DEF more
<1>8. Grown(blocks, more, e)
  BY <1>5, <1>7 DEF Grown
<1>9. t.blocks = more /\ t.open = s.open /\ t.ends = s.ends /\ ~t.stray /\ SeenTyped(t)
  BY <1>1, <1>2 DEF SeenTyped
<1>10. Said(blocks, s, more, t, part, e)
  BY <1>5, <1>6, <1>8, <1>9 DEF Agree, Said, at
<1>11. QED BY <1>10 DEF more, before, at, t

(* A block the client has open ends.                                       *)
LEMMA AgreesClose ==
  ASSUME NEW blocks, NEW s, Agree(blocks, s), NEW at \in s.open
  PROVE  LET t == See(s, FrameClose(at))
         IN  Agree(blocks, t) /\ t.open = s.open \ {at} /\ t.ends = s.ends
<1> DEFINE t == See(s, FrameClose(at))
           open == s.open \ {at}
           stray == s.stray \/ at \notin s.open
<1>1. SeenTyped(s) /\ s.blocks = blocks /\ ~s.stray /\ Assembled(blocks)
  BY DEF Agree
<1>2. t = [s EXCEPT !.open = open, !.stray = stray]
  BY DEF See, FrameClose
<1>3. ~stray
  BY <1>1
<1> HIDE DEF t, open, stray
<1>4. t.blocks = blocks /\ t.open = open /\ t.ends = s.ends /\ ~t.stray /\ SeenTyped(t)
  BY <1>1, <1>2, <1>3 DEF SeenTyped
<1>5. QED BY <1>1, <1>4 DEF Agree, t, open

(* What an event of a lawful stream does to the view.                      *)
LEMMA LawfulEvent ==
  ASSUME NEW v, LawfulView(v), NEW e, Legal(v, e, TRUE)
  PROVE  /\ e.type \in {"response.started", "opened", "delta", "completed", "usage.updated",
                        "response.completed", "response.failed"}
         /\ e.type = "opened" =>
              /\ e.index \notin DOMAIN v.kinds /\ e.kind \in BlockKinds
              /\ DOMAIN After(v, e).kinds = DOMAIN v.kinds \cup {e.index}
              /\ After(v, e).kinds[e.index] = e.kind
              /\ \A i \in DOMAIN v.kinds : After(v, e).kinds[i] = v.kinds[i]
              /\ After(v, e).open = v.open \cup {e.index}
         /\ e.type = "delta" =>
              /\ e.index \in v.open /\ e.part \in PartName /\ v.kinds[e.index] \in KindOf(e.part)
         /\ e.type = "completed" =>
              e.index \in v.open /\ After(v, e).open = v.open \ {e.index}
         /\ e.type # "opened" => After(v, e).kinds = v.kinds
         /\ e.type \notin {"opened", "completed"} => After(v, e).open = v.open
<1>1. v \in View /\ DOMAIN v.kinds = v.open \cup v.closed
  BY DEF LawfulView
<1>2. /\ e.type \in {"response.started", "opened", "delta", "completed", "usage.updated",
                     "response.completed", "response.failed"}
      /\ e.type = "opened" =>
           /\ e.kind \in BlockKinds
           /\ DOMAIN After(v, e).kinds = DOMAIN v.kinds \cup {e.index}
           /\ After(v, e).kinds[e.index] = e.kind
           /\ \A i \in DOMAIN v.kinds : i # e.index => After(v, e).kinds[i] = v.kinds[i]
      /\ e.type # "opened" => After(v, e).kinds = v.kinds
      /\ e.type = "delta" => e.part \in PartName /\ v.kinds[e.index] \in KindOf(e.part)
  BY <1>1, EventsMove
<1>3. /\ e.type = "opened" => e.index \notin v.open \cup v.closed
      /\ e.type \in {"delta", "completed"} => e.index \in v.open
  BY DEF Legal, Started, Opened, Delta, Closed, Usage, Completed, Failed
<1>4. /\ e.type = "opened" => After(v, e).open = v.open \cup {e.index}
      /\ e.type = "completed" => After(v, e).open = v.open \ {e.index}
      /\ e.type \notin {"opened", "completed"} => After(v, e).open = v.open
  BY <1>1, <1>2 DEF After, View
<1>5. QED BY <1>1, <1>2, <1>3, <1>4

(* Answer and client have moved together.                                  *)
Moved(a, s, b, t, e) ==
  /\ Agree(b.blocks, t) /\ Grown(a.blocks, b.blocks, e)
  /\ b.end = a.end /\ t.ends = s.ends

(* Nothing to tell: neither the answer nor the client changes.             *)
LEMMA MovedNowhere ==
  ASSUME NEW a, NEW s, Agree(a.blocks, s), NEW e,
         e.type \notin {"opened", "delta"} \/ (e.type = "opened" /\ e.kind # "tool_call")
           \/ (e.type = "delta" /\ e.part \notin {"text", "arguments"})
  PROVE  Moved(a, s, a, s, e)
<1>1. Assembled(a.blocks)
  BY DEF Agree
<1>2. Grown(a.blocks, a.blocks, e)
  BY <1>1, GrownByNothing
<1>3. QED BY <1>2 DEF Moved

(* No frame shows nothing, and one frame is seen.                          *)
LEMMA NoFrame ==
  ASSUME NEW s
  PROVE  SeesAll(s, <<>>) = s /\ \A f : SeesAll(s, <<f>>) = See(s, f)
BY DEF SeesAll

(* The Messages protocol has no block for unsigned reasoning.              *)
ShowsMessages(blocks, told, open, v) ==
  /\ DOMAIN blocks = {i \in DOMAIN v.kinds : v.kinds[i] # "summary"}
  /\ \A i \in DOMAIN blocks : blocks[i].kind = v.kinds[i]
  /\ open = {i \in v.open : v.kinds[i] # "summary"} /\ told = open

(* The Messages protocol: one case for each type of event.                 *)
LEMMA ShowingMessages ==
  ASSUME NEW a, NEW s, NEW told, NEW v, LawfulView(v), NEW e, Legal(v, e, TRUE),
         e.type \notin {"response.completed", "response.failed"},
         AnswerTyped(a), Agree(a.blocks, s), s.ends = <<>>,
         ShowsMessages(a.blocks, told, s.open, v)
  PROVE  LET b == CollectMessages(a, e)
             t == SeesAll(s, MessagesFrames(told, e))
         IN  /\ Moved(a, s, b, t, e)
             /\ ShowsMessages(b.blocks, Emitted(told, e), t.open, After(v, e))
<1> DEFINE b == CollectMessages(a, e)
           fs == MessagesFrames(told, e)
           t == SeesAll(s, fs)
           w == After(v, e)
           more == Emitted(told, e)
<1>1. /\ e.type \in {"response.started", "opened", "delta", "completed", "usage.updated"}
      /\ e.type = "opened" =>
           /\ e.index \notin DOMAIN v.kinds /\ e.kind \in BlockKinds
           /\ DOMAIN w.kinds = DOMAIN v.kinds \cup {e.index}
           /\ w.kinds[e.index] = e.kind
           /\ \A i \in DOMAIN v.kinds : w.kinds[i] = v.kinds[i]
           /\ w.open = v.open \cup {e.index}
      /\ e.type = "delta" =>
           /\ e.index \in v.open /\ e.part \in PartName /\ v.kinds[e.index] \in KindOf(e.part)
      /\ e.type = "completed" => e.index \in v.open /\ w.open = v.open \ {e.index}
      /\ e.type # "opened" => w.kinds = v.kinds
      /\ e.type \notin {"opened", "completed"} => w.open = v.open
  BY LawfulEvent
<1>2. /\ DOMAIN a.blocks = {i \in DOMAIN v.kinds : v.kinds[i] # "summary"}
      /\ \A i \in DOMAIN a.blocks : a.blocks[i].kind = v.kinds[i]
      /\ s.open = {i \in v.open : v.kinds[i] # "summary"} /\ told = s.open
  BY DEF ShowsMessages
<1>3. v.open \subseteq DOMAIN v.kinds
  BY DEF LawfulView
<1>4. a \in [blocks : {a.blocks}, tools : {a.tools}, end : {a.end}, thrown : {FALSE}]
  BY DEF AnswerTyped
<1> HIDE DEF b, fs, t, w, more
<1>5. Moved(a, s, b, t, e) /\ ShowsMessages(b.blocks, more, t.open, w)
  <2>1. CASE e.type \in {"response.started", "usage.updated"}
    <3>1. b = a /\ fs = <<>> /\ more = told
      BY <2>1 DEF CollectMessages, MessagesFrames, Ended, LastFrames, Emitted, b, fs, more
    <3>2. t = s
      BY <3>1, NoFrame DEF t
    <3>3. ShowsMessages(a.blocks, told, s.open, w)
      BY <1>1, <1>2, <2>1 DEF ShowsMessages
    <3>4. QED BY <2>1, <3>1, <3>2, <3>3, MovedNowhere
  <2>2. CASE e.type = "opened" /\ e.kind = "summary"
    <3>1. b = a /\ fs = <<>> /\ more = told
      BY <2>2 DEF CollectMessages, MessagesFrames, Emitted, b, fs, more
    <3>2. t = s
      BY <3>1, NoFrame DEF t
    <3>3. ShowsMessages(a.blocks, told, s.open, w)
      BY <1>1, <1>2, <1>3, <2>2 DEF ShowsMessages
    <3>4. QED BY <2>2, <3>1, <3>2, <3>3, MovedNowhere
  <2>3. CASE e.type = "opened" /\ e.kind # "summary"
    <3> DEFINE blocks == With(a.blocks, e.index, Empty(e.kind))
    <3>1. b = [a EXCEPT !.blocks = blocks] /\ fs = <<FrameOpen(e.index, e.kind)>>
          /\ more = told \cup {e.index}
      BY <2>3 DEF CollectMessages, MessagesFrames, Emitted, b, fs, more
    <3>2. t = See(s, FrameOpen(e.index, e.kind))
      BY <3>1, NoFrame DEF t
    <3>3. PICK kind \in AnswerKinds : kind = e.kind
      BY <1>1, <2>3 DEF AnswerKinds
    <3>4. e.index \notin DOMAIN a.blocks
      BY <1>1, <1>2, <2>3
    <3>5. /\ Agree(blocks, t) /\ Grown(a.blocks, blocks, e)
          /\ Begun(a.blocks, e.index, kind, blocks)
          /\ t.open = s.open \cup {e.index} /\ t.ends = s.ends
      BY <2>3, <3>2, <3>3, <3>4, AgreesOpen
    <3> HIDE DEF blocks
    <3>6. b.blocks = blocks /\ b.end = a.end
      BY <1>4, <3>1
    <3>7. /\ DOMAIN blocks = DOMAIN a.blocks \cup {e.index} /\ blocks[e.index].kind = e.kind
          /\ \A i \in DOMAIN a.blocks : blocks[i] = a.blocks[i]
      BY <3>3, <3>5 DEF Begun
    <3>8. ShowsMessages(blocks, more, t.open, w)
      BY <1>1, <1>2, <1>3, <2>3, <3>1, <3>5, <3>7 DEF ShowsMessages
    <3>9. QED BY <3>5, <3>6, <3>8 DEF Moved
  <2>4. CASE e.type = "delta" /\ v.kinds[e.index] = "summary"
    <3>1. e.part \in {"reasoning", "signature"} /\ e.index \notin DOMAIN a.blocks
      BY <1>1, <1>2, <2>4 DEF KindOf, PartName
    <3>2. b = a /\ fs = <<>> /\ more = told
      BY <1>2, <2>4, <3>1 DEF CollectMessages, IsA, MessagesFrames, Shown, NotReasoning, Emitted,
                              b, fs, more
    <3>3. t = s
      BY <3>2, NoFrame DEF t
    <3>4. ShowsMessages(a.blocks, told, s.open, w)
      BY <1>1, <1>2, <2>4 DEF ShowsMessages
    <3>5. QED BY <2>4, <3>1, <3>2, <3>3, <3>4, MovedNowhere
  <2>5. CASE e.type = "delta" /\ v.kinds[e.index] # "summary"
    <3> DEFINE blocks == Plus(a.blocks, e.index, e.part)
    <3>1. /\ e.index \in DOMAIN a.blocks /\ e.index \in s.open /\ e.index \in told
          /\ a.blocks[e.index].kind \in KindOf(e.part) /\ a.blocks[e.index].kind # "summary"
      BY <1>1, <1>2, <1>3, <2>5
    <3>2. b = [a EXCEPT !.blocks = blocks]
      BY <1>1, <2>5, <3>1 DEF CollectMessages, Extended, IsA, KindOf, PartName, b
    <3>3. fs = <<FrameDelta(e.index, e.part)>> /\ more = told
      BY <2>5, <3>1 DEF MessagesFrames, Shown, Emitted, fs, more
    <3>4. t = See(s, FrameDelta(e.index, e.part))
      BY <3>3, NoFrame DEF t
    <3>5. PICK part \in PartName : part = e.part
      BY <1>1, <2>5
    <3>6. /\ Agree(blocks, t) /\ Grown(a.blocks, blocks, e) /\ DOMAIN blocks = DOMAIN a.blocks
          /\ \A x \in DOMAIN a.blocks : blocks[x].kind = a.blocks[x].kind
          /\ t.open = s.open /\ t.ends = s.ends
      BY <2>5, <3>1, <3>4, <3>5, AgreesDelta
    <3> HIDE DEF blocks
    <3>7. b.blocks = blocks /\ b.end = a.end
      BY <1>4, <3>2
    <3>8. ShowsMessages(blocks, more, t.open, w)
      BY <1>1, <1>2, <2>5, <3>3, <3>6 DEF ShowsMessages
    <3>9. QED BY <3>6, <3>7, <3>8 DEF Moved
  <2>6. CASE e.type = "completed"
    <3>1. b = a /\ more = told \ {e.index}
      BY <2>6 DEF CollectMessages, Ended, Emitted, b, more
    <3>2. Agree(a.blocks, t) /\ t.open = s.open \ {e.index} /\ t.ends = s.ends
      <4>1. CASE e.index \in told
        <5>1. fs = <<FrameClose(e.index)>>
          BY <2>6, <4>1 DEF MessagesFrames, fs
        <5>2. t = See(s, FrameClose(e.index)) /\ e.index \in s.open
          BY <1>2, <4>1, <5>1, NoFrame DEF t
        <5>3. QED BY <5>2, AgreesClose
      <4>2. CASE e.index \notin told
        <5>1. fs = <<>>
          BY <2>6, <4>2 DEF MessagesFrames, fs
        <5>2. t = s
          BY <5>1, NoFrame DEF t
        <5>3. QED BY <1>2, <4>2, <5>2
      <4>3. QED BY <4>1, <4>2
    <3>3. Grown(a.blocks, a.blocks, e)
      BY <2>6, GrownByNothing DEF Agree
    <3>4. ShowsMessages(a.blocks, more, t.open, w)
      BY <1>1, <1>2, <2>6, <3>1, <3>2 DEF ShowsMessages
    <3>5. QED BY <3>1, <3>2, <3>3, <3>4 DEF Moved
  <2>7. QED BY <1>1, <2>1, <2>2, <2>3, <2>4, <2>5, <2>6
<1>6. QED BY <1>5 DEF b, fs, t, w, more

(* The Responses protocol shows every block where it is.                   *)
ShowsResponses(blocks, open, v) ==
  /\ DOMAIN blocks = DOMAIN v.kinds /\ \A i \in DOMAIN blocks : blocks[i].kind = v.kinds[i]
  /\ open = v.open

(* The Responses protocol: one case for each type of event.                *)
LEMMA ShowingResponses ==
  ASSUME NEW a, NEW s, NEW v, LawfulView(v), NEW e, Legal(v, e, TRUE),
         e.type \notin {"response.completed", "response.failed"},
         AnswerTyped(a), Agree(a.blocks, s), s.ends = <<>>,
         ShowsResponses(a.blocks, s.open, v)
  PROVE  LET b == CollectResponses(a, e)
             t == SeesAll(s, ResponsesFrames(b, e))
         IN  Moved(a, s, b, t, e) /\ ShowsResponses(b.blocks, t.open, After(v, e))
<1> DEFINE b == CollectResponses(a, e)
           fs == ResponsesFrames(b, e)
           t == SeesAll(s, fs)
           w == After(v, e)
<1>1. /\ e.type \in {"response.started", "opened", "delta", "completed", "usage.updated"}
      /\ e.type = "opened" =>
           /\ e.index \notin DOMAIN v.kinds /\ e.kind \in BlockKinds
           /\ DOMAIN w.kinds = DOMAIN v.kinds \cup {e.index}
           /\ w.kinds[e.index] = e.kind
           /\ \A i \in DOMAIN v.kinds : w.kinds[i] = v.kinds[i]
           /\ w.open = v.open \cup {e.index}
      /\ e.type = "delta" =>
           /\ e.index \in v.open /\ e.part \in PartName /\ v.kinds[e.index] \in KindOf(e.part)
      /\ e.type = "completed" => e.index \in v.open /\ w.open = v.open \ {e.index}
      /\ e.type # "opened" => w.kinds = v.kinds
      /\ e.type \notin {"opened", "completed"} => w.open = v.open
  BY LawfulEvent
<1>2. /\ DOMAIN a.blocks = DOMAIN v.kinds
      /\ \A i \in DOMAIN a.blocks : a.blocks[i].kind = v.kinds[i]
      /\ s.open = v.open
  BY DEF ShowsResponses
<1>3. v.open \subseteq DOMAIN v.kinds
  BY DEF LawfulView
<1>4. a \in [blocks : {a.blocks}, tools : {a.tools}, end : {a.end}, thrown : {FALSE}]
  BY DEF AnswerTyped
<1> HIDE DEF b, fs, t, w
<1>5. Moved(a, s, b, t, e) /\ ShowsResponses(b.blocks, t.open, w)
  <2>1. CASE e.type \in {"response.started", "usage.updated"}
    <3>1. b = a /\ fs = <<>>
      BY <2>1 DEF CollectResponses, ResponsesFrames, Ended, LastFrames, b, fs
    <3>2. t = s
      BY <3>1, NoFrame DEF t
    <3>3. ShowsResponses(a.blocks, s.open, w)
      BY <1>1, <1>2, <2>1 DEF ShowsResponses
    <3>4. QED BY <2>1, <3>1, <3>2, <3>3, MovedNowhere
  <2>2. CASE e.type = "opened"
    <3> DEFINE blocks == With(a.blocks, e.index, Empty(e.kind))
    <3>1. b = [a EXCEPT !.blocks = blocks] /\ fs = <<FrameOpen(e.index, e.kind)>>
      BY <2>2 DEF CollectResponses, ResponsesFrames, b, fs
    <3>2. t = See(s, FrameOpen(e.index, e.kind))
      BY <3>1, NoFrame DEF t
    <3>3. PICK kind \in AnswerKinds : kind = e.kind
      BY <1>1, <2>2 DEF AnswerKinds
    <3>4. e.index \notin DOMAIN a.blocks
      BY <1>1, <1>2, <2>2
    <3>5. /\ Agree(blocks, t) /\ Grown(a.blocks, blocks, e)
          /\ Begun(a.blocks, e.index, kind, blocks)
          /\ t.open = s.open \cup {e.index} /\ t.ends = s.ends
      BY <2>2, <3>2, <3>3, <3>4, AgreesOpen
    <3> HIDE DEF blocks
    <3>6. b.blocks = blocks /\ b.end = a.end
      BY <1>4, <3>1
    <3>7. /\ DOMAIN blocks = DOMAIN a.blocks \cup {e.index} /\ blocks[e.index].kind = e.kind
          /\ \A i \in DOMAIN a.blocks : blocks[i] = a.blocks[i]
      BY <3>3, <3>5 DEF Begun
    <3>8. ShowsResponses(blocks, t.open, w)
      BY <1>1, <1>2, <2>2, <3>5, <3>7 DEF ShowsResponses
    <3>9. QED BY <3>5, <3>6, <3>8 DEF Moved
  <2>3. CASE e.type = "delta" /\ e.part = "signature"
    <3>1. b = a /\ fs = <<>>
      BY <2>3 DEF CollectResponses, ResponsesFrames, Ended, b, fs
    <3>2. t = s
      BY <3>1, NoFrame DEF t
    <3>3. ShowsResponses(a.blocks, s.open, w)
      BY <1>1, <1>2, <2>3 DEF ShowsResponses
    <3>4. QED BY <2>3, <3>1, <3>2, <3>3, MovedNowhere
  <2>4. CASE e.type = "delta" /\ e.part # "signature"
    <3> DEFINE blocks == Plus(a.blocks, e.index, e.part)
    <3>1. /\ e.index \in DOMAIN a.blocks /\ e.index \in s.open
          /\ a.blocks[e.index].kind \in KindOf(e.part)
      BY <1>1, <1>2, <1>3, <2>4
    <3>2. b = [a EXCEPT !.blocks = blocks]
      BY <2>4, <3>1 DEF CollectResponses, Extended, IsA, b
    <3>3. fs = <<FrameDelta(e.index, e.part)>>
      BY <2>4 DEF ResponsesFrames, fs
    <3>4. t = See(s, FrameDelta(e.index, e.part))
      BY <3>3, NoFrame DEF t
    <3>5. PICK part \in PartName : part = e.part
      BY <1>1, <2>4
    <3>6. /\ Agree(blocks, t) /\ Grown(a.blocks, blocks, e) /\ DOMAIN blocks = DOMAIN a.blocks
          /\ \A x \in DOMAIN a.blocks : blocks[x].kind = a.blocks[x].kind
          /\ t.open = s.open /\ t.ends = s.ends
      BY <2>4, <3>1, <3>4, <3>5, AgreesDelta
    <3> HIDE DEF blocks
    <3>7. b.blocks = blocks /\ b.end = a.end
      BY <1>4, <3>2
    <3>8. ShowsResponses(blocks, t.open, w)
      BY <1>1, <1>2, <2>4, <3>6 DEF ShowsResponses
    <3>9. QED BY <3>6, <3>7, <3>8 DEF Moved
  <2>5. CASE e.type = "completed"
    <3>1. b = a /\ fs = <<FrameClose(e.index)>>
      <4>1. /\ e.index \in DOMAIN a.blocks /\ a.blocks[e.index].kind = v.kinds[e.index]
            /\ v.kinds[e.index] \in BlockKinds
            /\ e.of = "tool_call" <=> v.kinds[e.index] = "tool_call"
        <5>1. v \in View
          BY DEF LawfulView
        <5>2. /\ e.index \in DOMAIN v.kinds
              /\ e.of = "tool_call" <=> v.kinds[e.index] = "tool_call"
          BY <2>5, <5>1, EventsMove
        <5>3. v.kinds[e.index] \in BlockKinds
          BY <5>1, <5>2 DEF View
        <5>4. QED BY <1>2, <5>2, <5>3
      <4>2. b = a
        BY <2>5, <4>1 DEF CollectResponses, Ended, IsA, b
      <4>3. QED BY <2>5, <4>1, <4>2 DEF ResponsesFrames, IsA, BlockKinds, fs
    <3>2. t = See(s, FrameClose(e.index)) /\ e.index \in s.open
      BY <1>1, <1>2, <2>5, <3>1, NoFrame DEF t
    <3>3. Agree(a.blocks, t) /\ t.open = s.open \ {e.index} /\ t.ends = s.ends
      BY <3>2, AgreesClose
    <3>4. Grown(a.blocks, a.blocks, e)
      BY <2>5, GrownByNothing DEF Agree
    <3>5. ShowsResponses(a.blocks, t.open, w)
      BY <1>1, <1>2, <2>5, <3>3 DEF ShowsResponses
    <3>6. QED BY <3>1, <3>3, <3>4, <3>5 DEF Moved
  <2>6. QED BY <1>1, <2>1, <2>2, <2>3, <2>4, <2>5
<1>6. QED BY <1>5 DEF b, fs, t, w

(* A chat answer has its texts at -1 and -2 and its calls at 0, 1, ...     *)
ShowsChat(blocks, tools, open, v) ==
  /\ IsFiniteSet(DOMAIN tools)
  /\ DOMAIN tools = {i \in DOMAIN v.kinds : v.kinds[i] = "tool_call"}
  /\ open = {tools[i] : i \in DOMAIN tools}
  /\ \A i \in DOMAIN tools :
       /\ tools[i] \in Nat /\ tools[i] < Cardinality(DOMAIN tools)
       /\ tools[i] \in DOMAIN blocks /\ blocks[tools[i]].kind = "tool_call"
  /\ \A at \in DOMAIN blocks :
       at \in {-1, -2} \/ (at \in Nat /\ at < Cardinality(DOMAIN tools))
  /\ \A part \in {"text", "reasoning"} :
       ChatAt(part) \in DOMAIN blocks => blocks[ChatAt(part)].kind = part

(* The chat protocol: a call takes the place after the last one.           *)
LEMMA ShowingChat ==
  ASSUME NEW a, NEW s, NEW v, LawfulView(v), NEW e, Legal(v, e, TRUE),
         e.type \notin {"response.completed", "response.failed"},
         AnswerTyped(a), Agree(a.blocks, s), s.ends = <<>>,
         ShowsChat(a.blocks, a.tools, s.open, v)
  PROVE  LET b == CollectChat(a, e)
             t == SeesAll(s, ChatFrames(b, e))
         IN  Moved(a, s, b, t, e) /\ ShowsChat(b.blocks, b.tools, t.open, After(v, e))
<1> DEFINE b == CollectChat(a, e)
           fs == ChatFrames(b, e)
           t == SeesAll(s, fs)
           w == After(v, e)
<1>1. /\ e.type \in {"response.started", "opened", "delta", "completed", "usage.updated"}
      /\ e.type = "opened" =>
           /\ e.index \notin DOMAIN v.kinds /\ e.kind \in BlockKinds
           /\ DOMAIN w.kinds = DOMAIN v.kinds \cup {e.index}
           /\ w.kinds[e.index] = e.kind
           /\ \A i \in DOMAIN v.kinds : w.kinds[i] = v.kinds[i]
      /\ e.type = "delta" =>
           /\ e.index \in v.open /\ e.part \in PartName /\ v.kinds[e.index] \in KindOf(e.part)
      /\ e.type # "opened" => w.kinds = v.kinds
  BY LawfulEvent
<1>2. /\ IsFiniteSet(DOMAIN a.tools)
      /\ DOMAIN a.tools = {i \in DOMAIN v.kinds : v.kinds[i] = "tool_call"}
      /\ s.open = {a.tools[i] : i \in DOMAIN a.tools}
      /\ \A i \in DOMAIN a.tools :
           /\ a.tools[i] \in Nat /\ a.tools[i] < Cardinality(DOMAIN a.tools)
           /\ a.tools[i] \in DOMAIN a.blocks /\ a.blocks[a.tools[i]].kind = "tool_call"
      /\ \A at \in DOMAIN a.blocks :
           at \in {-1, -2} \/ (at \in Nat /\ at < Cardinality(DOMAIN a.tools))
      /\ \A part \in {"text", "reasoning"} :
           ChatAt(part) \in DOMAIN a.blocks => a.blocks[ChatAt(part)].kind = part
  BY DEF ShowsChat
<1>3. v.open \subseteq DOMAIN v.kinds
  BY DEF LawfulView
<1>4. a \in [blocks : {a.blocks}, tools : {a.tools}, end : {a.end}, thrown : {FALSE}]
  BY DEF AnswerTyped
<1>5. Cardinality(DOMAIN a.tools) \in Nat
  BY <1>2, FS_CardinalityType
<1> HIDE DEF b, fs, t, w
<1>6. ASSUME {i \in DOMAIN w.kinds : w.kinds[i] = "tool_call"} = DOMAIN a.tools
      PROVE  ShowsChat(a.blocks, a.tools, s.open, w)
  BY <1>2, <1>6 DEF ShowsChat
<1>7. Moved(a, s, b, t, e) /\ ShowsChat(b.blocks, b.tools, t.open, w)
  <2>1. CASE \/ e.type \in {"response.started", "usage.updated", "completed"}
             \/ e.type = "opened" /\ e.kind # "tool_call"
             \/ e.type = "delta" /\ e.part = "signature"
    <3>1. b = a /\ fs = <<>>
      BY <2>1 DEF CollectChat, ChatFrames, Ended, LastFrames, b, fs
    <3>2. t = s
      BY <3>1, NoFrame DEF t
    <3>3. {i \in DOMAIN w.kinds : w.kinds[i] = "tool_call"} = DOMAIN a.tools
      <4>1. CASE e.type = "opened"
        BY <1>1, <1>2, <2>1, <4>1
      <4>2. CASE e.type # "opened"
        BY <1>1, <1>2, <4>2
      <4>3. QED BY <4>1, <4>2
    <3>4. QED BY <1>6, <2>1, <3>1, <3>2, <3>3, MovedNowhere
  <2>2. CASE e.type = "opened" /\ e.kind = "tool_call"
    <3> DEFINE at == Cardinality(DOMAIN a.tools)
               blocks == With(a.blocks, at, Empty("tool_call"))
               tools == With(a.tools, e.index, at)
    <3>1. b = [a EXCEPT !.tools = tools, !.blocks = blocks]
      BY <2>2 DEF CollectChat, b
    <3>2. /\ DOMAIN tools = DOMAIN a.tools \cup {e.index} /\ tools[e.index] = at
          /\ e.index \notin DOMAIN a.tools /\ \A i \in DOMAIN a.tools : tools[i] = a.tools[i]
      BY <1>1, <1>2, <2>2 DEF With
    <3>3. at \notin DOMAIN a.blocks /\ at \in Nat
      <4>1. at \in Nat
        BY <1>5
      <4>2. \A x \in DOMAIN a.blocks : x \in {-1, -2} \/ (x \in Nat /\ x < at)
        BY <1>2
      <4> HIDE DEF at
      <4>3. QED BY <4>1, <4>2
    <3>4. IsFiniteSet(DOMAIN tools) /\ Cardinality(DOMAIN tools) = at + 1
      <4> HIDE DEF tools
      <4>1. /\ IsFiniteSet(DOMAIN a.tools \cup {e.index})
            /\ Cardinality(DOMAIN a.tools \cup {e.index}) = Cardinality(DOMAIN a.tools) + 1
        BY <1>2, <3>2, FS_AddElement
      <4>2. QED BY <3>2, <4>1
    <3> HIDE DEF at, tools
    <3>5. b.blocks = blocks /\ b.end = a.end /\ b.tools = tools
      <4> HIDE DEF blocks
      <4>1. QED BY <1>4, <3>1
    <3>6. fs = <<FrameOpen(at, "tool_call")>>
      BY <2>2, <3>2, <3>5 DEF ChatFrames, fs
    <3>7. t = See(s, FrameOpen(at, "tool_call"))
      BY <3>6, NoFrame DEF t
    <3>8. PICK kind \in AnswerKinds : kind = "tool_call"
      BY DEF AnswerKinds, BlockKinds
    <3>9. /\ Agree(blocks, t) /\ Grown(a.blocks, blocks, e)
          /\ Begun(a.blocks, at, kind, blocks)
          /\ t.open = s.open \cup {at} /\ t.ends = s.ends
      BY <2>2, <3>3, <3>7, <3>8, AgreesOpen
    <3> HIDE DEF blocks
    <3>10. /\ DOMAIN blocks = DOMAIN a.blocks \cup {at} /\ blocks[at].kind = "tool_call"
           /\ \A i \in DOMAIN a.blocks : blocks[i] = a.blocks[i]
      BY <3>8, <3>9 DEF Begun
    <3>11. t.open = {tools[i] : i \in DOMAIN tools}
      BY <1>2, <3>2, <3>9
    <3>12. DOMAIN tools = {i \in DOMAIN w.kinds : w.kinds[i] = "tool_call"}
      BY <1>1, <1>2, <2>2, <3>2
    <3>13. \A i \in DOMAIN tools :
             /\ tools[i] \in Nat /\ tools[i] < Cardinality(DOMAIN tools)
             /\ tools[i] \in DOMAIN blocks /\ blocks[tools[i]].kind = "tool_call"
      <4> SUFFICES ASSUME NEW i \in DOMAIN tools
                   PROVE  /\ tools[i] \in Nat /\ tools[i] < Cardinality(DOMAIN tools)
                          /\ tools[i] \in DOMAIN blocks /\ blocks[tools[i]].kind = "tool_call"
        OBVIOUS
      <4>1. CASE i = e.index
        BY <3>2, <3>3, <3>4, <3>10, <4>1
      <4>2. CASE i \in DOMAIN a.tools
        <5>1. tools[i] \in Nat /\ tools[i] < at
          BY <1>2, <3>2, <4>2 DEF at
        <5>2. tools[i] \in DOMAIN blocks /\ blocks[tools[i]].kind = "tool_call"
          <6>1. PICK x : x = a.tools[i] /\ x \in DOMAIN a.blocks /\ a.blocks[x].kind = "tool_call"
            BY <1>2, <4>2
          <6>2. tools[i] = x
            BY <3>2, <4>2, <6>1
          <6>3. x \in DOMAIN blocks /\ blocks[x] = a.blocks[x]
            BY <3>10, <6>1
          <6>4. QED BY <6>1, <6>2, <6>3
        <5>3. QED BY <3>3, <3>4, <5>1, <5>2
      <4>3. QED BY <3>2, <4>1, <4>2
    <3>14. \A x \in DOMAIN blocks :
             x \in {-1, -2} \/ (x \in Nat /\ x < Cardinality(DOMAIN tools))
      <4> SUFFICES ASSUME NEW x \in DOMAIN blocks, x \notin {-1, -2}
                   PROVE  x \in Nat /\ x < Cardinality(DOMAIN tools)
        OBVIOUS
      <4>1. x = at \/ (x \in Nat /\ x < at)
        BY <1>2, <3>10 DEF at
      <4>2. QED BY <3>3, <3>4, <4>1
    <3>15. \A part \in {"text", "reasoning"} :
             ChatAt(part) \in DOMAIN blocks => blocks[ChatAt(part)].kind = part
      <4>1. \A part \in {"text", "reasoning"} : ChatAt(part) # at
        BY <3>3 DEF ChatAt
      <4>2. QED BY <1>2, <3>10, <4>1
    <3>16. ShowsChat(blocks, tools, t.open, w)
      BY <3>4, <3>11, <3>12, <3>13, <3>14, <3>15 DEF ShowsChat
    <3>17. QED BY <3>5, <3>9, <3>16 DEF Moved
  <2>3. CASE e.type = "delta" /\ e.part \in {"text", "reasoning"}
    <3> DEFINE at == ChatAt(e.part)
               blocks == Plus(Orelse(a.blocks, at, e.part), at, e.part)
    <3>1. b = [a EXCEPT !.blocks = blocks]
      BY <2>3 DEF CollectChat, b
    <3>2. fs = <<FrameSay(e.part)>>
      BY <2>3 DEF ChatFrames, fs
    <3>3. t = See(s, FrameSay(e.part))
      BY <3>2, NoFrame DEF t
    <3>4. PICK part \in {"text", "reasoning"} : part = e.part
      BY <2>3
    <3>5. Said(a.blocks, s, blocks, t, part, e)
      <4>1. /\ blocks = Plus(Orelse(a.blocks, ChatAt(part), part), ChatAt(part), part)
            /\ t = See(s, FrameSay(part)) /\ e.type = "delta" /\ e.part = part
        BY <2>3, <3>3, <3>4
      <4>2. ChatAt(part) \in DOMAIN a.blocks => a.blocks[ChatAt(part)].kind = part
        BY <1>2
      <4> HIDE DEF blocks, at
      <4>3. QED BY <4>1, <4>2, AgreesSay
    <3>6. /\ Agree(blocks, t) /\ Grown(a.blocks, blocks, e)
          /\ DOMAIN blocks = DOMAIN a.blocks \cup {at} /\ blocks[at].kind = part
          /\ \A x \in DOMAIN a.blocks : blocks[x].kind = a.blocks[x].kind
          /\ t.open = s.open /\ t.ends = s.ends
      <4> HIDE DEF blocks
      <4>1. QED BY <3>4, <3>5 DEF Said
    <3> HIDE DEF blocks
    <3>7. b.blocks = blocks /\ b.end = a.end /\ b.tools = a.tools
      BY <1>4, <3>1
    <3>8. at \in {-1, -2}
      BY <2>3 DEF ChatAt
    <3>9. \A q \in {"text", "reasoning"} :
            ChatAt(q) \in DOMAIN blocks => blocks[ChatAt(q)].kind = q
      <4>1. \A q \in {"text", "reasoning"} : ChatAt(q) = at => q = part
        BY <3>4 DEF ChatAt
      <4>2. QED BY <1>2, <3>6, <4>1
    <3> HIDE DEF at
    <3>10. \A i \in DOMAIN a.tools :
             /\ a.tools[i] \in Nat /\ a.tools[i] < Cardinality(DOMAIN a.tools)
             /\ a.tools[i] \in DOMAIN blocks /\ blocks[a.tools[i]].kind = "tool_call"
      BY <1>2, <3>6
    <3>11. \A x \in DOMAIN blocks :
             x \in {-1, -2} \/ (x \in Nat /\ x < Cardinality(DOMAIN a.tools))
      BY <1>2, <3>6, <3>8
    <3>12. t.open = {a.tools[i] : i \in DOMAIN a.tools} /\ w.kinds = v.kinds
      BY <1>1, <1>2, <2>3, <3>6
    <3>13. ShowsChat(blocks, a.tools, t.open, w)
      BY <1>2, <3>9, <3>10, <3>11, <3>12 DEF ShowsChat
    <3>14. Agree(blocks, t) /\ Grown(a.blocks, blocks, e) /\ t.ends = s.ends
      BY <3>6
    <3>15. QED BY <3>7, <3>13, <3>14 DEF Moved
  <2>4. CASE e.type = "delta" /\ e.part = "arguments"
    <3>1. e.index \in DOMAIN a.tools
      BY <1>1, <1>2, <1>3, <2>4 DEF KindOf
    <3> DEFINE at == a.tools[e.index]
               blocks == Plus(a.blocks, at, "arguments")
    <3>2. at \in DOMAIN a.blocks /\ a.blocks[at].kind = "tool_call" /\ at \in s.open
      BY <1>2, <3>1
    <3>3. b = [a EXCEPT !.blocks = blocks]
      BY <2>4, <3>1, <3>2 DEF CollectChat, Extended, IsA, b
    <3>4. b.blocks = blocks /\ b.end = a.end /\ b.tools = a.tools
      <4> HIDE DEF blocks
      <4>1. QED BY <1>4, <3>3
    <3>5. fs = <<FrameDelta(at, "arguments")>>
      BY <2>4, <3>4 DEF ChatFrames, fs
    <3>6. t = See(s, FrameDelta(at, "arguments"))
      BY <3>5, NoFrame DEF t
    <3>7. PICK part \in PartName : part = "arguments"
      BY DEF PartName
    <3> HIDE DEF at
    <3>8. /\ Agree(blocks, t) /\ Grown(a.blocks, blocks, e) /\ DOMAIN blocks = DOMAIN a.blocks
          /\ \A x \in DOMAIN a.blocks : blocks[x].kind = a.blocks[x].kind
          /\ t.open = s.open /\ t.ends = s.ends
      BY <2>4, <3>2, <3>6, <3>7, AgreesDelta
    <3> HIDE DEF blocks
    <3>9. ShowsChat(blocks, a.tools, t.open, w)
      BY <1>1, <1>2, <2>4, <3>8 DEF ShowsChat
    <3>10. QED BY <3>4, <3>8, <3>9 DEF Moved
  <2>5. QED BY <1>1, <2>1, <2>2, <2>3, <2>4 DEF PartName
<1>8. QED BY <1>7 DEF b, fs, t, w

(* What the client is shown of the answer, in its protocol.                *)
Shows(p, a, told, s, v) ==
  /\ Agree(a.blocks, s)
  /\ p = "messages" => ShowsMessages(a.blocks, told, s.open, v)
  /\ p = "chat" => ShowsChat(a.blocks, a.tools, s.open, v)
  /\ p = "responses" => ShowsResponses(a.blocks, s.open, v)

(* Every event but the last moves the answer and the client together.      *)
LEMMA Showing ==
  ASSUME NEW p \in Protocol, NEW a, NEW told, NEW s, NEW v, LawfulView(v), NEW e, Legal(v, e, TRUE),
         e.type \notin {"response.completed", "response.failed"},
         AnswerOK(p, a, v), Shows(p, a, told, s, v), s.ends = <<>>,
         NEW b, b = Collect(p, a, e), NEW t, t = SeesAll(s, Frames(p, b, told, e))
  PROVE  Moved(a, s, b, t, e) /\ Shows(p, b, Emitted(told, e), t, After(v, e))
<1>1. ~b.thrown
  BY Collecting DEF LawfulView
<1>2. AnswerTyped(a) /\ Agree(a.blocks, s)
  BY DEF AnswerOK, Shows
<1>3. CASE p = "messages"
  <2>1. b = CollectMessages(a, e) /\ t = SeesAll(s, MessagesFrames(told, e))
        /\ ShowsMessages(a.blocks, told, s.open, v)
    BY <1>1, <1>3 DEF Collect, Frames, Shows
  <2>2. Moved(a, s, b, t, e) /\ ShowsMessages(b.blocks, Emitted(told, e), t.open, After(v, e))
    BY <1>2, <2>1, ShowingMessages
  <2>3. QED BY <1>3, <2>2 DEF Shows, Moved
<1>4. CASE p = "chat"
  <2>1. b = CollectChat(a, e) /\ t = SeesAll(s, ChatFrames(b, e))
        /\ ShowsChat(a.blocks, a.tools, s.open, v)
    BY <1>1, <1>4 DEF Collect, Frames, Shows
  <2>2. Moved(a, s, b, t, e) /\ ShowsChat(b.blocks, b.tools, t.open, After(v, e))
    BY <1>2, <2>1, ShowingChat
  <2>3. QED BY <1>4, <2>2 DEF Shows, Moved
<1>5. CASE p = "responses"
  <2>1. b = CollectResponses(a, e) /\ t = SeesAll(s, ResponsesFrames(b, e))
        /\ ShowsResponses(a.blocks, s.open, v)
    BY <1>1, <1>5 DEF Collect, Frames, Shows
  <2>2. Moved(a, s, b, t, e) /\ ShowsResponses(b.blocks, t.open, After(v, e))
    BY <1>2, <2>1, ShowingResponses
  <2>3. QED BY <1>5, <2>2 DEF Shows, Moved
<1>6. QED BY <1>3, <1>4, <1>5 DEF Protocol

(* The reason an answer gives for its end, and the answer so ended.        *)
LastWord(e) == IF e.type = "response.completed" THEN e.reason ELSE "failed"

Concluded(a, b, t, e) == b.blocks = a.blocks /\ b.end = LastWord(e) /\ t.ends = <<b.end>>

(* The last event changes no block, and tells the client the reason.       *)
LEMMA ShowingEnd ==
  ASSUME NEW p \in Protocol, NEW a, NEW told, NEW s, NEW v, LawfulView(v), NEW e, Legal(v, e, TRUE),
         e.type \in {"response.completed", "response.failed"},
         AnswerOK(p, a, v), Shows(p, a, told, s, v), s.ends = <<>>,
         NEW b, b = Collect(p, a, e), NEW t, t = SeesAll(s, Frames(p, b, told, e))
  PROVE  Concluded(a, b, t, e) /\ Shows(p, b, Emitted(told, e), t, After(v, e))
<1> DEFINE reason == LastWord(e)
           ends == <<reason>>
           w == After(v, e)
<1>1. ~b.thrown
  BY Collecting DEF LawfulView
<1>2. AnswerTyped(a) /\ Agree(a.blocks, s)
  BY DEF AnswerOK, Shows
<1>3. reason \in Reason \cup {"failed", "error"}
  BY EventsMove DEF LawfulView, LastWord
<1>4. b = [a EXCEPT !.end = reason]
  BY DEF Collect, CollectMessages, CollectChat, CollectResponses, Ended, Protocol,
                     LastWord
<1>5. Frames(p, b, told, e) = <<FrameEnd(reason)>>
  BY <1>1 DEF Frames, MessagesFrames, ChatFrames, ResponsesFrames, LastFrames, Protocol,
                     LastWord
<1>6. t = See(s, FrameEnd(reason))
  BY <1>5, NoFrame
<1>7. t = [s EXCEPT !.ends = ends]
  BY <1>6 DEF See, FrameEnd
<1>8. SeenTyped(t)
  BY <1>2, <1>3, <1>6, SeesEnd DEF Agree
<1> HIDE DEF reason, ends
<1>9. b.blocks = a.blocks /\ b.tools = a.tools /\ b.end = reason
  BY <1>2, <1>4 DEF AnswerTyped
<1>10. t.blocks = s.blocks /\ t.open = s.open /\ t.stray = s.stray /\ t.ends = ends
  BY <1>2, <1>7 DEF Agree, SeenTyped
<1>11. Agree(b.blocks, t)
  BY <1>2, <1>8, <1>9, <1>10 DEF Agree
<1>12. w.kinds = v.kinds /\ w.open = v.open /\ Emitted(told, e) = told
  BY LawfulEvent DEF Emitted
<1> HIDE DEF w
<1>13. Shows(p, b, told, t, w)
  <2>1. ShowsMessages(a.blocks, told, s.open, v) => ShowsMessages(a.blocks, told, s.open, w)
    BY <1>12 DEF ShowsMessages
  <2>2. ShowsChat(a.blocks, a.tools, s.open, v) => ShowsChat(a.blocks, a.tools, s.open, w)
    BY <1>12 DEF ShowsChat
  <2>3. ShowsResponses(a.blocks, s.open, v) => ShowsResponses(a.blocks, s.open, w)
    BY <1>12 DEF ShowsResponses
  <2>4. QED BY <1>9, <1>10, <1>11, <2>1, <2>2, <2>3 DEF Shows
<1>14. Concluded(a, b, t, e)
  BY <1>9, <1>10 DEF Concluded, reason, ends
<1>15. QED BY <1>12, <1>13, <1>14 DEF w

(* The three accounts of an orderly stream: the collected answer, the      *)
(* client's, and the transcript's.                                         *)
Accounts(p, a, told, s, k, v) ==
  /\ LawfulView(v) /\ Shows(p, a, told, s, v) /\ Remembers(k, v)
  /\ Count(a.blocks, "text") = Count(k.blocks, "text")
  /\ Count(a.blocks, "arguments") = Noted(k.calls)
  /\ Calls(a.blocks) = Calls(k.blocks)
  /\ v.phase # "ended" => a.end = "none" /\ s.ends = <<>>
  /\ v.phase = "ended" => /\ s.ends = <<a.end>>
                          /\ a.end \notin {"none", "failed"} => v.open = {}

(* Every event of a lawful stream is taken by all three alike.             *)
LEMMA AccountsMove ==
  ASSUME NEW p \in Protocol, NEW a, NEW told, NEW s, NEW k, NEW v, AnswerOK(p, a, v),
         Accounts(p, a, told, s, k, v), v.phase # "ended", NEW e, Legal(v, e, TRUE),
         NEW b, b = Collect(p, a, e), NEW t, t = SeesAll(s, Frames(p, b, told, e))
  PROVE  Accounts(p, b, Emitted(told, e), t, Keep(k, e), After(v, e))
<1> DEFINE w == After(v, e)
           m == Keep(k, e)
           more == Emitted(told, e)
<1>1. /\ LawfulView(v) /\ Shows(p, a, told, s, v) /\ Remembers(k, v)
      /\ Count(a.blocks, "text") = Count(k.blocks, "text")
      /\ Count(a.blocks, "arguments") = Noted(k.calls)
      /\ Calls(a.blocks) = Calls(k.blocks)
      /\ a.end = "none" /\ s.ends = <<>>
  BY DEF Accounts
<1>2. LawfulView(w)
  BY <1>1, LawfulMoves
<1>3. KeptOf(k, m, w, e)
  BY <1>1, Keeps
<1>4. w.phase = "ended" <=> e.type \in {"response.completed", "response.failed"}
  <2>1. e.type \in {"response.started", "opened", "delta", "completed", "usage.updated",
                    "response.completed", "response.failed"}
    BY <1>1, LawfulEvent
  <2>2. QED BY <1>1, <2>1 DEF After, LawfulView, View
<1>5. CASE e.type \notin {"response.completed", "response.failed"}
  <2>1. Moved(a, s, b, t, e) /\ Shows(p, b, more, t, w)
    BY <1>1, <1>5, Showing
  <2>2. Grown(a.blocks, b.blocks, e) /\ b.end = "none" /\ t.ends = <<>>
    BY <1>1, <2>1 DEF Moved
  <2> HIDE DEF w, m, more
  <2>3. QED BY <1>1, <1>2, <1>3, <1>4, <1>5, <2>1, <2>2 DEF Accounts, Grown, KeptOf, w, m, more
<1>6. CASE e.type \in {"response.completed", "response.failed"}
  <2>1. Concluded(a, b, t, e) /\ Shows(p, b, more, t, w)
    BY <1>1, <1>6, ShowingEnd
  <2>2. TextOf(e) = 0 /\ ArgumentsOf(e) = 0 /\ CallOf(e) = 0
    BY <1>6 DEF TextOf, ArgumentsOf, CallOf, Bit
  <2>3. /\ Remembers(m, w) /\ Count(m.blocks, "text") = Count(k.blocks, "text")
        /\ Calls(m.blocks) = Calls(k.blocks) /\ Noted(m.calls) = Noted(k.calls)
    BY <1>1, <1>3, <2>2, NotedNumber DEF KeptOf
  <2>4. e.type = "response.completed" => w.open = {}
    <3>1. w.open = v.open
      BY <1>1, <1>6, LawfulEvent
    <3>2. e.type = "response.completed" => v.open = {}
      BY DEF Legal, Started, Opened, Delta, Closed, Usage, Completed, Failed
    <3>3. QED BY <3>1, <3>2
  <2> HIDE DEF w, m, more
  <2>5. QED BY <1>1, <1>2, <1>4, <1>6, <2>1, <2>3, <2>4
             DEF Accounts, Concluded, LastWord, w, m, more
<1>7. QED BY <1>5, <1>6

(* Recording the transcript changes no text of it.                         *)
LEMMA AccountsRecorded ==
  ASSUME NEW p, NEW a, NEW told, NEW s, NEW k, NEW v, Accounts(p, a, told, s, k, v), NEW done,
         NEW m, m = [k EXCEPT !.recorded = done]
  PROVE  Accounts(p, a, told, s, m, v) /\ m.recorded = done /\ Memory(m) = Memory(k)
<1>1. k \in [blocks : {k.blocks}, calls : {k.calls}, recorded : {k.recorded}]
  BY DEF Accounts, Remembers
<1>2. m.blocks = k.blocks /\ m.calls = k.calls /\ m.recorded = done
      /\ m \in [blocks : {m.blocks}, calls : {m.calls}, recorded : {m.recorded}]
  BY <1>1
<1>3. Remembers(k, v) => Remembers(m, v)
  BY <1>2 DEF Remembers
<1>4. Memory(m) = Memory(k)
  BY <1>2 DEF Memory
<1>5. Accounts(p, a, told, s, m, v)
  BY <1>2, <1>3 DEF Accounts
<1>6. QED BY <1>2, <1>4, <1>5

(* At the end of a completed answer the recorders are done.                *)
InStep(v) ==
  /\ Accounts(protocol, answer, emitted, seen, kept, v)
  /\ v.phase = "ended" /\ answer.end \notin {"none", "failed"} =>
       turn /\ kept.recorded = (Memory(kept) # <<>>)

(* The invariant: until the response is over the three accounts of an      *)
(* orderly stream agree on what the consumer has been told, count by       *)
(* count.                                                                  *)
AnswerInv ==
  /\ StreamInv
  /\ ~over => \E v, w : Watching(v, w) /\ (up.orderly => InStep(v))
  /\ OneAnswer

(* Nothing counts nothing.                                                 *)
LEMMA NothingHeld ==
  ASSUME NEW blocks, DOMAIN blocks = {}
  PROVE  /\ Assembled(blocks) /\ Calls(blocks) = 0
         /\ Count(blocks, "text") = 0 /\ Count(blocks, "arguments") = 0
<1>1. Assembled(blocks)
  <2>1. blocks = [at \in {} |-> blocks[at]] \/ blocks \in [DOMAIN blocks -> BlockRecord]
    OBVIOUS
  <2>2. QED BY <2>1, FS_EmptySet DEF Assembled
<1>2. CallsAt(blocks) = {}
  BY DEF CallsAt
<1>3. Calls(blocks) = 0
  BY <1>2, FS_EmptySet DEF Calls, CallsAt
<1>4. ASSUME NEW part \in PartName PROVE Count(blocks, part) = 0
  <2>1. Units(Amounts(blocks, part), DOMAIN blocks) = {}
    BY DEF Units
  <2>2. QED BY <1>1, <2>1, Counting, FS_EmptySet
<1>5. QED BY <1>1, <1>3, <1>4 DEF PartName

(* The three begin empty.                                                  *)
LEMMA AnswerStarts == StreamInit => AnswerInv
<1> SUFFICES ASSUME StreamInit PROVE AnswerInv
  OBVIOUS
<1>1. StreamInv /\ ~over
  BY StreamStarts DEF StreamInit
<1>2. PICK v : /\ Watching(v, v) /\ v.phase = "idle" /\ v.open = {} /\ v.closed = {}
               /\ DOMAIN v.kinds = {}
  BY StreamStarts
<1>3. /\ answer = NoAnswer /\ emitted = {} /\ seen = NothingSeen /\ kept = NothingKept
  BY DEF StreamInit
<1>4. /\ DOMAIN answer.blocks = {} /\ DOMAIN answer.tools = {} /\ answer.end = "none"
      /\ seen.blocks = answer.blocks /\ seen.open = {} /\ seen.ends = <<>> /\ ~seen.stray
      /\ kept \in [blocks : {kept.blocks}, calls : {kept.calls}, recorded : {kept.recorded}]
      /\ DOMAIN kept.blocks = {} /\ kept.calls \in [{} -> Nat]
  BY <1>3 DEF NoAnswer, NothingSeen, NothingKept
<1>5. LawfulView(v) /\ SeenTyped(seen)
  BY <1>1, <1>2 DEF LawfulView, StreamInv, Watching, Told
<1>6. Shows(protocol, answer, emitted, seen, v)
  <2>1. Agree(answer.blocks, seen)
    BY <1>4, <1>5, NothingHeld DEF Agree
  <2>2. ShowsMessages(answer.blocks, emitted, seen.open, v)
    BY <1>2, <1>3, <1>4 DEF ShowsMessages
  <2>3. ShowsChat(answer.blocks, answer.tools, seen.open, v)
    <3>1. IsFiniteSet(DOMAIN answer.tools)
      BY <1>4, FS_EmptySet
    <3>2. QED BY <1>2, <1>4, <3>1 DEF ShowsChat, ChatAt
  <2>4. ShowsResponses(answer.blocks, seen.open, v)
    BY <1>2, <1>4 DEF ShowsResponses
  <2>5. QED BY <2>1, <2>2, <2>3, <2>4 DEF Shows
<1>7. Remembers(kept, v)
  <2>1. {i \in DOMAIN v.kinds : v.kinds[i] = "tool_call"} = {}
    BY <1>2
  <2>2. QED BY <1>2, <1>4, <2>1, NothingHeld DEF Remembers
<1>8. Noted(kept.calls) = 0
  <2>1. Units(kept.calls, DOMAIN kept.calls) = {}
    BY <1>4 DEF Units
  <2>2. QED BY <2>1, FS_EmptySet DEF Noted
<1>9. /\ Calls(answer.blocks) = 0 /\ Calls(kept.blocks) = 0
      /\ Count(answer.blocks, "text") = 0 /\ Count(answer.blocks, "arguments") = 0
      /\ Count(kept.blocks, "text") = 0
  BY <1>4, NothingHeld
<1>10. InStep(v)
  BY <1>2, <1>4, <1>5, <1>6, <1>7, <1>8, <1>9 DEF InStep, Accounts
<1>11. QED BY <1>1, <1>2, <1>10 DEF AnswerInv, OneAnswer

(* An event passed on keeps them in step, whatever the recorder notes      *)
(* besides.                                                                *)
LEMMA EventInStep ==
  ASSUME StreamInv, ~over, queue # <<>>, queue' = Tail(queue), canon' = CanonAfter(Head(queue)),
         Encode(Head(queue)), UNCHANGED <<dialect, protocol, up, read, state, pending>>,
         NEW v, NEW w, Watching(v, w), up.orderly, InStep(v), NEW x, x = After(v, Head(queue)),
         NEW k, k = Keep(kept, Head(queue))
  PROVE  /\ Accounts(protocol', answer', emitted', seen', k, x)
         /\ x.phase = "ended" <=> Head(queue).type \in {"response.completed", "response.failed"}
         /\ Head(queue).type = "response.failed" => answer'.end = "failed"
<1> DEFINE e == Head(queue)
           b == Collect(protocol, answer, e)
           fs == Frames(protocol, b, emitted, e)
           t == SeesAll(seen, fs)
<1>1. /\ Legal(v, e, up.orderly) /\ v.phase # "ended" /\ Len(seen.ends) = 0
      /\ After(v, e).phase = "ended" <=>
           e.type \in {"response.completed", "response.failed"}
  BY NextEventOf
<1>2. Legal(v, e, TRUE)
  BY <1>1 DEF Legal
<1>3. AnswerOK(protocol, answer, v) /\ protocol \in Protocol
  BY DEF Watching, StreamInv
<1>4. Accounts(protocol, answer, emitted, seen, kept, v)
  BY DEF InStep
<1>5. ~b.thrown
  BY EncodeWatched
<1>6. answer' = b /\ seen' = t /\ emitted' = Emitted(emitted, e) /\ protocol' = protocol
  BY <1>5 DEF Encode, Seeing, SeesAll
<1> HIDE DEF e
<1>7. Accounts(protocol, b, Emitted(emitted, e), t, Keep(kept, e), After(v, e))
  <2> HIDE DEF b, fs, t
  <2>1. b = Collect(protocol, answer, e) /\ t = SeesAll(seen, Frames(protocol, b, emitted, e))
    BY DEF b, t, fs
  <2>2. QED BY <1>1, <1>2, <1>3, <1>4, <2>1, AccountsMove
<1>8. e.type = "response.failed" => b.end = "failed"
  <2> SUFFICES ASSUME e.type = "response.failed" PROVE b.end = "failed"
    OBVIOUS
  <2>1. b = [answer EXCEPT !.end = "failed"]
    BY <1>3 DEF Collect, CollectMessages, CollectChat, CollectResponses, Ended, Protocol
  <2>2. AnswerTyped(answer)
    BY <1>3 DEF AnswerOK
  <2>3. QED BY <2>1, <2>2 DEF AnswerTyped
<1>9. QED BY <1>1, <1>6, <1>7, <1>8 DEF e

(* The response is over after Return alone, when all three have been told. *)
SameAnswer ==
  /\ seen.blocks = answer.blocks /\ ~seen.stray
  /\ seen.ends = <<answer.end>>
  /\ \A part \in {"text", "arguments"} :
       Count(Memory(kept), part) = Count(answer.blocks, part)
  /\ Calls(Memory(kept)) = Calls(answer.blocks)
  /\ turn /\ kept.recorded = (Memory(kept) # <<>>)

(* At the end the transcript has lost no text and no call.                 *)
LEMMA AccountsAgree ==
  ASSUME NEW v, InStep(v), v.phase = "ended", answer.end \notin {"none", "failed"}
  PROVE  SameAnswer
<1>1. /\ LawfulView(v) /\ Shows(protocol, answer, emitted, seen, v) /\ Remembers(kept, v)
      /\ Count(answer.blocks, "text") = Count(kept.blocks, "text")
      /\ Count(answer.blocks, "arguments") = Noted(kept.calls)
      /\ Calls(answer.blocks) = Calls(kept.blocks)
      /\ seen.ends = <<answer.end>> /\ v.open = {}
      /\ turn /\ kept.recorded = (Memory(kept) # <<>>)
  BY DEF InStep, Accounts
<1>2. seen.blocks = answer.blocks /\ ~seen.stray
  BY <1>1 DEF Shows, Agree
<1>3. /\ Count(Memory(kept), "text") = Count(kept.blocks, "text")
      /\ Count(Memory(kept), "arguments") = Noted(kept.calls)
      /\ Calls(Memory(kept)) = Calls(kept.blocks)
  BY <1>1, MemoryHolds
<1>4. QED BY <1>1, <1>2, <1>3 DEF SameAnswer

(* An error frame ends the stream, and the client is told of no answer.    *)
LEMMA ErrorTold ==
  ASSUME AnswerInv, ErrorFrame, Len(seen.ends) = 0, StreamInv'
  PROVE  AnswerInv'
<1>1. seen' = See(seen, FrameEnd("error")) /\ over' = TRUE
  BY DEF ErrorFrame
<1>2. SeenTyped(seen)
  BY DEF AnswerInv, StreamInv
<1>3. seen.ends = <<>>
  BY <1>2 DEF SeenTyped
<1>4. seen'.ends = <<"error">>
  <2>1. Append(seen.ends, "error") = <<"error">>
    BY <1>3
  <2>2. See(seen, FrameEnd("error")) = [seen EXCEPT !.ends = <<"error">>]
    BY <2>1 DEF See, FrameEnd
  <2>3. QED BY <1>1, <1>2, <2>2 DEF SeenTyped
<1>5. OneAnswer'
  BY <1>4 DEF OneAnswer
<1>6. QED BY <1>1, <1>5 DEF AnswerInv

(* Every action keeps the invariant.                                       *)
LEMMA AnswerSteps ==
  ASSUME AnswerInv, [StreamNext]_streamVars
  PROVE  AnswerInv'
<1>1. StreamInv /\ StreamInv'
  BY StreamSteps DEF AnswerInv
<1>2. ASSUME NEW m \in MessageOf(dialect), Receive(m)
      PROVE  AnswerInv'
  <2>1. /\ ~over /\ over' = over /\ protocol' = protocol /\ answer' = answer /\ emitted' = emitted
        /\ seen' = seen /\ kept' = kept /\ turn' = turn
    BY <1>2 DEF Receive
  <2>2. PICK v, w : Watching(v, w) /\ (up.orderly => InStep(v))
    BY <2>1 DEF AnswerInv
  <2>3. (\E x : Watching(v, x)') /\ (up'.orderly => up.orderly)
    BY <1>1, <1>2, <2>2, ReceiveWatched
  <2>4. up'.orderly => InStep(v)'
    BY <2>1, <2>2, <2>3 DEF InStep
  <2>5. QED BY <1>1, <2>1, <2>3, <2>4 DEF AnswerInv, OneAnswer
<1>3. CASE Pass
  <2> DEFINE e == Head(queue)
  <2>1. /\ ~over /\ queue # <<>> /\ e.type # "response.completed" /\ queue' = Tail(queue)
        /\ canon' = CanonAfter(e) /\ kept' = Keep(kept, e) /\ Encode(e)
        /\ UNCHANGED <<dialect, protocol, up, read, state, pending>>
    BY <1>3 DEF Pass
  <2>2. PICK v, w : Watching(v, w) /\ (up.orderly => InStep(v))
    BY <2>1 DEF AnswerInv
  <2>3. PICK x : x = After(v, Head(queue))
    OBVIOUS
  <2>4. Watching(x, w)' /\ ~Collect(protocol, answer, e).thrown
    BY <1>1, <2>1, <2>2, <2>3, EncodeWatched
  <2>5. ~over'
    BY <2>1, <2>4 DEF Encode
  <2>6. up'.orderly => InStep(x)'
    <3> SUFFICES ASSUME up.orderly PROVE InStep(x)'
      BY <2>1
    <3>1. PICK k : k = Keep(kept, e)
      OBVIOUS
    <3>2. /\ Accounts(protocol', answer', emitted', seen', k, x)
          /\ x.phase = "ended" <=> e.type \in {"response.completed", "response.failed"}
          /\ e.type = "response.failed" => answer'.end = "failed"
      BY <1>1, <2>1, <2>2, <2>3, <3>1, EventInStep
    <3>3. kept' = k
      BY <2>1, <3>1
    <3>4. QED BY <2>1, <3>2, <3>3 DEF InStep
  <2>7. QED BY <1>1, <2>4, <2>5, <2>6 DEF AnswerInv, OneAnswer
<1>4. CASE PassCompleted
  <2> DEFINE e == Head(queue)
  <2>1. /\ ~over /\ queue # <<>> /\ e.type = "response.completed" /\ queue' = Tail(queue)
        /\ canon' = CanonAfter(e) /\ turn' = TRUE /\ Encode(e)
        /\ kept' = [kept EXCEPT !.recorded = Memory(kept) # <<>>]
        /\ UNCHANGED <<dialect, protocol, up, read, state, pending>>
    BY <1>4 DEF PassCompleted
  <2>2. PICK v, w : Watching(v, w) /\ (up.orderly => InStep(v))
    BY <2>1 DEF AnswerInv
  <2>3. PICK x : x = After(v, Head(queue))
    OBVIOUS
  <2>4. Watching(x, w)' /\ ~Collect(protocol, answer, e).thrown
    BY <1>1, <2>1, <2>2, <2>3, EncodeWatched
  <2>5. ~over'
    BY <2>1, <2>4 DEF Encode
  <2>6. up'.orderly => InStep(x)'
    <3> SUFFICES ASSUME up.orderly PROVE InStep(x)'
      BY <2>1
    <3>1. PICK k : k = Keep(kept, e)
      OBVIOUS
    <3>2. Accounts(protocol', answer', emitted', seen', k, x)
      BY <1>1, <2>1, <2>2, <2>3, <3>1, EventInStep
    <3>3. k = kept
      BY <2>1, <3>1 DEF Keep
    <3>4. PICK done : done = (Memory(kept) # <<>>)
      OBVIOUS
    <3>5. PICK m : m = [kept EXCEPT !.recorded = done]
      OBVIOUS
    <3>6. /\ Accounts(protocol', answer', emitted', seen', m, x)
          /\ m.recorded = done /\ Memory(m) = Memory(kept)
      BY <3>2, <3>3, <3>5, AccountsRecorded
    <3>7. kept' = m
      BY <2>1, <3>4, <3>5
    <3>8. turn' /\ kept'.recorded = (Memory(kept') # <<>>)
      BY <2>1, <3>4, <3>6, <3>7
    <3>9. Accounts(protocol', answer', emitted', seen', kept', x)
      BY <3>6, <3>7
    <3>10. QED BY <3>8, <3>9 DEF InStep
  <2>7. QED BY <1>1, <2>4, <2>5, <2>6 DEF AnswerInv, OneAnswer
<1>5. CASE RecordFails
  <2>1. ~over /\ queue # <<>> /\ ErrorFrame
    BY <1>5 DEF RecordFails
  <2>2. Len(seen.ends) = 0
    BY <1>1, <2>1, NextEvent
  <2>3. QED BY <1>1, <2>1, <2>2, ErrorTold
<1>6. CASE Raise
  <2>1. ~over /\ pending /\ ErrorFrame
    BY <1>6 DEF Raise
  <2>2. canon.phase # "ended"
    BY <1>1, <2>1 DEF StreamInv, Watching
  <2>3. Len(seen.ends) = 0
    BY <1>1, <2>1, <2>2 DEF StreamInv
  <2>4. QED BY <1>1, <2>1, <2>3, ErrorTold
<1>7. CASE Return
  <2>1. /\ ~over /\ queue = <<>> /\ ~pending /\ state.terminal /\ over' = TRUE
        /\ UNCHANGED <<up, kept, turn, answer, seen>>
    BY <1>7 DEF Return, Returned
  <2>2. PICK v, w : Watching(v, w) /\ (up.orderly => InStep(v))
    BY <2>1 DEF AnswerInv
  <2>3. v = w /\ Caught(dialect, w, state, up)
    BY <1>1, <2>1, <2>2, LeadsEnd DEF Watching, StreamInv, UpTyped
  <2>4. v.phase = "ended"
    BY <1>1, <2>1, <2>2, <2>3, CaughtNow DEF Watching, Told, StreamInv
  <2>5. up.orderly /\ answer.end \notin {"none", "failed"} => SameAnswer
    BY <2>2, <2>4, AccountsAgree
  <2>6. SameAnswer => SameAnswer'
    BY <2>1 DEF SameAnswer
  <2>7. OneAnswer'
    BY <2>1, <2>5, <2>6 DEF OneAnswer, SameAnswer
  <2>8. QED BY <1>1, <2>1, <2>7 DEF AnswerInv
<1>8. CASE UNCHANGED streamVars
  <2>1. UNCHANGED <<dialect, protocol, up, read, state, queue, pending, canon, kept, turn, answer,
                    emitted, seen, over>>
    BY <1>8 DEF streamVars
  <2>2. \A v, w : Watching(v, w) => Watching(v, w)'
    BY <2>1 DEF Watching
  <2>3. \A v : InStep(v) => InStep(v)'
    BY <2>1 DEF InStep
  <2>4. OneAnswer'
    BY <2>1 DEF OneAnswer, AnswerInv
  <2>5. QED BY <1>1, <2>1, <2>2, <2>3, <2>4 DEF AnswerInv
<1>9. QED BY <1>2, <1>3, <1>4, <1>5, <1>6, <1>7, <1>8 DEF StreamNext

(* A client that is told of the end of an orderly answer, and not of an    *)
(* error, has been shown the blocks that a collected answer holds, and the *)
(* transcript keeps as many text deltas, argument deltas and calls; the    *)
(* turn has been recorded by then (execution.ts, anthropic/response.ts and *)
(* the other two encoders).                                                *)
THEOREM StreamIsOneAnswer == StreamSpec => []OneAnswer
<1>1. AnswerInv => OneAnswer
  BY DEF AnswerInv
<1>2. QED BY <1>1, AnswerStarts, AnswerSteps, PTL DEF StreamSpec

==============================================================================
