------------------------ MODULE AttemptLedger_proofs ------------------------
(***************************************************************************)
(* Proofs about AttemptLedger, for any number of requests and attempts and *)
(* any outcomes of the store.  Two transactions write attempts (one creates*)
(* an attempt, one ends it) and each has a lemma that says what it does to *)
(* the rows; every other action moves the control of one request, and what *)
(* matters of it is Place: what the next call of a generator says about    *)
(* the request's last attempt.                                             *)
(***************************************************************************)
EXTENDS AttemptLedger, TLAPS

Status == {"STARTED"} \cup Terminal

RowTypes ==
    /\ attempts \in [Request -> Seq(Status)]
    /\ \A r \in Request : Len(attempts[r]) <= MaxAttempts
    /\ requests \in [Request -> {"none", "RECEIVED", "STREAMING"} \cup Terminal]
    /\ events \subseteq Event
    /\ total \in Nat

ControlTypes ==
    /\ pc \in [Request -> {"new", "streaming", "catch", "finally", "switch", "done"}]
    /\ usage \in [Request -> 0 .. MaxTokens]
    /\ committed \in [Request -> BOOLEAN]
    /\ retryable \in [Request -> BOOLEAN]
    /\ aborted \in [Request -> BOOLEAN]
    /\ lost \in [Request -> BOOLEAN]

EarlierFailed ==
    \A r \in Request : \A s \in 1 .. Last(r) - 1 : attempts[r][s] = "FAILED"

RowInv == RowTypes /\ EventIffTerminal /\ RequestFollowsAttempt /\ EarlierFailed

(* What the place of a generator says about the request's last attempt.     *)
Place(r) ==
    /\ pc[r] = "new" => attempts[r] = <<>>
    /\ pc[r] \in {"streaming", "catch", "finally", "switch"} => attempts[r] # <<>>
    /\ pc[r] = "streaming" => attempts[r][Last(r)] = "STARTED"
    /\ pc[r] = "switch" => attempts[r][Last(r)] = "FAILED" /\ Last(r) < MaxAttempts
    /\ pc[r] = "done" /\ attempts[r] # <<>> /\ ~lost[r]
         => attempts[r][Last(r)] \in Terminal

IInv == RowInv /\ ControlTypes /\ \A r \in Request : Place(r)

(* The body of TerminalIsFinal.                                             *)
Kept ==
    /\ events \subseteq events'
    /\ \A r \in Request : \A s \in 1 .. Last(r) :
         attempts[r][s] \in Terminal => attempts'[r][s] = attempts[r][s]

LEMMA IInvImplies ==
    ASSUME IInv
    PROVE  /\ TypeOK
           /\ EventIffTerminal
           /\ RequestFollowsAttempt
           /\ FallbackFollowsFailure
           /\ RecordedUnlessLost
<1>1. TypeOK
    BY DEF IInv, RowInv, RowTypes, ControlTypes, TypeOK, Status
<1>2. FallbackFollowsFailure /\ RecordedUnlessLost
    BY DEF IInv, RowInv, EarlierFailed, Place, FallbackFollowsFailure,
           RecordedUnlessLost
<1>3. QED
    BY <1>1, <1>2 DEF IInv, RowInv

(* Replacing the last element of a sequence. *)
LEMMA LastReplaced ==
    ASSUME NEW S, NEW s \in Seq(S), s # <<>>, NEW x \in S,
           NEW t, t = [s EXCEPT ![Len(s)] = x]
    PROVE  /\ t \in Seq(S)
           /\ t # <<>>
           /\ Len(t) = Len(s)
           /\ Len(s) \in Nat \ {0}
           /\ t[Len(s)] = x
           /\ \A i \in 1 .. Len(s) : i # Len(s) => t[i] = s[i]
  OBVIOUS

(* Appending to a sequence. *)
LEMMA Appended ==
    ASSUME NEW S, NEW s \in Seq(S), NEW x \in S, NEW t, t = Append(s, x)
    PROVE  /\ t \in Seq(S)
           /\ t # <<>>
           /\ Len(t) = Len(s) + 1
           /\ Len(s) \in Nat
           /\ t[Len(t)] = x
           /\ \A i \in 1 .. Len(s) : t[i] = s[i]
  OBVIOUS

(* The rows of a sequence of attempts: its length is a number and the last  *)
(* attempt is one of them.                                                  *)
LEMMA LastIsAttempt ==
    ASSUME RowTypes, NEW r \in Request
    PROVE  /\ attempts[r] \in Seq(Status)
           /\ Last(r) \in Nat
           /\ attempts[r] # <<>> => Last(r) \in 1 .. Last(r)
           /\ \A s \in 1 .. Last(r) : attempts[r][s] \in Status
  BY DEF RowTypes, Last

LEMMA InitEstablishes == Init => IInv
<1> SUFFICES ASSUME Init PROVE IInv
    OBVIOUS
<1>1. /\ <<>> \in Seq(Status)
      /\ Len(<<>>) = 0
    OBVIOUS
<1>2. RowTypes
    BY <1>1, LedgerAssumption DEF Init, RowTypes
<1>3. ControlTypes
    BY LedgerAssumption DEF Init, ControlTypes
<1>4. \A r \in Request : Last(r) = 0
    BY <1>1 DEF Init, Last
<1>5. EventIffTerminal /\ EarlierFailed
    BY <1>4 DEF Init, EventIffTerminal, EarlierFailed
<1>6. RequestFollowsAttempt /\ \A r \in Request : Place(r)
    BY DEF Init, RequestFollowsAttempt, Place
<1>7. QED
    BY <1>2, <1>3, <1>5, <1>6 DEF IInv, RowInv

(* A step that leaves the rows alone keeps what is said about them.         *)
LEMMA RowsUnchanged ==
    ASSUME RowInv, UNCHANGED rows
    PROVE  /\ RowInv'
           /\ Kept
           /\ \A r \in Request : attempts'[r] = attempts[r]
  BY DEF rows, RowInv, RowTypes, EventIffTerminal, RequestFollowsAttempt,
         EarlierFailed, Kept, HasEvent, Last

(* A step of one request does not disturb the place of another.             *)
LEMMA OneMoves ==
    ASSUME IInv, RowInv', ControlTypes', NEW r \in Request, Place(r)',
           \A q \in Request \ {r} : /\ pc'[q] = pc[q]
                                    /\ lost'[q] = lost[q]
                                    /\ attempts'[q] = attempts[q]
    PROVE  IInv'
<1>1. ASSUME NEW q \in Request \ {r} PROVE Place(q)'
    BY <1>1 DEF IInv, Place, Last
<1>2. QED
    BY <1>1 DEF IInv

-----------------------------------------------------------------------------
(* The transactions. *)

(* Creating an attempt where there is none, or where the last one failed.   *)
LEMMA AttemptCreated ==
    ASSUME RowInv, NEW r \in Request, NEW outcome,
           attempts[r] = <<>> \/ attempts[r][Last(r)] = "FAILED",
           Last(r) < MaxAttempts, CreateAttempt(r, outcome), Commits(outcome)
    PROVE  /\ RowInv'
           /\ Kept
           /\ attempts'[r] # <<>>
           /\ (attempts[r][Last(r)] = "STARTED")'
           /\ \A q \in Request \ {r} : attempts'[q] = attempts[q]
<1> USE DEF RowInv
<1>1. /\ attempts' = [attempts EXCEPT ![r] = Append(@, "STARTED")]
      /\ requests' = [requests EXCEPT ![r] = "RECEIVED"]
      /\ UNCHANGED <<events, total>>
    BY DEF CreateAttempt
<1>2. /\ attempts'[r] = Append(attempts[r], "STARTED")
      /\ \A q \in Request \ {r} : attempts'[q] = attempts[q]
      /\ "STARTED" \in Status
      /\ attempts[r] \in Seq(Status)
    BY <1>1 DEF RowTypes, Status
<1>3. /\ attempts'[r] \in Seq(Status)
      /\ attempts'[r] # <<>>
      /\ Last(r)' = Last(r) + 1
      /\ Last(r) \in Nat
      /\ (attempts[r][Last(r)] = "STARTED")'
      /\ \A i \in 1 .. Last(r) : attempts'[r][i] = attempts[r][i]
    BY <1>2, Appended DEF Last
<1>4. \A q \in Request \ {r} : Last(q)' = Last(q)
    BY <1>2 DEF Last
<1>5. MaxAttempts \in Nat
    BY LedgerAssumption
<1>6. RowTypes'
    BY <1>1, <1>2, <1>3, <1>4, <1>5 DEF RowTypes, Last
<1>7. Kept
    BY <1>1, <1>2, <1>3, <1>4 DEF Kept
<1>8. RequestFollowsAttempt'
    <2>1. /\ requests'[r] = "RECEIVED"
          /\ \A q \in Request \ {r} : requests'[q] = requests[q]
        BY <1>1 DEF RowTypes
    <2>2. ASSUME NEW q \in Request \ {r}
          PROVE  IF attempts'[q] = <<>>
                 THEN requests'[q] = "none"
                 ELSE IF attempts'[q][Last(q)'] = "STARTED"
                      THEN requests'[q] \in {"RECEIVED", "STREAMING"}
                      ELSE requests'[q] = attempts'[q][Last(q)']
        BY <1>2, <1>4, <2>1, <2>2 DEF RequestFollowsAttempt
    <2>3. QED
        BY <1>3, <2>1, <2>2 DEF RequestFollowsAttempt
<1>9. EarlierFailed'
    <2>1. \A s \in 1 .. Last(r) : attempts[r][s] = "FAILED"
        BY <1>3, LastIsAttempt DEF EarlierFailed, Last
    <2>2. \A s \in 1 .. Last(r)' - 1 : attempts'[r][s] = "FAILED"
        BY <1>3, <2>1
    <2>3. \A q \in Request \ {r} :
            \A s \in 1 .. Last(q)' - 1 : attempts'[q][s] = "FAILED"
        BY <1>2, <1>4 DEF EarlierFailed
    <2>4. QED
        BY <2>2, <2>3 DEF EarlierFailed
<1>10. ~HasEvent(r, Last(r) + 1)
    BY <1>3 DEF EventIffTerminal, HasEvent, RowTypes, Event
<1>11. EventIffTerminal'
    <2>1. \A q \in Request : \A s : HasEvent(q, s)' <=> HasEvent(q, s)
        BY <1>1 DEF HasEvent
    <2>2. \A s \in 1 .. Last(r) + 1 :
            (attempts[r][s] \in Terminal)' <=> HasEvent(r, s)
        BY <1>3, <1>10 DEF EventIffTerminal, Terminal
    <2>3. \A q \in Request : \A s \in 1 .. Last(q)' :
            (attempts[q][s] \in Terminal)' <=> HasEvent(q, s)'
        <3>1. \A s \in 1 .. Last(r)' :
                (attempts[r][s] \in Terminal)' <=> HasEvent(r, s)'
            BY <1>3, <2>1, <2>2
        <3>2. \A q \in Request \ {r} : \A s \in 1 .. Last(q)' :
                (attempts[q][s] \in Terminal)' <=> HasEvent(q, s)'
            BY <1>2, <1>4, <2>1 DEF EventIffTerminal
        <3>3. QED
            BY <3>1, <3>2
    <2>4. \A e \in events : e.request \in Request /\ e.sequence \in 1 .. MaxAttempts
        BY DEF RowTypes, Event
    <2>5. ASSUME NEW e \in events
          PROVE  /\ e.sequence <= Last(e.request)'
                 /\ attempts'[e.request][e.sequence] = e.status
        <3>1. /\ e.sequence <= Last(e.request)
              /\ attempts[e.request][e.sequence] = e.status
              /\ e.sequence \in Nat \ {0}
            BY <1>5, <2>4 DEF EventIffTerminal
        <3>2. CASE e.request = r
            BY <1>3, <3>1, <3>2
        <3>3. CASE e.request # r
            BY <1>2, <1>4, <2>4, <3>1, <3>3
        <3>4. QED
            BY <3>2, <3>3
    <2>6. QED
        BY <1>1, <2>3, <2>5 DEF EventIffTerminal
<1>12. QED
    BY <1>2, <1>3, <1>6, <1>7, <1>8, <1>9, <1>11

(* A transaction that ends an attempt: it is new and takes effect, or       *)
(* nothing happens.                                                         *)
LEMMA AttemptEnded ==
    ASSUME RowInv, NEW r \in Request, NEW status \in Terminal,
           NEW tokens \in 0 .. MaxTokens, NEW outcome,
           attempts[r] # <<>>, WriteTerminal(r, status, tokens, outcome)
    PROVE  /\ RowInv'
           /\ Kept
           /\ attempts'[r] # <<>>
           /\ Last(r)' = Last(r)
           /\ IF Commits(outcome) /\ ~HasEvent(r, Last(r))
              THEN (attempts[r][Last(r)])' = status
              ELSE attempts' = attempts
           /\ \A q \in Request \ {r} : attempts'[q] = attempts[q]
<1> USE DEF RowInv
<1>1. CASE ~(Commits(outcome) /\ ~HasEvent(r, Last(r)))
    <2>1. UNCHANGED rows
        BY <1>1 DEF WriteTerminal
    <2>2. QED
        BY <1>1, <2>1, RowsUnchanged DEF rows, Last
<1>2. CASE Commits(outcome) /\ ~HasEvent(r, Last(r))
    <2> DEFINE event == TerminalEvent(r, status, tokens)
    <2>1. /\ attempts' = [attempts EXCEPT ![r][Last(r)] = status]
          /\ requests' = [requests EXCEPT ![r] = status]
          /\ events' = events \cup {event}
          /\ total' = total + tokens
        BY <1>2 DEF WriteTerminal
    <2>2. /\ attempts[r] \in Seq(Status)
          /\ attempts'[r] = [attempts[r] EXCEPT ![Last(r)] = status]
          /\ \A q \in Request \ {r} : attempts'[q] = attempts[q]
          /\ status \in Status
        BY <2>1 DEF RowTypes, Status
    <2>3. /\ attempts'[r] \in Seq(Status)
          /\ attempts'[r] # <<>>
          /\ Last(r)' = Last(r)
          /\ Last(r) \in Nat \ {0}
          /\ attempts'[r][Last(r)] = status
          /\ \A i \in 1 .. Last(r) : i # Last(r) => attempts'[r][i] = attempts[r][i]
        BY <2>2, LastReplaced DEF Last
    <2>4. \A q \in Request : Last(q)' = Last(q)
        BY <2>2, <2>3 DEF Last
    <2>5. /\ event.request = r
          /\ event.sequence = Last(r)
          /\ event.status = status
          /\ event.tokens = tokens
        BY DEF TerminalEvent
    <2>6. event \in Event
        BY <2>3, LedgerAssumption DEF TerminalEvent, Event, RowTypes, Last
    <2>7. RowTypes'
        <3>1. tokens \in Nat
            BY LedgerAssumption
        <3>2. QED
            BY <2>1, <2>2, <2>3, <2>4, <2>6, <3>1 DEF RowTypes, Last
    <2>8. attempts[r][Last(r)] \notin Terminal
        BY <1>2, <2>3 DEF EventIffTerminal
    <2>9. Kept
        BY <2>1, <2>2, <2>3, <2>4, <2>8 DEF Kept
    <2>10. RequestFollowsAttempt'
        BY <2>1, <2>2, <2>3, <2>4 DEF RequestFollowsAttempt, RowTypes, Terminal
    <2>11. EarlierFailed'
        BY <2>2, <2>3, <2>4 DEF EarlierFailed
    <2>12. EventIffTerminal'
        <3>1. \A q \in Request : \A s :
                HasEvent(q, s)' <=> (HasEvent(q, s) \/ (q = r /\ s = Last(r)))
            BY <2>1, <2>5 DEF HasEvent
        <3>2. \A q \in Request : \A s \in 1 .. Last(q)' :
                (attempts[q][s] \in Terminal)' <=> HasEvent(q, s)'
            BY <2>2, <2>3, <2>4, <3>1 DEF EventIffTerminal
        <3>3. ASSUME NEW e \in events
              PROVE  /\ e.request \in Request
                     /\ e.sequence \in 1 .. Last(e.request)
                     /\ ~(e.request = r /\ e.sequence = Last(r))
            BY <1>2, <3>3, LedgerAssumption
               DEF RowTypes, Event, EventIffTerminal, HasEvent, Last
        <3>4. \A e \in events' :
                /\ e.sequence <= Last(e.request)'
                /\ attempts'[e.request][e.sequence] = e.status
            BY <2>1, <2>2, <2>3, <2>4, <2>5, <3>3 DEF EventIffTerminal
        <3>5. \A e, f \in events' :
                e.request = f.request /\ e.sequence = f.sequence => e = f
            BY <2>1, <2>5, <3>3 DEF EventIffTerminal
        <3>6. QED
            BY <3>2, <3>4, <3>5 DEF EventIffTerminal
    <2>13. QED
        BY <1>2, <2>2, <2>3, <2>7, <2>9, <2>10, <2>11, <2>12
<1>3. QED
    BY <1>1, <1>2

-----------------------------------------------------------------------------
(* The actions. *)

(* What a generator that records the end of its attempt finds afterwards:   *)
(* the attempt is terminal, or the transaction was rolled back.             *)
LEMMA Recorded ==
    ASSUME IInv, NEW r \in Request, NEW status \in Terminal,
           NEW tokens \in 0 .. MaxTokens, NEW outcome \in StoreOutcome,
           pc[r] \in {"streaming", "catch", "finally"},
           WriteTerminal(r, status, tokens, outcome)
    PROVE  /\ RowInv'
           /\ Kept
           /\ attempts'[r] # <<>>
           /\ Last(r)' = Last(r)
           /\ Written(r, outcome) => (attempts[r][Last(r)])' = status
           /\ \/ outcome = "rolled_back" /\ ~HasEvent(r, Last(r))
              \/ (attempts[r][Last(r)])' \in Terminal
           /\ \A q \in Request \ {r} : attempts'[q] = attempts[q]
<1> USE DEF IInv
<1>1. attempts[r] # <<>>
    BY DEF Place
<1>2. /\ RowInv'
      /\ Kept
      /\ attempts'[r] # <<>>
      /\ Last(r)' = Last(r)
      /\ IF Commits(outcome) /\ ~HasEvent(r, Last(r))
         THEN (attempts[r][Last(r)])' = status
         ELSE attempts' = attempts
      /\ \A q \in Request \ {r} : attempts'[q] = attempts[q]
    BY <1>1, AttemptEnded
<1>3. Written(r, outcome) => (attempts[r][Last(r)])' = status
    BY <1>2 DEF Written, Commits
<1>4. outcome \in {"ok", "rolled_back", "ack_lost"}
    BY LedgerAssumption
<1>5. HasEvent(r, Last(r)) => attempts[r][Last(r)] \in Terminal
    BY <1>1, LastIsAttempt DEF RowInv, EventIffTerminal
<1>6. \/ outcome = "rolled_back" /\ ~HasEvent(r, Last(r))
      \/ (attempts[r][Last(r)])' \in Terminal
    BY <1>2, <1>4, <1>5 DEF Commits
<1>7. QED
    BY <1>2, <1>3, <1>6

LEMMA BeginPreserves ==
    ASSUME IInv, NEW r \in Request, NEW outcome \in StoreOutcome,
           Begin(r, outcome)
    PROVE  IInv' /\ Kept
<1> USE DEF IInv
<1>1. attempts[r] = <<>> \/ attempts[r][Last(r)] = "FAILED"
    BY DEF Begin, Place
<1>2. Last(r) < MaxAttempts
    BY LedgerAssumption DEF Begin, Place, Last
<1>3. ControlTypes'
    BY LedgerAssumption DEF Begin, Goto, ControlTypes
<1>4. /\ pc'[r] = IF outcome = "ok" THEN "streaming" ELSE "done"
      /\ lost'[r] = (outcome = "ack_lost")
      /\ \A q \in Request \ {r} : pc'[q] = pc[q] /\ lost'[q] = lost[q]
    BY DEF Begin, Goto, ControlTypes
<1>5. outcome \in {"ok", "rolled_back", "ack_lost"}
    BY LedgerAssumption
<1>6. CASE Commits(outcome)
    <2>1. /\ RowInv'
          /\ Kept
          /\ attempts'[r] # <<>>
          /\ (attempts[r][Last(r)] = "STARTED")'
          /\ \A q \in Request \ {r} : attempts'[q] = attempts[q]
        BY <1>1, <1>2, <1>6, AttemptCreated DEF Begin
    <2>2. Place(r)'
        BY <1>4, <1>5, <1>6, <2>1 DEF Place, Commits
    <2>3. QED
        BY <1>3, <1>4, <2>1, <2>2, OneMoves
<1>7. CASE ~Commits(outcome)
    <2>1. UNCHANGED rows
        BY <1>7 DEF Begin, CreateAttempt
    <2>2. RowInv' /\ Kept /\ \A q \in Request : attempts'[q] = attempts[q]
        BY <2>1, RowsUnchanged
    <2>3. Place(r)'
        BY <1>1, <1>4, <1>5, <1>7, <2>2 DEF Place, Commits, Last, Terminal
    <2>4. QED
        BY <1>3, <1>4, <2>2, <2>3, OneMoves
<1>8. QED
    BY <1>6, <1>7

LEMMA MaxOfTwo ==
    ASSUME NEW a \in Int, NEW b \in Int
    PROVE  Max({a, b}) \in {a, b}
  BY DEF Max

(* response.started marks the request of a started attempt.                 *)
LEMMA ResponseStartedPreserves ==
    ASSUME IInv, NEW r \in Request, NEW tokens \in 0 .. MaxTokens,
           NEW outcome \in StoreOutcome, ResponseStarted(r, tokens, outcome)
    PROVE  IInv' /\ Kept
<1> USE DEF IInv
<1>1. attempts[r] # <<>> /\ attempts[r][Last(r)] = "STARTED"
    BY DEF ResponseStarted, Place
<1>2. /\ UNCHANGED <<attempts, events, total, lost>>
      /\ pc'[r] \in {"streaming", "catch"}
      /\ \A q \in Request \ {r} : pc'[q] = pc[q]
    BY DEF ResponseStarted, Goto, ControlTypes
<1>3. /\ requests'[r] \in {requests[r], "STREAMING"}
      /\ \A q \in Request \ {r} : requests'[q] = requests[q]
      /\ requests' \in [Request -> {"none", "RECEIVED", "STREAMING"} \cup Terminal]
    BY DEF ResponseStarted, RowInv, RowTypes
<1>4. Max({usage[r], tokens}) \in 0 .. MaxTokens
    <2>1. usage[r] \in 0 .. MaxTokens /\ MaxTokens \in Nat
        BY LedgerAssumption DEF ControlTypes
    <2>2. QED
        BY <2>1, MaxOfTwo
<1>5. ControlTypes'
    BY <1>4 DEF ResponseStarted, Goto, ControlTypes
<1>6. RowInv' /\ Kept
    <2>1. RowTypes'
        BY <1>2, <1>3 DEF RowInv, RowTypes
    <2>2. EventIffTerminal' /\ EarlierFailed' /\ Kept
        BY <1>2 DEF RowInv, EventIffTerminal, EarlierFailed, Kept, HasEvent, Last
    <2>3. RequestFollowsAttempt'
        BY <1>1, <1>2, <1>3 DEF RowInv, RequestFollowsAttempt, Last
    <2>4. QED
        BY <2>1, <2>2, <2>3 DEF RowInv
<1>7. Place(r)'
    BY <1>1, <1>2 DEF Place, Last
<1>8. QED
    BY <1>2, <1>5, <1>6, <1>7, OneMoves

(* Steps of one request that do not touch the store.                        *)
LEMMA ControlPreserves ==
    ASSUME IInv, NEW r \in Request,
           \/ \E tokens \in 0 .. MaxTokens : UsageUpdated(r, tokens)
           \/ Output(r) \/ StreamEnds(r) \/ Abandon(r) \/ Abort(r)
           \/ \E canRetry \in BOOLEAN : StreamThrows(r, canRetry)
    PROVE  IInv' /\ Kept
<1> USE DEF IInv
<1>1. UNCHANGED rows
    BY DEF UsageUpdated, Output, StreamEnds, Abandon, Abort, StreamThrows
<1>2. RowInv' /\ Kept /\ \A q \in Request : attempts'[q] = attempts[q]
    BY <1>1, RowsUnchanged
<1>3. ControlTypes'
    BY DEF UsageUpdated, Output, StreamEnds, Abandon, Abort, StreamThrows,
           Goto, ControlTypes
<1>4. /\ \/ pc'[r] = pc[r] /\ lost'[r] = lost[r]
         \/ pc[r] = "streaming" /\ pc'[r] \in {"catch", "finally"}
         \/ pc[r] = "streaming" /\ pc'[r] = "done" /\ lost'[r]
      /\ \A q \in Request \ {r} : pc'[q] = pc[q] /\ lost'[q] = lost[q]
    BY DEF UsageUpdated, Output, StreamEnds, Abandon, Abort, StreamThrows,
           Goto, ControlTypes
<1>5. Place(r)'
    BY <1>2, <1>4 DEF Place, Last
<1>6. QED
    BY <1>2, <1>3, <1>4, <1>5, OneMoves

(* Where Leave goes from an attempt of the given status.                    *)
LEMMA Leaves ==
    ASSUME ControlTypes, NEW r \in Request, NEW canRetry, Leave(r, canRetry)
    PROVE  /\ \/ pc'[r] = "done"
              \/ pc'[r] = "switch" /\ ~aborted[r] /\ Last(r) < MaxAttempts
           /\ \A q \in Request \ {r} : pc'[q] = pc[q]
  BY DEF Leave, Goto, ControlTypes

(* response.completed. *)
LEMMA CompletePreserves ==
    ASSUME IInv, NEW r \in Request, NEW tokens \in 0 .. MaxTokens,
           NEW outcome \in StoreOutcome, Complete(r, tokens, outcome)
    PROVE  IInv' /\ Kept
<1> USE DEF IInv
<1>1. /\ RowInv'
      /\ Kept
      /\ attempts'[r] # <<>>
      /\ Written(r, outcome) => (attempts[r][Last(r)])' = "COMPLETED"
      /\ \A q \in Request \ {r} : attempts'[q] = attempts[q]
    BY Recorded DEF Complete, Terminal
<1>2. ControlTypes'
    BY DEF Complete, Goto, ControlTypes
<1>3. /\ pc'[r] = IF Written(r, outcome) THEN "done" ELSE "catch"
      /\ \A q \in Request \ {r} : pc'[q] = pc[q] /\ lost'[q] = lost[q]
    BY DEF Complete, Goto, ControlTypes
<1>4. Place(r)'
    BY <1>1, <1>3 DEF Place, Terminal
<1>5. QED
    BY <1>1, <1>2, <1>3, <1>4, OneMoves

(* response.failed. *)
LEMMA FailedEventPreserves ==
    ASSUME IInv, NEW r \in Request, NEW canRetry \in BOOLEAN,
           NEW outcome \in StoreOutcome, FailedEvent(r, canRetry, outcome)
    PROVE  IInv' /\ Kept
<1> USE DEF IInv
<1>1. usage[r] \in 0 .. MaxTokens
    BY DEF ControlTypes
<1>2. /\ RowInv'
      /\ Kept
      /\ attempts'[r] # <<>>
      /\ Last(r)' = Last(r)
      /\ Written(r, outcome) => (attempts[r][Last(r)])' = "FAILED"
      /\ \A q \in Request \ {r} : attempts'[q] = attempts[q]
    BY <1>1, Recorded DEF FailedEvent, Terminal
<1>3. ControlTypes'
    BY DEF FailedEvent, Leave, Goto, ControlTypes
<1>4. /\ IF Written(r, outcome)
         THEN \/ pc'[r] = "done"
              \/ pc'[r] = "switch" /\ Last(r) < MaxAttempts
         ELSE pc'[r] = "catch"
      /\ \A q \in Request \ {r} : pc'[q] = pc[q] /\ lost'[q] = lost[q]
    BY Leaves DEF FailedEvent, Goto, ControlTypes
<1>5. Place(r)'
    BY <1>2, <1>4 DEF Place, Terminal
<1>6. QED
    BY <1>2, <1>3, <1>4, <1>5, OneMoves

(* The catch block. *)
LEMMA RecordInCatchPreserves ==
    ASSUME IInv, NEW r \in Request, NEW outcome \in StoreOutcome,
           RecordInCatch(r, outcome)
    PROVE  IInv' /\ Kept
<1> USE DEF IInv
<1>1. usage[r] \in 0 .. MaxTokens /\ FailureStatus(r) \in Terminal
    BY DEF ControlTypes, FailureStatus, Terminal
<1>2. /\ RowInv'
      /\ Kept
      /\ attempts'[r] # <<>>
      /\ Last(r)' = Last(r)
      /\ Written(r, outcome) => (attempts[r][Last(r)])' = FailureStatus(r)
      /\ \A q \in Request \ {r} : attempts'[q] = attempts[q]
    BY <1>1, Recorded DEF RecordInCatch
<1>3. ControlTypes'
    BY DEF RecordInCatch, Leave, Goto, ControlTypes
<1>4. /\ IF Written(r, outcome)
         THEN \/ pc'[r] = "done"
              \/ pc'[r] = "switch" /\ ~aborted[r] /\ Last(r) < MaxAttempts
         ELSE pc'[r] = "finally"
      /\ \A q \in Request \ {r} : pc'[q] = pc[q] /\ lost'[q] = lost[q]
    BY Leaves DEF RecordInCatch, Goto, ControlTypes
<1>5. Place(r)'
    BY <1>2, <1>4 DEF Place, FailureStatus, Terminal
<1>6. QED
    BY <1>2, <1>3, <1>4, <1>5, OneMoves

(* The finally block: a request that leaves here unrecorded is lost.        *)
LEMMA RecordInFinallyPreserves ==
    ASSUME IInv, NEW r \in Request, NEW outcome \in StoreOutcome,
           RecordInFinally(r, outcome)
    PROVE  IInv' /\ Kept
<1> USE DEF IInv
<1>1. usage[r] \in 0 .. MaxTokens /\ FailureStatus(r) \in Terminal
    BY DEF ControlTypes, FailureStatus, Terminal
<1>2. /\ RowInv'
      /\ Kept
      /\ attempts'[r] # <<>>
      /\ Last(r)' = Last(r)
      /\ Written(r, outcome) => (attempts[r][Last(r)])' = FailureStatus(r)
      /\ \/ outcome = "rolled_back" /\ ~HasEvent(r, Last(r))
         \/ (attempts[r][Last(r)])' \in Terminal
      /\ \A q \in Request \ {r} : attempts'[q] = attempts[q]
    BY <1>1, Recorded DEF RecordInFinally
<1>3. ControlTypes'
    BY DEF RecordInFinally, Leave, Goto, ControlTypes
<1>4. /\ IF Written(r, outcome)
         THEN \/ pc'[r] = "done"
              \/ pc'[r] = "switch" /\ ~aborted[r] /\ Last(r) < MaxAttempts
         ELSE pc'[r] = "done"
      /\ lost'[r] = (outcome = "rolled_back" /\ ~HasEvent(r, Last(r)))
      /\ \A q \in Request \ {r} : pc'[q] = pc[q] /\ lost'[q] = lost[q]
    BY Leaves DEF RecordInFinally, Goto, ControlTypes
<1>5. Place(r)'
    BY <1>2, <1>4 DEF Place, FailureStatus, Terminal
<1>6. QED
    BY <1>2, <1>3, <1>4, <1>5, OneMoves

(* The process dies: rows stay, and an attempt without its record is lost.  *)
LEMMA CrashPreserves ==
    ASSUME IInv, Crash
    PROVE  IInv' /\ Kept
<1> USE DEF IInv
<1>1. RowInv' /\ Kept /\ \A q \in Request : attempts'[q] = attempts[q]
    BY RowsUnchanged DEF Crash
<1>2. ControlTypes'
    BY DEF Crash, ControlTypes, Unrecorded
<1>3. ASSUME NEW q \in Request PROVE Place(q)'
    <2>1. /\ pc'[q] = IF pc[q] = "new" THEN "new" ELSE "done"
          /\ lost'[q] = (lost[q] \/ Unrecorded(q))
        BY DEF Crash
    <2>2. attempts[q] # <<>> /\ HasEvent(q, Last(q))
            => attempts[q][Last(q)] \in Terminal
        BY LastIsAttempt DEF RowInv, EventIffTerminal
    <2>3. pc[q] \in {"new", "streaming", "catch", "finally", "switch", "done"}
        BY DEF ControlTypes
    <2>4. QED
        BY <1>1, <2>1, <2>2, <2>3 DEF Place, Unrecorded, Last, Terminal
<1>4. QED
    BY <1>1, <1>2, <1>3

LEMMA NextPreserves ==
    ASSUME IInv, [Next]_vars
    PROVE  IInv' /\ Kept
<1>1. CASE UNCHANGED vars
    <2>1. RowInv' /\ Kept /\ \A q \in Request : attempts'[q] = attempts[q]
        BY <1>1, RowsUnchanged DEF vars, IInv
    <2>2. ControlTypes' /\ \A q \in Request : Place(q)'
        BY <1>1, <2>1 DEF vars, IInv, ControlTypes, Place, Last
    <2>3. QED
        BY <2>1, <2>2 DEF IInv
<1>2. CASE Next
    BY <1>2, CrashPreserves, BeginPreserves, ResponseStartedPreserves,
       ControlPreserves, CompletePreserves, FailedEventPreserves,
       RecordInCatchPreserves, RecordInFinallyPreserves DEF Next
<1>3. QED
    BY <1>1, <1>2

(* The inductive invariant of the ledger. *)
THEOREM Invariance == Spec => []IInv
<1>1. IInv /\ [Next]_vars => IInv'
    BY NextPreserves
<1>2. QED
    BY InitEstablishes, <1>1, PTL DEF Spec

(* Every variable keeps its type: no request has more than MaxAttempts      *)
(* attempts, whatever the store answers.                                    *)
THEOREM TypeCorrect == Spec => []TypeOK
    BY Invariance, IInvImplies, PTL

(* An attempt is terminal exactly when it has its usage event, and only     *)
(* one, however often the generator records it.                             *)
THEOREM OneEventPerAttempt == Spec => []EventIffTerminal
    BY Invariance, IInvImplies, PTL

(* The request row follows its last attempt.                                *)
THEOREM RequestFollows == Spec => []RequestFollowsAttempt
    BY Invariance, IInvImplies, PTL

(* A fallback follows only an attempt on record as failed.                  *)
THEOREM FallbackAfterFailure == Spec => []FallbackFollowsFailure
    BY Invariance, IInvImplies, PTL

(* A request that is over has its last attempt on record, unless the        *)
(* process died, the consumer walked away or the store failed every time.   *)
THEOREM NoSilentLoss == Spec => []RecordedUnlessLost
    BY Invariance, IInvImplies, PTL

(* The terminal status and the usage event of an attempt never change.      *)
THEOREM TerminalStays == Spec => TerminalIsFinal
<1>1. IInv /\ [Next]_vars
        => [/\ events \subseteq events'
            /\ \A r \in Request : \A s \in 1 .. Last(r) :
                 attempts[r][s] \in Terminal => attempts'[r][s] = attempts[r][s]]_vars
    BY NextPreserves DEF Kept
<1>2. QED
    BY Invariance, <1>1, PTL DEF Spec, TerminalIsFinal
=============================================================================
