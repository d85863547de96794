--------------------------- MODULE CircuitBreaker ---------------------------
(***************************************************************************)
(* One entry of CircuitBreakerRegistry (packages/routing/src/              *)
(* circuit-breaker.ts) as a value, and the registry's methods as operators *)
(* from the entry before the call to the entry after it.  The methods are  *)
(* synchronous, so a module that uses them applies each in one step.       *)
(*                                                                         *)
(* The registry deletes an entry to close it and creates one on demand; a  *)
(* missing entry answers every method as Fresh does, so Fresh stands for   *)
(* both.  openedAt is kept as the time passed since it, up to OpenDuration *)
(* ("age"): the code only ever asks whether OpenDuration has passed.       *)
(* consecutiveFailures is kept up to FailureThreshold: the code only asks  *)
(* whether the threshold is reached, and never lowers the count by one.    *)
(***************************************************************************)
EXTENDS Integers

CONSTANTS
    FailureThreshold,         \* failures in a row that open a closed circuit
    OpenDuration,             \* ticks an open circuit refuses every request
    HalfOpenSuccessThreshold  \* successes that close a half-open circuit

ASSUME PolicyAssumption ==
    /\ FailureThreshold \in Nat \ {0}
    /\ OpenDuration \in Nat \ {0}
    /\ HalfOpenSuccessThreshold \in Nat \ {0}

Circuit == [state     : {"closed", "open", "half_open"},
            failures  : 0 .. FailureThreshold,
            successes : 0 .. HalfOpenSuccessThreshold - 1,
            age       : 0 .. OpenDuration,
            probe     : BOOLEAN]

Fresh == [state |-> "closed", failures |-> 0, successes |-> 0,
          age |-> 0, probe |-> FALSE]

(* Mutant: the state is not looked at. *)
ElapsedInAnyState(circuit) == circuit.age = OpenDuration

Elapsed(circuit) == circuit.state = "open" /\ circuit.age = OpenDuration

(* Time passes: only an open circuit looks at its age. *)
Aged(circuit) ==
    IF circuit.state = "open" /\ circuit.age < OpenDuration
    THEN [circuit EXCEPT !.age = @ + 1]
    ELSE circuit

HalfOpened(circuit, probing) ==
    [circuit EXCEPT !.state = "half_open", !.probe = probing]

(* open(): the failure count and nothing else survives. *)
Opened(circuit) ==
    [circuit EXCEPT !.state = "open", !.age = 0, !.successes = 0, !.probe = FALSE]

(* Mutant: an open circuit does not wait for its duration. *)
AdmitsWithoutWaiting(circuit) ==
    circuit.state \in {"closed", "open"} \/ ~circuit.probe

(* The answer of canRequest, and what the call leaves behind. *)
Admits(circuit) ==
    \/ circuit.state = "closed"
    \/ Elapsed(circuit)
    \/ circuit.state = "half_open" /\ ~circuit.probe

(* Mutant: the probe is admitted and not remembered. *)
AfterCanRequestUnmarked(circuit) ==
    IF circuit.state # "closed" /\ Admits(circuit)
    THEN HalfOpened(circuit, FALSE)
    ELSE circuit

AfterCanRequest(circuit) ==
    IF circuit.state # "closed" /\ Admits(circuit)
    THEN HalfOpened(circuit, TRUE)
    ELSE circuit

(* recordSuccess: any circuit that is not half-open is deleted, an open one *)
(* too; a half-open one when it has seen enough successes.                  *)
RecordSuccess(circuit) ==
    IF /\ circuit.state = "half_open"
       /\ circuit.successes + 1 < HalfOpenSuccessThreshold
    THEN [circuit EXCEPT !.successes = @ + 1, !.probe = FALSE]
    ELSE Fresh

CountFailure(circuit) ==
    IF circuit.failures < FailureThreshold
    THEN [circuit EXCEPT !.failures = @ + 1]
    ELSE circuit

(* recordFailure: a half-open circuit opens again at once; another counts  *)
(* the failure, and an open one that is over the threshold is re-armed.    *)
RecordFailure(circuit) ==
    IF circuit.state = "half_open"
    THEN Opened(circuit)
    ELSE LET counted == CountFailure(circuit)
         IN  IF counted.failures = FailureThreshold THEN Opened(counted) ELSE counted

ReleaseProbe(circuit) ==
    IF circuit.state = "half_open" THEN [circuit EXCEPT !.probe = FALSE] ELSE circuit

(* Mutant: isBlocked only looks. *)
RefreshNothing(circuit) == circuit

(* isBlocked, which blockedKeys calls on every entry, half-opens an entry   *)
(* whose time has passed before it answers.                                 *)
Refresh(circuit) ==
    IF Elapsed(circuit) THEN HalfOpened(circuit, FALSE) ELSE circuit

Blocked(circuit) ==
    LET refreshed == Refresh(circuit)
    IN  refreshed.state = "open" \/ refreshed.probe
=============================================================================
