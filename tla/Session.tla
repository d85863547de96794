------------------------------ MODULE Session ------------------------------
(***************************************************************************)
(* One session's routing state (packages/routing/src/session.ts).  Every   *)
(* method of SessionCoordinator reads the whole row, computes a new one,   *)
(* and writes the whole row back; between the read and the write other     *)
(* requests and outcome reports of the session do the same.                *)
(*                                                                         *)
(* Timestamps are kept as the ticks left until them, in the row and in     *)
(* every copy that waits to be written.  A timestamp that has passed and   *)
(* one that was never set have 0 left.  The counters are kept up to the    *)
(* thresholds they are compared with, the automatic level up to MaxLevel.  *)
(*                                                                         *)
(* stale, explicit and flagged are history variables.                      *)
(***************************************************************************)
EXTENDS Integers

CONSTANTS
    Actor,       \* requests and reports that may overlap
    Fingerprint, \* fingerprints of stuck transcripts
    NoFingerprint,
    MaxLevel,    \* maxEscalationLevel
    Failures,    \* escalationFailureThreshold
    Successes,   \* successfulOutcomesToDeescalate
    Cooldown,    \* deescalationCooldownMs, in ticks
    Ttl          \* automaticStuckVerdictTtlMs, in ticks

ASSUME SessionAssumption ==
    /\ NoFingerprint \notin Fingerprint
    /\ MaxLevel \in Nat
    /\ Failures \in Nat \ {0}
    /\ Successes \in Nat \ {0}
    /\ Cooldown \in Nat
    /\ Ttl \in Nat \ {0}

VARIABLES
    row,       \* the stored session
    pc,        \* the write each actor waits for, or "idle"
    pending,   \* the row it will write
    found,     \* the fingerprint it goes on to judge after an expiry
    stale,     \* another actor has written since it read
    explicit,  \* levels raised by outcomes and not lowered since
    flagged    \* fingerprints that escalated since the last expiry

vars == <<row, pc, pending, found, stale, explicit, flagged>>

Row == [level     : 0 .. MaxLevel,
        automatic : 0 .. MaxLevel,
        failures  : 0 .. Failures,
        successes : 0 .. Successes,
        cooldown  : 0 .. Cooldown,
        print     : Fingerprint \cup {NoFingerprint},
        ttl       : 0 .. Ttl]

Created == [level |-> 0, automatic |-> 0, failures |-> 0, successes |-> 0,
            cooldown |-> 0, print |-> NoFingerprint, ttl |-> 0]

Kind == {"success", "failure", "user_escalation"}

TypeOK ==
    /\ row \in Row
    /\ pc \in [Actor -> {"idle", "turn", "outcome", "expiry", "stuck"}]
    /\ pending \in [Actor -> Row]
    /\ found \in [Actor -> Fingerprint \cup {NoFingerprint}]
    /\ stale \in [Actor -> BOOLEAN]
    /\ explicit \in 0 .. MaxLevel
    /\ flagged \subseteq Fingerprint

Init ==
    /\ row = Created
    /\ pc = [a \in Actor |-> "idle"]
    /\ pending = [a \in Actor |-> Created]
    /\ found = [a \in Actor |-> NoFingerprint]
    /\ stale = [a \in Actor |-> FALSE]
    /\ explicit = 0
    /\ flagged = {}

-----------------------------------------------------------------------------
AtMost(bound, n) == IF n <= bound THEN n ELSE bound

AtLeastZero(n) == IF n < 0 THEN 0 ELSE n

Aged(state) == [state EXCEPT !.cooldown = AtLeastZero(@ - 1),
                             !.ttl = AtLeastZero(@ - 1)]

(* The counters recordOutcome computes.  Every kind but "success" and       *)
(* "task_completed" is a failure.                                           *)
Counted(state, kind) ==
    [state EXCEPT !.failures = IF kind = "success" THEN 0 ELSE AtMost(Failures, @ + 1),
                  !.successes = IF kind = "success" THEN AtMost(Successes, @ + 1) ELSE 0]

Escalates(counted, kind) ==
    /\ kind = "user_escalation" \/ (kind = "failure" /\ counted.failures = Failures)
    /\ counted.level < MaxLevel

(* Mutant: the cooldown is not asked. *)
DeescalatesAtOnce(counted, kind) ==
    /\ kind = "success"
    /\ counted.level > 0
    /\ counted.successes = Successes

Deescalates(counted, kind) ==
    /\ kind = "success"
    /\ counted.level > 0
    /\ counted.successes = Successes
    /\ counted.cooldown = 0

(* recordOutcome.  Lowering the level leaves automaticEscalationLevel alone.*)
AfterOutcome(state, kind) ==
    LET counted == Counted(state, kind)
    IN  CASE Escalates(counted, kind) ->
               [counted EXCEPT !.level = @ + 1, !.failures = 0, !.successes = 0,
                               !.cooldown = Cooldown]
          [] Deescalates(counted, kind) ->
               [counted EXCEPT !.level = @ - 1, !.successes = 0,
                               !.cooldown = IF state.level > 1 THEN Cooldown ELSE 0]
          [] OTHER -> counted

Expired(state) == state.print # NoFingerprint /\ state.ttl = 0

(* Mutant: the automatic level is taken back but stays on the books. *)
AfterExpiryKeepsCount(state) ==
    [state EXCEPT !.level = AtLeastZero(@ - state.automatic),
                  !.print = NoFingerprint, !.ttl = 0]

AfterExpiry(state) ==
    [state EXCEPT !.level = AtLeastZero(@ - state.automatic),
                  !.automatic = 0, !.print = NoFingerprint, !.ttl = 0]

(* Mutant: the evidence is left for the next outcome to use again. *)
AfterStuckKeepsCounters(state, print) ==
    [state EXCEPT !.level = AtMost(MaxLevel, @ + 1),
                  !.automatic = IF state.level < MaxLevel
                                THEN AtMost(MaxLevel, @ + 1) ELSE @,
                  !.cooldown = Cooldown, !.print = print, !.ttl = Ttl]

AfterStuck(state, print) ==
    [state EXCEPT !.level = AtMost(MaxLevel, @ + 1),
                  !.automatic = IF state.level < MaxLevel
                                THEN AtMost(MaxLevel, @ + 1) ELSE @,
                  !.failures = 0, !.successes = 0,
                  !.cooldown = Cooldown, !.print = print, !.ttl = Ttl]

-----------------------------------------------------------------------------
(* The read and the computation of a method: the write is still to come.    *)
Prepare(a, write, state) ==
    /\ pc' = [pc EXCEPT ![a] = write]
    /\ pending' = [pending EXCEPT ![a] = state]
    /\ stale' = [stale EXCEPT ![a] = FALSE]
    /\ UNCHANGED <<row, explicit, flagged>>

(* recordTurn, when a response has completed.  What it changes itself (the  *)
(* model, the turn count) no other method reads, but it writes the rest too.*)
RecordTurn(a) ==
    /\ pc[a] = "idle"
    /\ Prepare(a, "turn", row)
    /\ UNCHANGED found

RecordOutcome(a, kind) ==
    /\ pc[a] = "idle"
    /\ Prepare(a, "outcome", AfterOutcome(row, kind))
    /\ UNCHANGED found

(* observeProgress, before a request is routed: an expired verdict is       *)
(* written back first.  NoFingerprint is a transcript that is not stuck.          *)
ObserveExpired(a, print) ==
    /\ pc[a] = "idle"
    /\ Expired(row)
    /\ Prepare(a, "expiry", AfterExpiry(row))
    /\ found' = [found EXCEPT ![a] = print]

(* A stuck transcript with another fingerprint than the last one.           *)
ObserveStuck(a, print) ==
    /\ pc[a] = "idle"
    /\ ~Expired(row)
    /\ print \notin {NoFingerprint, row.print}
    /\ Prepare(a, "stuck", AfterStuck(row, print))
    /\ UNCHANGED found

OthersStale(a) == stale' = [b \in Actor |-> b # a /\ (stale[b] \/ pc[b] # "idle")]

(* The row is written.  After an expiry observeProgress goes on with its    *)
(* own copy and not with what is stored by then.                            *)
Write(a) ==
    /\ pc[a] # "idle"
    /\ row' = pending[a]
    /\ IF pc[a] = "expiry" /\ found[a] # NoFingerprint
       THEN /\ pc' = [pc EXCEPT ![a] = "stuck"]
            /\ pending' = [pending EXCEPT ![a] = AfterStuck(@, found[a])]
       ELSE /\ pc' = [pc EXCEPT ![a] = "idle"]
            /\ pending' = [pending EXCEPT ![a] = Created]
    /\ found' = [found EXCEPT ![a] = NoFingerprint]
    /\ OthersStale(a)
    /\ explicit' = CASE pc[a] = "outcome" /\ pending[a].level > row.level ->
                          AtMost(MaxLevel, explicit + 1)
                     [] pc[a] = "outcome" /\ pending[a].level < row.level ->
                          AtLeastZero(explicit - 1)
                     [] OTHER -> explicit
    /\ flagged' = CASE pc[a] = "stuck" -> flagged \cup {pending[a].print}
                    [] pc[a] = "expiry" -> {}
                    [] OTHER -> flagged

(* The store throws and the method with it. *)
WriteFails(a) ==
    /\ pc[a] # "idle"
    /\ pc' = [pc EXCEPT ![a] = "idle"]
    /\ pending' = [pending EXCEPT ![a] = Created]
    /\ found' = [found EXCEPT ![a] = NoFingerprint]
    /\ stale' = [stale EXCEPT ![a] = FALSE]
    /\ UNCHANGED <<row, explicit, flagged>>

Tick ==
    /\ row.cooldown > 0 \/ row.ttl > 0
    /\ row' = Aged(row)
    /\ pending' = [a \in Actor |-> Aged(pending[a])]
    /\ UNCHANGED <<pc, found, stale, explicit, flagged>>

Next ==
    \/ Tick
    \/ \E a \in Actor :
         \/ RecordTurn(a)
         \/ \E kind \in Kind : RecordOutcome(a, kind)
         \/ \E print \in Fingerprint \cup {NoFingerprint} : ObserveExpired(a, print)
         \/ \E print \in Fingerprint : ObserveStuck(a, print)
         \/ Write(a)
         \/ WriteFails(a)

Spec == Init /\ [][Next]_vars

-----------------------------------------------------------------------------
(* A level raised by the progress detector is always on a deadline: as long *)
(* as the row counts an automatic level it carries the verdict whose expiry *)
(* takes it back, whichever copies are written over one another.            *)
AutomaticHasVerdict == row.automatic > 0 => row.print # NoFingerprint

WrittenBy(a) == pc[a] # "idle" /\ row' = pending[a]

(* The level only falls by one after the cooldown, by the automatic levels  *)
(* when a verdict expires, or because a copy read earlier is written over   *)
(* it.                                                                      *)
LevelFallsByPolicy ==
    [][row'.level < row.level =>
         \E a \in Actor :
            /\ WrittenBy(a)
            /\ \/ stale[a]
               \/ pc[a] = "expiry" /\ row'.automatic = 0
               \/ row'.level = row.level - 1 /\ row.cooldown = 0]_vars

(* An escalation uses its evidence up: it raises the level by one and       *)
(* clears both counters, so the same failures cannot escalate twice, unless *)
(* it is an old copy that brings an old level back.                         *)
EscalationConsumesEvidence ==
    [][row'.level > row.level =>
         \E a \in Actor :
            /\ WrittenBy(a)
            /\ \/ stale[a]
               \/ /\ row'.level = row.level + 1
                  /\ row'.failures = 0
                  /\ row'.successes = 0]_vars

(* docs/session-resilience.md:35-36: "Automatic levels expire after         *)
(* `automaticStuckVerdictTtlMs`; explicit outcome levels continue to follow *)
(* the normal success/cooldown policy."  A level that an outcome raised is  *)
(* not taken back by an expiry.                                             *)
(* Refuted by the code: see the findings in the README.                     *)
ExplicitLevelsKept == row.level >= explicit

(* docs/session-resilience.md:33-34: "The same fingerprint cannot escalate  *)
(* a session twice."  Read within the life of a verdict, which an expiry    *)
(* ends.                                                                    *)
(* Refuted by the code: see the findings in the README.                     *)
SameFingerprintOnce ==
    [][\A a \in Actor :
         pc[a] = "stuck" /\ WrittenBy(a) /\ row'.level > row.level
           => pending[a].print \notin flagged]_vars
=============================================================================
