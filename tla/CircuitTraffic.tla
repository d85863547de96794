--------------------------- MODULE CircuitTraffic ---------------------------
(***************************************************************************)
(* The circuit registry shared by every request of a gateway.  An attempt  *)
(* passes canRequestModel (apps/gateway/src/fallback.ts), which asks the   *)
(* circuit of the model's provider and then the circuit of the model, runs *)
(* for as long as its stream does, and then reports success or failure to  *)
(* both circuits, or ends without a report.  Nothing ties a report to the  *)
(* admission it answers: that is what the properties are about.            *)
(*                                                                         *)
(* probers, strays and leaked are history variables: no guard reads them.  *)
(***************************************************************************)
EXTENDS CircuitBreaker

CONSTANTS
    Model, Provider,
    ProviderOf,   \* the provider of each model
    Caller,       \* attempts that may be in flight together
    NoModel       \* flight[c] of a caller that is not in flight

ASSUME TrafficAssumption ==
    /\ ProviderOf \in [Model -> Provider]
    /\ Model \cap Provider = {}      \* provider keys have the prefix "provider:"
    /\ NoModel \notin Model

VARIABLES
    circuits,   \* the registry: an entry for each key
    flight,     \* the model each caller has an attempt in flight on
    probers,    \* callers in flight whose admission took the probe of a key
    strays,     \* a caller that held no probe of the key reported on it while
                \* a prober was in flight
    leaked      \* a prober of the key ended without a report, and the probe
                \* it took is still set

vars == <<circuits, flight, probers, strays, leaked>>

Key == Model \cup Provider

KeysOf(model) == {model, ProviderOf[model]}

TypeOK ==
    /\ circuits \in [Key -> Circuit]
    /\ flight \in [Caller -> Model \cup {NoModel}]
    /\ probers \in [Key -> SUBSET Caller]
    /\ strays \in [Key -> BOOLEAN]
    /\ leaked \in [Key -> BOOLEAN]

Init ==
    /\ circuits = [k \in Key |-> Fresh]
    /\ flight = [c \in Caller |-> NoModel]
    /\ probers = [k \in Key |-> {}]
    /\ strays = [k \in Key |-> FALSE]
    /\ leaked = [k \in Key |-> FALSE]

-----------------------------------------------------------------------------
Tick ==
    /\ \E k \in Key : Aged(circuits[k]) # circuits[k]
    /\ circuits' = [k \in Key |-> Aged(circuits[k])]
    /\ UNCHANGED <<flight, probers, strays, leaked>>

(* executeCanonical calls blockedKeys before it routes a request. *)
Scan ==
    /\ \E k \in Key : Elapsed(circuits[k])
    /\ circuits' = [k \in Key |-> Refresh(circuits[k])]
    /\ UNCHANGED <<flight, probers, strays, leaked>>

(* canRequestModel asks the provider's circuit and then the model's: both   *)
(* must admit, and each that is not closed gives this caller its probe.     *)
Admit(c, model) ==
    /\ flight[c] = NoModel
    /\ \A k \in KeysOf(model) : Admits(circuits[k])
    /\ circuits' = [k \in Key |-> IF k \in KeysOf(model)
                                  THEN AfterCanRequest(circuits[k])
                                  ELSE circuits[k]]
    /\ flight' = [flight EXCEPT ![c] = model]
    /\ probers' = [k \in Key |->
                     IF k \in KeysOf(model) /\ circuits[k].state # "closed"
                     THEN probers[k] \cup {c}
                     ELSE probers[k]]
    /\ UNCHANGED <<strays, leaked>>

(* Mutant: the provider's probe is not given back. *)
RefuseModelKeepsProbe(model) ==
    /\ Admits(circuits[ProviderOf[model]])
    /\ ~Admits(circuits[model])
    /\ circuits' = [circuits EXCEPT ![ProviderOf[model]] = AfterCanRequest(@)]
    /\ UNCHANGED <<flight, probers, strays, leaked>>

(* The provider's circuit admits and the model's refuses: the probe taken a *)
(* moment ago on the provider's circuit is given back.                      *)
RefuseModel(model) ==
    /\ Admits(circuits[ProviderOf[model]])
    /\ ~Admits(circuits[model])
    /\ circuits' = [circuits EXCEPT
                      ![ProviderOf[model]] = ReleaseProbe(AfterCanRequest(@))]
    /\ UNCHANGED <<flight, probers, strays, leaked>>

(* recordModelSuccess and recordModelFailure report to both keys in one     *)
(* synchronous call.  A caller that holds no probe of a key is a stray on   *)
(* it when it reports next to a live prober.                                *)
Settle(c, Recorded(_)) ==
    /\ flight[c] # NoModel
    /\ circuits' = [k \in Key |-> IF k \in KeysOf(flight[c])
                                  THEN Recorded(circuits[k])
                                  ELSE circuits[k]]
    /\ flight' = [flight EXCEPT ![c] = NoModel]
    /\ probers' = [k \in Key |-> probers[k] \ {c}]
    /\ strays' = [k \in Key |->
                    /\ probers[k] \ {c} # {}
                    /\ \/ strays[k]
                       \/ k \in KeysOf(flight[c]) /\ c \notin probers[k]]
    /\ leaked' = [k \in Key |-> leaked[k] /\ k \notin KeysOf(flight[c])]

SettleSuccess(c) == Settle(c, RecordSuccess)

SettleFailure(c) == Settle(c, RecordFailure)

(* The attempt ends and no circuit hears of it: a failure that is not       *)
(* retryable, a cancelled client, a store that throws, or a consumer that   *)
(* stops reading the stream.                                                *)
SettleSilent(c) ==
    /\ flight[c] # NoModel
    /\ flight' = [flight EXCEPT ![c] = NoModel]
    /\ probers' = [k \in Key |-> probers[k] \ {c}]
    /\ strays' = [k \in Key |-> strays[k] /\ probers[k] \ {c} # {}]
    /\ leaked' = [k \in Key |-> leaked[k] \/ (c \in probers[k] /\ circuits[k].probe)]
    /\ UNCHANGED circuits

Finish(c) == SettleSuccess(c) \/ SettleFailure(c) \/ SettleSilent(c)

Next ==
    \/ Tick
    \/ Scan
    \/ \E c \in Caller, model \in Model : Admit(c, model)
    \/ \E model \in Model : RefuseModel(model)
    \/ \E c \in Caller : Finish(c)

Spec == Init /\ [][Next]_vars

(* Time passes, and every attempt ends: the provider client's timeout and   *)
(* the fallback deadline bound each one.  New requests need not come.       *)
FairSpec ==
    /\ Spec
    /\ WF_vars(Tick)
    /\ \A c \in Caller : WF_vars(Finish(c))

-----------------------------------------------------------------------------
(* A half-open circuit has one probe in flight (docs/session-resilience.md) *)
(* as long as no straggler, admitted before the circuit opened, reports to  *)
(* it: the probe flag a report clears is then always the reporter's own.    *)
SingleProbeUnlessStray ==
    \A k \in Key : strays[k] \/ \A c1, c2 \in probers[k] : c1 = c2

(* While no straggler interferes, a live prober means the circuit really is *)
(* half-open with its probe taken: nobody else closes, opens or frees it    *)
(* under the probe.                                                         *)
ProbeUndisturbed ==
    \A k \in Key : \/ strays[k]
                   \/ probers[k] = {}
                   \/ circuits[k].state = "half_open" /\ circuits[k].probe

(* A taken probe blocks its key, so somebody must be able to give it back:  *)
(* a caller in flight that took it, unless one ended without a report.  In  *)
(* particular a request refused by the model's circuit keeps no probe of    *)
(* the provider's.                                                          *)
ProbeAccounted ==
    \A k \in Key : circuits[k].probe =>
                     /\ circuits[k].state = "half_open"
                     /\ (probers[k] # {} \/ leaked[k])

(* An open circuit stays open for its whole duration whatever scans,        *)
(* refusals, failures and admissions of other keys do.  One thing ends it   *)
(* early: the late success of an attempt in flight on the key, because      *)
(* recordSuccess deletes an entry whatever its state.                       *)
OpenHolds ==
    [][\A k \in Key :
         circuits[k].state = "open" /\ ~Elapsed(circuits[k])
           => \/ circuits'[k].state = "open"
              \/ /\ circuits'[k] = Fresh
                 /\ \E c \in Caller : /\ flight[c] # NoModel
                                      /\ k \in KeysOf(flight[c])
                                      /\ flight'[c] = NoModel]_vars

(* A blocked key is offered again: its open time passes or its probe        *)
(* reports, unless the prober ended without a report.                       *)
BlockedEventuallyAdmits ==
    \A k \in Key : Blocked(circuits[k]) ~> (~Blocked(circuits[k]) \/ leaked[k])

(* docs/session-resilience.md:93-94: "A half-open circuit allows a single   *)
(* probe so concurrent traffic cannot stampede a recovering upstream."      *)
(* Refuted by the code: see the findings in the README.                     *)
SingleProbe ==
    \A k \in Key : circuits[k].state = "half_open" =>
                     \A c1, c2 \in probers[k] : c1 = c2

(* docs/session-resilience.md:85-91 draws open -> half_open -> closed or    *)
(* open, with no way to stay: a blocked key is always offered again.        *)
(* Refuted by the code: see the findings in the README.                     *)
BlockedEventuallyRecovers ==
    \A k \in Key : Blocked(circuits[k]) ~> ~Blocked(circuits[k])
=============================================================================
