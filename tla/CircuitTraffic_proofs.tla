------------------------ MODULE CircuitTraffic_proofs ------------------------
(***************************************************************************)
(* The safety of CircuitTraffic for any number of callers, models and      *)
(* providers and any policy.  None of SingleProbeUnlessStray,              *)
(* ProbeUndisturbed and ProbeAccounted is inductive alone: together with   *)
(* the fact that a prober is in flight on the key it probes they are.      *)
(***************************************************************************)
EXTENDS CircuitTraffic, TLAPS

-----------------------------------------------------------------------------
(* What the methods of the registry return and preserve, for every policy. *)

(* Every method leaves a well-formed entry behind: the counters stay inside *)
(* their thresholds and the age inside the open time.                       *)
LEMMA CircuitClosure ==
    ASSUME NEW circuit \in Circuit
    PROVE  /\ Fresh \in Circuit
           /\ Aged(circuit) \in Circuit
           /\ Opened(circuit) \in Circuit
           /\ AfterCanRequest(circuit) \in Circuit
           /\ RecordSuccess(circuit) \in Circuit
           /\ RecordFailure(circuit) \in Circuit
           /\ ReleaseProbe(circuit) \in Circuit
           /\ Refresh(circuit) \in Circuit
<1> USE PolicyAssumption DEF Circuit
<1>1. Fresh \in Circuit
    BY DEF Fresh
<1>2. Aged(circuit) \in Circuit
    BY DEF Aged
<1>3. ASSUME NEW c \in Circuit
      PROVE  Opened(c) \in Circuit
    <2>1. 0 \in 0 .. OpenDuration /\ 0 \in 0 .. HalfOpenSuccessThreshold - 1
        OBVIOUS
    <2>2. QED
        BY <2>1 DEF Opened
<1>4. AfterCanRequest(circuit) \in Circuit
    BY DEF AfterCanRequest, HalfOpened
<1>5. RecordSuccess(circuit) \in Circuit
    <2>1. circuit.successes + 1 < HalfOpenSuccessThreshold
            => circuit.successes + 1 \in 0 .. HalfOpenSuccessThreshold - 1
        OBVIOUS
    <2>2. QED
        BY <1>1, <2>1 DEF RecordSuccess
<1>6. CountFailure(circuit) \in Circuit
    BY DEF CountFailure
<1>7. RecordFailure(circuit) \in Circuit
    BY <1>3, <1>6 DEF RecordFailure
<1>8. ReleaseProbe(circuit) \in Circuit
    BY DEF ReleaseProbe
<1>9. Refresh(circuit) \in Circuit
    BY DEF Refresh, HalfOpened
<1>10. QED
    BY <1>1, <1>2, <1>3, <1>4, <1>5, <1>7, <1>8, <1>9

(* A report frees the probe: after recordSuccess or recordFailure no probe  *)
(* is taken, if only half-open circuits had one taken before.               *)
LEMMA ReportFreesProbe ==
    ASSUME NEW circuit \in Circuit,
           circuit.probe => circuit.state = "half_open"
    PROVE  ~RecordSuccess(circuit).probe /\ ~RecordFailure(circuit).probe
<1> USE PolicyAssumption DEF Circuit
<1>1. ~RecordSuccess(circuit).probe
    BY DEF RecordSuccess, Fresh
<1>2. CASE circuit.state = "half_open"
    BY <1>1, <1>2 DEF RecordFailure, Opened
<1>3. CASE circuit.state # "half_open"
    BY <1>1, <1>3 DEF RecordFailure, Opened, CountFailure
<1>4. QED
    BY <1>2, <1>3

(* Admission takes the probe of every circuit that is not closed.           *)
LEMMA AdmissionTakesProbe ==
    ASSUME NEW circuit \in Circuit, Admits(circuit)
    PROVE  IF circuit.state = "closed"
           THEN AfterCanRequest(circuit) = circuit
           ELSE /\ AfterCanRequest(circuit).state = "half_open"
                /\ AfterCanRequest(circuit).probe
BY DEF AfterCanRequest, HalfOpened, Circuit

(* Neither the passing of time nor a scan frees a probe that is taken or    *)
(* takes one, and a half-open circuit stays as it is.                       *)
LEMMA WaitingKeepsProbe ==
    ASSUME NEW circuit \in Circuit,
           circuit.probe => circuit.state = "half_open"
    PROVE  /\ circuit.state = "half_open" => /\ Aged(circuit) = circuit
                                             /\ Refresh(circuit) = circuit
           /\ circuit.state # "half_open" => /\ ~Aged(circuit).probe
                                             /\ ~Refresh(circuit).probe
BY DEF Aged, Refresh, HalfOpened, Elapsed, Circuit

(* A failure never ends an open circuit's open time early: it is counted or *)
(* it starts the open time again.                                           *)
LEMMA FailureKeepsOpen ==
    ASSUME NEW circuit \in Circuit, circuit.state = "open"
    PROVE  RecordFailure(circuit).state = "open"
BY DEF RecordFailure, CountFailure, Opened, Circuit

-----------------------------------------------------------------------------
(* The registry and its callers. *)

(* The probe of a key is held only by an attempt on that model or on a      *)
(* model of that provider.                                                  *)
ProbersInFlight ==
    \A k \in Key : \A c \in probers[k] :
        flight[c] # NoModel /\ k \in KeysOf(flight[c])

IInv ==
    /\ TypeOK
    /\ ProbersInFlight
    /\ SingleProbeUnlessStray
    /\ ProbeUndisturbed
    /\ ProbeAccounted

(* Both circuits of a model are entries of the registry.                    *)
LEMMA KeysOfModel ==
    \A model \in Model : KeysOf(model) \subseteq Key
BY TrafficAssumption DEF KeysOf, Key

LEMMA InitEstablishes == Init => IInv
<1> SUFFICES ASSUME Init PROVE IInv
    OBVIOUS
<1>1. Fresh \in Circuit
    BY PolicyAssumption DEF Fresh, Circuit
<1>2. TypeOK
    BY <1>1 DEF Init, TypeOK
<1>3. QED
    BY <1>2 DEF Init, IInv, ProbersInFlight, SingleProbeUnlessStray,
                ProbeUndisturbed, ProbeAccounted, Fresh

(* Time and scans: a half-open circuit does not move, and where one moves   *)
(* there is no undisturbed prober.                                          *)
LEMMA WaitingPreserves ==
    ASSUME IInv, Tick \/ Scan
    PROVE  IInv'
<1> USE DEF IInv
<1>1. /\ UNCHANGED <<flight, probers, strays, leaked>>
      /\ \/ circuits' = [k \in Key |-> Aged(circuits[k])]
         \/ circuits' = [k \in Key |-> Refresh(circuits[k])]
    BY DEF Tick, Scan
<1>2. \A k \in Key : circuits[k] \in Circuit
    BY DEF TypeOK
<1>3. TypeOK'
    BY <1>1, <1>2, CircuitClosure DEF TypeOK
<1>4. ASSUME NEW k \in Key
      PROVE  IF circuits[k].state = "half_open"
             THEN circuits'[k] = circuits[k]
             ELSE ~circuits'[k].probe
    <2>1. circuits[k].probe => circuits[k].state = "half_open"
        BY DEF ProbeAccounted
    <2>2. QED
        BY <1>1, <1>2, <2>1, WaitingKeepsProbe
<1>5. ProbersInFlight' /\ SingleProbeUnlessStray'
    BY <1>1 DEF ProbersInFlight, SingleProbeUnlessStray
<1>6. ProbeUndisturbed' /\ ProbeAccounted'
    BY <1>1, <1>4 DEF ProbeUndisturbed, ProbeAccounted
<1>7. QED
    BY <1>3, <1>5, <1>6

(* An admission on a circuit that is not closed finds its probe free, so    *)
(* the caller becomes its only undisturbed prober.                          *)
LEMMA AdmitPreserves ==
    ASSUME IInv, NEW c \in Caller, NEW model \in Model, Admit(c, model)
    PROVE  IInv'
<1> USE DEF IInv
<1> DEFINE taken(k) == k \in KeysOf(model) /\ circuits[k].state # "closed"
<1>1. \A k \in Key : circuits[k] \in Circuit
    BY DEF TypeOK
<1>2. /\ flight[c] = NoModel
      /\ flight' = [flight EXCEPT ![c] = model]
      /\ \A k \in KeysOf(model) : Admits(circuits[k])
      /\ UNCHANGED <<strays, leaked>>
    BY DEF Admit
<1>3. \A k \in Key : probers'[k] = IF taken(k) THEN probers[k] \cup {c} ELSE probers[k]
    BY DEF Admit
<1>4. \A k \in Key : circuits'[k] = IF k \in KeysOf(model)
                                    THEN AfterCanRequest(circuits[k])
                                    ELSE circuits[k]
    BY DEF Admit
<1>5. TypeOK'
    <2>1. circuits' \in [Key -> Circuit]
        BY <1>1, CircuitClosure DEF Admit
    <2>2. probers' \in [Key -> SUBSET Caller]
        BY DEF Admit, TypeOK
    <2>3. QED
        BY <1>2, <2>1, <2>2 DEF TypeOK
<1>6. ASSUME NEW k \in Key
      PROVE  IF taken(k)
             THEN circuits'[k].state = "half_open" /\ circuits'[k].probe
             ELSE circuits'[k] = circuits[k]
    BY <1>1, <1>2, <1>4, AdmissionTakesProbe
<1>7. ASSUME NEW k \in Key, taken(k)
      PROVE  strays[k] \/ probers[k] = {}
    BY <1>2, <1>7 DEF ProbeUndisturbed, Admits, Elapsed
<1>8. ProbersInFlight'
    <2> SUFFICES ASSUME NEW k \in Key, NEW d \in probers'[k]
                 PROVE  flight'[d] # NoModel /\ k \in KeysOf(flight'[d])
        BY DEF ProbersInFlight
    <2>1. c \in Caller /\ d \in Caller
        BY <1>5 DEF TypeOK
    <2>2. CASE d = c
        <3>1. c \notin probers[k]
            BY <1>2 DEF ProbersInFlight
        <3>2. k \in KeysOf(model)
            BY <1>3, <2>2, <3>1
        <3>3. flight'[c] = model
            BY <1>2, <2>1 DEF TypeOK
        <3>4. QED
            BY <2>2, <3>2, <3>3, TrafficAssumption
    <2>3. CASE d # c
        BY <1>2, <1>3, <2>1, <2>3 DEF ProbersInFlight, TypeOK
    <2>4. QED
        BY <2>2, <2>3
<1>9. SingleProbeUnlessStray'
    BY <1>2, <1>3, <1>7 DEF SingleProbeUnlessStray
<1>10. ProbeUndisturbed'
    BY <1>2, <1>3, <1>6 DEF ProbeUndisturbed
<1>11. ProbeAccounted'
    BY <1>2, <1>3, <1>6 DEF ProbeAccounted
<1>12. QED
    BY <1>5, <1>8, <1>9, <1>10, <1>11

(* A refusal by the model's circuit leaves the provider's without a probe,  *)
(* and it had no undisturbed prober: its probe was free a moment before.    *)
LEMMA RefusePreserves ==
    ASSUME IInv, NEW model \in Model, RefuseModel(model)
    PROVE  IInv'
<1> USE DEF IInv
<1> DEFINE p == ProviderOf[model]
<1> DEFINE refused == ReleaseProbe(AfterCanRequest(circuits[p]))
<1>1. p \in Key
    BY TrafficAssumption DEF Key
<1>2. circuits[p] \in Circuit /\ AfterCanRequest(circuits[p]) \in Circuit
    BY <1>1, CircuitClosure DEF TypeOK
<1>3. refused \in Circuit
    BY <1>2, CircuitClosure
<1>4. /\ Admits(circuits[p])
      /\ circuits' = [circuits EXCEPT ![p] = refused]
      /\ UNCHANGED <<flight, probers, strays, leaked>>
    BY DEF RefuseModel
<1>5. TypeOK'
    BY <1>1, <1>3, <1>4 DEF TypeOK
<1>6. \/ refused = circuits[p]
      \/ ~refused.probe /\ (strays[p] \/ probers[p] = {})
    <2>1. CASE circuits[p].state = "closed"
        BY <2>1 DEF AfterCanRequest, ReleaseProbe
    <2>2. CASE circuits[p].state # "closed"
        <3>1. ~refused.probe
            BY <1>2, <1>4, <2>2, AdmissionTakesProbe DEF ReleaseProbe, Circuit
        <3>2. strays[p] \/ probers[p] = {}
            BY <1>1, <1>4, <2>2 DEF ProbeUndisturbed, Admits, Elapsed
        <3>3. QED
            BY <3>1, <3>2
    <2>3. QED
        BY <2>1, <2>2
<1>7. \A k \in Key : circuits'[k] = IF k = p THEN refused ELSE circuits[k]
    BY <1>4 DEF TypeOK
<1>8. ProbersInFlight' /\ SingleProbeUnlessStray'
    BY <1>4 DEF ProbersInFlight, SingleProbeUnlessStray
<1>9. ProbeUndisturbed' /\ ProbeAccounted'
    BY <1>4, <1>6, <1>7 DEF ProbeUndisturbed, ProbeAccounted
<1>10. QED
    BY <1>5, <1>8, <1>9

(* A report frees the probe of both its keys.  Next to a live prober it is  *)
(* the prober's own, and it was the only one, or the key is marked.         *)
LEMMA ReportPreserves ==
    ASSUME IInv, NEW c \in Caller, SettleSuccess(c) \/ SettleFailure(c)
    PROVE  IInv'
<1> USE DEF IInv
<1> DEFINE keys == KeysOf(flight[c])
<1>1. /\ flight[c] \in Model
      /\ flight' = [flight EXCEPT ![c] = NoModel]
    BY DEF SettleSuccess, SettleFailure, Settle, TypeOK
<1>2. \A k \in Key : probers'[k] = probers[k] \ {c}
    BY DEF SettleSuccess, SettleFailure, Settle
<1>3. \A k \in Key : strays'[k] = /\ probers[k] \ {c} # {}
                                  /\ strays[k] \/ (k \in keys /\ c \notin probers[k])
    BY DEF SettleSuccess, SettleFailure, Settle
<1>4. \A k \in Key : leaked'[k] = (leaked[k] /\ k \notin keys)
    BY DEF SettleSuccess, SettleFailure, Settle
<1>5. \A k \in Key : \/ k \notin keys /\ circuits'[k] = circuits[k]
                     \/ k \in keys /\ circuits'[k] = RecordSuccess(circuits[k])
                     \/ k \in keys /\ circuits'[k] = RecordFailure(circuits[k])
    BY DEF SettleSuccess, SettleFailure, Settle
<1>6. \A k \in Key : circuits[k] \in Circuit
    BY DEF TypeOK
<1>7. TypeOK'
    <2>1. circuits' \in [Key -> Circuit]
        BY <1>6, CircuitClosure DEF SettleSuccess, SettleFailure, Settle
    <2>2. probers' \in [Key -> SUBSET Caller]
        BY DEF SettleSuccess, SettleFailure, Settle, TypeOK
    <2>3. strays' \in [Key -> BOOLEAN]
        BY DEF SettleSuccess, SettleFailure, Settle, TypeOK
    <2>4. leaked' \in [Key -> BOOLEAN]
        BY DEF SettleSuccess, SettleFailure, Settle, TypeOK
    <2>5. QED
        BY <1>1, <2>1, <2>2, <2>3, <2>4 DEF TypeOK
<1>8. ASSUME NEW k \in Key, k \in keys
      PROVE  ~circuits'[k].probe
    <2>1. circuits[k].probe => circuits[k].state = "half_open"
        BY DEF ProbeAccounted
    <2>2. QED
        BY <1>5, <1>6, <1>8, <2>1, ReportFreesProbe
<1>9. \A k \in Key : k \notin keys => c \notin probers[k]
    BY DEF ProbersInFlight
<1>10. ASSUME NEW k \in Key, ~strays'[k], probers'[k] # {}
       PROVE  ~strays[k] /\ probers'[k] = probers[k] /\ circuits'[k] = circuits[k]
    <2>1. ~strays[k]
        BY <1>2, <1>3, <1>10
    <2>2. c \notin probers[k]
        BY <1>2, <1>10, <2>1 DEF SingleProbeUnlessStray
    <2>3. k \notin keys
        BY <1>2, <1>3, <1>10, <2>2
    <2>4. QED
        BY <1>2, <1>5, <2>1, <2>2, <2>3
<1>11. ProbersInFlight'
    BY <1>1, <1>2 DEF ProbersInFlight, TypeOK
<1>12. SingleProbeUnlessStray' /\ ProbeUndisturbed'
    BY <1>10 DEF SingleProbeUnlessStray, ProbeUndisturbed
<1>13. ProbeAccounted'
    <2> SUFFICES ASSUME NEW k \in Key, circuits'[k].probe
                 PROVE  /\ circuits'[k].state = "half_open"
                        /\ probers'[k] # {} \/ leaked'[k]
        BY DEF ProbeAccounted
    <2>1. k \notin keys
        BY <1>8
    <2>2. circuits'[k] = circuits[k] /\ c \notin probers[k]
        BY <1>5, <1>9, <2>1
    <2>3. QED
        BY <1>2, <1>4, <2>1, <2>2 DEF ProbeAccounted
<1>14. QED
    BY <1>7, <1>11, <1>12, <1>13

(* An attempt that ends in silence takes nothing but itself away, and marks *)
(* the keys whose probe it leaves taken.                                    *)
LEMMA SilentPreserves ==
    ASSUME IInv, NEW c \in Caller, SettleSilent(c)
    PROVE  IInv'
<1> USE DEF IInv
<1>1. /\ flight' = [flight EXCEPT ![c] = NoModel]
      /\ UNCHANGED circuits
    BY DEF SettleSilent
<1>2. \A k \in Key :
         /\ probers'[k] = probers[k] \ {c}
         /\ strays'[k] = (strays[k] /\ probers[k] \ {c} # {})
         /\ leaked'[k] = (leaked[k] \/ (c \in probers[k] /\ circuits[k].probe))
    BY DEF SettleSilent
<1>3. TypeOK'
    <2>1. /\ probers' \in [Key -> SUBSET Caller]
          /\ strays' \in [Key -> BOOLEAN]
          /\ leaked' \in [Key -> BOOLEAN]
        BY DEF SettleSilent, TypeOK
    <2>2. QED
        BY <1>1, <2>1 DEF TypeOK
<1>4. ProbersInFlight'
    BY <1>1, <1>2 DEF ProbersInFlight, TypeOK
<1>5. SingleProbeUnlessStray' /\ ProbeUndisturbed'
    BY <1>1, <1>2 DEF SingleProbeUnlessStray, ProbeUndisturbed
<1>6. ProbeAccounted'
    BY <1>1, <1>2 DEF ProbeAccounted
<1>7. QED
    BY <1>3, <1>4, <1>5, <1>6

-----------------------------------------------------------------------------
(* The invariant holds in every state of the registry.                      *)
THEOREM Invariance == Spec => []IInv
<1>1. Init => IInv
    BY InitEstablishes
<1>2. IInv /\ [Next]_vars => IInv'
    <2> SUFFICES ASSUME IInv, [Next]_vars PROVE IInv'
        OBVIOUS
    <2>1. CASE Tick
        BY <2>1, WaitingPreserves
    <2>2. CASE Scan
        BY <2>2, WaitingPreserves
    <2>3. CASE \E c \in Caller, model \in Model : Admit(c, model)
        BY <2>3, AdmitPreserves
    <2>4. CASE \E model \in Model : RefuseModel(model)
        BY <2>4, RefusePreserves
    <2>5. CASE \E c \in Caller : Finish(c)
        BY <2>5, ReportPreserves, SilentPreserves DEF Finish
    <2>6. CASE UNCHANGED vars
        BY <2>6 DEF vars, IInv, TypeOK, ProbersInFlight, SingleProbeUnlessStray,
                    ProbeUndisturbed, ProbeAccounted
    <2>7. QED
        BY <2>1, <2>2, <2>3, <2>4, <2>5, <2>6 DEF Next
<1>3. QED
    BY <1>1, <1>2, PTL DEF Spec

(* canRequestModel, recordModelSuccess, recordModelFailure and blockedKeys  *)
(* keep the registry's entries well formed.                                 *)
THEOREM TypeCorrect == Spec => []TypeOK
BY Invariance, PTL DEF IInv

(* Without a straggler's report at most one probe of a key is in flight,    *)
(* whatever the number of callers and of models behind a provider.          *)
THEOREM OneProbe == Spec => []SingleProbeUnlessStray
BY Invariance, PTL DEF IInv

(* Without a straggler's report the circuit stays half-open, with its probe *)
(* taken, for as long as the prober is in flight.                           *)
THEOREM Undisturbed == Spec => []ProbeUndisturbed
BY Invariance, PTL DEF IInv

(* A taken probe belongs to an attempt in flight or to one that ended       *)
(* without a report: no other path of canRequestModel loses one.            *)
THEOREM NoLostProbe == Spec => []ProbeAccounted
BY Invariance, PTL DEF IInv

(* An open circuit keeps its open time, but for a late success.             *)
THEOREM OpenTimeKept == Spec => OpenHolds
<1> DEFINE Kept ==
      \A k \in Key :
         circuits[k].state = "open" /\ ~Elapsed(circuits[k])
           => \/ circuits'[k].state = "open"
              \/ /\ circuits'[k] = Fresh
                 /\ \E c \in Caller : /\ flight[c] # NoModel
                                      /\ k \in KeysOf(flight[c])
                                      /\ flight'[c] = NoModel
<1>1. TypeOK /\ [Next]_vars => [Kept]_vars
    <2> SUFFICES ASSUME TypeOK, Next,
                        NEW k \in Key,
                        circuits[k].state = "open", ~Elapsed(circuits[k])
                 PROVE  \/ circuits'[k].state = "open"
                        \/ /\ circuits'[k] = Fresh
                           /\ \E c \in Caller : /\ flight[c] # NoModel
                                                /\ k \in KeysOf(flight[c])
                                                /\ flight'[c] = NoModel
        OBVIOUS
    <2>1. circuits[k] \in Circuit
        BY DEF TypeOK
    <2>2. ~Admits(circuits[k])
        BY DEF Admits
    <2>3. CASE Tick
        BY <2>1, <2>3 DEF Tick, Aged, Circuit
    <2>4. CASE Scan
        BY <2>4 DEF Scan, Refresh
    <2>5. ASSUME NEW c \in Caller, NEW model \in Model, Admit(c, model)
          PROVE  circuits'[k] = circuits[k]
        BY <2>2, <2>5 DEF Admit
    <2>6. ASSUME NEW model \in Model, RefuseModel(model)
          PROVE  circuits'[k] = circuits[k]
        BY <2>2, <2>6 DEF RefuseModel, TypeOK
    <2>7. ASSUME NEW c \in Caller, SettleSuccess(c)
          PROVE  \/ circuits'[k] = circuits[k]
                 \/ /\ circuits'[k] = Fresh
                    /\ flight[c] # NoModel
                    /\ k \in KeysOf(flight[c])
                    /\ flight'[c] = NoModel
        BY <2>7 DEF SettleSuccess, Settle, RecordSuccess, TypeOK
    <2>8. ASSUME NEW c \in Caller, SettleFailure(c)
          PROVE  circuits'[k].state = "open"
        BY <2>1, <2>8, FailureKeepsOpen DEF SettleFailure, Settle
    <2>9. ASSUME NEW c \in Caller, SettleSilent(c)
          PROVE  circuits'[k] = circuits[k]
        BY <2>9 DEF SettleSilent
    <2>10. QED
        BY <2>3, <2>4, <2>5, <2>6, <2>7, <2>8, <2>9 DEF Next, Finish
<1>2. QED
    BY <1>1, TypeCorrect, PTL DEF Spec, OpenHolds
=============================================================================
