-------------------------- MODULE Fallback_proofs --------------------------
(***************************************************************************)
(* Theorems about Fallback for any requests, models and policies: the      *)
(* candidate lists are what the loop takes them for, the loop keeps its    *)
(* place in them, the circuit registry sees nothing but CircuitTraffic,    *)
(* and the safe fallback invariant holds.                                  *)
(***************************************************************************)
EXTENDS Fallback, SequenceTheorems, FiniteSetTheorems, TLAPS

Distinct(s) == \A i, j \in DOMAIN s : s[i] = s[j] => i = j

-----------------------------------------------------------------------------
(* The candidates of a decision. *)

LEMMA Concatenated ==
    ASSUME NEW m \in Model, NEW s \in Seq(Model \ {m}), Distinct(s)
    PROVE  /\ <<m>> \o s \in Seq(Model)
           /\ Len(<<m>> \o s) = Len(s) + 1
           /\ Distinct(<<m>> \o s)
<1> DEFINE t == <<m>> \o s
           n == Len(s)
<1>1. /\ <<m>> \in Seq(Model) /\ Len(<<m>>) = 1 /\ <<m>>[1] = m
      /\ s \in Seq(Model) /\ n \in Nat
  BY LenProperties
<1>2. t \in Seq(Model) /\ Len(t) = 1 + n
      /\ \A i \in 1 .. 1 + n : t[i] = IF i <= 1 THEN <<m>>[i] ELSE s[i - 1]
  BY <1>1, ConcatProperties
<1>3. DOMAIN t = 1 .. n + 1 /\ DOMAIN s = 1 .. n
  BY <1>1, <1>2, LenProperties
<1>4. \A i \in 1 .. n : s[i] # m
  BY ElementOfSeq
<1>5. t[1] = m /\ \A i \in 2 .. n + 1 : t[i] = s[i - 1] /\ i - 1 \in 1 .. n
  BY <1>1, <1>2
<1> HIDE DEF t
<1>6. Distinct(t)
  <2> SUFFICES ASSUME NEW i \in 1 .. n + 1, NEW j \in 1 .. n + 1, t[i] = t[j] PROVE i = j
    BY <1>3 DEF Distinct
  <2>1. CASE i = 1 \/ j = 1
    BY <1>1, <1>4, <1>5, <2>1
  <2>2. CASE i # 1 /\ j # 1
    <3>1. i \in 2 .. n + 1 /\ j \in 2 .. n + 1
      BY <1>1, <2>2
    <3>2. s[i - 1] = s[j - 1] /\ i - 1 \in 1 .. n /\ j - 1 \in 1 .. n
      BY <1>5, <3>1
    <3>3. i - 1 = j - 1
      BY <1>3, <3>2 DEF Distinct
    <3> QED
      BY <3>1, <3>3
  <2> QED
    BY <2>1, <2>2
<1> QED
  BY <1>1, <1>2, <1>6 DEF t

LEMMA Cut ==
    ASSUME NEW s \in Seq(Model), Distinct(s), Len(s) >= 1
    PROVE  /\ AtMost(MaxAttempts, s) \in Seq(Model)
           /\ Len(AtMost(MaxAttempts, s)) \in 1 .. MaxAttempts
           /\ Distinct(AtMost(MaxAttempts, s))
<1> DEFINE t == SubSeq(s, 1, MaxAttempts)
<1>1. Len(s) \in Nat /\ MaxAttempts \in Nat \ {0}
  BY LenProperties, FallbackAssumption
<1>2. CASE Len(s) <= MaxAttempts
  BY <1>1, <1>2 DEF AtMost
<1>3. CASE ~(Len(s) <= MaxAttempts)
  <2>1. 1 \in 1 .. Len(s) + 1 /\ MaxAttempts \in 0 .. Len(s) /\ 1 .. MaxAttempts \subseteq 1 .. Len(s)
    BY <1>1, <1>3
  <2>2. t \in Seq(Model) /\ Len(t) = MaxAttempts /\ \A i \in 1 .. MaxAttempts : t[i] = s[i]
    BY <1>1, <2>1, SubSeqProperties
  <2>3. DOMAIN t = 1 .. MaxAttempts /\ DOMAIN s = 1 .. Len(s)
    BY <2>2, LenProperties
  <2>4. Distinct(t)
    BY <2>1, <2>2, <2>3 DEF Distinct
  <2>5. AtMost(MaxAttempts, s) = t
    BY <1>3 DEF AtMost
  <2> HIDE DEF t
  <2> QED
    BY <1>1, <2>2, <2>4, <2>5
<1> QED
  BY <1>2, <1>3

(* A list of candidates names no model twice, is not empty and has no more  *)
(* than MaxAttempts of them (fallbackCandidates).                          *)
LEMMA CandidatesOf ==
    ASSUME NEW selected \in Model, NEW eligible \in SUBSET (Model \ {selected}),
           NEW exact \in BOOLEAN, NEW list \in CandidateLists(selected, eligible, exact)
    PROVE  list \in Seq(Model) /\ Len(list) \in 1 .. MaxAttempts /\ Distinct(list)
<1>1. CASE ~FallbackEnabled \/ exact
  <2>1. list = <<selected>>
    BY <1>1 DEF CandidateLists
  <2>2. <<selected>> \in Seq(Model) /\ Len(<<selected>>) = 1 /\ DOMAIN <<selected>> = {1}
    OBVIOUS
  <2> QED
    BY <2>1, <2>2, FallbackAssumption DEF Distinct
<1>2. CASE ~(~FallbackEnabled \/ exact)
  <2> DEFINE allowed == {m \in eligible : AllowWeaker \/ Tier[m] >= Tier[selected]}
  <2>1. PICK s \in SetToSeqs(allowed) : list = AtMost(MaxAttempts, <<selected>> \o s)
    BY <1>2 DEF CandidateLists
  <2>2. IsFiniteSet(allowed) /\ Cardinality(allowed) \in Nat /\ allowed \subseteq Model \ {selected}
    BY FS_Subset, FS_CardinalityType, FallbackAssumption
  <2> HIDE DEF allowed
  <2>3. s \in [1 .. Cardinality(allowed) -> allowed] /\ Distinct(s)
    BY <2>1 DEF SetToSeqs, Distinct
  <2>4. s \in Seq(Model \ {selected})
    BY <2>2, <2>3, SeqDef
  <2>5. /\ <<selected>> \o s \in Seq(Model)
        /\ Len(<<selected>> \o s) >= 1
        /\ Distinct(<<selected>> \o s)
    BY <2>3, <2>4, Concatenated, LenProperties
  <2> QED
    BY <2>1, <2>5, Cut
<1> QED
  BY <1>1, <1>2
-----------------------------------------------------------------------------
(* The inductive invariant of the loop. *)

LoopTyped ==
    /\ pc \in [Request -> {"idle", "routing"} \cup InLoop]
    /\ blocked \in [Request -> SUBSET Model]
    /\ candidates \in [Request -> Seq(Model)]
    /\ index \in [Request -> Nat \ {0}]
    /\ elapsed \in [Request -> 0 .. MaxDuration]
    /\ aborted \in [Request -> BOOLEAN]
    /\ tried \in [Request -> Seq(Model)]
    /\ shown \in [Request -> SUBSET Model]
    /\ flight \in [Request -> Model \cup {NoModel}]

Registry == circuits = [k \in Traffic!Key |-> circuits[k]]

(* The candidates a request may have been sent to. *)
Asked(r) == IF pc[r] \in {"buffering", "streaming"} THEN index[r] ELSE index[r] - 1

(* The loop's place in the candidates.  The models tried are among the      *)
(* candidates already reached, so the current one is new; the attempt in    *)
(* flight is the current one's, and it is the latest that was tried.       *)
Place(r) ==
    /\ Len(candidates[r]) <= MaxAttempts
    /\ Distinct(candidates[r])
    /\ index[r] <= Len(candidates[r]) + 1
    /\ pc[r] \in Attempting => index[r] <= Len(candidates[r])
    /\ pc[r] \in {"idle", "routing"} => index[r] = 1 /\ candidates[r] = <<>>
    /\ Len(tried[r]) <= Asked(r)
    /\ \A i \in 1 .. Len(tried[r]) : \E j \in 1 .. Asked(r) : tried[r][i] = candidates[r][j]
    /\ pc[r] \in {"buffering", "streaming"} =>
          tried[r] # <<>> /\ tried[r][Len(tried[r])] = Current(r)
    /\ pc[r] # "streaming" => shown[r] = {}
    /\ flight[r] = IF pc[r] \in Attempting THEN Current(r) ELSE NoModel

LoopInv == LoopTyped /\ Registry /\ \A r \in Request : Place(r)

LEMMA LoopInit == ASSUME Init PROVE LoopInv
<1>1. LoopTyped
  BY FallbackAssumption DEF Init, LoopTyped, Traffic!Init
<1>2. Registry
  BY DEF Init, Registry, Traffic!Init
<1>3. ASSUME NEW r \in Request PROVE Place(r)
  <2>1. Len(<<>>) = 0 /\ DOMAIN <<>> = {}
    OBVIOUS
  <2> QED
    BY <2>1, FallbackAssumption DEF Init, Traffic!Init, Place, Asked, Attempting, Distinct
<1> QED
  BY <1>1, <1>2, <1>3 DEF LoopInv

(* A step of one request leaves the place of the others alone. *)
LEMMA Others ==
    ASSUME LoopInv, NEW r \in Request, LoopTyped', Registry', Place(r)',
           \A q \in Request \ {r} :
              /\ pc'[q] = pc[q] /\ candidates'[q] = candidates[q] /\ index'[q] = index[q]
              /\ tried'[q] = tried[q] /\ shown'[q] = shown[q] /\ flight'[q] = flight[q]
    PROVE  LoopInv'
<1>1. ASSUME NEW q \in Request \ {r} PROVE Place(q)'
  <2>1. Place(q) /\ Asked(q)' = Asked(q) /\ Current(q)' = Current(q)
    BY DEF LoopInv, Asked, Current
  <2>2. /\ pc'[q] = pc[q] /\ candidates'[q] = candidates[q] /\ index'[q] = index[q]
        /\ tried'[q] = tried[q] /\ shown'[q] = shown[q] /\ flight'[q] = flight[q]
    OBVIOUS
  <2> QED
    BY <2>1, <2>2 DEF Place
<1> QED
  BY <1>1 DEF LoopInv

(* A request that is over keeps nothing. *)
LEMMA Finished ==
    ASSUME LoopInv, NEW r \in Request, Finish(r), Registry',
           flight' = [flight EXCEPT ![r] = NoModel], blocked' \in [Request -> SUBSET Model]
    PROVE  LoopInv'
<1>1. LoopTyped'
  <2>1. 0 \in 0 .. MaxDuration /\ <<>> \in Seq(Model) /\ {} \in SUBSET Model /\ 1 \in Nat \ {0}
    BY FallbackAssumption, EmptySeq
  <2> QED
    BY <2>1 DEF LoopInv, LoopTyped, Finish, Goto
<1>2. Place(r)'
  <2>1. Len(<<>>) = 0 /\ DOMAIN <<>> = {}
    OBVIOUS
  <2>2. /\ pc'[r] = "idle" /\ candidates'[r] = <<>> /\ index'[r] = 1 /\ tried'[r] = <<>>
        /\ shown'[r] = {} /\ flight'[r] = NoModel
    BY DEF LoopInv, LoopTyped, Finish, Goto
  <2> QED
    BY <2>1, <2>2, FallbackAssumption DEF Place, Asked, Attempting, Distinct
<1> QED
  BY <1>1, <1>2, Others DEF LoopInv, LoopTyped, Finish, Goto

LEMMA Settled ==
    ASSUME LoopInv, NEW r \in Request,
           Traffic!SettleSuccess(r) \/ Traffic!SettleFailure(r) \/ Traffic!SettleSilent(r)
    PROVE  /\ Registry' /\ flight' = [flight EXCEPT ![r] = NoModel]
           /\ \E c \in Request : Traffic!Finish(c)
<1>1. flight' = [flight EXCEPT ![r] = NoModel] /\ Registry'
  BY DEF Traffic!SettleSuccess, Traffic!SettleFailure, Traffic!SettleSilent, Traffic!Settle,
         LoopInv, Registry
<1>2. Traffic!Finish(r)
  BY DEF Traffic!Finish
<1> QED
  BY <1>1, <1>2

LEMMA EndKeeps ==
    ASSUME LoopInv, NEW r \in Request, Finish(r),
           Traffic!SettleSuccess(r) \/ Traffic!SettleFailure(r) \/ Traffic!SettleSilent(r),
           UNCHANGED blocked
    PROVE  LoopInv'
<1>1. blocked' \in [Request -> SUBSET Model]
  BY DEF LoopInv, LoopTyped
<1> QED
  BY <1>1, Settled, Finished

(* What the invariant says of one request. *)
LEMMA Here ==
    ASSUME LoopInv, NEW r \in Request
    PROVE  /\ pc[r] \in {"idle", "routing"} \cup InLoop
           /\ candidates[r] \in Seq(Model) /\ Len(candidates[r]) \in Nat
           /\ index[r] \in Nat \ {0}
           /\ tried[r] \in Seq(Model) /\ Len(tried[r]) \in Nat
           /\ Place(r)
           /\ index[r] <= Len(candidates[r]) => Current(r) \in Model
<1>1. candidates[r] \in Seq(Model) /\ tried[r] \in Seq(Model) /\ index[r] \in Nat \ {0}
      /\ pc[r] \in {"idle", "routing"} \cup InLoop
  BY DEF LoopInv, LoopTyped
<1>2. Len(candidates[r]) \in Nat /\ Len(tried[r]) \in Nat
  BY <1>1, LenProperties
<1>3. index[r] <= Len(candidates[r]) => Current(r) \in Model
  BY <1>1, <1>2, ElementOfSeq DEF Current
<1> QED
  BY <1>1, <1>2, <1>3 DEF LoopInv

LEMMA TickKeeps == ASSUME LoopInv, Tick PROVE LoopInv'
<1>1. UNCHANGED <<pc, blocked, candidates, index, aborted, tried, shown, flight>>
      /\ elapsed' = [r \in Request |-> IF Running(r) THEN elapsed[r] + 1 ELSE elapsed[r]]
      /\ Registry'
  BY DEF Tick, Registry
<1>2. elapsed' \in [Request -> 0 .. MaxDuration]
  <2>1. ASSUME NEW r \in Request
        PROVE  (IF Running(r) THEN elapsed[r] + 1 ELSE elapsed[r]) \in 0 .. MaxDuration
    BY FallbackAssumption DEF LoopInv, LoopTyped, Running
  <2> QED
    BY <1>1, <2>1
<1>3. LoopTyped'
  BY <1>1, <1>2 DEF LoopInv, LoopTyped
<1>4. ASSUME NEW r \in Request PROVE Place(r)'
  BY <1>1 DEF LoopInv, Place, Asked, Current
<1> QED
  BY <1>1, <1>3, <1>4 DEF LoopInv

LEMMA ArriveKeeps == ASSUME LoopInv, NEW r \in Request, Arrive(r) PROVE LoopInv'
<1>1. /\ pc[r] = "idle" /\ pc' = [pc EXCEPT ![r] = "routing"]
      /\ UNCHANGED <<candidates, index, elapsed, aborted, tried, shown, flight>>
      /\ Registry'
      /\ blocked' \in [Request -> SUBSET Model]
  BY DEF Arrive, Goto, Registry, LoopInv, LoopTyped
<1>2. LoopTyped'
  BY <1>1 DEF LoopInv, LoopTyped
<1>3. Place(r)'
  <2>1. Place(r) /\ Asked(r)' = Asked(r) /\ Current(r)' = Current(r) /\ pc'[r] = "routing"
    BY <1>1 DEF LoopInv, LoopTyped, Asked, Current
  <2> QED
    BY <1>1, <2>1 DEF Place, Attempting
<1> QED
  BY <1>1, <1>2, <1>3, Others DEF LoopInv, LoopTyped

LEMMA RouteKeeps == ASSUME LoopInv, NEW r \in Request, Route(r) PROVE LoopInv'
<1>1. /\ pc[r] = "routing" /\ pc' = [pc EXCEPT ![r] = "trying"]
      /\ UNCHANGED <<trafficVars, index, elapsed, aborted, tried, shown>>
      /\ blocked' = [blocked EXCEPT ![r] = {}]
  BY DEF Route, Goto
<1>2. PICK list \in Seq(Model) :
         /\ Len(list) \in 1 .. MaxAttempts /\ Distinct(list)
         /\ candidates' = [candidates EXCEPT ![r] = list]
  <2>1. PICK selected \in Model \ blocked[r], exact \in BOOLEAN :
           \E eligible \in SUBSET (Model \ (blocked[r] \cup {selected})) :
              \E list \in CandidateLists(selected, eligible, exact) :
                 candidates' = [candidates EXCEPT ![r] = list]
    BY DEF Route
  <2>2. PICK eligible \in SUBSET (Model \ (blocked[r] \cup {selected})) :
           \E list \in CandidateLists(selected, eligible, exact) :
              candidates' = [candidates EXCEPT ![r] = list]
    BY <2>1
  <2>3. eligible \in SUBSET (Model \ {selected})
    BY <2>2
  <2> QED
    BY <2>2, <2>3, CandidatesOf
<1>3. LoopTyped' /\ Registry'
  <2>1. LoopTyped'
    BY <1>1, <1>2 DEF LoopInv, LoopTyped, InLoop, trafficVars
  <2> QED
    BY <1>1, <2>1 DEF LoopInv, Registry, trafficVars
<1>4. Place(r)'
  <2>1. /\ Place(r) /\ pc'[r] = "trying" /\ candidates'[r] = list
        /\ index'[r] = 1 /\ tried'[r] = tried[r] /\ Len(tried[r]) \in Nat
        /\ shown'[r] = {} /\ flight'[r] = NoModel
    BY <1>1, <1>2, Here DEF LoopInv, LoopTyped, Place, trafficVars, Attempting
  <2>2. Len(tried[r]) = 0
    BY <1>1, <2>1 DEF Place, Asked
  <2>3. Asked(r)' = 0 /\ 1 .. 0 = {}
    BY <2>1 DEF Asked
  <2> QED
    BY <1>2, <2>1, <2>2, <2>3, FallbackAssumption DEF Place, Attempting
<1> QED
  BY <1>1, <1>2, <1>3, <1>4, Others DEF LoopInv, LoopTyped, trafficVars

(* Ends without an attempt in flight. *)
LEMMA EndIdleKeeps ==
    ASSUME LoopInv, NEW r \in Request, pc[r] \in {"routing", "trying"}, Finish(r),
           flight' = flight, Registry', blocked' \in [Request -> SUBSET Model]
    PROVE  LoopInv'
<1>1. flight[r] = NoModel /\ flight = [q \in Request |-> flight[q]]
  BY DEF LoopInv, LoopTyped, Place, Attempting
<1>2. flight' = [flight EXCEPT ![r] = NoModel]
  BY <1>1
<1> QED
  BY <1>2, Finished

LEMMA RouteFailsKeeps == ASSUME LoopInv, NEW r \in Request, RouteFails(r) PROVE LoopInv'
<1>1. Registry' /\ blocked' \in [Request -> SUBSET Model]
  BY DEF RouteFails, LoopInv, LoopTyped, Registry, trafficVars
<1> QED
  BY <1>1, EndIdleKeeps DEF RouteFails, trafficVars

LEMMA GiveUpKeeps == ASSUME LoopInv, NEW r \in Request, GiveUp(r) PROVE LoopInv'
<1>1. Registry' /\ blocked' \in [Request -> SUBSET Model]
  BY DEF GiveUp, LoopInv, LoopTyped, Registry, trafficVars
<1> QED
  BY <1>1, EndIdleKeeps DEF GiveUp, trafficVars

(* The loop goes on to the next candidate after asking or skipping one. *)
LEMMA AdvanceKeeps ==
    ASSUME LoopInv, NEW r \in Request, pc[r] \in {"trying", "buffering"},
           index[r] <= Len(candidates[r]),
           pc' = [pc EXCEPT ![r] = "trying"], index' = [index EXCEPT ![r] = @ + 1],
           flight' = [flight EXCEPT ![r] = NoModel], Registry',
           UNCHANGED <<blocked, candidates, elapsed, aborted, tried, shown>>
    PROVE  LoopInv'
<1>1. LoopTyped'
  BY DEF LoopInv, LoopTyped, InLoop
<1>2. Place(r)'
  <2>1. /\ pc'[r] = "trying" /\ index'[r] = index[r] + 1 /\ flight'[r] = NoModel
        /\ candidates'[r] = candidates[r] /\ tried'[r] = tried[r] /\ shown'[r] = shown[r]
    BY DEF LoopInv, LoopTyped
  <2>2. /\ Asked(r)' = index[r] /\ Asked(r) <= index[r] /\ index[r] \in Nat \ {0}
        /\ Asked(r) \in Int /\ Len(tried[r]) \in Nat /\ Len(candidates[r]) \in Nat
    <3>1. index[r] \in Nat \ {0} /\ Len(tried[r]) \in Nat /\ Len(candidates[r]) \in Nat
      BY Here
    <3>2. Asked(r)' = index[r] + 1 - 1
      BY <2>1, <3>1 DEF Asked
    <3> QED
      BY <3>1, <3>2 DEF Asked
  <2>3. 1 .. Asked(r) \subseteq 1 .. index[r]
    BY <2>2
  <2>4. Place(r) /\ shown[r] = {}
    BY Here DEF Place
  <2>5. Len(tried[r]) <= index[r] /\ index[r] + 1 <= Len(candidates[r]) + 1
    BY <2>2, <2>4 DEF Place
  <2>6. \A i \in 1 .. Len(tried[r]) : \E j \in 1 .. index[r] : tried[r][i] = candidates[r][j]
    BY <2>3, <2>4 DEF Place
  <2> QED
    BY <2>1, <2>2, <2>4, <2>5, <2>6 DEF Place, Attempting
<1> QED
  BY <1>1, <1>2, Others DEF LoopInv, LoopTyped

LEMMA RefuseKeeps == ASSUME LoopInv, NEW r \in Request, Refuse(r) PROVE LoopInv'
<1>1. /\ pc[r] = "trying" /\ index[r] <= Len(candidates[r]) /\ UNCHANGED blocked
      /\ flight' = flight /\ Registry'
  <2>1. UNCHANGED <<circuits, flight>> \/ Traffic!RefuseModel(Current(r))
    BY DEF Refuse, trafficVars
  <2>2. flight' = flight /\ Registry'
    BY <2>1 DEF Traffic!RefuseModel, LoopInv, Registry
  <2> QED
    BY <2>2 DEF Refuse, MayTry
<1>2. blocked' \in [Request -> SUBSET Model]
  BY <1>1 DEF LoopInv, LoopTyped
<1>3. CASE Finish(r)
  BY <1>1, <1>2, <1>3, EndIdleKeeps
<1>4. CASE /\ index' = [index EXCEPT ![r] = @ + 1]
           /\ UNCHANGED <<pc, candidates, elapsed, aborted, tried, shown>>
  <2>1. flight[r] = NoModel /\ flight = [q \in Request |-> flight[q]]
        /\ pc = [q \in Request |-> pc[q]]
    BY <1>1 DEF LoopInv, LoopTyped, Place, Attempting
  <2>2. flight' = [flight EXCEPT ![r] = NoModel] /\ pc' = [pc EXCEPT ![r] = "trying"]
    BY <1>1, <1>4, <2>1
  <2> QED
    BY <1>1, <1>4, <2>2, AdvanceKeeps
<1> QED
  BY <1>3, <1>4 DEF Refuse

LEMMA AdmitOf ==
    ASSUME LoopInv, NEW r \in Request, Traffic!Admit(r, Current(r))
    PROVE  /\ flight' = [flight EXCEPT ![r] = Current(r)]
           /\ Registry'
BY DEF Traffic!Admit, LoopInv, Registry

(* The current candidate was not tried before: the ones that were stand    *)
(* before it in a list without repetitions.                                *)
LEMMA CurrentIsNew ==
    ASSUME LoopInv, NEW r \in Request, pc[r] \in {"trying", "starting"},
           index[r] <= Len(candidates[r])
    PROVE  /\ Current(r) \in Model
           /\ Len(tried[r]) < MaxAttempts
           /\ \A i \in 1 .. Len(tried[r]) : tried[r][i] # Current(r)
<1>1. /\ index[r] \in Nat \ {0} /\ Len(candidates[r]) \in Nat /\ Len(tried[r]) \in Nat
      /\ DOMAIN candidates[r] = 1 .. Len(candidates[r])
      /\ Current(r) \in Model
  BY Here, LenProperties
<1>2. /\ Len(candidates[r]) <= MaxAttempts /\ MaxAttempts \in Nat
      /\ Len(tried[r]) <= Asked(r) /\ Distinct(candidates[r])
      /\ \A i \in 1 .. Len(tried[r]) : \E j \in 1 .. Asked(r) : tried[r][i] = candidates[r][j]
  BY FallbackAssumption DEF LoopInv, Place
<1>3. Asked(r) = index[r] - 1
  BY DEF Asked
<1>4. \A j \in 1 .. Asked(r) : j \in 1 .. Len(candidates[r]) /\ j # index[r]
  BY <1>1, <1>3
<1>5. index[r] \in 1 .. Len(candidates[r])
  BY <1>1
<1>6. \A j \in 1 .. Asked(r) : candidates[r][j] # Current(r)
  BY <1>1, <1>2, <1>4, <1>5 DEF Distinct, Current
<1>7. Len(tried[r]) < MaxAttempts
  BY <1>1, <1>2, <1>3
<1> QED
  BY <1>1, <1>2, <1>6, <1>7

(* The request is sent to its current candidate. *)
LEMMA SendKeeps ==
    ASSUME LoopInv, NEW r \in Request, pc[r] \in {"trying", "starting"},
           index[r] <= Len(candidates[r]),
           pc' = [pc EXCEPT ![r] = "buffering"],
           tried' = [tried EXCEPT ![r] = Append(@, Current(r))],
           flight' = [flight EXCEPT ![r] = Current(r)], Registry',
           UNCHANGED <<blocked, candidates, index, elapsed, aborted, shown>>
    PROVE  LoopInv'
<1> DEFINE s == tried[r]
           m == Current(r)
           t == Append(s, m)
<1>1. m \in Model /\ s \in Seq(Model) /\ Len(s) \in Nat
      /\ index[r] \in Nat \ {0} /\ Len(candidates[r]) \in Nat
  BY CurrentIsNew, Here
<1>2. /\ t \in Seq(Model) /\ Len(t) = Len(s) + 1 /\ t # <<>>
      /\ \A i \in 1 .. Len(s) : t[i] = s[i]
      /\ t[Len(s) + 1] = m
  BY <1>1, AppendProperties
<1>3. LoopTyped'
  BY <1>1, <1>2 DEF LoopInv, LoopTyped, InLoop
<1>4. Place(r)'
  <2>1. /\ pc'[r] = "buffering" /\ tried'[r] = t /\ flight'[r] = m /\ Current(r)' = m
        /\ candidates'[r] = candidates[r] /\ index'[r] = index[r] /\ shown'[r] = shown[r]
    BY DEF LoopInv, LoopTyped, Current
  <2>2. Place(r) /\ shown[r] = {} /\ Asked(r) = index[r] - 1 /\ Asked(r)' = index[r]
    BY <2>1, Here DEF Place, Asked
  <2>3. Len(t) <= index[r]
    BY <1>1, <1>2, <2>2 DEF Place
  <2>4. \A i \in 1 .. Len(t) : \E j \in 1 .. index[r] : t[i] = candidates[r][j]
    <3>1. \A i \in 1 .. Len(t) : i \in 1 .. Len(s) \/ i = Len(s) + 1
      BY <1>1, <1>2
    <3>2. \A j \in 1 .. index[r] - 1 : j \in 1 .. index[r]
      BY <1>1
    <3>3. index[r] \in 1 .. index[r] /\ m = candidates[r][index[r]]
      BY <1>1 DEF Current
    <3>4. \A i \in 1 .. Len(s) : \E j \in 1 .. index[r] : s[i] = candidates[r][j]
      BY <2>2, <3>2 DEF Place
    <3> HIDE DEF s, m, t
    <3> QED
      BY <1>2, <3>1, <3>3, <3>4
  <2>5. /\ Len(candidates[r]) <= MaxAttempts /\ Distinct(candidates[r])
        /\ index[r] <= Len(candidates[r]) /\ index[r] <= Len(candidates[r]) + 1
    BY <2>2 DEF Place
  <2>6. t[Len(t)] = m /\ t # <<>>
    BY <1>1, <1>2
  <2> HIDE DEF s, m, t
  <2>7. Len(tried'[r]) <= Asked(r)'
    BY <2>1, <2>2, <2>3
  <2>8. \A i \in 1 .. Len(tried'[r]) : \E j \in 1 .. Asked(r)' : tried'[r][i] = candidates'[r][j]
    <3>1. Asked(r)' = index[r] /\ tried'[r] = t /\ candidates'[r] = candidates[r]
      BY <2>1, <2>2
    <3>2. \A i \in 1 .. Len(t) : \E j \in 1 .. index[r] : t[i] = candidates[r][j]
      BY <2>4
    <3>3. \A i \in 1 .. Len(t) : \E j \in 1 .. Asked(r)' : t[i] = candidates'[r][j]
      BY <3>1, <3>2
    <3> QED
      BY <3>1, <3>3
  <2>9. tried'[r] # <<>> /\ tried'[r][Len(tried'[r])] = Current(r)'
    BY <2>1, <2>6
  <2>10. shown'[r] = {} /\ flight'[r] = Current(r)'
    BY <2>1, <2>2
  <2> QED
    BY <2>1, <2>5, <2>7, <2>8, <2>9, <2>10 DEF Place, Attempting
<1> QED
  BY <1>3, <1>4, Others DEF LoopInv, LoopTyped

LEMMA AdmitSelectedKeeps == ASSUME LoopInv, NEW r \in Request, AdmitSelected(r) PROVE LoopInv'
BY AdmitOf, SendKeeps DEF AdmitSelected, MayTry, Goto

LEMMA AdmitFallbackKeeps == ASSUME LoopInv, NEW r \in Request, AdmitFallback(r) PROVE LoopInv'
<1>1. /\ pc[r] = "trying" /\ index[r] <= Len(candidates[r])
      /\ pc' = [pc EXCEPT ![r] = "starting"]
      /\ flight' = [flight EXCEPT ![r] = Current(r)] /\ Registry'
      /\ UNCHANGED <<blocked, candidates, index, elapsed, aborted, tried, shown>>
  BY AdmitOf DEF AdmitFallback, MayTry, Goto
<1>2. Current(r) \in Model
  BY <1>1, Here
<1>3. LoopTyped'
  BY <1>1, <1>2 DEF LoopInv, LoopTyped, InLoop
<1>4. Place(r)'
  <2>1. /\ Place(r) /\ Asked(r)' = Asked(r) /\ Current(r)' = Current(r)
        /\ pc'[r] = "starting" /\ flight'[r] = Current(r)
    BY <1>1 DEF LoopInv, LoopTyped, Asked, Current
  <2> QED
    BY <1>1, <2>1 DEF Place, Attempting
<1> QED
  BY <1>1, <1>3, <1>4, Others DEF LoopInv, LoopTyped

LEMMA StartFallbackKeeps == ASSUME LoopInv, NEW r \in Request, StartFallback(r) PROVE LoopInv'
<1>1. /\ pc[r] = "starting" /\ index[r] <= Len(candidates[r]) /\ flight[r] = Current(r)
      /\ flight = [q \in Request |-> flight[q]]
  BY DEF StartFallback, LoopInv, LoopTyped, Place, Attempting
<1>2. flight' = [flight EXCEPT ![r] = Current(r)] /\ Registry'
  BY <1>1 DEF StartFallback, trafficVars, LoopInv, Registry
<1> QED
  BY <1>1, <1>2, SendKeeps DEF StartFallback, Goto

LEMMA AttemptFailsKeeps ==
    ASSUME LoopInv, NEW r \in Request, NEW retryable \in BOOLEAN, NEW threw \in BOOLEAN,
           AttemptFails(r, retryable, threw)
    PROVE  LoopInv'
<1>1. /\ pc[r] = "buffering" /\ UNCHANGED blocked
      /\ Traffic!SettleFailure(r) \/ Traffic!SettleSilent(r)
  BY DEF AttemptFails, Report
<1>2. CASE CanFallback(r, retryable)
  <2>1. index[r] <= Len(candidates[r])
    BY <1>1 DEF LoopInv, Place, Attempting
  <2>2. Registry' /\ flight' = [flight EXCEPT ![r] = NoModel]
    BY <1>1, Settled
  <2> QED
    BY <1>1, <1>2, <2>1, <2>2, AdvanceKeeps DEF AttemptFails, Goto
<1>3. CASE ~CanFallback(r, retryable)
  BY <1>1, <1>3, EndKeeps DEF AttemptFails
<1> QED
  BY <1>2, <1>3

LEMMA CommitKeeps == ASSUME LoopInv, NEW r \in Request, Commit(r) PROVE LoopInv'
<1>1. /\ pc[r] = "buffering" /\ pc' = [pc EXCEPT ![r] = "streaming"]
      /\ shown' = [shown EXCEPT ![r] = @ \cup {Current(r)}]
      /\ UNCHANGED <<trafficVars, blocked, candidates, index, elapsed, aborted, tried>>
  BY DEF Commit, Goto
<1>2. Current(r) \in Model
  BY <1>1, Here DEF Place, Attempting
<1>3. LoopTyped' /\ Registry'
  <2>1. LoopTyped'
    BY <1>1, <1>2 DEF LoopInv, LoopTyped, InLoop, trafficVars
  <2> QED
    BY <1>1, <2>1 DEF LoopInv, Registry, trafficVars
<1>4. Place(r)'
  <2>1. /\ Place(r) /\ Asked(r)' = Asked(r) /\ Current(r)' = Current(r)
        /\ pc'[r] = "streaming" /\ flight'[r] = flight[r]
    BY <1>1 DEF LoopInv, LoopTyped, Asked, Current, trafficVars
  <2> QED
    BY <1>1, <2>1 DEF Place, Attempting
<1> QED
  BY <1>1, <1>3, <1>4, Others DEF LoopInv, LoopTyped, trafficVars

LEMMA AbortKeeps == ASSUME LoopInv, NEW r \in Request, Abort(r) PROVE LoopInv'
<1>1. /\ aborted' = [aborted EXCEPT ![r] = TRUE]
      /\ UNCHANGED <<trafficVars, pc, blocked, candidates, index, elapsed, tried, shown>>
  BY DEF Abort
<1>2. LoopTyped' /\ Registry'
  BY <1>1 DEF LoopInv, LoopTyped, Registry, trafficVars
<1>3. Place(r)'
  BY <1>1 DEF LoopInv, Place, Asked, Current, trafficVars
<1> QED
  BY <1>1, <1>2, <1>3, Others DEF trafficVars

LEMMA RequestKeeps ==
    ASSUME LoopInv, NEW r \in Request, Arrive(r) \/ Proceed(r) \/ Surroundings(r)
    PROVE  LoopInv'
<1>1. CASE Arrive(r) \/ Route(r) \/ RouteFails(r) \/ GiveUp(r) \/ Refuse(r)
  BY <1>1, ArriveKeeps, RouteKeeps, RouteFailsKeeps, GiveUpKeeps, RefuseKeeps
<1>2. CASE AdmitSelected(r) \/ AdmitFallback(r) \/ StartFallback(r)
  BY <1>2, AdmitSelectedKeeps, AdmitFallbackKeeps, StartFallbackKeeps
<1>3. CASE StartFallbackFails(r) \/ AttemptCompletes(r) \/ StreamCompletes(r) \/ Abandon(r)
  BY <1>3, EndKeeps DEF StartFallbackFails, AttemptCompletes, StreamCompletes, Abandon
<1>4. ASSUME NEW retryable \in BOOLEAN, StreamFails(r, retryable) PROVE LoopInv'
  BY <1>4, EndKeeps DEF StreamFails, Report
<1>5. CASE DeadlineBeforeOutput(r)
  <2>1. (~aborted[r]) \in BOOLEAN
    OBVIOUS
  <2> QED
    BY <1>5, <2>1, AttemptFailsKeeps DEF DeadlineBeforeOutput
<1>6. CASE DeadlineAfterOutput(r)
  BY <1>4, <1>6 DEF DeadlineAfterOutput
<1>7. CASE Commit(r) \/ Abort(r)
  BY <1>7, CommitKeeps, AbortKeeps
<1>8. CASE \E retryable, threw \in BOOLEAN : AttemptFails(r, retryable, threw)
  BY <1>8, AttemptFailsKeeps
<1> QED
  BY <1>1, <1>2, <1>3, <1>4, <1>5, <1>6, <1>7, <1>8 DEF Proceed, Surroundings

LEMMA LoopStep == ASSUME LoopInv, [Next]_vars PROVE LoopInv'
<1>1. CASE UNCHANGED vars
  <2>1. LoopTyped' /\ Registry'
    BY <1>1 DEF LoopInv, LoopTyped, Registry, vars, trafficVars, requestVars
  <2>2. ASSUME NEW r \in Request PROVE Place(r)'
    BY <1>1 DEF LoopInv, Place, Asked, Current, vars, trafficVars, requestVars
  <2> QED
    BY <2>1, <2>2 DEF LoopInv
<1> QED
  BY <1>1, TickKeeps, RequestKeeps DEF Next

(* The loop never loses its place, whatever the engine, the store, the     *)
(* providers and the clients do and however many requests there are.       *)
THEOREM Invariance == Spec => []LoopInv
<1>1. Init => LoopInv
  BY LoopInit
<1>2. LoopInv /\ [Next]_vars => LoopInv'
  BY LoopStep
<1> QED
  BY <1>1, <1>2, PTL DEF Spec
-----------------------------------------------------------------------------
(* The registry sees nothing but CircuitTraffic. *)

LEMMA TrafficOperators ==
    \A c : /\ Traffic!Aged(c) = Aged(c)
           /\ Traffic!Elapsed(c) = Elapsed(c)
           /\ Traffic!Refresh(c) = Refresh(c)
BY DEF Traffic!Aged, Aged, Traffic!Elapsed, Elapsed, Traffic!Refresh, Refresh,
       Traffic!HalfOpened, HalfOpened

LEMMA TickOnTraffic == ASSUME LoopInv, Tick PROVE [Traffic!Next]_(Traffic!vars)
<1>1. circuits' = [k \in Traffic!Key |-> Aged(circuits[k])]
      /\ UNCHANGED <<flight, probers, strays, leaked>>
  BY DEF Tick
<1>2. CASE \E k \in Traffic!Key : Aged(circuits[k]) # circuits[k]
  BY <1>1, <1>2, TrafficOperators DEF Traffic!Next, Traffic!Tick
<1>3. CASE ~\E k \in Traffic!Key : Aged(circuits[k]) # circuits[k]
  <2>1. circuits' = circuits
    BY <1>1, <1>3 DEF LoopInv, Registry
  <2> QED
    BY <1>1, <2>1 DEF Traffic!vars
<1> QED
  BY <1>2, <1>3

(* A request that comes in scans the registry, which may have nothing to    *)
(* half-open.                                                              *)
LEMMA ArriveOnTraffic ==
    ASSUME LoopInv, NEW r \in Request, Arrive(r) PROVE [Traffic!Next]_(Traffic!vars)
<1>1. circuits' = [k \in Traffic!Key |-> Refresh(circuits[k])]
      /\ UNCHANGED <<flight, probers, strays, leaked>>
  BY DEF Arrive
<1>2. CASE \E k \in Traffic!Key : Elapsed(circuits[k])
  BY <1>1, <1>2, TrafficOperators DEF Traffic!Next, Traffic!Scan
<1>3. CASE ~\E k \in Traffic!Key : Elapsed(circuits[k])
  <2>1. \A k \in Traffic!Key : Refresh(circuits[k]) = circuits[k]
    BY <1>3 DEF Refresh
  <2>2. circuits' = circuits
    BY <1>1, <2>1 DEF LoopInv, Registry
  <2> QED
    BY <1>1, <2>2 DEF Traffic!vars
<1> QED
  BY <1>2, <1>3

LEMMA RequestOnTraffic ==
    ASSUME LoopInv, NEW r \in Request, Arrive(r) \/ Proceed(r) \/ Surroundings(r)
    PROVE  [Traffic!Next]_(Traffic!vars)
<1> DEFINE Settles == Traffic!SettleSuccess(r) \/ Traffic!SettleFailure(r) \/ Traffic!SettleSilent(r)
<1>1. ASSUME UNCHANGED trafficVars PROVE [Traffic!Next]_(Traffic!vars)
  BY <1>1 DEF trafficVars, Traffic!vars
<1>2. ASSUME Settles PROVE [Traffic!Next]_(Traffic!vars)
  BY <1>2, Settled DEF Traffic!Next
<1>3. MayTry(r) => Current(r) \in Model
  BY Here DEF MayTry
<1>4. CASE Route(r) \/ RouteFails(r) \/ GiveUp(r) \/ StartFallback(r) \/ Commit(r) \/ Abort(r)
  BY <1>1, <1>4 DEF Route, RouteFails, GiveUp, StartFallback, Commit, Abort
<1>5. CASE Refuse(r)
  BY <1>1, <1>3, <1>5 DEF Refuse, Traffic!Next
<1>6. CASE AdmitSelected(r) \/ AdmitFallback(r)
  BY <1>3, <1>6 DEF AdmitSelected, AdmitFallback, Traffic!Next
<1>7. CASE StartFallbackFails(r) \/ AttemptCompletes(r) \/ StreamCompletes(r) \/ Abandon(r)
  BY <1>2, <1>7 DEF StartFallbackFails, AttemptCompletes, StreamCompletes, Abandon
<1>8. CASE \/ \E retryable, threw \in BOOLEAN : AttemptFails(r, retryable, threw)
           \/ DeadlineBeforeOutput(r)
  BY <1>2, <1>8 DEF AttemptFails, DeadlineBeforeOutput, Report
<1>9. CASE (\E retryable \in BOOLEAN : StreamFails(r, retryable)) \/ DeadlineAfterOutput(r)
  BY <1>2, <1>9 DEF StreamFails, DeadlineAfterOutput, Report
<1> QED
  BY <1>4, <1>5, <1>6, <1>7, <1>8, <1>9, ArriveOnTraffic DEF Proceed, Surroundings

(* Every admission of the loop asks both circuits and is answered by at     *)
(* most one report: what CircuitTraffic shows of the registry holds in the *)
(* gateway (canRequestModel, recordModelSuccess, recordModelFailure).      *)
THEOREM TrafficRefinement == Spec => ImplementsTraffic
<1>1. Init => Traffic!Init
  BY DEF Init
<1>2. LoopInv /\ [Next]_vars => [Traffic!Next]_(Traffic!vars)
  <2> SUFFICES ASSUME LoopInv, [Next]_vars PROVE [Traffic!Next]_(Traffic!vars)
    OBVIOUS
  <2>1. CASE UNCHANGED vars
    BY <2>1 DEF vars, trafficVars, Traffic!vars
  <2> QED
    BY <2>1, TickOnTraffic, RequestOnTraffic DEF Next
<1> QED
  BY <1>1, <1>2, Invariance, PTL DEF Spec, ImplementsTraffic, Traffic!Spec
-----------------------------------------------------------------------------
(* The safe fallback invariant. *)

LEMMA SafeInit == ASSUME Init PROVE Safe!Init
BY DEF Init, Safe!Init

(* A request that is over, or that gives up, is over for the promise too.   *)
LEMMA FinishIsEnd ==
    ASSUME LoopInv, NEW r \in Request, pc[r] # "idle", Finish(r)
    PROVE  Safe!Next
<1>1. pc' = [pc EXCEPT ![r] = "idle"] /\ tried' = [tried EXCEPT ![r] = <<>>]
      /\ shown' = [shown EXCEPT ![r] = {}] /\ pc \in [Request -> {"idle", "routing"} \cup InLoop]
  BY DEF LoopInv, LoopTyped, Finish, Goto
<1>2. Safe!End(r)
  BY <1>1 DEF Safe!End, InLoop
<1> QED
  BY <1>2 DEF Safe!Next

LEMMA SendIsTry ==
    ASSUME LoopInv, NEW r \in Request, pc[r] \in {"trying", "starting"},
           index[r] <= Len(candidates[r]),
           pc' = [pc EXCEPT ![r] = "buffering"],
           tried' = [tried EXCEPT ![r] = Append(@, Current(r))],
           UNCHANGED shown
    PROVE  Safe!Next
<1>1. pc \in [Request -> {"idle", "routing"} \cup InLoop]
  BY DEF LoopInv, LoopTyped
<1>2. Safe!Try(r, Current(r)) /\ Current(r) \in Model
  BY <1>1, CurrentIsNew DEF Safe!Try
<1> QED
  BY <1>2 DEF Safe!Next

(* Choosing goes on. *)
LEMMA StillChoosing ==
    ASSUME LoopInv, NEW r \in Request, NEW here \in {"routing", "trying", "starting", "buffering"},
           pc[r] \in {"routing", "trying", "starting", "buffering"},
           pc' = [pc EXCEPT ![r] = here], UNCHANGED <<tried, shown>>
    PROVE  UNCHANGED Safe!safeVars
<1>1. pc \in [Request -> {"idle", "routing"} \cup InLoop]
  BY DEF LoopInv, LoopTyped
<1> QED
  BY <1>1 DEF Safe!safeVars

LEMMA CommitIsCommit == ASSUME LoopInv, NEW r \in Request, Commit(r) PROVE Safe!Next
<1>1. /\ pc[r] = "buffering" /\ pc' = [pc EXCEPT ![r] = "streaming"]
      /\ shown' = [shown EXCEPT ![r] = @ \cup {Current(r)}]
      /\ UNCHANGED tried
      /\ pc \in [Request -> {"idle", "routing"} \cup InLoop]
      /\ shown \in [Request -> SUBSET Model]
  BY DEF Commit, Goto, LoopInv, LoopTyped
<1>2. shown[r] = {} /\ tried[r] # <<>> /\ tried[r][Len(tried[r])] = Current(r)
  BY <1>1 DEF LoopInv, Place
<1>3. Safe!Commit(r)
  BY <1>1, <1>2 DEF Safe!Commit
<1> QED
  BY <1>3 DEF Safe!Next

LEMMA RequestOnSafe ==
    ASSUME LoopInv, NEW r \in Request, Arrive(r) \/ Proceed(r) \/ Surroundings(r)
    PROVE  [Safe!Next]_(Safe!safeVars)
<1>1. pc \in [Request -> {"idle", "routing"} \cup InLoop]
  BY DEF LoopInv, LoopTyped
<1>2. CASE Arrive(r)
  <2>1. pc[r] = "idle" /\ pc' = [pc EXCEPT ![r] = "routing"] /\ UNCHANGED <<tried, shown>>
    BY <1>2 DEF Arrive, Goto
  <2>2. Safe!Arrive(r)
    BY <1>1, <2>1 DEF Safe!Arrive
  <2> QED
    BY <2>2 DEF Safe!Next
<1>3. CASE Route(r)
  BY <1>3, StillChoosing DEF Route, Goto
<1>4. ASSUME Finish(r), pc[r] # "idle" PROVE [Safe!Next]_(Safe!safeVars)
  BY <1>4, FinishIsEnd
<1>5. CASE RouteFails(r) \/ GiveUp(r) \/ StartFallbackFails(r) \/ AttemptCompletes(r)
           \/ StreamCompletes(r) \/ Abandon(r) \/ DeadlineAfterOutput(r)
           \/ \E retryable \in BOOLEAN : StreamFails(r, retryable)
  BY <1>4, <1>5 DEF RouteFails, GiveUp, StartFallbackFails, AttemptCompletes, StreamCompletes,
                    Abandon, DeadlineAfterOutput, StreamFails
<1>6. CASE Refuse(r)
  <2>1. CASE Finish(r)
    BY <1>4, <1>6, <2>1 DEF Refuse, MayTry
  <2>2. CASE UNCHANGED <<pc, tried, shown>>
    BY <2>2 DEF Safe!safeVars
  <2> QED
    BY <1>6, <2>1, <2>2 DEF Refuse
<1>7. CASE AdmitSelected(r)
  BY <1>7, SendIsTry DEF AdmitSelected, MayTry, Goto
<1>8. CASE AdmitFallback(r)
  BY <1>8, StillChoosing DEF AdmitFallback, MayTry, Goto
<1>9. CASE StartFallback(r)
  <2>1. pc[r] = "starting" /\ index[r] <= Len(candidates[r])
    BY <1>9 DEF StartFallback, LoopInv, Place, Attempting
  <2> QED
    BY <1>9, <2>1, SendIsTry DEF StartFallback, Goto
<1>10. ASSUME NEW retryable \in BOOLEAN, NEW threw \in BOOLEAN, AttemptFails(r, retryable, threw)
       PROVE  [Safe!Next]_(Safe!safeVars)
  <2>1. /\ pc[r] = "buffering"
        /\ Finish(r) \/ (pc' = [pc EXCEPT ![r] = "trying"] /\ UNCHANGED <<tried, shown>>)
    BY <1>10 DEF AttemptFails, Goto
  <2> QED
    BY <1>4, <2>1, StillChoosing
<1>11. CASE DeadlineBeforeOutput(r)
  <2>1. (~aborted[r]) \in BOOLEAN
    OBVIOUS
  <2> QED
    BY <1>10, <1>11, <2>1 DEF DeadlineBeforeOutput
<1>12. CASE Commit(r)
  BY <1>12, CommitIsCommit
<1>13. CASE Abort(r)
  BY <1>13 DEF Abort, Safe!safeVars
<1> QED
  BY <1>2, <1>3, <1>5, <1>6, <1>7, <1>8, <1>9, <1>10, <1>11, <1>12, <1>13 DEF Proceed, Surroundings

(* Whatever the providers answer, a request is sent to each of its          *)
(* candidates at most once, to no more than MaxAttempts of them, and to    *)
(* none after output was shown (docs/session-resilience.md on the safe     *)
(* fallback invariant; executeCanonical, prepareFallbackExecution).        *)
THEOREM SafeRefinement == Spec => ImplementsSafeFallback
<1>1. Init => Safe!Init
  BY SafeInit
<1>2. LoopInv /\ [Next]_vars => [Safe!Next]_(Safe!safeVars)
  <2> SUFFICES ASSUME LoopInv, [Next]_vars PROVE [Safe!Next]_(Safe!safeVars)
    OBVIOUS
  <2>1. CASE UNCHANGED <<pc, tried, shown>>
    BY <2>1 DEF Safe!safeVars
  <2> QED
    BY <2>1, RequestOnSafe DEF Next, Tick, vars, requestVars
<1> QED
  BY <1>1, <1>2, Invariance, PTL DEF Spec, ImplementsSafeFallback, Safe!Spec
-----------------------------------------------------------------------------
(* What is proved of CircuitTraffic holds of the gateway's registry. *)

Circuits == INSTANCE CircuitTraffic_proofs WITH Caller <- Request

(* The module of proofs has its own copy of the definitions: the same.      *)
LEMMA SameKeys ==
    Circuits!Key = Traffic!Key /\ \A m : Circuits!KeysOf(m) = Traffic!KeysOf(m)
BY DEF Circuits!KeysOf, Traffic!KeysOf, Circuits!Key, Traffic!Key

LEMMA SameOperators ==
    \A c : /\ Circuits!Aged(c) = Traffic!Aged(c)
           /\ Circuits!Refresh(c) = Traffic!Refresh(c)
           /\ Circuits!Elapsed(c) = Traffic!Elapsed(c)
           /\ Circuits!Admits(c) = Traffic!Admits(c)
           /\ Circuits!AfterCanRequest(c) = Traffic!AfterCanRequest(c)
           /\ Circuits!ReleaseProbe(c) = Traffic!ReleaseProbe(c)
           /\ Circuits!RecordSuccess(c) = Traffic!RecordSuccess(c)
           /\ Circuits!RecordFailure(c) = Traffic!RecordFailure(c)
BY DEF Circuits!Aged, Traffic!Aged, Circuits!Refresh, Traffic!Refresh,
       Circuits!Elapsed, Traffic!Elapsed, Circuits!Admits, Traffic!Admits,
       Circuits!AfterCanRequest, Traffic!AfterCanRequest,
       Circuits!ReleaseProbe, Traffic!ReleaseProbe,
       Circuits!RecordSuccess, Traffic!RecordSuccess,
       Circuits!RecordFailure, Traffic!RecordFailure,
       Circuits!HalfOpened, Traffic!HalfOpened, Circuits!Opened, Traffic!Opened,
       Circuits!Fresh, Traffic!Fresh, Circuits!CountFailure, Traffic!CountFailure

LEMMA SameNext == Traffic!Next => Circuits!Next
<1> USE SameKeys, SameOperators
<1>1. Traffic!Tick => Circuits!Tick
  BY DEF Circuits!Tick, Traffic!Tick
<1>2. Traffic!Scan => Circuits!Scan
  BY DEF Circuits!Scan, Traffic!Scan
<1>3. ASSUME NEW c, NEW m, Traffic!Admit(c, m) PROVE Circuits!Admit(c, m)
  BY <1>3 DEF Circuits!Admit, Traffic!Admit
<1>4. ASSUME NEW m, Traffic!RefuseModel(m) PROVE Circuits!RefuseModel(m)
  BY <1>4 DEF Circuits!RefuseModel, Traffic!RefuseModel
<1>5. ASSUME NEW c, Traffic!Finish(c) PROVE Circuits!Finish(c)
  <2>1. Traffic!SettleSuccess(c) => Circuits!SettleSuccess(c)
    BY DEF Circuits!SettleSuccess, Traffic!SettleSuccess, Circuits!Settle, Traffic!Settle
  <2>2. Traffic!SettleFailure(c) => Circuits!SettleFailure(c)
    BY DEF Circuits!SettleFailure, Traffic!SettleFailure, Circuits!Settle, Traffic!Settle
  <2>3. Traffic!SettleSilent(c) => Circuits!SettleSilent(c)
    BY DEF Circuits!SettleSilent, Traffic!SettleSilent
  <2> QED
    BY <1>5, <2>1, <2>2, <2>3 DEF Circuits!Finish, Traffic!Finish
<1> QED
  BY <1>1, <1>2, <1>3, <1>4, <1>5 DEF Circuits!Next, Traffic!Next

LEMMA SameSafety ==
    Circuits!IInv => /\ Traffic!TypeOK
                     /\ Traffic!SingleProbeUnlessStray
                     /\ Traffic!ProbeUndisturbed
                     /\ Traffic!ProbeAccounted
BY SameKeys
   DEF Circuits!IInv, Circuits!TypeOK, Traffic!TypeOK, Circuits!Circuit, Traffic!Circuit,
       Circuits!SingleProbeUnlessStray, Traffic!SingleProbeUnlessStray,
       Circuits!ProbeUndisturbed, Traffic!ProbeUndisturbed,
       Circuits!ProbeAccounted, Traffic!ProbeAccounted

CircuitSafety ==
    /\ Traffic!SingleProbeUnlessStray
    /\ Traffic!ProbeUndisturbed
    /\ Traffic!ProbeAccounted

LEMMA RegistrySafe == Spec => [](Traffic!TypeOK /\ CircuitSafety)
<1>1. Circuits!Spec => []Circuits!IInv
  BY FallbackAssumption, PolicyAssumption, Circuits!Invariance
     DEF Circuits!PolicyAssumption, Circuits!TrafficAssumption
<1>2. [Traffic!Next]_(Traffic!vars) => [Circuits!Next]_(Circuits!vars)
  BY SameNext DEF Circuits!vars, Traffic!vars
<1>3. Traffic!Init => Circuits!Init
  BY SameKeys DEF Circuits!Init, Traffic!Init, Circuits!Fresh, Traffic!Fresh
<1>4. Circuits!IInv => Traffic!TypeOK /\ CircuitSafety
  BY SameSafety DEF CircuitSafety
<1>5. Traffic!Spec => [](Circuits!IInv)
  BY <1>1, <1>2, <1>3, PTL DEF Traffic!Spec, Circuits!Spec
<1>6. Spec => Traffic!Spec
  BY TrafficRefinement DEF ImplementsTraffic
<1> QED
  BY <1>4, <1>5, <1>6, PTL

(* However many requests overlap and fall back: a circuit has one probe     *)
(* unless a straggler reported beside it, nobody disturbs the probe, and a *)
(* taken probe has an owner (CircuitBreakerRegistry as executeCanonical    *)
(* uses it).                                                               *)
THEOREM GatewayCircuits == Spec => []CircuitSafety
<1> QED
  BY RegistrySafe, PTL

(* The registry and the requests are well formed; in particular no request  *)
(* goes past the candidates it may try (prepareFallbackExecution).         *)
THEOREM TypeCorrect == Spec => []TypeOK
<1>1. LoopInv /\ Traffic!TypeOK => TypeOK
  <2> SUFFICES ASSUME LoopInv, Traffic!TypeOK PROVE TypeOK
    OBVIOUS
  <2>1. ASSUME NEW r \in Request PROVE index[r] \in 1 .. MaxAttempts + 1
    <3>1. index[r] \in Nat \ {0} /\ Len(candidates[r]) \in Nat /\ MaxAttempts \in Nat
      BY Here, FallbackAssumption
    <3>2. index[r] <= Len(candidates[r]) + 1 /\ Len(candidates[r]) <= MaxAttempts
      BY DEF LoopInv, Place
    <3> QED
      BY <3>1, <3>2
  <2> QED
    BY <2>1 DEF LoopInv, LoopTyped, TypeOK
<1> QED
  BY <1>1, Invariance, RegistrySafe, PTL
=============================================================================
