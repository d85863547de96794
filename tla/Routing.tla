------------------------------- MODULE Routing -------------------------------
(***************************************************************************)
(* The routing engine (packages/routing/src/engine.ts, with calibration.ts,*)
(* cost.ts, classifier.ts) and the session it steers by: a turn is         *)
(* classified, models are filtered and scored, the best one competes with  *)
(* the model of the session, and the model that answers becomes the model  *)
(* of the session.  The score depends on that model, so each turn changes  *)
(* the terms of the next one.                                              *)
(*                                                                         *)
(* Numbers are whole: success and weights are percents, money and time are *)
(* units, and a score is scaled by the two maxima it is normalised with.   *)
(* The keywords of a prompt are its intent; filters that look at nothing   *)
(* which changes here (capabilities, sizes, regions, lists) are the set    *)
(* of unfit models.  A model that is scored has passed its health check,   *)
(* so the weight of failures never counts.  The module is proved about     *)
(* together with Session and shares no name with it.                       *)
(***************************************************************************)
EXTENDS Integers, FiniteSets, FiniteSetsExt

CONSTANTS
    Model, NoModel,
    ProviderOf,
    Rank,       \* the order of the model ids
    Offers,     \* what the models may cost and do: functions on Model
    Request,    \* what clients ask for
    Policy,     \* weights and floors of each mode, in percent
    Penalty,    \* switchPenalty, in percent
    Threshold,  \* switchScoreThreshold, in percent
    MaxEscalation, \* maxEscalationLevel
    PriorSize,  \* priorSampleSize
    MaxChanges  \* bound on what happens around the session

(* The difficulty each rule of the classifier begins with.                 *)
Rules == [security_review |-> 4, architecture_design |-> 5, migration |-> 4,
          test_repair |-> 3, test_generation |-> 2, debugging |-> 3, refactoring |-> 3,
          documentation |-> 1, repository_exploration |-> 3, small_edit |-> 2,
          code_generation |-> 2, explanation |-> 1]

(* What the schemas let a model and a mode say.                            *)
ModelOffer ==
    [tier : 1 .. 5, input : Nat, cached : Nat, output : Nat, latency : Nat,
     attempts : Nat \ {0}, sample : [rate : 0 .. 100, size : Nat]]

ModePolicy ==
    [minimumTier : 1 .. 5, adjustment : Int, quality : Nat, cost : Nat, latency : Nat]

ASSUME RoutingAssumption ==
    /\ IsFiniteSet(Model)
    /\ NoModel \notin Model
    /\ Rank \in [Model -> Nat]
    /\ \A m, n \in Model : Rank[m] = Rank[n] => m = n
    /\ {Penalty, Threshold, MaxEscalation, PriorSize, MaxChanges} \subseteq Nat
    /\ Offers \subseteq [Model -> ModelOffer]
    \* A cached token is not dearer than a fresh one.
    /\ \A o \in Offers, m \in Model : o[m].cached <= o[m].input
    /\ \A mode \in DOMAIN Policy : Policy[mode] \in ModePolicy
    /\ \A r \in Request : /\ r.mode \in DOMAIN Policy
                          /\ r.intent \in {""} \cup DOMAIN Rules
                          /\ r.budget \in Nat

VARIABLES
    offer,    \* tier, prices, latency and evaluation of each model
    request,  \* what the client asks for
    unfit,    \* models a hard filter, a health check or a circuit rejects
    level,    \* the escalation level of the session
    session,  \* its model and the class of its last task
    changes

routingVars == <<offer, request, unfit, level, session, changes>>

RoutingInit ==
    /\ offer \in Offers
    /\ request \in Request
    /\ unfit = {}
    /\ level = 0
    /\ session = [model |-> NoModel, class |-> "none"]
    /\ changes = 0

-----------------------------------------------------------------------------
(* What the task is. *)

Implementing == {"code_generation", "small_edit", "debugging", "refactoring",
                 "test_generation", "test_repair"}

Family(class) ==
    CASE class \in {"explanation", "documentation", "simple_tool_operation"} -> "light"
      [] class \in {"code_generation", "small_edit", "test_generation"} -> "implementation"
      [] class \in {"debugging", "test_repair"} -> "repair"
      [] class \in {"multi_file_feature", "refactoring", "repository_exploration"} -> "codebase"
      [] OTHER -> "high_complexity"

Told(r) ==
    CASE r.intent # "" -> [class |-> r.intent, difficulty |-> Rules[r.intent]]
      [] r.intent = "" /\ r.tools -> [class |-> "simple_tool_operation", difficulty |-> 1]
      [] OTHER -> [class |-> "explanation", difficulty |-> 2]

Scoped(r, told) ==
    CASE r.scope = "autonomous" -> [class |-> "long_autonomous_task", difficulty |-> 5]
      [] r.scope = "files" /\ told.class \in Implementing ->
            [class |-> "multi_file_feature", difficulty |-> 4]
      [] OTHER -> told

(* An intent of "" matches no rule; scope grows with files and length; a   *)
(* history of failures and a stuck transcript each make it harder.         *)
Task(r) ==
    LET task == Scoped(r, Told(r))
        harder == (IF r.failing THEN 1 ELSE 0) + (IF r.stuck THEN 1 ELSE 0)
    IN  [class |-> task.class,
         difficulty |-> IF task.difficulty + harder > 5 THEN 5 ELSE task.difficulty + harder]

-----------------------------------------------------------------------------
(* What a model would cost and achieve. *)

Percent == [p \in -100 .. 200 |-> CASE p < 1 -> 1 [] p > 99 -> 99 [] OTHER -> p]

QualityPrior ==
    [tier \in 1 .. 5 |-> [difficulty \in 1 .. 5 |->
        Max({8, Min({97, 52 + 10 * tier - 7 * (difficulty - 1)})})]]

(* An evaluation of no samples is none. *)
Success(o, difficulty) ==
    LET size == o.sample.size IN
    IF size = 0 THEN QualityPrior[o.tier][difficulty]
    ELSE Percent[(o.sample.rate * size + QualityPrior[o.tier][difficulty] * PriorSize)
                   \div (size + PriorSize)]

EstimatedCost(o) == o.input + o.output

(* Expected cost of one success: the session's model has its cache warm,   *)
(* every model has on a retry.                                             *)
ExpectedCost(o, warm, success) ==
    LET first == IF warm THEN o.cached ELSE o.input
        retries == (o.attempts - 1) * (o.cached + o.output)
    IN  ((first + o.output + retries) * 1000) \div (IF success < 5 THEN 5 ELSE success)

FixedModel ==
    CASE request.forced # NoModel -> request.forced
      [] request.forced = NoModel /\ request.mode = "fixed" -> request.model
      [] OTHER -> NoModel

QualityFloor(task) ==
    LET policy == Policy[request.mode]
    IN  Max({policy.minimumTier, Min({5, task.difficulty + policy.adjustment + level})})

Eligible(offers, task) ==
    {m \in Model \ unfit :
        /\ request.provider \in {"any", ProviderOf[m]}
        /\ IF FixedModel = NoModel THEN offers[m].tier >= QualityFloor(task) ELSE m = FixedModel
        /\ EstimatedCost(offers[m]) <= request.budget}

(* The candidates that are scored. *)
Candidates(offers, task) ==
    {[model    |-> m,
      success  |-> Success(offers[m], task.difficulty),
      cost     |-> ExpectedCost(offers[m], session.model = m,
                                Success(offers[m], task.difficulty)),
      latency  |-> offers[m].latency,
      tier     |-> IF request.mode = "quality" THEN offers[m].tier ELSE 0,
      estimate |-> EstimatedCost(offers[m])] : m \in Eligible(offers, task)}

-----------------------------------------------------------------------------
(* Which model is selected. *)

(* Mutant: the penalty falls on the model of the session. *)
PenalizedStay(m) == session.model = m

Penalized(m) == session.model \notin {NoModel, m}

(* Mutant: the cost of a candidate speaks for it. *)
ScoreRewardingCost(k, maximumCost, maximumLatency) ==
    LET policy == Policy[request.mode]
        scale == maximumCost * maximumLatency
    IN  policy.quality * k.success * scale
        + policy.cost * 100 * k.cost * maximumLatency
        - policy.latency * 100 * k.latency * maximumCost
        - (IF Penalized(k.model) THEN 100 * Penalty * scale ELSE 0)

(* The score of a candidate, and the threshold, times both maxima.         *)
Score(k, maximumCost, maximumLatency) ==
    LET policy == Policy[request.mode]
        scale == maximumCost * maximumLatency
    IN  policy.quality * k.success * scale
        - policy.cost * 100 * k.cost * maximumLatency
        - policy.latency * 100 * k.latency * maximumCost
        - (IF Penalized(k.model) THEN 100 * Penalty * scale ELSE 0)

Scored(candidates) ==
    LET maximumCost == Max({1} \cup {k.cost : k \in candidates})
        maximumLatency == Max({1} \cup {k.latency : k \in candidates})
    IN  {[model     |-> k.model,
          tier      |-> k.tier,
          estimate  |-> k.estimate,
          threshold |-> 100 * Threshold * maximumCost * maximumLatency,
          total     |-> Score(k, maximumCost, maximumLatency)] : k \in candidates}

(* selectCandidate; the latency tier, which decides before the ids, is left *)
(* to their order.                                                         *)
Beats(k, l) ==
    CASE k.total # l.total -> k.total > l.total
      [] k.total = l.total /\ k.tier # l.tier -> k.tier > l.tier
      [] k.total = l.total /\ k.tier = l.tier /\ k.estimate # l.estimate ->
            k.estimate < l.estimate
      [] OTHER -> Rank[k.model] < Rank[l.model]

Best(scored) == CHOOSE k \in scored : \A l \in scored \ {k} : Beats(k, l)

(* The session keeps its model k unless an instruction, the task or a clear *)
(* difference to the best candidate speaks against it.                     *)
Keeps(k, best, task) ==
    /\ k.model = session.model
    /\ FixedModel = NoModel
    /\ request.provider = "any"
    /\ Family(session.class) = Family(task.class)
    /\ best.total - k.total < best.threshold

Choice(scored, task) ==
    LET best == Best(scored)
        kept == {k \in scored : Keeps(k, best, task)}
    IN  IF kept # {} THEN session.model ELSE best.model

Selected(offers) ==
    LET candidates == Candidates(offers, Task(request))
    IN  IF candidates = {} THEN NoModel ELSE Choice(Scored(candidates), Task(request))

-----------------------------------------------------------------------------
Answers(m) == session' = [model |-> m, class |-> Task(request).class]

(* A turn that the selected model answers; without a model it fails.       *)
Turn ==
    /\ IF Selected(offer) = NoModel THEN UNCHANGED session ELSE Answers(Selected(offer))
    /\ UNCHANGED <<offer, request, unfit, level, changes>>

Change == changes < MaxChanges /\ changes' = changes + 1

(* A turn that another eligible model answers after the selected one failed. *)
FallbackTurn ==
    /\ Change
    /\ FixedModel = NoModel
    /\ \E m \in Eligible(offer, Task(request)) \ {Selected(offer)} : Answers(m)
    /\ UNCHANGED <<offer, request, unfit, level>>

(* The client asks for something else. *)
Ask ==
    /\ Change
    /\ request' \in Request \ {request}
    /\ UNCHANGED <<offer, unfit, level, session>>

(* A circuit or a health check changes its mind about a model. *)
Disturb ==
    /\ Change
    /\ \E m \in Model : unfit' = IF m \in unfit THEN unfit \ {m} ELSE unfit \cup {m}
    /\ UNCHANGED <<offer, request, level, session>>

Escalate ==
    /\ Change
    /\ level' \in {level - 1, level + 1} \cap 0 .. MaxEscalation
    /\ UNCHANGED <<offer, request, unfit, session>>

RoutingNext == Turn \/ FallbackTurn \/ Ask \/ Disturb \/ Escalate

RoutingSpec == RoutingInit /\ [][RoutingNext]_routingVars

-----------------------------------------------------------------------------
(* When nothing around it changes any more a session settles on a model:   *)
(* warm caches, the switch penalty and the threshold, which all depend on  *)
(* the model it has, never send it round in a circle                       *)
(* (applySessionHysteresis and scoreCandidates).                           *)
Settles == <>[][session'.model = session.model]_routingVars

Dearer(o, m) ==
    [o EXCEPT ![m].input = 2 * @, ![m].cached = 2 * @, ![m].output = 2 * @]

(* A model that was not selected is not selected because it has become     *)
(* dearer, though its price also moves the scale all are measured on.      *)
RaisedPriceNeverWins ==
    \A m \in Model \ {Selected(offer)} : Selected(Dearer(offer, m)) # m
=============================================================================
