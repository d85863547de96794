------------------------------ MODULE MCRouting ------------------------------
(***************************************************************************)
(* Routing for TLC: three models of two providers with the default         *)
(* policies, every assignment of a few offers to the models.               *)
(***************************************************************************)
EXTENDS Routing

CONSTANTS a, b, c, p, q

MCModel == {a, b, c}
MCProviderOf == [m \in MCModel |-> IF m = a THEN p ELSE q]
MCRank == [m \in MCModel |-> CASE m = a -> 1 [] m = b -> 2 [] m = c -> 3]

Unevaluated == [rate |-> 0, size |-> 0]

Offer(tier, input, cached, output, latency) ==
    [tier |-> tier, input |-> input, cached |-> cached, output |-> output,
     latency |-> latency, attempts |-> 1, sample |-> Unevaluated]

MCOffer ==
    {Offer(2, 4, 1, 4, 1), Offer(3, 12, 1, 1, 2), Offer(4, 6, 3, 6, 2),
     Offer(5, 30, 3, 5, 4), Offer(4, 2, 1, 2, 4), Offer(5, 14, 14, 20, 1),
     [Offer(3, 8, 2, 4, 1) EXCEPT !.attempts = 2, !.sample = [rate |-> 95, size |-> 20]],
     [Offer(4, 20, 20, 8, 3) EXCEPT !.sample = [rate |-> 40, size |-> 60]]}
MCOffers == [MCModel -> MCOffer]

Plain == [intent |-> "code_generation", tools |-> FALSE, scope |-> "small", failing |-> FALSE,
          stuck |-> FALSE, mode |-> "balanced", model |-> NoModel, forced |-> NoModel,
          provider |-> "any", budget |-> 40]

MCRequest ==
    {Plain, [Plain EXCEPT !.mode = "eco"], [Plain EXCEPT !.mode = "quality"],
     [Plain EXCEPT !.intent = "", !.tools = TRUE, !.mode = "eco"],
     [Plain EXCEPT !.intent = "debugging", !.scope = "files", !.failing = TRUE],
     [Plain EXCEPT !.stuck = TRUE, !.budget = 20],
     [Plain EXCEPT !.mode = "fixed", !.model = b],
     [Plain EXCEPT !.mode = "fixed", !.model = b, !.forced = c],
     [Plain EXCEPT !.provider = q, !.intent = ""],
     [Plain EXCEPT !.scope = "autonomous"]}

Weights(minimumTier, adjustment, quality, cost, latency) ==
    [minimumTier |-> minimumTier, adjustment |-> adjustment,
     quality |-> quality, cost |-> cost, latency |-> latency]

MCPolicy == [quality  |-> Weights(2, 0, 82, 4, 8),
             balanced |-> Weights(1, -1, 55, 25, 12),
             eco      |-> Weights(1, -1, 20, 68, 8),
             fixed    |-> Weights(1, -4, 100, 0, 0)]
=============================================================================
