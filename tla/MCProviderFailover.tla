------------------------- MODULE MCProviderFailover -------------------------
(* Small instances of ProviderFailover for TLC. *)
EXTENDS ProviderFailover, TLC

CONSTANTS p1, p2, m1, m2

MCProviderTargets == {p1, p2}
MCProviderOf == [t \in {p1, p2} |-> t]
MCModelTargets == {m1, m2}
MCModelProviderOf == [t \in {m1, m2} |-> p1]
MCOneTarget == {p1}
MCOneProviderOf == [t \in {p1} |-> t]

(* Any router, or only one of the routers, may be answered 429. *)
MCLimited == CHOOSE r \in Routers : TRUE
MCLimiters == [r \in Routers |-> Providers]
MCOneLimited == [r \in Routers |-> IF r = MCLimited THEN Providers ELSE {}]

(* Strategies: all routers the same, or that router weighted by provider   *)
(* and the others by the latency of models.                                *)
MCProviderWeighted == [r \in Routers |-> "ProviderWeighted"]
MCModelWeighted == [r \in Routers |-> "ModelWeighted"]
MCMixed == [r \in Routers |-> IF r = MCLimited THEN "ProviderWeighted" ELSE "ModelLatency"]
=============================================================================
