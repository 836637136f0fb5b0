----------------------------- MODULE MCProgress -----------------------------
(***************************************************************************)
(* Progress of the request paths that wait for somebody else - a slot,     *)
(* paid resources, tools and model providers - and of the catalog.         *)
(* They share no state: each behaviour runs the one that part names while  *)
(* the others rest.                                                        *)
(***************************************************************************)
EXTENDS X402Payment, AgentToolCall, Dispatcher, ProviderCatalog, InFlightLimit, MCValues

CONSTANT g1

VARIABLE part

progressVars == <<part, x402Vars, toolVars, dispatchVars, vars, inFlightVars>>

MCHomeOne == [r \in Requests |-> g1]
MCWorkspaceOf == [c \in ToolCalls |-> CHOOSE w \in Workspaces : TRUE]

(* The states in which parts rest: no request has arrived, slots are       *)
(* counted in Redis, the catalog is what the tables hold.                  *)
CatalogRests ==
    /\ db = [t \in Tables |-> 1]
    /\ catalog = db /\ loaded = db /\ baseline = db /\ probe = db
    /\ stage = "idle" /\ late = FALSE

Resting ==
    /\ part # "x402" => gateway = [client |-> TRUE, key |-> TRUE, allowUnavailable |-> TRUE]
    /\ part # "tools" => /\ eventSink = [redis |-> TRUE, http |-> TRUE]
                         /\ \A c \in ToolCalls : target[c] = Tool("mock", FALSE)
    /\ part # "slots" => \A g \in Gateways : useRedis[g]
    /\ part # "dispatch" => \A d \in Dispatches : kind[d] = Kinded("unified", FALSE, "regional")

ProgressInit ==
    /\ part \in {"x402", "tools", "dispatch", "slots", "catalog"}
    /\ X402Init /\ ToolInit /\ DispatchInit /\ InFlightInit
    /\ IF part = "catalog" THEN Init ELSE CatalogRests
    /\ Resting

ProgressNext ==
    \/ /\ part = "x402" /\ X402Next
       /\ UNCHANGED <<part, toolVars, dispatchVars, vars, inFlightVars>>
    \/ /\ part = "tools" /\ ToolNext
       /\ UNCHANGED <<part, x402Vars, dispatchVars, vars, inFlightVars>>
    \/ /\ part = "dispatch" /\ DispatchNext
       /\ UNCHANGED <<part, x402Vars, toolVars, vars, inFlightVars>>
    \/ /\ part = "slots" /\ InFlightNext
       /\ UNCHANGED <<part, x402Vars, toolVars, dispatchVars, vars>>
    \/ /\ part = "catalog" /\ Next
       /\ UNCHANGED <<part, x402Vars, toolVars, dispatchVars, inFlightVars>>

(* The fairness of each part.  Requests are not obliged to arrive, so that *)
(* of the paths asks nothing where they rest; the listener's task runs     *)
(* only in the behaviours of the catalog.                                  *)
ProgressSpec ==
    /\ ProgressInit /\ [][ProgressNext]_progressVars
    /\ X402Fairness /\ ToolFairness /\ DispatchFairness /\ InFlightFairness
    /\ part = "catalog" => Fairness
=============================================================================
