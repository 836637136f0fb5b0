------------------------------ MODULE MCAgent ------------------------------
(***************************************************************************)
(* MCP sessions and batches of agent events, the two agent endpoints that  *)
(* wait for each other's requests in Redis.  They share no state: each     *)
(* behaviour runs the one that part names while the other rests.           *)
(***************************************************************************)
EXTENDS McpSessions, AgentEvents, TLC

CONSTANTS b1, b2

VARIABLE part

agentVars == <<part, mcpVars, eventVars>>

(* McpSessions: all calls reach one gateway.                               *)
MCGatewayOf == [c \in Calls |-> CHOOSE g \in Gateways : TRUE]

(* AgentEvents: two batches that agree on one step and not on the other;   *)
(* one also has an event of no step.                                       *)
AgentEvent(s, p, g) == [step |-> s, print |-> p, gated |-> g]
MCEventsOf ==
    (b1 :> <<AgentEvent(1, "p", TRUE), AgentEvent(2, "p", FALSE), AgentEvent(NoStep, "p", FALSE)>>)
    @@ (b2 :> <<AgentEvent(1, "p", FALSE), AgentEvent(2, "q", TRUE)>>)

AgentInit ==
    /\ part \in {"sessions", "events"}
    /\ McpInit /\ EventInit
    /\ part # "sessions" => redis
    /\ part # "events" => conf = [sink |-> [redis |-> TRUE, http |-> TRUE],
                                  onConflict |-> "warn"]

AgentNext ==
    \/ part = "sessions" /\ McpNext /\ UNCHANGED <<part, eventVars>>
    \/ part = "events" /\ EventNext /\ UNCHANGED <<part, mcpVars>>

(* The fairness of each part; where it rests it asks nothing.              *)
AgentLiveSpec ==
    /\ AgentInit /\ [][AgentNext]_agentVars
    /\ McpFairness /\ EventFairness

(* Every variable of both parts keeps its type; at most two copies of an   *)
(* event reach the log.                                                    *)
AgentTypeOK == McpTypeOK /\ EventTypeOK
=============================================================================
