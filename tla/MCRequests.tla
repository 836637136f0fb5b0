----------------------------- MODULE MCRequests -----------------------------
(***************************************************************************)
(* The stations of a request - the gateway's slots, the dispatcher, the    *)
(* balancer of models, paid resources, tools, the observer of streamed     *)
(* tool calls - each with everything that may go wrong.  They share no     *)
(* state: each behaviour runs the one that part names while the others     *)
(* rest.                                                                   *)
(***************************************************************************)
EXTENDS InFlightLimit, Dispatcher, ProviderFailover, X402Payment, AgentToolCall,
        ChatToolObserver, MCValues, TLC

CONSTANTS g1, g2, r1, r2, r3, p1, m1, m2, k1, k2

VARIABLE part

(* InFlightLimit: two requests of the first gateway, one of the second.    *)
MCHome == (r1 :> g1) @@ (r2 :> g1) @@ (r3 :> g2)

(* ProviderFailover: two models of one provider.                           *)
MCModelProviderOf == [t \in {m1, m2} |-> p1]
MCKindOf == [r \in Routers |-> "ModelLatency"]
MCLimiters == [r \in Routers |-> {p1}]

MCWorkspaceOf == [c \in ToolCalls |-> CHOOSE w \in Workspaces : TRUE]

(* ChatToolObserver: two calls of one tool.                                *)
MCIndexOf == (k1 :> "i1") @@ (k2 :> "i2")
MCIdOf == (k1 :> "x1") @@ (k2 :> "x2")
MCNameOf == (k1 :> "f") @@ (k2 :> "f")

(* Dispatches are interchangeable.                                         *)
MCSymmetry == Permutations(Dispatches)

Rests(p) == part # p

(* A part that rests has one initial state.                                *)
RequestsInit ==
    /\ part \in {"slots", "dispatch", "models", "x402", "tools", "observer"}
    /\ InFlightInit
    /\ Rests("slots") => \A g \in Gateways : ~useRedis[g] /\ conn[g] = "none"
    /\ DispatchInit
    /\ Rests("dispatch") => \A d \in Dispatches : kind[d] = Kinded("unified", FALSE, "regional")
    /\ Init /\ (Rests("models") => ~failover)
    /\ X402Init
    /\ Rests("x402") => gateway = [client |-> TRUE, key |-> TRUE, allowUnavailable |-> TRUE]
    /\ ToolInit
    /\ Rests("tools") => /\ eventSink = [redis |-> TRUE, http |-> TRUE]
                         /\ \A c \in ToolCalls : target[c] = Tool("mock", FALSE)
    /\ ChatInit /\ (Rests("observer") => names = "any")

RequestsNext ==
    \/ /\ part = "slots" /\ InFlightNext
       /\ UNCHANGED <<part, dispatchVars, vars, x402Vars, toolVars, chatVars>>
    \/ /\ part = "dispatch" /\ DispatchNext
       /\ UNCHANGED <<part, inFlightVars, vars, x402Vars, toolVars, chatVars>>
    \/ /\ part = "models" /\ Next
       /\ UNCHANGED <<part, inFlightVars, dispatchVars, x402Vars, toolVars, chatVars>>
    \/ /\ part = "x402" /\ X402Next
       /\ UNCHANGED <<part, inFlightVars, dispatchVars, vars, toolVars, chatVars>>
    \/ /\ part = "tools" /\ ToolNext
       /\ UNCHANGED <<part, inFlightVars, dispatchVars, vars, x402Vars, chatVars>>
    \/ /\ part = "observer" /\ ChatNext
       /\ UNCHANGED <<part, inFlightVars, dispatchVars, vars, x402Vars, toolVars>>

RequestsSpec ==
    RequestsInit
    /\ [][RequestsNext]_<<part, inFlightVars, dispatchVars, vars, x402Vars, toolVars, chatVars>>

(* Every variable of the station that runs keeps its type and its bound:   *)
(* slots, attempts, entries of the log, permits, drafts.                   *)
RequestsTypeOK ==
    CASE part = "slots" -> InFlightTypeOK
      [] part = "dispatch" -> DispatchTypeOK
      [] part = "models" -> TypeOK
      [] part = "x402" -> X402TypeOK
      [] part = "tools" -> ToolTypeOK
      [] part = "observer" -> ChatTypeOK
=============================================================================
