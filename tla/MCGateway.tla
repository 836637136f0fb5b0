----------------------------- MODULE MCGateway -----------------------------
(***************************************************************************)
(* What surrounds the provider call - the limits on addresses, identities  *)
(* and workspaces, the balancer of providers, the counters of their        *)
(* health, the two protocol bridges, the request log - each with           *)
(* everything that may go wrong.                                           *)
(* They share no state: each behaviour runs the one that part names while  *)
(* the others rest.                                                        *)
(***************************************************************************)
EXTENDS ProviderFailover, ClientIpLimit, IdentityLimit, WorkspaceConcurrency,
        ResponsesBridge, ChatBridge, RequestLog, RollingCounter, TLC

CONSTANTS
    x1, x2,            \* two providers, processes, threads or logged requests
    b1, b2, b3, b4     \* output items

VARIABLE part

(* ProviderFailover: each target is a provider, any may be answered 429.   *)
MCProviderOf == [t \in {x1, x2} |-> t]
MCKindOf == [r \in Routers |-> "ProviderWeighted"]
MCLimiters == [r \in Routers |-> Providers]

(* ChatBridge: a message, a comment and two calls.                         *)
MCItemKind == (b1 :> "message") @@ (b2 :> "commentary")
              @@ (b3 :> "function_call") @@ (b4 :> "function_call")

(* RequestLog: answers and denials of the mapper, protected or not, large  *)
(* or not, streamed or not; and the other ends of a Responses request.     *)
Logged(p, x, b, s, w) ==
    [path |-> p, protected |-> x, big |-> b, stream |-> s, wire |-> w, observed |-> TRUE]
MCLogKinds ==
    {Logged(p, x, b, s, "chat") : p \in {"response", "mapperDenied"}, x \in BOOLEAN,
                                  b \in {{}, {"response"}}, s \in BOOLEAN}
    \cup {Logged(p, FALSE, {}, TRUE, "responses") : p \in {"response", "denied", "failed"}}

(* The two of each kind are interchangeable, and so are the clients.       *)
MCSymmetry == {f @@ g : f \in Permutations({x1, x2}), g \in Permutations(Clients)}

Rests(p) == part # p

(* A part that rests has one initial state.                                *)
GatewayInit ==
    /\ part \in {"balancer", "address", "identity", "workspace",
                 "responses", "chat", "log", "counters"}
    /\ Init /\ (Rests("balancer") => ~failover)
    /\ IpInit /\ (Rests("address") => \A p \in Processes : useRedis[p])
    /\ IdentityInit /\ (Rests("identity") => backend = "memory")
    /\ WsInit
    /\ BridgeInit /\ (Rests("responses") => codex /\ namesFirst /\ finishesLast)
    /\ ChatBridgeInit /\ (Rests("chat") => orderly)
    /\ RequestLogInit
    /\ Rests("log") =>
          /\ observability /\ transport = "http"
          /\ \A r \in LogRequests : about[r] = Logged("response", FALSE, {}, TRUE, "responses")
    /\ CounterInit

GatewayNext ==
    \/ /\ part = "balancer" /\ Next
       /\ UNCHANGED <<part, ipVars, identityVars, wsVars, bridgeVars,
                      chatBridgeVars, logVars, counterVars>>
    \/ /\ part = "address" /\ IpNext
       /\ UNCHANGED <<part, vars, identityVars, wsVars, bridgeVars,
                      chatBridgeVars, logVars, counterVars>>
    \/ /\ part = "identity" /\ IdentityNext
       /\ UNCHANGED <<part, vars, ipVars, wsVars, bridgeVars, chatBridgeVars,
                      logVars, counterVars>>
    \/ /\ part = "workspace" /\ WsNext
       /\ UNCHANGED <<part, vars, ipVars, identityVars, bridgeVars,
                      chatBridgeVars, logVars, counterVars>>
    \/ /\ part = "responses" /\ BridgeNext
       /\ UNCHANGED <<part, vars, ipVars, identityVars, wsVars, chatBridgeVars,
                      logVars, counterVars>>
    \/ /\ part = "chat" /\ ChatBridgeNext
       /\ UNCHANGED <<part, vars, ipVars, identityVars, wsVars, bridgeVars,
                      logVars, counterVars>>
    \/ /\ part = "log" /\ RequestLogNext
       /\ UNCHANGED <<part, vars, ipVars, identityVars, wsVars, bridgeVars,
                      chatBridgeVars, counterVars>>
    \/ /\ part = "counters" /\ CounterNext
       /\ UNCHANGED <<part, vars, ipVars, identityVars, wsVars, bridgeVars,
                      chatBridgeVars, logVars>>

GatewaySpec ==
    GatewayInit
    /\ [][GatewayNext]_<<part, vars, ipVars, identityVars, wsVars, bridgeVars,
                         chatBridgeVars, logVars, counterVars>>

(* Every variable of the part that runs keeps its type, and every bounded  *)
(* resource its bound: the change channel, the queues in memory, the       *)
(* counters.                                                               *)
GatewayTypeOK ==
    CASE part = "balancer" -> TypeOK
      [] part = "address" -> IpTypeOK
      [] part = "identity" -> IdentityTypeOK
      [] part = "workspace" -> WsTypeOK
      [] part = "responses" -> BridgeTypeOK
      [] part = "chat" -> ChatBridgeTypeOK
      [] part = "log" -> RequestLogTypeOK
      [] part = "counters" -> CounterTypeOK
=============================================================================
