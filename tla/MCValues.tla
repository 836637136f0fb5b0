------------------------------ MODULE MCValues ------------------------------
(* Values of the CONSTANTS that several instances share. *)

(* AgentToolCall: a tool of each kind.                                     *)
Tool(k, h) == [kind |-> k, high |-> h]
MCTargets ==
    {Tool("mock", FALSE), Tool("http", TRUE), Tool("mcpHttp", TRUE), Tool("mcp", FALSE),
     Tool("openapi", TRUE)}

(* Dispatcher: a request of each path, all of them cached.                 *)
Kinded(p, s, e) == [path |-> p, stream |-> s, reads |-> TRUE, writes |-> TRUE, endpoint |-> e]
MCKinds ==
    {Kinded("unified", FALSE, "regional"), Kinded("router", TRUE, "global"),
     Kinded("media", FALSE, "fixed"), Kinded("heartbeat", TRUE, "global")}
=============================================================================
