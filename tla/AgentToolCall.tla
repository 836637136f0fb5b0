---------------------------- MODULE AgentToolCall ----------------------------
(***************************************************************************)
(* A call of an agent's tool (agent/tools/service.rs handle_call): the     *)
(* checks of the request, the permit of the workspace, the audit event of  *)
(* the request, the policy, the budget, the execution by the target's kind *)
(* and the audit event of the outcome.  A client may leave at every await; *)
(* a tool may be reached although its answer is lost.                      *)
(***************************************************************************)
EXTENDS Naturals, FiniteSets, EventLog

CONSTANTS ToolCalls,
          ToolTargets,       \* the configured tools: their kind, and whether the risk is high
          Workspaces,
          WorkspaceOf,   \* the workspace of each call
          Limit          \* max_concurrent_per_workspace; 0: unlimited

\* The kinds of target, by how they are executed: "mcp" stands for mcp-streamable-http and
\* mcp-sse, "mcpHttp" for mcp-http.
TargetKinds == {"mock", "http", "mcpHttp", "mcp", "openapi"}

ASSUME ToolAssumption ==
    /\ Limit \in Nat
    /\ ToolTargets \subseteq [kind : TargetKinds, high : BOOLEAN]
    /\ WorkspaceOf \in [ToolCalls -> Workspaces]

VARIABLES
    eventSink,   \* what the event log has: Redis, the HTTP fallback
    tstep,       \* the await each call has reached
    target,      \* the tool it calls
    inUse,       \* permits taken, by workspace
    requested,   \* copies of its requested event in the log
    terminal,    \* copies of its terminal event
    cleared,     \* the policy's verdict
    wire,        \* the call of the tool, as the tool sees it
    told,        \* the envelope returned: [executed, billable]
    lapse        \* history: where the call left the full audit trail

toolVars == <<eventSink, tstep, target, inUse, requested, terminal, cleared, wire, told, lapse>>

NotTold == [executed |-> FALSE, billable |-> FALSE, answered |-> FALSE]
Told(executed, billable) == [executed |-> executed, billable |-> billable, answered |-> TRUE]
Holding == {"request", "policy", "blocked", "execute", "running", "terminal"}

ToolTypeOK ==
    /\ eventSink \in [redis : BOOLEAN, http : BOOLEAN]
    /\ tstep \in [ToolCalls -> {"idle", "refused", "done"} \cup Holding]
    /\ target \in [ToolCalls -> ToolTargets]
    /\ inUse \in [Workspaces -> Nat]
    /\ requested \in [ToolCalls -> 0..2] /\ terminal \in [ToolCalls -> 0..2]
    /\ cleared \in [ToolCalls -> {"none", "allowed", "blocked"}]
    /\ wire \in [ToolCalls -> {"none", "sent", "received"}]
    /\ told \in [ToolCalls -> [executed : BOOLEAN, billable : BOOLEAN, answered : BOOLEAN]]
    /\ lapse \in [ToolCalls -> SUBSET {"sink", "execution", "transport", "left"}]

ToolInit ==
    /\ eventSink \in [redis : BOOLEAN, http : BOOLEAN]
    /\ tstep = [c \in ToolCalls |-> "idle"]
    /\ target \in [ToolCalls -> ToolTargets]
    /\ inUse = [w \in Workspaces |-> 0]
    /\ requested = [c \in ToolCalls |-> 0] /\ terminal = [c \in ToolCalls |-> 0]
    /\ cleared = [c \in ToolCalls |-> "none"]
    /\ wire = [c \in ToolCalls |-> "none"]
    /\ told = [c \in ToolCalls |-> NotTold]
    /\ lapse = [c \in ToolCalls |-> {}]

trail == <<requested, terminal>>

\* try_acquire_workspace and the drop of the permit, on every way out of the handler.
HasPermit(c) == Limit > 0 /\ tstep[c] \in Holding
Free(w) == Limit = 0 \/ inUse[w] < Limit

TakePermit(c) ==
    inUse' = [inUse EXCEPT ![WorkspaceOf[c]] = IF Limit = 0 THEN @ ELSE @ + 1]

DropPermit(c) == inUse' = [inUse EXCEPT ![WorkspaceOf[c]] = IF HasPermit(c) THEN @ - 1 ELSE @]

GoOn(c, next) == tstep' = [tstep EXCEPT ![c] = next] /\ UNCHANGED <<inUse, told>>

Return(c, envelope) ==
    /\ tstep' = [tstep EXCEPT ![c] = "done"]
    /\ DropPermit(c)
    /\ told' = [told EXCEPT ![c] = envelope]

Lapse(c, where) == lapse' = [lapse EXCEPT ![c] = @ \cup {where}]
-----------------------------------------------------------------------------
(* Before the tool is called                                                *)

\* Route, body, JSON, allowlist, snapshot guard and schema may refuse the call; an OpenAPI
\* target then logs a terminal event.  A workspace at its limit is refused next.
ReceiveCall(c) ==
    /\ tstep[c] = "idle"
    /\ \/ Return(c, Told(FALSE, FALSE))
       \/ target[c].kind = "openapi" /\ GoOn(c, "refused")
       \/ ~Free(WorkspaceOf[c]) /\ Return(c, Told(FALSE, FALSE))
       \/ /\ Free(WorkspaceOf[c])
          /\ TakePermit(c)
          /\ tstep' = [tstep EXCEPT ![c] = "request"]
          /\ UNCHANGED told
    /\ UNCHANGED <<eventSink, target, trail, cleared, wire, lapse>>

\* openapi_pre_execution_failure_response_with_event, and the terminal event of a call
\* that the policy or the budget has blocked.
EmitRefusal(c) ==
    /\ tstep[c] \in {"refused", "blocked"}
    /\ \E s \in SendEvent(eventSink) :
         /\ terminal' = [terminal EXCEPT ![c] = s.copies]
         /\ IF s.ok THEN UNCHANGED lapse ELSE Lapse(c, "sink")
    /\ Return(c, Told(FALSE, FALSE))
    /\ UNCHANGED <<eventSink, target, requested, cleared, wire>>

\* The budget of one call, read from the configuration and the rate card.
CheckBudget(c) == \E next \in {"blocked", "execute"} : GoOn(c, next)

Preflighted(c) == target[c].kind \in {"mcp", "openapi"}

\* As if the audit of a tool of high risk were best effort.
EmitRequested_FailsOpen(c) ==
    /\ tstep[c] = "request"
    /\ \E s \in SendEvent(eventSink) : requested' = [requested EXCEPT ![c] = s.copies]
    /\ IF Preflighted(c) THEN GoOn(c, "policy") ELSE CheckBudget(c)
    /\ UNCHANGED <<eventSink, target, terminal, cleared, wire, lapse>>

\* The requested event.  Without it a tool of high risk is not called.
EmitRequested(c) ==
    /\ tstep[c] = "request"
    /\ \E s \in SendEvent(eventSink) :
         /\ requested' = [requested EXCEPT ![c] = s.copies]
         /\ \/ /\ ~s.ok /\ target[c].high
               /\ Return(c, Told(FALSE, FALSE))
               /\ Lapse(c, "sink")
            \/ /\ s.ok \/ ~target[c].high
               /\ IF Preflighted(c) THEN GoOn(c, "policy") ELSE CheckBudget(c)
               /\ UNCHANGED lapse
    /\ UNCHANGED <<eventSink, target, terminal, cleared, wire>>

\* validate_agent_policy: an error or a timeout blocks the call.
Preflight(c) ==
    /\ tstep[c] = "policy"
    /\ \/ cleared' = [cleared EXCEPT ![c] = "blocked"] /\ GoOn(c, "blocked")
       \/ cleared' = [cleared EXCEPT ![c] = "allowed"] /\ CheckBudget(c)
    /\ UNCHANGED <<eventSink, target, trail, wire, lapse>>
-----------------------------------------------------------------------------
(* The execution                                                            *)

\* The execution reports an error: no terminal event is logged.
ToolFails(c) == Return(c, NotTold) /\ Lapse(c, "execution")

Outcome(c, envelope) ==
    /\ tstep' = [tstep EXCEPT ![c] = "terminal"]
    /\ told' = [told EXCEPT ![c] = envelope]
    /\ UNCHANGED inUse

\* execute_tool_with_context up to its request: an unusable target, the egress policy, the
\* mapping, size and contract of an OpenAPI request.  An MCP server that refuses to
\* initialize fails the call, which is reported as executed although it was never sent.
ExecuteTool(c) ==
    /\ tstep[c] = "execute"
    /\ target[c].kind # "mock"
    /\ \/ GoOn(c, "running") /\ wire' = [wire EXCEPT ![c] = "sent"] /\ UNCHANGED lapse
       \/ ToolFails(c) /\ UNCHANGED wire
       \/ target[c].kind = "openapi" /\ Outcome(c, Told(FALSE, FALSE)) /\ UNCHANGED <<wire, lapse>>
       \/ /\ target[c].kind \in {"mcp", "mcpHttp"}
          /\ Outcome(c, Told(TRUE, FALSE)) /\ UNCHANGED <<wire, lapse>>
    /\ UNCHANGED <<eventSink, target, trail, cleared>>

\* mock_tool_response: the gateway itself is the tool.
ExecuteMock(c) ==
    /\ tstep[c] = "execute"
    /\ target[c].kind = "mock"
    /\ wire' = [wire EXCEPT ![c] = "received"]
    /\ Outcome(c, Told(TRUE, TRUE))
    /\ UNCHANGED <<eventSink, target, trail, cleared, lapse>>

\* The tool receives the call, perhaps after the gateway gave up.
ToolReceives(c) ==
    /\ wire[c] = "sent"
    /\ wire' = [wire EXCEPT ![c] = "received"]
    /\ UNCHANGED <<eventSink, tstep, target, inUse, trail, cleared, told, lapse>>

\* What a response of the tool becomes.  OpenAPI: a 2xx is billed also when its body is a
\* business failure or breaks the contract; other statuses, a body too large or not JSON
\* are not.  MCP: a call that the server completed is billed, one it answers with a
\* JSON-RPC error is failed, executed and not billed.  HTTP: only a completed call.
Answered(c) ==
    IF wire[c] # "received" THEN {}
    ELSE IF target[c].kind = "http" THEN {Told(TRUE, TRUE)}
    ELSE {Told(TRUE, b) : b \in BOOLEAN}

\* As if the wait had no timeout.
Unanswered_Nothing(c) == {}

\* A timeout, a transport error or a broken answer, whatever the tool did.
Unanswered(c) ==
    CASE target[c].kind = "mcp" -> {Told(TRUE, FALSE)}
      [] target[c].kind = "openapi" -> {Told(TRUE, FALSE), Told(FALSE, FALSE)}
      [] OTHER -> {}

\* The answer of the tool, or the end of the wait for it; an "http" or "mcpHttp" target that
\* does not answer as it should is an error.
ToolAnswers(c) ==
    /\ tstep[c] = "running"
    /\ \/ \E e \in Answered(c) : Outcome(c, e) /\ UNCHANGED lapse
       \/ \E e \in Unanswered(c) :
            /\ Outcome(c, e)
            /\ IF e.executed THEN UNCHANGED lapse ELSE Lapse(c, "transport")
       \/ target[c].kind \in {"http", "mcpHttp"} /\ ToolFails(c)
    /\ UNCHANGED <<eventSink, target, trail, cleared, wire>>

\* The terminal event; its loss is only logged.
EmitTerminal(c) ==
    /\ tstep[c] = "terminal"
    /\ \E s \in SendEvent(eventSink) :
         /\ terminal' = [terminal EXCEPT ![c] = s.copies]
         /\ IF s.ok THEN UNCHANGED lapse ELSE Lapse(c, "sink")
    /\ Return(c, told[c])
    /\ UNCHANGED <<eventSink, target, requested, cleared, wire>>

\* The client leaves: the handler is dropped, with its permit.
LeaveCall(c) ==
    /\ tstep[c] \notin {"idle", "done"}
    /\ Return(c, NotTold)
    /\ Lapse(c, "left")
    /\ UNCHANGED <<eventSink, target, trail, cleared, wire>>

ToolStep(c) ==
    \/ EmitRefusal(c) \/ EmitRequested(c) \/ Preflight(c) \/ ExecuteTool(c) \/ ExecuteMock(c)
    \/ ToolAnswers(c) \/ EmitTerminal(c)

ToolNext ==
    \E c \in ToolCalls : ReceiveCall(c) \/ ToolStep(c) \/ ToolReceives(c) \/ LeaveCall(c)

ToolSpec == ToolInit /\ [][ToolNext]_toolVars

\* The runtime polls every handler; every await has its timeout.
ToolFairness == \A c \in ToolCalls : WF_toolVars(ToolStep(c))

ToolLiveSpec == ToolSpec /\ ToolFairness
-----------------------------------------------------------------------------
(* Properties                                                               *)

\* A tool of high risk is not called unless its requested event is in the log, nor one of
\* a preflighted kind unless the policy allowed it, although the send of the event may
\* report anything (the fail-closed branch of handle_call).
CalledOnlyIfCleared ==
    \A c \in ToolCalls : wire[c] # "none" =>
        /\ target[c].high => requested[c] > 0
        /\ Preflighted(c) => cleared[c] = "allowed"

\* Only a tool that received the call is billed, once per envelope, and a caller that is
\* told that the tool was not executed may rely on it, except after a transport error of
\* an OpenAPI call (outcome.rs: InternalError says executed = false).
BillingIsTrue ==
    \A c \in ToolCalls :
        /\ told[c].billable => wire[c] = "received"
        /\ told[c].answered /\ ~told[c].executed /\ "transport" \notin lapse[c] => wire[c] = "none"

\* A finished call whose requested event is in the log has its terminal event there, except
\* where the code loses it: a failed send, an execution error, a client that left.
TrailIsClosed ==
    \A c \in ToolCalls :
        tstep[c] = "done" /\ requested[c] > 0 /\ lapse[c] \subseteq {"transport"}
            => terminal[c] > 0

\* The permits taken are those of the calls in progress, at most Limit in a workspace,
\* whatever way a call ends (the permit is a guard of the handler's scope).
PermitsExact ==
    \A w \in Workspaces :
        /\ inUse[w] = Cardinality({c \in ToolCalls : WorkspaceOf[c] = w /\ HasPermit(c)})
        /\ Limit > 0 => inUse[w] <= Limit

\* The checks before a call, its bill, its trail and its permit agree with what the tool
\* received, however the call ends.
ToolCallsBalance == CalledOnlyIfCleared /\ BillingIsTrue /\ TrailIsClosed /\ PermitsExact

\* Every call ends and gives back its permit, with a silent tool, policy and log.
ToolCallEnds == \A c \in ToolCalls : tstep[c] = "request" ~> tstep[c] = "done"
=============================================================================
