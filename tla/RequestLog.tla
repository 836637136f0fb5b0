------------------------------ MODULE RequestLog ------------------------------
(***************************************************************************)
(* The log record of a request: which path of the pipeline emits it, and   *)
(* the task that then collects the response, moves large bodies to the     *)
(* object store, hands the record to the transport and emits the agent     *)
(* events it observes in the response.                                     *)
(*                                                                         *)
(* Every path that logs sets a marker before it spawns the task.  The      *)
(* fallback middleware looks at the marker when the layers below it return *)
(* an error; they do not, because an ErrorHandler below has turned every   *)
(* error into a response.                                                  *)
(*                                                                         *)
(* The transport writes to a Redis stream, or posts to the log collector.  *)
(* A failed PING of Redis degrades the process to HTTP for good; a task    *)
(* reads the flag once, before its PING, so one that read it earlier goes  *)
(* on to Redis all the same.  A failed XADD loses the record.  An answer   *)
(* may also be lost after the write took effect.                           *)
(***************************************************************************)
EXTENDS Naturals, FiniteSets

CONSTANTS
    LogRequests,  \* requests that have passed authentication
    LogKinds      \* the kinds of them a run explores, a subset of LogKindSet

(***************************************************************************)
(* path: a response (of a provider or a cache) reaches DispatchLogger;     *)
(* the content filter denies in the dispatcher or in the mapper; another   *)
(* error comes first.  protected: the route protects its payloads.  big:   *)
(* the sides of 1 MiB or more.  wire: what the client speaks.  observed:   *)
(* the request names an agent and agents are enabled.                      *)
(***************************************************************************)
LogKindSet == [path : {"response", "denied", "mapperDenied", "failed"},
               protected : BOOLEAN, big : SUBSET {"request", "response"},
               stream : BOOLEAN, wire : {"chat", "responses"}, observed : BOOLEAN]

ASSUME RequestLogAssumption == LogKinds \subseteq LogKindSet /\ IsFiniteSet(LogRequests)

VARIABLES
    observability,  \* is_observability_enabled
    transport,      \* "http", "redis", or "noClient" (Redis without a URL)
    degraded,       \* RedisStreamLogTransport.degraded
    about,          \* request -> its kind
    emitted,        \* request -> RequestLogEmitted
    answered,       \* requests whose response has left the stack
    logTask,        \* request -> where its log task is
    inStore,        \* objects put: pairs of a request and a side
    copies,         \* request -> records of it that arrived, per sink
    observedEvents  \* requests whose agent events have been emitted

logVars == <<observability, transport, degraded, about, emitted, answered, logTask, inStore,
             copies, observedEvents>>

LogTaskStates == {"none", "collect", "putRequest", "putResponse", "observe", "send", "ping", "xadd",
                  "http", "after", "done", "lost"}

(* Types of the variables.                                                 *)
RequestLogTypeOK ==
    /\ observability \in BOOLEAN /\ degraded \in BOOLEAN
    /\ transport \in {"http", "redis", "noClient"}
    /\ about \in [LogRequests -> LogKinds]
    /\ emitted \in [LogRequests -> BOOLEAN]
    /\ answered \subseteq LogRequests
    /\ logTask \in [LogRequests -> LogTaskStates]
    /\ inStore \subseteq LogRequests \X {"request", "response"}
    /\ copies \in [LogRequests -> [redis : 0 .. 1, http : 0 .. 1]]
    /\ observedEvents \subseteq LogRequests

RequestLogInit ==
    /\ observability \in BOOLEAN /\ degraded = FALSE
    /\ transport \in {"http", "redis", "noClient"}
    /\ about \in [LogRequests -> LogKinds]
    /\ emitted = [r \in LogRequests |-> FALSE]
    /\ answered = {}
    /\ logTask = [r \in LogRequests |-> "none"]
    /\ inStore = {}
    /\ copies = [r \in LogRequests |-> [redis |-> 0, http |-> 0]]
    /\ observedEvents = {}

-----------------------------------------------------------------------------
(* The dispatcher logs what it answers or denies with the route's          *)
(* protection; the mapper's denial log does not ask for it.                *)
Redacted(r) == about[r].protected /\ about[r].path # "mapperDenied"

(* The protected view of a body is a few numbers: it is never large.       *)
Large(r) == IF Redacted(r) THEN {} ELSE about[r].big

(* Redaction clears the agent context, and with it what is observed.       *)
Observed(r) == about[r].observed /\ ~Redacted(r)

LogGoto(r, s) == logTask' = [logTask EXCEPT ![r] = s]

Emit(r) == emitted' = [emitted EXCEPT ![r] = TRUE] /\ LogGoto(r, "collect")

Unserved(r) == r \notin answered /\ logTask[r] = "none" /\ ~emitted[r]

(* DispatchLogger::handle: without observability only the marker is set.   *)
LogResponse(r) ==
    /\ Unserved(r) /\ about[r].path = "response"
    /\ IF observability
       THEN Emit(r)
       ELSE emitted' = [emitted EXCEPT ![r] = TRUE] /\ UNCHANGED logTask
    /\ UNCHANGED <<observability, transport, degraded, about, answered, inStore, copies, observedEvents>>

(* emit_policy_deny_request_log and emit_mapper_policy_deny_log.           *)
LogDenial(r) ==
    /\ Unserved(r) /\ about[r].path \in {"denied", "mapperDenied"} /\ observability
    /\ Emit(r)
    /\ UNCHANGED <<observability, transport, degraded, about, answered, inStore, copies, observedEvents>>

(* What the layers below FallbackRequestLog return: the ErrorHandler       *)
(* between has made a response of every error.                             *)
ReturnsError(r) == FALSE

(* The response leaves the stack.  A denial may go without a log: without  *)
(* observability, or when the provider has no configuration or URL.        *)
Answer(r) ==
    /\ r \notin answered
    /\ about[r].path = "response" => emitted[r]
    /\ answered' = answered \cup {r}
    /\ IF ReturnsError(r) /\ ~emitted[r] /\ observability
       THEN LogGoto(r, "collect")
       ELSE UNCHANGED logTask
    /\ UNCHANGED <<observability, transport, degraded, about, emitted, inStore, copies, observedEvents>>

-----------------------------------------------------------------------------
(* LoggerService::log.  The metadata is read from the headers; a header    *)
(* that is not text ends the task.                                         *)
Malformed(r) ==
    /\ logTask[r] = "collect" /\ LogGoto(r, "lost")
    /\ UNCHANGED <<observability, transport, degraded, about, emitted, answered, inStore, copies, observedEvents>>

(* The response has been received to its end: both bodies are stored as    *)
(* objects when either is large, the request first.                        *)
Collect(r) ==
    /\ logTask[r] = "collect" /\ r \in answered
    /\ LogGoto(r, IF Large(r) # {} THEN "putRequest" ELSE "observe")
    /\ UNCHANGED <<observability, transport, degraded, about, emitted, answered, inStore, copies, observedEvents>>

SideOf(s) == IF s = "putRequest" THEN "request" ELSE "response"

PutObject(r) ==
    /\ logTask[r] \in {"putRequest", "putResponse"}
    /\ inStore' = inStore \cup {<<r, SideOf(logTask[r])>>}
    /\ LogGoto(r, IF logTask[r] = "putRequest" THEN "putResponse" ELSE "observe")
    /\ UNCHANGED <<observability, transport, degraded, about, emitted, answered, copies, observedEvents>>

PutFails(r) ==
    /\ logTask[r] \in {"putRequest", "putResponse"} /\ LogGoto(r, "lost")
    /\ UNCHANGED <<observability, transport, degraded, about, emitted, answered, inStore, copies, observedEvents>>

(* The tool calls of a chat completion that was not streamed are emitted   *)
(* before the record is sent, all other events after it.                   *)
EarlyEvents(r) == Observed(r) /\ about[r].wire = "chat" /\ ~about[r].stream

(* A failure to emit is only warned of.                                    *)
MayEmit(r) == observedEvents' \in {observedEvents, observedEvents \cup {r}}

ObserveChat(r) ==
    /\ logTask[r] = "observe"
    /\ IF EarlyEvents(r) THEN MayEmit(r) ELSE UNCHANGED observedEvents
    /\ LogGoto(r, "send")
    /\ UNCHANGED <<observability, transport, degraded, about, emitted, answered, inStore, copies>>

-----------------------------------------------------------------------------
(* LogTransport::send: the flag is read first, and only here.              *)
SendHttp(r) ==
    /\ logTask[r] = "send" /\ (transport = "http" \/ degraded)
    /\ LogGoto(r, "http")
    /\ UNCHANGED <<observability, transport, degraded, about, emitted, answered, inStore, copies, observedEvents>>

StartPing(r) ==
    /\ logTask[r] = "send" /\ transport = "redis" /\ ~degraded
    /\ LogGoto(r, "ping")
    /\ UNCHANGED <<observability, transport, degraded, about, emitted, answered, inStore, copies, observedEvents>>

(* No client, or a PING that fails.                                        *)
Degrade(r) ==
    /\ \/ logTask[r] = "send" /\ transport = "noClient" /\ ~degraded
       \/ logTask[r] = "ping"
    /\ degraded' = TRUE
    /\ LogGoto(r, "http")
    /\ UNCHANGED <<observability, transport, about, emitted, answered, inStore, copies, observedEvents>>

(* The PING is answered; another task may have degraded the process since. *)
Pinged(r) ==
    /\ logTask[r] = "ping"
    /\ LogGoto(r, "xadd")
    /\ UNCHANGED <<observability, transport, degraded, about, emitted, answered, inStore, copies, observedEvents>>

SinkOf(s) == IF s = "xadd" THEN "redis" ELSE "http"

Written(r) == copies' = [copies EXCEPT ![r][SinkOf(logTask[r])] = @ + 1]

Deliver(r) ==
    /\ logTask[r] \in {"xadd", "http"}
    /\ Written(r) /\ LogGoto(r, "after")
    /\ UNCHANGED <<observability, transport, degraded, about, emitted, answered, inStore, observedEvents>>

(* Fault: the record goes to HTTP.                                         *)
OnError_Fallback(r) == IF logTask[r] = "xadd" THEN "http" ELSE "lost"

(* What follows a failed write: the error ends the task.                   *)
OnError(r) == "lost"

(* The write fails, or took effect and its answer is lost.                 *)
DeliverFails(r) ==
    /\ logTask[r] \in {"xadd", "http"}
    /\ \/ UNCHANGED copies
       \/ Written(r)
    /\ LogGoto(r, OnError(r))
    /\ UNCHANGED <<observability, transport, degraded, about, emitted, answered, inStore, observedEvents>>

ObserveRest(r) ==
    /\ logTask[r] = "after"
    /\ IF Observed(r) /\ ~EarlyEvents(r) THEN MayEmit(r) ELSE UNCHANGED observedEvents
    /\ LogGoto(r, "done")
    /\ UNCHANGED <<observability, transport, degraded, about, emitted, answered, inStore, copies>>

RequestLogNext ==
    \E r \in LogRequests :
        \/ LogResponse(r) \/ LogDenial(r) \/ Answer(r)
        \/ Malformed(r) \/ Collect(r) \/ PutObject(r) \/ PutFails(r) \/ ObserveChat(r)
        \/ SendHttp(r) \/ StartPing(r) \/ Degrade(r) \/ Pinged(r)
        \/ Deliver(r) \/ DeliverFails(r) \/ ObserveRest(r)

RequestLogSpec == RequestLogInit /\ [][RequestLogNext]_logVars

-----------------------------------------------------------------------------
Copies(r) == copies[r].redis + copies[r].http

(***************************************************************************)
(* However the transport fails, degrades or loses an answer, a request has *)
(* at most one record, and a task that ran to its end delivered it.           *)
(***************************************************************************)
LoggedOnce ==
    \A r \in LogRequests : Copies(r) <= 1 /\ (logTask[r] = "done" => Copies(r) = 1)

(***************************************************************************)
(* A record that arrived refers to objects exactly when one of its bodies  *)
(* is large, and then both objects are in the store.                       *)
(***************************************************************************)
RecordResolves ==
    \A r \in LogRequests : Copies(r) > 0 =>
        {side \in {"request", "response"} : <<r, side>> \in inStore}
            = IF Large(r) # {} THEN {"request", "response"} ELSE {}

(***************************************************************************)
(* A body of a protected route in the object store, or an event about its  *)
(* content, comes from one place only: the denial log of the mapper, which *)
(* is emitted without redaction (DispatcherConfig says that rejected       *)
(* requests are protected too; the code does not do so for these).         *)
(***************************************************************************)
OnlyMapperDenialsLeak ==
    \A r \in LogRequests :
        /\ about[r].protected
        /\ r \in observedEvents \/ \E side \in {"request", "response"} : <<r, side>> \in inStore
        => about[r].path = "mapperDenied"

(***************************************************************************)
(* Except for chat completions that are not streamed, an event observed in *)
(* a response exists only beside the record of its request.                *)
(***************************************************************************)
EventsFollowRecord ==
    \A r \in observedEvents : EarlyEvents(r) \/ Copies(r) = 1

(***************************************************************************)
(* A request's record, objects and events agree with each other, whatever  *)
(* fails, and of a protected route nothing is stored or observed but what  *)
(* the mapper's denial log gives away.  A record may be lost (a failed     *)
(* XADD or POST is not retried): that one arrives is not said.             *)
(***************************************************************************)
RecordsAgree == LoggedOnce /\ RecordResolves /\ OnlyMapperDenialsLeak /\ EventsFollowRecord

(***************************************************************************)
(* Once the process is degraded it stays so, and a task starts a PING or a *)
(* write to Redis only when it had read the flag before that.              *)
(***************************************************************************)
DegradedForGood ==
    [][degraded =>
         /\ degraded'
         /\ \A r \in LogRequests :
               /\ logTask'[r] = "ping" => logTask[r] = "ping"
               /\ logTask'[r] = "xadd" => logTask[r] \in {"ping", "xadd"}]_logVars
=============================================================================
