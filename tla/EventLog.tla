------------------------------ MODULE EventLog ------------------------------
(***************************************************************************)
(* What one send of an agent event may do (agent/log_transport.rs): PING   *)
(* and XADD to the Redis stream, else HTTP.  Every call has its timeout,   *)
(* after which it may still take effect, so an event may be logged although *)
(* its send reports an error, and twice although it was sent once.         *)
(***************************************************************************)
EXTENDS Naturals

\* The result told to the caller, and the copies that reach the log.
Sent(ok, copies) == [ok |-> ok, copies |-> copies]

\* As if the HTTP transport tried again after an error.
SendHttp_Retries(http) ==
    IF http THEN {Sent(ok, n) : ok \in BOOLEAN, n \in 1..2} ELSE {Sent(FALSE, 0)}

\* send_http: disabled, accepted, or failed before or after it took effect.
SendHttp(http) ==
    IF http THEN {Sent(TRUE, 1), Sent(FALSE, 0), Sent(FALSE, 1)} ELSE {Sent(FALSE, 0)}

\* AgentEventLogTransport::send; without Redis, or when its PING fails, HTTP at once.
SendEvent(sink) ==
    SendHttp(sink.http) \cup
    IF sink.redis
    THEN {Sent(TRUE, 1)} \cup
         {Sent(h.ok, h.copies + added) : h \in SendHttp(sink.http), added \in 0..1}
    ELSE {}
=============================================================================
